------------------------------ MODULE IpcPump ------------------------------
(***************************************************************************)
(* How messages and timer ticks reach the main loop of a process           *)
(* (lib/msg_ipc_r.c, lib/sigevent.c, thread_fetch of lib/thread.c).        *)
(*                                                                         *)
(* A receive thread blocks on each message queue of the process and        *)
(* forwards what it gets into one pipe, on which the main loop selects.    *)
(* The threads are started one after the other, before the main loop, and  *)
(* each copies its parameters from one static record.                      *)
(* SIGALRM is handled in the first receive thread: the handler counts the  *)
(* tick, sends an empty message to the process's own queue so that select  *)
(* wakes up, and only then raises sigmaster.caught, which the main loop    *)
(* looks at before every select.                                           *)
(*                                                                         *)
(* The counters are plain memory shared by two threads: caught ++ is a     *)
(* load and a store, and the main loop reads and clears it in two steps.   *)
(***************************************************************************)
EXTENDS Integers, Sequences, FiniteSets

CONSTANTS
  Threads,       \* receive threads, one per queue
  SigThread,     \* the first one, in which SIGALRM is unblocked
  TickThread,    \* the one that serves the queue the ticks are sent to
  QueueMax,      \* messages a queue holds
  PipeMax,       \* messages the pipe holds
  PipeFails,     \* whether a read or a write of the pipe may fail
  MaxMsg,        \* bound: messages other modules send
  MaxTick        \* bound: SIGALRMs

ASSUME PumpAssumption ==
  /\ SigThread \in Threads /\ TickThread \in Threads
  /\ QueueMax \in Nat \ {0} /\ PipeMax \in Nat \ {0}
  /\ PipeFails \in BOOLEAN /\ MaxMsg \in Nat /\ MaxTick \in Nat

TICK == 0        \* the message without a buffer (gBTimerMsgData)

VARIABLES
  started,       \* threads that ipc_recv_thread_start has created
  par,           \* sParVa: the thread whose parameters it holds
  serves,        \* for each thread that runs, whose parameters it copied
  que,           \* the message queues, one for each receive thread
  rmsg,          \* the message a receive thread holds, a sequence of length <= 1
  pipe,          \* [cb, msg]: callback index and message
  hpc, hval,     \* the signal handler: next step, and the value it loaded
  caught,        \* sig->caught of SIGALRM
  mcaught,       \* sigmaster.caught
  mpc, count,    \* the main loop: next step, and its copy of caught
  sent,          \* ghost: thread whose queue each message went to
  done,          \* ghost: messages handled, as [cb, msg], in order
  freed,         \* ghost: messages, ticks too, dropped after a failed write
  alarms, ran,   \* ghost: ticks delivered, and ticks given to the timers
  races          \* ghost: ticks lost or doubled by a race on caught

vars == <<started, par, serves, que, rmsg, pipe, hpc, hval, caught, mcaught, mpc, count, sent, done,
          freed, alarms, ran, races>>

(* sParVa is zero before the first start, and nobody reads it. *)
Init ==
  /\ started = {} /\ par = SigThread /\ serves = <<>>
  /\ que = [r \in Threads |-> <<>>]
  /\ rmsg = [r \in Threads |-> <<>>]
  /\ pipe = <<>>
  /\ hpc = "none" /\ hval = 0
  /\ caught = 0 /\ mcaught = 0
  /\ mpc = "start" /\ count = 0
  /\ sent = <<>> /\ done = <<>> /\ freed = {}
  /\ alarms = 0 /\ ran = 0 /\ races = 0

threads == <<started, par, serves>>
main    == <<threads, mpc, count, ran>>
handler == <<hpc, hval, alarms>>
traffic == <<que, rmsg, pipe, sent, done, freed>>

-----------------------------------------------------------------------------
(* Mutant: ipc_recv_thread_start returns at once. *)
Waited_Not == TRUE

(* usleep(300000) after pthread_create: by then the new thread has run and has
   copied its parameters. *)
Waited == started \subseteq DOMAIN serves

(* ipc_recv_thread_start: the callback is entered, sParVa is filled in for thread
   r and the thread is created. *)
Start(r) ==
  /\ mpc = "start"
  /\ r \notin started
  /\ started = {} => r = SigThread
  /\ Waited
  /\ par' = r
  /\ started' = started \cup {r}
  /\ UNCHANGED <<serves, mpc, count, ran, caught, mcaught, races, handler, traffic>>

(* The thread begins with a copy of sParVa, whatever it holds by now: its queue,
   and the index of its callback. *)
Enter(r) ==
  /\ r \in started \ DOMAIN serves
  /\ serves' = [t \in DOMAIN serves \cup {r} |-> IF t = r THEN par ELSE serves[t]]
  /\ UNCHANGED <<started, par, mpc, count, ran, caught, mcaught, races, handler, traffic>>

(* All threads are started: the timer is switched on and the main loop begins. *)
Started ==
  /\ mpc = "start"
  /\ started = Threads
  /\ Waited
  /\ mpc' = "check"
  /\ UNCHANGED <<threads, count, ran, caught, mcaught, races, handler, traffic>>

(* msgsnd with IPC_NOWAIT succeeds. *)
Room(r) == Len(que[r]) < QueueMax

(* Another module sends a message to this process. *)
Arrive(r) ==
  /\ Len(sent) < MaxMsg
  /\ Room(r)
  /\ sent' = Append(sent, r)
  /\ que' = [que EXCEPT ![r] = Append(@, Len(sent) + 1)]
  /\ UNCHANGED <<rmsg, pipe, done, freed, caught, mcaught, races, main, handler>>

(* SIGALRM interrupts the first receive thread: caught ++ begins. *)
Alarm ==
  /\ mpc # "start"
  /\ hpc = "none"
  /\ alarms < MaxTick
  /\ alarms' = alarms + 1
  /\ hval' = caught
  /\ hpc' = "store"
  /\ UNCHANGED <<caught, mcaught, races, main, traffic>>

(* caught ++ ends.  A read-and-clear of the main loop in between is undone: the
   ticks it took are counted again. *)
HandlerStore ==
  /\ hpc = "store"
  /\ caught' = hval + 1
  /\ hpc' = "send"
  /\ races' = races + (IF caught = hval THEN 0 ELSE 1)
  /\ UNCHANGED <<hval, alarms, mcaught, main, traffic>>

(* high_pre_timer_call: ipc_send_msg_n0 ignores a full queue. *)
HandlerSend ==
  /\ hpc = "send"
  /\ que' = IF Room(TickThread)
            THEN [que EXCEPT ![TickThread] = Append(@, TICK)] ELSE que
  /\ hpc' = "set"
  /\ UNCHANGED <<rmsg, pipe, sent, done, freed, hval, alarms, caught, mcaught, races, main>>

(* The last statement of quagga_signal_handler. *)
HandlerSet ==
  /\ hpc = "set"
  /\ mcaught' = 1
  /\ hpc' = "none"
  /\ UNCHANGED <<hval, alarms, caught, races, main, traffic>>

(* Mutant: SIGALRM is left to a thread of its own. *)
Running_Always(r) == r \in DOMAIN serves

(* A receive thread does not run before it is started, nor while it executes the
   signal handler. *)
Running(r) == r \in DOMAIN serves /\ (r = SigThread => hpc = "none")

(* ipc_recv_que_n returns with a message of the queue the thread serves. *)
Receive(r) ==
  /\ Running(r)
  /\ rmsg[r] = <<>>
  /\ que[serves[r]] # <<>>
  /\ rmsg' = [rmsg EXCEPT ![r] = <<Head(que[serves[r]])>>]
  /\ que' = [que EXCEPT ![serves[r]] = Tail(@)]
  /\ UNCHANGED <<pipe, sent, done, freed, caught, mcaught, races, main, handler>>

(* Mutant: a full pipe drops the message. *)
Forward_Drop(r) ==
  /\ Running(r)
  /\ rmsg[r] # <<>>
  /\ pipe' = IF Len(pipe) < PipeMax THEN Append(pipe, [cb |-> serves[r], msg |-> rmsg[r][1]])
             ELSE pipe
  /\ rmsg' = [rmsg EXCEPT ![r] = <<>>]
  /\ UNCHANGED <<que, sent, done, freed, caught, mcaught, races, main, handler>>

(* The message goes into the pipe with the thread's callback index; a write
   into a full pipe blocks. *)
Forward(r) ==
  /\ Running(r)
  /\ rmsg[r] # <<>>
  /\ Len(pipe) < PipeMax
  /\ pipe' = Append(pipe, [cb |-> serves[r], msg |-> rmsg[r][1]])
  /\ rmsg' = [rmsg EXCEPT ![r] = <<>>]
  /\ UNCHANGED <<que, sent, done, freed, caught, mcaught, races, main, handler>>

(* The write fails: the message is freed, a tick message is just gone. *)
ForwardFails(r) ==
  /\ PipeFails
  /\ Running(r)
  /\ rmsg[r] # <<>>
  /\ freed' = freed \cup {rmsg[r][1]}
  /\ rmsg' = [rmsg EXCEPT ![r] = <<>>]
  /\ UNCHANGED <<que, pipe, sent, done, caught, mcaught, races, main, handler>>

-----------------------------------------------------------------------------
(* quagga_sigevent_process: the flag is cleared before the counters are
   looked at. *)
Check ==
  /\ mpc = "check"
  /\ IF mcaught > 0 THEN mcaught' = 0 /\ mpc' = "count"
                    ELSE mpc' = "select" /\ UNCHANGED mcaught
  /\ UNCHANGED <<threads, count, ran, caught, races, handler, traffic>>

Count ==
  /\ mpc = "count"
  /\ count' = caught
  /\ mpc' = IF caught > 0 THEN "clear" ELSE "select"
  /\ UNCHANGED <<threads, ran, caught, mcaught, races, handler, traffic>>

(* sig->caught = 0.  A tick stored since the read is lost. *)
Clear ==
  /\ mpc = "clear"
  /\ caught' = 0
  /\ races' = races + (IF caught = count THEN 0 ELSE 1)
  /\ mpc' = "run"
  /\ UNCHANGED <<threads, count, ran, mcaught, handler, traffic>>

(* Mutants: one call however many ticks; the flag is cleared at the end. *)
RunTicks_Once ==
  /\ mpc = "run"
  /\ ran' = ran + 1 /\ count' = 0 /\ mpc' = "select"
  /\ UNCHANGED <<threads, caught, mcaught, races, handler, traffic>>
RunTicks_ClearFlag ==
  /\ mpc = "run"
  /\ ran' = ran + count /\ count' = 0 /\ mpc' = "select" /\ mcaught' = 0
  /\ UNCHANGED <<threads, caught, races, handler, traffic>>

(* The handler of SIGALRM, high_pre_timer_dotick, once per tick counted. *)
RunTicks ==
  /\ mpc = "run"
  /\ ran' = ran + count
  /\ count' = 0
  /\ mpc' = "select"
  /\ UNCHANGED <<threads, caught, mcaught, races, handler, traffic>>

(* select returns because the pipe is readable; ipc_recv_thread_read takes one
   message, calls the callback of the thread it came through, ignores a tick,
   and asks for the next one.  Its two frees, of a message with a bad callback
   index or without a header, are not reached: Enter gives a thread an index in
   use, and the senders refuse a message shorter than the header. *)
Read ==
  /\ mpc = "select"
  /\ pipe # <<>>
  /\ pipe' = Tail(pipe)
  /\ done' = IF Head(pipe).msg = TICK THEN done ELSE Append(done, Head(pipe))
  /\ mpc' = "check"
  /\ UNCHANGED <<threads, que, rmsg, sent, freed, count, ran, caught, mcaught, races, handler>>

(* The read fails: the message stays in the pipe. *)
ReadFails ==
  /\ PipeFails
  /\ mpc = "select"
  /\ pipe # <<>>
  /\ mpc' = "check"
  /\ UNCHANGED <<threads, count, ran, caught, mcaught, races, handler, traffic>>

(* select returns after its second without anything to read. *)
SelectTimeout ==
  /\ mpc = "select"
  /\ pipe = <<>>
  /\ mpc' = "check"
  /\ UNCHANGED <<threads, count, ran, caught, mcaught, races, handler, traffic>>

Handler == HandlerStore \/ HandlerSend \/ HandlerSet
Begin == Started \/ \E r \in Threads : Start(r)
MainLoop == Check \/ Count \/ Clear \/ RunTicks \/ Read

Next ==
  \/ Begin \/ Alarm \/ Handler \/ MainLoop \/ ReadFails \/ SelectTimeout
  \/ \E r \in Threads : Enter(r) \/ Arrive(r) \/ Receive(r) \/ Forward(r) \/ ForwardFails(r)

(* Every thread gets the CPU, select is called with a timeout of a second, and
   reading the pipe does not fail for ever. *)
Fairness ==
  /\ WF_vars(Begin) /\ WF_vars(Handler) /\ WF_vars(MainLoop) /\ WF_vars(SelectTimeout)
  /\ SF_vars(Read)
  /\ \A r \in Threads : WF_vars(Enter(r)) /\ SF_vars(Receive(r)) /\ SF_vars(Forward(r))

Spec == Init /\ [][Next]_vars /\ Fairness

-----------------------------------------------------------------------------
(* No lost wake-up: when the main loop waits in select and a tick is flagged,
   something that will end the wait before its timeout is in the pipe or on its
   way, even when the tick's own message found the queue full.  This needs the
   tick's queue to be served by the thread that handles SIGALRM. *)
NoLostWakeup ==
  mpc = "select" /\ mcaught > 0 /\ freed = {} /\ SigThread = TickThread =>
    \/ hpc # "none"
    \/ pipe # <<>>
    \/ \E r \in Threads : rmsg[r] # <<>> \/ que[r] # <<>>

(* Ticks are counted exactly, except in the two windows where the handler and
   the main loop race for caught: what SIGALRM delivered is what the timers
   were given plus what waits for them. *)
TicksExact ==
  races = 0 /\ hpc # "store" /\ mpc # "clear" =>
    alarms = ran + caught + (IF mpc = "run" THEN count ELSE 0)

(* Each message is handled once, by the callback of the queue it was sent to,
   and in the order in which it was sent to that queue, although the threads
   take their queue and callback from one static record.  This needs a thread
   to run within the 300 ms that Waited stands for. *)
InOrder ==
  /\ \A i \in DOMAIN done : done[i].cb = sent[done[i].msg]
  /\ \A i, j \in DOMAIN done :
       i < j => /\ done[i].msg # done[j].msg
                /\ done[i].cb = done[j].cb => done[i].msg < done[j].msg

(* A tick that was counted is given to the timers, even when the write that was
   to wake the main loop failed. *)
TicksServed == caught > 0 ~> caught = 0

(* A message that was sent is handled, or freed after a failed write. *)
Delivered ==
  \A k \in 1 .. MaxMsg :
    Len(sent) >= k ~> (k \in freed \/ \E i \in DOMAIN done : done[i].msg = k)
=============================================================================
