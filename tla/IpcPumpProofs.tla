--------------------------- MODULE IpcPumpProofs ---------------------------
(***************************************************************************)
(* Proofs about IpcPump, for every number of receive threads, size of the  *)
(* queues and the pipe, and number of messages and ticks: no wake-up is    *)
(* lost, the ticks are counted exactly outside the two races, and messages *)
(* are handled once and in order.                                          *)
(***************************************************************************)
EXTENDS IpcPump, TLAPS

Entries == [cb : Threads, msg : Nat]

(* Why a thread serves its own queue: when the next start overwrites sParVa, no
   thread has still to copy it. *)
OwnQueue ==
  /\ started \subseteq Threads /\ DOMAIN serves \subseteq started
  /\ \A r \in DOMAIN serves : serves[r] = r
  /\ \A r \in started \ DOMAIN serves : par = r

(* The types of the variables; a receive thread holds at most one message and
   serves its own queue. *)
PumpTypeOK ==
  /\ OwnQueue
  /\ que \in [Threads -> Seq(Nat)]
  /\ rmsg \in [Threads -> Seq(Nat)]
  /\ \A r \in Threads : Len(rmsg[r]) <= 1
  /\ pipe \in Seq(Entries)
  /\ hpc \in {"none", "store", "send", "set"} /\ hval \in Nat
  /\ caught \in Nat /\ mcaught \in Nat
  /\ mpc \in {"start", "check", "count", "clear", "run", "select"} /\ count \in Nat
  /\ sent \in Seq(Threads) /\ done \in Seq(Entries)
  /\ alarms \in Nat /\ ran \in Nat /\ races \in Nat

(* What was appended to is not empty. *)
LEMMA AppendNotEmpty == ASSUME NEW S, NEW q \in Seq(S), NEW e \in S PROVE Append(q, e) # <<>>
<1>1. Len(Append(q, e)) = Len(q) + 1 /\ Len(q) \in Nat
  OBVIOUS
<1>2. Len(<<>>) = 0
  OBVIOUS
<1> QED BY <1>1, <1>2

(* The variables have their types in the first state. *)
LEMMA TypeInit == Init => PumpTypeOK
BY PumpAssumption DEF Init, PumpTypeOK, OwnQueue, Entries

(* Starting a thread, and its first step, keep the threads apart. *)
LEMMA StartOwn ==
  ASSUME OwnQueue, NEW r \in Threads, Start(r) \/ Enter(r) PROVE OwnQueue'
<1>1. CASE Start(r)
  BY <1>1 DEF OwnQueue, Start, Waited
<1>2. CASE Enter(r)
  <2>1. /\ DOMAIN serves' = DOMAIN serves \cup {r} /\ serves'[r] = par
        /\ \A t \in DOMAIN serves \ {r} : serves'[t] = serves[t]
        /\ started' = started /\ par' = par /\ r \in started \ DOMAIN serves
    BY <1>2 DEF Enter
  <2> QED BY <2>1 DEF OwnQueue
<1> QED BY <1>1, <1>2

(* Every step keeps the types. *)
LEMMA TypeNext == PumpTypeOK /\ [Next]_vars => PumpTypeOK'
<1> SUFFICES ASSUME PumpTypeOK, [Next]_vars PROVE PumpTypeOK'
  OBVIOUS
<1> USE PumpAssumption
<1>0. ASSUME UNCHANGED threads PROVE OwnQueue'
  BY <1>0 DEF PumpTypeOK, OwnQueue, threads
<1>1. CASE Alarm
  BY <1>0, <1>1 DEF PumpTypeOK, Alarm, main, traffic
<1>2. CASE HandlerStore
  BY <1>0, <1>2 DEF PumpTypeOK, HandlerStore, main, traffic
<1>3. CASE HandlerSend
  BY <1>0, <1>3 DEF PumpTypeOK, HandlerSend, main, TICK
<1>4. CASE HandlerSet
  BY <1>0, <1>4 DEF PumpTypeOK, HandlerSet, main, traffic
<1>5. CASE Check
  BY <1>0, <1>5 DEF PumpTypeOK, Check, handler, traffic
<1>6. CASE Count
  BY <1>0, <1>6 DEF PumpTypeOK, Count, handler, traffic
<1>7. CASE Clear
  BY <1>0, <1>7 DEF PumpTypeOK, Clear, handler, traffic
<1>8. CASE RunTicks
  BY <1>0, <1>8 DEF PumpTypeOK, RunTicks, handler, traffic
<1>9. CASE Read
  <2>1. Head(pipe) \in Entries /\ Tail(pipe) \in Seq(Entries)
    BY <1>9 DEF PumpTypeOK, Read
  <2> QED BY <1>0, <1>9, <2>1 DEF PumpTypeOK, Read, handler
<1>10. CASE SelectTimeout
  BY <1>0, <1>10 DEF PumpTypeOK, SelectTimeout, handler, traffic
<1>11. ASSUME NEW r \in Threads, Arrive(r) PROVE PumpTypeOK'
  BY <1>0, <1>11 DEF PumpTypeOK, Arrive, main, handler
<1>12. ASSUME NEW r \in Threads, Receive(r) PROVE PumpTypeOK'
  <2>1. que[r] \in Seq(Nat) /\ que[r] # <<>> /\ serves[r] = r
    BY <1>12 DEF PumpTypeOK, OwnQueue, Receive, Running
  <2>2. Head(que[r]) \in Nat /\ Tail(que[r]) \in Seq(Nat)
    BY <2>1
  <2>3. que' \in [Threads -> Seq(Nat)]
    BY <1>12, <2>1, <2>2 DEF PumpTypeOK, Receive
  <2>4. rmsg' \in [Threads -> Seq(Nat)] /\ \A t \in Threads : Len(rmsg'[t]) <= 1
    <3> DEFINE h == <<Head(que[r])>>
    <3>1. h \in Seq(Nat) /\ Len(h) = 1 /\ rmsg' = [rmsg EXCEPT ![r] = h]
      BY <1>12, <2>1, <2>2 DEF Receive
    <3> HIDE DEF h
    <3>2. rmsg \in [Threads -> Seq(Nat)] /\ \A t \in Threads : Len(rmsg[t]) <= 1
      BY DEF PumpTypeOK
    <3>3. \A t \in Threads : rmsg'[t] = IF t = r THEN h ELSE rmsg[t]
      BY <3>1, <3>2
    <3>4. rmsg' \in [Threads -> Seq(Nat)]
      BY <3>1, <3>2
    <3>5. ASSUME NEW t \in Threads PROVE Len(rmsg'[t]) <= 1
      <4>1. CASE t = r
        <5>1. rmsg'[t] = h
          BY <3>3, <4>1
        <5>2. Len(h) <= 1
          BY <3>1
        <5> QED BY <5>1, <5>2
      <4>2. CASE t # r
        BY <3>2, <3>3, <4>2
      <4> QED BY <4>1, <4>2
    <3> QED BY <3>4, <3>5
  <2> QED BY <1>0, <1>12, <2>3, <2>4 DEF PumpTypeOK, Receive, main, handler
<1>13. ASSUME NEW r \in Threads, Forward(r) PROVE PumpTypeOK'
  <2>1. [cb |-> serves[r], msg |-> rmsg[r][1]] \in Entries
    BY <1>13 DEF PumpTypeOK, OwnQueue, Forward, Running, Entries
  <2> QED BY <1>0, <1>13, <2>1 DEF PumpTypeOK, Forward, main, handler
<1>14. ASSUME NEW r \in Threads, ForwardFails(r) PROVE PumpTypeOK'
  BY <1>0, <1>14 DEF PumpTypeOK, ForwardFails, main, handler
<1>15. CASE UNCHANGED vars
  BY <1>0, <1>15 DEF PumpTypeOK, vars, threads
<1>16. CASE ReadFails
  BY <1>0, <1>16 DEF PumpTypeOK, ReadFails, handler, traffic
<1>17. CASE Started
  BY <1>0, <1>17 DEF PumpTypeOK, Started, handler, traffic
<1>18. ASSUME NEW r \in Threads, Start(r) \/ Enter(r) PROVE PumpTypeOK'
  BY <1>18, StartOwn DEF PumpTypeOK, Start, Enter, handler, traffic
<1> QED BY <1>1, <1>2, <1>3, <1>4, <1>5, <1>6, <1>7, <1>8, <1>9, <1>10, <1>11, <1>12, <1>13,
           <1>14, <1>15, <1>16, <1>17, <1>18 DEF Next, Begin, Handler, MainLoop

(* The variables always have their types. *)
THEOREM PumpTypeCorrect == Spec => []PumpTypeOK
BY TypeInit, TypeNext, PTL DEF Spec

-----------------------------------------------------------------------------
(* Something that will end the wait of select is on its way. *)
OnItsWay == pipe # <<>> \/ \E r \in Threads : rmsg[r] # <<>> \/ que[r] # <<>>

(* Why no wake-up is lost: once the tick is sent its queue is not empty, and the
   thread that would empty it is the one that runs the handler; from when the
   main loop has looked at the flag, a raised flag has a message behind it. *)
WakeInv ==
  SigThread = TickThread =>
    /\ hpc = "set" => que[TickThread] # <<>>
    /\ mpc \notin {"start", "check"} /\ mcaught > 0 /\ freed = {} => hpc # "none" \/ OnItsWay

(* Every step keeps the wake-up invariant. *)
LEMMA WakeNext == PumpTypeOK /\ WakeInv /\ [Next]_vars => WakeInv'
<1> SUFFICES ASSUME PumpTypeOK, WakeInv, [Next]_vars, SigThread = TickThread PROVE WakeInv'
  BY DEF WakeInv
<1> USE PumpAssumption
<1>1. CASE Alarm
  BY <1>1 DEF WakeInv, OnItsWay, Alarm, main, traffic
<1>2. CASE HandlerStore
  BY <1>2 DEF WakeInv, OnItsWay, HandlerStore, main, traffic
<1>3. CASE HandlerSend
  <2>1. que'[TickThread] # <<>>
    <3>0. que[TickThread] \in Seq(Nat) /\ TICK \in Nat
      BY DEF PumpTypeOK, TICK
    <3>1. Append(que[TickThread], TICK) # <<>>
      BY <3>0, AppendNotEmpty
    <3>2. CASE Room(TickThread)
      <4>1. que'[TickThread] = Append(que[TickThread], TICK)
        BY <1>3, <3>2 DEF PumpTypeOK, HandlerSend
      <4> QED BY <3>1, <4>1
    <3>3. CASE ~Room(TickThread)
      <4>1. Len(que[TickThread]) > 0 /\ que' = que
        BY <1>3, <3>0, <3>3 DEF HandlerSend, Room
      <4> QED BY <4>1
    <3> QED BY <3>2, <3>3
  <2> QED BY <1>3, <2>1 DEF WakeInv, OnItsWay, HandlerSend, main
<1>4. CASE HandlerSet
  BY <1>4 DEF WakeInv, OnItsWay, HandlerSet, main, traffic
<1>5. CASE Check
  BY <1>5 DEF PumpTypeOK, WakeInv, OnItsWay, Check, handler, traffic
<1>6. CASE Count
  BY <1>6 DEF WakeInv, OnItsWay, Count, handler, traffic
<1>7. CASE Clear
  BY <1>7 DEF WakeInv, OnItsWay, Clear, handler, traffic
<1>8. CASE RunTicks
  BY <1>8 DEF WakeInv, OnItsWay, RunTicks, handler, traffic
<1>9. CASE Read
  BY <1>9 DEF WakeInv, OnItsWay, Read, handler
<1>10. CASE SelectTimeout
  BY <1>10 DEF WakeInv, OnItsWay, SelectTimeout, handler, traffic
<1>11. ASSUME NEW r \in Threads, Arrive(r) PROVE WakeInv'
  <2>1. que'[r] # <<>> /\ (que[TickThread] # <<>> => que'[TickThread] # <<>>)
    <3>1. que[r] \in Seq(Nat) /\ Len(sent) + 1 \in Nat
      BY DEF PumpTypeOK
    <3>2. Append(que[r], Len(sent) + 1) # <<>>
      BY <3>1, AppendNotEmpty
    <3>3. que'[r] = Append(que[r], Len(sent) + 1) /\ \A t \in Threads \ {r} : que'[t] = que[t]
      BY <1>11 DEF PumpTypeOK, Arrive
    <3>4. que'[r] # <<>>
      BY <3>2, <3>3
    <3> QED BY <3>3, <3>4
  <2> QED BY <1>11, <2>1 DEF WakeInv, OnItsWay, Arrive, main, handler
<1>12. ASSUME NEW r \in Threads, Receive(r) PROVE WakeInv'
  <2>1. rmsg'[r] # <<>>
    BY <1>12 DEF PumpTypeOK, Receive
  <2>2. hpc = "set" => que'[TickThread] = que[TickThread]
    BY <1>12 DEF PumpTypeOK, OwnQueue, Receive, Running
  <2> QED BY <1>12, <2>1, <2>2 DEF WakeInv, OnItsWay, Receive, main, handler
<1>13. ASSUME NEW r \in Threads, Forward(r) PROVE WakeInv'
  <2>1. pipe' # <<>>
    BY <1>13 DEF PumpTypeOK, Forward
  <2> QED BY <1>13, <2>1 DEF WakeInv, OnItsWay, Forward, main, handler
<1>14. ASSUME NEW r \in Threads, ForwardFails(r) PROVE WakeInv'
  BY <1>14 DEF WakeInv, ForwardFails, main, handler
<1>15. CASE UNCHANGED vars
  BY <1>15 DEF WakeInv, OnItsWay, vars
<1>16. CASE ReadFails
  BY <1>16 DEF WakeInv, OnItsWay, ReadFails, handler, traffic
<1>17. CASE Started
  BY <1>17 DEF WakeInv, OnItsWay, Started, handler, traffic
<1>18. ASSUME NEW r \in Threads, Start(r) \/ Enter(r) PROVE WakeInv'
  BY <1>18 DEF WakeInv, OnItsWay, Start, Enter, handler, traffic
<1> QED BY <1>1, <1>2, <1>3, <1>4, <1>5, <1>6, <1>7, <1>8, <1>9, <1>10, <1>11, <1>12, <1>13,
           <1>14, <1>15, <1>16, <1>17, <1>18 DEF Next, Begin, Handler, MainLoop

(* When the main loop waits in select and a tick is flagged, a message is in the
   pipe or on its way, unless a write has failed: the flag that the signal handler
   raises after the send is never left without a message behind it. *)
THEOREM NoWakeupLost == Spec => []NoLostWakeup
<1>1. Init => WakeInv
  BY DEF Init, WakeInv
<1>2. WakeInv => NoLostWakeup
  BY DEF WakeInv, NoLostWakeup, OnItsWay
<1> QED BY <1>1, <1>2, TypeInit, TypeNext, WakeNext, PTL DEF Spec

-----------------------------------------------------------------------------
(* What SIGALRM has delivered and the timers have not been given. *)
Waiting ==
  caught + (IF mpc = "run" THEN count ELSE 0) + (IF hpc = "store" THEN 1 ELSE 0)

(* Why the ticks are exact: without a race so far the value that the handler
   loaded is the one it adds to, or the main loop has cleared caught since and the
   store will be a race; and what the main loop read is not less than it was. *)
TickInv ==
  /\ mpc = "clear" => count > 0
  /\ races = 0 =>
       /\ hpc = "store" => hval = caught \/ caught = 0
       /\ (hpc = "store" => hval = caught) => alarms = ran + Waiting

(* Every step keeps the invariant of the ticks. *)
LEMMA TickNext == PumpTypeOK /\ TickInv /\ [Next]_vars => TickInv'
<1> SUFFICES ASSUME PumpTypeOK, TickInv, [Next]_vars PROVE TickInv'
  OBVIOUS
<1>1. CASE Alarm
  BY <1>1 DEF PumpTypeOK, TickInv, Waiting, Alarm, main, traffic
<1>2. CASE HandlerStore
  BY <1>2 DEF PumpTypeOK, TickInv, Waiting, HandlerStore, main, traffic
<1>3. CASE HandlerSend
  BY <1>3 DEF PumpTypeOK, TickInv, Waiting, HandlerSend, main
<1>4. CASE HandlerSet
  BY <1>4 DEF PumpTypeOK, TickInv, Waiting, HandlerSet, main, traffic
<1>5. CASE Check
  BY <1>5 DEF PumpTypeOK, TickInv, Waiting, Check, handler, traffic
<1>6. CASE Count
  BY <1>6 DEF PumpTypeOK, TickInv, Waiting, Count, handler, traffic
<1>7. CASE Clear
  BY <1>7 DEF PumpTypeOK, TickInv, Waiting, Clear, handler, traffic
<1>8. CASE RunTicks
  BY <1>8 DEF PumpTypeOK, TickInv, Waiting, RunTicks, handler, traffic
<1>9. CASE Read
  BY <1>9 DEF PumpTypeOK, TickInv, Waiting, Read, handler
<1>10. CASE SelectTimeout
  BY <1>10 DEF PumpTypeOK, TickInv, Waiting, SelectTimeout, handler, traffic
<1>11. ASSUME NEW r \in Threads, Arrive(r) \/ Receive(r) \/ Forward(r) \/ ForwardFails(r)
       PROVE  TickInv'
  BY <1>11 DEF TickInv, Waiting, Arrive, Receive, Forward, ForwardFails, main, handler
<1>12. CASE UNCHANGED vars
  BY <1>12 DEF TickInv, Waiting, vars
<1>13. CASE ReadFails \/ Started
  BY <1>13 DEF TickInv, Waiting, ReadFails, Started, handler, traffic
<1>14. ASSUME NEW r \in Threads, Start(r) \/ Enter(r) PROVE TickInv'
  BY <1>14 DEF TickInv, Waiting, Start, Enter, handler, traffic
<1> QED BY <1>1, <1>2, <1>3, <1>4, <1>5, <1>6, <1>7, <1>8, <1>9, <1>10, <1>11, <1>12, <1>13,
           <1>14 DEF Next, Begin, Handler, MainLoop

(* Outside the two windows in which the handler and the main loop race for caught,
   what SIGALRM delivered is what the timers were given plus what waits for them. *)
THEOREM TicksCountedExactly == Spec => []TicksExact
<1>1. Init => TickInv
  BY DEF Init, TickInv, Waiting
<1>2. PumpTypeOK /\ TickInv => TicksExact
  BY DEF PumpTypeOK, TickInv, TicksExact, Waiting
<1> QED BY <1>1, <1>2, TypeInit, TypeNext, TickNext, PTL DEF Spec

-----------------------------------------------------------------------------
(* A message of thread r. *)
Entry(r, m) == [cb |-> r, msg |-> m]

(* It was sent to the queue of its thread; s is the variable sent. *)
WasSent(s, e) == e.msg # TICK => e.msg <= Len(s) /\ s[e.msg] = e.cb

(* Of two messages of one thread e was sent before f. *)
Before(e, f) == e.cb = f.cb /\ e.msg # TICK /\ f.msg # TICK => e.msg < f.msg
Ascending(q) == \A i, j \in DOMAIN q : i < j => Before(q[i], q[j])

(* What thread r holds and what its queue holds, as they will be in the pipe. *)
Tagged(r, q) == [i \in DOMAIN q |-> Entry(r, q[i])]

(* The messages of q were sent, in their order. *)
Flows(s, q) == Ascending(q) /\ \A i \in DOMAIN q : WasSent(s, q[i])

(* The messages of p come before those of q. *)
Ahead(p, q) == \A i \in DOMAIN p, j \in DOMAIN q : Before(p[i], q[j])

(* Why messages stay in order: along done, the pipe, the message that the thread
   holds and its queue, the messages of a thread ascend. *)
OrderInv ==
  /\ \A i \in DOMAIN done : done[i].msg # TICK
  /\ Flows(sent, done) /\ Flows(sent, pipe) /\ Ahead(done, pipe)
  /\ \A r \in Threads :
       /\ Flows(sent, Tagged(r, rmsg[r])) /\ Flows(sent, Tagged(r, que[r]))
       /\ Ahead(done, Tagged(r, rmsg[r])) /\ Ahead(done, Tagged(r, que[r]))
       /\ Ahead(pipe, Tagged(r, rmsg[r])) /\ Ahead(pipe, Tagged(r, que[r]))
       /\ Ahead(Tagged(r, rmsg[r]), Tagged(r, que[r]))

(* A tagged queue is a sequence of entries. *)
LEMMA TaggedType ==
  ASSUME NEW r \in Threads, NEW q \in Seq(Nat)
  PROVE  /\ Tagged(r, q) \in Seq(Entries) /\ Len(Tagged(r, q)) = Len(q)
         /\ Tagged(r, <<>>) = <<>>
         /\ \A m \in Nat : Tagged(r, Append(q, m)) = Append(Tagged(r, q), Entry(r, m))
         /\ q # <<>> => /\ Tagged(r, Tail(q)) = Tail(Tagged(r, q))
                        /\ Tagged(r, <<Head(q)>>) = <<Entry(r, Head(q))>>
                        /\ Head(Tagged(r, q)) = Entry(r, Head(q))
                        /\ Tagged(r, q) # <<>>
<1>0. \A m \in Nat : Entry(r, m) \in Entries
  BY DEF Entry, Entries
<1>1. Tagged(r, q) \in Seq(Entries) /\ Len(Tagged(r, q)) = Len(q)
  BY <1>0 DEF Tagged
<1>2. Tagged(r, <<>>) = <<>>
  BY DEF Tagged
<1>3. ASSUME NEW m \in Nat PROVE Tagged(r, Append(q, m)) = Append(Tagged(r, q), Entry(r, m))
  BY <1>0, <1>1 DEF Tagged
<1>4. ASSUME q # <<>>
      PROVE  /\ Tagged(r, Tail(q)) = Tail(Tagged(r, q))
             /\ Tagged(r, <<Head(q)>>) = <<Entry(r, Head(q))>>
             /\ Head(Tagged(r, q)) = Entry(r, Head(q))
             /\ Tagged(r, q) # <<>>
  <2>1. Tail(q) \in Seq(Nat) /\ Len(Tail(q)) = Len(q) - 1 /\ Head(q) \in Nat /\ Len(q) > 0
    BY <1>4
  <2>2. Tagged(r, q) # <<>> /\ Tail(Tagged(r, q)) \in Seq(Entries)
    BY <1>1, <2>1
  <2>3. Tagged(r, Tail(q)) = Tail(Tagged(r, q))
    BY <1>1, <2>1, <2>2 DEF Tagged
  <2>4. Tagged(r, <<Head(q)>>) = <<Entry(r, Head(q))>>
    BY <1>0, <2>1 DEF Tagged
  <2>5. Head(Tagged(r, q)) = Entry(r, Head(q))
    BY <1>1, <2>1, <2>2 DEF Tagged
  <2> QED BY <2>2, <2>3, <2>4, <2>5
<1> QED BY <1>1, <1>2, <1>3, <1>4

(* Nothing is ahead of and nothing behind an empty sequence. *)
LEMMA EmptyOrder == \A s, q : Flows(s, <<>>) /\ Ahead(<<>>, q) /\ Ahead(q, <<>>)
BY DEF Flows, Ascending, Ahead

(* An entry goes to the end of a sequence. *)
LEMMA AppendOrder ==
  ASSUME NEW q \in Seq(Entries), NEW e \in Entries
  PROVE  /\ \A s : Flows(s, q) /\ Flows(s, <<e>>) /\ Ahead(q, <<e>>) => Flows(s, Append(q, e))
         /\ \A p : Ahead(p, q) /\ Ahead(p, <<e>>) => Ahead(p, Append(q, e))
         /\ \A p : Ahead(q, p) /\ Ahead(<<e>>, p) => Ahead(Append(q, e), p)
<1> DEFINE a == Append(q, e)
<1>1. /\ DOMAIN a = 1 .. Len(q) + 1 /\ DOMAIN q = 1 .. Len(q) /\ Len(q) \in Nat
      /\ \A i \in 1 .. Len(q) : a[i] = q[i]
      /\ a[Len(q) + 1] = e
  OBVIOUS
<1>2. DOMAIN <<e>> = {1} /\ <<e>>[1] = e
  OBVIOUS
<1> HIDE DEF a
<1>3. ASSUME NEW s, Flows(s, q), Flows(s, <<e>>), Ahead(q, <<e>>) PROVE Flows(s, a)
  <2>1. \A i \in 1 .. Len(q) : Before(q[i], e)
    BY <1>1, <1>2, <1>3 DEF Ahead
  <2>2. \A i \in DOMAIN a : WasSent(s, a[i])
    BY <1>1, <1>2, <1>3 DEF Flows
  <2>3. \A i, j \in 1 .. Len(q) : i < j => Before(q[i], q[j])
    BY <1>1, <1>3 DEF Flows, Ascending
  <2>4. \A i, j \in DOMAIN a : i < j => Before(a[i], a[j])
    BY <1>1, <2>1, <2>3
  <2> QED BY <2>2, <2>4 DEF Flows, Ascending
<1>4. ASSUME NEW p, Ahead(p, q), Ahead(p, <<e>>) PROVE Ahead(p, a)
  BY <1>1, <1>2, <1>4 DEF Ahead
<1>5. ASSUME NEW p, Ahead(q, p), Ahead(<<e>>, p) PROVE Ahead(a, p)
  BY <1>1, <1>2, <1>5 DEF Ahead
<1> QED BY <1>3, <1>4, <1>5 DEF a

(* The first entry of a sequence leaves it. *)
LEMMA TailOrder ==
  ASSUME NEW q \in Seq(Entries), q # <<>>
  PROVE  /\ Head(q) \in Entries /\ Tail(q) \in Seq(Entries)
         /\ \A s : Flows(s, q) => /\ Flows(s, Tail(q)) /\ Flows(s, <<Head(q)>>)
                                  /\ Ahead(<<Head(q)>>, Tail(q))
         /\ \A p : Ahead(p, q) => Ahead(p, Tail(q)) /\ Ahead(p, <<Head(q)>>)
         /\ \A p : Ahead(q, p) => Ahead(Tail(q), p) /\ Ahead(<<Head(q)>>, p)
<1> DEFINE h == Head(q)
           t == Tail(q)
<1>1. /\ h \in Entries /\ t \in Seq(Entries) /\ h = q[1] /\ Len(q) \in Nat /\ Len(q) > 0
      /\ DOMAIN q = 1 .. Len(q) /\ DOMAIN t = 1 .. Len(q) - 1
      /\ \A i \in 1 .. Len(q) - 1 : t[i] = q[i + 1]
  OBVIOUS
<1>2. DOMAIN <<h>> = {1} /\ <<h>>[1] = h
  OBVIOUS
<1> HIDE DEF h, t
<1>3. ASSUME NEW s, Flows(s, q) PROVE Flows(s, t) /\ Flows(s, <<h>>) /\ Ahead(<<h>>, t)
  <2>1. \A i, j \in 1 .. Len(q) : i < j => Before(q[i], q[j])
    BY <1>1, <1>3 DEF Flows, Ascending
  <2>2. Ascending(t) /\ Ascending(<<h>>) /\ Ahead(<<h>>, t)
    BY <1>1, <1>2, <2>1 DEF Ascending, Ahead
  <2>3. (\A i \in DOMAIN t : WasSent(s, t[i])) /\ WasSent(s, h)
    BY <1>1, <1>3 DEF Flows
  <2> QED BY <1>2, <2>2, <2>3 DEF Flows
<1>4. \A i \in DOMAIN t : i + 1 \in DOMAIN q /\ t[i] = q[i + 1]
  BY <1>1
<1>5. 1 \in DOMAIN q
  BY <1>1
<1>6. ASSUME NEW p, Ahead(p, q) PROVE Ahead(p, t) /\ Ahead(p, <<h>>)
  <2>1. \A i \in DOMAIN p, j \in DOMAIN q : Before(p[i], q[j])
    BY <1>6 DEF Ahead
  <2>2. (\A i \in DOMAIN p, j \in DOMAIN t : Before(p[i], t[j])) /\ (\A i \in DOMAIN p : Before(p[i], h))
    BY <1>1, <1>4, <1>5, <2>1
  <2> QED BY <1>2, <2>2 DEF Ahead
<1>7. ASSUME NEW p, Ahead(q, p) PROVE Ahead(t, p) /\ Ahead(<<h>>, p)
  <2>1. \A i \in DOMAIN q, j \in DOMAIN p : Before(q[i], p[j])
    BY <1>7 DEF Ahead
  <2>2. (\A i \in DOMAIN t, j \in DOMAIN p : Before(t[i], p[j])) /\ (\A j \in DOMAIN p : Before(h, p[j]))
    BY <1>1, <1>4, <1>5, <2>1
  <2> QED BY <1>2, <2>2 DEF Ahead
<1> QED BY <1>1, <1>3, <1>6, <1>7 DEF h, t

(* A new message comes after all that were sent before it, a tick after anything. *)
LEMMA NewIsLast ==
  ASSUME NEW s \in Seq(Threads), NEW r \in Threads
  PROVE  /\ \A q \in Seq(Entries) : Flows(s, q) => /\ Flows(Append(s, r), q)
                                                   /\ Ahead(q, <<Entry(r, Len(s) + 1)>>)
         /\ Flows(Append(s, r), <<Entry(r, Len(s) + 1)>>)
         /\ Flows(s, <<Entry(r, TICK)>>)
         /\ \A q : Ahead(q, <<Entry(r, TICK)>>)
         /\ \A m \in Nat : Entry(r, m) \in Entries
<1> DEFINE a == Append(s, r)
           n == Len(s) + 1
<1>1. /\ Len(a) = n /\ a[n] = r /\ Len(s) \in Nat /\ n \in Nat
      /\ \A m \in 1 .. Len(s) : a[m] = s[m]
  OBVIOUS
<1>2. \A m : /\ DOMAIN <<Entry(r, m)>> = {1} /\ <<Entry(r, m)>>[1] = Entry(r, m)
             /\ Entry(r, m).cb = r /\ Entry(r, m).msg = m
  BY DEF Entry
<1>3. \A m \in Nat : Entry(r, m) \in Entries
  BY DEF Entry, Entries
<1> HIDE DEF a, n
<1>4. \A e \in Entries : WasSent(s, e) => WasSent(a, e) /\ Before(e, Entry(r, n))
  BY <1>1, <1>2 DEF WasSent, Before, Entries, TICK, n
<1>5. ASSUME NEW q \in Seq(Entries), Flows(s, q) PROVE Flows(a, q) /\ Ahead(q, <<Entry(r, n)>>)
  <2>1. \A i \in DOMAIN q : q[i] \in Entries
    OBVIOUS
  <2> QED BY <1>2, <1>4, <1>5, <2>1 DEF Flows, Ahead
<1>6. Flows(a, <<Entry(r, n)>>) /\ Flows(s, <<Entry(r, TICK)>>)
  BY <1>1, <1>2 DEF Flows, Ascending, WasSent
<1>7. ASSUME NEW q PROVE Ahead(q, <<Entry(r, TICK)>>)
  BY <1>2 DEF Ahead, Before
<1> QED BY <1>3, <1>5, <1>6, <1>7 DEF a, n

(* The variables in the form that the lemmas above are about. *)
LEMMA OrderTypes ==
  ASSUME PumpTypeOK
  PROVE  /\ sent \in Seq(Threads) /\ done \in Seq(Entries) /\ pipe \in Seq(Entries)
         /\ \A r \in Threads : /\ que[r] \in Seq(Nat) /\ rmsg[r] \in Seq(Nat)
                               /\ Tagged(r, que[r]) \in Seq(Entries)
                               /\ Tagged(r, rmsg[r]) \in Seq(Entries)
BY TaggedType DEF PumpTypeOK

(* A message arrives: it is the last of its queue, and the last that was sent. *)
LEMMA ArriveOrder ==
  ASSUME PumpTypeOK, OrderInv, NEW r \in Threads, Arrive(r) PROVE OrderInv'
<1> DEFINE e == Entry(r, Len(sent) + 1)
<1>1. /\ que'[r] = Append(que[r], Len(sent) + 1) /\ Len(sent) + 1 \in Nat
      /\ \A t \in Threads \ {r} : que'[t] = que[t]
      /\ sent' = Append(sent, r) /\ rmsg' = rmsg /\ pipe' = pipe /\ done' = done
  BY DEF PumpTypeOK, Arrive
<1>2. Tagged(r, que'[r]) = Append(Tagged(r, que[r]), e)
  <2>1. que[r] \in Seq(Nat)
    BY OrderTypes
  <2>2. \A m \in Nat : Tagged(r, Append(que[r], m)) = Append(Tagged(r, que[r]), Entry(r, m))
    BY <2>1, TaggedType
  <2> QED BY <1>1, <2>2
<1>3. /\ \A q \in Seq(Entries) : Flows(sent, q) => Flows(sent', q) /\ Ahead(q, <<e>>)
      /\ Flows(sent', <<e>>) /\ e \in Entries
  BY <1>1, OrderTypes, NewIsLast
<1> HIDE DEF e
<1>4. ASSUME NEW t \in Threads
      PROVE  /\ Flows(sent', Tagged(t, rmsg'[t])) /\ Flows(sent', Tagged(t, que'[t]))
             /\ Ahead(done', Tagged(t, rmsg'[t])) /\ Ahead(done', Tagged(t, que'[t]))
             /\ Ahead(pipe', Tagged(t, rmsg'[t])) /\ Ahead(pipe', Tagged(t, que'[t]))
             /\ Ahead(Tagged(t, rmsg'[t]), Tagged(t, que'[t]))
  <2>1. CASE t # r
    BY <1>1, <1>3, <2>1, OrderTypes DEF OrderInv
  <2>2. CASE t = r
    BY <1>1, <1>2, <1>3, <2>2, OrderTypes, AppendOrder DEF OrderInv
  <2> QED BY <2>1, <2>2
<1>5. Flows(sent', done') /\ Flows(sent', pipe') /\ Ahead(done', pipe')
  BY <1>1, <1>3, OrderTypes DEF OrderInv
<1> QED BY <1>1, <1>4, <1>5 DEF OrderInv

(* A tick goes to the end of its queue. *)
LEMMA TickOrder == ASSUME PumpTypeOK, OrderInv, HandlerSend PROVE OrderInv'
<1> DEFINE r == TickThread
           e == Entry(r, TICK)
<1>0. r \in Threads /\ TICK \in Nat
  BY PumpAssumption DEF TICK
<1>1. /\ que'[r] = Append(que[r], TICK) \/ que'[r] = que[r]
      /\ \A t \in Threads \ {r} : que'[t] = que[t]
      /\ sent' = sent /\ rmsg' = rmsg /\ pipe' = pipe /\ done' = done
  BY <1>0 DEF PumpTypeOK, HandlerSend
<1>2. Tagged(r, Append(que[r], TICK)) = Append(Tagged(r, que[r]), e)
  BY <1>0, OrderTypes, TaggedType
<1>3. Flows(sent, <<e>>) /\ e \in Entries /\ \A q : Ahead(q, <<e>>)
  BY <1>0, OrderTypes, NewIsLast
<1> HIDE DEF e, r
<1>4. ASSUME NEW t \in Threads
      PROVE  /\ Flows(sent', Tagged(t, rmsg'[t])) /\ Flows(sent', Tagged(t, que'[t]))
             /\ Ahead(done', Tagged(t, rmsg'[t])) /\ Ahead(done', Tagged(t, que'[t]))
             /\ Ahead(pipe', Tagged(t, rmsg'[t])) /\ Ahead(pipe', Tagged(t, que'[t]))
             /\ Ahead(Tagged(t, rmsg'[t]), Tagged(t, que'[t]))
  <2>1. CASE que'[t] = que[t]
    BY <1>1, <2>1 DEF OrderInv
  <2>2. CASE t = r /\ que'[r] = Append(que[r], TICK)
    <3> DEFINE q == Tagged(r, que[r])
    <3>1. Tagged(t, que'[t]) = Append(q, e) /\ t \in Threads /\ rmsg'[t] = rmsg[r]
      BY <1>1, <1>2, <2>2
    <3>2. /\ q \in Seq(Entries) /\ Flows(sent, q) /\ Ahead(done, q) /\ Ahead(pipe, q)
          /\ Ahead(Tagged(r, rmsg[r]), q)
      BY <2>2, OrderTypes DEF OrderInv
    <3>3. Flows(sent, Tagged(r, rmsg[r])) /\ Ahead(done, Tagged(r, rmsg[r])) /\ Ahead(pipe, Tagged(r, rmsg[r]))
      BY <2>2 DEF OrderInv
    <3> HIDE DEF q
    <3>4. /\ Flows(sent, Append(q, e))
          /\ \A p : Ahead(p, q) => Ahead(p, Append(q, e))
      BY <1>3, <3>2, AppendOrder
    <3> QED BY <1>1, <2>2, <3>1, <3>2, <3>3, <3>4
  <2> QED BY <1>1, <2>1, <2>2
<1> QED BY <1>1, <1>4 DEF OrderInv

(* The thread takes the first message of its queue. *)
LEMMA ReceiveOrder ==
  ASSUME PumpTypeOK, OrderInv, NEW r \in Threads, Receive(r) PROVE OrderInv'
<1> DEFINE q == Tagged(r, que[r])
<1>1. /\ que[r] # <<>> /\ rmsg[r] = <<>>
      /\ rmsg'[r] = <<Head(que[r])>> /\ que'[r] = Tail(que[r])
      /\ \A t \in Threads \ {r} : que'[t] = que[t] /\ rmsg'[t] = rmsg[t]
      /\ sent' = sent /\ pipe' = pipe /\ done' = done
  <2>1. serves[r] = r
    BY DEF PumpTypeOK, OwnQueue, Receive, Running
  <2> QED BY <2>1 DEF PumpTypeOK, Receive
<1>2. /\ q \in Seq(Entries) /\ q # <<>>
      /\ Tagged(r, que'[r]) = Tail(q) /\ Tagged(r, rmsg'[r]) = <<Head(q)>>
  BY <1>1, OrderTypes, TaggedType
<1> HIDE DEF q
<1>3. ASSUME NEW t \in Threads
      PROVE  /\ Flows(sent', Tagged(t, rmsg'[t])) /\ Flows(sent', Tagged(t, que'[t]))
             /\ Ahead(done', Tagged(t, rmsg'[t])) /\ Ahead(done', Tagged(t, que'[t]))
             /\ Ahead(pipe', Tagged(t, rmsg'[t])) /\ Ahead(pipe', Tagged(t, que'[t]))
             /\ Ahead(Tagged(t, rmsg'[t]), Tagged(t, que'[t]))
  <2>1. CASE t # r
    BY <1>1, <2>1 DEF OrderInv
  <2>2. CASE t = r
    <3>1. Flows(sent, q) /\ Ahead(done, q) /\ Ahead(pipe, q)
      BY DEF OrderInv, q
    <3> QED BY <1>1, <1>2, <2>2, <3>1, TailOrder
  <2> QED BY <2>1, <2>2
<1> QED BY <1>1, <1>3 DEF OrderInv

(* The message that a thread holds goes into the pipe. *)
LEMMA ForwardOrder ==
  ASSUME PumpTypeOK, OrderInv, NEW r \in Threads, Forward(r) PROVE OrderInv'
<1> DEFINE e == Entry(r, rmsg[r][1])
<1>1. /\ rmsg[r] # <<>> /\ rmsg'[r] = <<>> /\ pipe' = Append(pipe, e)
      /\ \A t \in Threads \ {r} : rmsg'[t] = rmsg[t]
      /\ sent' = sent /\ que' = que /\ done' = done
  <2>1. serves[r] = r
    BY DEF PumpTypeOK, OwnQueue, Forward, Running
  <2> QED BY <2>1 DEF PumpTypeOK, Forward, Entry
<1>2. e \in Entries /\ Tagged(r, rmsg[r]) = <<e>>
  <2>1. rmsg[r] \in Seq(Nat) /\ rmsg[r] = <<Head(rmsg[r])>> /\ Head(rmsg[r]) = rmsg[r][1] /\ rmsg[r][1] \in Nat
    BY <1>1 DEF PumpTypeOK
  <2> QED BY <1>1, <2>1, TaggedType, NewIsLast, OrderTypes
<1>3. Tagged(r, <<>>) = <<>>
  BY OrderTypes, TaggedType
<1> HIDE DEF e
<1>4. Flows(sent, pipe') /\ Ahead(done, pipe')
  BY <1>1, <1>2, OrderTypes, AppendOrder DEF OrderInv
<1>5. ASSUME NEW t \in Threads
      PROVE  /\ Flows(sent', Tagged(t, rmsg'[t])) /\ Flows(sent', Tagged(t, que'[t]))
             /\ Ahead(done', Tagged(t, rmsg'[t])) /\ Ahead(done', Tagged(t, que'[t]))
             /\ Ahead(pipe', Tagged(t, rmsg'[t])) /\ Ahead(pipe', Tagged(t, que'[t]))
             /\ Ahead(Tagged(t, rmsg'[t]), Tagged(t, que'[t]))
  <2>1. CASE t # r
    <3>1. Ahead(<<e>>, Tagged(t, rmsg[t])) /\ Ahead(<<e>>, Tagged(t, que[t]))
      <4>1. e.cb = r /\ \A q : \A j \in DOMAIN Tagged(t, q) : Tagged(t, q)[j].cb = t
        BY DEF Tagged, Entry, e
      <4>2. DOMAIN <<e>> = {1} /\ <<e>>[1] = e
        OBVIOUS
      <4> QED BY <2>1, <4>1, <4>2 DEF Ahead, Before
    <3> QED BY <1>1, <1>2, <2>1, <3>1, OrderTypes, AppendOrder DEF OrderInv
  <2>2. CASE t = r
    <3>1. /\ Flows(sent, Tagged(r, que[r])) /\ Ahead(done, Tagged(r, que[r]))
          /\ Ahead(pipe, Tagged(r, que[r])) /\ Ahead(<<e>>, Tagged(r, que[r]))
      BY <1>2 DEF OrderInv
    <3>2. Ahead(pipe', Tagged(r, que[r]))
      BY <1>1, <1>2, <3>1, OrderTypes, AppendOrder
    <3> QED BY <1>1, <1>3, <2>2, <3>1, <3>2, EmptyOrder
  <2> QED BY <2>1, <2>2
<1> QED BY <1>1, <1>4, <1>5 DEF OrderInv

(* The message of a failed write is gone. *)
LEMMA ForwardFailsOrder ==
  ASSUME PumpTypeOK, OrderInv, NEW r \in Threads, ForwardFails(r) PROVE OrderInv'
<1>1. /\ rmsg'[r] = <<>> /\ \A t \in Threads \ {r} : rmsg'[t] = rmsg[t]
      /\ sent' = sent /\ que' = que /\ done' = done /\ pipe' = pipe
  BY DEF PumpTypeOK, ForwardFails
<1>2. Tagged(r, <<>>) = <<>>
  BY OrderTypes, TaggedType
<1>3. ASSUME NEW t \in Threads
      PROVE  /\ Flows(sent', Tagged(t, rmsg'[t])) /\ Flows(sent', Tagged(t, que'[t]))
             /\ Ahead(done', Tagged(t, rmsg'[t])) /\ Ahead(done', Tagged(t, que'[t]))
             /\ Ahead(pipe', Tagged(t, rmsg'[t])) /\ Ahead(pipe', Tagged(t, que'[t]))
             /\ Ahead(Tagged(t, rmsg'[t]), Tagged(t, que'[t]))
  BY <1>1, <1>2, EmptyOrder DEF OrderInv
<1> QED BY <1>1, <1>3 DEF OrderInv

(* The main loop handles the first message of the pipe, or drops a tick. *)
LEMMA ReadOrder == ASSUME PumpTypeOK, OrderInv, Read PROVE OrderInv'
<1> DEFINE h == Head(pipe)
<1>1. /\ pipe # <<>> /\ pipe' = Tail(pipe)
      /\ sent' = sent /\ que' = que /\ rmsg' = rmsg
      /\ done' = IF h.msg = TICK THEN done ELSE Append(done, h)
  BY DEF Read
<1>2. /\ h \in Entries /\ Tail(pipe) \in Seq(Entries)
      /\ Flows(sent, Tail(pipe)) /\ Flows(sent, <<h>>)
      /\ Ahead(<<h>>, Tail(pipe)) /\ Ahead(done, Tail(pipe)) /\ Ahead(done, <<h>>)
      /\ \A p : Ahead(pipe, p) => Ahead(Tail(pipe), p) /\ Ahead(<<h>>, p)
  BY <1>1, OrderTypes, TailOrder DEF OrderInv
<1> HIDE DEF h
<1>3. /\ Flows(sent, done') /\ Ahead(done', Tail(pipe))
      /\ \A p : Ahead(done, p) /\ Ahead(pipe, p) => Ahead(done', p)
  BY <1>1, <1>2, OrderTypes, AppendOrder DEF OrderInv
<1>4. \A i \in DOMAIN done' : done'[i].msg # TICK
  <2>1. CASE h.msg = TICK
    BY <1>1, <2>1 DEF OrderInv
  <2>2. CASE h.msg # TICK
    BY <1>1, <1>2, <2>2, OrderTypes DEF OrderInv
  <2> QED BY <2>1, <2>2
<1> QED BY <1>1, <1>2, <1>3, <1>4 DEF OrderInv

(* Every step keeps the order. *)
LEMMA OrderNext == PumpTypeOK /\ OrderInv /\ [Next]_vars => OrderInv'
<1> SUFFICES ASSUME PumpTypeOK, OrderInv, [Next]_vars PROVE OrderInv'
  OBVIOUS
<1>1. CASE Alarm \/ HandlerStore \/ HandlerSet \/ Check \/ Count \/ Clear \/ RunTicks \/ SelectTimeout
           \/ ReadFails \/ Started \/ \E r \in Threads : Start(r) \/ Enter(r)
  <2>1. sent' = sent /\ que' = que /\ rmsg' = rmsg /\ pipe' = pipe /\ done' = done
    BY <1>1 DEF Alarm, HandlerStore, HandlerSet, Check, Count, Clear, RunTicks, SelectTimeout,
               ReadFails, Started, Start, Enter, traffic
  <2> QED BY <2>1 DEF OrderInv
<1>2. CASE UNCHANGED vars
  BY <1>2 DEF OrderInv, vars
<1> QED BY <1>1, <1>2, TickOrder, ReadOrder, ArriveOrder, ReceiveOrder, ForwardOrder, ForwardFailsOrder
        DEF Next, Begin, Handler, MainLoop

(* Every message is handled at most once, by the callback of the queue that it was
   sent to, and in the order in which it was sent to that queue. *)
THEOREM MessagesInOrder == Spec => []InOrder
<1>1. Init => OrderInv
  <2> SUFFICES ASSUME Init PROVE OrderInv
    OBVIOUS
  <2>1. sent = <<>> /\ done = <<>> /\ pipe = <<>> /\ \A r \in Threads : que[r] = <<>> /\ rmsg[r] = <<>>
    BY DEF Init
  <2>2. \A r \in Threads : Tagged(r, <<>>) = <<>>
    BY DEF Tagged
  <2>3. DOMAIN done = {}
    BY <2>1
  <2> QED BY <2>1, <2>2, <2>3, EmptyOrder DEF OrderInv
<1>2. PumpTypeOK /\ OrderInv => InOrder
  <2> SUFFICES ASSUME PumpTypeOK, OrderInv PROVE InOrder
    OBVIOUS
  <2>1. \A i \in DOMAIN done : done[i].msg # TICK /\ done[i].cb = sent[done[i].msg] /\ done[i].msg \in Nat
    <3>1. \A i \in DOMAIN done : done[i] \in Entries
      BY OrderTypes
    <3>2. \A i \in DOMAIN done : done[i].msg \in Nat
      BY <3>1 DEF Entries
    <3> QED BY <3>2 DEF OrderInv, Flows, WasSent
  <2>2. \A i, j \in DOMAIN done : i < j /\ done[i].cb = done[j].cb => done[i].msg < done[j].msg
    BY <2>1 DEF OrderInv, Flows, Ascending, Before
  <2> QED BY <2>1, <2>2 DEF InOrder
<1> QED BY <1>1, <1>2, TypeInit, TypeNext, OrderNext, PTL DEF Spec
=============================================================================
