------------------------------- MODULE IpcMsg -------------------------------
(***************************************************************************)
(* The message API of lib/msg_ipc_n.c between the modules of the platform. *)
(*                                                                         *)
(* A message is a block of shared memory; what travels through a System V  *)
(* queue is its offset.  Each module has a bounded queue; answers to       *)
(* synchronous requests all go through the one queue MODULE_ID_REPLY_A,    *)
(* where a message's type is the module it is for.  A module's main thread *)
(* does everything: it serves its queue, and while it waits in             *)
(* ipc_sync_send_n1 it serves nobody.                                      *)
(*                                                                         *)
(* The receive thread and the pipe between a queue and its main thread are *)
(* in IpcPump; here a module takes the head of its queue when its main     *)
(* thread is free.  Allocation is atomic (MemShareSem justifies that).     *)
(***************************************************************************)
EXTENDS Integers, Sequences, FiniteSets

CONSTANTS
  Mods,          \* the modules
  Types,         \* msg_type and msg_subtype of a request
  Buffers,       \* the blocks of shared memory
  NoBuf,         \* the NULL pointer
  QueueMax,      \* messages a module's queue holds (msgmax)
  ReplyMax,      \* messages MODULE_ID_REPLY_A holds
  Retries,       \* attempts of one send ("retry" is 3 in the code)
  Polls,         \* looks at the reply queue before the timeout (iTmOut / 10)
  MaxSeq,        \* bound: messages sent in a behaviour, answers not counted
  MaxCrash       \* bound: how often a process dies

ASSUME IpcAssumption ==
  /\ Buffers \subseteq Int /\ NoBuf \notin Buffers
  /\ QueueMax \in Nat \ {0} /\ ReplyMax \in Nat \ {0}
  /\ Retries \in Nat \ {0} /\ Polls \in Nat \ {0}
  /\ MaxSeq \in Nat /\ MaxCrash \in Nat

VARIABLES
  que,           \* the queue of each module: a sequence of blocks
  replyq,        \* MODULE_ID_REPLY_A: a sequence of [recvmod, msgbuff]
  hdr,           \* the header in each block, NoHdr when it is not allocated
  pc,            \* where the main thread of each module is
  snd,           \* the block it is sending
  sndhdr,        \* ipc_sync_send_n1's copy of the header it sent
  retry, polls,  \* attempts and looks left
  work,          \* the message its handler is working on
  got,           \* the reply handed to the caller of a sync send
  seq,           \* ghost: number of the last message
  abandoned,     \* ghost: requests each module has stopped waiting for
  leaked,        \* ghost: blocks in the hands of a process that died
  crashes

vars == <<que, replyq, hdr, pc, snd, sndhdr, retry, polls, work, got, seq,
          abandoned, leaked, crashes>>

(* The field request is a ghost: the number of the request that a message is or
   answers.  The code has the field sequence for this, copies it into answers,
   but every sync sender leaves it 0 and nobody compares it. *)
NoHdr   == [opcode |-> "none"]

Init ==
  /\ que = [m \in Mods |-> <<>>]
  /\ replyq = <<>>
  /\ hdr = [b \in Buffers |-> NoHdr]
  /\ pc = [m \in Mods |-> "idle"]
  /\ snd = [m \in Mods |-> NoBuf]
  /\ sndhdr = [m \in Mods |-> NoHdr]
  /\ retry = [m \in Mods |-> 0]
  /\ polls = [m \in Mods |-> 0]
  /\ work = [m \in Mods |-> NoBuf]
  /\ got = [m \in Mods |-> NoBuf]
  /\ seq = 0
  /\ abandoned = [m \in Mods |-> {}]
  /\ leaked = {}
  /\ crashes = 0

-----------------------------------------------------------------------------
(* mem_share_malloc and mem_share_free of a message block. *)
FreeBufs == {b \in Buffers : hdr[b] = NoHdr}
(* The block that is handed out; which of the free ones makes no difference. *)
Taken == {b \in FreeBufs : \A c \in FreeBufs : b <= c}
Filled(b, h) == [hdr EXCEPT ![b] = h]
Freed(b) == [hdr EXCEPT ![b] = NoHdr]

(* Where the main thread goes on after a send or a sync send: handlers send,
   too. *)
Back(m) == IF work[m] = NoBuf THEN "idle" ELSE "handle"
Returned(m) == [sndhdr EXCEPT ![m] = NoHdr]

(* ipc_send_msg_n2 (op = "post") and ipc_sync_send_n2 (op = "request"), up to
   the first attempt: the block is allocated and its header filled in. *)
Send(m, dst, t, op) ==
  /\ pc[m] \in {"idle", "handle"}
  /\ dst # m
  /\ seq < MaxSeq
  /\ \E b \in Taken :
       LET h == [module_id |-> dst, sender_id |-> m, msg_type |-> t,
                 opcode |-> op, request |-> seq + 1]
       IN /\ hdr' = Filled(b, h)
          /\ snd' = [snd EXCEPT ![m] = b]
          /\ sndhdr' = [sndhdr EXCEPT ![m] = h]
  /\ seq' = seq + 1
  /\ retry' = [retry EXCEPT ![m] = Retries]
  /\ pc' = [pc EXCEPT ![m] = IF op = "request" THEN "drain" ELSE "send"]
  /\ UNCHANGED <<que, replyq, polls, work, got, abandoned, leaked, crashes>>

(* mem_share_malloc returned NULL: the send functions report it and return. *)
NoMemory(m) ==
  /\ pc[m] \in {"idle", "handle"}
  /\ FreeBufs = {}
  /\ UNCHANGED vars

(* Mutant: msgrcv with type 0 takes everybody's replies. *)
RepliesFor_Any(m) == DOMAIN replyq

(* Positions in the reply queue that msgrcv with type m may return, and the
   first of them. *)
RepliesFor(m) == {i \in DOMAIN replyq : replyq[i].recvmod = m}
FirstReply(m) == CHOOSE i \in RepliesFor(m) : \A j \in RepliesFor(m) : i <= j
Without(s, i) == SubSeq(s, 1, i - 1) \o SubSeq(s, i + 1, Len(s))

(* ipc_sync_send_n1 throws away the answers that came too late for earlier
   requests of this module, and goes on to send when there is none. *)
Drain(m) ==
  /\ pc[m] = "drain"
  /\ IF RepliesFor(m) = {}
     THEN /\ pc' = [pc EXCEPT ![m] = "send"]
          /\ UNCHANGED <<replyq, hdr>>
     ELSE /\ replyq' = Without(replyq, FirstReply(m))
          /\ hdr' = Freed(replyq[FirstReply(m)].msgbuff)
          /\ UNCHANGED pc
  /\ UNCHANGED <<que, snd, sndhdr, retry, polls, work, got, seq, abandoned,
                 leaked, crashes>>

(* The loop around msgsnd(..., IPC_NOWAIT) that every send function has: the
   block is in the queue, or an attempt is used up; the sender frees the block
   when the last one failed (ipc_sync_send_n2 does for a request). *)
TrySend(m) ==
  /\ pc[m] = "send"
  /\ LET dst  == sndhdr[m].module_id
         sync == sndhdr[m].opcode = "request"
     IN \/ /\ Len(que[dst]) < QueueMax
           /\ que' = [que EXCEPT ![dst] = Append(@, snd[m])]
           /\ snd' = [snd EXCEPT ![m] = NoBuf]
           /\ pc' = [pc EXCEPT ![m] = IF sync THEN "poll" ELSE Back(m)]
           /\ polls' = [polls EXCEPT ![m] = IF sync THEN Polls ELSE @]
           /\ sndhdr' = IF sync THEN sndhdr ELSE Returned(m)
           /\ retry' = [retry EXCEPT ![m] = 0]
           /\ UNCHANGED hdr
        \/ /\ Len(que[dst]) >= QueueMax
           /\ retry' = [retry EXCEPT ![m] = @ - 1]
           /\ IF retry[m] > 1 THEN UNCHANGED <<hdr, snd, pc, sndhdr>>
              ELSE /\ hdr' = Freed(snd[m])
                   /\ snd' = [snd EXCEPT ![m] = NoBuf]
                   /\ pc' = [pc EXCEPT ![m] = Back(m)]
                   /\ sndhdr' = Returned(m)
           /\ UNCHANGED <<que, polls>>
  /\ UNCHANGED <<replyq, work, got, seq, abandoned, leaked, crashes>>

(* The test that tells a reply to the pending request from anything else.  The
   comparison of the sequence numbers is commented out in the code. *)
Matches(h, s) ==
  /\ h.sender_id = s.module_id
  /\ h.msg_type = s.msg_type
  /\ h.opcode = "reply"

(* Mutant: the loop does not count. *)
Looked_Free(m) == polls

(* One look of the loop is used up. *)
Looked(m) == [polls EXCEPT ![m] = @ - 1]

(* One look at the reply queue: take an answer that matches, free one that
   does not, or find nothing.  When the answer taken is an older one, nobody
   waits for the answer to the request itself any more. *)
Poll(m) ==
  /\ pc[m] = "poll"
  /\ polls[m] > 0
  /\ IF RepliesFor(m) = {}
     THEN /\ polls' = Looked(m)
          /\ UNCHANGED <<replyq, hdr, got, pc, abandoned>>
     ELSE LET b == replyq[FirstReply(m)].msgbuff IN
          /\ replyq' = Without(replyq, FirstReply(m))
          /\ IF Matches(hdr[b], sndhdr[m])
             THEN /\ got' = [got EXCEPT ![m] = b]
                  /\ pc' = [pc EXCEPT ![m] = "got"]
                  /\ polls' = [polls EXCEPT ![m] = 0]
                  /\ abandoned' = [abandoned EXCEPT ![m] =
                       @ \cup ({sndhdr[m].request} \ {hdr[b].request})]
                  /\ UNCHANGED hdr
             ELSE /\ hdr' = Freed(b)
                  /\ polls' = Looked(m)
                  /\ UNCHANGED <<got, pc, abandoned>>
  /\ UNCHANGED <<que, snd, sndhdr, retry, work, seq, leaked, crashes>>

(* The looks are used up: -2, and the request stays with its receiver. *)
Timeout(m) ==
  /\ pc[m] = "poll"
  /\ polls[m] = 0
  /\ pc' = [pc EXCEPT ![m] = Back(m)]
  /\ abandoned' = [abandoned EXCEPT ![m] = @ \cup {sndhdr[m].request}]
  /\ sndhdr' = Returned(m)
  /\ UNCHANGED <<que, replyq, hdr, snd, retry, polls, work, got, seq,
                 leaked, crashes>>

(* Mutant: the caller keeps the reply. *)
Consume_Keep(m) ==
  /\ pc[m] = "got"
  /\ got' = [got EXCEPT ![m] = NoBuf]
  /\ pc' = [pc EXCEPT ![m] = Back(m)]
  /\ sndhdr' = Returned(m)
  /\ UNCHANGED <<que, replyq, hdr, snd, retry, polls, work, seq, abandoned,
                 leaked, crashes>>

(* The caller of the sync send reads the reply and frees it. *)
Consume(m) ==
  /\ pc[m] = "got"
  /\ hdr' = Freed(got[m])
  /\ got' = [got EXCEPT ![m] = NoBuf]
  /\ pc' = [pc EXCEPT ![m] = Back(m)]
  /\ sndhdr' = Returned(m)
  /\ UNCHANGED <<que, replyq, snd, retry, polls, work, seq, abandoned,
                 leaked, crashes>>

-----------------------------------------------------------------------------
(* The main thread gets the next message and calls the module's handler. *)
Dispatch(m) ==
  /\ pc[m] = "idle"
  /\ que[m] # <<>>
  /\ work' = [work EXCEPT ![m] = Head(que[m])]
  /\ que' = [que EXCEPT ![m] = Tail(@)]
  /\ pc' = [pc EXCEPT ![m] = "handle"]
  /\ UNCHANGED <<replyq, hdr, snd, sndhdr, retry, polls, got, seq, abandoned,
                 leaked, crashes>>

(* ipc_send_reply_n1/_n2 up to the first attempt: the header of the answer
   comes from the header of the request. *)
Reply(m) ==
  /\ pc[m] = "handle"
  /\ hdr[work[m]].opcode = "request"
  /\ \E b \in Taken :
       /\ hdr' = Filled(b, [module_id |-> hdr[work[m]].sender_id,
                            sender_id |-> hdr[work[m]].module_id,
                            msg_type  |-> hdr[work[m]].msg_type,
                            opcode    |-> "reply",
                            request   |-> hdr[work[m]].request])
       /\ snd' = [snd EXCEPT ![m] = b]
  /\ retry' = [retry EXCEPT ![m] = Retries]
  /\ pc' = [pc EXCEPT ![m] = "rsend"]
  /\ UNCHANGED <<que, replyq, sndhdr, polls, work, got, seq, abandoned, leaked,
                 crashes>>

(* Mutant: the handler falls through to a second answer. *)
AfterReply_Again == "handle"

(* The handler is done once it has answered. *)
AfterReply == "release"

(* The send loop of the reply functions, into MODULE_ID_REPLY_A. *)
TryReply(m) ==
  /\ pc[m] = "rsend"
  /\ \/ /\ Len(replyq) < ReplyMax
        /\ replyq' = Append(replyq, [recvmod |-> hdr[snd[m]].module_id,
                                     msgbuff |-> snd[m]])
        /\ snd' = [snd EXCEPT ![m] = NoBuf]
        /\ pc' = [pc EXCEPT ![m] = AfterReply]
        /\ retry' = [retry EXCEPT ![m] = 0]
        /\ UNCHANGED hdr
     \/ /\ Len(replyq) >= ReplyMax
        /\ retry' = [retry EXCEPT ![m] = @ - 1]
        /\ IF retry[m] > 1 THEN UNCHANGED <<hdr, snd, pc>>
           ELSE /\ hdr' = Freed(snd[m])
                /\ snd' = [snd EXCEPT ![m] = NoBuf]
                /\ pc' = [pc EXCEPT ![m] = AfterReply]
        /\ UNCHANGED replyq
  /\ UNCHANGED <<que, sndhdr, polls, work, got, seq, abandoned, leaked, crashes>>

(* The handler is done, with or without an answer, and frees the message. *)
Release(m) ==
  /\ pc[m] \in {"handle", "release"}
  /\ hdr' = Freed(work[m])
  /\ work' = [work EXCEPT ![m] = NoBuf]
  /\ pc' = [pc EXCEPT ![m] = "idle"]
  /\ UNCHANGED <<que, replyq, snd, sndhdr, retry, polls, got, seq, abandoned,
                 leaked, crashes>>

(* The process dies with what it has in hand; queues and blocks live on. *)
InHand(m) == {snd[m], work[m], got[m]} \ {NoBuf}

Crash(m) ==
  /\ crashes < MaxCrash
  /\ pc[m] # "dead"
  /\ pc' = [pc EXCEPT ![m] = "dead"]
  /\ leaked' = leaked \cup InHand(m)
  /\ snd' = [snd EXCEPT ![m] = NoBuf]
  /\ work' = [work EXCEPT ![m] = NoBuf]
  /\ got' = [got EXCEPT ![m] = NoBuf]
  /\ abandoned' = [abandoned EXCEPT ![m] =
                     IF pc[m] = "poll" THEN @ \cup {sndhdr[m].request} ELSE @]
  /\ sndhdr' = Returned(m)
  /\ retry' = [retry EXCEPT ![m] = 0]
  /\ polls' = [polls EXCEPT ![m] = 0]
  /\ crashes' = crashes + 1
  /\ UNCHANGED <<que, replyq, hdr, seq>>

(* The new process serves what is in its queue: every module starts its
   receive thread with iClrQue = 0. *)
Restart(m) ==
  /\ pc[m] = "dead"
  /\ pc' = [pc EXCEPT ![m] = "idle"]
  /\ UNCHANGED <<que, replyq, hdr, snd, sndhdr, retry, polls, work, got, seq, abandoned, leaked, crashes>>

Run(m) ==
  \/ Drain(m) \/ TrySend(m) \/ Poll(m) \/ Timeout(m) \/ Consume(m)
  \/ TryReply(m) \/ Release(m)

(* The bound is reached and everything is served. *)
Done ==
  /\ seq = MaxSeq
  /\ \A m \in Mods : pc[m] = "idle" /\ que[m] = <<>>
  /\ UNCHANGED vars

Next ==
  \/ Done
  \/ \E m \in Mods :
       \/ \E dst \in Mods, t \in Types, op \in {"post", "request"} : Send(m, dst, t, op)
       \/ Run(m) \/ Dispatch(m) \/ Reply(m) \/ NoMemory(m)
       \/ Crash(m) \/ Restart(m)

(* A main thread that is not blocked runs on, and its select loop serves the
   message pipe again and again.  Nothing obliges a dead process to return. *)
Fairness == \A m \in Mods : WF_vars(Run(m)) /\ SF_vars(Dispatch(m))

Spec == Init /\ [][Next]_vars /\ Fairness

-----------------------------------------------------------------------------
(* The places that refer to block b. *)
Places(b) ==
  (UNION {{<<m, i>> : i \in {j \in DOMAIN que[m] : que[m][j] = b}} : m \in Mods})
    \cup {<<"reply", i>> : i \in {j \in DOMAIN replyq : replyq[j].msgbuff = b}}
    \cup {<<"snd", m>> : m \in {n \in Mods : snd[n] = b}}
    \cup {<<"work", m>> : m \in {n \in Mods : work[n] = b}}
    \cup {<<"got", m>> : m \in {n \in Mods : got[n] = b}}
    \cup (IF b \in leaked THEN {<<"leaked">>} ELSE {})

(* No leak, no double free, no dangling pointer: an allocated block is in
   exactly one place (a queue, the reply queue, one process's hands), through
   full queues, timeouts, late replies and deaths; a free block is in none.
   Only a process that dies loses what it had in hand. *)
BufferConserved ==
  \A b \in Buffers : Cardinality(Places(b)) = IF hdr[b] = NoHdr THEN 0 ELSE 1

(* ipc_sync_send_n1 returns the answer to its own request, or to a request of
   the same module to the same receiver with the same type that was given up
   before: the late answer slipped in after the drain.  It never returns an
   answer to a request that was answered already, or to another module's. *)
OwnOrAbandoned ==
  \A m \in Mods : pc[m] = "got" =>
    LET h == hdr[got[m]] IN
    /\ h.module_id = m
    /\ \/ h.request = sndhdr[m].request
       \/ h.request \in abandoned[m] /\ h.request < sndhdr[m].request

(* The reply queue is shared by all modules but no module can crowd it with
   answers it did wait for: besides one answer to the pending request, what
   lies there for a module answers a request it gave up. *)
ReplyBound ==
  \A m \in Mods :
    \A i, j \in RepliesFor(m) :
      /\ hdr[replyq[i].msgbuff].request \in
           abandoned[m] \cup (IF pc[m] = "poll" THEN {sndhdr[m].request} ELSE {})
      /\ hdr[replyq[i].msgbuff].request = hdr[replyq[j].msgbuff].request => i = j

(* msg_ipc_n.h says of the field sequence "sync use this field": the answer that
   ipc_sync_send_n1 returns is the one to the request it sent. *)
SequenceMatches ==
  \A m \in Mods : pc[m] = "got" => hdr[got[m]].request = sndhdr[m].request

(* Every sync send returns, also when two modules wait for each other, the
   receiver is dead, or the queues are full: the wait is bounded. *)
SyncReturns ==
  \A m \in Mods : pc[m] \in {"drain", "send", "poll"} ~> pc[m] \notin {"drain", "send", "poll"}

(* A message in a module's queue is handled and freed, or the module dies:
   the sync calls its handlers make never stop a module for good. *)
QueueServed ==
  \A m \in Mods : \A b \in Buffers :
    (que[m] # <<>> /\ Head(que[m]) = b) ~> (hdr[b] = NoHdr \/ pc[m] = "dead")
=============================================================================
