---------------------------- MODULE MemShareSem ----------------------------
(***************************************************************************)
(* mem_share_malloc and mem_share_free store by store, for one pool.       *)
(*                                                                         *)
(* The processes of the platform share the segment and one System V        *)
(* semaphore.  A process may die at any point, inside the critical section *)
(* included: SEM_UNDO then gives the semaphore back, but nobody repairs    *)
(* the half-written control table.  Blocks travel between processes inside *)
(* IPC messages, which hands the duty to free them to the receiver.        *)
(*                                                                         *)
(* Callers are disciplined here: a process frees what it holds, once.      *)
(* MemShare covers repeated and misdirected frees.                         *)
(***************************************************************************)
EXTENDS Integers, FiniteSets

CONSTANTS
  Procs,         \* the processes; a process is named by its module id
  BlockCoun,     \* iBlockCoun of the pool
  MaxCrash,      \* bound: how many processes die
  MaxSignal,     \* bound: signals that arrive in mem_share_semdown
  MaxCall        \* bound: calls of mem_share_malloc after such a signal

ASSUME SemAssumption ==
  /\ Procs \subseteq 1 .. 50
  /\ BlockCoun \in Nat \ {0}
  /\ MaxCrash \in Nat /\ MaxSignal \in Nat /\ MaxCall \in Nat

INVALID_IDX == -1
Idx == 0 .. BlockCoun - 1

VARIABLES
  mem,           \* the control table of the pool and the totals
  sem,           \* value of the semaphore
  adj,           \* what SEM_UNDO will give back when the process exits
  pc,            \* next store of each process, "idle" outside a call
  obj,           \* pObject: the block a call works on, INVALID_IDX when none
  held,          \* blocks each process owns as a caller
  crashes,       \* processes that have died
  signals,       \* signals that have interrupted mem_share_semdown
  calls,         \* calls of mem_share_malloc since the first of them
  budget,        \* ghost: blocks the deaths so far may have cost
  snap           \* ghost: mem at the last mem_share_semup; InitMem after a death

vars == <<mem, sem, adj, pc, obj, held, crashes, signals, calls, budget, snap>>
semaphore == <<sem, adj, signals, calls>>

InitMem ==
  [iNext      |-> [i \in Idx |-> IF i + 1 < BlockCoun THEN i + 1 ELSE INVALID_IDX],
   iModule    |-> [i \in Idx |-> 0],
   iFirstFree |-> 0,
   iBlockUsed |-> 0,
   iBlockFree |-> BlockCoun,
   iUsePeakVa |-> 0,
   sta        |-> [iBlockUsed |-> 0, iBlockFree |-> 0, iUsePeakVa |-> 0]]

Init ==
  /\ mem = InitMem
  /\ snap = InitMem
  /\ sem = 1
  /\ adj = [p \in Procs |-> 0]
  /\ pc = [p \in Procs |-> "idle"]
  /\ obj = [p \in Procs |-> INVALID_IDX]
  /\ held = [p \in Procs |-> {}]
  /\ crashes = 0
  /\ signals = 0
  /\ calls = 0
  /\ budget = 0

Larger(a, b) == IF a >= b THEN a ELSE b

(* Mutant: the head of the list is not advanced. *)
MallocFlow_KeepHead == [m_own   |-> "m_used",  m_first |-> "m_used",  m_used  |-> "m_free",
                        m_free  |-> "m_peak",  m_peak  |-> "m_clamp", m_clamp |-> "m_cut",
                        m_cut   |-> "m_next",  m_next  |-> "m_sta",   m_sta   |-> "m_up"]

(* Mutants: the counter is raised after the block is linked; the block becomes
   the head before it is linked to the old one. *)
FreeFlow_CountLast == [f_mod  |-> "f_next", f_next  |-> "f_used", f_used |-> "f_first",
                       f_free |-> "f_sta",  f_first |-> "f_free", f_sta  |-> "f_up"]
FreeFlow_HeadFirst == [f_mod  |-> "f_used", f_next  |-> "f_sta",  f_used |-> "f_free",
                       f_free |-> "f_first", f_first |-> "f_next", f_sta  |-> "f_up"]

(* The stores of mem_share_malloc and of mem_share_free, in program order. *)
MallocFlow == [m_own   |-> "m_first", m_first |-> "m_used",  m_used  |-> "m_free",
               m_free  |-> "m_peak",  m_peak  |-> "m_clamp", m_clamp |-> "m_cut",
               m_cut   |-> "m_next",  m_next  |-> "m_sta",   m_sta   |-> "m_up"]
FreeFlow   == [f_mod   |-> "f_next",  f_next  |-> "f_used",  f_used  |-> "f_free",
               f_free  |-> "f_first", f_first |-> "f_sta",   f_sta   |-> "f_up"]

Waiting == {"m_down", "f_down"}
Inside  == DOMAIN MallocFlow \cup DOMAIN FreeFlow \cup {"m_find", "m_up", "f_check", "f_up"}

(* The counter or the list says that the pool is exhausted. *)
Exhausted(m) == m.iBlockFree <= 0 \/ m.iFirstFree < 0

(* What each store of mem_share_malloc does for process p and block i.  The
   clamp is two stores, "m_clamp" and "m_cut": once the first has made the
   counter 0, the condition still holds at the second. *)
MallocStore(m, s, p, i) ==
  CASE s = "m_own"   -> [m EXCEPT !.iModule[i] = p]
    [] s = "m_first" -> [m EXCEPT !.iFirstFree = m.iNext[i]]
    [] s = "m_used"  -> [m EXCEPT !.iBlockUsed = @ + 1]
    [] s = "m_free"  -> [m EXCEPT !.iBlockFree = @ - 1]
    [] s = "m_peak"  -> [m EXCEPT !.iUsePeakVa = Larger(@, m.iBlockUsed)]
    [] s = "m_clamp" -> IF Exhausted(m) THEN [m EXCEPT !.iBlockFree = 0] ELSE m
    [] s = "m_cut"   -> IF Exhausted(m) THEN [m EXCEPT !.iFirstFree = INVALID_IDX] ELSE m
    [] s = "m_next"  -> [m EXCEPT !.iNext[i] = INVALID_IDX]
    [] s = "m_sta"   -> [m EXCEPT !.sta = [iBlockUsed |-> @.iBlockUsed + 1,
                                           iBlockFree |-> @.iBlockFree - 1,
                                           iUsePeakVa |-> Larger(@.iUsePeakVa, @.iBlockUsed + 1)]]

(* What each store of mem_share_free does for block i. *)
FreeStore(m, s, i) ==
  CASE s = "f_mod"   -> [m EXCEPT !.iModule[i] = 0]
    [] s = "f_next"  -> [m EXCEPT !.iNext[i] = m.iFirstFree]
    [] s = "f_used"  -> [m EXCEPT !.iBlockUsed = @ - 1]
    [] s = "f_free"  -> [m EXCEPT !.iBlockFree = @ + 1]
    [] s = "f_first" -> [m EXCEPT !.iFirstFree = i]
    [] s = "f_sta"   -> [m EXCEPT !.sta = [iBlockUsed |-> @.iBlockUsed - 1,
                                           iBlockFree |-> @.iBlockFree + 1,
                                           iUsePeakVa |-> @.iUsePeakVa]]

-----------------------------------------------------------------------------
(* A process enters mem_share_malloc. *)
CallMalloc(p) ==
  /\ pc[p] = "idle"
  /\ signals > 0 => calls < MaxCall
  /\ calls' = IF signals > 0 THEN calls + 1 ELSE calls
  /\ pc' = [pc EXCEPT ![p] = "m_down"]
  /\ UNCHANGED <<mem, sem, adj, signals, obj, held, crashes, budget, snap>>

(* A process enters mem_share_free with a block it holds. *)
CallFree(p, i) ==
  /\ pc[p] = "idle"
  /\ i \in held[p]
  /\ held' = [held EXCEPT ![p] = @ \ {i}]
  /\ obj'  = [obj EXCEPT ![p] = i]
  /\ pc'   = [pc EXCEPT ![p] = "f_down"]
  /\ UNCHANGED <<mem, semaphore, crashes, budget, snap>>

(* Where a call goes on after mem_share_semdown. *)
Entered(p) == [pc EXCEPT ![p] = IF @ = "m_down" THEN "m_find" ELSE "f_check"]

(* Mutant: the semaphore is counted down without waiting. *)
Down_NoWait(p) ==
  /\ pc[p] \in Waiting
  /\ sem' = sem - 1
  /\ adj' = [adj EXCEPT ![p] = @ + 1]
  /\ pc' = Entered(p)
  /\ UNCHANGED <<mem, obj, held, crashes, signals, calls, budget, snap>>

(* mem_share_semdown: semop returns 0. *)
Down(p) ==
  /\ pc[p] \in Waiting
  /\ sem > 0
  /\ sem' = sem - 1
  /\ adj' = [adj EXCEPT ![p] = @ + 1]
  /\ pc' = Entered(p)
  /\ UNCHANGED <<mem, obj, held, crashes, signals, calls, budget, snap>>

(* A signal handler ran while semop waited: semop fails with EINTR, SA_RESTART
   or not, mem_share_semdown returns -1, and its callers do not look. *)
DownInterrupted(p) ==
  /\ pc[p] \in Waiting
  /\ sem = 0
  /\ signals < MaxSignal
  /\ signals' = signals + 1
  /\ pc' = Entered(p)
  /\ UNCHANGED <<mem, sem, adj, obj, held, crashes, calls, budget, snap>>

(* mem_share_malloc picks the pool by its counter and takes the list head; a
   counter without a list is the "serious error" branch, which returns NULL. *)
Find(p) ==
  /\ pc[p] = "m_find"
  /\ IF mem.iBlockFree > 0 /\ mem.iFirstFree >= 0
     THEN /\ obj' = [obj EXCEPT ![p] = mem.iFirstFree]
          /\ pc'  = [pc EXCEPT ![p] = "m_own"]
     ELSE /\ pc'  = [pc EXCEPT ![p] = "m_up"]
          /\ UNCHANGED obj
  /\ UNCHANGED <<mem, semaphore, held, crashes, budget, snap>>

(* mem_share_free looks whether the block is in use. *)
Check(p) ==
  /\ pc[p] = "f_check"
  /\ pc' = [pc EXCEPT ![p] = IF mem.iModule[obj[p]] > 0 THEN "f_mod" ELSE "f_up"]
  /\ UNCHANGED <<mem, semaphore, obj, held, crashes, budget, snap>>

(* One store into the control table. *)
Store(p) ==
  /\ \/ /\ pc[p] \in DOMAIN MallocFlow
        /\ mem' = MallocStore(mem, pc[p], p, obj[p])
        /\ pc'  = [pc EXCEPT ![p] = MallocFlow[@]]
     \/ /\ pc[p] \in DOMAIN FreeFlow
        /\ mem' = FreeStore(mem, pc[p], obj[p])
        /\ pc'  = [pc EXCEPT ![p] = FreeFlow[@]]
  /\ UNCHANGED <<semaphore, obj, held, crashes, budget, snap>>

(* mem_share_semup and the return: malloc hands the block to the caller. *)
Up(p) ==
  /\ pc[p] \in {"m_up", "f_up"}
  /\ sem'  = sem + 1
  /\ adj'  = [adj EXCEPT ![p] = @ - 1]
  /\ held' = [held EXCEPT ![p] = @ \cup (IF pc[p] = "m_up" THEN {obj[p]} \ {INVALID_IDX}
                                                           ELSE {})]
  /\ obj'  = [obj EXCEPT ![p] = INVALID_IDX]
  /\ pc'   = [pc EXCEPT ![p] = "idle"]
  /\ snap' = IF crashes = 0 THEN mem ELSE snap
  /\ UNCHANGED <<mem, crashes, signals, calls, budget>>

(* A message carries block i from p to q. *)
Send(p, q, i) ==
  /\ p # q
  /\ pc[p] = "idle"
  /\ pc[q] # "dead"
  /\ i \in held[p]
  /\ held' = [held EXCEPT ![p] = @ \ {i}, ![q] = @ \cup {i}]
  /\ UNCHANGED <<mem, semaphore, pc, obj, crashes, budget, snap>>

(* Mutant: semop without SEM_UNDO. *)
Undo_None(p) == sem

(* The semaphore after the kernel took back what process p did to it. *)
Undo(p) == Larger(sem + adj[p], 0)

(* Process p dies; SEM_UNDO takes back its mem_share_semdown. *)
Crash(p) ==
  /\ crashes < MaxCrash
  /\ pc[p] # "dead"
  /\ crashes' = crashes + 1
  /\ budget' = budget + Cardinality(held[p]) + (IF obj[p] = INVALID_IDX THEN 0 ELSE 1)
  /\ sem'  = Undo(p)
  /\ adj'  = [adj EXCEPT ![p] = 0]
  /\ pc'   = [pc EXCEPT ![p] = "dead"]
  /\ obj'  = [obj EXCEPT ![p] = INVALID_IDX]
  /\ held' = [held EXCEPT ![p] = {}]
  /\ snap' = InitMem
  /\ UNCHANGED <<mem, signals, calls>>

(* A new incarnation of the process attaches to the segment as it finds it. *)
Attach(p) ==
  /\ pc[p] = "dead"
  /\ pc' = [pc EXCEPT ![p] = "idle"]
  /\ UNCHANGED <<mem, semaphore, obj, held, crashes, budget, snap>>

Step(p) == Find(p) \/ Check(p) \/ Store(p) \/ Up(p)

Next ==
  \E p \in Procs :
    \/ CallMalloc(p) \/ Down(p) \/ Step(p) \/ Crash(p) \/ Attach(p)
    \/ \E i \in Idx : CallFree(p, i)
    \/ \E q \in Procs, i \in Idx : Send(p, q, i)

(* A process that has the semaphore runs on, and the kernel serves the waiters
   of a semaphore in the order they came, so none of them is passed over. *)
Fairness == \A p \in Procs : SF_vars(Down(p)) /\ WF_vars(Step(p))

Spec == Init /\ [][Next]_vars /\ Fairness

(* The platform as it is, with signals that reach processes in semop. *)
NextSignal == Next \/ \E p \in Procs : DownInterrupted(p)
SpecSignal == Init /\ [][NextSignal]_vars

-----------------------------------------------------------------------------
(* What a reader of the table meets who starts at iFirstFree and follows iNext.
   INVALID_IDX is among it exactly when the list ends. *)
Reached ==
  LET hop[n \in 0 .. BlockCoun] ==
        IF n = 0 THEN {mem.iFirstFree}
        ELSE hop[n - 1] \cup {mem.iNext[i] : i \in hop[n - 1] \ {INVALID_IDX}}
  IN hop[BlockCoun]

OnList == Reached \ {INVALID_IDX}

(* Deaths included and without signals, at most one process is between mem_share_semdown and
   mem_share_semup, and the semaphore is free when none is: SEM_UNDO neither
   loses the unit nor returns it twice. *)
Exclusive == Cardinality({p \in Procs : pc[p] \in Inside}) + sem = 1

(* mem_share_semdown does what its description says, "get the semaphore": nobody
   is past it while another process has not reached its mem_share_semup. *)
NeverWithout == \A p, q \in Procs : pc[p] \in Inside /\ pc[q] \in Inside => p = q

(* A block is never in two hands: no two processes hold it, a block that is
   held or being returned is marked in use and cannot be reached from
   iFirstFree, wherever another process died. *)
NoSharedBlock ==
  /\ \A p, q \in Procs : p # q => held[p] \cap held[q] = {}
  /\ \A p \in Procs : /\ held[p] \cap OnList = {}
                       /\ \A i \in held[p] : mem.iModule[i] > 0
                       /\ \A q \in Procs : obj[q] \notin held[p]

(* A death inside mem_share_malloc or mem_share_free leaves the list usable: it
   ends, and iBlockFree is never below its length, so that the clamp at
   memshare.c:598 never cuts off blocks that are still linked. *)
ListUsable ==
  /\ INVALID_IDX \in Reached
  /\ mem.iBlockFree >= Cardinality(OnList)
  /\ \A p \in Procs : pc[p] = "m_cut" /\ Exhausted(mem) => OnList = {}

(* A process that dies costs the platform the blocks it held and at most the
   one block it was moving; everything else stays allocatable. *)
LossBound ==
  LET inHand == (UNION {held[p] : p \in Procs}) \cup {obj[p] : p \in Procs}
  IN Cardinality(Idx \ (OnList \cup inHand)) <= budget

(* Every call returns or its process dies, whoever else died while it waited
   for the semaphore. *)
CallReturns == \A p \in Procs : pc[p] \in Waiting ~> pc[p] \in {"idle", "dead"}

(* Until a process dies, the store-by-store calls implement the atomic allocator of
   MemShare: one of its steps happens at each mem_share_semup. *)
Flat(f) == [b \in {1} \X Idx |-> f[b[2]]]

MS == INSTANCE MemShare WITH
        POOL_MAX   <- 1,
        iBlockSize <- <<8>>,
        iBlockCoun <- <<BlockCoun>>,
        Modules    <- Procs,
        Sizes      <- {4},
        iNext      <- Flat(snap.iNext),
        iModule    <- Flat(snap.iModule),
        iFirstFree <- <<snap.iFirstFree>>,
        iBlockUsed <- <<snap.iBlockUsed>>,
        iBlockFree <- <<snap.iBlockFree>>,
        iUsePeakVa <- <<snap.iUsePeakVa>>,
        sta        <- snap.sta

Refines == MS!Init /\ [][crashes' > crashes \/ MS!Next]_(MS!vars)
=============================================================================
