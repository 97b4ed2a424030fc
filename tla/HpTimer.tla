------------------------------ MODULE HpTimer ------------------------------
(***************************************************************************)
(* The timers of a process (lib/hptimer.c).                                *)
(*                                                                         *)
(* Running timers are in a doubly linked list ordered by expiry; a node    *)
(* stores the ticks between its predecessor's expiry and its own, so that  *)
(* a tick touches the head only.  high_pre_timer_dotick cuts the expired   *)
(* prefix off into gTempTimerList, and high_pre_timer_timeout takes the    *)
(* nodes from there one by one, calls back without the lock, and puts a    *)
(* looping timer back.  A callback may add and delete timers, itself and   *)
(* those still waiting in the temporary list included.                     *)
(*                                                                         *)
(* A tick, the callbacks and the callers are one thread (the main loop),   *)
(* and callers drop the id of a timer that is gone: the callback of a      *)
(* one-shot timer forgets it, and so does whoever deletes a timer.         *)
(***************************************************************************)
EXTENDS Integers, Sequences, FiniteSets, Functions

CONSTANTS
  Timers,        \* addresses malloc can return for a timer
  NULL,          \* the null pointer
  MaxTick,       \* longest interval in ticks (bound)
  MaxNow         \* bound: ticks that pass in a behaviour

ASSUME TimerAssumption ==
  /\ IsFiniteSet(Timers) /\ NULL \notin Timers
  /\ MaxTick \in Nat \ {0} /\ MaxNow \in Nat

VARIABLES
  node,          \* the timer at each address, FreeNode when it is not allocated
  pTHead,        \* gTimerListHead.pTHead
  iCount,        \* gTimerListHead.iCount
  tHead,         \* gTempTimerList.pTHead
  tCount,        \* gTempTimerList.iCount
  pTimer,        \* the timer high_pre_timer_timeout is working on
  ticking,       \* high_pre_timer_timeout is running
  now,           \* ghost: ticks so far
  due,           \* ghost: the tick at which each running timer must fire
  armed,         \* ghost: timers whose owner expects them to fire
  stray          \* ghost: an address was written after it was freed

vars == <<node, pTHead, iCount, tHead, tCount, pTimer, ticking, now, due, armed, stray>>

FreeNode == [iTick |-> 0]
Node == [pNext : Timers \cup {NULL}, pPrev : Timers \cup {NULL}, iTick : 1 .. MaxTick,
         iTickGap : Int, iLoop : BOOLEAN, iDelete : BOOLEAN]

(* high_pre_timer_init. *)
Init ==
  /\ node = [t \in Timers |-> FreeNode]
  /\ pTHead = NULL /\ iCount = 0
  /\ tHead = NULL /\ tCount = 0
  /\ pTimer = NULL /\ ticking = FALSE
  /\ now = 0
  /\ due = [t \in Timers |-> 0]
  /\ armed = {}
  /\ stray = FALSE

Allocated == {t \in Timers : node[t] # FreeNode}

(* The nodes met from head h along pNext. *)
ListFrom(h) ==
  LET at[k \in 1 .. Cardinality(Timers) + 1] ==
        IF k = 1 THEN h
        ELSE IF at[k - 1] \notin Allocated THEN NULL ELSE node[at[k - 1]].pNext
      met == {k \in 1 .. Cardinality(Timers) + 1 : at[k] # NULL}
  IN [k \in 1 .. Cardinality(met) |-> at[k]]

MainList == ListFrom(pTHead)
TempList == ListFrom(tHead)

(* Ticks until the k-th timer of list s expires: the sum of the gaps. *)
Reach(s, k) ==
  LET sum[j \in 0 .. Len(s)] == IF j = 0 THEN 0 ELSE sum[j - 1] + node[s[j]].iTickGap
  IN sum[k]

-----------------------------------------------------------------------------
(* high_pre_timer_subadd of timer t, described by n: before the first timer
   that expires at the same tick or later, or at the end. *)
Inserted(t, n) ==
  LET s    == MainList
      late == {k \in DOMAIN s : Reach(s, k) >= n.iTick}
      last == s[Len(s)]
  IN IF late # {}
     THEN LET k == CHOOSE j \in late : \A i \in late : j <= i
              x == s[k]
              p == node[x].pPrev
              g == [node EXCEPT
                      ![t] = [n EXCEPT !.pNext = x, !.pPrev = p,
                                       !.iTickGap = n.iTick + node[x].iTickGap - Reach(s, k)],
                      ![x].pPrev = t,
                      ![x].iTickGap = Reach(s, k) - n.iTick]
          IN IF p = NULL THEN g ELSE [g EXCEPT ![p].pNext = t]
     ELSE IF s = <<>>
     THEN [node EXCEPT ![t] = [n EXCEPT !.pNext = NULL, !.pPrev = NULL,
                                        !.iTickGap = n.iTick]]
     ELSE [node EXCEPT ![t] = [n EXCEPT !.pNext = NULL, !.pPrev = last,
                                        !.iTickGap = n.iTick - Reach(s, Len(s))],
                       ![last].pNext = t]

SubAdd(t, n) ==
  /\ node' = Inserted(t, n)
  /\ pTHead' = IF Inserted(t, n)[t].pPrev = NULL THEN t ELSE pTHead
  /\ iCount' = iCount + 1
  /\ due' = [due EXCEPT ![t] = now + n.iTick]

(* The main thread may call the API: outside a tick or in a callback. *)
CanCall == ~ticking \/ pTimer # NULL

(* high_pre_timer_add with a valid interval: malloc returns any address that
   is not in use.  (Intervals below one tick are refused.) *)
Add(t, ticks, loop) ==
  /\ CanCall
  /\ t \notin Allocated
  /\ SubAdd(t, [pNext |-> NULL, pPrev |-> NULL, iTick |-> ticks, iTickGap |-> 0,
                iLoop |-> loop, iDelete |-> FALSE])
  /\ armed' = armed \cup {t}
  /\ UNCHANGED <<tHead, tCount, pTimer, ticking, now, stray>>

(* Mutant: the successor keeps pointing back at t. *)
Unlinked_Back(t, f) ==
  LET p == f[t].pPrev IN IF p = NULL THEN f ELSE [f EXCEPT ![p].pNext = f[t].pNext]

(* Timer t taken out of the list it is linked in. *)
Unlinked(t, f) ==
  LET p == f[t].pPrev
      x == f[t].pNext
      g == IF x = NULL THEN f ELSE [f EXCEPT ![x].pPrev = p]
  IN IF p = NULL THEN g ELSE [g EXCEPT ![p].pNext = x]

(* Mutant: the gap of a deleted timer is forgotten. *)
Inherited_Not(t) == node

(* The successor of a timer that is deleted inherits its gap. *)
Inherited(t) ==
  LET x == node[t].pNext IN
  IF x = NULL THEN node ELSE [node EXCEPT ![x].iTickGap = @ + node[t].iTickGap]

(* high_pre_timer_delete: from the list (the successor inherits the gap), from
   the temporary list, or, when it is in neither, by the flag that
   high_pre_timer_timeout looks at after the callback. *)
Delete(t) ==
  /\ CanCall
  /\ t \in armed
  /\ armed' = armed \ {t}
  /\ LET x == node[t].pNext
     IN \/ /\ t \in Range(MainList)
           /\ node' = [Unlinked(t, Inherited(t)) EXCEPT ![t] = FreeNode]
           /\ pTHead' = IF node[t].pPrev = NULL THEN x ELSE pTHead
           /\ iCount' = iCount - 1
           /\ UNCHANGED <<tHead, tCount, stray>>
        \/ /\ t \notin Range(MainList)
           /\ t \in Range(TempList)
           /\ node' = [Unlinked(t, node) EXCEPT ![t] = FreeNode]
           /\ tHead' = IF node[t].pPrev = NULL THEN x ELSE tHead
           /\ tCount' = tCount - 1
           /\ UNCHANGED <<pTHead, iCount, stray>>
        \/ /\ t \notin Range(MainList) \cup Range(TempList)
           /\ IF t \in Allocated
              THEN /\ node' = [node EXCEPT ![t].iDelete = TRUE]
                   /\ UNCHANGED stray
              ELSE /\ stray' = TRUE
                   /\ UNCHANGED node
           /\ UNCHANGED <<pTHead, iCount, tHead, tCount>>
  /\ UNCHANGED <<pTimer, ticking, now, due>>

(* Mutant: a timer expires one tick after its gap is used up. *)
Expired_Late(f, s) == {k \in DOMAIN s : \A j \in 1 .. k : f[s[j]].iTickGap < 0}

(* high_pre_timer_dotick: the head comes one tick closer; the timers that are
   due move to the temporary list in one cut. *)
Expired(f, s) ==
  {k \in DOMAIN s : \A j \in 1 .. k : f[s[j]].iTickGap <= 0}

DoTick ==
  /\ ~ticking
  /\ now < MaxNow
  /\ now' = now + 1
  /\ LET s == MainList
         f == IF s = <<>> THEN node ELSE [node EXCEPT ![pTHead].iTickGap = @ - 1]
         n == Cardinality(Expired(f, s))
     IN IF n = 0 THEN /\ node' = f
                      /\ UNCHANGED <<pTHead, iCount, tHead, tCount, ticking>>
        ELSE /\ tHead' = pTHead
             /\ tCount' = n
             /\ iCount' = iCount - n
             /\ ticking' = TRUE
             /\ IF n < Len(s)
                THEN /\ pTHead' = s[n + 1]
                     /\ node' = [f EXCEPT ![s[n]].pNext = NULL, ![s[n + 1]].pPrev = NULL]
                ELSE /\ pTHead' = NULL
                     /\ node' = f
  /\ UNCHANGED <<pTimer, due, armed, stray>>

(* Mutant: the id of a one-shot timer is kept after it fired. *)
Remembered_All(t) == armed

(* The ids in use once timer t fires: the callback of a one-shot timer forgets
   its own. *)
Remembered(t) == IF node[t].iLoop THEN armed ELSE armed \ {t}

(* high_pre_timer_timeout, first half of the loop: the head of the temporary
   list is taken and its callback starts. *)
Pop ==
  /\ ticking
  /\ pTimer = NULL
  /\ tHead # NULL
  /\ LET x == node[tHead].pNext
         f == [node EXCEPT ![tHead].pNext = NULL, ![tHead].pPrev = NULL]
     IN /\ node' = IF x = NULL THEN f ELSE [f EXCEPT ![x].pPrev = NULL]
        /\ tHead' = x
  /\ tCount' = tCount - 1
  /\ pTimer' = tHead
  /\ armed' = Remembered(tHead)
  /\ UNCHANGED <<pTHead, iCount, ticking, now, due, stray>>

(* Mutant: the flag is not looked at. *)
GoesBack_Deleted(t) == node[t].iLoop

GoesBack(t) == node[t].iLoop /\ ~node[t].iDelete

(* Second half, after the callback: a looping timer that was not deleted goes
   back into the list, any other one is freed. *)
Finish ==
  /\ pTimer # NULL
  /\ IF GoesBack(pTimer)
     THEN SubAdd(pTimer, node[pTimer])
     ELSE /\ node' = [node EXCEPT ![pTimer] = FreeNode]
          /\ UNCHANGED <<pTHead, iCount, due>>
  /\ pTimer' = NULL
  /\ UNCHANGED <<tHead, tCount, ticking, now, armed, stray>>

(* The temporary list is empty: the tick is over. *)
TickDone ==
  /\ ticking
  /\ pTimer = NULL
  /\ tHead = NULL
  /\ ticking' = FALSE
  /\ UNCHANGED <<node, pTHead, iCount, tHead, tCount, pTimer, now, due, armed, stray>>

Next ==
  \/ DoTick \/ Pop \/ Finish \/ TickDone
  \/ \E t \in Timers : \/ \E ticks \in 1 .. MaxTick, loop \in BOOLEAN : Add(t, ticks, loop)
                       \/ Delete(t)

Spec == Init /\ [][Next]_vars

-----------------------------------------------------------------------------
(* Both lists are well linked and counted: pPrev mirrors pNext, a head has no
   predecessor, iCount is the length, and the lists share no timer with each
   other or with the one whose callback runs, after any mix of inserts, cuts,
   pops and deletions from either list. *)
WellLinked ==
  /\ Range(MainList) \cap Range(TempList) = {}
  /\ pTimer \notin Range(MainList) \cup Range(TempList)
  /\ \A l \in {<<MainList, iCount>>, <<TempList, tCount>>} :
       /\ Len(l[1]) = l[2]
       /\ Cardinality(Range(l[1])) = l[2]
       /\ \A k \in 1 .. l[2] : node[l[1][k]].pPrev = IF k = 1 THEN NULL ELSE l[1][k - 1]

(* The gaps are exact: the gaps up to a running timer add up to the ticks that
   are left until it is due, whatever was inserted, deleted and put back
   before it.  So high_pre_timer_remain is right, too. *)
GapsExact ==
  LET s == MainList IN
  \A k \in DOMAIN s : /\ now + Reach(s, k) = due[s[k]]
                      /\ due[s[k]] > now

(* A timer fires at the tick at which it is due, neither early nor late. *)
FiresOnTime ==
  /\ \A t \in Range(TempList) : due[t] = now
  /\ pTimer # NULL => due[pTimer] = now

(* A timer its owner counts on is running, expired and about to be called, or
   looping and in its callback; a timer that was deleted is in no list, so it
   never fires again, even when it was deleted while it waited in the
   temporary list or from its own callback. *)
ArmedIsListed ==
  LET looping == {t \in {pTimer} \ {NULL} : node[t].iLoop /\ ~node[t].iDelete}
  IN armed = Range(MainList) \cup Range(TempList) \cup looping

(* No timer leaks and nothing is written after it is freed. *)
NoLeakNoStray ==
  /\ ~stray
  /\ Allocated = Range(MainList) \cup Range(TempList) \cup ({pTimer} \ {NULL})
=============================================================================
