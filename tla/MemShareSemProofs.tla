------------------------- MODULE MemShareSemProofs -------------------------
(***************************************************************************)
(* Proofs about MemShareSem, for every set of processes, size of the pool  *)
(* and number of deaths: the semaphore excludes, wherever a process died   *)
(* the free list can be used and no block is in two hands, a death costs   *)
(* only what the process had, and the stores of an undisturbed call amount *)
(* to one step of MemShare.                                                *)
(***************************************************************************)
EXTENDS MemShareSem, FunctionTheorems, FiniteSetTheorems, TLAPS

Pcs == Inside \cup Waiting \cup {"idle", "dead"}

(* The semaphore and the program counters. *)
SemTypeOK ==
  /\ sem \in {0, 1}
  /\ adj \in [Procs -> Int]
  /\ pc \in [Procs -> Pcs]

(* Why SEM_UNDO neither loses the unit nor returns it twice: what it would give
   back is what the process has taken, and the unit is either in the semaphore or
   with the one process inside. *)
Units ==
  /\ \A p \in Procs : adj[p] = IF pc[p] \in Inside THEN 1 ELSE 0
  /\ \A p \in Procs : pc[p] \in Inside => sem = 0
  /\ \A p, q \in Procs : pc[p] \in Inside /\ pc[q] \in Inside => p = q
  /\ sem = 0 => \E p \in Procs : pc[p] \in Inside
SemInv == SemTypeOK /\ Units

(* The names of the steps. *)
LEMMA PcNames ==
  /\ DOMAIN MallocFlow = {"m_own", "m_first", "m_used", "m_free", "m_peak", "m_clamp", "m_cut",
                          "m_next", "m_sta"}
  /\ DOMAIN FreeFlow = {"f_mod", "f_next", "f_used", "f_free", "f_first", "f_sta"}
  /\ Waiting = {"m_down", "f_down"}
  /\ Inside = {"m_own", "m_first", "m_used", "m_free", "m_peak", "m_clamp", "m_cut",
               "m_next", "m_sta", "f_mod", "f_next", "f_used", "f_free", "f_first", "f_sta",
               "m_find", "m_up", "f_check", "f_up"}
  /\ \A s \in DOMAIN MallocFlow : MallocFlow[s] \in Inside /\ s \in Inside
  /\ \A s \in DOMAIN FreeFlow : FreeFlow[s] \in Inside /\ s \in Inside
<1>1. DOMAIN MallocFlow = {"m_own", "m_first", "m_used", "m_free", "m_peak", "m_clamp", "m_cut",
                           "m_next", "m_sta"}
  BY DEF MallocFlow
<1>2. DOMAIN FreeFlow = {"f_mod", "f_next", "f_used", "f_free", "f_first", "f_sta"}
  BY DEF FreeFlow
<1>3. Inside = {"m_own", "m_first", "m_used", "m_free", "m_peak", "m_clamp", "m_cut",
               "m_next", "m_sta", "f_mod", "f_next", "f_used", "f_free", "f_first", "f_sta",
               "m_find", "m_up", "f_check", "f_up"}
  BY <1>1, <1>2 DEF Inside
<1>4. \A s \in DOMAIN MallocFlow : MallocFlow[s] \in Inside /\ s \in Inside
  BY <1>1, <1>3 DEF MallocFlow
<1>5. \A s \in DOMAIN FreeFlow : FreeFlow[s] \in Inside /\ s \in Inside
  BY <1>2, <1>3 DEF FreeFlow
<1> QED BY <1>1, <1>2, <1>3, <1>4, <1>5 DEF Waiting

(* A process goes on inside the critical section. *)
LEMMA MoveInside ==
  ASSUME SemInv, NEW p \in Procs, NEW s \in Inside, pc[p] \in Inside, pc' = [pc EXCEPT ![p] = s],
         UNCHANGED <<sem, adj>>
  PROVE  pc' \in [Procs -> Pcs] /\ Units'
<1>1. pc' \in [Procs -> Pcs] /\ \A q \in Procs : pc'[q] \in Inside <=> pc[q] \in Inside
  BY DEF SemInv, SemTypeOK, Pcs
<1> QED BY <1>1 DEF SemInv, Units

(* A process goes on outside it. *)
LEMMA MoveOutside ==
  ASSUME SemInv, NEW p \in Procs, NEW s \in Pcs \ Inside, pc[p] \notin Inside,
         pc' = [pc EXCEPT ![p] = s], UNCHANGED <<sem, adj>>
  PROVE  pc' \in [Procs -> Pcs] /\ Units'
<1>1. pc' \in [Procs -> Pcs] /\ \A q \in Procs : pc'[q] \in Inside <=> pc[q] \in Inside
  BY DEF SemInv, SemTypeOK, Pcs
<1> QED BY <1>1 DEF SemInv, Units

(* The invariant of the semaphore in the first state. *)
LEMMA SemInit == Init => SemInv
<1> SUFFICES ASSUME Init PROVE SemInv
  OBVIOUS
<1>1. \A p \in Procs : pc[p] = "idle" /\ pc[p] \notin Inside
  BY PcNames DEF Init
<1>2. SemTypeOK
  BY DEF Init, SemTypeOK, Pcs
<1>3. Units
  BY <1>1 DEF Init, Units
<1> QED BY <1>2, <1>3 DEF SemInv

(* Every step keeps the invariant of the semaphore. *)
LEMMA SemNext == SemInv /\ [Next]_vars => SemInv'
<1> SUFFICES ASSUME SemInv, [Next]_vars PROVE SemInv'
  OBVIOUS
<1>1. ASSUME NEW p \in Procs, CallMalloc(p) PROVE SemInv'
  <2>1. pc[p] \notin Inside /\ "m_down" \in Pcs \ Inside
    BY <1>1, PcNames DEF CallMalloc, Pcs
  <2>2. pc' \in [Procs -> Pcs] /\ Units'
    BY <1>1, <2>1, MoveOutside DEF CallMalloc
  <2> QED BY <1>1, <2>2 DEF CallMalloc, SemInv, SemTypeOK
<1>2. ASSUME NEW p \in Procs, NEW i \in Idx, CallFree(p, i) PROVE SemInv'
  <2>1. pc[p] \notin Inside /\ "f_down" \in Pcs \ Inside
    BY <1>2, PcNames DEF CallFree, Pcs
  <2>2. pc' \in [Procs -> Pcs] /\ Units'
    BY <1>2, <2>1, MoveOutside DEF CallFree, semaphore
  <2> QED BY <1>2, <2>2 DEF CallFree, semaphore, SemInv, SemTypeOK
<1>3. ASSUME NEW p \in Procs, Down(p) PROVE SemInv'
  <2> DEFINE s == IF pc[p] = "m_down" THEN "m_find" ELSE "f_check"
  <2>1. pc' = [pc EXCEPT ![p] = s] /\ s \in Inside /\ pc[p] \notin Inside /\ s \in Pcs
    BY <1>3, PcNames DEF Down, Entered, Pcs
  <2>2. sem = 1 /\ sem' = 0 /\ adj[p] = 0 /\ \A q \in Procs : pc[q] \notin Inside
    BY <1>3, <2>1 DEF Down, SemInv, SemTypeOK, Units
  <2>3. adj' = [adj EXCEPT ![p] = 1]
    BY <1>3, <2>2 DEF Down
  <2>4. SemTypeOK'
    BY <2>1, <2>2, <2>3 DEF SemInv, SemTypeOK
  <2>5. \A q \in Procs : pc'[q] \in Inside <=> q = p
    BY <2>1, <2>2 DEF SemInv, SemTypeOK
  <2>6. Units'
    BY <2>2, <2>5, <2>3 DEF SemInv, SemTypeOK, Units
  <2> QED BY <2>4, <2>6 DEF SemInv
<1>4. ASSUME NEW p \in Procs, Find(p) PROVE SemInv'
  <2>1. pc[p] \in Inside /\ "m_own" \in Inside /\ "m_up" \in Inside
    BY <1>4, PcNames DEF Find
  <2>2. pc' = [pc EXCEPT ![p] = "m_own"] \/ pc' = [pc EXCEPT ![p] = "m_up"]
    BY <1>4 DEF Find
  <2>3. pc' \in [Procs -> Pcs] /\ Units'
    BY <1>4, <2>1, <2>2, MoveInside DEF Find, semaphore
  <2> QED BY <1>4, <2>3 DEF Find, semaphore, SemInv, SemTypeOK
<1>5. ASSUME NEW p \in Procs, Check(p) PROVE SemInv'
  <2>1. pc[p] \in Inside /\ "f_mod" \in Inside /\ "f_up" \in Inside
    BY <1>5, PcNames DEF Check
  <2>2. pc' = [pc EXCEPT ![p] = "f_mod"] \/ pc' = [pc EXCEPT ![p] = "f_up"]
    BY <1>5 DEF Check
  <2>3. pc' \in [Procs -> Pcs] /\ Units'
    BY <1>5, <2>1, <2>2, MoveInside DEF Check, semaphore
  <2> QED BY <1>5, <2>3 DEF Check, semaphore, SemInv, SemTypeOK
<1>6. ASSUME NEW p \in Procs, Store(p) PROVE SemInv'
  <2>1. PICK s \in Inside : pc' = [pc EXCEPT ![p] = s] /\ pc[p] \in Inside
    BY <1>6, PcNames DEF Store
  <2>2. pc' \in [Procs -> Pcs] /\ Units'
    BY <1>6, <2>1, MoveInside DEF Store, semaphore
  <2> QED BY <1>6, <2>2 DEF Store, semaphore, SemInv, SemTypeOK
<1>7. ASSUME NEW p \in Procs, Up(p) PROVE SemInv'
  <2>1. pc[p] \in Inside /\ "idle" \in Pcs \ Inside
    BY <1>7, PcNames DEF Up, Pcs
  <2>2. sem = 0 /\ sem' = 1 /\ adj[p] = 1
    BY <1>7, <2>1 DEF Up, SemInv, SemTypeOK, Units
  <2>3. sem = 0 /\ sem' = 1 /\ adj' = [adj EXCEPT ![p] = 0] /\ pc' = [pc EXCEPT ![p] = "idle"]
    BY <1>7, <2>2 DEF Up
  <2>4. \A q \in Procs : pc'[q] \notin Inside
    BY <2>1, <2>3 DEF SemInv, SemTypeOK, Units
  <2>5. SemTypeOK'
    BY <2>1, <2>3 DEF SemInv, SemTypeOK
  <2>6. Units'
    BY <2>1, <2>3, <2>4 DEF SemInv, SemTypeOK, Units
  <2> QED BY <2>5, <2>6 DEF SemInv
<1>8. ASSUME NEW p \in Procs, NEW q \in Procs, NEW i \in Idx, Send(p, q, i) PROVE SemInv'
  BY <1>8 DEF Send, semaphore, SemInv, SemTypeOK, Units
<1>9. ASSUME NEW p \in Procs, Crash(p) PROVE SemInv'
  <2>1. "dead" \in Pcs \ Inside /\ pc' = [pc EXCEPT ![p] = "dead"] /\ adj' = [adj EXCEPT ![p] = 0]
    BY <1>9, PcNames DEF Crash, Pcs
  <2>2. sem' = IF pc[p] \in Inside THEN 1 ELSE sem
    BY <1>9 DEF Crash, Undo, Larger, SemInv, SemTypeOK, Units
  <2>3. \A q \in Procs : pc'[q] \in Inside <=> q # p /\ pc[q] \in Inside
    BY <2>1 DEF SemInv, SemTypeOK
  <2>4. SemTypeOK'
    BY <2>1, <2>2 DEF SemInv, SemTypeOK
  <2>5. Units'
    BY <2>1, <2>2, <2>3 DEF SemInv, SemTypeOK, Units
  <2> QED BY <2>4, <2>5 DEF SemInv
<1>10. ASSUME NEW p \in Procs, Attach(p) PROVE SemInv'
  <2>1. pc[p] \notin Inside /\ "idle" \in Pcs \ Inside
    BY <1>10, PcNames DEF Attach, Pcs
  <2>2. pc' \in [Procs -> Pcs] /\ Units'
    BY <1>10, <2>1, MoveOutside DEF Attach, semaphore
  <2> QED BY <1>10, <2>2 DEF Attach, semaphore, SemInv, SemTypeOK
<1>11. CASE UNCHANGED vars
  BY <1>11 DEF vars, SemInv, SemTypeOK, Units
<1> QED BY <1>1, <1>2, <1>3, <1>4, <1>5, <1>6, <1>7, <1>8, <1>9, <1>10, <1>11 DEF Next, Step

(* Deaths included, at most one process is between mem_share_semdown and
   mem_share_semup, and the semaphore is free when none is. *)
THEOREM MutualExclusion == Spec => []Exclusive
<1>1. SemInv => Exclusive
  <2> SUFFICES ASSUME SemInv PROVE Exclusive
    OBVIOUS
  <2> DEFINE S == {p \in Procs : pc[p] \in Inside}
  <2>1. CASE sem = 1
    <3>1. S = {}
      BY <2>1 DEF SemInv, Units
    <3> QED BY <2>1, <3>1, FS_EmptySet DEF Exclusive
  <2>2. CASE sem = 0
    <3>1. \E p : S = {p}
      BY <2>2 DEF SemInv, Units
    <3>2. Cardinality(S) = 1
      BY <3>1, FS_Singleton
    <3> QED BY <2>2, <3>2 DEF Exclusive
  <2> QED BY <2>1, <2>2 DEF SemInv, SemTypeOK
<1> QED BY <1>1, SemInit, SemNext, PTL DEF Spec

-----------------------------------------------------------------------------
(* The control table of the pool. *)
Mems ==
  [iNext : [Idx -> Idx \cup {INVALID_IDX}], iModule : [Idx -> Nat],
   iFirstFree : Idx \cup {INVALID_IDX}, iBlockUsed : Int, iBlockFree : Int, iUsePeakVa : Int,
   sta : [iBlockUsed : Int, iBlockFree : Int, iUsePeakVa : Int]]

(* q lists n different blocks, threaded by first and next. *)
IsPath(first, next, n, q) ==
  /\ q \in [1 .. n -> Idx]
  /\ \A j, k \in 1 .. n : q[j] = q[k] => j = k
  /\ first = IF n = 0 THEN INVALID_IDX ELSE q[1]
  /\ \A j \in 1 .. n : next[q[j]] = IF j = n THEN INVALID_IDX ELSE q[j + 1]
Listed(n, q) == {q[j] : j \in 1 .. n}

(* The n blocks of L are those on the list that starts at first. *)
ListOf(first, next, n, L) ==
  n \in Nat /\ \E q : IsPath(first, next, n, q) /\ L = Listed(n, q)

(* The indices of the pool. *)
LEMMA IdxFacts ==
  /\ INVALID_IDX \notin Idx /\ 0 \in Idx
  /\ \A i \in Idx : i >= 0 /\ i \in Int
  /\ INVALID_IDX < 0 /\ INVALID_IDX \in Int
BY SemAssumption DEF Idx, INVALID_IDX

(* A set of blocks is finite. *)
LEMMA IdxFinite ==
  /\ IsFiniteSet(Idx) /\ Cardinality(Idx) = BlockCoun
  /\ \A S \in SUBSET Idx : IsFiniteSet(S) /\ Cardinality(S) \in Nat
<1>1. 0 \in Int /\ BlockCoun - 1 \in Int /\ BlockCoun > 0 /\ BlockCoun \in Int
  BY SemAssumption
<1>2. IsFiniteSet(Idx) /\ Cardinality(Idx) = IF 0 > BlockCoun - 1 THEN 0 ELSE BlockCoun - 1 - 0 + 1
  BY <1>1, FS_Interval DEF Idx
<1>3. Cardinality(Idx) = BlockCoun
  BY <1>1, <1>2
<1>4. ASSUME NEW S \in SUBSET Idx PROVE IsFiniteSet(S) /\ Cardinality(S) \in Nat
  BY <1>2, FS_Subset, FS_CardinalityType
<1> QED BY <1>2, <1>3, <1>4

(* What a list says about its set of blocks. *)
LEMMA ListFacts ==
  ASSUME NEW first, NEW next, NEW n, NEW L, ListOf(first, next, n, L)
  PROVE  /\ n \in Nat /\ L \in SUBSET Idx /\ Cardinality(L) = n /\ n <= BlockCoun
         /\ n = 0 => L = {} /\ first = INVALID_IDX
         /\ n > 0 => first \in L
         /\ first < 0 => n = 0
<1>1. PICK q : IsPath(first, next, n, q) /\ L = Listed(n, q)
  BY DEF ListOf
<1>2. n \in Nat /\ L \in SUBSET Idx
  BY <1>1 DEF ListOf, IsPath, Listed
<1>3. /\ n = 0 => L = {} /\ first = INVALID_IDX
      /\ n > 0 => first \in L
  BY <1>1, <1>2 DEF IsPath, Listed
<1>4. first < 0 => n = 0
  BY <1>2, <1>3, IdxFacts
<1>5. Cardinality(L) = n
  <2> DEFINE S == 1 .. n
  <2>1. IsFiniteSet(S) /\ Cardinality(S) = n
    <3>1. 1 \in Int /\ n \in Int
      BY <1>2
    <3>2. IsFiniteSet(S) /\ Cardinality(S) = IF 1 > n THEN 0 ELSE n - 1 + 1
      BY <3>1, FS_Interval, Zenon
    <3> QED BY <1>2, <3>2
  <2>2. q \in Bijection(S, L)
    <3>1. q \in [S -> L] /\ \A x, y \in S : q[x] = q[y] => x = y
      BY <1>1 DEF IsPath, Listed
    <3>2. \A t \in L : \E x \in S : q[x] = t
      BY <1>1 DEF Listed
    <3> HIDE DEF S
    <3>3. q \in Injection(S, L)
      BY <3>1, Fun_IsInj, Zenon
    <3>4. q \in Surjection(S, L)
      BY <3>1, <3>2, Fun_IsSurj, Zenon
    <3> QED BY <3>3, <3>4 DEF Bijection
  <2> HIDE DEF S
  <2>3. Cardinality(L) = Cardinality(S)
    BY <2>1, <2>2, FS_Bijection DEF ExistsBijection
  <2> QED BY <2>1, <2>3
<1>6. n <= BlockCoun
  BY <1>2, <1>5, IdxFinite, FS_Subset
<1> QED BY <1>2, <1>3, <1>4, <1>5, <1>6

(* A store to a block that is not on the list leaves the list alone. *)
LEMMA ListKept ==
  ASSUME NEW first, NEW next, NEW n, NEW L, ListOf(first, next, n, L),
         NEW other, \A i \in L : other[i] = next[i]
  PROVE  ListOf(first, other, n, L)
<1>1. PICK q : IsPath(first, next, n, q) /\ L = Listed(n, q)
  BY DEF ListOf
<1>2. \A j \in 1 .. n : q[j] \in L
  BY <1>1 DEF Listed
<1>3. IsPath(first, other, n, q)
  BY <1>1, <1>2 DEF IsPath
<1> QED BY <1>1, <1>3 DEF ListOf

(* mem_share_malloc makes the successor of the head the head. *)
LEMMA ListTail ==
  ASSUME NEW first, NEW next, NEW n, NEW L, ListOf(first, next, n, L), n > 0
  PROVE  ListOf(next[first], next, n - 1, L \ {first})
<1>1. PICK q : IsPath(first, next, n, q) /\ L = Listed(n, q)
  BY DEF ListOf
<1> DEFINE t == [j \in 1 .. n - 1 |-> q[j + 1]]
<1>2. n \in Nat /\ n - 1 \in Nat /\ first = q[1]
  BY <1>1 DEF ListOf, IsPath
<1>3. /\ t \in [1 .. n - 1 -> Idx]
      /\ \A j, k \in 1 .. n - 1 : t[j] = t[k] => j = k
  BY <1>1, <1>2 DEF IsPath
<1>4. next[first] = IF n - 1 = 0 THEN INVALID_IDX ELSE t[1]
  BY <1>1, <1>2 DEF IsPath
<1>5. \A j \in 1 .. n - 1 : next[t[j]] = IF j = n - 1 THEN INVALID_IDX ELSE t[j + 1]
  BY <1>1, <1>2 DEF IsPath
<1>6. L \ {first} = Listed(n - 1, t)
  <2>1. \A j \in 1 .. n - 1 : t[j] \in L /\ t[j] # first
    BY <1>1, <1>2 DEF IsPath, Listed
  <2>2. \A j \in 1 .. n : q[j] # first => j - 1 \in 1 .. n - 1 /\ q[j] = t[j - 1]
    BY <1>2
  <2> HIDE DEF t
  <2> QED BY <1>1, <2>1, <2>2 DEF Listed
<1> HIDE DEF t
<1> QED BY <1>2, <1>3, <1>4, <1>5, <1>6 DEF ListOf, IsPath

(* mem_share_free makes a block the head that it has linked to the old one. *)
LEMMA ListPush ==
  ASSUME NEW first, NEW next, NEW n, NEW L, ListOf(first, next, n, L),
         NEW i \in Idx \ L, next[i] = first
  PROVE  ListOf(i, next, n + 1, L \cup {i})
<1>1. PICK q : IsPath(first, next, n, q) /\ L = Listed(n, q)
  BY DEF ListOf
<1> DEFINE t == [j \in 1 .. n + 1 |-> IF j = 1 THEN i ELSE q[j - 1]]
<1>2. n \in Nat /\ n + 1 \in Nat /\ n + 1 # 0
  BY DEF ListOf
<1>3. /\ t[1] = i /\ 1 \in 1 .. n + 1
      /\ \A j \in 2 .. n + 1 : t[j] = q[j - 1] /\ j - 1 \in 1 .. n
      /\ \A j \in 1 .. n : q[j] = t[j + 1] /\ j + 1 \in 2 .. n + 1 /\ q[j] # i
  BY <1>1, <1>2 DEF Listed
<1>4. t \in [1 .. n + 1 -> Idx]
  BY <1>1, <1>2 DEF IsPath
<1>5. \A j, k \in 1 .. n + 1 : t[j] = t[k] => j = k
  <2> SUFFICES ASSUME NEW j \in 1 .. n + 1, NEW k \in 1 .. n + 1, t[j] = t[k] PROVE j = k
    OBVIOUS
  <2> HIDE DEF t
  <2>0. /\ \A m \in 1 .. n + 1 : m = 1 \/ m \in 2 .. n + 1
        /\ \A m \in 2 .. n + 1 : t[m] # i
    BY <1>2, <1>3
  <2>1. CASE j = 1 \/ k = 1
    BY <1>3, <2>0, <2>1
  <2>2. CASE j # 1 /\ k # 1
    BY <1>1, <1>2, <1>3, <2>2 DEF IsPath
  <2> QED BY <2>1, <2>2
<1>6. \A j \in 1 .. n + 1 : next[t[j]] = IF j = n + 1 THEN INVALID_IDX ELSE t[j + 1]
  <2> SUFFICES ASSUME NEW j \in 1 .. n + 1
               PROVE  next[t[j]] = IF j = n + 1 THEN INVALID_IDX ELSE t[j + 1]
    OBVIOUS
  <2>1. CASE j = 1
    <3>1. next[t[j]] = first /\ (n = 0 => j = n + 1) /\ (n # 0 => j # n + 1 /\ t[j + 1] = q[1])
      BY <1>2, <1>3, <2>1
    <3> HIDE DEF t
    <3> QED BY <1>1, <3>1 DEF IsPath
  <2>2. CASE j # 1
    <3>1. j - 1 \in 1 .. n /\ t[j] = q[j - 1] /\ (j # n + 1 => t[j + 1] = q[j])
      BY <1>2, <1>3, <2>2
    <3> HIDE DEF t
    <3> QED BY <1>1, <1>2, <3>1 DEF IsPath
  <2> QED BY <2>1, <2>2
<1>7. L \cup {i} = Listed(n + 1, t)
  <2> HIDE DEF t
  <2>1. \A j \in 1 .. n + 1 : j = 1 \/ j \in 2 .. n + 1
    BY <1>2
  <2>2. Listed(n + 1, t) \subseteq L \cup {i}
    BY <1>1, <1>3, <2>1 DEF Listed
  <2>3. L \cup {i} \subseteq Listed(n + 1, t)
    BY <1>1, <1>2, <1>3 DEF Listed
  <2> QED BY <2>2, <2>3
<1> HIDE DEF t
<1> QED BY <1>2, <1>3, <1>4, <1>5, <1>6, <1>7 DEF ListOf, IsPath

(* A nonempty set of numbers has a least one: the provers' form of induction. *)
LEMMA LeastElement ==
  ASSUME NEW C \in SUBSET Nat, C # {}
  PROVE  \E m \in C : \A x \in C : m <= x
<1> DEFINE R == OpToRel(<, Nat)
<1>1. IsWellFoundedOn(R, Nat)
  BY NatLessThanWellFounded
<1>2. \A x, y \in Nat : x < y => <<x, y>> \in R
  BY DEF OpToRel
<1> HIDE DEF R
<1>3. PICK m \in C : \A x \in C : ~(<<x, m>> \in R)
  BY <1>1, WFMin
<1>4. \A x \in C : ~(x < m)
  BY <1>2, <1>3
<1>5. \A x \in C : m <= x
  BY <1>4
<1> QED BY <1>5

(* One more hop along the list, and the equation that defines the function of
   hops in Reached. *)
Hop(next, S) == S \cup {next[i] : i \in S \ {INVALID_IDX}}
Hops(h) ==
  h = [n \in 0 .. BlockCoun |-> IF n = 0 THEN {mem.iFirstFree} ELSE Hop(mem.iNext, h[n - 1])]

(* The equation has at most one solution. *)
LEMMA HopsUnique ==
  ASSUME NEW f, NEW g, Hops(f), Hops(g)
  PROVE  f[BlockCoun] = g[BlockCoun]
<1> DEFINE C == {k \in 0 .. BlockCoun : f[k] # g[k]}
<1>0. ASSUME NEW h, Hops(h)
      PROVE  \A k \in 0 .. BlockCoun : h[k] = IF k = 0 THEN {mem.iFirstFree} ELSE Hop(mem.iNext, h[k - 1])
  <2> DEFINE F(k) == IF k = 0 THEN {mem.iFirstFree} ELSE Hop(mem.iNext, h[k - 1])
             H == [k \in 0 .. BlockCoun |-> F(k)]
  <2>1. h = H
    BY <1>0 DEF Hops
  <2> HIDE DEF F
  <2>2. \A k \in 0 .. BlockCoun : H[k] = F(k)
    OBVIOUS
  <2> HIDE DEF H
  <2>3. \A k \in 0 .. BlockCoun : h[k] = F(k)
    BY <2>1, <2>2
  <2> QED BY <2>3 DEF F
<1>1. /\ f[0] = {mem.iFirstFree} /\ g[0] = {mem.iFirstFree}
      /\ \A k \in 0 .. BlockCoun : k # 0 => /\ f[k] = Hop(mem.iNext, f[k - 1])
                                            /\ g[k] = Hop(mem.iNext, g[k - 1])
  BY <1>0, SemAssumption
<1>2. C = {}
  <2> SUFFICES ASSUME C # {} PROVE FALSE
    OBVIOUS
  <2>1. C \in SUBSET Nat
    BY SemAssumption
  <2>2. PICK m \in C : \A x \in C : m <= x
    BY <2>1, LeastElement
  <2>3. m \in 0 .. BlockCoun /\ m # 0 /\ f[m] # g[m]
    BY <1>1, <2>2
  <2>4. m - 1 \in 0 .. BlockCoun /\ ~(m <= m - 1)
    BY <2>3, SemAssumption
  <2>5. f[m - 1] = g[m - 1]
    BY <2>2, <2>4
  <2> QED BY <1>1, <2>3, <2>5
<1> QED BY <1>2, SemAssumption

(* Whoever starts at iFirstFree and follows iNext meets exactly the blocks on the
   list, and its end. *)
LEMMA ReachedList ==
  ASSUME NEW n, NEW L, ListOf(mem.iFirstFree, mem.iNext, n, L)
  PROVE  Reached = L \cup {INVALID_IDX} /\ OnList = L
<1>1. PICK q : IsPath(mem.iFirstFree, mem.iNext, n, q) /\ L = Listed(n, q)
  BY DEF ListOf
<1>2. n \in Nat /\ n <= BlockCoun /\ L \in SUBSET Idx /\ BlockCoun \in Nat
  BY ListFacts, SemAssumption
<1> DEFINE e(k) == IF k < n THEN {q[j] : j \in 1 .. k + 1} ELSE L \cup {INVALID_IDX}
           f == [k \in 0 .. BlockCoun |-> e(k)]
<1>3. e(0) = {mem.iFirstFree}
  <2>1. CASE n = 0
    BY <1>1, <1>2, <2>1 DEF IsPath, Listed
  <2>2. CASE n # 0
    BY <1>1, <1>2, <2>2 DEF IsPath
  <2> QED BY <2>1, <2>2
<1>4. ASSUME NEW k \in 1 .. BlockCoun PROVE e(k) = Hop(mem.iNext, e(k - 1))
  <2>0. \A j \in 1 .. n : /\ q[j] \in Idx /\ q[j] # INVALID_IDX /\ q[j] \in L
                          /\ mem.iNext[q[j]] = IF j = n THEN INVALID_IDX ELSE q[j + 1]
    BY <1>1, IdxFacts DEF IsPath, Listed
  <2>1. CASE k < n
    <3>1. e(k) = {q[j] : j \in 1 .. k + 1} /\ e(k - 1) = {q[j] : j \in 1 .. k}
      BY <1>2, <2>1
    <3> HIDE DEF e
    <3>2. \A j \in 1 .. k : mem.iNext[q[j]] = q[j + 1] /\ q[j] # INVALID_IDX /\ j + 1 \in 1 .. k + 1 /\ j \in 1 .. k + 1
      BY <1>2, <2>0, <2>1
    <3>3. \A j \in 1 .. k + 1 : j \in 1 .. k \/ (j = k + 1 /\ k \in 1 .. k)
      OBVIOUS
    <3>4. e(k) \subseteq Hop(mem.iNext, e(k - 1))
      <4> SUFFICES ASSUME NEW j \in 1 .. k + 1 PROVE q[j] \in Hop(mem.iNext, e(k - 1))
        BY <3>1
      <4>1. CASE j \in 1 .. k
        BY <3>1, <4>1 DEF Hop
      <4>2. CASE j = k + 1
        BY <3>1, <3>2, <3>3, <4>2 DEF Hop
      <4> QED BY <3>3, <4>1, <4>2
    <3>5. Hop(mem.iNext, e(k - 1)) \subseteq e(k)
      BY <3>1, <3>2 DEF Hop
    <3> QED BY <3>4, <3>5
  <2>2. CASE k = n
    <3>1. e(k) = L \cup {INVALID_IDX} /\ e(k - 1) = L /\ n \in 1 .. n
      BY <1>1, <1>2, <2>2 DEF Listed
    <3> HIDE DEF e
    <3>2. INVALID_IDX \in Hop(mem.iNext, L)
      BY <2>0, <3>1 DEF Hop
    <3>3. ASSUME NEW i \in L PROVE mem.iNext[i] \in L \cup {INVALID_IDX}
      <4>1. PICK j \in 1 .. n : i = q[j]
        BY <1>1 DEF Listed
      <4>2. j = n \/ j + 1 \in 1 .. n
        BY <1>2
      <4> QED BY <2>0, <4>1, <4>2
    <3> QED BY <3>1, <3>2, <3>3 DEF Hop
  <2>3. CASE k > n
    <3>1. e(k) = L \cup {INVALID_IDX} /\ e(k - 1) = L \cup {INVALID_IDX}
      BY <1>2, <2>3
    <3> HIDE DEF e
    <3>3. ASSUME NEW i \in L PROVE mem.iNext[i] \in L \cup {INVALID_IDX}
      <4>1. PICK j \in 1 .. n : i = q[j]
        BY <1>1 DEF Listed
      <4>2. j = n \/ j + 1 \in 1 .. n
        BY <1>2
      <4> QED BY <2>0, <4>1, <4>2
    <3> QED BY <3>1, <3>3 DEF Hop
  <2> QED BY <1>2, <2>1, <2>2, <2>3
<1>5. e(BlockCoun) = L \cup {INVALID_IDX}
  BY <1>2
<1> HIDE DEF e
<1>6. Hops(f)
  <2>1. \A k \in 0 .. BlockCoun : f[k] = IF k = 0 THEN {mem.iFirstFree} ELSE Hop(mem.iNext, f[k - 1])
    BY <1>2, <1>3, <1>4
  <2> QED BY <2>1 DEF Hops
<1>7. f[BlockCoun] = L \cup {INVALID_IDX}
  BY <1>2, <1>5
<1> HIDE DEF f
<1>8. PICK g : Hops(g) /\ Reached = g[BlockCoun]
  <2> DEFINE g == CHOOSE h : Hops(h)
  <2>1. Hops(g)
    BY <1>6
  <2>2. Reached = g[BlockCoun]
    BY DEF Reached, Hops, Hop
  <2> QED BY <2>1, <2>2
<1>9. Reached = L \cup {INVALID_IDX}
  BY <1>6, <1>7, <1>8, HopsUnique
<1> QED BY <1>2, <1>9, IdxFacts DEF OnList

-----------------------------------------------------------------------------
(* What the block i of a call says about the table m and its list, of n blocks L,
   when s is the next step of the call. *)
NoBlock == {"idle", "dead", "m_down", "m_find"}
AtHead  == {"m_own", "m_first"}
Off     == {"m_used", "m_free", "m_peak", "m_clamp", "m_cut", "m_next", "m_sta",
            "f_down", "f_check", "f_mod", "f_next", "f_used", "f_free", "f_first"}
Linked  == {"f_used", "f_free", "f_first"}
Back    == {"f_sta", "f_up"}
Owned   == {"m_first", "m_used", "m_free", "m_peak", "m_clamp", "m_cut", "m_next", "m_sta", "m_up",
            "f_down", "f_check", "f_mod"}
Spare   == {"m_used", "m_free", "f_first"}

Stage(s, i, m, n, L) ==
  /\ s \in NoBlock => i = INVALID_IDX
  /\ s \in AtHead => n > 0 /\ i = m.iFirstFree
  /\ s \in Off => i \in Idx \ L
  /\ s = "m_up" => i \notin L
  /\ s \in Linked => m.iNext[i] = m.iFirstFree
  /\ s \in Back => i \in L
  /\ s \in Owned /\ i # INVALID_IDX => m.iModule[i] > 0
  /\ s \in Spare => m.iBlockFree > n

(* A store takes the table m to m2: at most the block i of the call joins or leaves
   the list, and its owner alone is written. *)
Stored(m, m2, s2, i, n, L) ==
  /\ m2 \in Mems
  /\ \A j \in Idx \ {i} : m2.iModule[j] = m.iModule[j]
  /\ \E n2, L2 : /\ ListOf(m2.iFirstFree, m2.iNext, n2, L2) /\ m2.iBlockFree >= n2
                 /\ L2 \subseteq L \cup {i} /\ L \subseteq L2 \cup {i}
                 /\ Stage(s2, i, m2, n2, L2)

(* A store that touches neither the head nor a link of the list. *)
LEMMA ListSame ==
  ASSUME NEW m \in Mems, NEW m2 \in Mems, NEW n, NEW L, NEW i, NEW s2,
         ListOf(m.iFirstFree, m.iNext, n, L), m2.iFirstFree = m.iFirstFree, m2.iBlockFree >= n,
         \A j \in L : m2.iNext[j] = m.iNext[j],
         \A j \in Idx \ {i} : m2.iModule[j] = m.iModule[j],
         Stage(s2, i, m2, n, L)
  PROVE  Stored(m, m2, s2, i, n, L)
<1>1. ListOf(m2.iFirstFree, m2.iNext, n, L)
  BY ListKept
<1> QED BY <1>1 DEF Stored

(* The stores of mem_share_malloc. *)
LEMMA MallocStored ==
  ASSUME NEW m \in Mems, NEW p \in Procs, NEW i, NEW n, NEW L, NEW s \in DOMAIN MallocFlow,
         ListOf(m.iFirstFree, m.iNext, n, L), m.iBlockFree >= n, Stage(s, i, m, n, L)
  PROVE  Stored(m, MallocStore(m, s, p, i), MallocFlow[s], i, n, L)
<1> DEFINE m2 == MallocStore(m, s, p, i)
<1>0. /\ n \in Nat /\ L \in SUBSET Idx /\ p \in Nat /\ p > 0
      /\ n = 0 => L = {} /\ m.iFirstFree = INVALID_IDX
      /\ n > 0 => m.iFirstFree \in L
      /\ m.iFirstFree < 0 => n = 0
      /\ m.iBlockFree \in Int
  BY ListFacts, SemAssumption DEF Mems
<1>1. i \in Idx /\ i # INVALID_IDX
  BY <1>0, PcNames, IdxFacts DEF Stage, AtHead, Off
<1>2. CASE s = "m_own"
  <2>1. m2 = [m EXCEPT !.iModule[i] = p] /\ MallocFlow[s] = "m_first"
    BY <1>2 DEF MallocStore, MallocFlow
  <2> HIDE DEF m2
  <2>2. /\ m2 \in Mems /\ m2.iFirstFree = m.iFirstFree /\ m2.iNext = m.iNext
        /\ m2.iBlockFree = m.iBlockFree /\ m2.iModule[i] = p
        /\ \A j \in Idx \ {i} : m2.iModule[j] = m.iModule[j]
    BY <1>0, <1>1, <2>1 DEF Mems
  <2>3. Stage("m_first", i, m2, n, L)
    BY <1>0, <1>2, <2>2 DEF Stage, NoBlock, AtHead, Off, Linked, Back, Owned, Spare
  <2> QED BY <2>1, <2>2, <2>3, ListSame DEF m2
<1>3. CASE s = "m_first"
  <2>1. m2 = [m EXCEPT !.iFirstFree = m.iNext[i]] /\ MallocFlow[s] = "m_used"
    BY <1>3 DEF MallocStore, MallocFlow
  <2> HIDE DEF m2
  <2>2. /\ m2 \in Mems /\ m2.iFirstFree = m.iNext[i] /\ m2.iNext = m.iNext
        /\ m2.iBlockFree = m.iBlockFree /\ m2.iModule = m.iModule
    BY <1>0, <1>1, <2>1 DEF Mems
  <2>3. n > 0 /\ i = m.iFirstFree /\ m.iModule[i] > 0
    BY <1>1, <1>3 DEF Stage, AtHead, Owned
  <2>4. ListOf(m2.iFirstFree, m2.iNext, n - 1, L \ {i})
    BY <2>2, <2>3, ListTail
  <2>5. Stage("m_used", i, m2, n - 1, L \ {i}) /\ m2.iBlockFree >= n - 1
    BY <1>0, <1>1, <2>2, <2>3 DEF Stage, NoBlock, AtHead, Off, Linked, Back, Owned, Spare
  <2> QED BY <1>0, <2>1, <2>2, <2>4, <2>5 DEF Stored, m2
<1>4. CASE s = "m_used"
  <2>1. m2 = [m EXCEPT !.iBlockUsed = @ + 1] /\ MallocFlow[s] = "m_free"
    BY <1>4 DEF MallocStore, MallocFlow
  <2> HIDE DEF m2
  <2>2. /\ m2 \in Mems /\ m2.iFirstFree = m.iFirstFree /\ m2.iNext = m.iNext
        /\ m2.iBlockFree = m.iBlockFree /\ m2.iModule = m.iModule
    BY <1>0, <1>1, <2>1 DEF Mems
  <2>3. Stage("m_free", i, m2, n, L)
    BY <1>0, <1>4, <2>2 DEF Stage, NoBlock, AtHead, Off, Linked, Back, Owned, Spare
  <2> QED BY <2>1, <2>2, <2>3, ListSame DEF m2
<1>5. CASE s = "m_free"
  <2>1. m2 = [m EXCEPT !.iBlockFree = @ - 1] /\ MallocFlow[s] = "m_peak"
    BY <1>5 DEF MallocStore, MallocFlow
  <2> HIDE DEF m2
  <2>2. /\ m2 \in Mems /\ m2.iFirstFree = m.iFirstFree /\ m2.iNext = m.iNext
        /\ m2.iBlockFree = m.iBlockFree - 1 /\ m2.iModule = m.iModule
    BY <1>0, <1>1, <2>1 DEF Mems
  <2>3. Stage("m_peak", i, m2, n, L) /\ m2.iBlockFree >= n
    BY <1>0, <1>5, <2>2 DEF Stage, NoBlock, AtHead, Off, Linked, Back, Owned, Spare
  <2> QED BY <2>1, <2>2, <2>3, ListSame DEF m2
<1>6. CASE s = "m_peak"
  <2>1. m2 = [m EXCEPT !.iUsePeakVa = Larger(@, m.iBlockUsed)] /\ MallocFlow[s] = "m_clamp"
    BY <1>6 DEF MallocStore, MallocFlow
  <2> HIDE DEF m2
  <2>2. /\ m2 \in Mems /\ m2.iFirstFree = m.iFirstFree /\ m2.iNext = m.iNext
        /\ m2.iBlockFree = m.iBlockFree /\ m2.iModule = m.iModule
    BY <1>0, <1>1, <2>1 DEF Mems, Larger
  <2>3. Stage("m_clamp", i, m2, n, L)
    BY <1>0, <1>6, <2>2 DEF Stage, NoBlock, AtHead, Off, Linked, Back, Owned, Spare
  <2> QED BY <2>1, <2>2, <2>3, ListSame DEF m2
<1>7. CASE s = "m_clamp"
  <2>1. m2 = (IF Exhausted(m) THEN [m EXCEPT !.iBlockFree = 0] ELSE m) /\ MallocFlow[s] = "m_cut"
    BY <1>7 DEF MallocStore, MallocFlow
  <2>2. Exhausted(m) => n = 0
    BY <1>0 DEF Exhausted
  <2> HIDE DEF m2
  <2>3. /\ m2 \in Mems /\ m2.iFirstFree = m.iFirstFree /\ m2.iNext = m.iNext
        /\ m2.iBlockFree >= n /\ m2.iModule = m.iModule
    BY <1>0, <1>1, <2>1, <2>2 DEF Mems
  <2>4. Stage("m_cut", i, m2, n, L)
    BY <1>0, <1>7, <2>3 DEF Stage, NoBlock, AtHead, Off, Linked, Back, Owned, Spare
  <2> QED BY <2>1, <2>3, <2>4, ListSame DEF m2
<1>8. CASE s = "m_cut"
  <2>1. m2 = (IF Exhausted(m) THEN [m EXCEPT !.iFirstFree = INVALID_IDX] ELSE m) /\ MallocFlow[s] = "m_next"
    BY <1>8 DEF MallocStore, MallocFlow
  <2>2. Exhausted(m) => m.iFirstFree = INVALID_IDX
    BY <1>0 DEF Exhausted
  <2> HIDE DEF m2
  <2>3. /\ m2 \in Mems /\ m2.iFirstFree = m.iFirstFree /\ m2.iNext = m.iNext
        /\ m2.iBlockFree = m.iBlockFree /\ m2.iModule = m.iModule
    BY <1>0, <1>1, <2>1, <2>2 DEF Mems
  <2>4. Stage("m_next", i, m2, n, L)
    BY <1>0, <1>8, <2>3 DEF Stage, NoBlock, AtHead, Off, Linked, Back, Owned, Spare
  <2> QED BY <2>1, <2>3, <2>4, ListSame DEF m2
<1>9. CASE s = "m_next"
  <2>1. m2 = [m EXCEPT !.iNext[i] = INVALID_IDX] /\ MallocFlow[s] = "m_sta"
    BY <1>9 DEF MallocStore, MallocFlow
  <2>2. i \notin L
    BY <1>9 DEF Stage, Off
  <2> HIDE DEF m2
  <2>3. /\ m2 \in Mems /\ m2.iFirstFree = m.iFirstFree /\ (\A j \in L : m2.iNext[j] = m.iNext[j])
        /\ m2.iBlockFree = m.iBlockFree /\ m2.iModule = m.iModule
    BY <1>0, <1>1, <2>1, <2>2 DEF Mems
  <2>4. Stage("m_sta", i, m2, n, L)
    BY <1>0, <1>9, <2>3 DEF Stage, NoBlock, AtHead, Off, Linked, Back, Owned, Spare
  <2> QED BY <2>1, <2>3, <2>4, ListSame DEF m2
<1>10. CASE s = "m_sta"
  <2> DEFINE t == [iBlockUsed |-> m.sta.iBlockUsed + 1, iBlockFree |-> m.sta.iBlockFree - 1,
                   iUsePeakVa |-> Larger(m.sta.iUsePeakVa, m.sta.iBlockUsed + 1)]
  <2>1. m2 = [m EXCEPT !.sta = t] /\ MallocFlow[s] = "m_up"
    BY <1>10 DEF MallocStore, MallocFlow
  <2>2. t \in [iBlockUsed : Int, iBlockFree : Int, iUsePeakVa : Int]
    BY DEF Mems, Larger
  <2> HIDE DEF m2, t
  <2>3. /\ m2 \in Mems /\ m2.iFirstFree = m.iFirstFree /\ m2.iNext = m.iNext
        /\ m2.iBlockFree = m.iBlockFree /\ m2.iModule = m.iModule
    BY <1>0, <1>1, <2>1, <2>2 DEF Mems
  <2>4. Stage("m_up", i, m2, n, L)
    BY <1>0, <1>10, <2>3 DEF Stage, NoBlock, AtHead, Off, Linked, Back, Owned, Spare
  <2> QED BY <2>1, <2>3, <2>4, ListSame DEF m2
<1> QED BY <1>2, <1>3, <1>4, <1>5, <1>6, <1>7, <1>8, <1>9, <1>10, PcNames

(* The stores of mem_share_free. *)
LEMMA FreeStored ==
  ASSUME NEW m \in Mems, NEW i, NEW n, NEW L, NEW s \in DOMAIN FreeFlow,
         ListOf(m.iFirstFree, m.iNext, n, L), m.iBlockFree >= n, Stage(s, i, m, n, L)
  PROVE  Stored(m, FreeStore(m, s, i), FreeFlow[s], i, n, L)
<1> DEFINE m2 == FreeStore(m, s, i)
<1>0. /\ n \in Nat /\ L \in SUBSET Idx /\ m.iBlockFree \in Int
      /\ m.iFirstFree \in Idx \cup {INVALID_IDX}
  BY ListFacts DEF Mems
<1>1. i \in Idx /\ i # INVALID_IDX
  BY <1>0, PcNames, IdxFacts DEF Stage, Off, Back
<1>2. CASE s = "f_mod"
  <2>1. m2 = [m EXCEPT !.iModule[i] = 0] /\ FreeFlow[s] = "f_next"
    BY <1>2 DEF FreeStore, FreeFlow
  <2> HIDE DEF m2
  <2>2. /\ m2 \in Mems /\ m2.iFirstFree = m.iFirstFree /\ m2.iNext = m.iNext
        /\ m2.iBlockFree = m.iBlockFree
        /\ \A j \in Idx \ {i} : m2.iModule[j] = m.iModule[j]
    BY <1>0, <1>1, <2>1 DEF Mems
  <2>3. Stage("f_next", i, m2, n, L)
    BY <1>2, <2>2 DEF Stage, NoBlock, AtHead, Off, Linked, Back, Owned, Spare
  <2> QED BY <2>1, <2>2, <2>3, ListSame DEF m2
<1>3. CASE s = "f_next"
  <2>1. m2 = [m EXCEPT !.iNext[i] = m.iFirstFree] /\ FreeFlow[s] = "f_used"
    BY <1>3 DEF FreeStore, FreeFlow
  <2>2. i \notin L
    BY <1>3 DEF Stage, Off
  <2> HIDE DEF m2
  <2>3. /\ m2 \in Mems /\ m2.iFirstFree = m.iFirstFree /\ (\A j \in L : m2.iNext[j] = m.iNext[j])
        /\ m2.iBlockFree = m.iBlockFree /\ m2.iModule = m.iModule /\ m2.iNext[i] = m.iFirstFree
    BY <1>0, <1>1, <2>1, <2>2 DEF Mems
  <2>4. Stage("f_used", i, m2, n, L)
    BY <1>3, <2>3 DEF Stage, NoBlock, AtHead, Off, Linked, Back, Owned, Spare
  <2> QED BY <2>1, <2>3, <2>4, ListSame DEF m2
<1>4. CASE s = "f_used"
  <2>1. m2 = [m EXCEPT !.iBlockUsed = @ - 1] /\ FreeFlow[s] = "f_free"
    BY <1>4 DEF FreeStore, FreeFlow
  <2> HIDE DEF m2
  <2>2. /\ m2 \in Mems /\ m2.iFirstFree = m.iFirstFree /\ m2.iNext = m.iNext
        /\ m2.iBlockFree = m.iBlockFree /\ m2.iModule = m.iModule
    BY <1>0, <2>1 DEF Mems
  <2>3. Stage("f_free", i, m2, n, L)
    BY <1>4, <2>2 DEF Stage, NoBlock, AtHead, Off, Linked, Back, Owned, Spare
  <2> QED BY <2>1, <2>2, <2>3, ListSame DEF m2
<1>5. CASE s = "f_free"
  <2>1. m2 = [m EXCEPT !.iBlockFree = @ + 1] /\ FreeFlow[s] = "f_first"
    BY <1>5 DEF FreeStore, FreeFlow
  <2> HIDE DEF m2
  <2>2. /\ m2 \in Mems /\ m2.iFirstFree = m.iFirstFree /\ m2.iNext = m.iNext
        /\ m2.iBlockFree = m.iBlockFree + 1 /\ m2.iModule = m.iModule
    BY <1>0, <2>1 DEF Mems
  <2>3. Stage("f_first", i, m2, n, L) /\ m2.iBlockFree >= n
    BY <1>0, <1>5, <2>2 DEF Stage, NoBlock, AtHead, Off, Linked, Back, Owned, Spare
  <2> QED BY <2>1, <2>2, <2>3, ListSame DEF m2
<1>6. CASE s = "f_first"
  <2>1. m2 = [m EXCEPT !.iFirstFree = i] /\ FreeFlow[s] = "f_sta"
    BY <1>6 DEF FreeStore, FreeFlow
  <2> HIDE DEF m2
  <2>2. /\ m2 \in Mems /\ m2.iFirstFree = i /\ m2.iNext = m.iNext
        /\ m2.iBlockFree = m.iBlockFree /\ m2.iModule = m.iModule
    BY <1>1, <2>1 DEF Mems
  <2>3. i \in Idx \ L /\ m.iNext[i] = m.iFirstFree /\ m.iBlockFree > n
    BY <1>6 DEF Stage, Off, Linked, Spare
  <2>4. ListOf(m2.iFirstFree, m2.iNext, n + 1, L \cup {i})
    BY <2>2, <2>3, ListPush
  <2>5. Stage("f_sta", i, m2, n + 1, L \cup {i}) /\ m2.iBlockFree >= n + 1
    BY <1>0, <2>2, <2>3 DEF Stage, NoBlock, AtHead, Off, Linked, Back, Owned, Spare
  <2> QED BY <2>1, <2>2, <2>4, <2>5 DEF Stored, m2
<1>7. CASE s = "f_sta"
  <2> DEFINE t == [iBlockUsed |-> m.sta.iBlockUsed - 1, iBlockFree |-> m.sta.iBlockFree + 1,
                   iUsePeakVa |-> m.sta.iUsePeakVa]
  <2>1. m2 = [m EXCEPT !.sta = t] /\ FreeFlow[s] = "f_up"
    BY <1>7 DEF FreeStore, FreeFlow
  <2>2. t \in [iBlockUsed : Int, iBlockFree : Int, iUsePeakVa : Int]
    BY DEF Mems
  <2> HIDE DEF m2, t
  <2>3. /\ m2 \in Mems /\ m2.iFirstFree = m.iFirstFree /\ m2.iNext = m.iNext
        /\ m2.iBlockFree = m.iBlockFree /\ m2.iModule = m.iModule
    BY <1>0, <2>1, <2>2 DEF Mems
  <2>4. Stage("f_up", i, m2, n, L)
    BY <1>7, <2>3 DEF Stage, NoBlock, AtHead, Off, Linked, Back, Owned, Spare
  <2> QED BY <2>1, <2>3, <2>4, ListSame DEF m2
<1> QED BY <1>2, <1>3, <1>4, <1>5, <1>6, <1>7, PcNames

-----------------------------------------------------------------------------
TableTypeOK ==
  /\ mem \in Mems
  /\ obj \in [Procs -> Idx \cup {INVALID_IDX}]
  /\ held \in [Procs -> SUBSET Idx]
  /\ crashes \in Nat /\ budget \in Nat

(* No block is in two hands, and one in a hand has an owner. *)
Hands ==
  /\ \A p, q \in Procs : p # q => held[p] \cap held[q] = {}
  /\ \A p, q \in Procs : obj[q] \notin held[p]
  /\ \A p, q \in Procs : obj[p] = obj[q] /\ obj[p] # INVALID_IDX => p = q
  /\ \A p \in Procs : \A i \in held[p] : mem.iModule[i] > 0

(* The blocks neither on the list L nor in a hand. *)
InHand == (UNION {held[p] : p \in Procs}) \cup {obj[p] : p \in Procs}
Lost(L) == Idx \ (L \cup InHand)

(* The list and what every process knows about it. *)
ListAt(n, L) ==
  /\ ListOf(mem.iFirstFree, mem.iNext, n, L)
  /\ mem.iBlockFree >= n
  /\ \A p \in Procs : held[p] \cap L = {}
  /\ \A p \in Procs : Stage(pc[p], obj[p], mem, n, L)
  /\ Cardinality(Lost(L)) <= budget

(* The inductive invariant: wherever processes have died the list is a list, its
   counter is not below its length, and what each call has done so far fits. *)
TableInv == SemInv /\ TableTypeOK /\ Hands /\ \E n, L : ListAt(n, L)

(* In the first state all blocks are on the list. *)
LEMMA TableInit == Init => TableInv
<1> SUFFICES ASSUME Init PROVE TableInv
  OBVIOUS
<1>1. BlockCoun \in Nat /\ BlockCoun > 0 /\ Idx = 0 .. BlockCoun - 1
  BY SemAssumption DEF Idx
<1>2. mem \in Mems
  <2>1. [i \in Idx |-> IF i + 1 < BlockCoun THEN i + 1 ELSE INVALID_IDX] \in [Idx -> Idx \cup {INVALID_IDX}]
    BY <1>1
  <2> QED BY <1>1, <2>1 DEF Init, InitMem, Mems
<1>3. TableTypeOK
  BY <1>2 DEF Init, TableTypeOK
<1>4. Hands
  BY IdxFacts DEF Init, Hands
<1> DEFINE q == [j \in 1 .. BlockCoun |-> j - 1]
<1>5. IsPath(mem.iFirstFree, mem.iNext, BlockCoun, q)
  BY <1>1 DEF Init, InitMem, IsPath
<1>6. Listed(BlockCoun, q) = Idx
  <2>1. \A i \in Idx : i + 1 \in 1 .. BlockCoun /\ q[i + 1] = i
    BY <1>1
  <2>2. \A j \in 1 .. BlockCoun : q[j] \in Idx
    BY <1>1
  <2> HIDE DEF q
  <2> QED BY <2>1, <2>2 DEF Listed
<1>7. ListOf(mem.iFirstFree, mem.iNext, BlockCoun, Idx)
  BY <1>1, <1>5, <1>6 DEF ListOf
<1>8. \A p \in Procs : Stage(pc[p], obj[p], mem, BlockCoun, Idx)
  <2>1. \A p \in Procs : pc[p] = "idle" /\ obj[p] = INVALID_IDX
    BY DEF Init
  <2>2. Stage("idle", INVALID_IDX, mem, BlockCoun, Idx)
    BY DEF Stage, NoBlock, AtHead, Off, Linked, Back, Owned, Spare
  <2> QED BY <2>1, <2>2
<1>9. Cardinality(Lost(Idx)) <= budget
  <2>1. Lost(Idx) = {}
    BY DEF Lost
  <2> QED BY <2>1, FS_EmptySet DEF Init
<1>10. mem.iBlockFree = BlockCoun /\ \A p \in Procs : held[p] = {}
  BY DEF Init, InitMem
<1>11. ListAt(BlockCoun, Idx)
  BY <1>1, <1>7, <1>8, <1>9, <1>10 DEF ListAt
<1> QED BY <1>3, <1>4, <1>11, SemInit DEF TableInv

(* What a process outside the critical section knows of the list. *)
LEMMA OutsideStage ==
  ASSUME NEW s \in Pcs \ Inside, NEW i, NEW m, NEW n, NEW L, Stage(s, i, m, n, L),
         NEW m2, NEW n2, NEW L2,
         s = "f_down" => i \notin L2 /\ m2.iModule[i] = m.iModule[i]
  PROVE  Stage(s, i, m2, n2, L2)
<1>1. s \in {"idle", "dead", "m_down", "f_down"}
  BY PcNames DEF Pcs
<1>2. s = "f_down" => i \in Idx
  BY DEF Stage, Off
<1> QED BY <1>1, <1>2 DEF Stage, NoBlock, AtHead, Off, Linked, Back, Owned, Spare

(* One store of the process inside keeps the invariant. *)
LEMMA StoreInv == ASSUME TableInv, NEW p \in Procs, Store(p), SemInv' PROVE TableInv'
<1>1. PICK n, L : ListAt(n, L)
  BY DEF TableInv
<1> DEFINE i == obj[p]
           s2 == IF pc[p] \in DOMAIN MallocFlow THEN MallocFlow[pc[p]] ELSE FreeFlow[pc[p]]
<1>2. obj' = obj /\ held' = held /\ budget' = budget /\ crashes' = crashes /\ pc[p] \in Inside
  BY PcNames DEF Store
<1>3. pc' = [pc EXCEPT ![p] = s2] /\ Stored(mem, mem', s2, i, n, L)
  <2>0. mem \in Mems /\ ListOf(mem.iFirstFree, mem.iNext, n, L) /\ mem.iBlockFree >= n
        /\ Stage(pc[p], i, mem, n, L)
    BY <1>1 DEF TableInv, TableTypeOK, ListAt
  <2>1. CASE pc[p] \in DOMAIN MallocFlow
    <3>1. mem' = MallocStore(mem, pc[p], p, i) /\ pc' = [pc EXCEPT ![p] = MallocFlow[pc[p]]] /\ s2 = MallocFlow[pc[p]]
      BY <2>1, PcNames DEF Store
    <3> HIDE DEF s2, i
    <3> QED BY <2>0, <2>1, <3>1, MallocStored
  <2>2. CASE pc[p] \in DOMAIN FreeFlow
    <3>1. mem' = FreeStore(mem, pc[p], i) /\ pc' = [pc EXCEPT ![p] = FreeFlow[pc[p]]] /\ s2 = FreeFlow[pc[p]]
      BY <2>2, PcNames DEF Store
    <3> HIDE DEF s2, i
    <3> QED BY <2>0, <2>2, <3>1, FreeStored
  <2> QED BY <2>1, <2>2 DEF Store
<1> HIDE DEF s2
<1>4. PICK n2, L2 : /\ ListOf(mem'.iFirstFree, mem'.iNext, n2, L2) /\ mem'.iBlockFree >= n2
                    /\ L2 \subseteq L \cup {i} /\ L \subseteq L2 \cup {i}
                    /\ Stage(s2, i, mem', n2, L2)
  BY <1>3 DEF Stored
<1>5. mem' \in Mems /\ \A j \in Idx \ {i} : mem'.iModule[j] = mem.iModule[j]
  BY <1>3 DEF Stored
<1>6. TableTypeOK'
  BY <1>2, <1>5 DEF TableInv, TableTypeOK
<1>7. Hands'
  <2>1. \A q \in Procs : \A j \in held[q] : j \in Idx \ {i} /\ mem.iModule[j] > 0
    BY DEF TableInv, TableTypeOK, Hands
  <2>2. \A q \in Procs : \A j \in held[q] : mem'.iModule[j] > 0
    BY <1>5, <2>1
  <2> QED BY <1>2, <2>2 DEF TableInv, Hands
<1>8. \A q \in Procs : held'[q] \cap L2 = {}
  BY <1>1, <1>2, <1>4 DEF TableInv, Hands, ListAt
<1>9. ASSUME NEW q \in Procs PROVE Stage(pc'[q], obj'[q], mem', n2, L2)
  <2>1. CASE q = p
    BY <1>2, <1>3, <1>4, <2>1 DEF TableInv, SemInv, SemTypeOK
  <2>2. CASE q # p
    <3>1. pc'[q] = pc[q] /\ pc[q] \in Pcs \ Inside /\ Stage(pc[q], obj[q], mem, n, L)
      BY <1>1, <1>2, <1>3, <2>2 DEF TableInv, SemInv, SemTypeOK, Units, ListAt
    <3>2. pc[q] = "f_down" => obj[q] \in Idx \ L
      BY <3>1 DEF Stage, Off
    <3>3. obj[q] \in Idx => obj[q] # i
      BY <2>2, IdxFacts DEF TableInv, Hands
    <3>4. pc[q] = "f_down" => obj[q] \notin L2 /\ mem'.iModule[obj[q]] = mem.iModule[obj[q]]
      BY <1>4, <1>5, <3>2, <3>3
    <3> QED BY <1>2, <3>1, <3>4, OutsideStage
  <2> QED BY <2>1, <2>2
<1>10. Lost(L2)' = Lost(L)
  <2>1. InHand' = InHand
    BY <1>2 DEF InHand
  <2>0. i \in InHand
    BY DEF InHand
  <2>2. Lost(L2)' = Idx \ (L2 \cup InHand')
    BY DEF Lost
  <2> HIDE DEF i
  <2>3. Idx \ (L2 \cup InHand) = Idx \ (L \cup InHand)
    BY <1>4, <2>0
  <2> QED BY <2>1, <2>2, <2>3 DEF Lost
<1>11. Cardinality(Lost(L2)') <= budget'
  BY <1>1, <1>2, <1>10 DEF ListAt
<1>12. ListAt(n2, L2)'
  BY <1>4, <1>8, <1>9, <1>11 DEF ListAt
<1> QED BY <1>6, <1>7, <1>12 DEF TableInv

-----------------------------------------------------------------------------
(* Who has a block in hand. *)
LEMMA InHandIff ==
  ASSUME NEW x
  PROVE  /\ x \in InHand <=> \E p \in Procs : x \in held[p] \/ x = obj[p]
         /\ x \in InHand' <=> \E p \in Procs : x \in held'[p] \/ x = obj'[p]
BY DEF InHand

(* A step that stores nothing into the table moves one process on. *)
LEMMA TableStep ==
  ASSUME TableInv, SemInv', NEW n, NEW L, ListAt(n, L), NEW p \in Procs, NEW s,
         NEW i \in Idx \cup {INVALID_IDX}, mem' = mem, pc' = [pc EXCEPT ![p] = s],
         obj' = [obj EXCEPT ![p] = i], held' \in [Procs -> SUBSET Idx],
         crashes' \in Nat, budget' \in Nat, Hands', \A q \in Procs : held'[q] \cap L = {},
         Stage(s, i, mem, n, L), Cardinality(Lost(L)') <= budget'
  PROVE  TableInv'
<1>1. TableTypeOK'
  BY DEF TableInv, TableTypeOK
<1>2. \A q \in Procs : Stage(pc'[q], obj'[q], mem', n, L)
  <2> SUFFICES ASSUME NEW q \in Procs PROVE Stage(pc'[q], obj'[q], mem', n, L)
    OBVIOUS
  <2>1. CASE q = p
    <3>1. pc'[q] = s /\ obj'[q] = i
      BY <2>1 DEF TableInv, SemInv, SemTypeOK, TableTypeOK
    <3> QED BY <3>1
  <2>2. CASE q # p
    <3>1. pc'[q] = pc[q] /\ obj'[q] = obj[q]
      BY <2>2 DEF TableInv, SemInv, SemTypeOK, TableTypeOK
    <3> QED BY <3>1 DEF ListAt
  <2> QED BY <2>1, <2>2
<1>3. ListAt(n, L)'
  BY <1>2 DEF ListAt
<1> QED BY <1>1, <1>3 DEF TableInv

(* A step after which no further block is lost. *)
LEMMA LostKept ==
  ASSUME TableInv, NEW n, NEW L, ListAt(n, L), budget' = budget,
         \A x \in Idx \ L : x \in InHand => x \in InHand'
  PROVE  Cardinality(Lost(L)') <= budget'
<1>1. Lost(L)' = Idx \ (L \cup InHand') /\ Lost(L) = Idx \ (L \cup InHand)
  BY DEF Lost
<1>2. Lost(L)' \subseteq Lost(L) /\ Lost(L) \in SUBSET Idx
  BY <1>1
<1>3. IsFiniteSet(Lost(L))
  BY <1>2, IdxFinite
<1>4. Cardinality(Lost(L)') <= Cardinality(Lost(L))
  BY <1>2, <1>3, FS_Subset
<1>5. Cardinality(Lost(L)) \in Nat /\ Cardinality(Lost(L)') \in Nat
  BY <1>2, IdxFinite
<1> QED BY <1>4, <1>5 DEF ListAt, TableInv, TableTypeOK

(* Outside a call with a block, nothing is known. *)
LEMMA NoBlockStage ==
  ASSUME NEW s \in NoBlock, NEW m, NEW n, NEW L
  PROVE  Stage(s, INVALID_IDX, m, n, L)
BY DEF Stage, NoBlock, AtHead, Off, Linked, Back, Owned, Spare

(* A process that is not between the start of a free and the end of its call has no block. *)
LEMMA NoBlockObj ==
  ASSUME TableInv, NEW p \in Procs, pc[p] \in NoBlock
  PROVE  obj[p] = INVALID_IDX
BY DEF TableInv, ListAt, Stage

(* A process enters mem_share_malloc or comes back to life. *)
LEMMA IdleInv ==
  ASSUME TableInv, SemInv', NEW p \in Procs, CallMalloc(p) \/ Attach(p)
  PROVE  TableInv'
<1>1. PICK n, L : ListAt(n, L)
  BY DEF TableInv
<1>2. PICK s \in NoBlock : pc' = [pc EXCEPT ![p] = s] /\ pc[p] \in NoBlock
  BY DEF CallMalloc, Attach, NoBlock
<1>3. mem' = mem /\ held' = held /\ obj' = obj /\ crashes' = crashes /\ budget' = budget
  BY DEF CallMalloc, Attach
<1>4. obj[p] = INVALID_IDX /\ obj' = [obj EXCEPT ![p] = INVALID_IDX]
  BY <1>2, <1>3, NoBlockObj DEF TableInv, TableTypeOK
<1>5. held' \in [Procs -> SUBSET Idx] /\ crashes' \in Nat /\ budget' \in Nat /\ Hands'
  BY <1>3 DEF TableInv, TableTypeOK, Hands
<1>6. Cardinality(Lost(L)') <= budget'
  BY <1>1, <1>3, LostKept DEF InHand
<1>7. \A q \in Procs : held'[q] \cap L = {}
  BY <1>1, <1>3 DEF ListAt
<1> QED BY <1>1, <1>2, <1>3, <1>4, <1>5, <1>6, <1>7, NoBlockStage, TableStep

(* A process enters mem_share_free with a block it holds. *)
LEMMA CallFreeInv ==
  ASSUME TableInv, SemInv', NEW p \in Procs, NEW i \in Idx, CallFree(p, i)
  PROVE  TableInv'
<1>1. PICK n, L : ListAt(n, L)
  BY DEF TableInv
<1>2. /\ pc' = [pc EXCEPT ![p] = "f_down"] /\ obj' = [obj EXCEPT ![p] = i]
      /\ held' = [held EXCEPT ![p] = held[p] \ {i}] /\ i \in held[p]
      /\ mem' = mem /\ crashes' = crashes /\ budget' = budget
  BY DEF CallFree
<1>3. obj[p] = INVALID_IDX
  BY NoBlockObj DEF CallFree, NoBlock
<1>4. /\ \A q \in Procs : held'[q] = IF q = p THEN held[p] \ {i} ELSE held[q]
      /\ \A q \in Procs : obj'[q] = IF q = p THEN i ELSE obj[q]
      /\ held' \in [Procs -> SUBSET Idx] /\ crashes' \in Nat /\ budget' \in Nat
  BY <1>2 DEF TableInv, TableTypeOK
<1>5. Hands'
  <2>1. \A q, r \in Procs : q # r => held'[q] \cap held'[r] = {}
    BY <1>4 DEF TableInv, Hands
  <2>2. \A q, r \in Procs : obj'[r] \notin held'[q]
    BY <1>2, <1>4 DEF TableInv, Hands
  <2>3. \A q, r \in Procs : obj'[q] = obj'[r] /\ obj'[q] # INVALID_IDX => q = r
    BY <1>2, <1>4 DEF TableInv, Hands
  <2>4. \A q \in Procs : \A j \in held'[q] : mem'.iModule[j] > 0
    BY <1>2, <1>4 DEF TableInv, Hands
  <2> QED BY <2>1, <2>2, <2>3, <2>4 DEF Hands
<1>6. \A q \in Procs : held'[q] \cap L = {}
  BY <1>1, <1>4 DEF ListAt
<1>7. Stage("f_down", i, mem, n, L)
  <2>1. i \in Idx \ L /\ mem.iModule[i] > 0
    BY <1>1, <1>2 DEF ListAt, TableInv, Hands
  <2> QED BY <2>1 DEF Stage, NoBlock, AtHead, Off, Linked, Back, Owned, Spare
<1>8. Cardinality(Lost(L)') <= budget'
  <2>1. ASSUME NEW x \in Idx \ L, x \in InHand PROVE x \in InHand'
    <3>1. PICK q \in Procs : x \in held[q] \/ x = obj[q]
      BY <2>1, InHandIff
    <3>2. x # INVALID_IDX
      BY IdxFacts
    <3>3. x \in held'[q] \/ x = obj'[q]
      BY <1>3, <1>4, <3>1, <3>2
    <3> QED BY <3>3, InHandIff
  <2> QED BY <1>1, <1>2, <2>1, LostKept
<1> QED BY <1>1, <1>2, <1>4, <1>5, <1>6, <1>7, <1>8, TableStep

(* The steps inside the critical section that store nothing and keep the block. *)
LEMMA DownCheckInv ==
  ASSUME TableInv, SemInv', NEW p \in Procs, Down(p) \/ Check(p)
  PROVE  TableInv'
<1>1. PICK n, L : ListAt(n, L)
  BY DEF TableInv
<1>2. mem' = mem /\ held' = held /\ obj' = obj /\ crashes' = crashes /\ budget' = budget
  BY DEF Down, Check
<1>3. obj' = [obj EXCEPT ![p] = obj[p]] /\ obj[p] \in Idx \cup {INVALID_IDX}
  BY <1>2 DEF TableInv, TableTypeOK
<1>4. Stage(pc[p], obj[p], mem, n, L)
  BY <1>1 DEF ListAt
<1>5. PICK s : pc' = [pc EXCEPT ![p] = s] /\ Stage(s, obj[p], mem, n, L)
  <2>1. CASE Down(p) /\ pc[p] = "m_down"
    <3>1. pc' = [pc EXCEPT ![p] = "m_find"]
      BY <2>1 DEF Down, Entered
    <3>2. Stage("m_find", obj[p], mem, n, L)
      BY <1>4, <2>1 DEF Stage, NoBlock, AtHead, Off, Linked, Back, Owned, Spare
    <3> QED BY <3>1, <3>2
  <2>2. CASE Down(p) /\ pc[p] # "m_down"
    <3>1. pc' = [pc EXCEPT ![p] = "f_check"] /\ pc[p] = "f_down"
      BY <2>2, PcNames DEF Down, Entered
    <3>2. Stage("f_check", obj[p], mem, n, L)
      BY <1>4, <3>1 DEF Stage, NoBlock, AtHead, Off, Linked, Back, Owned, Spare
    <3> QED BY <3>1, <3>2
  <2>3. CASE Check(p)
    <3>1. pc[p] = "f_check" /\ obj[p] \in Idx \ L /\ mem.iModule[obj[p]] > 0
      BY <1>4, <2>3, IdxFacts DEF Check, Stage, Off, Owned
    <3>2. pc' = [pc EXCEPT ![p] = "f_mod"]
      BY <2>3, <3>1 DEF Check
    <3>3. Stage("f_mod", obj[p], mem, n, L)
      BY <3>1 DEF Stage, NoBlock, AtHead, Off, Linked, Back, Owned, Spare
    <3> QED BY <3>2, <3>3
  <2> QED BY <2>1, <2>2, <2>3
<1>6. held' \in [Procs -> SUBSET Idx] /\ crashes' \in Nat /\ budget' \in Nat /\ Hands'
  BY <1>2 DEF TableInv, TableTypeOK, Hands
<1>7. Cardinality(Lost(L)') <= budget'
  BY <1>1, <1>2, LostKept DEF InHand
<1>8. \A q \in Procs : held'[q] \cap L = {}
  BY <1>1, <1>2 DEF ListAt
<1> QED BY <1>1, <1>2, <1>3, <1>5, <1>6, <1>7, <1>8, TableStep

(* mem_share_malloc takes the head of the list, which nobody has in hand. *)
LEMMA FindInv ==
  ASSUME TableInv, SemInv', NEW p \in Procs, Find(p)
  PROVE  TableInv'
<1>1. PICK n, L : ListAt(n, L)
  BY DEF TableInv
<1> DEFINE i == mem.iFirstFree
<1>2. mem' = mem /\ held' = held /\ crashes' = crashes /\ budget' = budget /\ pc[p] = "m_find"
  BY DEF Find
<1>3. /\ obj[p] = INVALID_IDX /\ n \in Nat /\ L \in SUBSET Idx
      /\ n > 0 => i \in L
      /\ n = 0 => i = INVALID_IDX
      /\ obj \in [Procs -> Idx \cup {INVALID_IDX}]
  BY <1>1, <1>2, NoBlockObj, ListFacts DEF ListAt, NoBlock, TableInv, TableTypeOK
<1>4. held' \in [Procs -> SUBSET Idx] /\ crashes' \in Nat /\ budget' \in Nat
  BY <1>2 DEF TableInv, TableTypeOK
<1>5. \A q \in Procs : held'[q] \cap L = {}
  BY <1>1, <1>2 DEF ListAt
<1>6. CASE mem.iBlockFree > 0 /\ i >= 0
  <2>1. obj' = [obj EXCEPT ![p] = i] /\ pc' = [pc EXCEPT ![p] = "m_own"]
    BY <1>6 DEF Find
  <2>2. n > 0 /\ i \in L /\ i \in Idx
    BY <1>3, <1>6, IdxFacts
  <2>3. ASSUME NEW q \in Procs, q # p PROVE obj[q] # i
    <3>1. pc[q] \in Pcs \ Inside /\ Stage(pc[q], obj[q], mem, n, L)
      BY <1>1, <1>2, <2>3, PcNames DEF TableInv, SemInv, SemTypeOK, Units, ListAt
    <3>2. pc[q] \in {"idle", "dead", "m_down", "f_down"}
      BY <3>1, PcNames DEF Pcs
    <3> QED BY <2>2, <3>1, <3>2, IdxFacts DEF Stage, NoBlock, Off
  <2>4. \A q \in Procs : obj'[q] = IF q = p THEN i ELSE obj[q]
    BY <1>3, <2>1
  <2>5. Hands'
    <3>1. \A q, r \in Procs : obj'[r] \notin held'[q]
      BY <1>2, <1>5, <2>2, <2>4 DEF TableInv, Hands
    <3>2. \A q, r \in Procs : obj'[q] = obj'[r] /\ obj'[q] # INVALID_IDX => q = r
      BY <2>3, <2>4 DEF TableInv, Hands
    <3> QED BY <1>2, <3>1, <3>2 DEF TableInv, Hands
  <2>6. Stage("m_own", i, mem, n, L)
    BY <2>2 DEF Stage, NoBlock, AtHead, Off, Linked, Back, Owned, Spare
  <2>7. Cardinality(Lost(L)') <= budget'
    <3>1. ASSUME NEW x \in Idx \ L, x \in InHand PROVE x \in InHand'
      <4>1. PICK q \in Procs : x \in held[q] \/ x = obj[q]
        BY <3>1, InHandIff
      <4>2. x \in held'[q] \/ x = obj'[q]
        BY <1>2, <1>3, <2>4, <4>1, IdxFacts
      <4> QED BY <4>2, InHandIff
    <3> QED BY <1>1, <1>2, <3>1, LostKept
  <2> HIDE DEF i
  <2> QED BY <1>1, <1>2, <1>4, <1>5, <2>1, <2>2, <2>5, <2>6, <2>7, TableStep
<1>7. CASE ~(mem.iBlockFree > 0 /\ i >= 0)
  <2>1. obj' = obj /\ pc' = [pc EXCEPT ![p] = "m_up"]
    BY <1>7 DEF Find
  <2>2. obj' = [obj EXCEPT ![p] = INVALID_IDX]
    BY <1>3, <2>1
  <2>3. Hands'
    BY <1>2, <2>1 DEF TableInv, Hands
  <2>4. Stage("m_up", INVALID_IDX, mem, n, L)
    BY <1>3, IdxFacts DEF Stage, NoBlock, AtHead, Off, Linked, Back, Owned, Spare
  <2>5. Cardinality(Lost(L)') <= budget'
    BY <1>1, <1>2, <2>1, LostKept DEF InHand
  <2> QED BY <1>1, <1>2, <1>4, <1>5, <2>1, <2>2, <2>3, <2>4, <2>5, TableStep
<1> QED BY <1>6, <1>7

(* A call returns: the block of a malloc is in the caller's hand, that of a free is on
   the list. *)
LEMMA UpInv ==
  ASSUME TableInv, SemInv', NEW p \in Procs, Up(p)
  PROVE  TableInv'
<1>1. PICK n, L : ListAt(n, L)
  BY DEF TableInv
<1> DEFINE i == obj[p]
           got == IF pc[p] = "m_up" THEN {i} \ {INVALID_IDX} ELSE {}
<1>2. /\ pc' = [pc EXCEPT ![p] = "idle"] /\ obj' = [obj EXCEPT ![p] = INVALID_IDX]
      /\ held' = [held EXCEPT ![p] = held[p] \cup got]
      /\ mem' = mem /\ crashes' = crashes /\ budget' = budget
  BY DEF Up
<1>3. /\ got \subseteq Idx \ L
      /\ \A j \in got : j = i /\ mem.iModule[j] > 0
      /\ i \in got \cup L \cup {INVALID_IDX}
  <2>1. Stage(pc[p], i, mem, n, L) /\ i \in Idx \cup {INVALID_IDX}
    BY <1>1 DEF ListAt, TableInv, TableTypeOK
  <2>2. CASE pc[p] = "m_up"
    BY <2>1, <2>2 DEF Stage, Owned
  <2>3. CASE pc[p] = "f_up"
    BY <2>1, <2>3 DEF Stage, Back
  <2> QED BY <2>2, <2>3 DEF Up
<1> HIDE DEF got
<1>4. /\ \A q \in Procs : held'[q] = IF q = p THEN held[p] \cup got ELSE held[q]
      /\ \A q \in Procs : obj'[q] = IF q = p THEN INVALID_IDX ELSE obj[q]
      /\ held' \in [Procs -> SUBSET Idx] /\ crashes' \in Nat /\ budget' \in Nat
  BY <1>2, <1>3 DEF TableInv, TableTypeOK
<1>5. Hands'
  <2>0. \A q \in Procs : i \notin held[q]
    BY DEF TableInv, Hands
  <2>1. \A q, r \in Procs : q # r => held'[q] \cap held'[r] = {}
    BY <1>3, <1>4, <2>0 DEF TableInv, Hands
  <2>2. \A q, r \in Procs : obj'[r] \notin held'[q]
    <3> SUFFICES ASSUME NEW q \in Procs, NEW r \in Procs PROVE obj'[r] \notin held'[q]
      OBVIOUS
    <3>1. CASE r = p
      BY <1>4, <3>1, IdxFacts
    <3>2. CASE r # p
      <4>1. obj'[r] = obj[r] /\ obj[r] \notin held[q] /\ obj[r] \notin held[p]
        BY <1>4, <3>2 DEF TableInv, Hands
      <4>2. obj[r] \notin got
        BY <1>3, <3>2, IdxFacts DEF TableInv, Hands
      <4> QED BY <1>4, <4>1, <4>2
    <3> QED BY <3>1, <3>2
  <2>3. \A q, r \in Procs : obj'[q] = obj'[r] /\ obj'[q] # INVALID_IDX => q = r
    BY <1>4 DEF TableInv, Hands
  <2>4. \A q \in Procs : \A j \in held'[q] : mem'.iModule[j] > 0
    BY <1>2, <1>3, <1>4 DEF TableInv, Hands
  <2> QED BY <2>1, <2>2, <2>3, <2>4 DEF Hands
<1>6. \A q \in Procs : held'[q] \cap L = {}
  BY <1>1, <1>3, <1>4 DEF ListAt
<1>7. Stage("idle", INVALID_IDX, mem, n, L)
  BY NoBlockStage DEF NoBlock
<1>8. Cardinality(Lost(L)') <= budget'
  <2>1. ASSUME NEW x \in Idx \ L, x \in InHand PROVE x \in InHand'
    <3>1. PICK q \in Procs : x \in held[q] \/ x = obj[q]
      BY <2>1, InHandIff
    <3>2. x # INVALID_IDX /\ x \notin L
      BY IdxFacts
    <3>3. x \in held'[q] \/ x = obj'[q]
      BY <1>3, <1>4, <3>1, <3>2
    <3> QED BY <3>3, InHandIff
  <2> QED BY <1>1, <1>2, <2>1, LostKept
<1> QED BY <1>1, <1>2, <1>4, <1>5, <1>6, <1>7, <1>8, TableStep

(* A block goes from hand to hand in a message. *)
LEMMA SendInv ==
  ASSUME TableInv, SemInv', NEW p \in Procs, NEW q \in Procs, NEW i \in Idx, Send(p, q, i)
  PROVE  TableInv'
<1>1. PICK n, L : ListAt(n, L)
  BY DEF TableInv
<1>2. /\ held' = [held EXCEPT ![p] = held[p] \ {i}, ![q] = held[q] \cup {i}]
      /\ p # q /\ i \in held[p]
      /\ pc' = pc /\ obj' = obj /\ mem' = mem /\ crashes' = crashes /\ budget' = budget
  BY DEF Send
<1>3. PICK s, o : o \in Idx \cup {INVALID_IDX} /\ pc' = [pc EXCEPT ![p] = s]
                   /\ obj' = [obj EXCEPT ![p] = o] /\ Stage(s, o, mem, n, L)
  <2>1. /\ pc' = [pc EXCEPT ![p] = pc[p]] /\ obj' = [obj EXCEPT ![p] = obj[p]]
        /\ obj[p] \in Idx \cup {INVALID_IDX} /\ Stage(pc[p], obj[p], mem, n, L)
    BY <1>1, <1>2 DEF TableInv, SemInv, SemTypeOK, TableTypeOK, ListAt
  <2> QED BY <2>1
<1>4. /\ \A r \in Procs : held'[r] = IF r = p THEN held[p] \ {i} ELSE IF r = q THEN held[q] \cup {i} ELSE held[r]
      /\ held' \in [Procs -> SUBSET Idx] /\ crashes' \in Nat /\ budget' \in Nat
  BY <1>2 DEF TableInv, TableTypeOK
<1>5. Hands'
  <2>1. \A r, t \in Procs : r # t => held'[r] \cap held'[t] = {}
    BY <1>2, <1>4 DEF TableInv, Hands
  <2>2. \A r, t \in Procs : obj'[t] \notin held'[r]
    BY <1>2, <1>4 DEF TableInv, Hands
  <2>3. \A r \in Procs : \A j \in held'[r] : mem'.iModule[j] > 0
    BY <1>2, <1>4 DEF TableInv, Hands
  <2> QED BY <1>2, <2>1, <2>2, <2>3 DEF TableInv, Hands
<1>6. \A r \in Procs : held'[r] \cap L = {}
  BY <1>1, <1>2, <1>4 DEF ListAt
<1>7. Cardinality(Lost(L)') <= budget'
  <2>1. ASSUME NEW x \in Idx \ L, x \in InHand PROVE x \in InHand'
    <3>1. PICK r \in Procs : x \in held[r] \/ x = obj[r]
      BY <2>1, InHandIff
    <3>2. (x \in held'[r] \/ x = obj'[r]) \/ x \in held'[q]
      BY <1>2, <1>4, <3>1
    <3> QED BY <3>2, InHandIff
  <2> QED BY <1>1, <1>2, <2>1, LostKept
<1>8. mem' = mem
  BY <1>2
<1> QED BY <1>1, <1>3, <1>4, <1>5, <1>6, <1>7, <1>8, TableStep

(* A death: the blocks the process held and the one it was moving may be lost, and
   nothing else. *)
LEMMA CrashInv ==
  ASSUME TableInv, SemInv', NEW p \in Procs, Crash(p)
  PROVE  TableInv'
<1>1. PICK n, L : ListAt(n, L)
  BY DEF TableInv
<1> DEFINE B == {obj[p]} \ {INVALID_IDX}
           c == IF obj[p] = INVALID_IDX THEN 0 ELSE 1
<1>2. /\ pc' = [pc EXCEPT ![p] = "dead"] /\ obj' = [obj EXCEPT ![p] = INVALID_IDX]
      /\ held' = [held EXCEPT ![p] = {}] /\ mem' = mem /\ crashes' = crashes + 1
      /\ budget' = budget + Cardinality(held[p]) + c
  BY DEF Crash
<1>3. /\ \A q \in Procs : held'[q] = IF q = p THEN {} ELSE held[q]
      /\ \A q \in Procs : obj'[q] = IF q = p THEN INVALID_IDX ELSE obj[q]
      /\ held' \in [Procs -> SUBSET Idx] /\ held[p] \in SUBSET Idx /\ B \in SUBSET Idx
      /\ crashes' \in Nat /\ budget \in Nat
  BY <1>2 DEF TableInv, TableTypeOK
<1>4. IsFiniteSet(B) /\ Cardinality(B) = c
  <2>1. CASE obj[p] = INVALID_IDX
    <3>1. B = {}
      BY <2>1
    <3> QED BY <2>1, <3>1, FS_EmptySet
  <2>2. CASE obj[p] # INVALID_IDX
    <3>1. B = {obj[p]}
      BY <2>2
    <3> QED BY <2>2, <3>1, FS_Singleton
  <2> QED BY <2>1, <2>2
<1> HIDE DEF c, B
<1>5. IsFiniteSet(held[p]) /\ Cardinality(held[p]) \in Nat /\ c \in Nat
  BY <1>3, <1>4, IdxFinite DEF c
<1>6. Hands'
  <2>1. \A q, r \in Procs : obj'[r] \notin held'[q]
    BY <1>3, IdxFacts DEF TableInv, Hands
  <2> QED BY <1>2, <1>3, <2>1 DEF TableInv, Hands
<1>7. \A q \in Procs : held'[q] \cap L = {}
  BY <1>1, <1>3 DEF ListAt
<1>8. Stage("dead", INVALID_IDX, mem, n, L)
  BY NoBlockStage DEF NoBlock
<1>9. Cardinality(Lost(L)') <= budget'
  <2> DEFINE X == Lost(L)
             X2 == Idx \ (L \cup InHand')
             Y == held[p] \cup B
  <2>1. Lost(L)' = X2 /\ X = Idx \ (L \cup InHand) /\ X2 \in SUBSET Idx /\ X \in SUBSET Idx
    BY DEF Lost
  <2>2. X2 \subseteq X \cup Y
    <3> SUFFICES ASSUME NEW x \in X2 PROVE x \in X \cup Y
      OBVIOUS
    <3>1. x \in Idx /\ x \notin L /\ x \notin InHand' /\ x # INVALID_IDX
      BY IdxFacts
    <3>2. CASE x \notin InHand
      BY <2>1, <3>1, <3>2
    <3>3. CASE x \in InHand
      <4>1. PICK q \in Procs : x \in held[q] \/ x = obj[q]
        BY <3>3, InHandIff
      <4>2. q = p
        BY <1>3, <3>1, <4>1, InHandIff
      <4> QED BY <3>1, <4>1, <4>2 DEF B
    <3> QED BY <3>2, <3>3
  <2> HIDE DEF X, X2
  <2>3. IsFiniteSet(X) /\ Cardinality(X) \in Nat /\ Cardinality(X) <= budget
    BY <1>1, <2>1, IdxFinite DEF X, ListAt
  <2>4. /\ IsFiniteSet(Y)
        /\ Cardinality(Y) <= Cardinality(held[p]) + c
        /\ Cardinality(Y) \in Nat
    <3>1. IsFiniteSet(Y) /\ Cardinality(Y) = Cardinality(held[p]) + Cardinality(B) - Cardinality(held[p] \cap B)
      BY <1>4, <1>5, FS_Union
    <3>2. Cardinality(held[p] \cap B) \in Nat
      BY <1>3, IdxFinite
    <3> QED BY <1>4, <1>5, <3>1, <3>2, FS_CardinalityType
  <2> HIDE DEF Y
  <2>5. Cardinality(X \cup Y) <= Cardinality(X) + Cardinality(Y) /\ IsFiniteSet(X \cup Y) /\ Cardinality(X \cup Y) \in Nat
    <3>1. /\ IsFiniteSet(X \cup Y)
          /\ Cardinality(X \cup Y) = Cardinality(X) + Cardinality(Y) - Cardinality(X \cap Y)
      BY <2>3, <2>4, FS_Union
    <3>2. Cardinality(X \cap Y) \in Nat
      BY <2>1, IdxFinite
    <3> QED BY <2>3, <2>4, <3>1, <3>2, FS_CardinalityType
  <2>6. Cardinality(X2) <= Cardinality(X \cup Y) /\ Cardinality(X2) \in Nat
    BY <2>1, <2>2, <2>5, IdxFinite, FS_Subset
  <2> QED BY <1>2, <1>3, <1>5, <2>1, <2>3, <2>4, <2>5, <2>6
<1>10. budget' \in Nat /\ INVALID_IDX \in Idx \cup {INVALID_IDX}
  BY <1>2, <1>3, <1>5
<1> QED BY <1>1, <1>2, <1>3, <1>6, <1>7, <1>8, <1>9, <1>10, TableStep

(* Every step keeps the invariant. *)
LEMMA TableNext == TableInv /\ [Next]_vars => TableInv'
<1> SUFFICES ASSUME TableInv, [Next]_vars PROVE TableInv'
  OBVIOUS
<1>1. SemInv'
  BY SemNext DEF TableInv
<1>2. CASE UNCHANGED vars
  <2>1. PICK n, L : ListAt(n, L)
    BY DEF TableInv
  <2>2. Lost(L)' = Lost(L)
    BY <1>2 DEF Lost, InHand, vars
  <2>3. ListAt(n, L)'
    BY <1>2, <2>1, <2>2 DEF ListAt, vars
  <2> QED BY <1>1, <1>2, <2>3 DEF TableInv, TableTypeOK, Hands, vars
<1>3. CASE Next
  BY <1>1, <1>3, IdleInv, CallFreeInv, DownCheckInv, FindInv, StoreInv, UpInv, SendInv, CrashInv
     DEF Next, Step
<1> QED BY <1>2, <1>3

(* A block is never in two hands, wherever another process died: no two processes hold
   it, and one that is held or being returned is in use and cannot be reached from
   iFirstFree. *)
THEOREM OneHandOnly == Spec => []NoSharedBlock
<1>1. TableInv => NoSharedBlock
  <2> SUFFICES ASSUME TableInv PROVE NoSharedBlock
    OBVIOUS
  <2>1. PICK n, L : ListAt(n, L)
    BY DEF TableInv
  <2>2. OnList = L
    BY <2>1, ReachedList DEF ListAt
  <2> QED BY <2>1, <2>2 DEF TableInv, Hands, ListAt, NoSharedBlock
<1> QED BY <1>1, TableInit, TableNext, PTL DEF Spec

(* Wherever processes died inside mem_share_malloc or mem_share_free the free list
   ends, and its counter is not below its length, so the clamp of mem_share_malloc
   never cuts off a block that is still linked. *)
THEOREM ListSurvivesDeath == Spec => []ListUsable
<1>1. TableInv => ListUsable
  <2> SUFFICES ASSUME TableInv PROVE ListUsable
    OBVIOUS
  <2>1. PICK n, L : ListAt(n, L)
    BY DEF TableInv
  <2>2. Reached = L \cup {INVALID_IDX} /\ OnList = L
    BY <2>1, ReachedList DEF ListAt
  <2>3. n \in Nat /\ Cardinality(L) = n /\ (n = 0 => L = {}) /\ (mem.iFirstFree < 0 => n = 0)
    BY <2>1, ListFacts DEF ListAt
  <2>4. mem.iBlockFree \in Int /\ mem.iBlockFree >= n
    BY <2>1 DEF ListAt, TableInv, TableTypeOK, Mems
  <2>5. Exhausted(mem) => L = {}
    BY <2>3, <2>4 DEF Exhausted
  <2> QED BY <2>2, <2>3, <2>4, <2>5 DEF ListUsable
<1> QED BY <1>1, TableInit, TableNext, PTL DEF Spec

(* The deaths cost the platform at most the blocks the dead processes held and the one
   each of them was moving; all others can be allocated. *)
THEOREM DeathCostsLittle == Spec => []LossBound
<1>1. TableInv => LossBound
  <2> SUFFICES ASSUME TableInv PROVE LossBound
    OBVIOUS
  <2>1. PICK n, L : ListAt(n, L)
    BY DEF TableInv
  <2>2. OnList = L
    BY <2>1, ReachedList DEF ListAt
  <2> QED BY <2>1, <2>2 DEF ListAt, Lost, InHand, LossBound
<1> QED BY <1>1, TableInit, TableNext, PTL DEF Spec

-----------------------------------------------------------------------------
(* How far a call of mem_share_malloc by p has brought the table from o, as it was at
   the last mem_share_semup, to m, when s is its next step and i its block. *)
MallocAt(s, m, o, p, i) ==
  LET left  == o.iBlockFree - 1
      next  == o.iNext[i]
      empty == left <= 0 \/ next < 0
  IN /\ i \in Idx /\ i = o.iFirstFree /\ o.iBlockFree > 0
     /\ m.iModule = IF s = "m_own" THEN o.iModule ELSE [o.iModule EXCEPT ![i] = p]
     /\ m.iFirstFree = IF s \in {"m_own", "m_first"} THEN i
                       ELSE IF s \in {"m_used", "m_free", "m_peak", "m_clamp", "m_cut"} THEN next
                       ELSE IF empty THEN INVALID_IDX ELSE next
     /\ m.iBlockUsed = IF s \in {"m_own", "m_first", "m_used"} THEN o.iBlockUsed ELSE o.iBlockUsed + 1
     /\ m.iBlockFree = IF s \in {"m_own", "m_first", "m_used", "m_free"} THEN o.iBlockFree
                       ELSE IF s \in {"m_peak", "m_clamp"} THEN left
                       ELSE IF empty THEN 0 ELSE left
     /\ m.iUsePeakVa = IF s \in {"m_own", "m_first", "m_used", "m_free", "m_peak"} THEN o.iUsePeakVa
                       ELSE Larger(o.iUsePeakVa, o.iBlockUsed + 1)
     /\ m.iNext = IF s \in {"m_sta", "m_up"} THEN [o.iNext EXCEPT ![i] = INVALID_IDX] ELSE o.iNext
     /\ m.sta = IF s = "m_up"
                THEN [iBlockUsed |-> o.sta.iBlockUsed + 1, iBlockFree |-> o.sta.iBlockFree - 1,
                      iUsePeakVa |-> Larger(o.sta.iUsePeakVa, o.sta.iBlockUsed + 1)]
                ELSE o.sta

(* The same for a call of mem_share_free. *)
FreeAt(s, m, o, i) ==
  /\ i \in Idx /\ o.iModule[i] > 0
  /\ m.iModule = IF s = "f_mod" THEN o.iModule ELSE [o.iModule EXCEPT ![i] = 0]
  /\ m.iNext = IF s \in {"f_mod", "f_next"} THEN o.iNext ELSE [o.iNext EXCEPT ![i] = o.iFirstFree]
  /\ m.iBlockUsed = IF s \in {"f_mod", "f_next", "f_used"} THEN o.iBlockUsed ELSE o.iBlockUsed - 1
  /\ m.iBlockFree = IF s \in {"f_mod", "f_next", "f_used", "f_free"} THEN o.iBlockFree
                    ELSE o.iBlockFree + 1
  /\ m.iFirstFree = IF s \in {"f_sta", "f_up"} THEN i ELSE o.iFirstFree
  /\ m.iUsePeakVa = o.iUsePeakVa
  /\ m.sta = IF s = "f_up"
             THEN [iBlockUsed |-> o.sta.iBlockUsed - 1, iBlockFree |-> o.sta.iBlockFree + 1,
                   iUsePeakVa |-> o.sta.iUsePeakVa]
             ELSE o.sta

(* Where a process inside the critical section stands. *)
During(s, m, o, p, i) ==
  /\ s \in {"m_find", "f_check"} => m = o
  /\ s \in DOMAIN MallocFlow => MallocAt(s, m, o, p, i)
  /\ s = "m_up" => (i = INVALID_IDX /\ m = o) \/ MallocAt(s, m, o, p, i)
  /\ s \in DOMAIN FreeFlow \cup {"f_up"} => FreeAt(s, m, o, i)

(* Until a process dies the table differs from that of the last mem_share_semup only
   by the stores of the process inside. *)
Undisturbed ==
  /\ \A p \in Procs : pc[p] \in Inside => During(pc[p], mem, snap, p, obj[p])
  /\ (\A p \in Procs : pc[p] \notin Inside) => mem = snap
SnapInv == snap \in Mems /\ (crashes = 0 => Undisturbed)

(* A store brings a call of mem_share_malloc one step further. *)
LEMMA MallocOn ==
  ASSUME NEW m \in Mems, NEW o \in Mems, NEW p \in Procs, NEW i, NEW s \in DOMAIN MallocFlow,
         MallocAt(s, m, o, p, i)
  PROVE  MallocAt(MallocFlow[s], MallocStore(m, s, p, i), o, p, i)
<1> DEFINE m2 == MallocStore(m, s, p, i)
<1>0. /\ i \in Idx /\ i = o.iFirstFree /\ o.iBlockFree > 0 /\ o.iBlockFree \in Int
      /\ o.iNext[i] \in Int
  BY IdxFacts DEF MallocAt, Mems
<1>1. CASE s = "m_own"
  <2>1. m2 = [m EXCEPT !.iModule[i] = p] /\ MallocFlow[s] = "m_first"
    BY <1>1 DEF MallocStore, MallocFlow
  <2> HIDE DEF m2
  <2>2. /\ m2.iModule = [m.iModule EXCEPT ![i] = p] /\ m2.iFirstFree = m.iFirstFree
        /\ m2.iBlockUsed = m.iBlockUsed /\ m2.iBlockFree = m.iBlockFree
        /\ m2.iUsePeakVa = m.iUsePeakVa /\ m2.iNext = m.iNext /\ m2.sta = m.sta
    BY <2>1 DEF Mems
  <2>3. MallocAt("m_first", m2, o, p, i)
    BY <1>0, <1>1, <2>2 DEF MallocAt
  <2> QED BY <2>1, <2>3 DEF m2
<1>2. CASE s = "m_first"
  <2>1. m2 = [m EXCEPT !.iFirstFree = m.iNext[i]] /\ MallocFlow[s] = "m_used"
    BY <1>2 DEF MallocStore, MallocFlow
  <2> HIDE DEF m2
  <2>2. /\ m2.iModule = m.iModule /\ m2.iFirstFree = m.iNext[i]
        /\ m2.iBlockUsed = m.iBlockUsed /\ m2.iBlockFree = m.iBlockFree
        /\ m2.iUsePeakVa = m.iUsePeakVa /\ m2.iNext = m.iNext /\ m2.sta = m.sta
    BY <2>1 DEF Mems
  <2>3. MallocAt("m_used", m2, o, p, i)
    BY <1>0, <1>2, <2>2 DEF MallocAt
  <2> QED BY <2>1, <2>3 DEF m2
<1>3. CASE s = "m_used"
  <2>1. m2 = [m EXCEPT !.iBlockUsed = @ + 1] /\ MallocFlow[s] = "m_free"
    BY <1>3 DEF MallocStore, MallocFlow
  <2> HIDE DEF m2
  <2>2. /\ m2.iModule = m.iModule /\ m2.iFirstFree = m.iFirstFree
        /\ m2.iBlockUsed = m.iBlockUsed + 1 /\ m2.iBlockFree = m.iBlockFree
        /\ m2.iUsePeakVa = m.iUsePeakVa /\ m2.iNext = m.iNext /\ m2.sta = m.sta
    BY <2>1 DEF Mems
  <2>3. MallocAt("m_free", m2, o, p, i)
    BY <1>0, <1>3, <2>2 DEF MallocAt
  <2> QED BY <2>1, <2>3 DEF m2
<1>4. CASE s = "m_free"
  <2>1. m2 = [m EXCEPT !.iBlockFree = @ - 1] /\ MallocFlow[s] = "m_peak"
    BY <1>4 DEF MallocStore, MallocFlow
  <2> HIDE DEF m2
  <2>2. /\ m2.iModule = m.iModule /\ m2.iFirstFree = m.iFirstFree
        /\ m2.iBlockUsed = m.iBlockUsed /\ m2.iBlockFree = m.iBlockFree - 1
        /\ m2.iUsePeakVa = m.iUsePeakVa /\ m2.iNext = m.iNext /\ m2.sta = m.sta
    BY <2>1 DEF Mems
  <2>3. MallocAt("m_peak", m2, o, p, i)
    BY <1>0, <1>4, <2>2 DEF MallocAt
  <2> QED BY <2>1, <2>3 DEF m2
<1>5. CASE s = "m_peak"
  <2>1. m2 = [m EXCEPT !.iUsePeakVa = Larger(@, m.iBlockUsed)] /\ MallocFlow[s] = "m_clamp"
    BY <1>5 DEF MallocStore, MallocFlow
  <2> HIDE DEF m2
  <2>2. /\ m2.iModule = m.iModule /\ m2.iFirstFree = m.iFirstFree
        /\ m2.iBlockUsed = m.iBlockUsed /\ m2.iBlockFree = m.iBlockFree
        /\ m2.iUsePeakVa = Larger(m.iUsePeakVa, m.iBlockUsed) /\ m2.iNext = m.iNext /\ m2.sta = m.sta
    BY <2>1 DEF Mems
  <2>3. MallocAt("m_clamp", m2, o, p, i)
    BY <1>0, <1>5, <2>2 DEF MallocAt
  <2> QED BY <2>1, <2>3 DEF m2
<1>6. CASE s = "m_clamp"
  <2>1. m2 = (IF Exhausted(m) THEN [m EXCEPT !.iBlockFree = 0] ELSE m) /\ MallocFlow[s] = "m_cut"
    BY <1>6 DEF MallocStore, MallocFlow
  <2>2. Exhausted(m) <=> (o.iBlockFree - 1 <= 0 \/ o.iNext[i] < 0)
    BY <1>6 DEF Exhausted, MallocAt
  <2> HIDE DEF m2
  <2>3. /\ m2.iModule = m.iModule /\ m2.iFirstFree = m.iFirstFree
        /\ m2.iBlockUsed = m.iBlockUsed /\ m2.iBlockFree = IF Exhausted(m) THEN 0 ELSE m.iBlockFree
        /\ m2.iUsePeakVa = m.iUsePeakVa /\ m2.iNext = m.iNext /\ m2.sta = m.sta
    BY <2>1 DEF Mems
  <2>4. MallocAt("m_cut", m2, o, p, i)
    BY <1>0, <1>6, <2>2, <2>3 DEF MallocAt
  <2> QED BY <2>1, <2>4 DEF m2
<1>7. CASE s = "m_cut"
  <2>1. m2 = (IF Exhausted(m) THEN [m EXCEPT !.iFirstFree = INVALID_IDX] ELSE m) /\ MallocFlow[s] = "m_next"
    BY <1>7 DEF MallocStore, MallocFlow
  <2>2. Exhausted(m) <=> (o.iBlockFree - 1 <= 0 \/ o.iNext[i] < 0)
    BY <1>0, <1>7 DEF Exhausted, MallocAt
  <2> HIDE DEF m2
  <2>3. /\ m2.iModule = m.iModule /\ m2.iFirstFree = IF Exhausted(m) THEN INVALID_IDX ELSE m.iFirstFree
        /\ m2.iBlockUsed = m.iBlockUsed /\ m2.iBlockFree = m.iBlockFree
        /\ m2.iUsePeakVa = m.iUsePeakVa /\ m2.iNext = m.iNext /\ m2.sta = m.sta
    BY <2>1 DEF Mems
  <2>4. MallocAt("m_next", m2, o, p, i)
    BY <1>0, <1>7, <2>2, <2>3 DEF MallocAt
  <2> QED BY <2>1, <2>4 DEF m2
<1>8. CASE s = "m_next"
  <2>1. m2 = [m EXCEPT !.iNext[i] = INVALID_IDX] /\ MallocFlow[s] = "m_sta"
    BY <1>8 DEF MallocStore, MallocFlow
  <2> HIDE DEF m2
  <2>2. /\ m2.iModule = m.iModule /\ m2.iFirstFree = m.iFirstFree
        /\ m2.iBlockUsed = m.iBlockUsed /\ m2.iBlockFree = m.iBlockFree
        /\ m2.iUsePeakVa = m.iUsePeakVa /\ m2.iNext = [m.iNext EXCEPT ![i] = INVALID_IDX] /\ m2.sta = m.sta
    BY <2>1 DEF Mems
  <2>3. MallocAt("m_sta", m2, o, p, i)
    BY <1>0, <1>8, <2>2 DEF MallocAt
  <2> QED BY <2>1, <2>3 DEF m2
<1>9. CASE s = "m_sta"
  <2> DEFINE t == [iBlockUsed |-> m.sta.iBlockUsed + 1, iBlockFree |-> m.sta.iBlockFree - 1,
                   iUsePeakVa |-> Larger(m.sta.iUsePeakVa, m.sta.iBlockUsed + 1)]
  <2>1. m2 = [m EXCEPT !.sta = t] /\ MallocFlow[s] = "m_up"
    BY <1>9 DEF MallocStore, MallocFlow
  <2>2. m.sta = o.sta
    BY <1>9 DEF MallocAt
  <2> HIDE DEF m2, t
  <2>3. /\ m2.iModule = m.iModule /\ m2.iFirstFree = m.iFirstFree
        /\ m2.iBlockUsed = m.iBlockUsed /\ m2.iBlockFree = m.iBlockFree
        /\ m2.iUsePeakVa = m.iUsePeakVa /\ m2.iNext = m.iNext /\ m2.sta = t
    BY <2>1 DEF Mems
  <2>4. t = [iBlockUsed |-> o.sta.iBlockUsed + 1, iBlockFree |-> o.sta.iBlockFree - 1,
             iUsePeakVa |-> Larger(o.sta.iUsePeakVa, o.sta.iBlockUsed + 1)]
    BY <2>2 DEF t
  <2>5. MallocAt("m_up", m2, o, p, i)
    BY <1>0, <1>9, <2>3, <2>4 DEF MallocAt
  <2> QED BY <2>1, <2>5 DEF m2
<1> QED BY <1>1, <1>2, <1>3, <1>4, <1>5, <1>6, <1>7, <1>8, <1>9, PcNames

(* A store brings a call of mem_share_free one step further. *)
LEMMA FreeOn ==
  ASSUME NEW m \in Mems, NEW o \in Mems, NEW i, NEW s \in DOMAIN FreeFlow, FreeAt(s, m, o, i)
  PROVE  FreeAt(FreeFlow[s], FreeStore(m, s, i), o, i)
<1> DEFINE m2 == FreeStore(m, s, i)
<1>1. CASE s = "f_mod"
  <2>1. m2 = [m EXCEPT !.iModule[i] = 0] /\ FreeFlow[s] = "f_next"
    BY <1>1 DEF FreeStore, FreeFlow
  <2> HIDE DEF m2
  <2>2. /\ m2.iModule = [m.iModule EXCEPT ![i] = 0] /\ m2.iFirstFree = m.iFirstFree
        /\ m2.iBlockUsed = m.iBlockUsed /\ m2.iBlockFree = m.iBlockFree
        /\ m2.iUsePeakVa = m.iUsePeakVa /\ m2.iNext = m.iNext /\ m2.sta = m.sta
    BY <2>1 DEF Mems
  <2>3. FreeAt("f_next", m2, o, i)
    BY <1>1, <2>2 DEF FreeAt
  <2> QED BY <2>1, <2>3 DEF m2
<1>2. CASE s = "f_next"
  <2>1. m2 = [m EXCEPT !.iNext[i] = m.iFirstFree] /\ FreeFlow[s] = "f_used"
    BY <1>2 DEF FreeStore, FreeFlow
  <2> HIDE DEF m2
  <2>2. /\ m2.iModule = m.iModule /\ m2.iFirstFree = m.iFirstFree
        /\ m2.iBlockUsed = m.iBlockUsed /\ m2.iBlockFree = m.iBlockFree
        /\ m2.iUsePeakVa = m.iUsePeakVa /\ m2.iNext = [m.iNext EXCEPT ![i] = m.iFirstFree]
        /\ m2.sta = m.sta
    BY <2>1 DEF Mems
  <2>3. FreeAt("f_used", m2, o, i)
    BY <1>2, <2>2 DEF FreeAt
  <2> QED BY <2>1, <2>3 DEF m2
<1>3. CASE s = "f_used"
  <2>1. m2 = [m EXCEPT !.iBlockUsed = @ - 1] /\ FreeFlow[s] = "f_free"
    BY <1>3 DEF FreeStore, FreeFlow
  <2> HIDE DEF m2
  <2>2. /\ m2.iModule = m.iModule /\ m2.iFirstFree = m.iFirstFree
        /\ m2.iBlockUsed = m.iBlockUsed - 1 /\ m2.iBlockFree = m.iBlockFree
        /\ m2.iUsePeakVa = m.iUsePeakVa /\ m2.iNext = m.iNext /\ m2.sta = m.sta
    BY <2>1 DEF Mems
  <2>3. FreeAt("f_free", m2, o, i)
    BY <1>3, <2>2 DEF FreeAt
  <2> QED BY <2>1, <2>3 DEF m2
<1>4. CASE s = "f_free"
  <2>1. m2 = [m EXCEPT !.iBlockFree = @ + 1] /\ FreeFlow[s] = "f_first"
    BY <1>4 DEF FreeStore, FreeFlow
  <2> HIDE DEF m2
  <2>2. /\ m2.iModule = m.iModule /\ m2.iFirstFree = m.iFirstFree
        /\ m2.iBlockUsed = m.iBlockUsed /\ m2.iBlockFree = m.iBlockFree + 1
        /\ m2.iUsePeakVa = m.iUsePeakVa /\ m2.iNext = m.iNext /\ m2.sta = m.sta
    BY <2>1 DEF Mems
  <2>3. FreeAt("f_first", m2, o, i)
    BY <1>4, <2>2 DEF FreeAt
  <2> QED BY <2>1, <2>3 DEF m2
<1>5. CASE s = "f_first"
  <2>1. m2 = [m EXCEPT !.iFirstFree = i] /\ FreeFlow[s] = "f_sta"
    BY <1>5 DEF FreeStore, FreeFlow
  <2> HIDE DEF m2
  <2>2. /\ m2.iModule = m.iModule /\ m2.iFirstFree = i
        /\ m2.iBlockUsed = m.iBlockUsed /\ m2.iBlockFree = m.iBlockFree
        /\ m2.iUsePeakVa = m.iUsePeakVa /\ m2.iNext = m.iNext /\ m2.sta = m.sta
    BY <2>1 DEF Mems
  <2>3. FreeAt("f_sta", m2, o, i)
    BY <1>5, <2>2 DEF FreeAt
  <2> QED BY <2>1, <2>3 DEF m2
<1>6. CASE s = "f_sta"
  <2> DEFINE t == [iBlockUsed |-> m.sta.iBlockUsed - 1, iBlockFree |-> m.sta.iBlockFree + 1,
                   iUsePeakVa |-> m.sta.iUsePeakVa]
  <2>1. m2 = [m EXCEPT !.sta = t] /\ FreeFlow[s] = "f_up"
    BY <1>6 DEF FreeStore, FreeFlow
  <2>2. m.sta = o.sta
    BY <1>6 DEF FreeAt
  <2> HIDE DEF m2, t
  <2>3. /\ m2.iModule = m.iModule /\ m2.iFirstFree = m.iFirstFree
        /\ m2.iBlockUsed = m.iBlockUsed /\ m2.iBlockFree = m.iBlockFree
        /\ m2.iUsePeakVa = m.iUsePeakVa /\ m2.iNext = m.iNext /\ m2.sta = t
    BY <2>1 DEF Mems
  <2>4. t = [iBlockUsed |-> o.sta.iBlockUsed - 1, iBlockFree |-> o.sta.iBlockFree + 1,
             iUsePeakVa |-> o.sta.iUsePeakVa]
    BY <2>2 DEF t
  <2>5. FreeAt("f_up", m2, o, i)
    BY <1>6, <2>3, <2>4 DEF FreeAt
  <2> QED BY <2>1, <2>5 DEF m2
<1> QED BY <1>1, <1>2, <1>3, <1>4, <1>5, <1>6, PcNames

(* The table of mem_share_init is one. *)
LEMMA InitMems == InitMem \in Mems
<1>1. BlockCoun \in Nat /\ BlockCoun > 0 /\ Idx = 0 .. BlockCoun - 1
  BY SemAssumption DEF Idx
<1>2. [i \in Idx |-> IF i + 1 < BlockCoun THEN i + 1 ELSE INVALID_IDX] \in [Idx -> Idx \cup {INVALID_IDX}]
  BY <1>1
<1> QED BY <1>1, <1>2 DEF InitMem, Mems

(* In the first state nobody is inside. *)
LEMMA SnapInit == Init => SnapInv
<1> SUFFICES ASSUME Init PROVE SnapInv
  OBVIOUS
<1>1. \A p \in Procs : pc[p] \notin Inside
  BY PcNames DEF Init
<1> QED BY <1>1, InitMems DEF Init, SnapInv, Undisturbed

(* A step of a process outside that stays there. *)
LEMMA SnapOutside ==
  ASSUME TableInv, SnapInv, NEW p \in Procs, UNCHANGED <<mem, snap, crashes>>,
         pc[p] \notin Inside,
         \A q \in Procs : q # p => pc'[q] = pc[q] /\ obj'[q] = obj[q],
         pc'[p] \notin Inside
  PROVE  SnapInv'
<1>1. ASSUME Undisturbed, NEW q \in Procs, pc'[q] \in Inside
      PROVE  During(pc'[q], mem', snap', q, obj'[q])
  BY <1>1 DEF Undisturbed
<1>2. ASSUME Undisturbed, \A q \in Procs : pc'[q] \notin Inside PROVE mem' = snap'
  BY <1>2 DEF Undisturbed
<1> QED BY <1>1, <1>2 DEF SnapInv, Undisturbed

(* A step of the process inside that keeps the semaphore. *)
LEMMA SnapInside ==
  ASSUME TableInv, SnapInv, NEW p \in Procs, UNCHANGED <<snap, crashes>>,
         \A q \in Procs \ {p} : pc[q] \notin Inside /\ pc'[q] = pc[q],
         pc'[p] \in Inside,
         Undisturbed => During(pc'[p], mem', snap', p, obj'[p])
  PROVE  SnapInv'
<1>1. ASSUME Undisturbed, NEW q \in Procs, pc'[q] \in Inside
      PROVE  During(pc'[q], mem', snap', q, obj'[q])
  BY <1>1
<1> QED BY <1>1 DEF SnapInv, Undisturbed

(* The other processes are outside while one is inside or enters. *)
LEMMA OthersOutside ==
  ASSUME TableInv, NEW p \in Procs, pc[p] \in Inside \/ sem > 0, NEW s, pc' = [pc EXCEPT ![p] = s]
  PROVE  /\ \A q \in Procs \ {p} : pc[q] \notin Inside /\ pc'[q] = pc[q]
         /\ pc'[p] = s
BY DEF TableInv, SemInv, SemTypeOK, Units

(* Every step keeps the invariant. *)
LEMMA SnapNext == TableInv /\ SnapInv /\ [Next]_vars => SnapInv'
<1> SUFFICES ASSUME TableInv, SnapInv, [Next]_vars PROVE SnapInv'
  OBVIOUS
<1>0. /\ pc \in [Procs -> Pcs] /\ obj \in [Procs -> Idx \cup {INVALID_IDX}]
      /\ mem \in Mems /\ snap \in Mems
      /\ \A s \in {"idle", "dead", "m_down", "f_down"} : s \notin Inside
  BY PcNames DEF TableInv, SemInv, SemTypeOK, TableTypeOK, SnapInv
<1>1. ASSUME NEW p \in Procs, CallMalloc(p) PROVE SnapInv'
  <2>1. pc[p] \notin Inside /\ pc'[p] \notin Inside /\ \A q \in Procs : q # p => pc'[q] = pc[q]
    BY <1>0, <1>1 DEF CallMalloc
  <2> QED BY <1>1, <2>1, SnapOutside DEF CallMalloc
<1>2. ASSUME NEW p \in Procs, NEW i \in Idx, CallFree(p, i) PROVE SnapInv'
  <2>1. /\ pc[p] \notin Inside /\ pc'[p] \notin Inside
        /\ \A q \in Procs : q # p => pc'[q] = pc[q] /\ obj'[q] = obj[q]
    BY <1>0, <1>2 DEF CallFree
  <2> QED BY <1>2, <2>1, SnapOutside DEF CallFree
<1>3. ASSUME NEW p \in Procs, Attach(p) PROVE SnapInv'
  <2>1. pc[p] \notin Inside /\ pc'[p] \notin Inside /\ \A q \in Procs : q # p => pc'[q] = pc[q]
    BY <1>0, <1>3 DEF Attach
  <2> QED BY <1>3, <2>1, SnapOutside DEF Attach
<1>4. ASSUME NEW p \in Procs, NEW q \in Procs, NEW i \in Idx, Send(p, q, i) PROVE SnapInv'
  BY <1>4 DEF Send, SnapInv, Undisturbed
<1>5. ASSUME NEW p \in Procs, Down(p) PROVE SnapInv'
  <2>1. PICK s \in {"m_find", "f_check"} : pc' = [pc EXCEPT ![p] = s]
    BY <1>5 DEF Down, Entered
  <2>2. sem > 0 /\ \A q \in Procs : pc[q] \notin Inside
    BY <1>5 DEF Down, TableInv, SemInv, SemTypeOK, Units
  <2>3. (\A q \in Procs \ {p} : pc[q] \notin Inside /\ pc'[q] = pc[q]) /\ pc'[p] = s
    BY <2>1, <2>2, OthersOutside
  <2>4. s \in Inside /\ s \notin DOMAIN MallocFlow /\ s \notin DOMAIN FreeFlow
        /\ s # "m_up" /\ s # "f_up"
    BY PcNames
  <2>5. mem' = mem /\ snap' = snap /\ crashes' = crashes
    BY <1>5 DEF Down
  <2>6. Undisturbed => During(pc'[p], mem', snap', p, obj'[p])
    BY <2>2, <2>3, <2>4, <2>5 DEF Undisturbed, During
  <2> QED BY <2>3, <2>4, <2>5, <2>6, SnapInside
<1>6. ASSUME NEW p \in Procs, Find(p) PROVE SnapInv'
  <2>1. pc[p] = "m_find" /\ mem' = mem /\ snap' = snap /\ crashes' = crashes
    BY <1>6 DEF Find
  <2>2. pc[p] \in Inside
    BY <2>1, PcNames
  <2>3. Undisturbed => mem = snap
    BY <2>1, <2>2 DEF Undisturbed, During
  <2>4. CASE mem.iBlockFree > 0 /\ mem.iFirstFree >= 0
    <3>1. pc' = [pc EXCEPT ![p] = "m_own"] /\ obj' = [obj EXCEPT ![p] = mem.iFirstFree]
      BY <1>6, <2>4 DEF Find
    <3>2. (\A q \in Procs \ {p} : pc[q] \notin Inside /\ pc'[q] = pc[q]) /\ pc'[p] = "m_own"
      BY <2>2, <3>1, OthersOutside
    <3>3. obj'[p] = mem.iFirstFree /\ mem.iFirstFree \in Idx
      BY <1>0, <2>4, <3>1, IdxFacts DEF Mems
    <3>4. Undisturbed => MallocAt("m_own", mem', snap', p, obj'[p])
      BY <2>1, <2>3, <2>4, <3>3 DEF MallocAt
    <3>5. Undisturbed => During("m_own", mem', snap', p, obj'[p])
      BY <3>4, PcNames DEF During
    <3> QED BY <2>1, <3>2, <3>5, SnapInside, PcNames
  <2>5. CASE ~(mem.iBlockFree > 0 /\ mem.iFirstFree >= 0)
    <3>1. pc' = [pc EXCEPT ![p] = "m_up"] /\ obj' = obj
      BY <1>6, <2>5 DEF Find
    <3>2. (\A q \in Procs \ {p} : pc[q] \notin Inside /\ pc'[q] = pc[q]) /\ pc'[p] = "m_up"
      BY <2>2, <3>1, OthersOutside
    <3>3. obj'[p] = INVALID_IDX
      BY <2>1, <3>1, NoBlockObj DEF NoBlock
    <3>4. Undisturbed => During("m_up", mem', snap', p, obj'[p])
      BY <2>1, <2>3, <3>3, PcNames DEF During
    <3> QED BY <2>1, <3>2, <3>4, SnapInside, PcNames
  <2> QED BY <2>4, <2>5
<1>7. ASSUME NEW p \in Procs, Check(p) PROVE SnapInv'
  <2>1. pc[p] = "f_check" /\ mem' = mem /\ snap' = snap /\ crashes' = crashes /\ obj' = obj
    BY <1>7 DEF Check
  <2>2. pc[p] \in Inside
    BY <2>1, PcNames
  <2>3. Undisturbed => mem = snap
    BY <2>1, <2>2 DEF Undisturbed, During
  <2>4. obj[p] \in Idx /\ mem.iModule[obj[p]] > 0
    BY <2>1, IdxFacts DEF TableInv, ListAt, Stage, Off, Owned
  <2>5. pc' = [pc EXCEPT ![p] = "f_mod"]
    BY <1>7, <2>4 DEF Check
  <2>6. (\A q \in Procs \ {p} : pc[q] \notin Inside /\ pc'[q] = pc[q]) /\ pc'[p] = "f_mod"
    BY <2>2, <2>5, OthersOutside
  <2>7. Undisturbed => FreeAt("f_mod", mem', snap', obj'[p])
    BY <2>1, <2>3, <2>4 DEF FreeAt
  <2>8. Undisturbed => During("f_mod", mem', snap', p, obj'[p])
    BY <2>7, PcNames DEF During
  <2> QED BY <2>1, <2>6, <2>8, SnapInside, PcNames
<1>8. ASSUME NEW p \in Procs, Store(p) PROVE SnapInv'
  <2>1. snap' = snap /\ crashes' = crashes /\ obj' = obj
    BY <1>8 DEF Store
  <2>2. CASE pc[p] \in DOMAIN MallocFlow
    <3>1. mem' = MallocStore(mem, pc[p], p, obj[p]) /\ pc' = [pc EXCEPT ![p] = MallocFlow[pc[p]]]
      BY <1>8, <2>2, PcNames DEF Store
    <3>2. pc[p] \in Inside /\ MallocFlow[pc[p]] \in Inside
          /\ (MallocFlow[pc[p]] \in DOMAIN MallocFlow \/ MallocFlow[pc[p]] = "m_up")
      BY <2>2, PcNames DEF MallocFlow
    <3>3. (\A q \in Procs \ {p} : pc[q] \notin Inside /\ pc'[q] = pc[q]) /\ pc'[p] = MallocFlow[pc[p]]
      BY <3>1, <3>2, OthersOutside
    <3>4. Undisturbed => MallocAt(pc[p], mem, snap, p, obj[p])
      BY <2>2, <3>2 DEF Undisturbed, During
    <3>5. Undisturbed => MallocAt(pc'[p], mem', snap', p, obj'[p])
      BY <1>0, <2>1, <2>2, <3>1, <3>3, <3>4, MallocOn
    <3>6. Undisturbed => During(pc'[p], mem', snap', p, obj'[p])
      BY <3>2, <3>3, <3>5, PcNames DEF During
    <3> QED BY <2>1, <3>2, <3>3, <3>6, SnapInside
  <2>3. CASE pc[p] \in DOMAIN FreeFlow
    <3>1. mem' = FreeStore(mem, pc[p], obj[p]) /\ pc' = [pc EXCEPT ![p] = FreeFlow[pc[p]]]
      BY <1>8, <2>3, PcNames DEF Store
    <3>2. pc[p] \in Inside /\ FreeFlow[pc[p]] \in Inside
          /\ (FreeFlow[pc[p]] \in DOMAIN FreeFlow \/ FreeFlow[pc[p]] = "f_up")
      BY <2>3, PcNames DEF FreeFlow
    <3>3. (\A q \in Procs \ {p} : pc[q] \notin Inside /\ pc'[q] = pc[q]) /\ pc'[p] = FreeFlow[pc[p]]
      BY <3>1, <3>2, OthersOutside
    <3>4. Undisturbed => FreeAt(pc[p], mem, snap, obj[p])
      BY <2>3, <3>2 DEF Undisturbed, During
    <3>5. Undisturbed => FreeAt(pc'[p], mem', snap', obj'[p])
      BY <1>0, <2>1, <2>3, <3>1, <3>3, <3>4, FreeOn
    <3>6. Undisturbed => During(pc'[p], mem', snap', p, obj'[p])
      BY <3>2, <3>3, <3>5, PcNames DEF During
    <3> QED BY <2>1, <3>2, <3>3, <3>6, SnapInside
  <2> QED BY <1>8, <2>2, <2>3 DEF Store
<1>9. ASSUME NEW p \in Procs, Up(p) PROVE SnapInv'
  <2>1. /\ mem' = mem /\ crashes' = crashes /\ pc' = [pc EXCEPT ![p] = "idle"]
        /\ snap' = (IF crashes = 0 THEN mem ELSE snap) /\ pc[p] \in Inside
    BY <1>9, PcNames DEF Up
  <2>2. \A q \in Procs : pc'[q] \notin Inside
    BY <1>0, <2>1, OthersOutside
  <2> QED BY <1>0, <2>1, <2>2 DEF SnapInv, Undisturbed
<1>10. ASSUME NEW p \in Procs, Crash(p) PROVE SnapInv'
  <2>1. snap' = InitMem /\ crashes' # 0
    BY <1>10 DEF Crash, TableInv, TableTypeOK
  <2> QED BY <2>1, InitMems DEF SnapInv
<1>11. CASE UNCHANGED vars
  BY <1>11 DEF vars, SnapInv, Undisturbed
<1> QED BY <1>1, <1>2, <1>3, <1>4, <1>5, <1>6, <1>7, <1>8, <1>9, <1>10, <1>11 DEF Next, Step

-----------------------------------------------------------------------------
(* The allocator of MemShare with one pool: its tables are tuples of length one. *)
LEMMA OneTuple ==
  ASSUME NEW x, NEW y
  PROVE  <<x>> = [j \in 1 .. 1 |-> x] /\ <<x>>[1] = x /\ [<<x>> EXCEPT ![1] = y] = <<y>>
OBVIOUS

(* There is one pool. *)
LEMMA OnePool == MS!Pools = {1}
BY DEF MS!Pools

(* Its indices are those of the pool here. *)
LEMMA OneIdx == MS!Idx(1) = Idx
BY DEF MS!Idx, Idx

(* And so are its blocks. *)
LEMMA OneBlocks == MS!Blocks = {1} \X Idx
BY OnePool, OneIdx DEF MS!Blocks

(* The table of mem_share_init starts both. *)
LEMMA RefineInit == Init => MS!Init
<1> SUFFICES ASSUME Init PROVE MS!Init
  OBVIOUS
<1>1. snap = InitMem
  BY DEF Init
<1>2. Flat(snap.iNext) = [b \in MS!Blocks |-> IF b[2] + 1 < <<BlockCoun>>[b[1]]
                                               THEN b[2] + 1 ELSE MS!INVALID_IDX]
  BY <1>1, OneBlocks DEF Flat, InitMem, MS!INVALID_IDX, INVALID_IDX
<1>3. Flat(snap.iModule) = [b \in MS!Blocks |-> 0]
  BY <1>1, OneBlocks DEF Flat, InitMem
<1>4. /\ <<snap.iFirstFree>> = [j \in MS!Pools |-> 0] /\ <<snap.iBlockUsed>> = [j \in MS!Pools |-> 0]
      /\ <<snap.iBlockFree>> = <<BlockCoun>> /\ <<snap.iUsePeakVa>> = [j \in MS!Pools |-> 0]
      /\ snap.sta = [iBlockUsed |-> 0, iBlockFree |-> 0, iUsePeakVa |-> 0]
  BY <1>1, OneTuple DEF InitMem, MS!Pools
<1> QED BY <1>2, <1>3, <1>4 DEF MS!Init

(* The mem_share_semup of a successful mem_share_malloc is MallocTake. *)
LEMMA MallocUp ==
  ASSUME snap \in Mems, NEW p \in Procs, NEW i, MallocAt("m_up", mem, snap, p, i), snap' = mem
  PROVE  MS!MallocTake(4, p)
<1> DEFINE left  == snap.iBlockFree - 1
           next  == snap.iNext[i]
           empty == left <= 0 \/ next < 0
<1>1. /\ i \in Idx /\ i = snap.iFirstFree /\ snap.iBlockFree > 0
      /\ snap'.iModule = [snap.iModule EXCEPT ![i] = p]
      /\ snap'.iFirstFree = (IF empty THEN INVALID_IDX ELSE next)
      /\ snap'.iBlockUsed = snap.iBlockUsed + 1
      /\ snap'.iBlockFree = (IF empty THEN 0 ELSE left)
      /\ snap'.iUsePeakVa = Larger(snap.iUsePeakVa, snap.iBlockUsed + 1)
      /\ snap'.iNext = [snap.iNext EXCEPT ![i] = INVALID_IDX]
      /\ snap'.sta = [iBlockUsed |-> snap.sta.iBlockUsed + 1, iBlockFree |-> snap.sta.iBlockFree - 1,
                      iUsePeakVa |-> Larger(snap.sta.iUsePeakVa, snap.sta.iBlockUsed + 1)]
  BY DEF MallocAt
<1>2. MS!ValidRequest(4, p)
  <2>1. p > 0 /\ p < 51 /\ p \in Int
    BY SemAssumption
  <2>2. MS!AlSize(4) = 8 /\ MS!BLOCK_SIZE_MAX = 8
    BY DEF MS!AlSize, MS!MARGIN, MS!BLOCK_SIZE_MAX
  <2> QED BY <2>1, <2>2 DEF MS!ValidRequest, MS!MODULE_ID_MAXNUM
<1>3. 1 \in MS!Pools /\ MS!IsFound(1, 4)
  <2>1. 1 \in MS!Candidates(4)
    BY <1>1, OnePool, OneTuple DEF MS!Candidates, MS!AlSize, MS!MARGIN
  <2>2. \A q \in MS!Candidates(4) : q = 1
    BY OnePool DEF MS!Candidates
  <2> QED BY <2>1, <2>2, OnePool DEF MS!IsFound
<1>4. DOMAIN snap.iModule = Idx /\ DOMAIN snap.iNext = Idx
  BY DEF Mems
<1>5. /\ Flat(snap.iNext)[<<1, i>>] = next
      /\ Flat(snap'.iModule) = [Flat(snap.iModule) EXCEPT ![<<1, i>>] = p]
      /\ Flat(snap'.iNext) = [Flat(snap.iNext) EXCEPT ![<<1, i>>] = INVALID_IDX]
  <2>1. Flat(snap'.iModule) = [Flat(snap.iModule) EXCEPT ![<<1, i>>] = p]
    <3>1. ASSUME NEW b \in {1} \X Idx
          PROVE  [snap.iModule EXCEPT ![i] = p][b[2]] = IF b = <<1, i>> THEN p ELSE snap.iModule[b[2]]
      BY <1>1, <1>4, <3>1
    <3>2. Flat(snap'.iModule) = [b \in {1} \X Idx |-> IF b = <<1, i>> THEN p ELSE snap.iModule[b[2]]]
      BY <1>1, <3>1 DEF Flat
    <3>3. [Flat(snap.iModule) EXCEPT ![<<1, i>>] = p] = [b \in {1} \X Idx |-> IF b = <<1, i>> THEN p ELSE snap.iModule[b[2]]]
      BY <1>1 DEF Flat
    <3> QED BY <3>2, <3>3
  <2>2. Flat(snap'.iNext) = [Flat(snap.iNext) EXCEPT ![<<1, i>>] = INVALID_IDX]
    <3>1. ASSUME NEW b \in {1} \X Idx
          PROVE  [snap.iNext EXCEPT ![i] = INVALID_IDX][b[2]] = IF b = <<1, i>> THEN INVALID_IDX ELSE snap.iNext[b[2]]
      BY <1>1, <1>4, <3>1
    <3>2. Flat(snap'.iNext) = [b \in {1} \X Idx |-> IF b = <<1, i>> THEN INVALID_IDX ELSE snap.iNext[b[2]]]
      BY <1>1, <3>1 DEF Flat
    <3>3. [Flat(snap.iNext) EXCEPT ![<<1, i>>] = INVALID_IDX] = [b \in {1} \X Idx |-> IF b = <<1, i>> THEN INVALID_IDX ELSE snap.iNext[b[2]]]
      BY <1>1 DEF Flat
    <3> QED BY <3>2, <3>3
  <2>3. Flat(snap.iNext)[<<1, i>>] = snap.iNext[i]
    BY <1>1 DEF Flat
  <2> QED BY <2>1, <2>2, <2>3
<1>6. MS!Larger(snap.iUsePeakVa, snap.iBlockUsed + 1) = Larger(snap.iUsePeakVa, snap.iBlockUsed + 1)
      /\ MS!Larger(snap.sta.iUsePeakVa, snap.sta.iBlockUsed + 1) = Larger(snap.sta.iUsePeakVa, snap.sta.iBlockUsed + 1)
      /\ MS!INVALID_IDX = INVALID_IDX
  BY DEF Larger, MS!Larger, MS!INVALID_IDX, INVALID_IDX
<1>7. <<snap.iFirstFree>>[1] = i /\ i >= 0 /\ <<snap.iBlockFree>>[1] = snap.iBlockFree
      /\ <<snap.iBlockUsed>>[1] = snap.iBlockUsed /\ <<snap.iUsePeakVa>>[1] = snap.iUsePeakVa
  BY <1>1, IdxFacts
<1>8. /\ <<snap'.iFirstFree>> = [<<snap.iFirstFree>> EXCEPT ![1] = IF empty THEN INVALID_IDX ELSE next]
      /\ <<snap'.iBlockFree>> = [<<snap.iBlockFree>> EXCEPT ![1] = IF empty THEN 0 ELSE left]
      /\ <<snap'.iBlockUsed>> = [<<snap.iBlockUsed>> EXCEPT ![1] = snap.iBlockUsed + 1]
      /\ <<snap'.iUsePeakVa>> = [<<snap.iUsePeakVa>> EXCEPT ![1] = Larger(snap.iUsePeakVa, snap.iBlockUsed + 1)]
  BY <1>1, OneTuple
<1>9. /\ Flat(snap.iModule)' = Flat(snap'.iModule) /\ Flat(snap.iNext)' = Flat(snap'.iNext)
  BY DEF Flat
<1>10. \E q \in MS!Pools :
         /\ MS!IsFound(q, 4)
         /\ <<snap.iFirstFree>>[q] >= 0
         /\ LET o == <<q, <<snap.iFirstFree>>[q]>>
                l == <<snap.iBlockFree>>[q] - 1
                e == l <= 0 \/ Flat(snap.iNext)[o] < 0
            IN /\ Flat(snap.iModule)' = [Flat(snap.iModule) EXCEPT ![o] = p]
               /\ <<snap.iFirstFree>>' = [<<snap.iFirstFree>> EXCEPT
                    ![q] = IF e THEN MS!INVALID_IDX ELSE Flat(snap.iNext)[o]]
               /\ <<snap.iBlockFree>>' = [<<snap.iBlockFree>> EXCEPT ![q] = IF e THEN 0 ELSE l]
               /\ <<snap.iBlockUsed>>' = [<<snap.iBlockUsed>> EXCEPT ![q] = @ + 1]
               /\ <<snap.iUsePeakVa>>' = [<<snap.iUsePeakVa>> EXCEPT
                    ![q] = MS!Larger(@, <<snap.iBlockUsed>>[q] + 1)]
               /\ Flat(snap.iNext)' = [Flat(snap.iNext) EXCEPT ![o] = MS!INVALID_IDX]
  <2> 1 \in MS!Pools
    BY <1>3
  <2> WITNESS 1 \in MS!Pools
  <2> QED BY <1>1, <1>3, <1>5, <1>6, <1>7, <1>8, <1>9
<1> QED BY <1>1, <1>2, <1>6, <1>10 DEF MS!MallocTake

(* The mem_share_semup of mem_share_free is Free. *)
LEMMA FreeUp ==
  ASSUME snap \in Mems, NEW i, FreeAt("f_up", mem, snap, i), snap' = mem
  PROVE  MS!Free(<<1, i>>, 0) /\ <<1, i>> \in MS!Blocks
<1>1. /\ i \in Idx /\ snap.iModule[i] > 0
      /\ snap'.iModule = [snap.iModule EXCEPT ![i] = 0]
      /\ snap'.iFirstFree = i
      /\ snap'.iBlockUsed = snap.iBlockUsed - 1
      /\ snap'.iBlockFree = snap.iBlockFree + 1
      /\ snap'.iUsePeakVa = snap.iUsePeakVa
      /\ snap'.iNext = [snap.iNext EXCEPT ![i] = snap.iFirstFree]
      /\ snap'.sta = [iBlockUsed |-> snap.sta.iBlockUsed - 1, iBlockFree |-> snap.sta.iBlockFree + 1,
                      iUsePeakVa |-> snap.sta.iUsePeakVa]
  BY DEF FreeAt
<1>2. DOMAIN snap.iModule = Idx /\ DOMAIN snap.iNext = Idx
  BY DEF Mems
<1>3. /\ Flat(snap.iModule)[<<1, i>>] = snap.iModule[i]
      /\ Flat(snap'.iModule) = [Flat(snap.iModule) EXCEPT ![<<1, i>>] = 0]
      /\ Flat(snap'.iNext) = [Flat(snap.iNext) EXCEPT ![<<1, i>>] = snap.iFirstFree]
  <2>1. Flat(snap'.iModule) = [Flat(snap.iModule) EXCEPT ![<<1, i>>] = 0]
    <3>1. ASSUME NEW b \in {1} \X Idx
          PROVE  [snap.iModule EXCEPT ![i] = 0][b[2]] = IF b = <<1, i>> THEN 0 ELSE snap.iModule[b[2]]
      BY <1>1, <1>2, <3>1
    <3>2. Flat(snap'.iModule) = [b \in {1} \X Idx |-> IF b = <<1, i>> THEN 0 ELSE snap.iModule[b[2]]]
      BY <1>1, <3>1 DEF Flat
    <3>3. [Flat(snap.iModule) EXCEPT ![<<1, i>>] = 0] = [b \in {1} \X Idx |-> IF b = <<1, i>> THEN 0 ELSE snap.iModule[b[2]]]
      BY <1>1 DEF Flat
    <3> QED BY <3>2, <3>3
  <2>2. Flat(snap'.iNext) = [Flat(snap.iNext) EXCEPT ![<<1, i>>] = snap.iFirstFree]
    <3>1. ASSUME NEW b \in {1} \X Idx
          PROVE  [snap.iNext EXCEPT ![i] = snap.iFirstFree][b[2]] = IF b = <<1, i>> THEN snap.iFirstFree ELSE snap.iNext[b[2]]
      BY <1>1, <1>2, <3>1
    <3>2. Flat(snap'.iNext) = [b \in {1} \X Idx |-> IF b = <<1, i>> THEN snap.iFirstFree ELSE snap.iNext[b[2]]]
      BY <1>1, <3>1 DEF Flat
    <3>3. [Flat(snap.iNext) EXCEPT ![<<1, i>>] = snap.iFirstFree] = [b \in {1} \X Idx |-> IF b = <<1, i>> THEN snap.iFirstFree ELSE snap.iNext[b[2]]]
      BY <1>1 DEF Flat
    <3> QED BY <3>2, <3>3
  <2>3. Flat(snap.iModule)[<<1, i>>] = snap.iModule[i]
    BY <1>1 DEF Flat
  <2> QED BY <2>1, <2>2, <2>3
<1>4. /\ <<snap'.iFirstFree>> = [<<snap.iFirstFree>> EXCEPT ![1] = i]
      /\ <<snap'.iBlockFree>> = [<<snap.iBlockFree>> EXCEPT ![1] = snap.iBlockFree + 1]
      /\ <<snap'.iBlockUsed>> = [<<snap.iBlockUsed>> EXCEPT ![1] = snap.iBlockUsed - 1]
      /\ <<snap'.iUsePeakVa>> = <<snap.iUsePeakVa>>
  BY <1>1, OneTuple
<1>5. Flat(snap.iModule)' = Flat(snap'.iModule) /\ Flat(snap.iNext)' = Flat(snap'.iNext)
  BY DEF Flat
<1>6. snap'.sta = [snap.sta EXCEPT !.iBlockUsed = snap.sta.iBlockUsed - 1, !.iBlockFree = snap.sta.iBlockFree + 1]
  <2> DEFINE x == snap.sta.iBlockUsed - 1
             y == snap.sta.iBlockFree + 1
             r == [snap.sta EXCEPT !.iBlockUsed = x, !.iBlockFree = y]
  <2>1. snap.sta \in [iBlockUsed : Int, iBlockFree : Int, iUsePeakVa : Int] /\ x \in Int /\ y \in Int
    BY DEF Mems
  <2> HIDE DEF x, y
  <2>2. /\ r \in [iBlockUsed : Int, iBlockFree : Int, iUsePeakVa : Int]
        /\ r.iBlockUsed = x /\ r.iBlockFree = y /\ r.iUsePeakVa = snap.sta.iUsePeakVa
    BY <2>1
  <2> HIDE DEF r
  <2>3. r = [iBlockUsed |-> x, iBlockFree |-> y, iUsePeakVa |-> snap.sta.iUsePeakVa]
    BY <2>2
  <2> QED BY <1>1, <2>3 DEF r, x, y
<1>7. <<1, i>>[1] = 1 /\ <<1, i>>[2] = i /\ <<snap.iFirstFree>>[1] = snap.iFirstFree
      /\ <<snap.iBlockFree>>[1] = snap.iBlockFree /\ <<snap.iBlockUsed>>[1] = snap.iBlockUsed
  OBVIOUS
<1>8. MS!Free(<<1, i>>, 0)
  BY <1>1, <1>3, <1>4, <1>5, <1>6, <1>7 DEF MS!Free
<1> QED BY <1>1, <1>8, OneBlocks

(* Every step is a death, a step of MemShare or none. *)
LEMMA RefineNext ==
  TableInv /\ SnapInv /\ [Next]_vars => [crashes' > crashes \/ MS!Next]_(MS!vars)
<1> SUFFICES ASSUME TableInv, SnapInv, [Next]_vars
             PROVE  crashes' > crashes \/ MS!Next \/ UNCHANGED MS!vars
  OBVIOUS
<1>1. snap' = snap => UNCHANGED MS!vars
  BY DEF MS!vars, Flat
<1>2. ASSUME NEW p \in Procs, Up(p) PROVE MS!Next \/ UNCHANGED MS!vars
  <2>1. CASE crashes # 0
    BY <1>1, <1>2, <2>1 DEF Up
  <2>2. CASE crashes = 0
    <3>1. snap' = mem /\ snap \in Mems /\ pc[p] \in Inside /\ During(pc[p], mem, snap, p, obj[p])
      BY <1>2, <2>2, PcNames DEF Up, SnapInv, Undisturbed
    <3>2. CASE pc[p] = "m_up" /\ obj[p] = INVALID_IDX /\ mem = snap
      BY <1>1, <3>1, <3>2
    <3>3. CASE pc[p] = "m_up" /\ MallocAt("m_up", mem, snap, p, obj[p])
      <4>1. MS!MallocTake(4, p)
        BY <3>1, <3>3, MallocUp
      <4> QED BY <4>1 DEF MS!Next
    <3>4. CASE pc[p] = "f_up"
      <4>1. FreeAt("f_up", mem, snap, obj[p])
        BY <3>1, <3>4 DEF During
      <4>2. MS!Free(<<1, obj[p]>>, 0) /\ <<1, obj[p]>> \in MS!Blocks
        BY <3>1, <4>1, FreeUp
      <4> QED BY <4>2 DEF MS!Next
    <3> QED BY <1>2, <3>1, <3>2, <3>3, <3>4 DEF Up, During
  <2> QED BY <2>1, <2>2
<1>3. ASSUME NEW p \in Procs, Crash(p) PROVE crashes' > crashes
  BY <1>3 DEF Crash, TableInv, TableTypeOK
<1>4. ASSUME NEW p \in Procs, CallMalloc(p) \/ Down(p) \/ Find(p) \/ Check(p) \/ Store(p) \/ Attach(p)
      PROVE  snap' = snap
  BY <1>4 DEF CallMalloc, Down, Find, Check, Store, Attach
<1>5. ASSUME NEW p \in Procs, NEW i \in Idx, CallFree(p, i) PROVE snap' = snap
  BY <1>5 DEF CallFree
<1>6. ASSUME NEW p \in Procs, NEW q \in Procs, NEW i \in Idx, Send(p, q, i) PROVE snap' = snap
  BY <1>6 DEF Send
<1>7. CASE UNCHANGED vars
  BY <1>1, <1>7 DEF vars
<1>8. CASE Next
  BY <1>1, <1>2, <1>3, <1>4, <1>5, <1>6, <1>8 DEF Next, Step
<1> QED BY <1>7, <1>8

(* Until a process dies the calls, store by store and with any interleaving, implement
   the atomic allocator of MemShare: its step happens at mem_share_semup. *)
THEOREM ImplementsMemShare == Spec => Refines
<1>1. Spec => [](TableInv /\ SnapInv)
  BY TableInit, TableNext, SnapInit, SnapNext, PTL DEF Spec
<1> QED BY <1>1, RefineInit, RefineNext, PTL DEF Spec, Refines
=============================================================================
