--------------------------- MODULE HpTimerProofs ---------------------------
(***************************************************************************)
(* Proofs about HpTimer, for every number of timers, every interval and    *)
(* every number of ticks: the lists stay linked, the gaps exact, a timer   *)
(* fires at its tick, and none is lost, left behind or used after it is    *)
(* freed.                                                                  *)
(***************************************************************************)
EXTENDS HpTimer, FiniteSetTheorems, FunctionTheorems, NaturalsInduction, WellFoundedInduction, TLAPS

(* The n timers q[1], .., q[n] are linked from head h in the nodes f. *)
IsList(n, q, h, f) ==
  /\ n \in Nat /\ q \in [1 .. n -> Timers]
  /\ \A i, j \in 1 .. n : q[i] = q[j] => i = j
  /\ h = IF n = 0 THEN NULL ELSE q[1]
  /\ \A j \in 1 .. n : /\ f[q[j]] \in Node
                       /\ f[q[j]].pNext = IF j = n THEN NULL ELSE q[j + 1]
                       /\ f[q[j]].pPrev = IF j = 1 THEN NULL ELSE q[j - 1]

(* Timer t is in the list. *)
In(n, q, t) == \E j \in 1 .. n : q[j] = t

(* The gaps of the list are the differences of the times d at which its timers are due, all of
   them after tick c. *)
Timed(n, q, f, d, c) ==
  /\ \A j \in 1 .. n : /\ f[q[j]].iTickGap = d[q[j]] - (IF j = 1 THEN c ELSE d[q[j - 1]])
                       /\ d[q[j]] > c
  /\ \A i, j \in 1 .. n : i <= j => d[q[i]] <= d[q[j]]

TimerTypeOK ==
  /\ node \in [Timers -> Node \cup {FreeNode}]
  /\ pTimer \in Timers \cup {NULL}
  /\ ticking \in BOOLEAN
  /\ now \in Nat
  /\ due \in [Timers -> Int]
  /\ armed \in SUBSET Timers
  /\ stray = FALSE

(* A node that is allocated is not the mark of a free address. *)
LEMMA NodeNotFree == \A x \in Node : x # FreeNode
BY TimerAssumption DEF Node, FreeNode

(* A nonempty set of numbers has a least one. *)
LEMMA LeastNumber ==
  ASSUME NEW C \in SUBSET Nat, C # {}
  PROVE  \E m \in C : \A x \in C : m <= x
<1> DEFINE R == OpToRel(<, Nat)
<1>1. IsWellFoundedOn(R, Nat)
  BY NatLessThanWellFounded
<1>2. \A x, y \in Nat : x < y => <<x, y>> \in R
  BY DEF OpToRel
<1> HIDE DEF R
<1>3. PICK m \in C : \A x \in C : ~(<<x, m>> \in R)
  BY <1>1, WFMin
<1>4. \A x \in C : ~(x < m)
  BY <1>2, <1>3
<1>5. \A x \in C : m <= x
  BY <1>4
<1> QED BY <1>5

-----------------------------------------------------------------------------
(* The equation of the walk along pNext in ListFrom. *)
Steps == Cardinality(Timers) + 1
Go(a) == IF a \notin Allocated THEN NULL ELSE node[a].pNext
Walk(h, a) == a = [k \in 1 .. Steps |-> IF k = 1 THEN h ELSE Go(a[k - 1])]

(* The walk has as many steps as a list may have nodes, and one more. *)
LEMMA StepsType == Steps \in Nat /\ Cardinality(Timers) \in Nat
BY TimerAssumption, FS_CardinalityType DEF Steps

(* The equation, point by point. *)
LEMMA WalkPoints ==
  ASSUME NEW h, NEW a, Walk(h, a)
  PROVE  \A k \in 1 .. Steps : a[k] = IF k = 1 THEN h ELSE Go(a[k - 1])
<1> DEFINE F(k) == IF k = 1 THEN h ELSE Go(a[k - 1])
           H == [k \in 1 .. Steps |-> F(k)]
<1>1. a = H
  BY DEF Walk
<1> HIDE DEF F
<1>2. \A k \in 1 .. Steps : H[k] = F(k)
  OBVIOUS
<1> HIDE DEF H
<1>3. \A k \in 1 .. Steps : a[k] = F(k)
  BY <1>1, <1>2
<1> QED BY <1>3 DEF F

(* The walk is the only one. *)
LEMMA WalkUnique ==
  ASSUME NEW h, NEW a, NEW b, Walk(h, a), Walk(h, b)
  PROVE  \A k \in 1 .. Steps : a[k] = b[k]
<1> DEFINE C == {k \in 1 .. Steps : a[k] # b[k]}
<1>1. C = {}
  <2> SUFFICES ASSUME C # {} PROVE FALSE
    OBVIOUS
  <2>1. C \in SUBSET Nat
    BY StepsType
  <2>2. PICK m \in C : \A x \in C : m <= x
    BY <2>1, LeastNumber
  <2>3. m \in 1 .. Steps /\ m # 1 /\ a[m] # b[m]
    BY <2>2, WalkPoints
  <2>4. m - 1 \in 1 .. Steps /\ ~(m <= m - 1)
    BY <2>3, StepsType
  <2>5. a[m - 1] = b[m - 1]
    BY <2>2, <2>4
  <2> QED BY <2>3, <2>5, WalkPoints
<1> QED BY <1>1

(* A list has no more nodes than there are addresses. *)
LEMMA ListBound ==
  ASSUME NEW n, NEW q, NEW h, NEW f, IsList(n, q, h, f)
  PROVE  n \in Nat /\ n <= Cardinality(Timers)
<1>1. n \in Nat /\ q \in [1 .. n -> Timers] /\ \A i, j \in 1 .. n : q[i] = q[j] => i = j
  BY DEF IsList
<1>2. Cardinality(1 .. n) = n
  <2>1. 1 \in Int /\ n \in Int
    BY <1>1
  <2>2. Cardinality(1 .. n) = IF 1 > n THEN 0 ELSE n - 1 + 1
    BY <2>1, FS_Interval, Zenon
  <2> QED BY <1>1, <2>2
<1> DEFINE S == 1 .. n
<1>3. q \in [S -> Timers] /\ \A i, j \in S : q[i] = q[j] => i = j
  BY <1>1
<1> HIDE DEF S
<1>4. q \in Injection(S, Timers)
  BY <1>3, Fun_IsInj, Zenon
<1>5. Cardinality(S) <= Cardinality(Timers)
  BY <1>4, TimerAssumption, FS_Injection
<1> QED BY <1>1, <1>2, <1>5 DEF S

(* The walk from the head of a list meets its nodes, in their order. *)
LEMMA ListIs ==
  ASSUME TimerTypeOK, NEW n, NEW q, NEW h, IsList(n, q, h, node)
  PROVE  /\ ListFrom(h) = q
         /\ Len(ListFrom(h)) = n /\ DOMAIN ListFrom(h) = 1 .. n
<1>1. n \in Nat /\ n <= Cardinality(Timers) /\ Steps \in Nat /\ Steps = Cardinality(Timers) + 1
      /\ Cardinality(Timers) \in Nat
  BY ListBound, StepsType DEF Steps
<1>2. /\ q \in [1 .. n -> Timers] /\ h = IF n = 0 THEN NULL ELSE q[1]
      /\ \A j \in 1 .. n : /\ q[j] \in Timers /\ q[j] # NULL
                           /\ Go(q[j]) = IF j = n THEN NULL ELSE q[j + 1]
  <2>1. /\ q \in [1 .. n -> Timers] /\ h = IF n = 0 THEN NULL ELSE q[1]
        /\ \A j \in 1 .. n : /\ node[q[j]] \in Node
                             /\ node[q[j]].pNext = IF j = n THEN NULL ELSE q[j + 1]
    BY DEF IsList
  <2>2. \A j \in 1 .. n : q[j] \in Timers /\ q[j] # NULL /\ q[j] \in Allocated
    BY <2>1, NodeNotFree, TimerAssumption DEF Allocated
  <2> QED BY <2>1, <2>2 DEF Go
<1>3. Go(NULL) = NULL
  BY TimerAssumption DEF Go, Allocated
<1> DEFINE e(k) == IF k <= n THEN q[k] ELSE NULL
           a == [k \in 1 .. Steps |-> e(k)]
<1>4. ASSUME NEW k \in 1 .. Steps PROVE e(k) = IF k = 1 THEN h ELSE Go(e(k - 1))
  <2>1. CASE k = 1
    BY <1>1, <1>2, <2>1
  <2>2. CASE k # 1 /\ k <= n
    <3>1. k - 1 \in 1 .. n /\ k - 1 # n /\ k - 1 + 1 = k
      BY <1>1, <2>2
    <3> QED BY <1>1, <1>2, <2>2, <3>1
  <2>3. CASE k # 1 /\ k = n + 1
    <3>1. k - 1 \in 1 .. n /\ k - 1 = n /\ ~(k <= n)
      BY <1>1, <2>3
    <3> QED BY <1>1, <1>2, <2>3, <3>1
  <2>4. CASE k > n + 1
    <3>1. ~(k - 1 <= n) /\ ~(k <= n) /\ k # 1
      BY <1>1, <2>4
    <3> QED BY <1>3, <3>1
  <2> QED BY <1>1, <2>1, <2>2, <2>3, <2>4
<1>5. \A k \in 1 .. Steps : e(k) # NULL <=> k \in 1 .. n
  BY <1>1, <1>2
<1>6. \A k \in 1 .. n : k \in 1 .. Steps /\ e(k) = q[k]
  BY <1>1
<1> HIDE DEF e
<1>7. Walk(h, a)
  <2>1. \A k \in 1 .. Steps : k # 1 => k - 1 \in 1 .. Steps
    BY <1>1
  <2>2. \A k \in 1 .. Steps : a[k] = IF k = 1 THEN h ELSE Go(a[k - 1])
    BY <1>4, <2>1
  <2> QED BY <2>2 DEF Walk
<1>8. \A k \in 1 .. Steps : a[k] = e(k)
  OBVIOUS
<1> HIDE DEF a
<1> DEFINE b == CHOOSE x : Walk(h, x)
           met == {k \in 1 .. Steps : b[k] # NULL}
<1>9. Walk(h, b)
  BY <1>7
<1>10. ListFrom(h) = [k \in 1 .. Cardinality(met) |-> b[k]]
  BY DEF ListFrom, Walk, Go, Steps
<1> HIDE DEF b
<1>11. \A k \in 1 .. Steps : b[k] = e(k)
  BY <1>7, <1>8, <1>9, WalkUnique
<1>12. met = 1 .. n
  BY <1>5, <1>6, <1>11
<1>13. Cardinality(met) = n
  <2>1. 1 \in Int /\ n \in Int
    BY <1>1
  <2>2. Cardinality(1 .. n) = IF 1 > n THEN 0 ELSE n - 1 + 1
    BY <2>1, FS_Interval, Zenon
  <2>3. Cardinality(1 .. n) = n
    BY <1>1, <2>2
  <2> HIDE DEF met
  <2> QED BY <1>12, <2>3
<1> HIDE DEF met
<1>14. ListFrom(h) = [k \in 1 .. n |-> b[k]]
  BY <1>10, <1>13
<1>15. \A k \in 1 .. n : b[k] = q[k]
  BY <1>6, <1>11
<1>16. ListFrom(h) = q
  BY <1>2, <1>14, <1>15
<1>17. Len(q) = n /\ DOMAIN q = 1 .. n
  <2>1. q \in Seq(Timers)
    BY <1>1, <1>2
  <2> QED BY <1>1, <1>2, <2>1
<1> QED BY <1>16, <1>17

-----------------------------------------------------------------------------
(* The equation of the sums of gaps in Reach. *)
Sums(s, a) == a = [j \in 0 .. Len(s) |-> IF j = 0 THEN 0 ELSE a[j - 1] + node[s[j]].iTickGap]

(* The equation, point by point. *)
LEMMA SumsPoints ==
  ASSUME NEW s, NEW a, Sums(s, a)
  PROVE  \A j \in 0 .. Len(s) : a[j] = IF j = 0 THEN 0 ELSE a[j - 1] + node[s[j]].iTickGap
<1> DEFINE F(j) == IF j = 0 THEN 0 ELSE a[j - 1] + node[s[j]].iTickGap
           H == [j \in 0 .. Len(s) |-> F(j)]
<1>1. a = H
  BY DEF Sums
<1> HIDE DEF F
<1>2. \A j \in 0 .. Len(s) : H[j] = F(j)
  OBVIOUS
<1> HIDE DEF H
<1>3. \A j \in 0 .. Len(s) : a[j] = F(j)
  BY <1>1, <1>2
<1> QED BY <1>3 DEF F

(* There is only one such function. *)
LEMMA SumsUnique ==
  ASSUME NEW s, Len(s) \in Nat, NEW a, NEW b, Sums(s, a), Sums(s, b)
  PROVE  \A j \in 0 .. Len(s) : a[j] = b[j]
<1> DEFINE C == {j \in 0 .. Len(s) : a[j] # b[j]}
<1>1. C = {}
  <2> SUFFICES ASSUME C # {} PROVE FALSE
    OBVIOUS
  <2>1. C \in SUBSET Nat
    OBVIOUS
  <2>2. PICK m \in C : \A x \in C : m <= x
    BY <2>1, LeastNumber
  <2>3. m \in 0 .. Len(s) /\ m # 0 /\ a[m] # b[m]
    BY <2>2, SumsPoints
  <2>4. m - 1 \in 0 .. Len(s) /\ ~(m <= m - 1)
    BY <2>3
  <2>5. a[m - 1] = b[m - 1]
    BY <2>2, <2>4
  <2> QED BY <2>3, <2>5, SumsPoints
<1> QED BY <1>1

(* The gaps up to a timer add up to the ticks that are left until it is due. *)
LEMMA ReachIs ==
  ASSUME TimerTypeOK, NEW n, NEW q, NEW h, IsList(n, q, h, node), Timed(n, q, node, due, now)
  PROVE  \A k \in 1 .. n : Reach(q, k) = due[q[k]] - now
<1>1. n \in Nat /\ now \in Int /\ q = ListFrom(h) /\ Len(q) = n
  <2>1. q = ListFrom(h) /\ Len(q) = n
    BY ListIs
  <2>2. n \in Nat
    BY DEF IsList
  <2> QED BY <2>1, <2>2 DEF TimerTypeOK
<1>2. \A j \in 1 .. n : /\ due[q[j]] \in Int
                        /\ node[q[j]].iTickGap = due[q[j]] - (IF j = 1 THEN now ELSE due[q[j - 1]])
  BY DEF TimerTypeOK, Timed, IsList
<1> DEFINE e(j) == IF j = 0 THEN 0 ELSE due[q[j]] - now
           a == [j \in 0 .. n |-> e(j)]
<1>3. ASSUME NEW j \in 0 .. n PROVE e(j) = IF j = 0 THEN 0 ELSE e(j - 1) + node[q[j]].iTickGap
  <2>1. CASE j = 0
    BY <2>1
  <2>2. CASE j = 1
    <3>1. e(1) = due[q[1]] - now /\ e(0) = 0 /\ 1 \in 1 .. n
      BY <1>1, <2>2
    <3>2. node[q[1]].iTickGap = due[q[1]] - now /\ due[q[1]] \in Int
      BY <1>2, <3>1
    <3> QED BY <1>1, <2>2, <3>1, <3>2
  <2>3. CASE j > 1
    <3>1. j \in 1 .. n /\ j - 1 \in 1 .. n /\ j # 1 /\ j # 0 /\ j - 1 # 0
      BY <1>1, <2>3
    <3>2. e(j) = due[q[j]] - now /\ e(j - 1) = due[q[j - 1]] - now
      BY <3>1
    <3>3. node[q[j]].iTickGap = due[q[j]] - due[q[j - 1]] /\ due[q[j]] \in Int /\ due[q[j - 1]] \in Int
      BY <1>2, <3>1
    <3> HIDE DEF e
    <3> QED BY <1>1, <3>1, <3>2, <3>3
  <2> QED BY <1>1, <2>1, <2>2, <2>3
<1>4. \A j \in 1 .. n : e(j) = due[q[j]] - now
  BY <1>1
<1> HIDE DEF e
<1>5. Sums(q, a)
  <2>1. \A j \in 0 .. n : j # 0 => j - 1 \in 0 .. n
    BY <1>1
  <2>2. \A j \in 0 .. n : a[j] = IF j = 0 THEN 0 ELSE a[j - 1] + node[q[j]].iTickGap
    BY <1>3, <2>1
  <2> QED BY <1>1, <2>2 DEF Sums
<1>6. \A j \in 0 .. n : a[j] = e(j)
  OBVIOUS
<1> HIDE DEF a
<1> DEFINE b == CHOOSE x : Sums(q, x)
<1>7. Sums(q, b)
  BY <1>5
<1>8. \A k \in 1 .. n : Reach(q, k) = b[k]
  BY DEF Reach, Sums
<1> HIDE DEF b
<1>9. \A j \in 0 .. n : a[j] = b[j]
  BY <1>1, <1>5, <1>7, SumsUnique
<1>10. \A k \in 1 .. n : k \in 0 .. n
  BY <1>1
<1> QED BY <1>4, <1>6, <1>8, <1>9, <1>10

-----------------------------------------------------------------------------
(* Timer t is put into a list before position k. *)
Ins(n, q, k, t) == [j \in 1 .. n + 1 |-> IF j < k THEN q[j] ELSE IF j = k THEN t ELSE q[j - 1]]

(* The positions of the longer list. *)
LEMMA InsPoints ==
  ASSUME NEW n \in Nat, NEW q \in [1 .. n -> Timers], NEW k \in 1 .. n + 1, NEW t \in Timers
  PROVE  /\ Ins(n, q, k, t) \in [1 .. n + 1 -> Timers]
         /\ \A j \in 1 .. n + 1 : /\ j < k => j \in 1 .. n /\ Ins(n, q, k, t)[j] = q[j]
                                  /\ j = k => Ins(n, q, k, t)[j] = t
                                  /\ j > k => j - 1 \in 1 .. n /\ Ins(n, q, k, t)[j] = q[j - 1]
<1> DEFINE p == Ins(n, q, k, t)
<1>1. \A j \in 1 .. n + 1 : p[j] = IF j < k THEN q[j] ELSE IF j = k THEN t ELSE q[j - 1]
  BY DEF Ins
<1>2. ASSUME NEW j \in 1 .. n + 1
      PROVE  /\ j < k => j \in 1 .. n /\ p[j] = q[j]
             /\ j = k => p[j] = t
             /\ j > k => j - 1 \in 1 .. n /\ p[j] = q[j - 1]
             /\ p[j] \in Timers
  BY <1>1
<1>3. p \in [1 .. n + 1 -> Timers]
  BY <1>2 DEF Ins
<1> QED BY <1>2, <1>3

(* The links that the insertion changes from f to g. *)
InsLinks(n, q, k, t, f, g) ==
  /\ g[t] \in Node
  /\ g[t].pNext = IF k = n + 1 THEN NULL ELSE q[k]
  /\ g[t].pPrev = IF k = 1 THEN NULL ELSE q[k - 1]
  /\ \A j \in 1 .. n : /\ g[q[j]] \in Node
                       /\ g[q[j]].pNext = IF j = k - 1 THEN t ELSE f[q[j]].pNext
                       /\ g[q[j]].pPrev = IF j = k THEN t ELSE f[q[j]].pPrev

(* They make the longer list. *)
LEMMA InsList ==
  ASSUME NEW n, NEW q, NEW h, NEW f, IsList(n, q, h, f),
         NEW k \in 1 .. n + 1, NEW t \in Timers, \A j \in 1 .. n : q[j] # t,
         NEW g, InsLinks(n, q, k, t, f, g), NEW u, u = IF k = 1 THEN t ELSE h
  PROVE  /\ IsList(n + 1, Ins(n, q, k, t), u, g)
         /\ \A x : In(n + 1, Ins(n, q, k, t), x) <=> x = t \/ In(n, q, x)
<1> USE DEF InsLinks
<1>1. /\ n \in Nat /\ q \in [1 .. n -> Timers] /\ \A i, j \in 1 .. n : q[i] = q[j] => i = j
      /\ h = IF n = 0 THEN NULL ELSE q[1]
      /\ \A j \in 1 .. n : /\ f[q[j]] \in Node
                           /\ f[q[j]].pNext = IF j = n THEN NULL ELSE q[j + 1]
                           /\ f[q[j]].pPrev = IF j = 1 THEN NULL ELSE q[j - 1]
  BY DEF IsList
<1>2. PICK p : p = Ins(n, q, k, t)
  OBVIOUS
<1>3. /\ p \in [1 .. n + 1 -> Timers]
      /\ \A j \in 1 .. n + 1 : /\ j < k => j \in 1 .. n /\ p[j] = q[j]
                               /\ j = k => p[j] = t
                               /\ j > k => j - 1 \in 1 .. n /\ p[j] = q[j - 1]
  <2>1. n \in Nat /\ q \in [1 .. n -> Timers]
    BY <1>1
  <2>2. /\ Ins(n, q, k, t) \in [1 .. n + 1 -> Timers]
        /\ \A j \in 1 .. n + 1 : /\ j < k => j \in 1 .. n /\ Ins(n, q, k, t)[j] = q[j]
                                 /\ j = k => Ins(n, q, k, t)[j] = t
                                 /\ j > k => j - 1 \in 1 .. n /\ Ins(n, q, k, t)[j] = q[j - 1]
    BY <2>1, InsPoints, Zenon
  <2> QED BY <1>2, <2>2
<1>4. ASSUME NEW i \in 1 .. n + 1, NEW j \in 1 .. n + 1, p[i] = p[j] PROVE i = j
  <2>1. CASE i = k \/ j = k
    BY <1>1, <1>3, <1>4, <2>1
  <2>2. CASE i < k /\ j < k
    BY <1>1, <1>3, <1>4, <2>2
  <2>3. CASE i > k /\ j > k
    <3>1. i - 1 = j - 1
      BY <1>1, <1>3, <1>4, <2>3
    <3> QED BY <1>1, <3>1
  <2>4. CASE i < k /\ j > k
    <3>1. i = j - 1
      BY <1>1, <1>3, <1>4, <2>4
    <3> QED BY <1>1, <2>4, <3>1
  <2>5. CASE i > k /\ j < k
    <3>1. i - 1 = j
      BY <1>1, <1>3, <1>4, <2>5
    <3> QED BY <1>1, <2>5, <3>1
  <2> QED BY <1>1, <2>1, <2>2, <2>3, <2>4, <2>5
<1>5. u = p[1]
  <2>1. 1 \in 1 .. n + 1 /\ n + 1 # 0
    BY <1>1
  <2>2. CASE k = 1
    BY <1>3, <2>1, <2>2
  <2>3. CASE k # 1
    <3>1. 1 < k /\ n # 0
      BY <1>1, <2>3
    <3> QED BY <1>1, <1>3, <2>1, <2>3, <3>1
  <2> QED BY <2>2, <2>3
<1>6. ASSUME NEW j \in 1 .. n + 1
      PROVE  /\ g[p[j]] \in Node
             /\ g[p[j]].pNext = IF j = n + 1 THEN NULL ELSE p[j + 1]
             /\ g[p[j]].pPrev = IF j = 1 THEN NULL ELSE p[j - 1]
  <2>1. CASE j = k
    <3>1. p[j] = t
      BY <1>3, <2>1
    <3>2. j # n + 1 => p[j + 1] = q[k]
      <4>1. j # n + 1 => j + 1 \in 1 .. n + 1 /\ j + 1 > k /\ j + 1 - 1 = k
        BY <1>1, <2>1
      <4> QED BY <1>3, <4>1
    <3>3. j # 1 => p[j - 1] = q[k - 1]
      <4>1. j # 1 => j - 1 \in 1 .. n + 1 /\ j - 1 < k /\ j - 1 = k - 1
        BY <1>1, <2>1
      <4> QED BY <1>3, <4>1
    <3> QED BY <2>1, <3>1, <3>2, <3>3
  <2>2. CASE j < k
    <3>1. j \in 1 .. n /\ p[j] = q[j] /\ j # n + 1 /\ j # k
      BY <1>1, <1>3, <2>2
    <3>2. j # 1 => p[j - 1] = q[j - 1]
      <4>1. j # 1 => j - 1 \in 1 .. n + 1 /\ j - 1 < k
        BY <1>1, <2>2
      <4> QED BY <1>3, <4>1
    <3>3. CASE j = k - 1
      <4>1. j + 1 = k /\ j + 1 \in 1 .. n + 1
        BY <1>1, <3>3
      <4>2. p[j + 1] = t
        BY <1>3, <4>1
      <4> QED BY <1>1, <3>1, <3>2, <3>3, <4>2
    <3>4. CASE j # k - 1
      <4>1. j + 1 < k /\ j + 1 \in 1 .. n + 1 /\ j # n
        BY <1>1, <2>2, <3>1, <3>4
      <4>2. p[j + 1] = q[j + 1]
        BY <1>3, <4>1
      <4> QED BY <1>1, <3>1, <3>2, <3>4, <4>1, <4>2
    <3> QED BY <3>3, <3>4
  <2>3. CASE j > k
    <3>1. PICK i : i = j - 1
      OBVIOUS
    <3>2. i \in 1 .. n /\ p[j] = q[i] /\ i # k - 1 /\ j # 1 /\ i \in Int /\ j = i + 1 /\ j - 1 = i
      BY <1>1, <1>3, <2>3, <3>1
    <3>3. g[q[i]].pNext = IF j = n + 1 THEN NULL ELSE p[j + 1]
      <4>1. CASE j = n + 1
        <5>1. i = n
          BY <1>1, <3>2, <4>1
        <5> QED BY <1>1, <3>2, <4>1, <5>1
      <4>2. CASE j # n + 1
        <5>1. i # n /\ j + 1 \in 1 .. n + 1 /\ j + 1 > k /\ j + 1 - 1 = i + 1
          BY <1>1, <2>3, <3>2, <4>2
        <5>2. p[j + 1] = q[i + 1]
          BY <1>3, <5>1
        <5> QED BY <1>1, <3>2, <4>2, <5>1, <5>2
      <4> QED BY <4>1, <4>2
    <3>4. g[q[i]].pPrev = p[j - 1]
      <4>1. CASE i = k
        <5>1. p[i] = t
          BY <1>1, <1>3, <3>2, <4>1
        <5> QED BY <3>2, <4>1, <5>1
      <4>2. CASE i # k
        <5>1. i > k /\ i \in 1 .. n + 1 /\ i # 1
          BY <1>1, <2>3, <3>2, <4>2
        <5>2. p[i] = q[i - 1]
          BY <1>3, <5>1
        <5> QED BY <1>1, <3>2, <4>2, <5>1, <5>2
      <4> QED BY <4>1, <4>2
    <3> QED BY <3>2, <3>3, <3>4
  <2> QED BY <1>1, <2>1, <2>2, <2>3
<1>7. IsList(n + 1, p, u, g)
  <2>1. n + 1 \in Nat /\ n + 1 # 0
    BY <1>1
  <2> QED BY <1>3, <1>4, <1>5, <1>6, <2>1 DEF IsList
<1>8. ASSUME NEW x PROVE (\E j \in 1 .. n + 1 : p[j] = x) <=> x = t \/ \E j \in 1 .. n : q[j] = x
  <2>1. ASSUME NEW j \in 1 .. n + 1, p[j] = x PROVE x = t \/ \E i \in 1 .. n : q[i] = x
    <3>1. j < k \/ j = k \/ j > k
      BY <1>1
    <3> QED BY <1>3, <2>1, <3>1
  <2>2. p[k] = t /\ k \in 1 .. n + 1
    BY <1>3
  <2>3. ASSUME NEW j \in 1 .. n, q[j] = x PROVE \E i \in 1 .. n + 1 : p[i] = x
    <3>1. CASE j < k
      <4>1. j \in 1 .. n + 1
        BY <1>1
      <4> QED BY <1>3, <2>3, <3>1, <4>1
    <3>2. CASE ~(j < k)
      <4>1. j + 1 \in 1 .. n + 1 /\ j + 1 > k /\ j + 1 - 1 = j
        BY <1>1, <3>2
      <4> QED BY <1>3, <2>3, <4>1
    <3> QED BY <3>1, <3>2
  <2> QED BY <2>1, <2>2, <2>3
<1> QED BY <1>2, <1>7, <1>8 DEF In

(* The gaps that the insertion of a timer that is due at tick d[t] changes. *)
InsGaps(n, q, k, t, f, g, d, c) ==
  /\ g[t].iTickGap = d[t] - (IF k = 1 THEN c ELSE d[q[k - 1]])
  /\ \A j \in 1 .. n : /\ g[q[j]].iTickGap = IF j = k THEN d[q[j]] - d[t] ELSE f[q[j]].iTickGap
                       /\ j < k => d[q[j]] <= d[t]
                       /\ j >= k => d[t] <= d[q[j]]

(* The gaps after the insertion. *)
LEMMA InsTimed ==
  ASSUME NEW n \in Nat, NEW q \in [1 .. n -> Timers], NEW f, NEW e, NEW c \in Int, Timed(n, q, f, e, c),
         NEW k \in 1 .. n + 1, NEW t \in Timers, NEW g, NEW d,
         \A j \in 1 .. n : d[q[j]] = e[q[j]] /\ d[q[j]] \in Int,
         d[t] \in Int, d[t] > c, InsGaps(n, q, k, t, f, g, d, c)
  PROVE  Timed(n + 1, Ins(n, q, k, t), g, d, c)
<1> USE DEF InsGaps
<1>1. /\ \A j \in 1 .. n : /\ f[q[j]].iTickGap = d[q[j]] - (IF j = 1 THEN c ELSE d[q[j - 1]])
                           /\ d[q[j]] > c
      /\ \A i, j \in 1 .. n : i <= j => d[q[i]] <= d[q[j]]
  <2>1. \A j \in 1 .. n : j # 1 => j - 1 \in 1 .. n
    OBVIOUS
  <2> QED BY <2>1 DEF Timed
<1>2. PICK p : p = Ins(n, q, k, t)
  OBVIOUS
<1>3. /\ p \in [1 .. n + 1 -> Timers]
      /\ \A j \in 1 .. n + 1 : /\ j < k => j \in 1 .. n /\ p[j] = q[j]
                               /\ j = k => p[j] = t
                               /\ j > k => j - 1 \in 1 .. n /\ p[j] = q[j - 1]
  <2>2. /\ Ins(n, q, k, t) \in [1 .. n + 1 -> Timers]
        /\ \A j \in 1 .. n + 1 : /\ j < k => j \in 1 .. n /\ Ins(n, q, k, t)[j] = q[j]
                                 /\ j = k => Ins(n, q, k, t)[j] = t
                                 /\ j > k => j - 1 \in 1 .. n /\ Ins(n, q, k, t)[j] = q[j - 1]
    BY InsPoints, ZenonT(60)
  <2> QED BY <1>2, <2>2
<1>4. ASSUME NEW j \in 1 .. n + 1
      PROVE  g[p[j]].iTickGap = d[p[j]] - (IF j = 1 THEN c ELSE d[p[j - 1]]) /\ d[p[j]] > c
  <2>1. CASE j = k
    <3>1. p[j] = t
      BY <1>3, <2>1
    <3>2. j # 1 => p[j - 1] = q[k - 1]
      <4>1. j # 1 => j - 1 \in 1 .. n + 1 /\ j - 1 < k
        BY <2>1
      <4> QED BY <1>3, <2>1, <4>1
    <3> QED BY <2>1, <3>1, <3>2
  <2>2. CASE j < k
    <3>1. j \in 1 .. n /\ p[j] = q[j] /\ j # k
      BY <1>3, <2>2
    <3>2. j # 1 => p[j - 1] = q[j - 1]
      <4>1. j # 1 => j - 1 \in 1 .. n + 1 /\ j - 1 < k
        BY <2>2
      <4> QED BY <1>3, <4>1
    <3> QED BY <1>1, <3>1, <3>2
  <2>3. CASE j > k
    <3>1. PICK i : i = j - 1
      OBVIOUS
    <3>2. i \in 1 .. n /\ p[j] = q[i] /\ j # 1 /\ i \in Int
      BY <1>3, <2>3, <3>1
    <3>3. CASE i = k
      <4>1. p[i] = t
        BY <1>3, <3>3
      <4> QED BY <1>1, <3>1, <3>2, <3>3, <4>1
    <3>4. CASE i # k
      <4>1. i > k /\ i \in 1 .. n + 1 /\ i # 1
        BY <2>3, <3>1, <3>2, <3>4
      <4>2. p[i] = q[i - 1]
        BY <1>3, <4>1
      <4> QED BY <1>1, <3>1, <3>2, <3>4, <4>1, <4>2
    <3> QED BY <3>3, <3>4
  <2> QED BY <2>1, <2>2, <2>3
<1>5. ASSUME NEW i \in 1 .. n + 1, NEW j \in 1 .. n + 1, i <= j PROVE d[p[i]] <= d[p[j]]
  <2>1. CASE i = j
    <3>1. d[p[i]] \in Int
      <4>1. i < k \/ i = k \/ i > k
        OBVIOUS
      <4> QED BY <1>3, <4>1
    <3> QED BY <2>1, <3>1
  <2>2. CASE i < j /\ j < k
    BY <1>1, <1>3, <2>2
  <2>3. CASE i < j /\ j = k
    BY <1>1, <1>3, <2>3
  <2>4. CASE i < k /\ j > k
    <3>1. i \in 1 .. n /\ p[i] = q[i] /\ j - 1 \in 1 .. n /\ p[j] = q[j - 1] /\ i <= j - 1
      BY <1>3, <2>4
    <3> QED BY <1>1, <3>1
  <2>5. CASE i = k /\ j > k
    <3>1. p[i] = t /\ j - 1 \in 1 .. n /\ p[j] = q[j - 1] /\ j - 1 >= k
      BY <1>3, <2>5
    <3> QED BY <3>1
  <2>6. CASE i > k /\ j > k
    <3>1. i - 1 \in 1 .. n /\ p[i] = q[i - 1] /\ j - 1 \in 1 .. n /\ p[j] = q[j - 1] /\ i - 1 <= j - 1
      BY <1>3, <1>5, <2>6
    <3> QED BY <1>1, <3>1
  <2> QED BY <1>5, <2>1, <2>2, <2>3, <2>4, <2>5, <2>6
<1>6. Timed(n + 1, p, g, d, c)
  BY <1>4, <1>5 DEF Timed
<1> QED BY <1>2, <1>6

-----------------------------------------------------------------------------
(* The timer at position k is taken out of a list. *)
Del(n, q, k) == [j \in 1 .. n - 1 |-> IF j < k THEN q[j] ELSE q[j + 1]]

(* The positions of the shorter list. *)
LEMMA DelPoints ==
  ASSUME NEW n \in Nat, NEW q \in [1 .. n -> Timers], NEW k \in 1 .. n
  PROVE  /\ Del(n, q, k) \in [1 .. n - 1 -> Timers] /\ n - 1 \in Nat
         /\ \A j \in 1 .. n - 1 : /\ j < k => j \in 1 .. n /\ Del(n, q, k)[j] = q[j]
                                  /\ j >= k => j + 1 \in 1 .. n /\ Del(n, q, k)[j] = q[j + 1]
<1> DEFINE p == Del(n, q, k)
<1>1. \A j \in 1 .. n - 1 : p[j] = IF j < k THEN q[j] ELSE q[j + 1]
  BY DEF Del
<1>2. ASSUME NEW j \in 1 .. n - 1
      PROVE  /\ j < k => j \in 1 .. n /\ p[j] = q[j]
             /\ j >= k => j + 1 \in 1 .. n /\ p[j] = q[j + 1]
             /\ p[j] \in Timers
  BY <1>1
<1>3. p \in [1 .. n - 1 -> Timers]
  BY <1>2 DEF Del
<1> QED BY <1>2, <1>3

(* The links that the removal changes from f to g. *)
DelLinks(n, q, k, f, g) ==
  \A j \in 1 .. n : j # k =>
     /\ g[q[j]] \in Node
     /\ g[q[j]].pNext = IF j = k - 1 THEN f[q[k]].pNext ELSE f[q[j]].pNext
     /\ g[q[j]].pPrev = IF j = k + 1 THEN f[q[k]].pPrev ELSE f[q[j]].pPrev

(* They make the shorter list. *)
LEMMA DelList ==
  ASSUME NEW n, NEW q, NEW h, NEW f, IsList(n, q, h, f), NEW k \in 1 .. n, NEW g,
         DelLinks(n, q, k, f, g), NEW u, u = IF k = 1 THEN f[q[k]].pNext ELSE h
  PROVE  /\ IsList(n - 1, Del(n, q, k), u, g)
         /\ \A x : In(n - 1, Del(n, q, k), x) <=> x # q[k] /\ In(n, q, x)
<1> USE DEF DelLinks
<1>1. /\ n \in Nat /\ q \in [1 .. n -> Timers] /\ \A i, j \in 1 .. n : q[i] = q[j] => i = j
      /\ h = IF n = 0 THEN NULL ELSE q[1]
      /\ \A j \in 1 .. n : /\ f[q[j]].pNext = IF j = n THEN NULL ELSE q[j + 1]
                           /\ f[q[j]].pPrev = IF j = 1 THEN NULL ELSE q[j - 1]
  BY DEF IsList
<1>2. PICK p : p = Del(n, q, k)
  OBVIOUS
<1>3. /\ p \in [1 .. n - 1 -> Timers] /\ n - 1 \in Nat
      /\ \A j \in 1 .. n - 1 : /\ j < k => j \in 1 .. n /\ p[j] = q[j]
                               /\ j >= k => j + 1 \in 1 .. n /\ p[j] = q[j + 1]
  <2>1. n \in Nat /\ q \in [1 .. n -> Timers]
    BY <1>1
  <2> QED BY <1>2, <2>1, DelPoints
<1>4. ASSUME NEW i \in 1 .. n - 1, NEW j \in 1 .. n - 1, p[i] = p[j] PROVE i = j
  <2>2. CASE i < k /\ j < k
    BY <1>1, <1>3, <1>4, <2>2
  <2>3. CASE i >= k /\ j >= k
    <3>1. i + 1 = j + 1
      BY <1>1, <1>3, <1>4, <2>3
    <3> QED BY <1>1, <3>1
  <2>4. CASE i < k /\ j >= k
    <3>1. i = j + 1
      BY <1>1, <1>3, <1>4, <2>4
    <3> QED BY <1>1, <2>4, <3>1
  <2>5. CASE i >= k /\ j < k
    <3>1. i + 1 = j
      BY <1>1, <1>3, <1>4, <2>5
    <3> QED BY <1>1, <2>5, <3>1
  <2> QED BY <1>1, <2>2, <2>3, <2>4, <2>5
<1>5. u = IF n - 1 = 0 THEN NULL ELSE p[1]
  <2>1. CASE k = 1 /\ n = 1
    BY <1>1, <2>1
  <2>2. CASE k = 1 /\ n # 1
    <3>1. 1 \in 1 .. n - 1 /\ 1 >= k /\ n - 1 # 0 /\ k # n /\ k + 1 = 2 /\ 1 + 1 = 2
      BY <1>1, <2>2
    <3>2. p[1] = q[2]
      BY <1>3, <3>1
    <3> QED BY <1>1, <2>2, <3>1, <3>2
  <2>3. CASE k # 1
    <3>1. 1 \in 1 .. n - 1 /\ 1 < k /\ n - 1 # 0 /\ n # 0
      BY <1>1, <2>3
    <3> QED BY <1>1, <1>3, <2>3, <3>1
  <2> QED BY <2>1, <2>2, <2>3
<1>6. ASSUME NEW j \in 1 .. n - 1
      PROVE  /\ g[p[j]] \in Node
             /\ g[p[j]].pNext = IF j = n - 1 THEN NULL ELSE p[j + 1]
             /\ g[p[j]].pPrev = IF j = 1 THEN NULL ELSE p[j - 1]
  <2>1. CASE j < k
    <3>1. j \in 1 .. n /\ p[j] = q[j] /\ j # k /\ j # k + 1 /\ j # n
      BY <1>1, <1>3, <2>1
    <3>2. g[q[j]].pPrev = IF j = 1 THEN NULL ELSE p[j - 1]
      <4>1. j # 1 => j - 1 \in 1 .. n - 1 /\ j - 1 < k
        BY <1>1, <2>1
      <4>2. j # 1 => p[j - 1] = q[j - 1]
        BY <1>3, <4>1
      <4> QED BY <1>1, <3>1, <4>2
    <3>3. CASE j = k - 1
      <4>1. g[q[j]].pNext = f[q[k]].pNext /\ (k = n <=> j = n - 1)
        BY <1>1, <3>1, <3>3
      <4>2. j # n - 1 => j + 1 \in 1 .. n - 1 /\ j + 1 >= k /\ j + 1 + 1 = k + 1
        BY <1>1, <3>3
      <4>3. j # n - 1 => p[j + 1] = q[k + 1]
        BY <1>3, <4>2
      <4> QED BY <1>1, <3>1, <3>2, <4>1, <4>3
    <3>4. CASE j # k - 1
      <4>1. j + 1 \in 1 .. n - 1 /\ j + 1 < k /\ j # n - 1
        BY <1>1, <2>1, <3>4
      <4>2. p[j + 1] = q[j + 1]
        BY <1>3, <4>1
      <4> QED BY <1>1, <3>1, <3>2, <3>4, <4>1, <4>2
    <3> QED BY <3>3, <3>4
  <2>2. CASE j >= k
    <3>1. PICK i : i = j + 1
      OBVIOUS
    <3>2. i \in 1 .. n /\ p[j] = q[i] /\ i # k /\ i # k - 1 /\ i # 1 /\ i \in Int /\ j = i - 1 /\ i > k
      BY <1>1, <1>3, <2>2, <3>1
    <3>3. g[q[i]].pNext = IF j = n - 1 THEN NULL ELSE p[j + 1]
      <4>1. CASE j = n - 1
        <5>1. i = n
          BY <1>1, <3>1, <4>1
        <5> QED BY <1>1, <3>2, <4>1, <5>1
      <4>2. CASE j # n - 1
        <5>1. i # n /\ j + 1 \in 1 .. n - 1 /\ j + 1 >= k /\ j + 1 + 1 = i + 1
          BY <1>1, <2>2, <3>1, <3>2, <4>2
        <5>2. p[j + 1] = q[i + 1]
          BY <1>3, <5>1
        <5> QED BY <1>1, <3>2, <4>2, <5>1, <5>2
      <4> QED BY <4>1, <4>2
    <3>4. g[q[i]].pPrev = IF j = 1 THEN NULL ELSE p[j - 1]
      <4>1. CASE i = k + 1
        <5>1. j = k
          BY <1>1, <3>1, <4>1
        <5>2. g[q[i]].pPrev = f[q[k]].pPrev
          BY <3>2, <4>1
        <5>3. j # 1 => j - 1 \in 1 .. n - 1 /\ j - 1 < k
          BY <1>1, <5>1
        <5>4. j # 1 => p[j - 1] = q[k - 1]
          BY <1>3, <5>1, <5>3
        <5> QED BY <1>1, <5>1, <5>2, <5>4
      <4>2. CASE i # k + 1
        <5>1. j - 1 \in 1 .. n - 1 /\ j - 1 >= k /\ j - 1 + 1 = i - 1 /\ j # 1
          BY <1>1, <2>2, <3>1, <3>2, <4>2
        <5>2. p[j - 1] = q[i - 1]
          BY <1>3, <5>1
        <5> QED BY <1>1, <3>2, <4>2, <5>1, <5>2
      <4> QED BY <4>1, <4>2
    <3> QED BY <3>2, <3>3, <3>4
  <2> QED BY <1>1, <2>1, <2>2
<1>7. IsList(n - 1, p, u, g)
  BY <1>3, <1>4, <1>5, <1>6 DEF IsList
<1>8. ASSUME NEW x PROVE (\E j \in 1 .. n - 1 : p[j] = x) <=> x # q[k] /\ \E j \in 1 .. n : q[j] = x
  <2>1. ASSUME NEW j \in 1 .. n - 1, p[j] = x PROVE x # q[k] /\ \E i \in 1 .. n : q[i] = x
    <3>1. CASE j < k
      <4>1. j \in 1 .. n /\ q[j] = x /\ j # k
        BY <1>1, <1>3, <2>1, <3>1
      <4> QED BY <1>1, <4>1
    <3>2. CASE j >= k
      <4>1. j + 1 \in 1 .. n /\ q[j + 1] = x /\ j + 1 # k
        BY <1>1, <1>3, <2>1, <3>2
      <4> QED BY <1>1, <4>1
    <3> QED BY <1>1, <3>1, <3>2
  <2>2. ASSUME NEW j \in 1 .. n, q[j] = x, x # q[k] PROVE \E i \in 1 .. n - 1 : p[i] = x
    <3>1. CASE j < k
      <4>1. j \in 1 .. n - 1
        BY <1>1, <3>1
      <4> QED BY <1>3, <2>2, <3>1, <4>1
    <3>2. CASE ~(j < k)
      <4>1. j # k
        BY <2>2
      <4>2. j - 1 \in 1 .. n - 1 /\ j - 1 >= k /\ j - 1 + 1 = j
        BY <1>1, <3>2, <4>1
      <4> QED BY <1>3, <2>2, <4>2
    <3> QED BY <3>1, <3>2
  <2> QED BY <2>1, <2>2
<1> QED BY <1>2, <1>7, <1>8 DEF In

(* The successor inherits the gap. *)
DelGaps(n, q, k, f, g) ==
  \A j \in 1 .. n : j # k =>
     g[q[j]].iTickGap = IF j = k + 1 THEN f[q[j]].iTickGap + f[q[k]].iTickGap ELSE f[q[j]].iTickGap

(* The gaps after the removal. *)
LEMMA DelTimed ==
  ASSUME NEW n \in Nat, NEW q \in [1 .. n -> Timers], NEW f, NEW d, NEW c \in Int, Timed(n, q, f, d, c),
         NEW k \in 1 .. n, NEW g, \A j \in 1 .. n : d[q[j]] \in Int, DelGaps(n, q, k, f, g)
  PROVE  Timed(n - 1, Del(n, q, k), g, d, c)
<1> USE DEF DelGaps
<1>1. /\ \A j \in 1 .. n : /\ f[q[j]].iTickGap = d[q[j]] - (IF j = 1 THEN c ELSE d[q[j - 1]])
                           /\ d[q[j]] > c
      /\ \A i, j \in 1 .. n : i <= j => d[q[i]] <= d[q[j]]
  BY DEF Timed
<1>2. PICK p : p = Del(n, q, k)
  OBVIOUS
<1>3. /\ p \in [1 .. n - 1 -> Timers] /\ n - 1 \in Nat
      /\ \A j \in 1 .. n - 1 : /\ j < k => j \in 1 .. n /\ p[j] = q[j]
                               /\ j >= k => j + 1 \in 1 .. n /\ p[j] = q[j + 1]
  BY <1>2, DelPoints
<1>4. ASSUME NEW j \in 1 .. n - 1
      PROVE  g[p[j]].iTickGap = d[p[j]] - (IF j = 1 THEN c ELSE d[p[j - 1]]) /\ d[p[j]] > c
  <2>1. CASE j < k
    <3>1. j \in 1 .. n /\ p[j] = q[j] /\ j # k /\ j # k + 1
      BY <1>3, <2>1
    <3>2. j # 1 => p[j - 1] = q[j - 1]
      <4>1. j # 1 => j - 1 \in 1 .. n - 1 /\ j - 1 < k
        BY <2>1
      <4> QED BY <1>3, <4>1
    <3> QED BY <1>1, <3>1, <3>2
  <2>2. CASE j >= k
    <3>1. PICK i : i = j + 1
      OBVIOUS
    <3>2. i \in 1 .. n /\ p[j] = q[i] /\ i # k /\ i # 1 /\ i \in Int
      BY <1>3, <2>2, <3>1
    <3>3. CASE i = k + 1
      <4>1. j = k /\ i - 1 = k
        BY <3>1, <3>3
      <4>2. g[q[i]].iTickGap = (d[q[i]] - d[q[k]]) + (d[q[k]] - (IF k = 1 THEN c ELSE d[q[k - 1]]))
        BY <1>1, <3>2, <3>3, <4>1
      <4>3. j # 1 => p[j - 1] = q[k - 1] /\ k - 1 \in 1 .. n
        <5>1. j # 1 => j - 1 \in 1 .. n - 1 /\ j - 1 < k
          BY <4>1
        <5> QED BY <1>3, <4>1, <5>1
      <4>4. g[q[i]].iTickGap = d[q[i]] - (IF j = 1 THEN c ELSE d[p[j - 1]])
        <5>1. CASE k = 1
          BY <3>2, <4>1, <4>2, <5>1
        <5>2. CASE k # 1
          BY <3>2, <4>1, <4>2, <4>3, <5>2
        <5> QED BY <5>1, <5>2
      <4> QED BY <1>1, <3>2, <4>4
    <3>4. CASE i # k + 1
      <4>1. j - 1 \in 1 .. n - 1 /\ j - 1 >= k /\ j # 1 /\ j - 1 + 1 = i - 1
        BY <2>2, <3>1, <3>2, <3>4
      <4>2. p[j - 1] = q[i - 1]
        BY <1>3, <4>1
      <4> QED BY <1>1, <3>2, <3>4, <4>1, <4>2
    <3> QED BY <3>3, <3>4
  <2> QED BY <2>1, <2>2
<1>5. ASSUME NEW i \in 1 .. n - 1, NEW j \in 1 .. n - 1, i <= j PROVE d[p[i]] <= d[p[j]]
  <2>1. CASE j < k
    BY <1>1, <1>3, <1>5, <2>1
  <2>2. CASE i < k /\ j >= k
    <3>1. i \in 1 .. n /\ p[i] = q[i] /\ j + 1 \in 1 .. n /\ p[j] = q[j + 1] /\ i <= j + 1
      BY <1>3, <2>2
    <3> QED BY <1>1, <3>1
  <2>3. CASE i >= k /\ j >= k
    <3>1. i + 1 \in 1 .. n /\ p[i] = q[i + 1] /\ j + 1 \in 1 .. n /\ p[j] = q[j + 1] /\ i + 1 <= j + 1
      BY <1>3, <1>5, <2>3
    <3> QED BY <1>1, <3>1
  <2> QED BY <1>5, <2>1, <2>2, <2>3
<1>6. Timed(n - 1, p, g, d, c)
  BY <1>4, <1>5 DEF Timed
<1> QED BY <1>2, <1>6

-----------------------------------------------------------------------------
(* A list is cut behind position c. *)
Front(q, c) == [j \in 1 .. c |-> q[j]]
Rest(n, q, c) == [j \in 1 .. n - c |-> q[c + j]]

(* The links that the cut changes from f to g. *)
CutLinks(n, q, c, f, g) ==
  \A j \in 1 .. n : /\ g[q[j]] \in Node
                    /\ g[q[j]].pNext = IF j = c THEN NULL ELSE f[q[j]].pNext
                    /\ g[q[j]].pPrev = IF j = c + 1 THEN NULL ELSE f[q[j]].pPrev

(* Both parts are lists. *)
LEMMA CutList ==
  ASSUME NEW n, NEW q, NEW h, NEW f, IsList(n, q, h, f), NEW c \in 1 .. n, NEW g,
         CutLinks(n, q, c, f, g), NEW u, u = IF c = n THEN NULL ELSE q[c + 1]
  PROVE  /\ IsList(c, Front(q, c), h, g)
         /\ IsList(n - c, Rest(n, q, c), u, g)
         /\ \A j \in 1 .. c : j \in 1 .. n /\ Front(q, c)[j] = q[j]
         /\ \A j \in 1 .. n - c : c + j \in 1 .. n /\ Rest(n, q, c)[j] = q[c + j]
<1> USE DEF CutLinks
<1>1. /\ n \in Nat /\ q \in [1 .. n -> Timers] /\ \A i, j \in 1 .. n : q[i] = q[j] => i = j
      /\ h = IF n = 0 THEN NULL ELSE q[1]
      /\ \A j \in 1 .. n : /\ f[q[j]].pNext = IF j = n THEN NULL ELSE q[j + 1]
                           /\ f[q[j]].pPrev = IF j = 1 THEN NULL ELSE q[j - 1]
  BY DEF IsList
<1>2. PICK a, b : a = Front(q, c) /\ b = Rest(n, q, c)
  OBVIOUS
<1>3. /\ a \in [1 .. c -> Timers] /\ \A j \in 1 .. c : j \in 1 .. n /\ a[j] = q[j]
      /\ c \in Nat /\ c # 0 /\ c \in 1 .. c
  BY <1>1, <1>2 DEF Front
<1>4. /\ b \in [1 .. n - c -> Timers] /\ \A j \in 1 .. n - c : c + j \in 1 .. n /\ b[j] = q[c + j]
      /\ n - c \in Nat
  BY <1>1, <1>2 DEF Rest
<1>5. IsList(c, a, h, g)
  <2>1. \A i, j \in 1 .. c : a[i] = a[j] => i = j
    BY <1>1, <1>3
  <2>2. h = IF c = 0 THEN NULL ELSE a[1]
    BY <1>1, <1>3
  <2>3. ASSUME NEW j \in 1 .. c
        PROVE  /\ g[a[j]] \in Node
               /\ g[a[j]].pNext = IF j = c THEN NULL ELSE a[j + 1]
               /\ g[a[j]].pPrev = IF j = 1 THEN NULL ELSE a[j - 1]
    <3>1. a[j] = q[j] /\ j \in 1 .. n /\ j # c + 1
      BY <1>1, <1>3
    <3>2. j # c => j # n /\ j + 1 \in 1 .. c /\ a[j + 1] = q[j + 1]
      BY <1>1, <1>3
    <3>3. j # 1 => j - 1 \in 1 .. c /\ a[j - 1] = q[j - 1]
      BY <1>1, <1>3
    <3> QED BY <1>1, <3>1, <3>2, <3>3
  <2> QED BY <1>3, <2>1, <2>2, <2>3 DEF IsList
<1>6. IsList(n - c, b, u, g)
  <2>1. ASSUME NEW i \in 1 .. n - c, NEW j \in 1 .. n - c, b[i] = b[j] PROVE i = j
    <3>1. c + i = c + j
      BY <1>1, <1>4, <2>1
    <3> QED BY <1>1, <1>3, <3>1
  <2>2. u = IF n - c = 0 THEN NULL ELSE b[1]
    <3>1. c = n <=> n - c = 0
      BY <1>1, <1>3
    <3>2. c # n => 1 \in 1 .. n - c
      BY <1>1, <1>3
    <3> QED BY <1>4, <3>1, <3>2
  <2>3. ASSUME NEW j \in 1 .. n - c
        PROVE  /\ g[b[j]] \in Node
               /\ g[b[j]].pNext = IF j = n - c THEN NULL ELSE b[j + 1]
               /\ g[b[j]].pPrev = IF j = 1 THEN NULL ELSE b[j - 1]
    <3>1. PICK i : i = c + j
      OBVIOUS
    <3>2. i \in 1 .. n /\ b[j] = q[i] /\ i # c /\ i \in Int /\ (j = 1 <=> i = c + 1) /\ (j = n - c <=> i = n) /\ i # 1
      BY <1>1, <1>3, <1>4, <3>1
    <3>3. j # n - c => j + 1 \in 1 .. n - c /\ c + (j + 1) = i + 1
      BY <1>1, <1>3, <3>1
    <3>4. j # n - c => b[j + 1] = q[i + 1]
      BY <1>4, <3>3
    <3>5. j # 1 => j - 1 \in 1 .. n - c /\ c + (j - 1) = i - 1
      BY <1>1, <1>3, <3>1
    <3>6. j # 1 => b[j - 1] = q[i - 1]
      BY <1>4, <3>5
    <3> QED BY <1>1, <3>2, <3>4, <3>6
  <2> QED BY <1>4, <2>1, <2>2, <2>3 DEF IsList
<1> QED BY <1>2, <1>3, <1>4, <1>5, <1>6

-----------------------------------------------------------------------------
(* Where Inserted puts timer t, and what becomes of the nodes. *)
Placed(n, q, k, t, r, g) ==
  /\ g \in [Timers -> Node \cup {FreeNode}]
  /\ g[t] \in Node
  /\ g[t].pNext = IF k = n + 1 THEN NULL ELSE q[k]
  /\ g[t].pPrev = IF k = 1 THEN NULL ELSE q[k - 1]
  /\ g[t].iTickGap = now + r.iTick - (IF k = 1 THEN now ELSE due[q[k - 1]])
  /\ g[t].iLoop = r.iLoop /\ g[t].iDelete = r.iDelete
  /\ \A j \in 1 .. n : /\ g[q[j]] \in Node
                       /\ g[q[j]].pNext = IF j = k - 1 THEN t ELSE node[q[j]].pNext
                       /\ g[q[j]].pPrev = IF j = k THEN t ELSE node[q[j]].pPrev
                       /\ g[q[j]].iTickGap = IF j = k THEN due[q[j]] - (now + r.iTick) ELSE node[q[j]].iTickGap
                       /\ g[q[j]].iLoop = node[q[j]].iLoop /\ g[q[j]].iDelete = node[q[j]].iDelete
                       /\ j < k => due[q[j]] <= now + r.iTick
                       /\ j >= k => now + r.iTick <= due[q[j]]
  /\ \A x \in Timers : x # t /\ (\A j \in 1 .. n : q[j] # x) => g[x] = node[x]

(* Inserted puts t before the first timer that is due at the same tick or later. *)
LEMMA InsertedPlaced ==
  ASSUME TimerTypeOK, NEW n, NEW q, IsList(n, q, pTHead, node), Timed(n, q, node, due, now),
         NEW t \in Timers, \A j \in 1 .. n : q[j] # t, NEW r \in Node
  PROVE  \E k \in 1 .. n + 1 : Placed(n, q, k, t, r, Inserted(t, r))
<1>1. /\ n \in Nat /\ q \in [1 .. n -> Timers] /\ \A i, j \in 1 .. n : q[i] = q[j] => i = j
      /\ pTHead = IF n = 0 THEN NULL ELSE q[1]
      /\ \A j \in 1 .. n : /\ node[q[j]] \in Node
                           /\ node[q[j]].pNext = IF j = n THEN NULL ELSE q[j + 1]
                           /\ node[q[j]].pPrev = IF j = 1 THEN NULL ELSE q[j - 1]
  BY DEF IsList
<1>2. /\ \A j \in 1 .. n : /\ node[q[j]].iTickGap = due[q[j]] - (IF j = 1 THEN now ELSE due[q[j - 1]])
                           /\ due[q[j]] > now
      /\ \A i, j \in 1 .. n : i <= j => due[q[i]] <= due[q[j]]
  BY DEF Timed
<1>3. /\ node \in [Timers -> Node \cup {FreeNode}] /\ now \in Int
      /\ \A j \in 1 .. n : due[q[j]] \in Int
      /\ NULL \notin Timers
  BY <1>1, TimerAssumption DEF TimerTypeOK
<1>4. MainList = q /\ Len(MainList) = n /\ DOMAIN MainList = 1 .. n
  BY ListIs DEF MainList
<1>5. \A j \in 1 .. n : Reach(q, j) = due[q[j]] - now
  BY ReachIs
<1>6. PICK i : i = r.iTick /\ i \in Int
  BY TimerAssumption DEF Node
<1> DEFINE late == {j \in 1 .. n : due[q[j]] - now >= i}
<1>7. late = {j \in DOMAIN MainList : Reach(MainList, j) >= r.iTick}
  BY <1>4, <1>5, <1>6
<1>8. CASE late # {}
  <2> DEFINE L == {j \in DOMAIN MainList : Reach(MainList, j) >= r.iTick}
             k == CHOOSE j \in L : \A l \in L : j <= l
  <2>1. k \in late /\ \A l \in late : k <= l
    <3>1. L = late /\ L \in SUBSET Nat
      BY <1>1, <1>7
    <3>2. \E j \in L : \A l \in L : j <= l
      BY <1>8, <3>1, LeastNumber
    <3> HIDE DEF L
    <3> QED BY <3>1, <3>2
  <2> HIDE DEF k
  <2>2. k \in 1 .. n /\ due[q[k]] - now >= i /\ \A j \in 1 .. n : j < k => ~(due[q[j]] - now >= i)
    BY <1>1, <2>1
  <2> DEFINE x == q[k]
             p == node[x].pPrev
             R == [r EXCEPT !.pNext = x, !.pPrev = p,
                            !.iTickGap = r.iTick + node[x].iTickGap - Reach(q, k)]
             g == [node EXCEPT ![t] = R, ![x].pPrev = t, ![x].iTickGap = Reach(q, k) - r.iTick]
             G == IF p = NULL THEN g ELSE [g EXCEPT ![p].pNext = t]
  <2>3. Inserted(t, r) = G
    <3> DEFINE m  == MainList
               mx == m[k]
               mp == node[mx].pPrev
               mR == [r EXCEPT !.pNext = mx, !.pPrev = mp,
                               !.iTickGap = r.iTick + node[mx].iTickGap - Reach(m, k)]
               mg == [node EXCEPT ![t] = mR, ![mx].pPrev = t, ![mx].iTickGap = Reach(m, k) - r.iTick]
               mG == IF mp = NULL THEN mg ELSE [mg EXCEPT ![mp].pNext = t]
    <3>1. L # {}
      BY <1>7, <1>8
    <3>2. Inserted(t, r) = mG
      <4> HIDE DEF late
      <4> QED BY <3>1, Zenon DEF Inserted, k
    <3>3. m = q
      BY <1>4
    <3> HIDE DEF m
    <3> QED BY <3>2, <3>3
  <2>4. x \in Timers /\ x # t /\ node[x] \in Node /\ p = (IF k = 1 THEN NULL ELSE q[k - 1])
        /\ (k # 1 => k - 1 \in 1 .. n) /\ p \in Timers \cup {NULL}
    BY <1>1, <2>2
  <2>5. /\ R \in Node /\ R.pNext = x /\ R.pPrev = p /\ R.iLoop = r.iLoop /\ R.iDelete = r.iDelete
        /\ R.iTickGap = i + (due[x] - (IF k = 1 THEN now ELSE due[q[k - 1]])) - (due[x] - now)
    <3>1. node[x].iTickGap = due[x] - (IF k = 1 THEN now ELSE due[q[k - 1]]) /\ Reach(q, k) = due[x] - now
      BY <1>2, <1>5, <2>2
    <3>2. node[x].iTickGap \in Int /\ Reach(q, k) \in Int
      BY <1>3, <2>2, <2>4, <3>1 DEF Node
    <3>3. PICK v : v = r.iTick + node[x].iTickGap - Reach(q, k)
      OBVIOUS
    <3>4. v \in Int /\ v = i + (due[x] - (IF k = 1 THEN now ELSE due[q[k - 1]])) - (due[x] - now)
      BY <1>6, <3>1, <3>2, <3>3
    <3>5. R = [r EXCEPT !.pNext = x, !.pPrev = p, !.iTickGap = v]
      BY <3>3
    <3>6. R.iTickGap = v /\ R \in Node /\ R.pNext = x /\ R.pPrev = p /\ R.iLoop = r.iLoop /\ R.iDelete = r.iDelete
      <4> HIDE DEF p, x, R
      <4> QED BY <2>4, <3>4, <3>5 DEF Node
    <3> QED BY <3>4, <3>6
  <2> HIDE DEF R
  <2> DEFINE X == [node[x] EXCEPT !.pPrev = t, !.iTickGap = Reach(q, k) - r.iTick]
  <2>6. /\ X \in Node /\ X.pNext = node[x].pNext /\ X.pPrev = t /\ X.iLoop = node[x].iLoop
        /\ X.iDelete = node[x].iDelete /\ X.iTickGap = due[x] - (now + i)
    <3>1. Reach(q, k) = due[x] - now /\ due[x] \in Int
      BY <1>3, <1>5, <2>2
    <3>2. Reach(q, k) - r.iTick = due[x] - (now + i) /\ due[x] - (now + i) \in Int
      BY <1>3, <1>6, <3>1
    <3> HIDE DEF x
    <3> QED BY <2>4, <3>2 DEF Node
  <2>7. /\ g \in [Timers -> Node \cup {FreeNode}] /\ g[t] = R /\ g[x] = X
        /\ \A y \in Timers : y # t /\ y # x => g[y] = node[y]
    <3>1. g = [node EXCEPT ![t] = R, ![x] = X]
      BY <1>3, <2>4
    <3> HIDE DEF g, X, x, p
    <3> QED BY <1>3, <2>4, <2>5, <2>6, <3>1
  <2> HIDE DEF X, g
  <2>8. /\ G \in [Timers -> Node \cup {FreeNode}] /\ G[t] = R /\ G[x] = X
        /\ \A y \in Timers : y # t /\ y # x /\ y # p => G[y] = node[y]
        /\ k # 1 => /\ G[p] \in Node /\ G[p].pNext = t /\ G[p].pPrev = node[p].pPrev
                    /\ G[p].iTickGap = node[p].iTickGap /\ G[p].iLoop = node[p].iLoop
                    /\ G[p].iDelete = node[p].iDelete
    <3>1. CASE k = 1
      <4>1. p = NULL
        BY <2>4, <3>1
      <4> HIDE DEF p, x
      <4> QED BY <2>7, <3>1, <4>1
    <3>2. CASE k # 1
      <4>1. p = q[k - 1] /\ p \in Timers /\ p # NULL /\ p # t /\ p # x /\ node[p] \in Node
        <5>1. k - 1 \in 1 .. n /\ k - 1 # k
          BY <2>2, <2>4, <3>2
        <5> QED BY <1>1, <1>3, <2>2, <2>4, <3>2, <5>1
      <4> HIDE DEF p, x
      <4>2. PICK v : v = node[p]
        OBVIOUS
      <4>3. g[p] = v /\ v \in Node
        BY <2>7, <4>1, <4>2
      <4> DEFINE P == [v EXCEPT !.pNext = t]
      <4>4. /\ P \in Node /\ P.pNext = t /\ P.pPrev = v.pPrev /\ P.iTickGap = v.iTickGap
            /\ P.iLoop = v.iLoop /\ P.iDelete = v.iDelete
        BY <4>3 DEF Node
      <4>5. G = [g EXCEPT ![p] = P]
        BY <2>7, <4>1, <4>3
      <4> HIDE DEF P, G
      <4> QED BY <2>4, <2>7, <4>1, <4>2, <4>4, <4>5
    <3> QED BY <3>1, <3>2
  <2> HIDE DEF G
  <2>9. k \in 1 .. n + 1 /\ k # n + 1
    BY <1>1, <2>2
  <2>10. ASSUME NEW j \in 1 .. n
         PROVE  /\ G[q[j]] \in Node
                /\ G[q[j]].pNext = IF j = k - 1 THEN t ELSE node[q[j]].pNext
                /\ G[q[j]].pPrev = IF j = k THEN t ELSE node[q[j]].pPrev
                /\ G[q[j]].iTickGap = IF j = k THEN due[q[j]] - (now + i) ELSE node[q[j]].iTickGap
                /\ G[q[j]].iLoop = node[q[j]].iLoop /\ G[q[j]].iDelete = node[q[j]].iDelete
    <3>1. CASE j = k
      <4>1. j # k - 1 /\ q[j] = x
        BY <1>1, <2>2, <3>1
      <4> HIDE DEF x
      <4> QED BY <2>6, <2>8, <3>1, <4>1
    <3>2. CASE j = k - 1
      <4>1. j # k /\ k # 1 /\ q[j] = p
        BY <1>1, <2>2, <2>4, <3>2
      <4> HIDE DEF x, p
      <4> QED BY <2>8, <3>2, <4>1
    <3>3. CASE j # k /\ j # k - 1
      <4>1. q[j] \in Timers /\ q[j] # t /\ q[j] # x /\ node[q[j]] \in Node
        BY <1>1, <2>2, <3>3
      <4>2. q[j] # p
        BY <1>1, <1>3, <2>4, <3>3, <4>1
      <4> HIDE DEF x, p
      <4> QED BY <2>8, <3>3, <4>1, <4>2
    <3> QED BY <3>1, <3>2, <3>3
  <2>11. \A j \in 1 .. n : /\ j < k => due[q[j]] <= now + i
                           /\ j >= k => now + i <= due[q[j]]
    <3>1. ASSUME NEW j \in 1 .. n, j < k PROVE due[q[j]] <= now + i
      <4>1. ~(due[q[j]] - now >= i) /\ due[q[j]] \in Int
        BY <1>3, <2>2, <3>1
      <4> QED BY <1>3, <1>6, <4>1
    <3>2. ASSUME NEW j \in 1 .. n, j >= k PROVE now + i <= due[q[j]]
      <4>1. due[q[k]] <= due[q[j]] /\ due[q[j]] \in Int /\ due[q[k]] \in Int /\ due[q[k]] - now >= i
        BY <1>2, <1>3, <2>2, <3>2
      <4> QED BY <1>3, <1>6, <4>1
    <3> QED BY <3>1, <3>2
  <2>12. G[t] \in Node /\ G[t].pNext = q[k] /\ G[t].pPrev = (IF k = 1 THEN NULL ELSE q[k - 1])
         /\ G[t].iTickGap = now + i - (IF k = 1 THEN now ELSE due[q[k - 1]])
         /\ G[t].iLoop = r.iLoop /\ G[t].iDelete = r.iDelete
    <3>1. due[x] \in Int /\ (k # 1 => due[q[k - 1]] \in Int)
      BY <1>3, <2>2, <2>4
    <3>2. i + (due[x] - (IF k = 1 THEN now ELSE due[q[k - 1]])) - (due[x] - now)
          = now + i - (IF k = 1 THEN now ELSE due[q[k - 1]])
      <4> HIDE DEF x
      <4> QED BY <1>3, <1>6, <3>1
    <3> QED BY <2>4, <2>5, <2>8, <3>2
  <2>13. \A y \in Timers : y # t /\ (\A j \in 1 .. n : q[j] # y) => G[y] = node[y]
    <3>1. \A y \in Timers : (\A j \in 1 .. n : q[j] # y) => y # x /\ y # p
      BY <1>3, <2>2, <2>4
    <3> HIDE DEF x, p
    <3> QED BY <2>8, <3>1
  <2>14. Placed(n, q, k, t, r, G)
    <3>1. G \in [Timers -> Node \cup {FreeNode}]
      BY <2>8
    <3> QED BY <1>6, <2>9, <2>10, <2>11, <2>12, <2>13, <3>1 DEF Placed
  <2> QED BY <2>3, <2>9, <2>14
<1>9. CASE late = {} /\ n = 0
  <2> DEFINE R == [r EXCEPT !.pNext = NULL, !.pPrev = NULL, !.iTickGap = r.iTick]
             G == [node EXCEPT ![t] = R]
  <2>1. Inserted(t, r) = G
    <3>1. MainList = <<>>
      BY <1>1, <1>4, <1>9
    <3> HIDE DEF late
    <3> QED BY <1>7, <1>9, <3>1 DEF Inserted
  <2>2. R \in Node /\ R.pNext = NULL /\ R.pPrev = NULL /\ R.iTickGap = i /\ R.iLoop = r.iLoop /\ R.iDelete = r.iDelete
    BY <1>6 DEF Node
  <2> HIDE DEF R
  <2>3. G \in [Timers -> Node \cup {FreeNode}] /\ G[t] = R /\ \A y \in Timers : y # t => G[y] = node[y]
    BY <1>3, <2>2
  <2> HIDE DEF G
  <2>4. 1 \in 1 .. n + 1 /\ 1 = n + 1 /\ 1 .. n = {} /\ i = now + i - now
    BY <1>3, <1>6, <1>9
  <2>5. Placed(n, q, 1, t, r, G)
    BY <1>6, <2>2, <2>3, <2>4 DEF Placed
  <2> QED BY <2>1, <2>4, <2>5
<1>10. CASE late = {} /\ n # 0
  <2> DEFINE l == q[n]
             R == [r EXCEPT !.pNext = NULL, !.pPrev = l, !.iTickGap = r.iTick - Reach(q, n)]
             G == [node EXCEPT ![t] = R, ![l].pNext = t]
  <2>1. Inserted(t, r) = G
    <3>1. MainList # <<>>
      BY <1>1, <1>4, <1>10
    <3> HIDE DEF late
    <3> QED BY <1>4, <1>7, <1>10, <3>1 DEF Inserted
  <2>2. n \in 1 .. n /\ n + 1 \in 1 .. n + 1 /\ n + 1 # 1 /\ n + 1 - 1 = n
    BY <1>1, <1>10
  <2>3. l \in Timers /\ l # t /\ node[l] \in Node /\ due[l] \in Int /\ Reach(q, n) = due[l] - now
    BY <1>1, <1>3, <1>5, <2>2
  <2>4. /\ R \in Node /\ R.pNext = NULL /\ R.pPrev = l /\ R.iTickGap = now + i - due[l]
        /\ R.iLoop = r.iLoop /\ R.iDelete = r.iDelete
    <3>1. r.iTick - Reach(q, n) = now + i - due[l] /\ now + i - due[l] \in Int
      <4> HIDE DEF l
      <4> QED BY <1>3, <1>6, <2>3
    <3> HIDE DEF l
    <3> QED BY <2>3, <3>1 DEF Node
  <2> HIDE DEF R
  <2> DEFINE P == [node[l] EXCEPT !.pNext = t]
  <2>5. /\ P \in Node /\ P.pNext = t /\ P.pPrev = node[l].pPrev /\ P.iTickGap = node[l].iTickGap
        /\ P.iLoop = node[l].iLoop /\ P.iDelete = node[l].iDelete
    <3> HIDE DEF l
    <3> QED BY <2>3 DEF Node
  <2>6. G = [node EXCEPT ![t] = R, ![l] = P]
    BY <1>3, <2>3
  <2> HIDE DEF P, G
  <2>7. /\ G \in [Timers -> Node \cup {FreeNode}] /\ G[t] = R /\ G[l] = P
        /\ \A y \in Timers : y # t /\ y # l => G[y] = node[y]
    <3> HIDE DEF l
    <3> QED BY <1>3, <2>3, <2>4, <2>5, <2>6
  <2>8. ASSUME NEW j \in 1 .. n
        PROVE  /\ G[q[j]] \in Node /\ j # n + 1 /\ j < n + 1
               /\ G[q[j]].pNext = IF j = n + 1 - 1 THEN t ELSE node[q[j]].pNext
               /\ G[q[j]].pPrev = node[q[j]].pPrev
               /\ G[q[j]].iTickGap = node[q[j]].iTickGap
               /\ G[q[j]].iLoop = node[q[j]].iLoop /\ G[q[j]].iDelete = node[q[j]].iDelete
               /\ due[q[j]] <= now + i
    <3>1. j # n + 1 /\ j < n + 1 /\ due[q[j]] <= now + i
      <4>1. ~(due[q[j]] - now >= i) /\ due[q[j]] \in Int
        BY <1>3, <1>10
      <4> QED BY <1>1, <1>3, <1>6, <4>1
    <3>2. CASE j = n
      <4>1. q[j] = l
        BY <3>2
      <4> HIDE DEF l
      <4> QED BY <2>2, <2>5, <2>7, <3>1, <3>2, <4>1
    <3>3. CASE j # n
      <4>1. q[j] \in Timers /\ q[j] # t /\ q[j] # l /\ node[q[j]] \in Node
        BY <1>1, <2>2, <3>3
      <4> HIDE DEF l
      <4> QED BY <2>2, <2>7, <3>1, <3>3, <4>1
    <3> QED BY <3>2, <3>3
  <2>9. \A y \in Timers : y # t /\ (\A j \in 1 .. n : q[j] # y) => G[y] = node[y]
    BY <2>2, <2>7
  <2>10. \A j \in 1 .. n : ~(j >= n + 1)
    BY <1>1
  <2>11. Placed(n, q, n + 1, t, r, G)
    <3>0. PICK k : k = n + 1
      OBVIOUS
    <3>1. k # 1 /\ q[k - 1] = l
      BY <2>2, <3>0
    <3>2. G[t] \in Node /\ G[t].pNext = NULL /\ G[t].pPrev = l /\ G[t].iTickGap = now + i - due[l]
          /\ G[t].iLoop = r.iLoop /\ G[t].iDelete = r.iDelete /\ G \in [Timers -> Node \cup {FreeNode}]
      BY <2>4, <2>7
    <3>3. G[t].pPrev = (IF k = 1 THEN NULL ELSE q[k - 1])
          /\ G[t].iTickGap = now + r.iTick - (IF k = 1 THEN now ELSE due[q[k - 1]])
      BY <1>6, <3>1, <3>2
    <3>4. ASSUME NEW j \in 1 .. n
          PROVE
              /\ G[q[j]] \in Node
              /\ G[q[j]].pNext = IF j = k - 1 THEN t ELSE node[q[j]].pNext
              /\ G[q[j]].pPrev = IF j = k THEN t ELSE node[q[j]].pPrev
              /\ G[q[j]].iTickGap = IF j = k THEN due[q[j]] - (now + r.iTick) ELSE node[q[j]].iTickGap
              /\ G[q[j]].iLoop = node[q[j]].iLoop /\ G[q[j]].iDelete = node[q[j]].iDelete
              /\ j < k => due[q[j]] <= now + r.iTick
              /\ j >= k => now + r.iTick <= due[q[j]]
      <4>1. j # k /\ ~(j >= k)
        BY <2>8, <2>10, <3>0
      <4>2. (j = k - 1) <=> (j = n + 1 - 1)
        BY <1>1, <3>0
      <4> QED BY <1>6, <2>8, <4>1, <4>2
    <3> HIDE DEF l
    <3>5. G[t].pNext = IF k = n + 1 THEN NULL ELSE q[k]
      BY <3>0, <3>2
    <3>6. Placed(n, q, k, t, r, G)
      BY <2>9, <3>2, <3>3, <3>4, <3>5 DEF Placed
    <3> QED BY <3>0, <3>6
  <2> QED BY <2>1, <2>2, <2>11
<1> QED BY <1>8, <1>9, <1>10

-----------------------------------------------------------------------------
(* What each timer is: in the list, in the temporary list, the one whose callback runs, or free.
   Only the first three are allocated, and the armed ones are those that will fire again. *)
Roles(n, q, m, r) ==
  \A t \in Timers :
    /\ ~(In(n, q, t) /\ In(m, r, t))
    /\ t = pTimer => ~In(n, q, t) /\ ~In(m, r, t)
    /\ node[t] \in Node <=> In(n, q, t) \/ In(m, r, t) \/ t = pTimer
    /\ In(n, q, t) \/ In(m, r, t) => ~node[t].iDelete
    /\ In(m, r, t) => due[t] = now
    /\ t \in armed <=> In(n, q, t) \/ In(m, r, t) \/ (t = pTimer /\ GoesBack(t))

Lists(n, q, m, r) ==
  /\ IsList(n, q, pTHead, node) /\ iCount = n
  /\ IsList(m, r, tHead, node) /\ tCount = m
  /\ Timed(n, q, node, due, now)
  /\ Roles(n, q, m, r)

(* The inductive invariant. *)
TimerInv ==
  /\ TimerTypeOK
  /\ pTimer # NULL => due[pTimer] = now /\ ticking
  /\ ~ticking => tHead = NULL
  /\ \E n, q, m, r : Lists(n, q, m, r)

(* Only addresses are in a list. *)
LEMMA InTimers ==
  ASSUME NEW n, NEW q, NEW h, NEW f, IsList(n, q, h, f), NEW t, In(n, q, t)
  PROVE  t \in Timers /\ f[t] \in Node
BY DEF IsList, In

(* A list is not disturbed by a change of other nodes. *)
LEMMA SameList ==
  ASSUME NEW n, NEW q, NEW h, NEW f, IsList(n, q, h, f), NEW g,
         \A t \in Timers : In(n, q, t) => g[t] = f[t]
  PROVE  IsList(n, q, h, g)
<1>1. \A j \in 1 .. n : q[j] \in Timers /\ In(n, q, q[j])
  BY DEF IsList, In
<1>2. \A j \in 1 .. n : g[q[j]] = f[q[j]]
  BY <1>1
<1> QED BY <1>2 DEF IsList

(* Neither are its gaps. *)
LEMMA SameTimed ==
  ASSUME NEW n, NEW q, NEW h, NEW f, IsList(n, q, h, f), NEW d, NEW c, Timed(n, q, f, d, c), NEW g, NEW e,
         \A t \in Timers : In(n, q, t) => g[t] = f[t] /\ e[t] = d[t]
  PROVE  Timed(n, q, g, e, c)
<1>1. n \in Nat /\ \A j \in 1 .. n : q[j] \in Timers /\ In(n, q, q[j])
  BY DEF IsList, In
<1>2. \A j \in 1 .. n : g[q[j]] = f[q[j]] /\ e[q[j]] = d[q[j]]
  BY <1>1
<1>3. \A j \in 1 .. n : j # 1 => e[q[j - 1]] = d[q[j - 1]]
  <2>1. \A j \in 1 .. n : j # 1 => j - 1 \in 1 .. n
    BY <1>1
  <2> QED BY <1>2, <2>1
<1> QED BY <1>2, <1>3 DEF Timed

(* high_pre_timer_subadd of timer t, which is in no list. *)
LEMMA SubAddKeeps ==
  ASSUME TimerTypeOK, NEW n, NEW q, NEW m, NEW r,
         IsList(n, q, pTHead, node), IsList(m, r, tHead, node), iCount = n,
         \A x \in Timers : ~(In(n, q, x) /\ In(m, r, x)),
         Timed(n, q, node, due, now),
         NEW t \in Timers, ~In(n, q, t), ~In(m, r, t), NEW v \in Node, SubAdd(t, v)
  PROVE  \E p : /\ IsList(n + 1, p, pTHead', node') /\ iCount' = n + 1
                /\ IsList(m, r, tHead, node')
                /\ Timed(n + 1, p, node', due', now)
                /\ \A x : In(n + 1, p, x) <=> x = t \/ In(n, q, x)
                /\ node' \in [Timers -> Node \cup {FreeNode}] /\ due' \in [Timers -> Int]
                /\ node'[t] \in Node /\ node'[t].iDelete = v.iDelete
                /\ \A x \in Timers : In(n, q, x) => node'[x] \in Node /\ node'[x].iDelete = node[x].iDelete
                /\ \A x \in Timers : x # t => due'[x] = due[x]
                /\ \A x \in Timers : x # t /\ ~In(n, q, x) => node'[x] = node[x]
<1>1. \A j \in 1 .. n : q[j] # t
  BY DEF In
<1>2. PICK k \in 1 .. n + 1 : Placed(n, q, k, t, v, Inserted(t, v))
  BY <1>1, InsertedPlaced
<1>3. PICK g : g = Inserted(t, v)
  OBVIOUS
<1>4. PICK d : d = [due EXCEPT ![t] = now + v.iTick]
  OBVIOUS
<1>5. node' = g /\ due' = d /\ pTHead' = (IF g[t].pPrev = NULL THEN t ELSE pTHead) /\ iCount' = n + 1
  BY <1>3, <1>4 DEF SubAdd
<1>6. Placed(n, q, k, t, v, g)
  BY <1>2, <1>3
<1>7. n \in Nat /\ q \in [1 .. n -> Timers] /\ now \in Int /\ due \in [Timers -> Int] /\ NULL \notin Timers
      /\ v.iTick \in Int /\ v.iTick > 0
  BY TimerAssumption DEF IsList, TimerTypeOK, Node
<1>8. d \in [Timers -> Int] /\ d[t] = now + v.iTick /\ (\A x \in Timers : x # t => d[x] = due[x])
      /\ d[t] \in Int /\ d[t] > now
  BY <1>4, <1>7
<1>9. \A j \in 1 .. n : q[j] \in Timers /\ d[q[j]] = due[q[j]] /\ d[q[j]] \in Int
  BY <1>1, <1>7, <1>8
<1>10. (IF g[t].pPrev = NULL THEN t ELSE pTHead) = (IF k = 1 THEN t ELSE pTHead)
  <2>1. g[t].pPrev = IF k = 1 THEN NULL ELSE q[k - 1]
    BY <1>6 DEF Placed
  <2>2. k # 1 => k - 1 \in 1 .. n
    BY <1>7
  <2>3. k # 1 => q[k - 1] # NULL
    BY <1>7, <2>2
  <2> QED BY <2>1, <2>3
<1>11. PICK p : p = Ins(n, q, k, t)
  OBVIOUS
<1>12. /\ IsList(n + 1, p, pTHead', g)
       /\ \A x : In(n + 1, p, x) <=> x = t \/ In(n, q, x)
  <2>1. InsLinks(n, q, k, t, node, g)
    BY <1>6 DEF Placed, InsLinks
  <2>2. PICK u : u = pTHead'
    OBVIOUS
  <2>3. u = IF k = 1 THEN t ELSE pTHead
    BY <1>5, <1>10, <2>2
  <2> QED BY <1>1, <1>11, <2>1, <2>2, <2>3, InsList
<1>13. Timed(n + 1, p, g, d, now)
  <2>1. g[t].iTickGap = d[t] - (IF k = 1 THEN now ELSE d[q[k - 1]])
    <3>1. g[t].iTickGap = now + v.iTick - (IF k = 1 THEN now ELSE due[q[k - 1]])
      BY <1>6 DEF Placed
    <3>2. k # 1 => k - 1 \in 1 .. n
      BY <1>7
    <3>3. k # 1 => d[q[k - 1]] = due[q[k - 1]]
      BY <1>9, <3>2
    <3>4. PICK a, w : a = d[t] /\ w = v.iTick
      OBVIOUS
    <3>5. a \in Int /\ w \in Int /\ a = now + w
      BY <1>7, <1>8, <3>4
    <3>6. CASE k = 1
      BY <1>7, <3>1, <3>4, <3>5, <3>6
    <3>7. CASE k # 1
      BY <1>7, <1>9, <3>1, <3>2, <3>3, <3>4, <3>5, <3>7
    <3> QED BY <3>6, <3>7
  <2>2. \A j \in 1 .. n : /\ g[q[j]].iTickGap = IF j = k THEN due[q[j]] - (now + v.iTick) ELSE node[q[j]].iTickGap
                          /\ j < k => due[q[j]] <= now + v.iTick
                          /\ j >= k => now + v.iTick <= due[q[j]]
    BY <1>6 DEF Placed
  <2>3. \A j \in 1 .. n : /\ g[q[j]].iTickGap = IF j = k THEN d[q[j]] - d[t] ELSE node[q[j]].iTickGap
                          /\ j < k => d[q[j]] <= d[t]
                          /\ j >= k => d[t] <= d[q[j]]
    BY <1>8, <1>9, <2>2
  <2>4. InsGaps(n, q, k, t, node, g, d, now)
    BY <2>1, <2>3 DEF InsGaps
  <2>5. n \in Nat /\ q \in [1 .. n -> Timers] /\ now \in Int /\ d[t] \in Int /\ d[t] > now
    BY <1>7, <1>8
  <2>6. \A j \in 1 .. n : d[q[j]] = due[q[j]] /\ d[q[j]] \in Int
    BY <1>9
  <2>7. Timed(n + 1, Ins(n, q, k, t), g, d, now)
    BY <2>4, <2>5, <2>6, InsTimed
  <2> QED BY <1>11, <2>7
<1>14. \A x \in Timers : x # t /\ ~In(n, q, x) => g[x] = node[x]
  BY <1>6 DEF Placed, In
<1>15. IsList(m, r, tHead, g)
  <2>1. \A x \in Timers : In(m, r, x) => g[x] = node[x]
    BY <1>14
  <2> QED BY <2>1, SameList
<1>16. /\ g \in [Timers -> Node \cup {FreeNode}] /\ g[t] \in Node /\ g[t].iDelete = v.iDelete
       /\ \A x \in Timers : In(n, q, x) => g[x] \in Node /\ g[x].iDelete = node[x].iDelete
  BY <1>6 DEF Placed, In
<1> QED BY <1>5, <1>8, <1>12, <1>13, <1>14, <1>15, <1>16

(* The invariant holds when the timers are initialized. *)
LEMMA InitTimer == Init => TimerInv
<1> SUFFICES ASSUME Init PROVE TimerInv
  OBVIOUS
<1>1. TimerTypeOK
  <2>1. node \in [Timers -> Node \cup {FreeNode}] /\ due \in [Timers -> Int]
    BY DEF Init
  <2> QED BY <2>1 DEF Init, TimerTypeOK
<1> DEFINE q == [j \in 1 .. 0 |-> NULL]
<1>2. q \in [1 .. 0 -> Timers] /\ 1 .. 0 = {}
  OBVIOUS
<1>3. \A t : ~In(0, q, t)
  BY <1>2 DEF In
<1> HIDE DEF q
<1>4. IsList(0, q, NULL, node) /\ Timed(0, q, node, due, now)
  BY <1>2 DEF IsList, Timed
<1>5. Roles(0, q, 0, q)
  <2>1. \A t \in Timers : t # pTimer /\ ~(node[t] \in Node) /\ t \notin armed
    BY TimerAssumption, NodeNotFree DEF Init
  <2> QED BY <1>3, <2>1 DEF Roles
<1>6. Lists(0, q, 0, q)
  BY <1>4, <1>5 DEF Lists, Init
<1> QED BY <1>1, <1>6 DEF TimerInv, Init

(* high_pre_timer_add. *)
LEMMA AddTimer ==
  ASSUME TimerInv, NEW t \in Timers, NEW ticks \in 1 .. MaxTick, NEW loop \in BOOLEAN, Add(t, ticks, loop)
  PROVE  TimerInv'
<1>1. PICK n, q, m, r : Lists(n, q, m, r)
  BY DEF TimerInv
<1>2. TimerTypeOK
  BY DEF TimerInv
<1> DEFINE v == [pNext |-> NULL, pPrev |-> NULL, iTick |-> ticks, iTickGap |-> 0,
                 iLoop |-> loop, iDelete |-> FALSE]
<1>3. v \in Node /\ ~v.iDelete
  BY DEF Node
<1>4. SubAdd(t, v) /\ armed' = armed \cup {t} /\ t \notin Allocated
      /\ tHead' = tHead /\ tCount' = tCount /\ pTimer' = pTimer /\ ticking' = ticking /\ now' = now /\ stray' = stray
  BY DEF Add
<1> HIDE DEF v
<1>5. /\ IsList(n, q, pTHead, node) /\ IsList(m, r, tHead, node) /\ iCount = n /\ tCount = m
      /\ Timed(n, q, node, due, now) /\ Roles(n, q, m, r)
  BY <1>1 DEF Lists
<1>6. node[t] = FreeNode /\ node[t] \notin Node
  BY <1>4, NodeNotFree DEF Allocated
<1>7. ~In(n, q, t) /\ ~In(m, r, t) /\ t # pTimer /\ \A x \in Timers : ~(In(n, q, x) /\ In(m, r, x))
  BY <1>5, <1>6 DEF Roles
<1>8. PICK p : /\ IsList(n + 1, p, pTHead', node') /\ iCount' = n + 1
               /\ IsList(m, r, tHead, node')
               /\ Timed(n + 1, p, node', due', now)
               /\ \A x : In(n + 1, p, x) <=> x = t \/ In(n, q, x)
               /\ node' \in [Timers -> Node \cup {FreeNode}] /\ due' \in [Timers -> Int]
               /\ node'[t] \in Node /\ node'[t].iDelete = v.iDelete
               /\ \A x \in Timers : In(n, q, x) => node'[x] \in Node /\ node'[x].iDelete = node[x].iDelete
               /\ \A x \in Timers : x # t => due'[x] = due[x]
               /\ \A x \in Timers : x # t /\ ~In(n, q, x) => node'[x] = node[x]
  BY <1>2, <1>3, <1>4, <1>5, <1>7, SubAddKeeps
<1>9. TimerTypeOK'
  BY <1>2, <1>4, <1>8 DEF TimerTypeOK
<1>10. Roles(n + 1, p, m, r)'
  <2> SUFFICES ASSUME NEW x \in Timers
               PROVE  /\ ~(In(n + 1, p, x) /\ In(m, r, x))
                      /\ x = pTimer' => ~In(n + 1, p, x) /\ ~In(m, r, x)
                      /\ node'[x] \in Node <=> In(n + 1, p, x) \/ In(m, r, x) \/ x = pTimer'
                      /\ In(n + 1, p, x) \/ In(m, r, x) => ~node'[x].iDelete
                      /\ In(m, r, x) => due'[x] = now'
                      /\ x \in armed' <=> In(n + 1, p, x) \/ In(m, r, x)
                                          \/ (x = pTimer' /\ node'[x].iLoop /\ ~node'[x].iDelete)
    BY DEF Roles, GoesBack, In
  <2>1. /\ ~(In(n, q, x) /\ In(m, r, x))
        /\ x = pTimer => ~In(n, q, x) /\ ~In(m, r, x)
        /\ node[x] \in Node <=> In(n, q, x) \/ In(m, r, x) \/ x = pTimer
        /\ In(n, q, x) \/ In(m, r, x) => ~node[x].iDelete
        /\ In(m, r, x) => due[x] = now
        /\ x \in armed <=> In(n, q, x) \/ In(m, r, x) \/ (x = pTimer /\ node[x].iLoop /\ ~node[x].iDelete)
    BY <1>5 DEF Roles, GoesBack
  <2>2. CASE x = t
    BY <1>3, <1>4, <1>7, <1>8, <2>2
  <2>3. CASE x # t
    BY <1>4, <1>8, <2>1, <2>3
  <2> QED BY <2>2, <2>3
<1>11. Lists(n + 1, p, m, r)'
  <2>1. IsList(n + 1, p, pTHead, node)' /\ IsList(m, r, tHead, node)' /\ Timed(n + 1, p, node, due, now)'
    BY <1>4, <1>8 DEF IsList, Timed
  <2> QED BY <1>4, <1>5, <1>8, <1>10, <2>1 DEF Lists
<1>12. (pTimer # NULL => due[pTimer] = now /\ ticking)' /\ (~ticking => tHead = NULL)'
  BY <1>2, <1>4, <1>7, <1>8 DEF TimerInv, TimerTypeOK
<1> QED BY <1>9, <1>11, <1>12 DEF TimerInv

(* The second half of high_pre_timer_timeout. *)
LEMMA FinishTimer ==
  ASSUME TimerInv, Finish
  PROVE  TimerInv'
<1>1. PICK n, q, m, r : Lists(n, q, m, r)
  BY DEF TimerInv
<1>2. TimerTypeOK /\ (~ticking => tHead = NULL)
  BY DEF TimerInv
<1>3. PICK t : t = pTimer
  OBVIOUS
<1>4. /\ t \in Timers /\ tHead' = tHead /\ tCount' = tCount /\ pTimer' = NULL /\ ticking' = ticking
      /\ now' = now /\ stray' = stray /\ armed' = armed
  BY <1>2, <1>3 DEF Finish, TimerTypeOK
<1>5. /\ IsList(n, q, pTHead, node) /\ IsList(m, r, tHead, node) /\ iCount = n /\ tCount = m
      /\ Timed(n, q, node, due, now) /\ Roles(n, q, m, r)
  BY <1>1 DEF Lists
<1>6. ~In(n, q, t) /\ ~In(m, r, t) /\ node[t] \in Node /\ (\A x \in Timers : ~(In(n, q, x) /\ In(m, r, x)))
      /\ (t \in armed <=> GoesBack(t))
  BY <1>3, <1>4, <1>5 DEF Roles
<1>7. \A x \in Timers : x # NULL
  BY TimerAssumption
<1>8. CASE GoesBack(t)
  <2>1. SubAdd(t, node[t])
    BY <1>3, <1>8 DEF Finish
  <2>2. PICK v : v = node[t]
    OBVIOUS
  <2>3. PICK p : /\ IsList(n + 1, p, pTHead', node') /\ iCount' = n + 1
                 /\ IsList(m, r, tHead, node')
                 /\ Timed(n + 1, p, node', due', now)
                 /\ \A x : In(n + 1, p, x) <=> x = t \/ In(n, q, x)
                 /\ node' \in [Timers -> Node \cup {FreeNode}] /\ due' \in [Timers -> Int]
                 /\ node'[t] \in Node /\ node'[t].iDelete = v.iDelete
                 /\ \A x \in Timers : In(n, q, x) => node'[x] \in Node /\ node'[x].iDelete = node[x].iDelete
                 /\ \A x \in Timers : x # t => due'[x] = due[x]
                 /\ \A x \in Timers : x # t /\ ~In(n, q, x) => node'[x] = node[x]
    BY <1>2, <1>4, <1>5, <1>6, <2>1, <2>2, SubAddKeeps
  <2>4. ~v.iDelete /\ t \in armed
    BY <1>6, <1>8, <2>2 DEF GoesBack
  <2>5. TimerTypeOK'
    BY <1>2, <1>4, <2>3 DEF TimerTypeOK
  <2>6. Roles(n + 1, p, m, r)'
    <3> SUFFICES ASSUME NEW x \in Timers
                 PROVE  /\ ~(In(n + 1, p, x) /\ In(m, r, x))
                        /\ x = pTimer' => ~In(n + 1, p, x) /\ ~In(m, r, x)
                        /\ node'[x] \in Node <=> In(n + 1, p, x) \/ In(m, r, x) \/ x = pTimer'
                        /\ In(n + 1, p, x) \/ In(m, r, x) => ~node'[x].iDelete
                        /\ In(m, r, x) => due'[x] = now'
                        /\ x \in armed' <=> In(n + 1, p, x) \/ In(m, r, x)
                                            \/ (x = pTimer' /\ node'[x].iLoop /\ ~node'[x].iDelete)
      BY DEF Roles, GoesBack, In
    <3>1. /\ ~(In(n, q, x) /\ In(m, r, x))
          /\ node[x] \in Node <=> In(n, q, x) \/ In(m, r, x) \/ x = t
          /\ In(n, q, x) \/ In(m, r, x) => ~node[x].iDelete
          /\ In(m, r, x) => due[x] = now
          /\ x \in armed <=> In(n, q, x) \/ In(m, r, x) \/ (x = t /\ node[x].iLoop /\ ~node[x].iDelete)
      BY <1>3, <1>5 DEF Roles, GoesBack
    <3>2. CASE x = t
      BY <1>4, <1>6, <1>7, <2>3, <2>4, <3>2
    <3>3. CASE x # t
      BY <1>4, <1>7, <2>3, <3>1, <3>3
    <3> QED BY <3>2, <3>3
  <2>7. Lists(n + 1, p, m, r)'
    <3>1. IsList(n + 1, p, pTHead, node)' /\ IsList(m, r, tHead, node)' /\ Timed(n + 1, p, node, due, now)'
      BY <1>4, <2>3 DEF IsList, Timed
    <3> QED BY <1>4, <1>5, <2>3, <2>6, <3>1 DEF Lists
  <2> QED BY <1>2, <1>4, <2>5, <2>7 DEF TimerInv
<1>9. CASE ~GoesBack(t)
  <2>1. node' = [node EXCEPT ![t] = FreeNode] /\ pTHead' = pTHead /\ iCount' = iCount /\ due' = due
    BY <1>3, <1>9 DEF Finish
  <2>2. /\ node' \in [Timers -> Node \cup {FreeNode}] /\ node'[t] = FreeNode /\ node'[t] \notin Node
        /\ \A x \in Timers : x # t => node'[x] = node[x]
    BY <1>2, <1>4, <2>1, NodeNotFree DEF TimerTypeOK
  <2>3. PICK g : g = node'
    OBVIOUS
  <2>4. \A x \in Timers : In(n, q, x) \/ In(m, r, x) => g[x] = node[x]
    BY <1>6, <2>2, <2>3
  <2>5. IsList(n, q, pTHead, g) /\ IsList(m, r, tHead, g)
    BY <1>5, <2>4, SameList
  <2>6. Timed(n, q, g, due, now)
    BY <1>5, <2>4, SameTimed
  <2>7. TimerTypeOK'
    BY <1>2, <1>4, <2>1, <2>2 DEF TimerTypeOK
  <2>8. Roles(n, q, m, r)'
    <3> SUFFICES ASSUME NEW x \in Timers
                 PROVE  /\ ~(In(n, q, x) /\ In(m, r, x))
                        /\ x = pTimer' => ~In(n, q, x) /\ ~In(m, r, x)
                        /\ node'[x] \in Node <=> In(n, q, x) \/ In(m, r, x) \/ x = pTimer'
                        /\ In(n, q, x) \/ In(m, r, x) => ~node'[x].iDelete
                        /\ In(m, r, x) => due'[x] = now'
                        /\ x \in armed' <=> In(n, q, x) \/ In(m, r, x)
                                            \/ (x = pTimer' /\ node'[x].iLoop /\ ~node'[x].iDelete)
      BY DEF Roles, GoesBack, In
    <3>1. /\ ~(In(n, q, x) /\ In(m, r, x))
          /\ node[x] \in Node <=> In(n, q, x) \/ In(m, r, x) \/ x = t
          /\ In(n, q, x) \/ In(m, r, x) => ~node[x].iDelete
          /\ In(m, r, x) => due[x] = now
          /\ x \in armed <=> In(n, q, x) \/ In(m, r, x) \/ (x = t /\ GoesBack(t))
      BY <1>3, <1>5 DEF Roles
    <3>2. CASE x = t
      BY <1>4, <1>6, <1>7, <1>9, <2>2, <3>2
    <3>3. CASE x # t
      BY <1>4, <1>7, <2>1, <2>2, <3>1, <3>3
    <3> QED BY <3>2, <3>3
  <2>9. Lists(n, q, m, r)'
    <3>1. IsList(n, q, pTHead, node)' /\ IsList(m, r, tHead, node)' /\ Timed(n, q, node, due, now)'
      BY <1>4, <2>1, <2>3, <2>5, <2>6 DEF IsList, Timed
    <3> QED BY <1>4, <1>5, <2>1, <2>8, <3>1 DEF Lists
  <2> QED BY <1>2, <1>4, <2>7, <2>9 DEF TimerInv
<1> QED BY <1>8, <1>9

(* The end of a tick. *)
LEMMA TickDoneTimer ==
  ASSUME TimerInv, TickDone
  PROVE  TimerInv'
<1>1. PICK n, q, m, r : Lists(n, q, m, r)
  BY DEF TimerInv
<1>2. TimerTypeOK'
  BY DEF TimerInv, TimerTypeOK, TickDone
<1>3. Lists(n, q, m, r)'
  <2>1. /\ node' = node /\ pTHead' = pTHead /\ iCount' = iCount /\ tHead' = tHead /\ tCount' = tCount
        /\ pTimer' = pTimer /\ now' = now /\ due' = due /\ armed' = armed
    BY DEF TickDone
  <2>2. IsList(n, q, pTHead, node)' /\ IsList(m, r, tHead, node)' /\ Timed(n, q, node, due, now)'
    BY <1>1, <2>1 DEF Lists, IsList, Timed
  <2>3. Roles(n, q, m, r)'
    BY <1>1, <2>1 DEF Lists, Roles, In, GoesBack
  <2> QED BY <1>1, <2>1, <2>2, <2>3 DEF Lists
<1> QED BY <1>2, <1>3 DEF TimerInv, TickDone

(* Unlinked, and the node freed. *)
Removed(t, f) == [Unlinked(t, f) EXCEPT ![t] = FreeNode]

(* What becomes of the nodes when the timer at position k is unlinked and freed. *)
LEMMA RemovedPoints ==
  ASSUME NEW n, NEW q, NEW h, NEW f \in [Timers -> Node \cup {FreeNode}], IsList(n, q, h, f), NEW k \in 1 .. n
  PROVE  /\ Removed(q[k], f) \in [Timers -> Node \cup {FreeNode}]
         /\ Removed(q[k], f)[q[k]] = FreeNode
         /\ DelLinks(n, q, k, f, Removed(q[k], f))
         /\ \A j \in 1 .. n : j # k => /\ Removed(q[k], f)[q[j]].iTickGap = f[q[j]].iTickGap
                                       /\ Removed(q[k], f)[q[j]].iDelete = f[q[j]].iDelete
         /\ \A x \in Timers : ~In(n, q, x) => Removed(q[k], f)[x] = f[x]
<1>1. /\ n \in Nat /\ q \in [1 .. n -> Timers] /\ \A i, j \in 1 .. n : q[i] = q[j] => i = j
      /\ \A j \in 1 .. n : /\ f[q[j]] \in Node
                           /\ f[q[j]].pNext = IF j = n THEN NULL ELSE q[j + 1]
                           /\ f[q[j]].pPrev = IF j = 1 THEN NULL ELSE q[j - 1]
  BY DEF IsList
<1>2. NULL \notin Timers
  BY TimerAssumption
<1> DEFINE t == q[k]
           p == f[t].pPrev
           x == f[t].pNext
           g == IF x = NULL THEN f ELSE [f EXCEPT ![x].pPrev = p]
           G == IF p = NULL THEN g ELSE [g EXCEPT ![p].pNext = x]
           R == [G EXCEPT ![t] = FreeNode]
<1>3. Removed(t, f) = R
  BY DEF Removed, Unlinked
<1>4. /\ t \in Timers /\ p = (IF k = 1 THEN NULL ELSE q[k - 1]) /\ x = (IF k = n THEN NULL ELSE q[k + 1])
      /\ (k # 1 => k - 1 \in 1 .. n /\ k - 1 # k) /\ (k # n => k + 1 \in 1 .. n /\ k + 1 # k)
      /\ p \in Timers \cup {NULL} /\ x \in Timers \cup {NULL}
  <2>1. (k # 1 => k - 1 \in 1 .. n /\ k - 1 # k) /\ (k # n => k + 1 \in 1 .. n /\ k + 1 # k)
    BY <1>1
  <2> QED BY <1>1, <2>1
<1>5. t # p /\ t # x /\ (p # NULL => p # x)
  <2>1. k # 1 => q[k - 1] # t
    BY <1>1, <1>4
  <2>2. k # n => q[k + 1] # t
    BY <1>1, <1>4
  <2>3. k # 1 /\ k # n => q[k - 1] # q[k + 1]
    <3>1. k - 1 # k + 1
      BY <1>1
    <3> QED BY <1>1, <1>4, <3>1
  <2>4. k # 1 => q[k - 1] \in Timers
    BY <1>1, <1>4
  <2> HIDE DEF t, p, x
  <2> QED BY <1>2, <1>4, <2>1, <2>2, <2>3, <2>4
<1>6. (x # NULL => x \in Timers /\ f[x] \in Node) /\ (p # NULL => p \in Timers /\ f[p] \in Node)
  <2> HIDE DEF p, x
  <2> QED BY <1>1, <1>4
<1>7. /\ g \in [Timers -> Node \cup {FreeNode}] /\ \A y \in Timers : y # x => g[y] = f[y]
      /\ x # NULL => /\ g[x] \in Node /\ g[x].pPrev = p /\ g[x].pNext = f[x].pNext
                     /\ g[x].iTickGap = f[x].iTickGap /\ g[x].iDelete = f[x].iDelete
  <2>1. CASE x = NULL
    BY <2>1
  <2>2. CASE x # NULL
    <3> DEFINE X == [f[x] EXCEPT !.pPrev = p]
    <3>1. /\ X \in Node /\ X.pPrev = p /\ X.pNext = f[x].pNext /\ X.iTickGap = f[x].iTickGap /\ X.iDelete = f[x].iDelete
      <4> HIDE DEF x, p
      <4> QED BY <1>4, <1>6, <2>2 DEF Node
    <3>2. g = [f EXCEPT ![x] = X]
      BY <2>2
    <3> HIDE DEF X, g, x, p
    <3> QED BY <1>6, <2>2, <3>1, <3>2
  <2> QED BY <2>1, <2>2
<1> HIDE DEF g
<1>8. /\ G \in [Timers -> Node \cup {FreeNode}] /\ \A y \in Timers : y # p => G[y] = g[y]
      /\ p # NULL => /\ G[p] \in Node /\ G[p].pPrev = f[p].pPrev /\ G[p].pNext = x
                     /\ G[p].iTickGap = f[p].iTickGap /\ G[p].iDelete = f[p].iDelete
  <2>1. CASE p = NULL
    BY <1>7, <2>1
  <2>2. CASE p # NULL
    <3> DEFINE P == [g[p] EXCEPT !.pNext = x]
    <3>0. g[p] = f[p] /\ g[p] \in Node
      <4> HIDE DEF x, p
      <4> QED BY <1>5, <1>6, <1>7, <2>2
    <3>1. /\ P \in Node /\ P.pPrev = f[p].pPrev /\ P.pNext = x /\ P.iTickGap = f[p].iTickGap /\ P.iDelete = f[p].iDelete
      <4> HIDE DEF x, p
      <4> QED BY <1>4, <1>6, <2>2, <3>0 DEF Node
    <3>2. G = [g EXCEPT ![p] = P]
      BY <2>2
    <3> HIDE DEF P, G, x, p
    <3> QED BY <1>6, <1>7, <2>2, <3>1, <3>2
  <2> QED BY <2>1, <2>2
<1> HIDE DEF G
<1>9. R \in [Timers -> Node \cup {FreeNode}] /\ R[t] = FreeNode /\ \A y \in Timers : y # t => R[y] = G[y]
  BY <1>4, <1>8
<1> HIDE DEF R
<1>10. ASSUME NEW j \in 1 .. n, j # k
       PROVE  /\ R[q[j]] \in Node
              /\ R[q[j]].pNext = IF j = k - 1 THEN x ELSE f[q[j]].pNext
              /\ R[q[j]].pPrev = IF j = k + 1 THEN p ELSE f[q[j]].pPrev
              /\ R[q[j]].iTickGap = f[q[j]].iTickGap /\ R[q[j]].iDelete = f[q[j]].iDelete
  <2>1. PICK y : y = q[j]
    OBVIOUS
  <2>2. y \in Timers /\ y # t /\ f[y] \in Node /\ R[y] = G[y] /\ y # NULL
    BY <1>1, <1>2, <1>9, <1>10, <2>1
  <2>3. CASE j = k - 1
    <3>1. k # 1 /\ j # k + 1
      BY <1>1, <2>3
    <3>2. y = p /\ p # NULL
      BY <1>4, <2>1, <2>2, <2>3, <3>1
    <3> HIDE DEF t, p, x
    <3> QED BY <1>8, <2>1, <2>2, <2>3, <3>1, <3>2
  <2>4. CASE j = k + 1
    <3>1. k # n /\ j # k - 1
      BY <1>1, <2>4
    <3>2. y = x /\ x # NULL /\ y # p
      BY <1>4, <1>5, <2>1, <2>2, <2>4, <3>1
    <3>3. G[y] = g[y]
      BY <1>8, <2>2, <3>2
    <3> HIDE DEF t, p, x
    <3> QED BY <1>7, <2>1, <2>2, <2>4, <3>1, <3>2, <3>3
  <2>5. CASE j # k - 1 /\ j # k + 1
    <3>1. k # 1 => q[k - 1] # y
      BY <1>1, <1>4, <2>1, <2>5
    <3>2. k # n => q[k + 1] # y
      BY <1>1, <1>4, <2>1, <2>5
    <3>3. y # p /\ y # x
      BY <1>4, <2>2, <3>1, <3>2
    <3> HIDE DEF t, p, x
    <3>4. R[y] = f[y]
      BY <1>7, <1>8, <2>2, <3>3
    <3> QED BY <2>1, <2>2, <2>5, <3>4
  <2> QED BY <2>3, <2>4, <2>5
<1>11. DelLinks(n, q, k, f, R)
  BY <1>10 DEF DelLinks
<1>12. ASSUME NEW y \in Timers, ~In(n, q, y) PROVE R[y] = f[y]
  <2>1. \A j \in 1 .. n : q[j] # y
    BY <1>12 DEF In
  <2>2. y # t /\ y # p /\ y # x
    BY <1>2, <1>4, <2>1
  <2> HIDE DEF t, p, x
  <2> QED BY <1>7, <1>8, <1>9, <2>2
<1> QED BY <1>3, <1>9, <1>10, <1>11, <1>12

-----------------------------------------------------------------------------
(* The timers met on a walk are those in the list. *)
LEMMA RangeIs ==
  ASSUME TimerTypeOK, NEW n, NEW q, NEW h, IsList(n, q, h, node)
  PROVE  \A x : x \in Range(ListFrom(h)) <=> In(n, q, x)
<1>1. ListFrom(h) = q /\ DOMAIN ListFrom(h) = 1 .. n
  BY ListIs
<1>2. PICK s : s = ListFrom(h)
  OBVIOUS
<1>3. s = q /\ DOMAIN s = 1 .. n
  BY <1>1, <1>2
<1>4. \A x : x \in Range(s) <=> In(n, q, x)
  BY <1>3 DEF Range, In
<1> QED BY <1>2, <1>4

(* The roles when timer t leaves the lists and is freed. *)
LEMMA RemoveRoles ==
  ASSUME NEW n, NEW q, NEW m, NEW r, Roles(n, q, m, r), NEW t \in Timers,
         NEW a, NEW p, NEW b, NEW s,
         \A x \in Timers : /\ In(a, p, x) <=> x # t /\ In(n, q, x)
                           /\ In(b, s, x) <=> x # t /\ In(m, r, x),
         t # pTimer, node'[t] \notin Node,
         \A x \in Timers : x # t => /\ node'[x] \in Node <=> node[x] \in Node
                                    /\ In(n, q, x) \/ In(m, r, x) => node'[x].iDelete = node[x].iDelete
                                    /\ x = pTimer => node'[x] = node[x],
         due' = due, now' = now, pTimer' = pTimer, armed' = armed \ {t}
  PROVE  Roles(a, p, b, s)'
<1> SUFFICES ASSUME NEW x \in Timers
             PROVE  /\ ~(In(a, p, x) /\ In(b, s, x))
                    /\ x = pTimer' => ~In(a, p, x) /\ ~In(b, s, x)
                    /\ node'[x] \in Node <=> In(a, p, x) \/ In(b, s, x) \/ x = pTimer'
                    /\ In(a, p, x) \/ In(b, s, x) => ~node'[x].iDelete
                    /\ In(b, s, x) => due'[x] = now'
                    /\ x \in armed' <=> In(a, p, x) \/ In(b, s, x)
                                        \/ (x = pTimer' /\ node'[x].iLoop /\ ~node'[x].iDelete)
  BY DEF Roles, GoesBack, In
<1>1. /\ ~(In(n, q, x) /\ In(m, r, x))
      /\ x = pTimer => ~In(n, q, x) /\ ~In(m, r, x)
      /\ node[x] \in Node <=> In(n, q, x) \/ In(m, r, x) \/ x = pTimer
      /\ In(n, q, x) \/ In(m, r, x) => ~node[x].iDelete
      /\ In(m, r, x) => due[x] = now
      /\ x \in armed <=> In(n, q, x) \/ In(m, r, x) \/ (x = pTimer /\ node[x].iLoop /\ ~node[x].iDelete)
  BY DEF Roles, GoesBack
<1>2. CASE x = t
  BY <1>2
<1>3. CASE x # t
  BY <1>1, <1>3
<1> QED BY <1>2, <1>3

(* Inherited changes the gap of the successor only. *)
LEMMA InheritedPoints ==
  ASSUME TimerTypeOK, NEW n, NEW q, NEW h, IsList(n, q, h, node), NEW k \in 1 .. n
  PROVE  /\ Inherited(q[k]) \in [Timers -> Node \cup {FreeNode}]
         /\ IsList(n, q, h, Inherited(q[k]))
         /\ \A j \in 1 .. n : /\ Inherited(q[k])[q[j]].pNext = node[q[j]].pNext
                              /\ Inherited(q[k])[q[j]].pPrev = node[q[j]].pPrev
                              /\ Inherited(q[k])[q[j]].iDelete = node[q[j]].iDelete
                              /\ Inherited(q[k])[q[j]].iTickGap =
                                   IF j = k + 1 THEN node[q[j]].iTickGap + node[q[k]].iTickGap ELSE node[q[j]].iTickGap
         /\ \A x \in Timers : ~In(n, q, x) => Inherited(q[k])[x] = node[x]
<1>1. /\ n \in Nat /\ q \in [1 .. n -> Timers] /\ \A i, j \in 1 .. n : q[i] = q[j] => i = j
      /\ h = IF n = 0 THEN NULL ELSE q[1]
      /\ \A j \in 1 .. n : /\ node[q[j]] \in Node
                           /\ node[q[j]].pNext = IF j = n THEN NULL ELSE q[j + 1]
                           /\ node[q[j]].pPrev = IF j = 1 THEN NULL ELSE q[j - 1]
  BY DEF IsList
<1>2. NULL \notin Timers /\ node \in [Timers -> Node \cup {FreeNode}]
  BY TimerAssumption DEF TimerTypeOK
<1> DEFINE t == q[k]
           x == node[t].pNext
           g == IF x = NULL THEN node ELSE [node EXCEPT ![x].iTickGap = @ + node[t].iTickGap]
<1>3. Inherited(t) = g
  BY DEF Inherited
<1>4. CASE k = n
  <2>1. x = NULL
    BY <1>1, <1>4
  <2>2. g = node /\ \A j \in 1 .. n : j # k + 1
    BY <1>1, <1>4, <2>1
  <2> HIDE DEF g
  <2> QED BY <1>2, <1>3, <2>2
<1>5. CASE k # n
  <2>1. k + 1 \in 1 .. n /\ x = q[k + 1] /\ x \in Timers /\ x # NULL /\ node[x] \in Node /\ node[t] \in Node
    <3>1. k + 1 \in 1 .. n
      BY <1>1, <1>5
    <3> QED BY <1>1, <1>2, <1>5, <3>1
  <2> DEFINE X == [node[x] EXCEPT !.iTickGap = node[x].iTickGap + node[t].iTickGap]
  <2>2. /\ X \in Node /\ X.pPrev = node[x].pPrev /\ X.pNext = node[x].pNext /\ X.iDelete = node[x].iDelete
        /\ X.iTickGap = node[x].iTickGap + node[t].iTickGap
    <3>1. PICK w : w = node[x].iTickGap + node[t].iTickGap
      OBVIOUS
    <3>2. w \in Int
      <4> HIDE DEF x, t
      <4> QED BY <2>1, <3>1 DEF Node
    <3>3. X = [node[x] EXCEPT !.iTickGap = w]
      BY <3>1
    <3> HIDE DEF x, t, X
    <3> QED BY <2>1, <3>1, <3>2, <3>3 DEF Node
  <2>3. g = [node EXCEPT ![x] = X]
    BY <1>2, <2>1
  <2> HIDE DEF X, g
  <2>4. g \in [Timers -> Node \cup {FreeNode}] /\ g[x] = X /\ \A y \in Timers : y # x => g[y] = node[y]
    <3> HIDE DEF x
    <3> QED BY <1>2, <2>1, <2>2, <2>3
  <2>5. ASSUME NEW j \in 1 .. n
        PROVE  /\ g[q[j]] \in Node
               /\ g[q[j]].pNext = node[q[j]].pNext
               /\ g[q[j]].pPrev = node[q[j]].pPrev
               /\ g[q[j]].iDelete = node[q[j]].iDelete
               /\ g[q[j]].iTickGap =
                    IF j = k + 1 THEN node[q[j]].iTickGap + node[q[k]].iTickGap ELSE node[q[j]].iTickGap
    <3>1. CASE j = k + 1
      <4>1. q[j] = x
        BY <2>1, <3>1
      <4> HIDE DEF x
      <4> QED BY <2>2, <2>4, <3>1, <4>1
    <3>2. CASE j # k + 1
      <4>1. q[j] # x /\ q[j] \in Timers
        BY <1>1, <2>1, <3>2
      <4> HIDE DEF x
      <4> QED BY <1>1, <2>4, <3>2, <4>1
    <3> QED BY <3>1, <3>2
  <2>6. IsList(n, q, h, g)
    BY <1>1, <2>5 DEF IsList
  <2>7. \A y \in Timers : ~In(n, q, y) => g[y] = node[y]
    BY <2>1, <2>4 DEF In
  <2> QED BY <1>3, <2>4, <2>5, <2>6, <2>7
<1> QED BY <1>4, <1>5

(* high_pre_timer_delete of a timer in the list. *)
LEMMA DeleteMain ==
  ASSUME TimerInv, NEW n, NEW q, NEW m, NEW r, Lists(n, q, m, r), NEW t \in Timers, In(n, q, t),
         node' = [Unlinked(t, Inherited(t)) EXCEPT ![t] = FreeNode],
         pTHead' = IF node[t].pPrev = NULL THEN node[t].pNext ELSE pTHead,
         iCount' = iCount - 1, tHead' = tHead, tCount' = tCount, stray' = stray,
         pTimer' = pTimer, ticking' = ticking, now' = now, due' = due, armed' = armed \ {t}
  PROVE  TimerInv'
<1>1. TimerTypeOK /\ (~ticking => tHead = NULL) /\ (pTimer # NULL => due[pTimer] = now /\ ticking)
  BY DEF TimerInv
<1>2. /\ IsList(n, q, pTHead, node) /\ IsList(m, r, tHead, node) /\ iCount = n /\ tCount = m
      /\ Timed(n, q, node, due, now) /\ Roles(n, q, m, r)
  BY DEF Lists
<1>3. PICK k \in 1 .. n : q[k] = t
  BY DEF In
<1>4. PICK f : f = Inherited(t)
  OBVIOUS
<1>5. /\ f \in [Timers -> Node \cup {FreeNode}] /\ IsList(n, q, pTHead, f)
      /\ \A j \in 1 .. n : /\ f[q[j]].pNext = node[q[j]].pNext
                           /\ f[q[j]].pPrev = node[q[j]].pPrev
                           /\ f[q[j]].iDelete = node[q[j]].iDelete
                           /\ f[q[j]].iTickGap =
                                IF j = k + 1 THEN node[q[j]].iTickGap + node[q[k]].iTickGap ELSE node[q[j]].iTickGap
      /\ \A x \in Timers : ~In(n, q, x) => f[x] = node[x]
  BY <1>1, <1>2, <1>3, <1>4, InheritedPoints
<1>6. PICK g : g = Removed(t, f)
  OBVIOUS
<1>7. node' = g
  BY <1>4, <1>6 DEF Removed
<1>8. /\ g \in [Timers -> Node \cup {FreeNode}] /\ g[t] = FreeNode /\ DelLinks(n, q, k, f, g)
      /\ \A j \in 1 .. n : j # k => /\ g[q[j]].iTickGap = f[q[j]].iTickGap
                                    /\ g[q[j]].iDelete = f[q[j]].iDelete
      /\ \A x \in Timers : ~In(n, q, x) => g[x] = f[x]
  BY <1>3, <1>5, <1>6, RemovedPoints
<1>9. PICK p, u : p = Del(n, q, k) /\ u = pTHead'
  OBVIOUS
<1>10. u = IF k = 1 THEN f[q[k]].pNext ELSE pTHead
  <2>1. node[q[k]].pPrev = IF k = 1 THEN NULL ELSE q[k - 1]
    BY <1>2 DEF IsList
  <2>2. k # 1 => q[k - 1] # NULL
    <3>1. n \in Nat /\ q \in [1 .. n -> Timers]
      BY <1>2 DEF IsList
    <3>2. k # 1 => k - 1 \in 1 .. n
      BY <3>1
    <3> QED BY <3>1, <3>2, TimerAssumption
  <2> QED BY <1>3, <1>5, <1>9, <2>1, <2>2
<1>11. IsList(n - 1, p, u, g) /\ \A x : In(n - 1, p, x) <=> x # t /\ In(n, q, x)
  BY <1>3, <1>5, <1>8, <1>9, <1>10, DelList
<1>12. Timed(n - 1, p, g, due, now)
  <2>1. n \in Nat /\ q \in [1 .. n -> Timers] /\ now \in Int /\ \A j \in 1 .. n : due[q[j]] \in Int
    BY <1>1, <1>2 DEF IsList, TimerTypeOK
  <2>2. DelGaps(n, q, k, node, g)
    BY <1>5, <1>8 DEF DelGaps
  <2> QED BY <1>2, <1>9, <2>1, <2>2, DelTimed
<1>13. \A x \in Timers : In(m, r, x) => ~In(n, q, x)
  BY <1>2 DEF Roles
<1>14. IsList(m, r, tHead, g)
  <2>1. \A x \in Timers : In(m, r, x) => g[x] = node[x]
    BY <1>5, <1>8, <1>13
  <2> QED BY <1>2, <2>1, SameList
<1>15. Roles(n - 1, p, m, r)'
  <2>1. \A x \in Timers : /\ In(n - 1, p, x) <=> x # t /\ In(n, q, x)
                          /\ In(m, r, x) <=> x # t /\ In(m, r, x)
    BY <1>11, <1>13
  <2>2. t # pTimer
    BY <1>2 DEF Roles
  <2>3. node'[t] \notin Node
    BY <1>7, <1>8, NodeNotFree
  <2>4. ASSUME NEW x \in Timers, x # t
        PROVE  /\ node'[x] \in Node <=> node[x] \in Node
               /\ In(n, q, x) \/ In(m, r, x) => node'[x].iDelete = node[x].iDelete
               /\ x = pTimer => node'[x] = node[x]
    <3>1. CASE In(n, q, x)
      <4>1. PICK j \in 1 .. n : q[j] = x
        BY <3>1 DEF In
      <4>2. j # k
        BY <1>3, <2>4, <4>1
      <4>3. g[x] \in Node /\ g[x].iDelete = node[x].iDelete
        BY <1>5, <1>8, <4>1, <4>2 DEF DelLinks
      <4>4. node[x] \in Node /\ x # pTimer
        BY <1>2, <3>1 DEF Roles
      <4> QED BY <1>7, <4>3, <4>4
    <3>2. CASE ~In(n, q, x)
      BY <1>5, <1>7, <1>8, <3>2
    <3> QED BY <3>1, <3>2
  <2>5. PICK a : a = n - 1
    OBVIOUS
  <2>6. Roles(a, p, m, r)'
    BY <1>2, <2>1, <2>2, <2>3, <2>4, <2>5, RemoveRoles
  <2> QED BY <2>5, <2>6
<1>16. Lists(n - 1, p, m, r)'
  <2>1. IsList(n - 1, p, pTHead, node)' /\ IsList(m, r, tHead, node)' /\ Timed(n - 1, p, node, due, now)'
    <3>1. pTHead' = u /\ node' = g /\ tHead' = tHead /\ due' = due /\ now' = now
      BY <1>7, <1>9
    <3>2. IsList(n - 1, p, pTHead, node)'
      BY <1>11, <3>1 DEF IsList
    <3>3. IsList(m, r, tHead, node)'
      BY <1>14, <3>1 DEF IsList
    <3>4. Timed(n - 1, p, node, due, now)'
      BY <1>12, <3>1 DEF Timed
    <3> QED BY <3>2, <3>3, <3>4
  <2> QED BY <1>2, <1>15, <2>1 DEF Lists
<1>17. TimerTypeOK'
  BY <1>1, <1>7, <1>8 DEF TimerTypeOK
<1> QED BY <1>1, <1>16, <1>17 DEF TimerInv

(* high_pre_timer_delete of a timer in the temporary list. *)
LEMMA DeleteTemp ==
  ASSUME TimerInv, NEW n, NEW q, NEW m, NEW r, Lists(n, q, m, r), NEW t \in Timers, In(m, r, t),
         node' = [Unlinked(t, node) EXCEPT ![t] = FreeNode],
         tHead' = IF node[t].pPrev = NULL THEN node[t].pNext ELSE tHead,
         tCount' = tCount - 1, pTHead' = pTHead, iCount' = iCount, stray' = stray,
         pTimer' = pTimer, ticking' = ticking, now' = now, due' = due, armed' = armed \ {t}
  PROVE  TimerInv'
<1>1. TimerTypeOK /\ (~ticking => tHead = NULL) /\ (pTimer # NULL => due[pTimer] = now /\ ticking)
  BY DEF TimerInv
<1>2. /\ IsList(n, q, pTHead, node) /\ IsList(m, r, tHead, node) /\ iCount = n /\ tCount = m
      /\ Timed(n, q, node, due, now) /\ Roles(n, q, m, r)
  BY DEF Lists
<1>3. PICK k \in 1 .. m : r[k] = t
  BY DEF In
<1>4. PICK g : g = Removed(t, node)
  OBVIOUS
<1>5. node' = g
  BY <1>4 DEF Removed
<1>6. node \in [Timers -> Node \cup {FreeNode}]
  BY <1>1 DEF TimerTypeOK
<1>7. /\ g \in [Timers -> Node \cup {FreeNode}] /\ g[t] = FreeNode /\ DelLinks(m, r, k, node, g)
      /\ \A j \in 1 .. m : j # k => g[r[j]].iDelete = node[r[j]].iDelete
      /\ \A x \in Timers : ~In(m, r, x) => g[x] = node[x]
  BY <1>2, <1>3, <1>4, <1>6, RemovedPoints
<1>8. PICK p, u : p = Del(m, r, k) /\ u = tHead'
  OBVIOUS
<1>9. u = IF k = 1 THEN node[r[k]].pNext ELSE tHead
  <2>1. node[r[k]].pPrev = IF k = 1 THEN NULL ELSE r[k - 1]
    BY <1>2 DEF IsList
  <2>2. k # 1 => r[k - 1] # NULL
    <3>1. m \in Nat /\ r \in [1 .. m -> Timers]
      BY <1>2 DEF IsList
    <3>2. k # 1 => k - 1 \in 1 .. m
      BY <3>1
    <3> QED BY <3>1, <3>2, TimerAssumption
  <2> QED BY <1>3, <1>8, <2>1, <2>2
<1>10. IsList(m - 1, p, u, g) /\ \A x : In(m - 1, p, x) <=> x # t /\ In(m, r, x)
  BY <1>2, <1>3, <1>7, <1>8, <1>9, DelList
<1>11. \A x \in Timers : In(n, q, x) => ~In(m, r, x)
  BY <1>2 DEF Roles
<1>12. IsList(n, q, pTHead, g) /\ Timed(n, q, g, due, now)
  <2>1. \A x \in Timers : In(n, q, x) => g[x] = node[x]
    BY <1>7, <1>11
  <2> QED BY <1>2, <2>1, SameList, SameTimed
<1>13. Roles(n, q, m - 1, p)'
  <2>1. \A x \in Timers : /\ In(n, q, x) <=> x # t /\ In(n, q, x)
                          /\ In(m - 1, p, x) <=> x # t /\ In(m, r, x)
    BY <1>10, <1>11
  <2>2. t # pTimer
    BY <1>2 DEF Roles
  <2>3. node'[t] \notin Node
    BY <1>5, <1>7, NodeNotFree
  <2>4. ASSUME NEW x \in Timers, x # t
        PROVE  /\ node'[x] \in Node <=> node[x] \in Node
               /\ In(n, q, x) \/ In(m, r, x) => node'[x].iDelete = node[x].iDelete
               /\ x = pTimer => node'[x] = node[x]
    <3>1. CASE In(m, r, x)
      <4>1. PICK j \in 1 .. m : r[j] = x
        BY <3>1 DEF In
      <4>2. j # k
        BY <1>3, <2>4, <4>1
      <4>3. g[x] \in Node /\ g[x].iDelete = node[x].iDelete
        BY <1>7, <4>1, <4>2 DEF DelLinks
      <4>4. node[x] \in Node /\ x # pTimer
        BY <1>2, <3>1 DEF Roles
      <4> QED BY <1>5, <4>3, <4>4
    <3>2. CASE ~In(m, r, x)
      BY <1>5, <1>7, <3>2
    <3> QED BY <3>1, <3>2
  <2>5. PICK b : b = m - 1
    OBVIOUS
  <2>6. Roles(n, q, b, p)'
    BY <1>2, <2>1, <2>2, <2>3, <2>4, <2>5, RemoveRoles
  <2> QED BY <2>5, <2>6
<1>14. Lists(n, q, m - 1, p)'
  <2>1. IsList(n, q, pTHead, node)' /\ IsList(m - 1, p, tHead, node)' /\ Timed(n, q, node, due, now)'
    <3>1. tHead' = u /\ node' = g /\ pTHead' = pTHead /\ due' = due /\ now' = now
      BY <1>5, <1>8
    <3>2. IsList(m - 1, p, tHead, node)'
      BY <1>10, <3>1 DEF IsList
    <3>3. IsList(n, q, pTHead, node)'
      BY <1>12, <3>1 DEF IsList
    <3>4. Timed(n, q, node, due, now)'
      BY <1>12, <3>1 DEF Timed
    <3> QED BY <3>2, <3>3, <3>4
  <2> QED BY <1>2, <1>13, <2>1 DEF Lists
<1>15. TimerTypeOK'
  BY <1>1, <1>5, <1>7 DEF TimerTypeOK
<1>16. (~ticking => tHead = NULL)'
  <2>1. m # 0 /\ m \in Nat /\ r[1] \in Timers /\ tHead = r[1]
    <3>1. m \in Nat /\ r \in [1 .. m -> Timers] /\ tHead = IF m = 0 THEN NULL ELSE r[1]
      BY <1>2 DEF IsList
    <3>2. m # 0 /\ 1 \in 1 .. m
      BY <3>1
    <3> QED BY <3>1, <3>2
  <2> QED BY <1>1, <2>1, TimerAssumption
<1> QED BY <1>1, <1>14, <1>15, <1>16 DEF TimerInv

(* high_pre_timer_delete: a timer in neither list is the one whose callback runs. *)
LEMMA DeleteTimer ==
  ASSUME TimerInv, NEW t \in Timers, Delete(t)
  PROVE  TimerInv'
<1>1. PICK n, q, m, r : Lists(n, q, m, r)
  BY DEF TimerInv
<1>2. TimerTypeOK /\ (~ticking => tHead = NULL) /\ (pTimer # NULL => due[pTimer] = now /\ ticking)
  BY DEF TimerInv
<1>3. /\ IsList(n, q, pTHead, node) /\ IsList(m, r, tHead, node) /\ iCount = n /\ tCount = m
      /\ Timed(n, q, node, due, now) /\ Roles(n, q, m, r)
  BY <1>1 DEF Lists
<1>4. (t \in Range(MainList) <=> In(n, q, t)) /\ (t \in Range(TempList) <=> In(m, r, t))
  BY <1>2, <1>3, RangeIs DEF MainList, TempList
<1>5. t \in armed /\ armed' = armed \ {t} /\ pTimer' = pTimer /\ ticking' = ticking /\ now' = now /\ due' = due
  BY DEF Delete
<1>6. CASE In(n, q, t)
  <2>1. /\ node' = [Unlinked(t, Inherited(t)) EXCEPT ![t] = FreeNode]
        /\ pTHead' = IF node[t].pPrev = NULL THEN node[t].pNext ELSE pTHead
        /\ iCount' = iCount - 1 /\ tHead' = tHead /\ tCount' = tCount /\ stray' = stray
    BY <1>4, <1>6, Zenon DEF Delete
  <2> QED BY <1>1, <1>5, <1>6, <2>1, DeleteMain
<1>7. CASE ~In(n, q, t) /\ In(m, r, t)
  <2>1. /\ node' = [Unlinked(t, node) EXCEPT ![t] = FreeNode]
        /\ tHead' = IF node[t].pPrev = NULL THEN node[t].pNext ELSE tHead
        /\ tCount' = tCount - 1 /\ pTHead' = pTHead /\ iCount' = iCount /\ stray' = stray
    BY <1>4, <1>7, Zenon DEF Delete
  <2> QED BY <1>1, <1>5, <1>7, <2>1, DeleteTemp
<1>8. CASE ~In(n, q, t) /\ ~In(m, r, t)
  <2>1. t = pTimer /\ GoesBack(t) /\ node[t] \in Node
    BY <1>3, <1>5, <1>8 DEF Roles
  <2>2. t \in Allocated
    BY <2>1, NodeNotFree DEF Allocated
  <2>3. /\ node' = [node EXCEPT ![t].iDelete = TRUE] /\ stray' = stray
        /\ pTHead' = pTHead /\ iCount' = iCount /\ tHead' = tHead /\ tCount' = tCount
    BY <1>4, <1>8, <2>2 DEF Delete
  <2> DEFINE X == [node[t] EXCEPT !.iDelete = TRUE]
  <2>4. X \in Node /\ X.iDelete
    BY <2>1 DEF Node
  <2>5. node' = [node EXCEPT ![t] = X]
    BY <2>3
  <2> HIDE DEF X
  <2>6. PICK g : g = node'
    OBVIOUS
  <2>7. g \in [Timers -> Node \cup {FreeNode}] /\ g[t] = X /\ \A x \in Timers : x # t => g[x] = node[x]
    BY <1>2, <2>4, <2>5, <2>6 DEF TimerTypeOK
  <2>8. \A x \in Timers : In(n, q, x) \/ In(m, r, x) => g[x] = node[x]
    BY <1>8, <2>7
  <2>9. IsList(n, q, pTHead, g) /\ IsList(m, r, tHead, g)
    BY <1>3, <2>8, SameList
  <2>10. Timed(n, q, g, due, now)
    BY <1>3, <2>8, SameTimed
  <2>11. TimerTypeOK'
    BY <1>2, <1>5, <2>3, <2>6, <2>7 DEF TimerTypeOK
  <2>12. Roles(n, q, m, r)'
    <3> SUFFICES ASSUME NEW x \in Timers
                 PROVE  /\ ~(In(n, q, x) /\ In(m, r, x))
                        /\ x = pTimer' => ~In(n, q, x) /\ ~In(m, r, x)
                        /\ node'[x] \in Node <=> In(n, q, x) \/ In(m, r, x) \/ x = pTimer'
                        /\ In(n, q, x) \/ In(m, r, x) => ~node'[x].iDelete
                        /\ In(m, r, x) => due'[x] = now'
                        /\ x \in armed' <=> In(n, q, x) \/ In(m, r, x)
                                            \/ (x = pTimer' /\ node'[x].iLoop /\ ~node'[x].iDelete)
      BY DEF Roles, GoesBack, In
    <3>1. /\ ~(In(n, q, x) /\ In(m, r, x))
          /\ x = pTimer => ~In(n, q, x) /\ ~In(m, r, x)
          /\ node[x] \in Node <=> In(n, q, x) \/ In(m, r, x) \/ x = pTimer
          /\ In(n, q, x) \/ In(m, r, x) => ~node[x].iDelete
          /\ In(m, r, x) => due[x] = now
          /\ x \in armed <=> In(n, q, x) \/ In(m, r, x) \/ (x = pTimer /\ node[x].iLoop /\ ~node[x].iDelete)
      BY <1>3 DEF Roles, GoesBack
    <3>2. CASE x = t
      BY <1>5, <1>8, <2>1, <2>4, <2>6, <2>7, <3>2
    <3>3. CASE x # t
      BY <1>5, <2>6, <2>7, <3>1, <3>3
    <3> QED BY <3>2, <3>3
  <2>13. Lists(n, q, m, r)'
    <3>1. IsList(n, q, pTHead, node)'
      BY <2>3, <2>6, <2>9 DEF IsList
    <3>2. IsList(m, r, tHead, node)'
      BY <2>3, <2>6, <2>9 DEF IsList
    <3>3. Timed(n, q, node, due, now)'
      BY <1>5, <2>6, <2>10 DEF Timed
    <3> QED BY <1>3, <2>3, <2>12, <3>1, <3>2, <3>3 DEF Lists
  <2> QED BY <1>2, <1>5, <2>3, <2>11, <2>13 DEF TimerInv
<1> QED BY <1>6, <1>7, <1>8

(* The first half of high_pre_timer_timeout. *)
LEMMA PopTimer ==
  ASSUME TimerInv, Pop
  PROVE  TimerInv'
<1>1. PICK n, q, m, r : Lists(n, q, m, r)
  BY DEF TimerInv
<1>2. TimerTypeOK
  BY DEF TimerInv
<1>3. /\ IsList(n, q, pTHead, node) /\ IsList(m, r, tHead, node) /\ iCount = n /\ tCount = m
      /\ Timed(n, q, node, due, now) /\ Roles(n, q, m, r)
  BY <1>1 DEF Lists
<1>4. /\ m \in Nat /\ r \in [1 .. m -> Timers] /\ \A i, j \in 1 .. m : r[i] = r[j] => i = j
      /\ tHead = IF m = 0 THEN NULL ELSE r[1]
      /\ \A j \in 1 .. m : /\ node[r[j]] \in Node
                           /\ node[r[j]].pNext = IF j = m THEN NULL ELSE r[j + 1]
                           /\ node[r[j]].pPrev = IF j = 1 THEN NULL ELSE r[j - 1]
  BY <1>3 DEF IsList
<1>5. m # 0 /\ 1 \in 1 .. m
  <2>1. tHead # NULL
    BY DEF Pop
  <2>2. m # 0
    BY <1>4, <2>1
  <2> QED BY <1>4, <2>2
<1>6. PICK t : t = tHead
  OBVIOUS
<1>7. t = r[1] /\ t \in Timers /\ node[t] \in Node /\ In(m, r, t) /\ t # NULL
  BY <1>4, <1>5, <1>6, TimerAssumption DEF In
<1>8. PICK x : x = node[t].pNext
  OBVIOUS
<1>9. x = (IF m = 1 THEN NULL ELSE r[2]) /\ (m # 1 => 2 \in 1 .. m /\ x \in Timers /\ x # t /\ x # NULL /\ node[x] \in Node)
  <2>1. x = IF 1 = m THEN NULL ELSE r[1 + 1]
    BY <1>4, <1>5, <1>7, <1>8
  <2>2. m # 1 => 2 \in 1 .. m /\ 1 + 1 = 2
    BY <1>4, <1>5
  <2>3. m # 1 => r[2] \in Timers /\ r[2] # r[1] /\ node[r[2]] \in Node
    BY <1>4, <1>5, <2>2
  <2> QED BY <1>7, <2>1, <2>2, <2>3, TimerAssumption
<1> DEFINE f == [node EXCEPT ![t].pNext = NULL, ![t].pPrev = NULL]
           g == IF x = NULL THEN f ELSE [f EXCEPT ![x].pPrev = NULL]
           T == [node[t] EXCEPT !.pNext = NULL, !.pPrev = NULL]
           X == [node[x] EXCEPT !.pPrev = NULL]
<1>10. /\ node' = g /\ tHead' = x /\ tCount' = tCount - 1 /\ pTimer' = t /\ armed' = Remembered(t)
       /\ pTHead' = pTHead /\ iCount' = iCount /\ ticking' = ticking /\ now' = now /\ due' = due /\ stray' = stray
       /\ ticking /\ pTimer = NULL
  BY <1>6, <1>8 DEF Pop
<1>11. node \in [Timers -> Node \cup {FreeNode}]
  BY <1>2 DEF TimerTypeOK
<1>12. T \in Node /\ T.iLoop = node[t].iLoop /\ T.iDelete = node[t].iDelete
  BY <1>7 DEF Node
<1>13. f = [node EXCEPT ![t] = T]
  BY <1>7, <1>11
<1> HIDE DEF f, T
<1>14. f \in [Timers -> Node \cup {FreeNode}] /\ f[t] = T /\ \A y \in Timers : y # t => f[y] = node[y]
  BY <1>7, <1>11, <1>12, <1>13
<1>15. m # 1 => X \in Node /\ X.pNext = node[x].pNext /\ X.pPrev = NULL /\ X.iDelete = node[x].iDelete
  BY <1>9 DEF Node
<1>16. m # 1 => g = [f EXCEPT ![x] = X]
  BY <1>9, <1>14
<1>17. m = 1 => g = f
  BY <1>9
<1> HIDE DEF X, g
<1>18. /\ g \in [Timers -> Node \cup {FreeNode}] /\ g[t] = T /\ \A y \in Timers : y # t /\ y # x => g[y] = node[y]
       /\ m # 1 => g[x] = X
  <2>1. CASE m = 1
    BY <1>14, <1>17, <2>1
  <2>2. CASE m # 1
    BY <1>7, <1>9, <1>14, <1>15, <1>16, <2>2
  <2> QED BY <2>1, <2>2
<1>19. ASSUME NEW j \in 1 .. m, j # 1
       PROVE  /\ g[r[j]] \in Node /\ g[r[j]].iDelete = node[r[j]].iDelete
              /\ g[r[j]].pNext = node[r[j]].pNext
              /\ g[r[j]].pPrev = IF j = 2 THEN NULL ELSE node[r[j]].pPrev
  <2>1. r[j] \in Timers /\ r[j] # t /\ m # 1 /\ node[r[j]] \in Node
    BY <1>4, <1>5, <1>7, <1>19
  <2>2. CASE j = 2
    BY <1>9, <1>15, <1>18, <2>1, <2>2
  <2>3. CASE j # 2
    <3>1. r[j] # x
      BY <1>4, <1>9, <2>1, <2>3
    <3> QED BY <1>18, <2>1, <2>3, <3>1
  <2> QED BY <2>2, <2>3
<1>20. DelLinks(m, r, 1, node, g)
  <2>1. \A j \in 1 .. m : j # 1 - 1 /\ (j = 1 + 1 <=> j = 2)
    BY <1>4
  <2>2. node[r[1]].pPrev = NULL
    BY <1>4, <1>5
  <2> QED BY <1>19, <2>1, <2>2 DEF DelLinks
<1>21. PICK p, b : p = Del(m, r, 1) /\ b = m - 1
  OBVIOUS
<1>22. IsList(b, p, x, g) /\ \A y : In(b, p, y) <=> y # t /\ In(m, r, y)
  <2>1. x = IF 1 = 1 THEN node[r[1]].pNext ELSE tHead
    BY <1>7, <1>8
  <2> QED BY <1>3, <1>5, <1>7, <1>20, <1>21, <2>1, DelList
<1>23. \A y \in Timers : In(n, q, y) => y # t /\ y # x /\ ~In(m, r, y)
  <2>1. \A y \in Timers : In(n, q, y) => ~In(m, r, y)
    BY <1>3 DEF Roles
  <2>2. m # 1 => In(m, r, x)
    BY <1>9 DEF In
  <2> QED BY <1>7, <1>9, <2>1, <2>2, TimerAssumption
<1>24. IsList(n, q, pTHead, g) /\ Timed(n, q, g, due, now)
  <2>1. \A y \in Timers : In(n, q, y) => g[y] = node[y]
    BY <1>18, <1>23
  <2> QED BY <1>3, <2>1, SameList, SameTimed
<1>25. Roles(n, q, b, p)'
  <2> SUFFICES ASSUME NEW y \in Timers
               PROVE  /\ ~(In(n, q, y) /\ In(b, p, y))
                      /\ y = pTimer' => ~In(n, q, y) /\ ~In(b, p, y)
                      /\ node'[y] \in Node <=> In(n, q, y) \/ In(b, p, y) \/ y = pTimer'
                      /\ In(n, q, y) \/ In(b, p, y) => ~node'[y].iDelete
                      /\ In(b, p, y) => due'[y] = now'
                      /\ y \in armed' <=> In(n, q, y) \/ In(b, p, y)
                                          \/ (y = pTimer' /\ node'[y].iLoop /\ ~node'[y].iDelete)
    BY DEF Roles, GoesBack, In
  <2>1. /\ ~(In(n, q, y) /\ In(m, r, y))
        /\ node[y] \in Node <=> In(n, q, y) \/ In(m, r, y)
        /\ In(n, q, y) \/ In(m, r, y) => ~node[y].iDelete
        /\ In(m, r, y) => due[y] = now
        /\ y \in armed <=> In(n, q, y) \/ In(m, r, y)
    BY <1>3, <1>10, TimerAssumption DEF Roles
  <2>2. CASE y = t
    <3>1. t \in armed' <=> t \in armed /\ node[t].iLoop
      BY <1>10 DEF Remembered
    <3> QED BY <1>7, <1>10, <1>12, <1>18, <1>22, <2>1, <2>2, <3>1
  <2>3. CASE y # t
    <3>1. y \in armed' <=> y \in armed
      BY <1>10, <2>3 DEF Remembered
    <3>2. CASE In(m, r, y)
      <4>1. PICK j \in 1 .. m : r[j] = y
        BY <3>2 DEF In
      <4>2. j # 1
        BY <1>7, <2>3, <4>1
      <4>3. g[y] \in Node /\ g[y].iDelete = node[y].iDelete
        BY <1>19, <4>1, <4>2
      <4> QED BY <1>10, <1>22, <2>1, <2>3, <3>1, <3>2, <4>3
    <3>3. CASE ~In(m, r, y)
      <4>1. y # x
        BY <1>9, <3>3, TimerAssumption DEF In
      <4>2. g[y] = node[y]
        BY <1>18, <2>3, <4>1
      <4> QED BY <1>10, <1>22, <2>1, <2>3, <3>1, <3>3, <4>2
    <3> QED BY <3>2, <3>3
  <2> QED BY <2>2, <2>3
<1>26. Lists(n, q, b, p)'
  <2>1. IsList(n, q, pTHead, node)'
    BY <1>10, <1>24 DEF IsList
  <2>2. IsList(b, p, tHead, node)'
    BY <1>10, <1>22 DEF IsList
  <2>3. Timed(n, q, node, due, now)'
    BY <1>10, <1>24 DEF Timed
  <2> QED BY <1>3, <1>10, <1>21, <1>25, <2>1, <2>2, <2>3 DEF Lists
<1>27. TimerTypeOK'
  <2>1. armed' \in SUBSET Timers
    BY <1>2, <1>10 DEF Remembered, TimerTypeOK
  <2> QED BY <1>2, <1>7, <1>10, <1>18, <2>1 DEF TimerTypeOK
<1>28. (pTimer # NULL => due[pTimer] = now /\ ticking)'
  <2>1. due[t] = now
    BY <1>3, <1>7 DEF Roles
  <2> QED BY <1>10, <2>1
<1> QED BY <1>10, <1>26, <1>27, <1>28 DEF TimerInv

-----------------------------------------------------------------------------
(* The nodes after the head of the list came one tick closer. *)
Closer(s) == IF s = <<>> THEN node ELSE [node EXCEPT ![pTHead].iTickGap = @ - 1]

(* Only the gap of the first timer changes. *)
LEMMA CloserPoints ==
  ASSUME TimerTypeOK, NEW n, NEW q, IsList(n, q, pTHead, node), Len(q) = n, Timed(n, q, node, due, now)
  PROVE  /\ Closer(q) \in [Timers -> Node \cup {FreeNode}]
         /\ IsList(n, q, pTHead, Closer(q))
         /\ \A j \in 1 .. n : /\ Closer(q)[q[j]].iDelete = node[q[j]].iDelete
                              /\ Closer(q)[q[j]].iTickGap = due[q[j]] - (IF j = 1 THEN now + 1 ELSE due[q[j - 1]])
         /\ \A x \in Timers : ~In(n, q, x) => Closer(q)[x] = node[x]
<1>1. /\ n \in Nat /\ q \in [1 .. n -> Timers] /\ \A i, j \in 1 .. n : q[i] = q[j] => i = j
      /\ pTHead = IF n = 0 THEN NULL ELSE q[1]
      /\ \A j \in 1 .. n : /\ node[q[j]] \in Node
                           /\ node[q[j]].pNext = IF j = n THEN NULL ELSE q[j + 1]
                           /\ node[q[j]].pPrev = IF j = 1 THEN NULL ELSE q[j - 1]
  BY DEF IsList
<1>2. node \in [Timers -> Node \cup {FreeNode}] /\ now \in Int /\ \A j \in 1 .. n : due[q[j]] \in Int
  BY <1>1 DEF TimerTypeOK
<1>3. CASE n = 0
  <2>1. q = <<>> /\ 1 .. n = {}
    BY <1>1, <1>3
  <2>2. Closer(q) = node
    BY <2>1 DEF Closer
  <2> QED BY <1>2, <2>1, <2>2
<1>4. CASE n # 0
  <2>1. q # <<>>
    BY <1>4
  <2>2. PICK t : t = pTHead
    OBVIOUS
  <2>3. 1 \in 1 .. n /\ t = q[1] /\ t \in Timers /\ node[t] \in Node /\ node[t].iTickGap = due[t] - now /\ due[t] \in Int
    <3>1. 1 \in 1 .. n
      BY <1>1, <1>4
    <3> QED BY <1>1, <1>2, <1>4, <2>2, <3>1 DEF Timed
  <2> DEFINE X == [node[t] EXCEPT !.iTickGap = node[t].iTickGap - 1]
             g == [node EXCEPT ![t] = X]
  <2>4. /\ X \in Node /\ X.pPrev = node[t].pPrev /\ X.pNext = node[t].pNext /\ X.iDelete = node[t].iDelete
        /\ X.iTickGap = due[t] - (now + 1)
    <3>1. PICK w : w = node[t].iTickGap - 1
      OBVIOUS
    <3>2. w \in Int /\ w = due[t] - (now + 1)
      BY <1>2, <2>3, <3>1
    <3>3. X = [node[t] EXCEPT !.iTickGap = w]
      BY <3>1
    <3> HIDE DEF X
    <3>4. X \in Node /\ X.pPrev = node[t].pPrev /\ X.pNext = node[t].pNext /\ X.iDelete = node[t].iDelete /\ X.iTickGap = w
      BY <2>3, <3>2, <3>3 DEF Node
    <3> QED BY <3>2, <3>4
  <2>5. Closer(q) = g
    BY <1>2, <2>1, <2>2, <2>3 DEF Closer
  <2> HIDE DEF X
  <2>6. g \in [Timers -> Node \cup {FreeNode}] /\ g[t] = X /\ \A y \in Timers : y # t => g[y] = node[y]
    BY <1>2, <2>3, <2>4
  <2> HIDE DEF g
  <2>7. ASSUME NEW j \in 1 .. n
        PROVE  /\ g[q[j]] \in Node
               /\ g[q[j]].pNext = node[q[j]].pNext
               /\ g[q[j]].pPrev = node[q[j]].pPrev
               /\ g[q[j]].iDelete = node[q[j]].iDelete
               /\ g[q[j]].iTickGap = due[q[j]] - (IF j = 1 THEN now + 1 ELSE due[q[j - 1]])
    <3>1. CASE j = 1
      <4>1. q[j] = t
        BY <2>3, <3>1
      <4> QED BY <2>4, <2>6, <3>1, <4>1
    <3>2. CASE j # 1
      <4>1. q[j] # t /\ q[j] \in Timers
        BY <1>1, <2>3, <3>2
      <4>2. node[q[j]].iTickGap = due[q[j]] - due[q[j - 1]]
        BY <3>2 DEF Timed
      <4> QED BY <1>1, <2>6, <3>2, <4>1, <4>2
    <3> QED BY <3>1, <3>2
  <2>8. IsList(n, q, pTHead, g)
    BY <1>1, <2>7 DEF IsList
  <2>9. \A y \in Timers : ~In(n, q, y) => g[y] = node[y]
    BY <2>3, <2>6 DEF In
  <2> QED BY <2>5, <2>6, <2>7, <2>8, <2>9
<1> QED BY <1>3, <1>4

(* The gaps of a list that is sorted by the times d at which its timers are due, none of them
   before tick c. *)
NoneLate(n, q, f, d, c) ==
  /\ \A j \in 1 .. n : /\ d[q[j]] \in Int /\ d[q[j]] >= c
                       /\ f[q[j]].iTickGap = d[q[j]] - (IF j = 1 THEN c ELSE d[q[j - 1]])
  /\ \A i, j \in 1 .. n : i <= j => d[q[i]] <= d[q[j]]

(* The timers that high_pre_timer_dotick cuts off are a prefix of the list, and exactly those that
   are due at the new tick. *)
LEMMA ExpiredPrefix ==
  ASSUME NEW n \in Nat, NEW q, DOMAIN q = 1 .. n, NEW d, NEW c \in Int, NEW f, NoneLate(n, q, f, d, c)
  PROVE  \E e \in 0 .. n : /\ Cardinality(Expired(f, q)) = e
                           /\ \A j \in 1 .. n : j <= e <=> d[q[j]] = c
<1> USE DEF NoneLate
<1> DEFINE E == Expired(f, q)
<1>1. E = {k \in 1 .. n : \A j \in 1 .. k : f[q[j]].iTickGap <= 0}
  BY DEF Expired
<1>2. ASSUME NEW k \in 1 .. n, d[q[k]] = c PROVE k \in E
  <2> SUFFICES ASSUME NEW j \in 1 .. k PROVE f[q[j]].iTickGap <= 0
    BY <1>1
  <2>1. j \in 1 .. n /\ j <= k
    OBVIOUS
  <2>2. d[q[j]] = c
    BY <1>2, <2>1
  <2>3. CASE j = 1
    BY <2>1, <2>2, <2>3
  <2>4. CASE j # 1
    <3>1. j - 1 \in 1 .. n /\ j - 1 <= k
      BY <2>1, <2>4
    <3>2. d[q[j - 1]] = c
      BY <1>2, <3>1
    <3> QED BY <2>1, <2>2, <2>4, <3>2
  <2> QED BY <2>3, <2>4
<1>3. \A k \in E : k \in 1 .. n /\ f[q[k]].iTickGap <= 0 /\ (k # 1 => k - 1 \in E /\ k - 1 \in 1 .. n)
  <2> SUFFICES ASSUME NEW k \in E PROVE k \in 1 .. n /\ f[q[k]].iTickGap <= 0 /\ (k # 1 => k - 1 \in E /\ k - 1 \in 1 .. n)
    OBVIOUS
  <2>1. k \in 1 .. n /\ \A j \in 1 .. k : f[q[j]].iTickGap <= 0
    BY <1>1
  <2>2. k \in 1 .. k /\ (k # 1 => k - 1 \in 1 .. n /\ \A j \in 1 .. k - 1 : j \in 1 .. k)
    BY <2>1
  <2> HIDE DEF E
  <2> QED BY <1>1, <2>1, <2>2
<1> HIDE DEF E
<1> DEFINE C == {k \in E : d[q[k]] # c}
<1>4. C = {}
  <2> SUFFICES ASSUME C # {} PROVE FALSE
    OBVIOUS
  <2>1. C \in SUBSET Nat
    BY <1>3
  <2>2. PICK k \in C : \A x \in C : k <= x
    BY <2>1, LeastNumber
  <2>3. k \in E /\ k \in 1 .. n /\ d[q[k]] # c /\ f[q[k]].iTickGap <= 0
    BY <1>3, <2>2
  <2>4. CASE k = 1
    BY <2>3, <2>4
  <2>5. CASE k # 1
    <3>1. k - 1 \in E /\ k - 1 \in 1 .. n /\ ~(k <= k - 1)
      BY <1>3, <2>3, <2>5
    <3>2. d[q[k - 1]] = c
      BY <2>2, <3>1
    <3>3. f[q[k]].iTickGap = d[q[k]] - c /\ d[q[k]] \in Int /\ d[q[k]] >= c
      BY <2>3, <2>5, <3>2
    <3> QED BY <2>3, <3>3
  <2> QED BY <2>4, <2>5
<1>5. \A k \in 1 .. n : k \in E <=> d[q[k]] = c
  BY <1>2, <1>4
<1> DEFINE D == {k \in 1 .. n + 1 : k \notin E}
<1>6. n + 1 \in D /\ D \in SUBSET Nat
  BY <1>3
<1>7. PICK l \in D : \A x \in D : l <= x
  BY <1>6, LeastNumber
<1>8. PICK e : e = l - 1
  OBVIOUS
<1>9. l \in 1 .. n + 1 /\ l \notin E /\ e \in 0 .. n /\ l = e + 1 /\ e \in Int
  BY <1>7, <1>8
<1>10. \A k \in 1 .. n : k <= e => k \in E
  <2> SUFFICES ASSUME NEW k \in 1 .. n, k <= e, k \notin E PROVE FALSE
    OBVIOUS
  <2>1. k \in D /\ ~(l <= k)
    BY <1>9
  <2> QED BY <1>7, <2>1
<1>11. \A k \in 1 .. n : k \in E => k <= e
  <2> SUFFICES ASSUME NEW k \in 1 .. n, k \in E, ~(k <= e) PROVE FALSE
    OBVIOUS
  <2>1. l \in 1 .. n /\ l <= k
    BY <1>9
  <2>2. d[q[k]] = c
    BY <1>5
  <2>3. d[q[l]] <= d[q[k]] /\ d[q[l]] >= c /\ d[q[l]] \in Int
    BY <2>1
  <2>4. d[q[l]] = c
    BY <2>2, <2>3
  <2> QED BY <1>5, <1>9, <2>1, <2>4
<1>12. E = 1 .. e
  <2>1. \A k \in E : k \in 1 .. e
    BY <1>3, <1>9, <1>11
  <2>2. \A k \in 1 .. e : k \in 1 .. n /\ k <= e
    BY <1>9
  <2>3. \A k \in 1 .. e : k \in E
    BY <1>10, <2>2
  <2> QED BY <2>1, <2>3
<1>13. Cardinality(E) = e
  <2>1. 1 \in Int /\ e \in Int
    BY <1>9
  <2>2. Cardinality(1 .. e) = IF 1 > e THEN 0 ELSE e - 1 + 1
    BY <2>1, FS_Interval, Zenon
  <2> QED BY <1>9, <1>12, <2>2
<1>14. \A j \in 1 .. n : j <= e <=> d[q[j]] = c
  BY <1>5, <1>10, <1>11
<1> QED BY <1>9, <1>13, <1>14 DEF E

(* The nodes after the cut behind position e. *)
Cut(f, q, e) == [f EXCEPT ![q[e]].pNext = NULL, ![q[e + 1]].pPrev = NULL]

(* What high_pre_timer_dotick does, with the list named. *)
LEMMA DoTickIs ==
  ASSUME DoTick, NEW q, q = MainList, NEW n, Len(q) = n, NEW f, f = Closer(q), NEW e, e = Cardinality(Expired(f, q))
  PROVE  /\ ~ticking /\ now' = now + 1 /\ pTimer' = pTimer /\ due' = due /\ armed' = armed /\ stray' = stray
         /\ e = 0 => node' = f /\ pTHead' = pTHead /\ iCount' = iCount /\ tHead' = tHead /\ tCount' = tCount /\ ticking' = ticking
         /\ e # 0 => /\ tHead' = pTHead /\ tCount' = e /\ iCount' = iCount - e /\ ticking' = TRUE
                     /\ e < n => /\ pTHead' = q[e + 1]
                                 /\ node' = Cut(f, q, e)
                     /\ ~(e < n) => pTHead' = NULL /\ node' = f
BY DEF DoTick, Closer, Cut

(* The links after the cut. *)
LEMMA CutPoints ==
  ASSUME NEW n, NEW q, NEW h, NEW f \in [Timers -> Node \cup {FreeNode}], IsList(n, q, h, f),
         NEW e \in 1 .. n, NEW g,
         e < n => g = Cut(f, q, e),
         ~(e < n) => g = f
  PROVE  /\ g \in [Timers -> Node \cup {FreeNode}] /\ CutLinks(n, q, e, f, g)
         /\ \A j \in 1 .. n : g[q[j]].iTickGap = f[q[j]].iTickGap /\ g[q[j]].iDelete = f[q[j]].iDelete
         /\ \A x \in Timers : ~In(n, q, x) => g[x] = f[x]
<1>1. /\ n \in Nat /\ q \in [1 .. n -> Timers] /\ \A i, j \in 1 .. n : q[i] = q[j] => i = j
      /\ \A j \in 1 .. n : f[q[j]] \in Node /\ f[q[j]].pNext = IF j = n THEN NULL ELSE q[j + 1]
  BY DEF IsList
<1>2. CASE ~(e < n)
  <2>1. e = n /\ \A j \in 1 .. n : j # e + 1
    BY <1>1, <1>2
  <2>2. g = f
    BY <1>2
  <2>3. CutLinks(n, q, e, f, g)
    BY <1>1, <2>1, <2>2 DEF CutLinks
  <2> QED BY <2>2, <2>3
<1>3. CASE e < n
  <2>1. PICK a, b : a = q[e] /\ b = q[e + 1]
    OBVIOUS
  <2>2. /\ e + 1 \in 1 .. n /\ e # e + 1 /\ a \in Timers /\ b \in Timers /\ a # b
        /\ f[a] \in Node /\ f[b] \in Node
    <3>1. e + 1 \in 1 .. n /\ e # e + 1
      BY <1>1, <1>3
    <3> QED BY <1>1, <2>1, <3>1
  <2> DEFINE A == [f[a] EXCEPT !.pNext = NULL]
             B == [f[b] EXCEPT !.pPrev = NULL]
  <2>3. A \in Node /\ A.pNext = NULL /\ A.pPrev = f[a].pPrev /\ A.iTickGap = f[a].iTickGap /\ A.iDelete = f[a].iDelete
    BY <2>2 DEF Node
  <2>4. B \in Node /\ B.pNext = f[b].pNext /\ B.pPrev = NULL /\ B.iTickGap = f[b].iTickGap /\ B.iDelete = f[b].iDelete
    BY <2>2 DEF Node
  <2>5. g = [f EXCEPT ![a] = A, ![b] = B]
    BY <1>3, <2>1, <2>2 DEF Cut
  <2> HIDE DEF A, B
  <2>6. g \in [Timers -> Node \cup {FreeNode}] /\ g[a] = A /\ g[b] = B /\ \A y \in Timers : y # a /\ y # b => g[y] = f[y]
    BY <2>2, <2>3, <2>4, <2>5
  <2>7. ASSUME NEW j \in 1 .. n
        PROVE  /\ g[q[j]] \in Node
               /\ g[q[j]].pNext = IF j = e THEN NULL ELSE f[q[j]].pNext
               /\ g[q[j]].pPrev = IF j = e + 1 THEN NULL ELSE f[q[j]].pPrev
               /\ g[q[j]].iTickGap = f[q[j]].iTickGap /\ g[q[j]].iDelete = f[q[j]].iDelete
    <3>1. CASE j = e
      BY <2>1, <2>2, <2>3, <2>6, <3>1
    <3>2. CASE j = e + 1
      BY <2>1, <2>2, <2>4, <2>6, <3>2
    <3>3. CASE j # e /\ j # e + 1
      <4>1. q[j] # a /\ q[j] # b /\ q[j] \in Timers
        BY <1>1, <2>1, <2>2, <3>3
      <4> QED BY <1>1, <2>6, <3>3, <4>1
    <3> QED BY <3>1, <3>2, <3>3
  <2>8. CutLinks(n, q, e, f, g)
    BY <2>7 DEF CutLinks
  <2>9. \A x \in Timers : ~In(n, q, x) => g[x] = f[x]
    BY <2>1, <2>2, <2>6 DEF In
  <2> QED BY <2>6, <2>7, <2>8, <2>9
<1> QED BY <1>2, <1>3

(* high_pre_timer_dotick. *)
LEMMA DoTickTimer ==
  ASSUME TimerInv, DoTick
  PROVE  TimerInv'
<1>1. PICK n, q, m, r : Lists(n, q, m, r)
  BY DEF TimerInv
<1>2. TimerTypeOK /\ ~ticking /\ tHead = NULL /\ pTimer = NULL /\ NULL \notin Timers
  BY TimerAssumption DEF TimerInv, DoTick
<1>3. /\ IsList(n, q, pTHead, node) /\ IsList(m, r, tHead, node) /\ iCount = n /\ tCount = m
      /\ Timed(n, q, node, due, now) /\ Roles(n, q, m, r)
  BY <1>1 DEF Lists
<1>4. MainList = q /\ Len(q) = n /\ DOMAIN q = 1 .. n
  BY <1>2, <1>3, ListIs DEF MainList
<1>5. m = 0 /\ \A x : ~In(m, r, x)
  <2>1. m \in Nat /\ r \in [1 .. m -> Timers] /\ tHead = IF m = 0 THEN NULL ELSE r[1]
    BY <1>3 DEF IsList
  <2>2. m # 0 => 1 \in 1 .. m
    BY <2>1
  <2>3. m = 0
    BY <1>2, <2>1, <2>2
  <2> QED BY <2>3 DEF In
<1>6. PICK f : f = Closer(q)
  OBVIOUS
<1>7. /\ f \in [Timers -> Node \cup {FreeNode}] /\ IsList(n, q, pTHead, f)
      /\ \A j \in 1 .. n : /\ f[q[j]].iDelete = node[q[j]].iDelete
                           /\ f[q[j]].iTickGap = due[q[j]] - (IF j = 1 THEN now + 1 ELSE due[q[j - 1]])
      /\ \A x \in Timers : ~In(n, q, x) => f[x] = node[x]
  BY <1>2, <1>3, <1>4, <1>6, CloserPoints
<1>8. /\ n \in Nat /\ q \in [1 .. n -> Timers] /\ \A i, j \in 1 .. n : q[i] = q[j] => i = j
      /\ now \in Int /\ now \in Nat
  BY <1>2, <1>3 DEF IsList, TimerTypeOK
<1>9. PICK c : c = now + 1
  OBVIOUS
<1>10. /\ c \in Int /\ c \in Nat
       /\ \A j \in 1 .. n : /\ due[q[j]] \in Int /\ due[q[j]] >= c
                            /\ f[q[j]].iTickGap = due[q[j]] - (IF j = 1 THEN c ELSE due[q[j - 1]])
       /\ \A i, j \in 1 .. n : i <= j => due[q[i]] <= due[q[j]]
  <2>1. \A j \in 1 .. n : due[q[j]] \in Int /\ due[q[j]] > now
    BY <1>2, <1>3, <1>8 DEF TimerTypeOK, Timed
  <2>2. \A j \in 1 .. n : due[q[j]] \in Int /\ due[q[j]] >= c
    BY <1>8, <1>9, <2>1
  <2>3. \A i, j \in 1 .. n : i <= j => due[q[i]] <= due[q[j]]
    BY <1>3 DEF Timed
  <2>4. c \in Int /\ c \in Nat
    BY <1>8, <1>9
  <2> QED BY <1>7, <1>9, <2>2, <2>3, <2>4
<1>11. PICK e \in 0 .. n : /\ Cardinality(Expired(f, q)) = e
                           /\ \A j \in 1 .. n : j <= e <=> due[q[j]] = c
  <2>1. NoneLate(n, q, f, due, c)
    BY <1>10 DEF NoneLate
  <2> QED BY <1>4, <1>8, <1>10, <2>1, ExpiredPrefix
<1>12. /\ now' = c /\ pTimer' = pTimer /\ due' = due /\ armed' = armed /\ stray' = stray
       /\ e = 0 => node' = f /\ pTHead' = pTHead /\ iCount' = iCount /\ tHead' = tHead /\ tCount' = tCount /\ ticking' = ticking
       /\ e # 0 => /\ tHead' = pTHead /\ tCount' = e /\ iCount' = iCount - e /\ ticking' = TRUE
                   /\ e < n => /\ pTHead' = q[e + 1]
                               /\ node' = Cut(f, q, e)
                   /\ ~(e < n) => pTHead' = NULL /\ node' = f
  <2>1. q = MainList /\ Len(q) = n /\ f = Closer(q) /\ e = Cardinality(Expired(f, q))
    BY <1>4, <1>6, <1>11
  <2> QED BY <1>9, <2>1, DoTickIs
<1>13. \A x \in Timers : /\ node[x] \in Node <=> In(n, q, x)
                         /\ In(n, q, x) => ~node[x].iDelete
                         /\ x \in armed <=> In(n, q, x)
                         /\ x # pTimer'
  BY <1>2, <1>3, <1>5, <1>12 DEF Roles
<1>14. CASE e = 0
  <2>1. \A j \in 1 .. n : due[q[j]] > c
    <3>1. \A j \in 1 .. n : due[q[j]] # c
      BY <1>8, <1>11, <1>14
    <3> QED BY <1>10, <3>1
  <2>2. Timed(n, q, f, due, c)
    BY <1>10, <2>1 DEF Timed
  <2>3. IsList(m, r, tHead, f)
    <3>1. \A x \in Timers : In(m, r, x) => f[x] = node[x]
      BY <1>5
    <3> QED BY <1>3, <3>1, SameList
  <2>4. \A x \in Timers : (f[x] \in Node <=> In(n, q, x)) /\ (In(n, q, x) => ~f[x].iDelete)
    <3> SUFFICES ASSUME NEW x \in Timers PROVE (f[x] \in Node <=> In(n, q, x)) /\ (In(n, q, x) => ~f[x].iDelete)
      OBVIOUS
    <3>1. CASE In(n, q, x)
      <4>1. f[x] \in Node
        BY <1>7, <3>1, InTimers
      <4>2. f[x].iDelete = node[x].iDelete
        BY <1>7, <3>1 DEF In
      <4> QED BY <1>13, <3>1, <4>1, <4>2
    <3>2. CASE ~In(n, q, x)
      BY <1>7, <1>13, <3>2
    <3> QED BY <3>1, <3>2
  <2>5. Roles(n, q, m, r)'
    <3> SUFFICES ASSUME NEW x \in Timers
                 PROVE  /\ ~(In(n, q, x) /\ In(m, r, x))
                        /\ x = pTimer' => ~In(n, q, x) /\ ~In(m, r, x)
                        /\ node'[x] \in Node <=> In(n, q, x) \/ In(m, r, x) \/ x = pTimer'
                        /\ In(n, q, x) \/ In(m, r, x) => ~node'[x].iDelete
                        /\ In(m, r, x) => due'[x] = now'
                        /\ x \in armed' <=> In(n, q, x) \/ In(m, r, x)
                                            \/ (x = pTimer' /\ node'[x].iLoop /\ ~node'[x].iDelete)
      BY DEF Roles, GoesBack, In
    <3> QED BY <1>5, <1>12, <1>13, <1>14, <2>4
  <2>6. Lists(n, q, m, r)'
    <3>1. IsList(n, q, pTHead, node)'
      BY <1>7, <1>12, <1>14 DEF IsList
    <3>2. IsList(m, r, tHead, node)'
      BY <1>12, <1>14, <2>3 DEF IsList
    <3>3. Timed(n, q, node, due, now)'
      BY <1>12, <1>14, <2>2 DEF Timed
    <3> QED BY <1>3, <1>12, <1>14, <2>5, <3>1, <3>2, <3>3 DEF Lists
  <2>7. TimerTypeOK'
    BY <1>2, <1>7, <1>10, <1>12, <1>14 DEF TimerTypeOK
  <2> QED BY <1>2, <1>12, <1>14, <2>6, <2>7 DEF TimerInv
<1>15. CASE e # 0
  <2>1. PICK g, u : g = node' /\ u = pTHead'
    OBVIOUS
  <2>2. e \in 1 .. n
    BY <1>8, <1>15
  <2>3. /\ g \in [Timers -> Node \cup {FreeNode}] /\ CutLinks(n, q, e, f, g)
        /\ \A j \in 1 .. n : g[q[j]].iTickGap = f[q[j]].iTickGap /\ g[q[j]].iDelete = f[q[j]].iDelete
        /\ \A x \in Timers : ~In(n, q, x) => g[x] = f[x]
    <3>1. e < n => g = Cut(f, q, e)
      BY <1>12, <1>15, <2>1
    <3>2. ~(e < n) => g = f
      BY <1>12, <1>15, <2>1
    <3> QED BY <1>7, <2>2, <3>1, <3>2, CutPoints
  <2>4. u = IF e = n THEN NULL ELSE q[e + 1]
    <3>1. e < n <=> e # n
      BY <1>8, <2>2
    <3> QED BY <1>12, <1>15, <2>1, <3>1
  <2>5. PICK a, b, l : a = Front(q, e) /\ b = Rest(n, q, e) /\ l = n - e
    OBVIOUS
  <2>6. /\ IsList(e, a, pTHead, g) /\ IsList(l, b, u, g)
        /\ \A j \in 1 .. e : j \in 1 .. n /\ a[j] = q[j]
        /\ \A j \in 1 .. l : e + j \in 1 .. n /\ b[j] = q[e + j]
    BY <1>7, <2>2, <2>3, <2>4, <2>5, CutList
  <2>7. Timed(l, b, g, due, c)
    <3>1. l \in Nat /\ e \in Nat
      BY <1>8, <2>2, <2>5
    <3>2. ASSUME NEW j \in 1 .. l
          PROVE  g[b[j]].iTickGap = due[b[j]] - (IF j = 1 THEN c ELSE due[b[j - 1]]) /\ due[b[j]] > c
      <4>1. PICK i : i = e + j
        OBVIOUS
      <4>2. i \in 1 .. n /\ b[j] = q[i] /\ i # 1 /\ i - 1 \in 1 .. n /\ ~(i <= e) /\ (j = 1 => i - 1 = e) /\ (j # 1 => j - 1 \in 1 .. l /\ e + (j - 1) = i - 1)
        BY <1>8, <2>2, <2>6, <3>1, <4>1
      <4>3. due[q[i]] # c /\ due[q[i]] >= c /\ due[q[i]] \in Int
        BY <1>10, <1>11, <4>2
      <4>4. g[q[i]].iTickGap = due[q[i]] - due[q[i - 1]]
        BY <1>10, <2>3, <4>2
      <4>5. CASE j = 1
        <5>1. due[q[i - 1]] = c
          BY <1>11, <2>2, <4>2, <4>5
        <5> QED BY <1>10, <4>2, <4>3, <4>4, <4>5, <5>1
      <4>6. CASE j # 1
        <5>1. b[j - 1] = q[i - 1]
          BY <2>6, <4>2, <4>6
        <5> QED BY <1>10, <4>2, <4>3, <4>4, <4>6, <5>1
      <4> QED BY <4>5, <4>6
    <3>3. ASSUME NEW i \in 1 .. l, NEW j \in 1 .. l, i <= j PROVE due[b[i]] <= due[b[j]]
      <4>1. e + i \in 1 .. n /\ e + j \in 1 .. n /\ b[i] = q[e + i] /\ b[j] = q[e + j] /\ e + i <= e + j
        BY <2>6, <3>1, <3>3
      <4> QED BY <1>10, <4>1
    <3> QED BY <3>2, <3>3 DEF Timed
  <2>8. ASSUME NEW x
        PROVE  (In(l, b, x) \/ In(e, a, x) <=> In(n, q, x)) /\ ~(In(l, b, x) /\ In(e, a, x)) /\ (In(e, a, x) => due[x] = c)
    <3>1. l \in Nat /\ e \in Nat /\ l = n - e
      BY <1>8, <2>2, <2>5
    <3>2. ASSUME In(n, q, x) PROVE In(l, b, x) \/ In(e, a, x)
      <4>1. PICK j \in 1 .. n : q[j] = x
        BY <3>2 DEF In
      <4>2. CASE j <= e
        <5>1. j \in 1 .. e
          BY <3>1, <4>2
        <5> QED BY <2>6, <4>1, <5>1 DEF In
      <4>3. CASE ~(j <= e)
        <5>1. j - e \in 1 .. l /\ e + (j - e) = j
          BY <1>8, <3>1, <4>3
        <5>2. b[j - e] = x
          BY <2>6, <4>1, <5>1
        <5> QED BY <5>1, <5>2 DEF In
      <4> QED BY <4>2, <4>3
    <3>3. ASSUME In(e, a, x) PROVE In(n, q, x) /\ due[x] = c /\ ~In(l, b, x)
      <4>1. PICK j \in 1 .. e : a[j] = x
        BY <3>3 DEF In
      <4>2. j \in 1 .. n /\ q[j] = x /\ j <= e
        BY <2>6, <3>1, <4>1
      <4>3. ASSUME In(l, b, x) PROVE FALSE
        <5>1. PICK i \in 1 .. l : b[i] = x
          BY <4>3 DEF In
        <5>2. e + i \in 1 .. n /\ q[e + i] = x
          BY <2>6, <5>1
        <5>3. e + i = j
          BY <1>8, <4>2, <5>2
        <5> QED BY <3>1, <4>2, <5>3
      <4> QED BY <1>11, <4>2, <4>3 DEF In
    <3>4. ASSUME In(l, b, x) PROVE In(n, q, x)
      <4>1. PICK i \in 1 .. l : b[i] = x
        BY <3>4 DEF In
      <4> QED BY <2>6, <4>1 DEF In
    <3> QED BY <3>2, <3>3, <3>4
  <2>9. \A x \in Timers : (g[x] \in Node <=> In(n, q, x)) /\ (In(n, q, x) => ~g[x].iDelete)
    <3> SUFFICES ASSUME NEW x \in Timers PROVE (g[x] \in Node <=> In(n, q, x)) /\ (In(n, q, x) => ~g[x].iDelete)
      OBVIOUS
    <3>1. CASE In(n, q, x)
      <4>1. PICK j \in 1 .. n : q[j] = x
        BY <3>1 DEF In
      <4>2. g[x] \in Node
        BY <2>3, <4>1 DEF CutLinks
      <4>3. g[x].iDelete = node[x].iDelete
        BY <1>7, <2>3, <4>1
      <4> QED BY <1>13, <3>1, <4>2, <4>3
    <3>2. CASE ~In(n, q, x)
      BY <1>7, <1>13, <2>3, <3>2
    <3> QED BY <3>1, <3>2
  <2>10. Roles(l, b, e, a)'
    <3> SUFFICES ASSUME NEW x \in Timers
                 PROVE  /\ ~(In(l, b, x) /\ In(e, a, x))
                        /\ x = pTimer' => ~In(l, b, x) /\ ~In(e, a, x)
                        /\ node'[x] \in Node <=> In(l, b, x) \/ In(e, a, x) \/ x = pTimer'
                        /\ In(l, b, x) \/ In(e, a, x) => ~node'[x].iDelete
                        /\ In(e, a, x) => due'[x] = now'
                        /\ x \in armed' <=> In(l, b, x) \/ In(e, a, x)
                                            \/ (x = pTimer' /\ node'[x].iLoop /\ ~node'[x].iDelete)
      BY DEF Roles, GoesBack, In
    <3> QED BY <1>12, <1>13, <2>1, <2>8, <2>9
  <2>11. Lists(l, b, e, a)'
    <3>1. IsList(l, b, pTHead, node)'
      BY <2>1, <2>6 DEF IsList
    <3>2. IsList(e, a, tHead, node)'
      BY <1>12, <1>15, <2>1, <2>6 DEF IsList
    <3>3. Timed(l, b, node, due, now)'
      BY <1>12, <2>1, <2>7 DEF Timed
    <3> QED BY <1>3, <1>12, <1>15, <2>5, <2>10, <3>1, <3>2, <3>3 DEF Lists
  <2>12. TimerTypeOK'
    BY <1>2, <1>10, <1>12, <1>15, <2>1, <2>3 DEF TimerTypeOK
  <2> QED BY <1>2, <1>12, <1>15, <2>11, <2>12 DEF TimerInv
<1> QED BY <1>14, <1>15

-----------------------------------------------------------------------------
(* Every step keeps the lists. *)
LEMMA NextTimer == TimerInv /\ [Next]_vars => TimerInv'
<1> SUFFICES ASSUME TimerInv, [Next]_vars PROVE TimerInv'
  OBVIOUS
<1>1. CASE DoTick
  BY <1>1, DoTickTimer
<1>2. CASE Pop
  BY <1>2, PopTimer
<1>3. CASE Finish
  BY <1>3, FinishTimer
<1>4. CASE TickDone
  BY <1>4, TickDoneTimer
<1>5. CASE \E t \in Timers, ticks \in 1 .. MaxTick, loop \in BOOLEAN : Add(t, ticks, loop)
  BY <1>5, AddTimer
<1>6. CASE \E t \in Timers : Delete(t)
  BY <1>6, DeleteTimer
<1>7. CASE UNCHANGED vars
  <2>1. PICK n, q, m, r : Lists(n, q, m, r)
    BY DEF TimerInv
  <2>2. TimerTypeOK'
    BY <1>7 DEF TimerInv, TimerTypeOK, vars
  <2>3. Lists(n, q, m, r)'
    BY <1>7, <2>1 DEF Lists, IsList, Timed, Roles, In, GoesBack, vars
  <2> QED BY <1>7, <2>2, <2>3 DEF TimerInv, vars
<1> QED BY <1>1, <1>2, <1>3, <1>4, <1>5, <1>6, <1>7 DEF Next

(* The two lists are linked and disjoint, the gaps are the differences of the times at which the
   timers are due, and every timer has one role: running, expired, in its callback or free. *)
THEOREM TimerInvariant == Spec => []TimerInv
BY InitTimer, NextTimer, PTL DEF Spec

(* The walk from a head, its length and its set of timers. *)
LEMMA WalkFacts ==
  ASSUME TimerTypeOK, NEW n, NEW q, NEW h, IsList(n, q, h, node)
  PROVE  /\ ListFrom(h) = q /\ Len(ListFrom(h)) = n /\ DOMAIN ListFrom(h) = 1 .. n /\ n \in Nat
         /\ Cardinality(Range(ListFrom(h))) = n
         /\ \A x : x \in Range(ListFrom(h)) <=> In(n, q, x)
         /\ \A k \in 1 .. n : q[k] \in Timers /\ In(n, q, q[k])
                              /\ node[q[k]].pPrev = IF k = 1 THEN NULL ELSE q[k - 1]
<1>1. /\ n \in Nat /\ q \in [1 .. n -> Timers] /\ \A i, j \in 1 .. n : q[i] = q[j] => i = j
      /\ \A k \in 1 .. n : node[q[k]].pPrev = IF k = 1 THEN NULL ELSE q[k - 1]
  BY DEF IsList
<1>2. ListFrom(h) = q /\ Len(ListFrom(h)) = n /\ DOMAIN ListFrom(h) = 1 .. n
  BY ListIs
<1>3. \A x : x \in Range(ListFrom(h)) <=> In(n, q, x)
  BY RangeIs
<1> DEFINE S == 1 .. n
<1>4. q \in [S -> Timers] /\ \A i, j \in S : q[i] = q[j] => i = j
  BY <1>1
<1> HIDE DEF S
<1>5. q \in Injection(S, Timers)
  BY <1>4, Fun_IsInj, Zenon
<1>6. q \in Bijection(S, Range(q))
  BY <1>5, Fun_InjMeansBijImage
<1>7. ExistsBijection(S, Range(q))
  BY <1>6, Fun_ExistsBij
<1>8. Cardinality(Range(q)) = n
  BY <1>1, <1>7, FS_CountingElements DEF S
<1>9. \A k \in 1 .. n : q[k] \in Timers /\ In(n, q, q[k])
  BY <1>1 DEF In
<1>10. PICK s : s = ListFrom(h)
  OBVIOUS
<1>11. Cardinality(Range(s)) = n
  BY <1>2, <1>8, <1>10
<1> QED BY <1>1, <1>2, <1>3, <1>9, <1>10, <1>11

(* Both lists stay well linked and counted, whatever is added, deleted, cut off and put back. *)
THEOREM ListsWellLinked == Spec => []WellLinked
<1>1. TimerInv => WellLinked
  <2> SUFFICES ASSUME TimerInv PROVE WellLinked
    OBVIOUS
  <2>1. PICK n, q, m, r : Lists(n, q, m, r)
    BY DEF TimerInv
  <2>2. TimerTypeOK /\ NULL \notin Timers
    BY TimerAssumption DEF TimerInv
  <2>3. /\ IsList(n, q, pTHead, node) /\ IsList(m, r, tHead, node) /\ iCount = n /\ tCount = m
        /\ Roles(n, q, m, r)
    BY <2>1 DEF Lists
  <2>4. PICK a, b : a = MainList /\ b = TempList
    OBVIOUS
  <2>5. /\ a = q /\ Len(a) = n /\ Cardinality(Range(a)) = n /\ n \in Nat
        /\ \A x : x \in Range(a) <=> In(n, q, x)
        /\ \A k \in 1 .. n : node[q[k]].pPrev = IF k = 1 THEN NULL ELSE q[k - 1]
    BY <2>2, <2>3, <2>4, WalkFacts DEF MainList
  <2>6. /\ b = r /\ Len(b) = m /\ Cardinality(Range(b)) = m /\ m \in Nat
        /\ \A x : x \in Range(b) <=> In(m, r, x)
        /\ \A k \in 1 .. m : node[r[k]].pPrev = IF k = 1 THEN NULL ELSE r[k - 1]
    BY <2>2, <2>3, <2>4, WalkFacts DEF TempList
  <2>7. \A x : (In(n, q, x) => x \in Timers) /\ (In(m, r, x) => x \in Timers)
    BY <2>3, InTimers
  <2>8. Range(a) \cap Range(b) = {}
    BY <2>3, <2>5, <2>6, <2>7 DEF Roles
  <2>9. pTimer \notin Range(a) \cup Range(b)
    BY <2>3, <2>5, <2>6, <2>7 DEF Roles
  <2>10. \A l \in {<<a, n>>, <<b, m>>} :
           /\ Len(l[1]) = l[2]
           /\ Cardinality(Range(l[1])) = l[2]
           /\ \A k \in 1 .. l[2] : node[l[1][k]].pPrev = IF k = 1 THEN NULL ELSE l[1][k - 1]
    <3> SUFFICES ASSUME NEW l \in {<<a, n>>, <<b, m>>}
                 PROVE  /\ Len(l[1]) = l[2]
                        /\ Cardinality(Range(l[1])) = l[2]
                        /\ \A k \in 1 .. l[2] : node[l[1][k]].pPrev = IF k = 1 THEN NULL ELSE l[1][k - 1]
      OBVIOUS
    <3>1. CASE l = <<a, n>>
      <4>1. l[1] = a /\ l[2] = n
        BY <3>1
      <4> QED BY <2>5, <4>1
    <3>2. CASE l = <<b, m>>
      <4>1. l[1] = b /\ l[2] = m
        BY <3>2
      <4> QED BY <2>6, <4>1
    <3> QED BY <3>1, <3>2
  <2> QED BY <2>3, <2>4, <2>8, <2>9, <2>10 DEF WellLinked
<1> QED BY <1>1, TimerInvariant, PTL

(* The gaps up to a timer add up to the ticks until it is due. *)
THEOREM GapsStayExact == Spec => []GapsExact
<1>1. TimerInv => GapsExact
  <2> SUFFICES ASSUME TimerInv PROVE GapsExact
    OBVIOUS
  <2>1. PICK n, q, m, r : Lists(n, q, m, r)
    BY DEF TimerInv
  <2>2. TimerTypeOK
    BY DEF TimerInv
  <2>3. IsList(n, q, pTHead, node) /\ Timed(n, q, node, due, now)
    BY <2>1 DEF Lists
  <2>4. MainList = q /\ DOMAIN MainList = 1 .. n /\ \A k \in 1 .. n : q[k] \in Timers
    BY <2>2, <2>3, WalkFacts DEF MainList
  <2>5. \A k \in 1 .. n : Reach(q, k) = due[q[k]] - now /\ due[q[k]] > now /\ due[q[k]] \in Int
    BY <2>2, <2>3, <2>4, ReachIs DEF Timed, TimerTypeOK
  <2>6. now \in Int
    BY <2>2 DEF TimerTypeOK
  <2>7. \A k \in 1 .. n : now + Reach(q, k) = due[q[k]] /\ due[q[k]] > now
    BY <2>5, <2>6
  <2> QED BY <2>4, <2>7 DEF GapsExact
<1> QED BY <1>1, TimerInvariant, PTL

(* A timer fires at the tick at which it is due. *)
THEOREM TimersFireOnTime == Spec => []FiresOnTime
<1>1. TimerInv => FiresOnTime
  <2> SUFFICES ASSUME TimerInv PROVE FiresOnTime
    OBVIOUS
  <2>1. PICK n, q, m, r : Lists(n, q, m, r)
    BY DEF TimerInv
  <2>2. TimerTypeOK /\ (pTimer # NULL => due[pTimer] = now)
    BY DEF TimerInv
  <2>3. IsList(m, r, tHead, node) /\ Roles(n, q, m, r)
    BY <2>1 DEF Lists
  <2>4. \A x : x \in Range(TempList) <=> In(m, r, x)
    BY <2>2, <2>3, RangeIs DEF TempList
  <2>5. \A x : In(m, r, x) => x \in Timers
    BY <2>3, InTimers
  <2> QED BY <2>2, <2>3, <2>4, <2>5 DEF FiresOnTime, Roles
<1> QED BY <1>1, TimerInvariant, PTL

(* The armed timers are those that run, have expired, or loop and are in their callback. *)
THEOREM ArmedAreListed == Spec => []ArmedIsListed
<1>1. TimerInv => ArmedIsListed
  <2> SUFFICES ASSUME TimerInv PROVE ArmedIsListed
    OBVIOUS
  <2>1. PICK n, q, m, r : Lists(n, q, m, r)
    BY DEF TimerInv
  <2>2. TimerTypeOK /\ NULL \notin Timers /\ armed \in SUBSET Timers /\ pTimer \in Timers \cup {NULL}
    BY TimerAssumption DEF TimerInv, TimerTypeOK
  <2>3. IsList(n, q, pTHead, node) /\ IsList(m, r, tHead, node) /\ Roles(n, q, m, r)
    BY <2>1 DEF Lists
  <2>4. \A x : (x \in Range(MainList) <=> In(n, q, x)) /\ (x \in Range(TempList) <=> In(m, r, x))
    BY <2>2, <2>3, RangeIs DEF MainList, TempList
  <2>5. \A x : (In(n, q, x) => x \in Timers) /\ (In(m, r, x) => x \in Timers)
    BY <2>3, InTimers
  <2> DEFINE L == {t \in {pTimer} \ {NULL} : node[t].iLoop /\ ~node[t].iDelete}
  <2>6. \A x \in Timers : x \in armed <=> In(n, q, x) \/ In(m, r, x) \/ x \in L
    BY <2>2, <2>3 DEF Roles, GoesBack
  <2>7. \A x \in L : x \in Timers
    BY <2>2
  <2> HIDE DEF L
  <2>8. armed = Range(MainList) \cup Range(TempList) \cup L
    BY <2>2, <2>4, <2>5, <2>6, <2>7
  <2> QED BY <2>8 DEF ArmedIsListed, L
<1> QED BY <1>1, TimerInvariant, PTL

(* No timer leaks, and none is written after it is freed. *)
THEOREM NoTimerLeaks == Spec => []NoLeakNoStray
<1>1. TimerInv => NoLeakNoStray
  <2> SUFFICES ASSUME TimerInv PROVE NoLeakNoStray
    OBVIOUS
  <2>1. PICK n, q, m, r : Lists(n, q, m, r)
    BY DEF TimerInv
  <2>2. TimerTypeOK /\ NULL \notin Timers /\ pTimer \in Timers \cup {NULL} /\ stray = FALSE
        /\ node \in [Timers -> Node \cup {FreeNode}]
    BY TimerAssumption DEF TimerInv, TimerTypeOK
  <2>3. IsList(n, q, pTHead, node) /\ IsList(m, r, tHead, node) /\ Roles(n, q, m, r)
    BY <2>1 DEF Lists
  <2>4. \A x : (x \in Range(MainList) <=> In(n, q, x)) /\ (x \in Range(TempList) <=> In(m, r, x))
    BY <2>2, <2>3, RangeIs DEF MainList, TempList
  <2>5. \A x : (In(n, q, x) => x \in Timers) /\ (In(m, r, x) => x \in Timers)
    BY <2>3, InTimers
  <2>6. \A x : x \in Allocated <=> x \in Timers /\ node[x] \in Node
    <3>1. \A x \in Timers : node[x] \in Node \/ node[x] = FreeNode
      BY <2>2
    <3> QED BY <3>1, NodeNotFree DEF Allocated
  <2>7. \A x \in Timers : node[x] \in Node <=> In(n, q, x) \/ In(m, r, x) \/ x = pTimer
    BY <2>3 DEF Roles
  <2>8. Allocated = Range(MainList) \cup Range(TempList) \cup ({pTimer} \ {NULL})
    BY <2>2, <2>4, <2>5, <2>6, <2>7
  <2> QED BY <2>2, <2>8 DEF NoLeakNoStray
<1> QED BY <1>1, TimerInvariant, PTL
=============================================================================
