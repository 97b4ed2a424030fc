--------------------------- MODULE MemShareProofs ---------------------------
(***************************************************************************)
(* Proofs about the allocator of MemShare, for any pool table and any      *)
(* stream of requests.                                                     *)
(*                                                                         *)
(* TypeOK alone is not inductive: that iBlockUsed stays in range when a    *)
(* block is freed needs to know that the pool has a block in use, which is *)
(* what FreeListInv says.  The inductive invariant is their conjunction.   *)
(* The totals over the pools need it too, and what a sum does when one of  *)
(* its terms changes: the partial sums are compared up to the least pool   *)
(* at which they would differ.                                             *)
(***************************************************************************)
EXTENDS MemShare, FiniteSetTheorems, TLAPS

IInv == TypeOK /\ FreeListInv

-----------------------------------------------------------------------------
(* A pair is a block exactly when its index lies within its pool. *)
LEMMA BlockPairs ==
  /\ \A p \in Pools : \A i \in Idx(p) : <<p, i>> \in Blocks
  /\ \A b \in Blocks : b[1] \in Pools /\ b[2] \in Idx(b[1]) /\ b = <<b[1], b[2]>>
BY DEF Blocks

(* The index range of a pool, and the first pool that fits. *)
LEMMA IdxRange ==
  ASSUME NEW p \in Pools
  PROVE  /\ iBlockCoun[p] \in Nat /\ iBlockCoun[p] > 0
         /\ \A i : i \in Idx(p) <=> i \in Int /\ 0 <= i /\ i < iBlockCoun[p]
BY PoolAssumption DEF Idx

(* The free list that mem_share_blkinit builds lists the blocks in order. *)
LEMMA InitInv == Init => IInv
<1> SUFFICES ASSUME Init PROVE IInv
  OBVIOUS
<1>1. TypeOK
  <2>1. \A b \in Blocks : iNext[b] \in Idx(b[1]) \cup {INVALID_IDX}
    BY BlockPairs, IdxRange DEF Init, INVALID_IDX
  <2>2. iNext \in [Blocks -> Int]
    BY BlockPairs, IdxRange DEF Init, INVALID_IDX
  <2>3. iModule \in [Blocks -> ModId]
    BY DEF Init, ModId, MODULE_ID_MAXNUM
  <2>4. \A p \in Pools : /\ iFirstFree[p] \in Idx(p) \cup {INVALID_IDX}
                         /\ iBlockFree[p] \in 0 .. iBlockCoun[p]
                         /\ iBlockUsed[p] \in 0 .. iBlockCoun[p]
    BY IdxRange DEF Init
  <2>5. /\ iFirstFree \in [Pools -> Int] /\ iBlockUsed \in [Pools -> Int]
        /\ iBlockFree \in [Pools -> Int] /\ iUsePeakVa \in [Pools -> Nat]
        /\ sta \in [iBlockUsed : Int, iBlockFree : Int, iUsePeakVa : Int]
    BY PoolAssumption DEF Init
  <2> QED BY <2>1, <2>2, <2>3, <2>4, <2>5 DEF TypeOK
<1>2. FreeListInv
  <2> SUFFICES ASSUME NEW p \in Pools
               PROVE  /\ iBlockUsed[p] = iBlockCoun[p] - iBlockFree[p]
                      /\ \E q \in [1 .. iBlockFree[p] -> Idx(p)] : IsFreeList(p, q)
    BY DEF FreeListInv
  <2> DEFINE q == [j \in 1 .. iBlockFree[p] |-> j - 1]
  <2>1. /\ iBlockFree[p] = iBlockCoun[p] /\ iBlockUsed[p] = 0 /\ iFirstFree[p] = 0
        /\ iBlockCoun[p] \in Nat /\ iBlockCoun[p] > 0
    BY IdxRange DEF Init
  <2>2. q \in [1 .. iBlockFree[p] -> Idx(p)]
    BY <2>1, IdxRange
  <2>3. \A i \in Idx(p) : /\ <<p, i>> \in Blocks
                          /\ iModule[<<p, i>>] = 0
                          /\ iNext[<<p, i>>] = IF i + 1 < iBlockCoun[p]
                                               THEN i + 1 ELSE INVALID_IDX
    BY BlockPairs DEF Init
  <2>4. \A i \in Idx(p) : \E j \in 1 .. iBlockFree[p] : q[j] = i
    <3> TAKE i \in Idx(p)
    <3>1. i + 1 \in 1 .. iBlockFree[p] /\ q[i + 1] = i
      BY <2>1, IdxRange
    <3> QED BY <3>1
  <2>5. \A j \in 1 .. iBlockFree[p] :
          iNext[<<p, q[j]>>] = IF j = iBlockFree[p] THEN INVALID_IDX ELSE q[j + 1]
    <3> TAKE j \in 1 .. iBlockFree[p]
    <3>1. q[j] = j - 1 /\ q[j] \in Idx(p)
      BY <2>2
    <3>2. j < iBlockFree[p] => q[j + 1] = j
      BY <2>1
    <3> HIDE DEF q
    <3> QED BY <3>1, <3>2, <2>1, <2>3
  <2>6. IsFreeList(p, q)
    <3>1. \A j, k \in 1 .. iBlockFree[p] : q[j] = q[k] => j = k
      BY <2>1
    <3>2. iFirstFree[p] = IF iBlockFree[p] = 0 THEN INVALID_IDX ELSE q[1]
      BY <2>1
    <3> HIDE DEF q
    <3> QED BY <3>1, <3>2, <2>2, <2>3, <2>4, <2>5 DEF IsFreeList
  <2> QED BY <2>1, <2>2, <2>6
<1> QED BY <1>1, <1>2 DEF IInv

-----------------------------------------------------------------------------
(* A pool that a step does not touch keeps its free list. *)
LEMMA OtherPool ==
  ASSUME NEW p \in Pools, FreeListInv,
         iBlockUsed'[p] = iBlockUsed[p], iBlockFree'[p] = iBlockFree[p],
         iFirstFree'[p] = iFirstFree[p],
         \A i \in Idx(p) : /\ iNext'[<<p, i>>] = iNext[<<p, i>>]
                           /\ iModule'[<<p, i>>] = iModule[<<p, i>>]
  PROVE  /\ iBlockUsed'[p] = iBlockCoun[p] - iBlockFree'[p]
         /\ \E q \in [1 .. iBlockFree'[p] -> Idx(p)] : IsFreeList(p, q)'
<1>1. PICK q \in [1 .. iBlockFree[p] -> Idx(p)] : IsFreeList(p, q)
  BY DEF FreeListInv
<1>2. \A j \in 1 .. iBlockFree[p] : iNext'[<<p, q[j]>>] = iNext[<<p, q[j]>>]
  BY <1>1
<1>3. IsFreeList(p, q)'
  BY <1>1, <1>2 DEF IsFreeList
<1> QED BY <1>1, <1>3 DEF FreeListInv

(* What mem_share_malloc sees in the pool it takes from: the head of the list
   is a block without owner, and the "empty" test fires exactly when it was
   the last one. *)
LEMMA HeadOfList ==
  ASSUME IInv, NEW p \in Pools, iBlockFree[p] > 0
  PROVE  /\ iFirstFree[p] \in Idx(p)
         /\ <<p, iFirstFree[p]>> \in Blocks
         /\ iModule[<<p, iFirstFree[p]>>] = 0
         /\ iNext[<<p, iFirstFree[p]>>] < 0 <=> iBlockFree[p] = 1
<1> USE DEF IInv
<1>1. PICK q \in [1 .. iBlockFree[p] -> Idx(p)] : IsFreeList(p, q)
  BY DEF FreeListInv
<1>2. iBlockFree[p] \in Nat /\ 1 \in 1 .. iBlockFree[p]
  BY DEF TypeOK
<1>3. q[1] \in Idx(p) /\ iFirstFree[p] = q[1]
  BY <1>1, <1>2 DEF IsFreeList
<1>4. iModule[<<p, q[1]>>] = 0
  BY <1>1, <1>2, <1>3 DEF IsFreeList
<1>5. iNext[<<p, q[1]>>] = IF 1 = iBlockFree[p] THEN INVALID_IDX ELSE q[1 + 1]
  BY <1>1, <1>2 DEF IsFreeList
<1>6. iBlockFree[p] # 1 => q[1 + 1] \in Idx(p)
  BY <1>1, <1>2
<1>7. iNext[<<p, q[1]>>] < 0 <=> iBlockFree[p] = 1
  BY <1>5, <1>6, <1>2, IdxRange DEF INVALID_IDX
<1> QED BY <1>3, <1>4, <1>7, BlockPairs

(* Pigeonhole: n different numbers below m that miss one of them. *)
LEMMA Pigeonhole ==
  ASSUME NEW n \in Nat, NEW m \in Nat, NEW i \in 0 .. m - 1,
         NEW q \in [1 .. n -> (0 .. m - 1) \ {i}],
         \A j, k \in 1 .. n : q[j] = q[k] => j = k
  PROVE  n < m
<1>1. 1 \in Int /\ n \in Int /\ 0 \in Int /\ m - 1 \in Int
  OBVIOUS
<1>2. /\ IsFiniteSet(1 .. n)
      /\ Cardinality(1 .. n) = IF 1 > n THEN 0 ELSE n - 1 + 1
  BY <1>1, FS_Interval, Zenon
<1>3. /\ IsFiniteSet(0 .. m - 1)
      /\ Cardinality(0 .. m - 1) = IF 0 > m - 1 THEN 0 ELSE m - 1 - 0 + 1
  BY <1>1, FS_Interval, Zenon
<1>4. /\ IsFiniteSet((0 .. m - 1) \ {i})
      /\ Cardinality((0 .. m - 1) \ {i}) = Cardinality(0 .. m - 1) - 1
  BY <1>3, FS_RemoveElement
<1>5. ~(Cardinality((0 .. m - 1) \ {i}) < Cardinality(1 .. n))
  <2> SUFFICES ASSUME Cardinality((0 .. m - 1) \ {i}) < Cardinality(1 .. n)
               PROVE  FALSE
    OBVIOUS
  <2>1. \E x, y \in 1 .. n : x # y /\ q[x] = q[y]
    <3> DEFINE S == 1 .. n
               T == (0 .. m - 1) \ {i}
    <3>1. IsFiniteSet(S) /\ IsFiniteSet(T) /\ Cardinality(T) < Cardinality(S)
      BY <1>2, <1>4
    <3>2. q \in [S -> T]
      OBVIOUS
    <3> HIDE DEF S, T
    <3>3. \E x, y \in S : x # y /\ q[x] = q[y]
      BY <3>1, <3>2, FS_PigeonHole
    <3> QED BY <3>3 DEF S
  <2> QED BY <2>1
<1>6. Cardinality(1 .. n) = n /\ Cardinality(0 .. m - 1) = m
  BY <1>2, <1>3
<1> QED BY <1>4, <1>5, <1>6

(* While a block of a pool is in use, the list of its free blocks is shorter
   than the pool, so mem_share_free cannot overrun the counters. *)
LEMMA FreeRoom ==
  ASSUME IInv, NEW b \in Blocks, iModule[b] # 0
  PROVE  iBlockFree[b[1]] < iBlockCoun[b[1]]
<1> DEFINE p == b[1]
<1>1. p \in Pools /\ b[2] \in Idx(p) /\ b = <<p, b[2]>>
  BY BlockPairs
<1>2. iBlockFree[p] \in Nat /\ iBlockCoun[p] \in Nat
  BY <1>1, IdxRange DEF IInv, TypeOK
<1>3. PICK q \in [1 .. iBlockFree[p] -> Idx(p)] : IsFreeList(p, q)
  BY <1>1 DEF IInv, FreeListInv
<1>4. \A j \in 1 .. iBlockFree[p] : q[j] # b[2]
  BY <1>1, <1>3 DEF IsFreeList
<1>5. q \in [1 .. iBlockFree[p] -> (0 .. iBlockCoun[p] - 1) \ {b[2]}]
  BY <1>3, <1>4 DEF Idx
<1>6. \A j, k \in 1 .. iBlockFree[p] : q[j] = q[k] => j = k
  BY <1>3 DEF IsFreeList
<1>7. b[2] \in 0 .. iBlockCoun[p] - 1
  BY <1>1 DEF Idx
<1> HIDE DEF p
<1>8. iBlockFree[p] < iBlockCoun[p]
  BY <1>2, <1>5, <1>6, <1>7, Pigeonhole
<1> QED BY <1>8 DEF p

-----------------------------------------------------------------------------
(* mem_share_malloc preserves the invariant: the list loses its head. *)
LEMMA MallocInv ==
  ASSUME IInv, NEW iSize \in Sizes, NEW iMod \in Modules, MallocTake(iSize, iMod)
  PROVE  IInv'
<1>1. PICK p \in Pools :
        /\ IsFound(p, iSize)
        /\ iFirstFree[p] >= 0
        /\ LET obj   == <<p, iFirstFree[p]>>
               left  == iBlockFree[p] - 1
               empty == left <= 0 \/ iNext[obj] < 0
           IN /\ iModule'    = [iModule EXCEPT ![obj] = iMod]
              /\ iFirstFree' = [iFirstFree EXCEPT
                                  ![p] = IF empty THEN INVALID_IDX ELSE iNext[obj]]
              /\ iBlockFree' = [iBlockFree EXCEPT ![p] = IF empty THEN 0 ELSE left]
              /\ iBlockUsed' = [iBlockUsed EXCEPT ![p] = @ + 1]
              /\ iUsePeakVa' = [iUsePeakVa EXCEPT
                                  ![p] = Larger(@, iBlockUsed[p] + 1)]
              /\ iNext'      = [iNext EXCEPT ![obj] = INVALID_IDX]
  BY DEF MallocTake
<1> DEFINE obj == <<p, iFirstFree[p]>>
           n   == iBlockFree[p]
<1>2. TypeOK /\ FreeListInv /\ n \in Nat /\ n > 0 /\ n <= iBlockCoun[p]
  BY <1>1, IdxRange DEF IInv, TypeOK, IsFound, Candidates
<1>3. /\ iFirstFree[p] \in Idx(p) /\ obj \in Blocks /\ iModule[obj] = 0
      /\ iNext[obj] < 0 <=> n = 1
  BY <1>2, HeadOfList
<1>4. PICK q \in [1 .. n -> Idx(p)] : IsFreeList(p, q)
  BY <1>2 DEF FreeListInv
<1>5a. (iBlockFree[p] - 1 <= 0 \/ iNext[obj] < 0) <=> n = 1
  BY <1>2, <1>3
<1>5. /\ iBlockFree' = [iBlockFree EXCEPT ![p] = n - 1]
      /\ iFirstFree' = [iFirstFree EXCEPT
                          ![p] = IF n = 1 THEN INVALID_IDX ELSE iNext[obj]]
  <2> HIDE DEF obj
  <2>1. n = 1 => n - 1 = 0
    BY <1>2
  <2> QED BY <1>1, <1>5a, <2>1, Zenon DEF obj
<1>6. iMod \in ModId /\ iMod # 0
  BY RequestAssumption DEF MallocTake, ValidRequest, ModId, MODULE_ID_MAXNUM
<1>7. iBlockUsed[p] = iBlockCoun[p] - n
  BY <1>2 DEF FreeListInv
<1>8. TypeOK'
  <2>1. iNext' \in [Blocks -> Int] /\ iModule' \in [Blocks -> ModId]
    <3>1. INVALID_IDX \in Int
      BY DEF INVALID_IDX
    <3>2. iNext' = [iNext EXCEPT ![obj] = INVALID_IDX]
      BY <1>1
    <3>3. iModule' = [iModule EXCEPT ![obj] = iMod]
      BY <1>1
    <3> QED BY <3>1, <3>2, <3>3, <1>2, <1>6 DEF TypeOK
  <2>2. \A b \in Blocks : iNext'[b] \in Idx(b[1]) \cup {INVALID_IDX}
    BY <1>1, <1>2 DEF TypeOK
  <2>3. /\ iFirstFree' \in [Pools -> Int] /\ iBlockFree' \in [Pools -> Int]
        /\ iBlockUsed' \in [Pools -> Int]
    BY <1>1, <1>2, <1>3, <1>5 DEF TypeOK, INVALID_IDX
  <2>4. \A r \in Pools : /\ iFirstFree'[r] \in Idx(r) \cup {INVALID_IDX}
                         /\ iBlockFree'[r] \in 0 .. iBlockCoun[r]
                         /\ iBlockUsed'[r] \in 0 .. iBlockCoun[r]
    <3> TAKE r \in Pools
    <3>1. CASE r = p
      <4>1. iNext[obj] \in Idx(p) \cup {INVALID_IDX}
        BY <1>2, <1>3 DEF TypeOK
      <4> QED BY <3>1, <4>1, <1>1, <1>2, <1>5, <1>7, IdxRange, SMTT(30) DEF TypeOK
    <3>2. CASE r # p
      BY <3>2, <1>1, <1>2, <1>5 DEF TypeOK
    <3> QED BY <3>1, <3>2
  <2>5. iUsePeakVa' \in [Pools -> Nat]
    BY <1>1, <1>2, <1>7, IdxRange DEF TypeOK, Larger
  <2>6. sta' \in [iBlockUsed : Int, iBlockFree : Int, iUsePeakVa : Int]
    BY <1>2, SMTT(30) DEF TypeOK, MallocTake, Larger
  <2> QED BY <2>1, <2>2, <2>3, <2>4, <2>5, <2>6 DEF TypeOK
<1>9. FreeListInv'
  <2> SUFFICES ASSUME NEW r \in Pools
               PROVE  /\ iBlockUsed'[r] = iBlockCoun[r] - iBlockFree'[r]
                      /\ \E s \in [1 .. iBlockFree'[r] -> Idx(r)] : IsFreeList(r, s)'
    BY DEF FreeListInv
  <2>1. CASE r # p
    <3>1. \A i \in Idx(r) : <<r, i>> \in Blocks /\ <<r, i>> # obj
      BY <2>1, BlockPairs
    <3>2. \A i \in Idx(r) : /\ iNext'[<<r, i>>] = iNext[<<r, i>>]
                            /\ iModule'[<<r, i>>] = iModule[<<r, i>>]
      BY <3>1, <1>1, <1>2 DEF TypeOK
    <3>3. /\ iBlockUsed'[r] = iBlockUsed[r] /\ iBlockFree'[r] = iBlockFree[r]
          /\ iFirstFree'[r] = iFirstFree[r]
      BY <2>1, <1>1, <1>2, <1>5 DEF TypeOK
    <3> QED BY <3>2, <3>3, <1>2, OtherPool
  <2>2. CASE r = p
    <3>1. iBlockFree'[p] = n - 1 /\ iBlockUsed'[p] = iBlockUsed[p] + 1
      BY <1>1, <1>2, <1>5 DEF TypeOK
    <3>2. PICK s \in [1 .. n - 1 -> Idx(p)] : \A j \in 1 .. n - 1 : s[j] = q[j + 1]
      <4> DEFINE t == [j \in 1 .. n - 1 |-> q[j + 1]]
      <4>1. t \in [1 .. n - 1 -> Idx(p)] /\ \A j \in 1 .. n - 1 : t[j] = q[j + 1]
        BY <1>2
      <4> QED BY <4>1
    <3>3. /\ \A j, k \in 1 .. n : q[j] = q[k] => j = k
          /\ q[1] = iFirstFree[p]
          /\ \A i \in Idx(p) : iModule[<<p, i>>] = 0 <=> \E j \in 1 .. n : q[j] = i
          /\ \A j \in 1 .. n :
               iNext[<<p, q[j]>>] = IF j = n THEN INVALID_IDX ELSE q[j + 1]
      BY <1>2, <1>4 DEF IsFreeList
    <3>4. \A i \in Idx(p) :
            /\ iModule'[<<p, i>>] = IF i = iFirstFree[p] THEN iMod ELSE iModule[<<p, i>>]
            /\ iNext'[<<p, i>>] = IF i = iFirstFree[p] THEN INVALID_IDX
                                  ELSE iNext[<<p, i>>]
      BY <1>1, <1>2, BlockPairs DEF TypeOK
    <3>5. \A j, k \in 1 .. n - 1 : s[j] = s[k] => j = k
      BY <3>2, <3>3, <1>2
    <3>6. \A j \in 1 .. n - 1 : s[j] # iFirstFree[p] /\ s[j] \in Idx(p)
      BY <3>2, <3>3, <1>2
    <3>7. \A i \in Idx(p) : iModule'[<<p, i>>] = 0 <=> \E j \in 1 .. n - 1 : s[j] = i
      <4> TAKE i \in Idx(p)
      <4>1. CASE i = iFirstFree[p]
        BY <4>1, <3>4, <3>6, <1>6
      <4>2. CASE i # iFirstFree[p]
        <5>1. iModule'[<<p, i>>] = 0 <=> \E j \in 1 .. n : q[j] = i
          BY <4>2, <3>3, <3>4
        <5>2. ASSUME NEW j \in 1 .. n, q[j] = i
              PROVE  j - 1 \in 1 .. n - 1 /\ s[j - 1] = i
          BY <5>2, <4>2, <3>2, <3>3, <1>2
        <5>3. \A j \in 1 .. n - 1 : j + 1 \in 1 .. n /\ s[j] = q[j + 1]
          BY <3>2, <1>2
        <5> QED BY <5>1, <5>2, <5>3
      <4> QED BY <4>1, <4>2
    <3>8. iFirstFree'[p] = IF n - 1 = 0 THEN INVALID_IDX ELSE s[1]
      BY <1>2, <1>5, <3>2, <3>3 DEF TypeOK
    <3>9. \A j \in 1 .. n - 1 :
            iNext'[<<p, s[j]>>] = IF j = n - 1 THEN INVALID_IDX ELSE s[j + 1]
      <4> TAKE j \in 1 .. n - 1
      <4>1. iNext'[<<p, s[j]>>] = iNext[<<p, q[j + 1]>>]
        BY <3>2, <3>4, <3>6
      <4>2. j + 1 \in 1 .. n
        BY <1>2
      <4>3. iNext[<<p, q[j + 1]>>] = IF j + 1 = n THEN INVALID_IDX ELSE q[j + 1 + 1]
        BY <3>3, <4>2
      <4>4. j # n - 1 => s[j + 1] = q[j + 1 + 1]
        BY <3>2, <1>2
      <4> QED BY <4>1, <4>3, <4>4, <1>2
    <3>10. IsFreeList(p, s)'
      BY <3>1, <3>2, <3>5, <3>7, <3>8, <3>9 DEF IsFreeList
    <3> QED BY <2>2, <3>1, <3>2, <3>10, <1>2, <1>7, IdxRange
  <2> QED BY <2>1, <2>2
<1> QED BY <1>8, <1>9 DEF IInv

(* A call that changes nothing, and stuttering, preserve the invariant. *)
LEMMA StutterInv == IInv /\ UNCHANGED vars => IInv'
<1> SUFFICES ASSUME IInv, UNCHANGED vars PROVE IInv'
  OBVIOUS
<1> USE DEF IInv, vars
<1>1. TypeOK'
  BY DEF TypeOK
<1>2. \A p, q : IsFreeList(p, q)' <=> IsFreeList(p, q)
  BY DEF IsFreeList
<1>3. FreeListInv'
  BY <1>2 DEF FreeListInv
<1> QED BY <1>1, <1>3

(* mem_share_free preserves the invariant: the block becomes the new head. *)
LEMMA FreeInv ==
  ASSUME IInv, NEW b \in Blocks, NEW k, Free(b, k)
  PROVE  IInv'
<1> DEFINE p == b[1]
           n == iBlockFree[p]
<1>1. CASE ~(k = 0 /\ iModule[b] > 0)
  BY <1>1, StutterInv DEF Free
<1>2. CASE k = 0 /\ iModule[b] > 0
  <2>1. /\ iModule'    = [iModule EXCEPT ![b] = 0]
        /\ iNext'      = [iNext EXCEPT ![b] = iFirstFree[p]]
        /\ iBlockUsed' = [iBlockUsed EXCEPT ![p] = @ - 1]
        /\ iBlockFree' = [iBlockFree EXCEPT ![p] = @ + 1]
        /\ iFirstFree' = [iFirstFree EXCEPT ![p] = b[2]]
        /\ sta' = [sta EXCEPT !.iBlockUsed = @ - 1, !.iBlockFree = @ + 1]
        /\ UNCHANGED iUsePeakVa
    BY <1>2 DEF Free
  <2>2. TypeOK /\ FreeListInv
    BY DEF IInv
  <2>3. p \in Pools /\ b[2] \in Idx(p) /\ b = <<p, b[2]>>
    BY BlockPairs
  <2>4. /\ n \in Nat /\ iBlockCoun[p] \in Nat /\ n < iBlockCoun[p]
        /\ iBlockUsed[p] = iBlockCoun[p] - n
    <3>1. iModule[b] # 0
      BY <1>2
    <3>2. n < iBlockCoun[p]
      BY <3>1, FreeRoom
    <3>3. n \in Nat /\ iBlockCoun[p] \in Nat
      BY <2>2, <2>3, IdxRange DEF TypeOK
    <3>4. iBlockUsed[p] = iBlockCoun[p] - n
      BY <2>2, <2>3 DEF FreeListInv
    <3> QED BY <3>2, <3>3, <3>4
  <2>5. /\ iFirstFree[p] \in Int /\ b[2] \in Int /\ 0 \in ModId
        /\ iFirstFree[p] \in Idx(p) \cup {INVALID_IDX}
    BY <2>2, <2>3, IdxRange DEF TypeOK, ModId, MODULE_ID_MAXNUM
  <2>6. TypeOK'
    <3>1. iNext' \in [Blocks -> Int] /\ iModule' \in [Blocks -> ModId]
      BY <2>1, <2>2, <2>5 DEF TypeOK
    <3>2. \A c \in Blocks : iNext'[c] \in Idx(c[1]) \cup {INVALID_IDX}
      BY <2>1, <2>2, <2>5 DEF TypeOK
    <3>3. /\ iFirstFree' \in [Pools -> Int] /\ iBlockFree' \in [Pools -> Int]
          /\ iBlockUsed' \in [Pools -> Int]
      <4>1. iFirstFree' \in [Pools -> Int]
        BY <2>1, <2>2, <2>5 DEF TypeOK
      <4>2. iBlockFree' \in [Pools -> Int]
        BY <2>1, <2>2, <2>3 DEF TypeOK
      <4>3. iBlockUsed' \in [Pools -> Int]
        BY <2>1, <2>2, <2>3 DEF TypeOK
      <4> QED BY <4>1, <4>2, <4>3
    <3>4. \A r \in Pools : /\ iFirstFree'[r] \in Idx(r) \cup {INVALID_IDX}
                           /\ iBlockFree'[r] \in 0 .. iBlockCoun[r]
                           /\ iBlockUsed'[r] \in 0 .. iBlockCoun[r]
      <4> TAKE r \in Pools
      <4>1. CASE r = p
        BY <4>1, <2>1, <2>2, <2>3, <2>4 DEF TypeOK
      <4>2. CASE r # p
        BY <4>2, <2>1, <2>2 DEF TypeOK
      <4> QED BY <4>1, <4>2
    <3>5. /\ iUsePeakVa' \in [Pools -> Nat]
          /\ sta' \in [iBlockUsed : Int, iBlockFree : Int, iUsePeakVa : Int]
      <4>1. iUsePeakVa' \in [Pools -> Nat]
        BY <2>1, <2>2 DEF TypeOK
      <4>2. sta \in [iBlockUsed : Int, iBlockFree : Int, iUsePeakVa : Int]
        BY <2>2 DEF TypeOK
      <4>3. sta' = [sta EXCEPT !.iBlockUsed = @ - 1, !.iBlockFree = @ + 1]
        BY <2>1
      <4>4. sta' = [iBlockUsed |-> sta.iBlockUsed - 1,
                    iBlockFree |-> sta.iBlockFree + 1,
                    iUsePeakVa |-> sta.iUsePeakVa]
        BY <4>2, <4>3
      <4>5. sta' \in [iBlockUsed : Int, iBlockFree : Int, iUsePeakVa : Int]
        BY <4>2, <4>4
      <4> QED BY <4>1, <4>5
    <3> QED BY <3>1, <3>2, <3>3, <3>4, <3>5 DEF TypeOK
  <2>7. FreeListInv'
    <3> SUFFICES ASSUME NEW r \in Pools
                 PROVE  /\ iBlockUsed'[r] = iBlockCoun[r] - iBlockFree'[r]
                        /\ \E s \in [1 .. iBlockFree'[r] -> Idx(r)] :
                             IsFreeList(r, s)'
      BY DEF FreeListInv
    <3>1. CASE r # p
      <4>1. \A i \in Idx(r) : <<r, i>> \in Blocks /\ <<r, i>> # b
        BY <3>1, <2>3, BlockPairs
      <4>2. \A i \in Idx(r) : /\ iNext'[<<r, i>>] = iNext[<<r, i>>]
                              /\ iModule'[<<r, i>>] = iModule[<<r, i>>]
        BY <4>1, <2>1, <2>2 DEF TypeOK
      <4>3. /\ iBlockUsed'[r] = iBlockUsed[r] /\ iBlockFree'[r] = iBlockFree[r]
            /\ iFirstFree'[r] = iFirstFree[r]
        BY <3>1, <2>1, <2>2 DEF TypeOK
      <4> QED BY <4>2, <4>3, <2>2, OtherPool
    <3>2. CASE r = p
      <4>1. PICK q \in [1 .. n -> Idx(p)] : IsFreeList(p, q)
        BY <2>2, <2>3 DEF FreeListInv
      <4>2. PICK s \in [1 .. n + 1 -> Idx(p)] :
              s[1] = b[2] /\ \A j \in 1 .. n : s[j + 1] = q[j]
        <5> DEFINE t == [j \in 1 .. n + 1 |-> IF j = 1 THEN b[2] ELSE q[j - 1]]
        <5>1. t \in [1 .. n + 1 -> Idx(p)]
          BY <2>3, <2>4
        <5>2. t[1] = b[2] /\ \A j \in 1 .. n : t[j + 1] = q[j]
          BY <2>4
        <5> QED BY <5>1, <5>2
      <4>3. /\ \A j, l \in 1 .. n : q[j] = q[l] => j = l
            /\ \A i \in Idx(p) : iModule[<<p, i>>] = 0 <=> \E j \in 1 .. n : q[j] = i
            /\ iFirstFree[p] = IF n = 0 THEN INVALID_IDX ELSE q[1]
            /\ \A j \in 1 .. n :
                 iNext[<<p, q[j]>>] = IF j = n THEN INVALID_IDX ELSE q[j + 1]
        BY <4>1 DEF IsFreeList
      <4>4. iBlockFree'[p] = n + 1 /\ iBlockUsed'[p] = iBlockUsed[p] - 1
        BY <2>1, <2>2, <2>3 DEF TypeOK
      <4>5. \A i \in Idx(p) :
              /\ iModule'[<<p, i>>] = IF i = b[2] THEN 0 ELSE iModule[<<p, i>>]
              /\ iNext'[<<p, i>>] = IF i = b[2] THEN iFirstFree[p] ELSE iNext[<<p, i>>]
        BY <2>1, <2>2, <2>3, BlockPairs DEF TypeOK
      <4>6. \A j \in 1 .. n : q[j] # b[2] /\ q[j] \in Idx(p)
        BY <1>2, <2>3, <4>1, <4>3
      <4>7. \A j \in 1 .. n + 1 : j = 1 \/ (j - 1 \in 1 .. n /\ s[j] = q[j - 1])
        BY <2>4, <4>2
      <4>8. \A j, l \in 1 .. n + 1 : s[j] = s[l] => j = l
        BY <4>2, <4>3, <4>6, <4>7, <2>4
      <4>9. \A i \in Idx(p) :
              iModule'[<<p, i>>] = 0 <=> \E j \in 1 .. n + 1 : s[j] = i
        <5> TAKE i \in Idx(p)
        <5>1. CASE i = b[2]
          BY <5>1, <4>2, <4>5, <2>4
        <5>2. CASE i # b[2]
          <6>1. iModule'[<<p, i>>] = 0 <=> \E j \in 1 .. n : q[j] = i
            BY <5>2, <4>3, <4>5
          <6>2. \A j \in 1 .. n : j + 1 \in 1 .. n + 1 /\ s[j + 1] = q[j]
            BY <4>2, <2>4
          <6>3. ASSUME NEW j \in 1 .. n + 1, s[j] = i
                PROVE  \E l \in 1 .. n : q[l] = i
            BY <6>3, <5>2, <4>2, <4>7
          <6> QED BY <6>1, <6>2, <6>3
        <5> QED BY <5>1, <5>2
      <4>10. iFirstFree'[p] = s[1] /\ n + 1 # 0
        BY <2>1, <2>2, <2>3, <2>4, <4>2 DEF TypeOK
      <4>11. \A j \in 1 .. n + 1 :
               iNext'[<<p, s[j]>>] = IF j = n + 1 THEN INVALID_IDX ELSE s[j + 1]
        <5> TAKE j \in 1 .. n + 1
        <5>1. CASE j = 1
          <6>1. iNext'[<<p, s[1]>>] = iFirstFree[p]
            BY <4>2, <4>5, <2>3
          <6>2. n # 0 => s[1 + 1] = q[1]
            BY <4>2, <2>4
          <6> QED BY <5>1, <6>1, <6>2, <4>3, <2>4
        <5>2. CASE j # 1
          <6>1. j - 1 \in 1 .. n /\ s[j] = q[j - 1]
            BY <5>2, <4>7
          <6>2. iNext'[<<p, s[j]>>] = iNext[<<p, q[j - 1]>>]
            BY <6>1, <4>5, <4>6
          <6>3. iNext[<<p, q[j - 1]>>]
                  = IF j - 1 = n THEN INVALID_IDX ELSE q[j - 1 + 1]
            BY <6>1, <4>3
          <6>4. j # n + 1 => j \in 1 .. n /\ s[j + 1] = q[j]
            BY <4>2, <2>4
          <6> QED BY <6>2, <6>3, <6>4, <2>4
        <5> QED BY <5>1, <5>2
      <4>12. IsFreeList(p, s)'
        BY <4>4, <4>2, <4>8, <4>9, <4>10, <4>11 DEF IsFreeList
      <4> QED BY <3>2, <4>4, <4>2, <4>12, <2>4
    <3> QED BY <3>1, <3>2
  <2> QED BY <2>6, <2>7 DEF IInv
<1> QED BY <1>1, <1>2

(* Every step of the allocator preserves the invariant. *)
LEMMA NextInv == IInv /\ [Next]_vars => IInv'
<1> SUFFICES ASSUME IInv, [Next]_vars PROVE IInv'
  OBVIOUS
<1>1. ASSUME NEW iSize \in Sizes, NEW iMod \in Modules, MallocTake(iSize, iMod)
      PROVE  IInv'
  BY <1>1, MallocInv
<1>2. CASE UNCHANGED vars
  BY <1>2, StutterInv
<1>3. ASSUME NEW iSize \in Sizes, NEW iMod \in Modules, MallocNull(iSize, iMod)
      PROVE  IInv'
  BY <1>3, <1>2 DEF MallocNull
<1>4. ASSUME NEW b \in Blocks, NEW k, Free(b, k) PROVE IInv'
  BY <1>4, FreeInv
<1>5. ASSUME NEW b \in Blocks, NEW k, FreeByData(b, k) PROVE IInv'
  BY <1>5, <1>4 DEF FreeByData
<1> QED BY <1>1, <1>2, <1>3, <1>4, <1>5 DEF Next

(* The invariant holds in every reachable state. *)
THEOREM Invariance == Spec => []IInv
BY InitInv, NextInv, PTL DEF Spec

-----------------------------------------------------------------------------
(* Type correctness, the range of the counters included. *)
THEOREM TypeCorrect == Spec => []TypeOK
<1>1. IInv => TypeOK
  BY DEF IInv
<1> QED BY Invariance, <1>1, PTL

(* Whatever sequence of malloc, free, repeated free and interior free the
   processes issue, the free lists stay intact and the counters exact. *)
THEOREM FreeListIntact == Spec => []FreeListInv
<1>1. IInv => FreeListInv
  BY DEF IInv
<1> QED BY Invariance, <1>1, PTL

(* A nonempty set of pools has a first one in table order. *)
LEMMA LeastElement ==
  ASSUME NEW C \in SUBSET Nat, C # {}
  PROVE  \E m \in C : \A x \in C : m <= x
<1> DEFINE R == OpToRel(<, Nat)
<1>1. IsWellFoundedOn(R, Nat)
  BY NatLessThanWellFounded
<1>2. \A x, y \in Nat : x < y => <<x, y>> \in R
  BY DEF OpToRel
<1> HIDE DEF R
<1>3. PICK m \in C : \A x \in C : ~(<<x, m>> \in R)
  BY <1>1, WFMin
<1>4. \A x \in C : ~(x < m)
  BY <1>2, <1>3
<1>5. \A x \in C : m <= x
  BY <1>4
<1> QED BY <1>5

(* mem_share_malloc serves a request whenever a large enough block has no
   owner: the counter it searches by and the list it takes from agree. *)
THEOREM Serves == Spec => []NoFalseExhaustion
<1>1. IInv => NoFalseExhaustion
  <2> SUFFICES ASSUME IInv, NEW iSize \in Sizes, NEW b \in Blocks,
                      AlSize(iSize) <= iBlockSize[b[1]], iModule[b] = 0
               PROVE  \E p \in Pools : IsFound(p, iSize) /\ iFirstFree[p] >= 0
    BY DEF NoFalseExhaustion
  <2>1. b[1] \in Pools /\ b[2] \in Idx(b[1]) /\ b = <<b[1], b[2]>>
    BY BlockPairs
  <2>2. PICK q \in [1 .. iBlockFree[b[1]] -> Idx(b[1])] : IsFreeList(b[1], q)
    BY <2>1 DEF IInv, FreeListInv
  <2>3. \E j \in 1 .. iBlockFree[b[1]] : q[j] = b[2]
    BY <2>1, <2>2 DEF IsFreeList
  <2>4. iBlockFree[b[1]] > 0
    BY <2>1, <2>3 DEF IInv, TypeOK
  <2>5. b[1] \in Candidates(iSize)
    BY <2>1, <2>4 DEF Candidates
  <2>6. PICK p \in Candidates(iSize) : \A r \in Candidates(iSize) : p <= r
    <3>1. Candidates(iSize) \in SUBSET Nat
      BY PoolAssumption DEF Candidates, Pools
    <3> QED BY <2>5, <3>1, LeastElement
  <2>7. p \in Pools /\ iBlockFree[p] > 0 /\ IsFound(p, iSize)
    BY <2>6 DEF Candidates, IsFound
  <2>8. iFirstFree[p] >= 0
    BY <2>7, HeadOfList, IdxRange
  <2> QED BY <2>7, <2>8
<1> QED BY Invariance, <1>1, PTL

(* A block in use never passes to another module without being freed. *)
THEOREM Ownership == Spec => OwnerStable
<1>1. ASSUME IInv, [Next]_vars, NEW b \in Blocks
      PROVE  OwnerStep(b)
  <2>1. ASSUME NEW iSize \in Sizes, NEW iMod \in Modules, MallocTake(iSize, iMod)
        PROVE  OwnerStep(b)
    <3>1. PICK p \in Pools :
            /\ IsFound(p, iSize)
            /\ iModule' = [iModule EXCEPT ![<<p, iFirstFree[p]>>] = iMod]
      BY <2>1 DEF MallocTake
    <3>2. iModule[<<p, iFirstFree[p]>>] = 0 /\ <<p, iFirstFree[p]>> \in Blocks
      BY <1>1, <3>1, HeadOfList DEF IsFound, Candidates
    <3> QED BY <1>1, <3>1, <3>2 DEF OwnerStep, IInv, TypeOK
  <2>2. ASSUME NEW c \in Blocks, NEW k, Free(c, k)
        PROVE  OwnerStep(b)
    BY <1>1, <2>2 DEF Free, OwnerStep, IInv, TypeOK, vars
  <2>3. CASE UNCHANGED vars
    BY <2>3 DEF OwnerStep, vars
  <2> QED BY <1>1, <2>1, <2>2, <2>3 DEF Next, MallocNull, FreeByData
<1>2. IInv /\ [Next]_vars => [\A b \in Blocks : OwnerStep(b)]_vars
  BY <1>1
<1> QED BY Invariance, <1>2, PTL DEF Spec, OwnerStable

-----------------------------------------------------------------------------
(* What holds of 0 and passes from each number to the next holds up to the last pool: the
   least number of which it does not hold would have a predecessor. *)
LEMMA UpToPools ==
  ASSUME NEW S, 0 \in S, \A p \in Pools : p - 1 \in S => p \in S
  PROVE  \A k \in 0 .. POOL_MAX : k \in S
<1> DEFINE C == {k \in 0 .. POOL_MAX : k \notin S}
<1> SUFFICES ASSUME C # {} PROVE FALSE
  OBVIOUS
<1>1. POOL_MAX \in Nat /\ C \in SUBSET Nat
  BY PoolAssumption
<1>2. PICK m \in C : \A x \in C : m <= x
  BY <1>1, LeastElement
<1>3. m \in Pools /\ m - 1 \in 0 .. POOL_MAX /\ ~(m <= m - 1)
  BY <1>1 DEF Pools
<1>4. m - 1 \notin C
  BY <1>2, <1>3
<1> QED BY <1>3, <1>4

(* a are the sums of f over the first pools, k of them at most. *)
PartialSums(k, f, a) ==
  a \in [0 .. k -> Int] /\ a[0] = 0 /\ \A p \in 1 .. k : a[p] = a[p - 1] + f[p]

(* The sums over the first pools exist. *)
LEMMA PartialSumsExist ==
  ASSUME NEW f \in [Pools -> Int]
  PROVE  \A k \in 0 .. POOL_MAX : \E a : PartialSums(k, f, a)
<1> DEFINE S == {k \in 0 .. POOL_MAX : \E a : PartialSums(k, f, a)}
<1>0. POOL_MAX \in Nat
  BY PoolAssumption
<1>1. 0 \in S
  <2> DEFINE a == [i \in 0 .. 0 |-> 0]
  <2>1. PartialSums(0, f, a)
    BY DEF PartialSums
  <2> QED BY <1>0, <2>1
<1>2. ASSUME NEW p \in Pools, p - 1 \in S PROVE p \in S
  <2>1. PICK b : PartialSums(p - 1, f, b)
    BY <1>2
  <2>2. p \in Nat /\ p # 0 /\ p \in 0 .. POOL_MAX /\ f[p] \in Int
    BY <1>0 DEF Pools
  <2> DEFINE e(i) == IF i = p THEN b[p - 1] + f[p] ELSE b[i]
             a == [i \in 0 .. p |-> e(i)]
  <2>3. b[p - 1] \in Int /\ \A i \in 0 .. p - 1 : b[i] \in Int
    BY <2>1, <2>2 DEF PartialSums
  <2>4. \A i \in 0 .. p : e(i) \in Int
    BY <2>2, <2>3
  <2>5. e(0) = 0 /\ \A i \in 1 .. p : e(i) = e(i - 1) + f[i]
    BY <2>1, <2>2 DEF PartialSums
  <2> HIDE DEF e
  <2>6. PartialSums(p, f, a)
    BY <2>2, <2>4, <2>5 DEF PartialSums
  <2> QED BY <2>2, <2>6
<1> HIDE DEF S
<1>3. \A k \in 0 .. POOL_MAX : k \in S
  BY <1>1, <1>2, UpToPools
<1> QED BY <1>3 DEF S

(* Total is the last of them. *)
LEMMA TotalSums ==
  ASSUME NEW f \in [Pools -> Int]
  PROVE  \E a : PartialSums(POOL_MAX, f, a) /\ Total(f) = a[POOL_MAX]
<1> DEFINE Eq(a) == a = [p \in 0 .. POOL_MAX |-> IF p = 0 THEN 0 ELSE a[p - 1] + f[p]]
           c == CHOOSE a : Eq(a)
<1>0. POOL_MAX \in Nat /\ Pools = 1 .. POOL_MAX /\ POOL_MAX \in 0 .. POOL_MAX
  BY PoolAssumption DEF Pools
<1>1. PICK b : PartialSums(POOL_MAX, f, b)
  BY <1>0, PartialSumsExist
<1>2. Eq(b)
  <2>1. \A p \in 0 .. POOL_MAX : b[p] = IF p = 0 THEN 0 ELSE b[p - 1] + f[p]
    BY <1>0, <1>1 DEF PartialSums
  <2>2. b \in [0 .. POOL_MAX -> Int]
    BY <1>1 DEF PartialSums
  <2> QED BY <2>1, <2>2
<1>3. Eq(c)
  BY <1>2
<1>4. Total(f) = c[POOL_MAX]
  BY DEF Total
<1> HIDE DEF c
<1>5. \A p \in 0 .. POOL_MAX : c[p] = IF p = 0 THEN 0 ELSE c[p - 1] + f[p]
  <2> DEFINE F(p) == IF p = 0 THEN 0 ELSE c[p - 1] + f[p]
             H == [p \in 0 .. POOL_MAX |-> F(p)]
  <2>1. c = H
    BY <1>3
  <2> HIDE DEF F
  <2>2. \A p \in 0 .. POOL_MAX : H[p] = F(p)
    OBVIOUS
  <2> HIDE DEF H
  <2>3. \A p \in 0 .. POOL_MAX : c[p] = F(p)
    BY <2>1, <2>2
  <2> QED BY <2>3 DEF F
<1> HIDE DEF Eq
<1> DEFINE S == {k \in 0 .. POOL_MAX : c[k] = b[k]}
<1>6. 0 \in S
  BY <1>0, <1>1, <1>5 DEF PartialSums
<1>7. ASSUME NEW p \in Pools, p - 1 \in S PROVE p \in S
  BY <1>0, <1>1, <1>5, <1>7 DEF PartialSums
<1> HIDE DEF S
<1>8. \A k \in 0 .. POOL_MAX : k \in S
  BY <1>6, <1>7, UpToPools
<1>9. c[POOL_MAX] = b[POOL_MAX]
  BY <1>0, <1>8 DEF S
<1> QED BY <1>1, <1>4, <1>9

(* A number that changes for one pool changes the total by as much. *)
LEMMA TotalChange ==
  ASSUME NEW f \in [Pools -> Int], NEW p \in Pools, NEW d \in Int
  PROVE  Total([f EXCEPT ![p] = f[p] + d]) = Total(f) + d
<1> DEFINE g == [f EXCEPT ![p] = f[p] + d]
<1>0. POOL_MAX \in Nat /\ Pools = 1 .. POOL_MAX /\ POOL_MAX \in 0 .. POOL_MAX /\ p <= POOL_MAX /\ 0 < p /\ p \in Int
  BY PoolAssumption DEF Pools
<1>1. g \in [Pools -> Int] /\ g[p] = f[p] + d /\ \A q \in Pools \ {p} : g[q] = f[q]
  OBVIOUS
<1> HIDE DEF g
<1>2. PICK a : PartialSums(POOL_MAX, f, a) /\ Total(f) = a[POOL_MAX]
  BY TotalSums
<1>3. PICK b : PartialSums(POOL_MAX, g, b) /\ Total(g) = b[POOL_MAX]
  BY <1>1, TotalSums
<1>4. /\ a[0] = 0 /\ \A q \in Pools : a[q] = a[q - 1] + f[q] /\ a[q - 1] \in Int
      /\ b[0] = 0 /\ \A q \in Pools : b[q] = b[q - 1] + g[q] /\ b[q - 1] \in Int
  BY <1>0, <1>2, <1>3 DEF PartialSums
<1> DEFINE S == {k \in 0 .. POOL_MAX : b[k] = a[k] + (IF k >= p THEN d ELSE 0)}
<1>5. 0 \in S
  BY <1>0, <1>4
<1>6. ASSUME NEW q \in Pools, q - 1 \in S PROVE q \in S
  <2>1. b[q] = b[q - 1] + g[q] /\ a[q] = a[q - 1] + f[q] /\ a[q - 1] \in Int /\ b[q - 1] \in Int
    BY <1>4
  <2>2. b[q - 1] = a[q - 1] + (IF q - 1 >= p THEN d ELSE 0)
    BY <1>6
  <2>3. f[q] \in Int /\ g[q] = f[q] + (IF q = p THEN d ELSE 0)
    BY <1>1
  <2>4. q \in 0 .. POOL_MAX /\ q \in Int /\ (q >= p <=> q = p \/ q - 1 >= p) /\ ~(q = p /\ q - 1 >= p)
    BY <1>0
  <2>5. b[q] = a[q] + (IF q >= p THEN d ELSE 0)
    BY <2>1, <2>2, <2>3, <2>4
  <2> QED BY <2>4, <2>5
<1> HIDE DEF S
<1>7. \A k \in 0 .. POOL_MAX : k \in S
  BY <1>5, <1>6, UpToPools
<1>8. b[POOL_MAX] = a[POOL_MAX] + d
  BY <1>0, <1>7 DEF S
<1> QED BY <1>2, <1>3, <1>8 DEF g

(* Larger numbers have a larger total. *)
LEMMA TotalMonotone ==
  ASSUME NEW f \in [Pools -> Int], NEW g \in [Pools -> Int], \A q \in Pools : f[q] <= g[q]
  PROVE  Total(f) <= Total(g)
<1>0. POOL_MAX \in Nat /\ Pools = 1 .. POOL_MAX /\ POOL_MAX \in 0 .. POOL_MAX
  BY PoolAssumption DEF Pools
<1>1. PICK a : PartialSums(POOL_MAX, f, a) /\ Total(f) = a[POOL_MAX]
  BY TotalSums
<1>2. PICK b : PartialSums(POOL_MAX, g, b) /\ Total(g) = b[POOL_MAX]
  BY TotalSums
<1>3. /\ a[0] = 0 /\ \A q \in Pools : a[q] = a[q - 1] + f[q] /\ a[q - 1] \in Int
      /\ b[0] = 0 /\ \A q \in Pools : b[q] = b[q - 1] + g[q] /\ b[q - 1] \in Int
  BY <1>0, <1>1, <1>2 DEF PartialSums
<1> DEFINE S == {k \in 0 .. POOL_MAX : a[k] <= b[k]}
<1>4. 0 \in S
  BY <1>0, <1>3
<1>5. ASSUME NEW q \in Pools, q - 1 \in S PROVE q \in S
  BY <1>0, <1>3, <1>5
<1> HIDE DEF S
<1>6. \A k \in 0 .. POOL_MAX : k \in S
  BY <1>4, <1>5, UpToPools
<1> QED BY <1>0, <1>1, <1>2, <1>6 DEF S

(* A total of numbers of which none is negative is at least each of them. *)
LEMMA TotalBounds ==
  ASSUME NEW f \in [Pools -> Int], \A q \in Pools : f[q] >= 0
  PROVE  Total(f) \in Int /\ \A q \in Pools : f[q] <= Total(f)
<1>0. POOL_MAX \in Nat /\ Pools = 1 .. POOL_MAX /\ POOL_MAX \in 0 .. POOL_MAX
  BY PoolAssumption DEF Pools
<1>1. PICK a : PartialSums(POOL_MAX, f, a) /\ Total(f) = a[POOL_MAX]
  BY TotalSums
<1>2. /\ a[0] = 0 /\ \A q \in Pools : a[q] = a[q - 1] + f[q] /\ a[q - 1] \in Int
      /\ a[POOL_MAX] \in Int
  BY <1>0, <1>1 DEF PartialSums
<1> DEFINE S == {k \in 0 .. POOL_MAX : a[k] >= 0 /\ \A q \in 1 .. k : f[q] <= a[k]}
<1>3. 0 \in S
  BY <1>0, <1>2
<1>4. ASSUME NEW q \in Pools, q - 1 \in S PROVE q \in S
  <2>1. a[q - 1] >= 0 /\ (\A r \in 1 .. q - 1 : f[r] <= a[q - 1]) /\ f[q] >= 0
    BY <1>4
  <2>2. a[q] = a[q - 1] + f[q] /\ a[q - 1] \in Int /\ f[q] \in Int
    BY <1>2
  <2>3. a[q] >= 0 /\ a[q - 1] <= a[q] /\ f[q] <= a[q] /\ a[q] \in Int
    BY <2>1, <2>2
  <2>4. ASSUME NEW r \in 1 .. q PROVE f[r] <= a[q]
    <3>1. CASE r = q
      BY <2>3, <3>1
    <3>2. CASE r # q
      <4>1. r \in 1 .. q - 1 /\ r \in Pools
        BY <1>0, <3>2
      <4>2. f[r] <= a[q - 1] /\ f[r] \in Int
        BY <2>1, <4>1
      <4> QED BY <2>2, <2>3, <4>2
    <3> QED BY <3>1, <3>2
  <2>5. q \in 0 .. POOL_MAX
    BY <1>0
  <2> QED BY <2>3, <2>4, <2>5
<1> HIDE DEF S
<1>5. \A k \in 0 .. POOL_MAX : k \in S
  BY <1>3, <1>4, UpToPools
<1> QED BY <1>0, <1>1, <1>2, <1>5 DEF S

-----------------------------------------------------------------------------
(* At first all is 0. *)
LEMMA InitTotals == Init => TotalsInv
<1> SUFFICES ASSUME Init PROVE TotalsInv
  OBVIOUS
<1> DEFINE z == [p \in Pools |-> 0]
<1>1. z \in [Pools -> Int] /\ \A q \in Pools : z[q] >= 0 /\ z[q] <= 0
  OBVIOUS
<1>2. iBlockUsed = z /\ iUsePeakVa = z /\ sta = [iBlockUsed |-> 0, iBlockFree |-> 0, iUsePeakVa |-> 0]
  BY DEF Init
<1>3. POOL_MAX \in Nat /\ Pools = 1 .. POOL_MAX /\ POOL_MAX \in 0 .. POOL_MAX
  BY PoolAssumption DEF Pools
<1>4. Total(z) = 0
  <2>1. PICK a : PartialSums(POOL_MAX, z, a) /\ Total(z) = a[POOL_MAX]
    BY <1>1, TotalSums
  <2>2. a[0] = 0 /\ \A q \in Pools : a[q] = a[q - 1] + 0 /\ a[q - 1] \in Int
    BY <1>3, <2>1 DEF PartialSums
  <2> DEFINE S == {k \in 0 .. POOL_MAX : a[k] = 0}
  <2>3. 0 \in S
    BY <1>3, <2>2
  <2>4. ASSUME NEW q \in Pools, q - 1 \in S PROVE q \in S
    <3>1. a[q - 1] = 0
      BY <2>4
    <3>2. a[q] = 0
      BY <2>2, <3>1
    <3> QED BY <1>3, <3>2
  <2> HIDE DEF S
  <2>5. \A k \in 0 .. POOL_MAX : k \in S
    BY <2>3, <2>4, UpToPools
  <2> QED BY <1>3, <2>1, <2>5 DEF S
<1> HIDE DEF z
<1>5. \A p \in Pools : iUsePeakVa[p] = 0 /\ iBlockUsed[p] = 0
  BY <1>2 DEF z
<1>6. sta.iBlockUsed = 0 /\ sta.iBlockFree = 0 /\ sta.iUsePeakVa = 0
  BY <1>2
<1>7. Total(iBlockUsed) = 0 /\ Total(iUsePeakVa) = 0
  BY <1>2, <1>4
<1>8. \A p \in Pools : iUsePeakVa[p] \in iBlockUsed[p] .. sta.iUsePeakVa
  BY <1>5, <1>6
<1>9. sta.iBlockFree = - sta.iBlockUsed /\ sta.iUsePeakVa >= sta.iBlockUsed
  <2>1. \A x, y \in Int : x + y = 0 => y = - x
    OBVIOUS
  <2>2. /\ sta.iBlockUsed \in Int /\ sta.iBlockFree \in Int
        /\ sta.iBlockUsed + sta.iBlockFree = 0 /\ sta.iUsePeakVa >= sta.iBlockUsed
    BY <1>6
  <2> QED BY <2>1, <2>2
<1>10. sta.iBlockUsed = Total(iBlockUsed) /\ sta.iUsePeakVa <= Total(iUsePeakVa)
  BY <1>6, <1>7
<1> QED BY <1>8, <1>9, <1>10 DEF TotalsInv

(* The types that the totals need. *)
LEMMA TotalsTypes ==
  ASSUME TypeOK
  PROVE  /\ iBlockUsed \in [Pools -> Int] /\ \A p \in Pools : iBlockUsed[p] >= 0
         /\ iUsePeakVa \in [Pools -> Int] /\ \A p \in Pools : iUsePeakVa[p] >= 0
         /\ sta.iBlockUsed \in Int /\ sta.iBlockFree \in Int /\ sta.iUsePeakVa \in Int
<1>1. \A p \in Pools : iBlockCoun[p] \in Nat
  BY PoolAssumption
<1> QED BY <1>1 DEF TypeOK

(* mem_share_malloc: the pool's peak and the peak of all move together or not at all. *)
LEMMA MallocTotals ==
  ASSUME IInv, IInv', TotalsInv, NEW iSize, NEW iMod, MallocTake(iSize, iMod)
  PROVE  TotalsInv'
<1>1. PICK p \in Pools : /\ iBlockUsed' = [iBlockUsed EXCEPT ![p] = @ + 1]
                         /\ iUsePeakVa' = [iUsePeakVa EXCEPT ![p] = Larger(@, iBlockUsed[p] + 1)]
  BY DEF MallocTake
<1>2. sta' = [iBlockUsed |-> sta.iBlockUsed + 1,
              iBlockFree |-> sta.iBlockFree - 1,
              iUsePeakVa |-> Larger(sta.iUsePeakVa, sta.iBlockUsed + 1)]
  BY DEF MallocTake
<1>3. /\ iBlockUsed \in [Pools -> Int] /\ (\A q \in Pools : iBlockUsed[q] >= 0)
      /\ iUsePeakVa \in [Pools -> Int] /\ (\A q \in Pools : iUsePeakVa[q] >= 0)
      /\ sta.iBlockUsed \in Int /\ sta.iBlockFree \in Int /\ sta.iUsePeakVa \in Int
  BY TotalsTypes DEF IInv
<1>4. /\ iBlockUsed' \in [Pools -> Int] /\ \A q \in Pools : iBlockUsed'[q] >= 0
      /\ iUsePeakVa' \in [Pools -> Int]
  <2>1. TypeOK'
    BY DEF IInv
  <2>2. \A q \in Pools : iBlockCoun[q] \in Nat
    BY PoolAssumption
  <2> QED BY <2>1, <2>2 DEF TypeOK
<1>5. Total(iBlockUsed') = Total(iBlockUsed) + 1
  <2>1. \A d \in Int : Total([iBlockUsed EXCEPT ![p] = iBlockUsed[p] + d]) = Total(iBlockUsed) + d
    BY <1>3, TotalChange
  <2>2. Total([iBlockUsed EXCEPT ![p] = iBlockUsed[p] + 1]) = Total(iBlockUsed) + 1
    BY <2>1
  <2>3. iBlockUsed' = [iBlockUsed EXCEPT ![p] = iBlockUsed[p] + 1]
    BY <1>1
  <2> QED BY <2>2, <2>3
<1>6. /\ sta'.iBlockUsed = sta.iBlockUsed + 1 /\ sta'.iBlockFree = sta.iBlockFree - 1
      /\ sta'.iUsePeakVa \in Int /\ sta'.iUsePeakVa >= sta.iUsePeakVa
      /\ sta'.iUsePeakVa >= sta.iBlockUsed + 1
      /\ sta'.iUsePeakVa \in {sta.iUsePeakVa, sta.iBlockUsed + 1}
  BY <1>2, <1>3 DEF Larger
<1>7. \A q \in Pools : iUsePeakVa'[q] \in Int /\ iUsePeakVa[q] <= iUsePeakVa'[q] /\ iBlockUsed'[q] <= iUsePeakVa'[q]
  <2> TAKE q \in Pools
  <2>1. CASE q = p
    BY <1>1, <1>3, <2>1 DEF Larger
  <2>2. CASE q # p
    BY <1>1, <1>3, <2>2 DEF TotalsInv
  <2> QED BY <2>1, <2>2
<1>8. Total(iUsePeakVa) <= Total(iUsePeakVa') /\ Total(iBlockUsed') <= Total(iUsePeakVa')
  BY <1>3, <1>4, <1>7, TotalMonotone
<1>9. Total(iBlockUsed) \in Int /\ Total(iUsePeakVa) \in Int /\ Total(iUsePeakVa') \in Int
  <2>1. \A q \in Pools : iUsePeakVa'[q] >= 0
    BY <1>3, <1>7
  <2> QED BY <1>3, <1>4, <2>1, TotalBounds
<1>10. sta.iBlockUsed = Total(iBlockUsed) /\ sta.iBlockFree = - sta.iBlockUsed
       /\ sta.iUsePeakVa <= Total(iUsePeakVa)
       /\ \A q \in Pools : iUsePeakVa[q] <= sta.iUsePeakVa
  BY <1>3 DEF TotalsInv
<1>11. sta'.iUsePeakVa <= Total(iUsePeakVa')
  BY <1>3, <1>5, <1>6, <1>8, <1>9, <1>10
<1>12. \A q \in Pools : iUsePeakVa'[q] \in iBlockUsed'[q] .. sta'.iUsePeakVa
  <2> TAKE q \in Pools
  <2>1. iUsePeakVa'[q] \in {iUsePeakVa[q], iBlockUsed'[q]}
    BY <1>1, <1>3 DEF Larger
  <2>2. iBlockUsed'[q] <= Total(iBlockUsed') /\ Total(iBlockUsed') \in Int
    BY <1>4, TotalBounds
  <2>3. iBlockUsed'[q] <= sta'.iUsePeakVa
    BY <1>3, <1>4, <1>5, <1>6, <1>10, <2>2
  <2>4. iUsePeakVa[q] <= sta'.iUsePeakVa
    BY <1>3, <1>6, <1>10
  <2> QED BY <1>4, <1>6, <1>7, <2>1, <2>3, <2>4
<1>13. sta'.iBlockUsed = Total(iBlockUsed') /\ sta'.iBlockFree = - sta'.iBlockUsed /\ sta'.iUsePeakVa >= sta'.iBlockUsed
  BY <1>3, <1>5, <1>6, <1>10
<1> QED BY <1>11, <1>12, <1>13 DEF TotalsInv, Total

(* mem_share_free: the totals fall with the pool's counter, the peaks stay. *)
LEMMA FreeTotals ==
  ASSUME IInv, TotalsInv, NEW b \in Blocks, NEW k, Free(b, k)
  PROVE  TotalsInv'
<1> DEFINE p == b[1]
<1>1. CASE ~(k = 0 /\ iModule[b] > 0)
  BY <1>1 DEF Free, TotalsInv, vars, Total
<1>2. CASE k = 0 /\ iModule[b] > 0
  <2>1. /\ iBlockUsed' = [iBlockUsed EXCEPT ![p] = @ - 1]
        /\ sta' = [sta EXCEPT !.iBlockUsed = @ - 1, !.iBlockFree = @ + 1]
        /\ iUsePeakVa' = iUsePeakVa
    BY <1>2 DEF Free
  <2>2. /\ iBlockUsed \in [Pools -> Int] /\ (\A q \in Pools : iBlockUsed[q] >= 0)
        /\ iUsePeakVa \in [Pools -> Int]
        /\ sta.iBlockUsed \in Int /\ sta.iBlockFree \in Int /\ sta.iUsePeakVa \in Int
    BY TotalsTypes DEF IInv
  <2>3. p \in Pools
    BY BlockPairs
  <2> HIDE DEF p
  <2>4. iBlockUsed' = [iBlockUsed EXCEPT ![p] = iBlockUsed[p] + (-1)]
    BY <2>1, <2>2, <2>3
  <2>5. Total(iBlockUsed') = Total(iBlockUsed) + (-1)
    <3>1. \A d \in Int : Total([iBlockUsed EXCEPT ![p] = iBlockUsed[p] + d]) = Total(iBlockUsed) + d
      BY <2>2, <2>3, TotalChange
    <3>2. -1 \in Int
      OBVIOUS
    <3>3. Total([iBlockUsed EXCEPT ![p] = iBlockUsed[p] + (-1)]) = Total(iBlockUsed) + (-1)
      BY <3>1, <3>2
    <3> QED BY <2>4, <3>3
  <2>6. sta \in [iBlockUsed : Int, iBlockFree : Int, iUsePeakVa : Int]
    BY DEF IInv, TypeOK
  <2>7. /\ sta'.iBlockUsed = sta.iBlockUsed - 1 /\ sta'.iBlockFree = sta.iBlockFree + 1
        /\ sta'.iUsePeakVa = sta.iUsePeakVa
    BY <2>1, <2>6
  <2>8. Total(iBlockUsed) \in Int
    BY <2>2, TotalBounds
  <2>9. \A q \in Pools : iBlockUsed'[q] \in Int /\ iBlockUsed'[q] <= iBlockUsed[q]
    BY <2>1, <2>2
  <2>10. \A q \in Pools : iUsePeakVa'[q] \in iBlockUsed'[q] .. sta'.iUsePeakVa
    BY <2>1, <2>2, <2>7, <2>9 DEF TotalsInv
  <2>11. /\ sta'.iBlockUsed = Total(iBlockUsed') /\ sta'.iBlockFree = - sta'.iBlockUsed
         /\ sta'.iUsePeakVa >= sta'.iBlockUsed
    BY <2>2, <2>5, <2>7, <2>8 DEF TotalsInv
  <2>12. sta'.iUsePeakVa <= Total(iUsePeakVa')
    BY <2>1, <2>7 DEF TotalsInv
  <2> QED BY <2>10, <2>11, <2>12 DEF TotalsInv, Total
<1> QED BY <1>1, <1>2

(* The totals that the diagnostics print agree with the pools, for any pool table and after
   any calls of mem_share_malloc and mem_share_free: the sums are exact, and the peak of
   all lies between the largest peak of a pool and the sum of the peaks. *)
THEOREM TotalsAgree == Spec => []TotalsInv
<1>1. IInv /\ IInv' /\ TotalsInv /\ [Next]_vars => TotalsInv'
  <2> SUFFICES ASSUME IInv, IInv', TotalsInv, [Next]_vars PROVE TotalsInv'
    OBVIOUS
  <2>1. ASSUME NEW iSize, NEW iMod, MallocTake(iSize, iMod) PROVE TotalsInv'
    BY <2>1, MallocTotals
  <2>2. ASSUME UNCHANGED vars PROVE TotalsInv'
    BY <2>2 DEF TotalsInv, Total, vars
  <2>3. ASSUME NEW b \in Blocks, NEW k, Free(b, k) PROVE TotalsInv'
    BY <2>3, FreeTotals
  <2> QED BY <2>1, <2>2, <2>3 DEF Next, MallocNull, FreeByData
<1> QED BY <1>1, InitTotals, Invariance, PTL DEF Spec
=============================================================================
