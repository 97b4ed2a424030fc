------------------------------ MODULE MemShare ------------------------------
(***************************************************************************)
(* The shared-memory block allocator of lib/memshare.c.                    *)
(*                                                                         *)
(* One shared segment, mapped by every process of the platform, holds a    *)
(* table of pools ("chches").  A pool has iBlockCoun blocks of iBlockSize  *)
(* bytes and one control entry (mem_share_blkctl) per block.  The free     *)
(* blocks of a pool are linked through iNext, starting at iFirstFree; a    *)
(* block is in use exactly when its iModule is positive.                   *)
(*                                                                         *)
(* Every operation runs between mem_share_semdown and mem_share_semup, so  *)
(* here it is one atomic step; MemShareSem opens the critical section and  *)
(* adds processes that die inside it.  An address is a triple <<p, i, k>>: *)
(* byte k of block i of pool p.  The arithmetic that takes an offset to    *)
(* such a triple is checked in MemShareLayout.                             *)
(***************************************************************************)
EXTENDS Integers

CONSTANTS
  POOL_MAX,      \* number of pools (MEM_SHARE_CHCHE_POOL_MAX)
  iBlockSize,    \* bytes per block, for each pool
  iBlockCoun,    \* blocks, for each pool
  Modules,       \* the module ids the callers pass, valid or not
  Sizes          \* the request sizes the callers pass, valid or not

INVALID_IDX == -1            \* MEM_SHARE_INVALID_IDX
MARGIN      == 4             \* guard bytes behind the caller's data
IPC_HEADER  == 1             \* where the data of a message starts in its block

Pools == 1 .. POOL_MAX

ASSUME PoolAssumption ==
  /\ POOL_MAX \in Nat \ {0}
  /\ iBlockSize \in [Pools -> Nat \ {0}]
  /\ iBlockCoun \in [Pools -> Nat \ {0}]

ASSUME RequestAssumption == Modules \subseteq Int /\ Sizes \subseteq Int

(* mem_share_malloc accepts module ids 1 .. MODULE_ID_MAXNUM - 1. *)
MODULE_ID_MAXNUM == 51

Idx(p)  == 0 .. iBlockCoun[p] - 1
Blocks  == UNION {{p} \X Idx(p) : p \in Pools}
ModId   == 0 .. MODULE_ID_MAXNUM - 1

VARIABLES
  iNext,         \* next free block of the same pool, per block
  iModule,       \* the module a block was handed to, 0 when it is free
  iFirstFree,    \* head of the free list, per pool
  iBlockUsed,    \* blocks in use, per pool
  iBlockFree,    \* free blocks, per pool
  iUsePeakVa,    \* most blocks in use so far, per pool
  sta            \* pCheSta: the totals kept behind the last pool

vars == <<iNext, iModule, iFirstFree, iBlockUsed, iBlockFree, iUsePeakVa, sta>>

-----------------------------------------------------------------------------
(* mem_share_init: the segment is cleared and mem_share_blkinit links all the
   blocks of each pool in index order.  The totals are left at 0, so their
   free count is the negated used count. *)
Init ==
  /\ iNext = [b \in Blocks |-> IF b[2] + 1 < iBlockCoun[b[1]]
                               THEN b[2] + 1 ELSE INVALID_IDX]
  /\ iModule    = [b \in Blocks |-> 0]
  /\ iFirstFree = [p \in Pools |-> 0]
  /\ iBlockUsed = [p \in Pools |-> 0]
  /\ iBlockFree = iBlockCoun
  /\ iUsePeakVa = [p \in Pools |-> 0]
  /\ sta = [iBlockUsed |-> 0, iBlockFree |-> 0, iUsePeakVa |-> 0]

(* The caller's size with the guard bytes. *)
AlSize(iSize) == iSize + MARGIN

(* The largest block: MEM_SHARE_BLOCK_SIZE_MAX is the size of the last pool. *)
BLOCK_SIZE_MAX == iBlockSize[POOL_MAX]

(* Mutant: module id 0 slips through. *)
ValidRequest_Zero(iSize, iMod) ==
  iMod >= 0 /\ iMod < MODULE_ID_MAXNUM /\ AlSize(iSize) \in 1 .. BLOCK_SIZE_MAX

ValidRequest(iSize, iMod) ==
  /\ iMod > 0
  /\ iMod < MODULE_ID_MAXNUM
  /\ AlSize(iSize) > 0
  /\ AlSize(iSize) <= BLOCK_SIZE_MAX

(* Mutant: no recourse to the larger pools when the best one is exhausted. *)
Candidates_BestOnly(iSize) ==
  {p \in Pools : /\ AlSize(iSize) <= iBlockSize[p] /\ iBlockFree[p] > 0
                 /\ \A q \in Pools : q < p => AlSize(iSize) > iBlockSize[q]}

(* Pools whose blocks are large enough and whose counter says one is free. *)
Candidates(iSize) ==
  {p \in Pools : AlSize(iSize) <= iBlockSize[p] /\ iBlockFree[p] > 0}

(* pCheFnd: the first such pool in table order. *)
IsFound(p, iSize) ==
  /\ p \in Candidates(iSize)
  /\ \A q \in Candidates(iSize) : p <= q

(* Mutant: the peak follows the present value. *)
Larger_Last(a, b) == b

Larger(a, b) == IF a >= b THEN a ELSE b

(* mem_share_malloc, the branch that hands out a block: the head of the list
   of the pool found leaves it, and both fields are reset together when the
   counter or the list says that nothing is left. *)
MallocTake(iSize, iMod) ==
  /\ ValidRequest(iSize, iMod)
  /\ \E p \in Pools :
       /\ IsFound(p, iSize)
       /\ iFirstFree[p] >= 0
       /\ LET obj   == <<p, iFirstFree[p]>>
              left  == iBlockFree[p] - 1
              empty == left <= 0 \/ iNext[obj] < 0
          IN /\ iModule'    = [iModule EXCEPT ![obj] = iMod]
             /\ iFirstFree' = [iFirstFree EXCEPT
                                 ![p] = IF empty THEN INVALID_IDX ELSE iNext[obj]]
             /\ iBlockFree' = [iBlockFree EXCEPT ![p] = IF empty THEN 0 ELSE left]
             /\ iBlockUsed' = [iBlockUsed EXCEPT ![p] = @ + 1]
             /\ iUsePeakVa' = [iUsePeakVa EXCEPT
                                 ![p] = Larger(@, iBlockUsed[p] + 1)]
             /\ iNext'      = [iNext EXCEPT ![obj] = INVALID_IDX]
  /\ sta' = [iBlockUsed |-> sta.iBlockUsed + 1,
             iBlockFree |-> sta.iBlockFree - 1,
             iUsePeakVa |-> Larger(sta.iUsePeakVa, sta.iBlockUsed + 1)]

(* mem_share_malloc, the branches that return NULL: a request it refuses, no
   pool with a free block, or a pool whose counter and list disagree. *)
MallocNull(iSize, iMod) ==
  /\ \/ ~ValidRequest(iSize, iMod)
     \/ Candidates(iSize) = {}
     \/ \E p \in Pools : IsFound(p, iSize) /\ iFirstFree[p] < 0
  /\ UNCHANGED vars

(* Mutant: a block that is free already is freed again. *)
Free_Repeat(b, k) ==
  /\ k = 0
  /\ iModule'    = [iModule EXCEPT ![b] = 0]
  /\ iNext'      = [iNext EXCEPT ![b] = iFirstFree[b[1]]]
  /\ iBlockUsed' = [iBlockUsed EXCEPT ![b[1]] = @ - 1]
  /\ iBlockFree' = [iBlockFree EXCEPT ![b[1]] = @ + 1]
  /\ iFirstFree' = [iFirstFree EXCEPT ![b[1]] = b[2]]
  /\ UNCHANGED <<iUsePeakVa, sta>>

(* Mutant: the owner is not reset. *)
Free_KeepOwner(b, k) ==
  /\ k = 0 /\ iModule[b] > 0
  /\ iNext'      = [iNext EXCEPT ![b] = iFirstFree[b[1]]]
  /\ iBlockUsed' = [iBlockUsed EXCEPT ![b[1]] = @ - 1]
  /\ iBlockFree' = [iBlockFree EXCEPT ![b[1]] = @ + 1]
  /\ iFirstFree' = [iFirstFree EXCEPT ![b[1]] = b[2]]
  /\ UNCHANGED <<iModule, iUsePeakVa, sta>>

(* mem_share_free of byte k of block b.  Only the first byte of a block in
   use is accepted; an address inside a block ("addr match error") and a
   block that is free already ("addr free repeat") are reported and nothing
   changes.  Whoever calls may free: the module id is only logged. *)
Free(b, k) ==
  /\ IF k = 0 /\ iModule[b] > 0
     THEN LET p == b[1] IN
          /\ iModule'    = [iModule EXCEPT ![b] = 0]
          /\ iNext'      = [iNext EXCEPT ![b] = iFirstFree[p]]
          /\ iBlockUsed' = [iBlockUsed EXCEPT ![p] = @ - 1]
          /\ iBlockFree' = [iBlockFree EXCEPT ![p] = @ + 1]
          /\ iFirstFree' = [iFirstFree EXCEPT ![p] = b[2]]
          /\ sta' = [sta EXCEPT !.iBlockUsed = @ - 1, !.iBlockFree = @ + 1]
          /\ UNCHANGED iUsePeakVa
     ELSE UNCHANGED vars

(* mem_share_free_bydata: the caller holds the address of the message data,
   one header behind the start of the block. *)
FreeByData(b, k) == Free(b, k - IPC_HEADER)

Next ==
  \/ \E iSize \in Sizes, iMod \in Modules :
       MallocTake(iSize, iMod) \/ MallocNull(iSize, iMod)
  \/ \E b \in Blocks : \/ \E k \in {0, IPC_HEADER} : Free(b, k)
                       \/ FreeByData(b, IPC_HEADER)

Spec == Init /\ [][Next]_vars

-----------------------------------------------------------------------------
(* Type invariant of the control tables.  The counters stay within the pool:
   no sequence of calls, repeated frees included, drives them below zero or
   above the number of blocks. *)
TypeOK ==
  /\ iNext \in [Blocks -> Int]
  /\ \A b \in Blocks : iNext[b] \in Idx(b[1]) \cup {INVALID_IDX}
  /\ iModule \in [Blocks -> ModId]
  /\ iFirstFree \in [Pools -> Int]
  /\ iBlockUsed \in [Pools -> Int]
  /\ iBlockFree \in [Pools -> Int]
  /\ \A p \in Pools : /\ iFirstFree[p] \in Idx(p) \cup {INVALID_IDX}
                      /\ iBlockFree[p] \in 0 .. iBlockCoun[p]
                      /\ iBlockUsed[p] \in 0 .. iBlockCoun[p]
  /\ iUsePeakVa \in [Pools -> Nat]
  /\ sta \in [iBlockUsed : Int, iBlockFree : Int, iUsePeakVa : Int]

(* q lists the free blocks of pool p in list order: it has one entry per block
   the counter claims, it repeats none, it holds exactly the blocks without an
   owner, and iFirstFree and iNext thread it up to INVALID_IDX. *)
IsFreeList(p, q) ==
  LET n == iBlockFree[p] IN
  /\ q \in [1 .. n -> Idx(p)]
  /\ \A j, k \in 1 .. n : q[j] = q[k] => j = k
  /\ \A i \in Idx(p) : iModule[<<p, i>>] = 0 <=> \E j \in 1 .. n : q[j] = i
  /\ iFirstFree[p] = IF n = 0 THEN INVALID_IDX ELSE q[1]
  /\ \A j \in 1 .. n :
       iNext[<<p, q[j]>>] = IF j = n THEN INVALID_IDX ELSE q[j + 1]

(* The control table of every pool is intact: the free list is acyclic, holds
   exactly the blocks no module owns, and is as long as iBlockFree says.
   Repeated frees and frees of interior addresses included, mem_share_malloc
   and mem_share_free never break it. *)
FreeListInv ==
  \A p \in Pools :
    /\ iBlockUsed[p] = iBlockCoun[p] - iBlockFree[p]
    /\ \E q \in [1 .. iBlockFree[p] -> Idx(p)] : IsFreeList(p, q)

(* mem_share_malloc never reports exhaustion early: while some block that is
   large enough has no owner, the pool it selects has a list head to give. *)
NoFalseExhaustion ==
  \A iSize \in Sizes :
    (\E b \in Blocks : AlSize(iSize) <= iBlockSize[b[1]] /\ iModule[b] = 0)
      => \E p \in Pools : IsFound(p, iSize) /\ iFirstFree[p] >= 0

(* What one call does to one block. *)
OwnerStep(b) == iModule'[b] # iModule[b] => 0 \in {iModule[b], iModule'[b]}

(* A block in use is never handed to a second module: its owner changes only
   through a free in between. *)
OwnerStable == [][\A b \in Blocks : OwnerStep(b)]_vars

(* The sum of the numbers f over the pools. *)
Total(f) ==
  LET sum[p \in 0 .. POOL_MAX] == IF p = 0 THEN 0 ELSE sum[p - 1] + f[p]
  IN sum[POOL_MAX]

(* The totals behind the pool table agree with the pools: AllPeakUsed, which
   the diagnostics print, is at least every pool's peak and at most their sum,
   and the running totals are the sums over the pools. *)
TotalsInv ==
  /\ sta.iBlockUsed = Total(iBlockUsed)
  /\ sta.iBlockFree = - sta.iBlockUsed
  /\ sta.iUsePeakVa >= sta.iBlockUsed
  /\ sta.iUsePeakVa <= Total(iUsePeakVa)
  /\ \A p \in Pools : iUsePeakVa[p] \in iBlockUsed[p] .. sta.iUsePeakVa
=============================================================================
