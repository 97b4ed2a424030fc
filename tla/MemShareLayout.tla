--------------------------- MODULE MemShareLayout ---------------------------
(***************************************************************************)
(* The layout of the shared segment (mem_share_estimate), and the lookup   *)
(* that mem_share_free performs to get from an offset back to a block.     *)
(*                                                                         *)
(* The segment starts with the pool table; behind it come the control      *)
(* table of every pool and then the data area of every pool, each rounded  *)
(* up to MEM_SHARE_TBLALIGN_BYTES.  mem_share_estimate fills the layout in *)
(* two loops, one step of the specification per iteration; then any offset *)
(* may be looked up.                                                       *)
(***************************************************************************)
EXTENDS Integers, Sequences

CONSTANTS
  iBlockSize,      \* bytes per block, a sequence with one entry per pool
  iBlockCoun,      \* blocks per pool
  CACHETBL_SIZE,   \* bytes set aside for the pool table
  TBLALIGN_BYTES,  \* rounding of every table and area
  CHCHES_BYTES,    \* sizeof(mem_share_chches)
  BLKCTL_BYTES,    \* sizeof(mem_share_blkctl)
  SHMMAX,          \* kernel.shmmax as mem_share_init sets it
  Probes           \* offsets within a block that are looked up

POOL_MAX == Len(iBlockSize)
Pools    == 1 .. POOL_MAX

ASSUME LayoutAssumption ==
  /\ iBlockSize \in Seq(Nat \ {0}) /\ Len(iBlockSize) > 0
  /\ iBlockCoun \in [Pools -> Nat \ {0}]
  /\ CACHETBL_SIZE \in Nat /\ TBLALIGN_BYTES \in Nat \ {0}
  /\ CHCHES_BYTES \in Nat /\ BLKCTL_BYTES \in Nat
  /\ (POOL_MAX + 1) * CHCHES_BYTES <= CACHETBL_SIZE
  /\ \A p \in Pools : Probes \subseteq 0 .. iBlockSize[p] - 1

VARIABLES
  loop,            \* which loop of mem_share_estimate is running, or "done"
  iBlkLoop,        \* its loop index
  iMemAlen,        \* bytes laid out so far
  chche,           \* the layout fields of the pool table
  found            \* <<offset, pool, index, match>> of the last lookup

vars == <<loop, iBlkLoop, iMemAlen, chche, found>>

Align(len) == ((len + TBLALIGN_BYTES - 1) \div TBLALIGN_BYTES) * TBLALIGN_BYTES

NoAddr == [iCtlTblAdd |-> 0, iCtlTblLen |-> 0,
           iStartAddr |-> 0, iAreaLen |-> 0, iEndAddr |-> 0]

Init ==
  /\ loop = "ctl"
  /\ iBlkLoop = 1
  /\ iMemAlen = Align(CACHETBL_SIZE)
  /\ chche = [p \in Pools |-> NoAddr]
  /\ found = <<>>

(* First loop: the control table of the next pool. *)
EstimateCtl ==
  /\ loop = "ctl"
  /\ iBlkLoop <= POOL_MAX
  /\ LET len == Align(iBlockCoun[iBlkLoop] * BLKCTL_BYTES) IN
       /\ chche' = [chche EXCEPT ![iBlkLoop].iCtlTblAdd = iMemAlen,
                                 ![iBlkLoop].iCtlTblLen = len]
       /\ iMemAlen' = iMemAlen + len
  /\ iBlkLoop' = iBlkLoop + 1
  /\ UNCHANGED <<loop, found>>

(* Second loop: the data area of the next pool. *)
EstimateData ==
  /\ loop = "data"
  /\ iBlkLoop <= POOL_MAX
  /\ LET len == Align(iBlockCoun[iBlkLoop] * iBlockSize[iBlkLoop]) IN
       /\ chche' = [chche EXCEPT ![iBlkLoop].iStartAddr = iMemAlen,
                                 ![iBlkLoop].iAreaLen   = len,
                                 ![iBlkLoop].iEndAddr   = iMemAlen + len]
       /\ iMemAlen' = iMemAlen + len
  /\ iBlkLoop' = iBlkLoop + 1
  /\ UNCHANGED <<loop, found>>

EstimateNext ==
  /\ loop # "done"
  /\ iBlkLoop > POOL_MAX
  /\ loop' = IF loop = "ctl" THEN "data" ELSE "done"
  /\ iBlkLoop' = 1
  /\ UNCHANGED <<iMemAlen, chche, found>>

(* Mutant: blocks are counted from 1. *)
MemAdd_FromOne(p, i) == chche[p].iStartAddr + (i + 1) * iBlockSize[p]

(* mem_share_blkinit: where block i of pool p starts. *)
MemAdd(p, i) == chche[p].iStartAddr + i * iBlockSize[p]

(* Mutant: the end address counts as inside. *)
Holding_Closed(iOffset) ==
  {p \in Pools : chche[p].iStartAddr <= iOffset /\ iOffset <= chche[p].iEndAddr}

(* The pools whose data area holds the offset; the loop of mem_share_free
   stops at the first. *)
Holding(iOffset) ==
  {p \in Pools : chche[p].iStartAddr <= iOffset /\ iOffset < chche[p].iEndAddr}

FoundPool(iOffset) == CHOOSE p \in Holding(iOffset) :
                        \A q \in Holding(iOffset) : p <= q

FoundIdx(iOffset) ==
  LET p == FoundPool(iOffset) IN (iOffset - chche[p].iStartAddr) \div iBlockSize[p]

(* mem_share_free's search: a control entry is only touched when the offset
   is the first byte of its block (iMemAdd == iOffset). *)
Lookup(iOffset) ==
  /\ loop = "done"
  /\ found' = IF Holding(iOffset) = {} THEN <<iOffset, 0, 0, FALSE>>
              ELSE <<iOffset, FoundPool(iOffset), FoundIdx(iOffset),
                     MemAdd(FoundPool(iOffset), FoundIdx(iOffset)) = iOffset>>
  /\ UNCHANGED <<loop, iBlkLoop, iMemAlen, chche>>

(* Indices at which an off-by-one would show. *)
ProbeIdx(p) == {0, 1, iBlockCoun[p] \div 2, iBlockCoun[p] - 2, iBlockCoun[p] - 1}
                 \cap 0 .. iBlockCoun[p] - 1

Next ==
  \/ EstimateCtl \/ EstimateData \/ EstimateNext
  \/ \E p \in Pools : \E i \in ProbeIdx(p) : \E k \in Probes :
       Lookup(MemAdd(p, i) + k)

Spec == Init /\ [][Next]_vars

-----------------------------------------------------------------------------
(* The regions of a finished layout, in the order they were laid out. *)
Regions ==
  [r \in 1 .. 2 * POOL_MAX |->
     IF r <= POOL_MAX
     THEN <<chche[r].iCtlTblAdd, chche[r].iCtlTblAdd + chche[r].iCtlTblLen>>
     ELSE <<chche[r - POOL_MAX].iStartAddr, chche[r - POOL_MAX].iEndAddr>>]

(* No two tables or areas of the segment overlap, each is large enough for
   what mem_share_blkinit writes into it, the totals entry behind the last
   pool stays clear of the first control table, and everything fits in what
   shmget may return. *)
LayoutDisjoint ==
  loop = "done" =>
    /\ \A r, s \in DOMAIN Regions : r < s => Regions[r][2] <= Regions[s][1]
    /\ \A p \in Pools :
         /\ chche[p].iCtlTblLen >= iBlockCoun[p] * BLKCTL_BYTES
         /\ MemAdd(p, iBlockCoun[p] - 1) + iBlockSize[p] <= chche[p].iEndAddr
    /\ (POOL_MAX + 1) * CHCHES_BYTES <= Regions[1][1]
    /\ iMemAlen = Regions[2 * POOL_MAX][2] /\ iMemAlen <= SHMMAX

(* mem_share_free finds the control entry of the block it was given: an offset
   k bytes into block i of pool p leads to entry i of pool p, which matches
   only for k = 0; and it never indexes past the end of a control table. *)
LookupExact ==
  found # <<>> =>
    /\ found[2] \in Pools
    /\ found[3] \in 0 .. iBlockCoun[found[2]] - 1
    /\ MemAdd(found[2], found[3]) <= found[1]
    /\ found[1] < MemAdd(found[2], found[3]) + iBlockSize[found[2]]
    /\ found[4] <=> \E p \in Pools : \E i \in ProbeIdx(p) : found[1] = MemAdd(p, i)
=============================================================================
