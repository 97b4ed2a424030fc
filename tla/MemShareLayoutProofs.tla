------------------------ MODULE MemShareLayoutProofs ------------------------
(***************************************************************************)
(* Proofs about MemShareLayout, for every pool table: no two regions of    *)
(* the segment overlap, and mem_share_free finds the block it was given.   *)
(***************************************************************************)
EXTENDS MemShareLayout, TLAPS

(* The quotient that / computes, and the remainder it leaves. *)
LEMMA DivBounds ==
  ASSUME NEW a \in Int, NEW b \in Nat \ {0}
  PROVE  a \div b \in Int /\ (a \div b) * b <= a /\ a < (a \div b) * b + b
OBVIOUS

(* Byte k of block i belongs to block i. *)
LEMMA DivUnique ==
  ASSUME NEW i \in Int, NEW b \in Nat \ {0}, NEW k \in 0 .. b - 1
  PROVE  (i * b + k) \div b = i
OBVIOUS

(* Every byte of the c blocks of b bytes is within c * b. *)
LEMMA Within ==
  ASSUME NEW c \in Nat, NEW i \in 0 .. c - 1, NEW b \in Nat \ {0}, NEW k \in 0 .. b - 1
  PROVE  /\ i * b \in Nat /\ c * b \in Nat /\ i * b + k < c * b
         /\ (c - 1) * b + b = c * b
OBVIOUS

(* A byte of block i that is the first byte of block j is the first byte of block i. *)
LEMMA FirstByte ==
  ASSUME NEW i \in Int, NEW j \in Int, NEW b \in Nat \ {0}, NEW k \in 0 .. b - 1, i * b + k = j * b
  PROVE  i = j /\ k = 0
OBVIOUS

(* Rounding up never makes a length shorter. *)
LEMMA AlignUp == \A len \in Nat : Align(len) \in Nat /\ Align(len) >= len
<1> SUFFICES ASSUME NEW len \in Nat PROVE Align(len) \in Nat /\ Align(len) >= len
  OBVIOUS
<1>1. PICK b \in Nat \ {0} : b = TBLALIGN_BYTES
  BY LayoutAssumption
<1>2. PICK a \in Int : a = len + b - 1
  OBVIOUS
<1>3. PICK d : d = a \div b
  OBVIOUS
<1>4. d \in Int /\ d * b <= a /\ a < d * b + b
  BY <1>3, DivBounds
<1>5. PICK e : e = d * b
  OBVIOUS
<1>6. e \in Int
  BY <1>4, <1>5
<1>7. e \in Nat /\ e >= len
  BY <1>2, <1>4, <1>5, <1>6
<1> QED BY <1>1, <1>2, <1>3, <1>5, <1>7 DEF Align

-----------------------------------------------------------------------------
Addr == [iCtlTblAdd : Nat, iCtlTblLen : Nat, iStartAddr : Nat, iAreaLen : Nat, iEndAddr : Nat]

CtlBytes(p)  == iBlockCoun[p] * BLKCTL_BYTES
DataBytes(p) == iBlockCoun[p] * iBlockSize[p]
CtlEnd(p)    == chche[p].iCtlTblAdd + chche[p].iCtlTblLen

(* The tables and areas that the two loops have laid out so far. *)
CtlDone(p)  == loop # "ctl" \/ p < iBlkLoop
DataDone(p) == loop = "done" \/ (loop = "data" /\ p < iBlkLoop)

LayoutTypeOK ==
  /\ loop \in {"ctl", "data", "done"}
  /\ iBlkLoop \in 1 .. POOL_MAX + 1
  /\ iMemAlen \in Nat /\ iMemAlen >= Align(CACHETBL_SIZE)
  /\ chche \in [Pools -> Addr]

CtlLaid ==
  /\ \A p \in Pools : CtlDone(p) => /\ chche[p].iCtlTblAdd >= Align(CACHETBL_SIZE)
                                    /\ chche[p].iCtlTblLen >= CtlBytes(p)
                                    /\ CtlEnd(p) <= iMemAlen
  /\ \A p, r \in Pools : p < r /\ CtlDone(r) => CtlEnd(p) <= chche[r].iCtlTblAdd

DataLaid ==
  /\ \A p \in Pools : DataDone(p) => /\ chche[p].iStartAddr + DataBytes(p) <= chche[p].iEndAddr
                                     /\ chche[p].iEndAddr <= iMemAlen
                                     /\ \A r \in Pools : CtlEnd(r) <= chche[p].iStartAddr
  /\ \A p, r \in Pools : p < r /\ DataDone(r) => chche[p].iEndAddr <= chche[r].iStartAddr

(* The last area ends where the bytes laid out so far end. *)
LastEnd ==
  /\ loop = "data" /\ iBlkLoop > 1 => iMemAlen = chche[iBlkLoop - 1].iEndAddr
  /\ loop = "done" => iMemAlen = chche[POOL_MAX].iEndAddr

LayoutInv ==
  /\ LayoutTypeOK /\ CtlLaid /\ DataLaid /\ LastEnd
  /\ found # <<>> => loop = "done" /\ LookupExact

(* The constants. *)
LEMMA Constants ==
  /\ POOL_MAX \in Nat \ {0} /\ 1 \in Pools /\ POOL_MAX \in Pools
  /\ Align(CACHETBL_SIZE) \in Nat /\ Align(CACHETBL_SIZE) >= CACHETBL_SIZE
  /\ \A p \in Pools : /\ p \in Int /\ iBlockSize[p] \in Nat \ {0} /\ iBlockCoun[p] \in Nat \ {0}
                      /\ CtlBytes(p) \in Nat /\ DataBytes(p) \in Nat
<1>1. POOL_MAX \in Nat \ {0} /\ 1 \in Pools /\ POOL_MAX \in Pools
  BY LayoutAssumption DEF Pools, POOL_MAX
<1>2. \A p \in Pools : p \in Int /\ iBlockSize[p] \in Nat \ {0} /\ iBlockCoun[p] \in Nat \ {0} /\ BLKCTL_BYTES \in Nat
  BY LayoutAssumption DEF Pools, POOL_MAX
<1>3. \A a, b \in Nat : a * b \in Nat
  OBVIOUS
<1>4. \A p \in Pools : CtlBytes(p) \in Nat /\ DataBytes(p) \in Nat
  BY <1>2, <1>3 DEF CtlBytes, DataBytes
<1> QED BY <1>1, <1>2, <1>4, LayoutAssumption, AlignUp

(* Nothing is laid out before the first loop. *)
LEMMA InitLayout == Init => LayoutInv
<1> SUFFICES ASSUME Init PROVE LayoutInv
  OBVIOUS
<1>1. NoAddr \in Addr
  BY DEF NoAddr, Addr
<1>2. LayoutTypeOK
  BY <1>1, Constants DEF Init, LayoutTypeOK
<1>3. \A p \in Pools : ~CtlDone(p) /\ ~DataDone(p)
  BY Constants DEF Init, CtlDone, DataDone, Pools
<1> QED BY <1>2, <1>3 DEF Init, LayoutInv, CtlLaid, DataLaid, LastEnd

(* The first loop puts each control table behind the last one. *)
LEMMA CtlLayout ==
  ASSUME LayoutInv, EstimateCtl
  PROVE  LayoutInv'
<1>1. LayoutTypeOK /\ CtlLaid /\ (found # <<>> => loop = "done")
  BY DEF LayoutInv
<1>2. PICK b, l, z : b = iBlkLoop /\ l = Align(CtlBytes(b)) /\ z = iMemAlen
  OBVIOUS
<1>3. b \in Pools /\ b \in Int /\ b >= 1 /\ b <= POOL_MAX
  BY <1>1, <1>2, Constants DEF EstimateCtl, LayoutTypeOK, Pools
<1>4. l \in Nat /\ l >= CtlBytes(b) /\ CtlBytes(b) \in Nat /\ z \in Nat /\ z >= Align(CACHETBL_SIZE)
  BY <1>1, <1>2, <1>3, AlignUp, Constants DEF LayoutTypeOK
<1> DEFINE X == [chche[b] EXCEPT !.iCtlTblAdd = z, !.iCtlTblLen = l]
<1>5. /\ loop = "ctl" /\ loop' = "ctl" /\ iBlkLoop' = b + 1 /\ iMemAlen' = z + l /\ found' = found
      /\ chche' = [chche EXCEPT ![b].iCtlTblAdd = z, ![b].iCtlTblLen = l]
  BY <1>2 DEF EstimateCtl, CtlBytes
<1>6. chche \in [Pools -> Addr] /\ chche[b] \in Addr
  BY <1>1, <1>3 DEF LayoutTypeOK
<1>7. X \in Addr /\ X.iCtlTblAdd = z /\ X.iCtlTblLen = l
  BY <1>4, <1>6 DEF Addr
<1>8. chche' = [chche EXCEPT ![b] = X]
  BY <1>3, <1>5, <1>6
<1> HIDE DEF X
<1>9. chche' \in [Pools -> Addr] /\ chche'[b] = X /\ \A p \in Pools : p # b => chche'[p] = chche[p]
  BY <1>3, <1>6, <1>7, <1>8
<1>10. LayoutTypeOK'
  <2>1. b + 1 \in 1 .. POOL_MAX + 1 /\ z + l \in Nat /\ z + l >= Align(CACHETBL_SIZE)
    BY <1>3, <1>4, Constants
  <2> QED BY <1>5, <1>9, <2>1 DEF LayoutTypeOK, Align
<1>11. \A p \in Pools : (CtlDone(p) <=> p < b) /\ (CtlDone(p)' <=> p < b + 1) /\ ~DataDone(p)'
  BY <1>2, <1>5 DEF CtlDone, DataDone
<1>12. \A p \in Pools : p \in Int /\ chche[p].iCtlTblAdd \in Nat /\ chche[p].iCtlTblLen \in Nat /\ CtlEnd(p) \in Nat
  BY <1>6, Constants DEF Addr, CtlEnd
<1>13. CtlEnd(b)' = z + l /\ chche'[b].iCtlTblAdd = z /\ chche'[b].iCtlTblLen = l
       /\ \A p \in Pools : p # b => CtlEnd(p)' = CtlEnd(p)
  BY <1>7, <1>9 DEF CtlEnd
<1>14. \A p \in Pools : CtlDone(p)' => /\ chche'[p].iCtlTblAdd >= Align(CACHETBL_SIZE)
                                       /\ chche'[p].iCtlTblLen >= CtlBytes(p)
                                       /\ CtlEnd(p)' <= z + l
  <2> SUFFICES ASSUME NEW p \in Pools, CtlDone(p)'
               PROVE  /\ chche'[p].iCtlTblAdd >= Align(CACHETBL_SIZE)
                      /\ chche'[p].iCtlTblLen >= CtlBytes(p)
                      /\ CtlEnd(p)' <= z + l
    OBVIOUS
  <2>1. CASE p = b
    BY <1>4, <1>13, <2>1
  <2>2. CASE p # b
    <3>1. CtlDone(p)
      BY <1>3, <1>11, <1>12, <2>2
    <3>2. CtlEnd(p) <= z
      BY <1>1, <1>2, <3>1 DEF CtlLaid
    <3>3. CtlEnd(p)' <= z + l
      BY <1>4, <1>12, <1>13, <2>2, <3>2
    <3> QED BY <1>1, <1>9, <2>2, <3>1, <3>3 DEF CtlLaid
  <2> QED BY <2>1, <2>2
<1>15. ASSUME NEW p \in Pools, NEW r \in Pools, p < r, CtlDone(r)'
       PROVE  CtlEnd(p)' <= chche'[r].iCtlTblAdd
  <2>1. p # b /\ p < b
    BY <1>3, <1>11, <1>12, <1>15
  <2>2. CtlEnd(p)' = CtlEnd(p) /\ CtlDone(p)
    BY <1>11, <1>13, <2>1
  <2>3. CASE r = b
    <3>1. CtlEnd(p) <= z
      BY <1>1, <1>2, <2>2 DEF CtlLaid
    <3> QED BY <1>13, <2>2, <2>3, <3>1
  <2>4. CASE r # b
    <3>1. CtlDone(r)
      BY <1>3, <1>11, <1>12, <1>15, <2>4
    <3> QED BY <1>1, <1>9, <1>15, <2>2, <2>4, <3>1 DEF CtlLaid
  <2> QED BY <2>3, <2>4
<1>16. CtlLaid' /\ DataLaid' /\ LastEnd'
  BY <1>5, <1>11, <1>14, <1>15 DEF CtlLaid, DataLaid, LastEnd, CtlBytes, Align
<1>17. found' = <<>>
  BY <1>1, <1>5
<1> QED BY <1>10, <1>16, <1>17 DEF LayoutInv

(* The second loop puts each data area behind everything laid out before. *)
LEMMA DataLayout ==
  ASSUME LayoutInv, EstimateData
  PROVE  LayoutInv'
<1>1. LayoutTypeOK /\ CtlLaid /\ DataLaid /\ (found # <<>> => loop = "done")
  BY DEF LayoutInv
<1>2. PICK b, l, z : b = iBlkLoop /\ l = Align(DataBytes(b)) /\ z = iMemAlen
  OBVIOUS
<1>3. b \in Pools /\ b \in Int /\ b >= 1 /\ b <= POOL_MAX
  BY <1>1, <1>2, Constants DEF EstimateData, LayoutTypeOK, Pools
<1>4. l \in Nat /\ l >= DataBytes(b) /\ DataBytes(b) \in Nat /\ z \in Nat /\ z >= Align(CACHETBL_SIZE)
  BY <1>1, <1>2, <1>3, AlignUp, Constants DEF LayoutTypeOK
<1> DEFINE X == [chche[b] EXCEPT !.iStartAddr = z, !.iAreaLen = l, !.iEndAddr = z + l]
<1>5. /\ loop = "data" /\ loop' = "data" /\ iBlkLoop' = b + 1 /\ iMemAlen' = z + l /\ found' = found
      /\ chche' = [chche EXCEPT ![b].iStartAddr = z, ![b].iAreaLen = l, ![b].iEndAddr = z + l]
  BY <1>2 DEF EstimateData, DataBytes
<1>6. chche \in [Pools -> Addr] /\ chche[b] \in Addr
  BY <1>1, <1>3 DEF LayoutTypeOK
<1>7. /\ X \in Addr /\ X.iStartAddr = z /\ X.iEndAddr = z + l
      /\ X.iCtlTblAdd = chche[b].iCtlTblAdd /\ X.iCtlTblLen = chche[b].iCtlTblLen
  <2>1. z + l \in Nat
    BY <1>4
  <2> QED BY <1>4, <1>6, <2>1 DEF Addr
<1>8. chche' = [chche EXCEPT ![b] = X]
  BY <1>3, <1>5, <1>6
<1> HIDE DEF X
<1>9. chche' \in [Pools -> Addr] /\ chche'[b] = X /\ \A p \in Pools : p # b => chche'[p] = chche[p]
  BY <1>3, <1>6, <1>7, <1>8
<1>10. LayoutTypeOK'
  <2>1. b + 1 \in 1 .. POOL_MAX + 1 /\ z + l \in Nat /\ z + l >= Align(CACHETBL_SIZE)
    BY <1>3, <1>4, Constants
  <2> QED BY <1>5, <1>9, <2>1 DEF LayoutTypeOK, Align
<1>11. \A p \in Pools : CtlDone(p) /\ CtlDone(p)' /\ (DataDone(p) <=> p < b) /\ (DataDone(p)' <=> p < b + 1)
  BY <1>2, <1>5 DEF CtlDone, DataDone
<1>12. \A p \in Pools : p \in Int /\ chche[p].iStartAddr \in Nat /\ chche[p].iEndAddr \in Nat /\ CtlEnd(p) \in Nat
  BY <1>6, Constants DEF Addr, CtlEnd
<1>13. \A p \in Pools : /\ CtlEnd(p)' = CtlEnd(p) /\ chche'[p].iCtlTblAdd = chche[p].iCtlTblAdd
                        /\ chche'[p].iCtlTblLen = chche[p].iCtlTblLen
  BY <1>3, <1>7, <1>9 DEF CtlEnd
<1>14. \A p \in Pools : CtlEnd(p) <= z /\ CtlEnd(p) <= z + l
  <2>1. \A p \in Pools : CtlEnd(p) <= z
    BY <1>1, <1>2, <1>11 DEF CtlLaid
  <2> QED BY <1>4, <1>12, <2>1
<1>15. CtlLaid'
  <2>1. \A p \in Pools : /\ chche'[p].iCtlTblAdd >= Align(CACHETBL_SIZE)
                         /\ chche'[p].iCtlTblLen >= CtlBytes(p)
                         /\ CtlEnd(p)' <= iMemAlen'
    BY <1>1, <1>5, <1>11, <1>13, <1>14 DEF CtlLaid
  <2>2. \A p, r \in Pools : p < r => CtlEnd(p)' <= chche'[r].iCtlTblAdd
    BY <1>1, <1>11, <1>13 DEF CtlLaid
  <2> QED BY <2>1, <2>2 DEF CtlLaid, CtlBytes, Align
<1>16. ASSUME NEW p \in Pools, DataDone(p)'
       PROVE  /\ chche'[p].iStartAddr + DataBytes(p) <= chche'[p].iEndAddr
              /\ chche'[p].iEndAddr <= z + l
              /\ \A r \in Pools : CtlEnd(r)' <= chche'[p].iStartAddr
  <2>1. CASE p = b
    <3>1. z + DataBytes(b) <= z + l
      BY <1>4
    <3>2. z + l <= z + l
      BY <1>4
    <3> QED BY <1>7, <1>9, <1>13, <1>14, <2>1, <3>1, <3>2
  <2>2. CASE p # b
    <3>1. DataDone(p)
      BY <1>3, <1>11, <1>12, <1>16, <2>2
    <3>2. chche[p].iEndAddr <= z
      BY <1>1, <1>2, <3>1 DEF DataLaid
    <3>3. chche[p].iEndAddr <= z + l
      BY <1>4, <1>12, <3>2
    <3> QED BY <1>1, <1>9, <1>13, <2>2, <3>1, <3>3 DEF DataLaid
  <2> QED BY <2>1, <2>2
<1>17. ASSUME NEW p \in Pools, NEW r \in Pools, p < r, DataDone(r)'
       PROVE  chche'[p].iEndAddr <= chche'[r].iStartAddr
  <2>1. p # b /\ p < b
    BY <1>3, <1>11, <1>12, <1>17
  <2>2. chche'[p] = chche[p] /\ DataDone(p)
    BY <1>9, <1>11, <2>1
  <2>3. CASE r = b
    <3>1. chche[p].iEndAddr <= z
      BY <1>1, <1>2, <2>2 DEF DataLaid
    <3> QED BY <1>7, <1>9, <2>2, <2>3, <3>1
  <2>4. CASE r # b
    <3>1. DataDone(r)
      BY <1>3, <1>11, <1>12, <1>17, <2>4
    <3> QED BY <1>1, <1>9, <1>17, <2>2, <2>4, <3>1 DEF DataLaid
  <2> QED BY <2>3, <2>4
<1>18. DataLaid'
  BY <1>5, <1>16, <1>17 DEF DataLaid, DataBytes
<1>19. LastEnd'
  <2>1. b + 1 - 1 = b
    BY <1>3
  <2>2. chche'[b].iEndAddr = z + l
    BY <1>7, <1>9
  <2>3. iBlkLoop' - 1 = b /\ iMemAlen' = z + l /\ loop' # "done"
    BY <1>3, <1>4, <1>5
  <2>4. iMemAlen' = chche'[iBlkLoop' - 1].iEndAddr
    BY <2>2, <2>3
  <2> QED BY <2>3, <2>4 DEF LastEnd
<1>20. found' = <<>>
  BY <1>1, <1>5
<1> QED BY <1>10, <1>15, <1>18, <1>19, <1>20 DEF LayoutInv

(* The end of a loop. *)
LEMMA NextLayout ==
  ASSUME LayoutInv, EstimateNext
  PROVE  LayoutInv'
<1>1. LayoutTypeOK /\ CtlLaid /\ DataLaid /\ LastEnd /\ (found # <<>> => loop = "done")
  BY DEF LayoutInv
<1>2. /\ loop # "done" /\ loop' = (IF loop = "ctl" THEN "data" ELSE "done") /\ iBlkLoop' = 1
      /\ iMemAlen' = iMemAlen /\ chche' = chche /\ found' = found
  BY DEF EstimateNext
<1>3. iBlkLoop = POOL_MAX + 1 /\ POOL_MAX \in Nat \ {0}
  BY <1>1, Constants DEF EstimateNext, LayoutTypeOK
<1>4. \A p \in Pools : p \in Int /\ p >= 1 /\ p <= POOL_MAX
  BY <1>3 DEF Pools
<1>5. LayoutTypeOK'
  <2>1. 1 \in 1 .. POOL_MAX + 1
    BY <1>3
  <2> QED BY <1>1, <1>2, <2>1 DEF LayoutTypeOK, Align
<1>6. \A p \in Pools : p < iBlkLoop /\ ~(p < 1)
  BY <1>3, <1>4
<1>7. \A p \in Pools : (CtlDone(p)' <=> CtlDone(p)) /\ (DataDone(p)' <=> DataDone(p)) /\ CtlEnd(p)' = CtlEnd(p)
  <2>1. CASE loop = "ctl"
    BY <1>2, <1>6, <2>1 DEF CtlDone, DataDone, CtlEnd
  <2>2. CASE loop = "data"
    BY <1>2, <1>6, <2>2 DEF CtlDone, DataDone, CtlEnd
  <2> QED BY <1>1, <1>2, <2>1, <2>2 DEF LayoutTypeOK
<1>8. CtlLaid' /\ DataLaid'
  BY <1>1, <1>2, <1>7 DEF CtlLaid, DataLaid, CtlBytes, DataBytes, Align
<1>9. LastEnd'
  <2>1. iBlkLoop > 1 /\ iBlkLoop - 1 = POOL_MAX
    BY <1>3
  <2> QED BY <1>1, <1>2, <2>1 DEF LastEnd, POOL_MAX, LayoutTypeOK
<1>10. found' = <<>>
  BY <1>1, <1>2
<1> QED BY <1>5, <1>8, <1>9, <1>10 DEF LayoutInv

-----------------------------------------------------------------------------
(* What the finished layout says of the data areas. *)
LEMMA Areas ==
  ASSUME LayoutInv, loop = "done"
  PROVE  /\ \A p \in Pools : /\ chche[p].iStartAddr \in Nat /\ chche[p].iEndAddr \in Nat
                             /\ chche[p].iStartAddr + DataBytes(p) <= chche[p].iEndAddr
         /\ \A p, r \in Pools : p < r => chche[p].iEndAddr <= chche[r].iStartAddr
<1>1. \A p \in Pools : DataDone(p)
  BY DEF DataDone
<1>2. \A p \in Pools : chche[p].iStartAddr \in Nat /\ chche[p].iEndAddr \in Nat
  BY DEF LayoutInv, LayoutTypeOK, Addr
<1> QED BY <1>1, <1>2 DEF LayoutInv, DataLaid

(* Byte k of block i of pool p is in the data area of pool p and of no other pool. *)
LEMMA Held ==
  ASSUME LayoutInv, loop = "done", NEW p \in Pools, NEW i \in 0 .. iBlockCoun[p] - 1,
         NEW k \in 0 .. iBlockSize[p] - 1, NEW o, o = MemAdd(p, i) + k
  PROVE  /\ MemAdd(p, i) \in Nat /\ o \in Nat
         /\ Holding(o) = {p}
         /\ (o - chche[p].iStartAddr) \div iBlockSize[p] = i
<1>1. PICK a, e, s, c : a = chche[p].iStartAddr /\ e = chche[p].iEndAddr /\ s = iBlockSize[p] /\ c = iBlockCoun[p]
  OBVIOUS
<1>2. /\ a \in Nat /\ e \in Nat /\ s \in Nat \ {0} /\ c \in Nat \ {0} /\ i \in 0 .. c - 1 /\ k \in 0 .. s - 1
      /\ a + c * s <= e
  BY <1>1, Areas, Constants DEF DataBytes
<1>3. PICK x : x = i * s
  OBVIOUS
<1>4. x \in Nat /\ c * s \in Nat /\ x + k < c * s
  BY <1>2, <1>3, Within
<1>5. (x + k) \div s = i
  BY <1>2, <1>3, DivUnique
<1>6. MemAdd(p, i) = a + x /\ o = a + x + k
  BY <1>1, <1>3 DEF MemAdd
<1>7. a + x \in Nat /\ o \in Nat /\ a <= o /\ o < e /\ o - a = x + k
  BY <1>2, <1>4, <1>6
<1>8. ASSUME NEW r \in Pools PROVE r \in Holding(o) <=> r = p
  <2>1. /\ chche[r].iStartAddr \in Nat /\ chche[r].iEndAddr \in Nat /\ r \in Int /\ p \in Int
        /\ (r < p => chche[r].iEndAddr <= a) /\ (p < r => e <= chche[r].iStartAddr)
    BY <1>1, Areas, Constants
  <2>2. CASE r = p
    BY <1>1, <1>7, <2>2 DEF Holding
  <2>3. CASE r < p
    <3>1. ~(o < chche[r].iEndAddr)
      BY <1>2, <1>7, <2>1, <2>3
    <3> QED BY <2>1, <2>3, <3>1 DEF Holding
  <2>4. CASE p < r
    <3>1. ~(chche[r].iStartAddr <= o)
      BY <1>2, <1>7, <2>1, <2>4
    <3> QED BY <2>1, <2>4, <3>1 DEF Holding
  <2> QED BY <2>1, <2>2, <2>3, <2>4
<1>9. Holding(o) = {p}
  <2>1. \A r \in Holding(o) : r \in Pools
    BY DEF Holding
  <2> QED BY <1>8, <2>1
<1>10. (o - a) \div s = i
  BY <1>5, <1>7
<1> QED BY <1>1, <1>6, <1>7, <1>9, <1>10

(* mem_share_free's search. *)
LEMMA LookupLayout ==
  ASSUME LayoutInv, NEW p \in Pools, NEW i \in ProbeIdx(p), NEW k \in Probes, Lookup(MemAdd(p, i) + k)
  PROVE  LayoutInv'
<1>1. i \in 0 .. iBlockCoun[p] - 1 /\ k \in 0 .. iBlockSize[p] - 1 /\ i \in Int /\ k \in Int
  BY LayoutAssumption DEF ProbeIdx
<1>2. PICK o : o = MemAdd(p, i) + k
  OBVIOUS
<1>3. /\ loop = "done" /\ loop' = loop /\ iBlkLoop' = iBlkLoop /\ iMemAlen' = iMemAlen /\ chche' = chche
      /\ found' = IF Holding(o) = {} THEN <<o, 0, 0, FALSE>>
                  ELSE <<o, FoundPool(o), FoundIdx(o), MemAdd(FoundPool(o), FoundIdx(o)) = o>>
  BY <1>2 DEF Lookup
<1>4. /\ MemAdd(p, i) \in Nat /\ o \in Nat /\ Holding(o) = {p}
      /\ (o - chche[p].iStartAddr) \div iBlockSize[p] = i
  BY <1>1, <1>2, <1>3, Held
<1>5. FoundPool(o) = p
  <2>1. p <= p
    BY Constants
  <2>2. FoundPool(o) \in Holding(o)
    BY <1>4, <2>1 DEF FoundPool
  <2> QED BY <1>4, <2>2
<1>6. FoundIdx(o) = i
  BY <1>4, <1>5 DEF FoundIdx
<1>7. PICK v : v = (MemAdd(p, i) = o)
  OBVIOUS
<1>8. found' = <<o, p, i, v>>
  BY <1>3, <1>4, <1>5, <1>6, <1>7
<1>9. found'[1] = o /\ found'[2] = p /\ found'[3] = i /\ found'[4] = v
  BY <1>8
<1>10. MemAdd(p, i) <= o /\ o < MemAdd(p, i) + iBlockSize[p]
  <2>1. iBlockSize[p] \in Nat
    BY Constants
  <2> QED BY <1>1, <1>2, <1>4, <2>1
<1>11. v <=> \E r \in Pools : \E j \in ProbeIdx(r) : o = MemAdd(r, j)
  <2>1. ASSUME v PROVE \E r \in Pools : \E j \in ProbeIdx(r) : o = MemAdd(r, j)
    BY <1>7, <2>1
  <2>2. ASSUME NEW r \in Pools, NEW j \in ProbeIdx(r), o = MemAdd(r, j) PROVE v
    <3>1. j \in 0 .. iBlockCoun[r] - 1 /\ 0 \in 0 .. iBlockSize[r] - 1
      BY Constants DEF ProbeIdx
    <3>2. MemAdd(r, j) + 0 = o
      BY <1>4, <2>2
    <3>3. Holding(o) = {r} /\ (o - chche[r].iStartAddr) \div iBlockSize[r] = j
      BY <1>3, <3>1, <3>2, Held
    <3>4. r = p
      BY <1>4, <3>3
    <3>5. j = i
      BY <1>4, <3>3, <3>4
    <3> QED BY <1>7, <2>2, <3>4, <3>5
  <2> QED BY <2>1, <2>2
<1>12. \A r, j : MemAdd(r, j)' = MemAdd(r, j)
  BY <1>3 DEF MemAdd
<1>13. LookupExact'
  <2>1. \A r : ProbeIdx(r)' = ProbeIdx(r)
    BY DEF ProbeIdx
  <2> QED BY <1>1, <1>3, <1>9, <1>10, <1>11 DEF LookupExact, MemAdd, ProbeIdx, Pools, POOL_MAX
<1>14. LayoutTypeOK' /\ CtlLaid' /\ DataLaid' /\ LastEnd'
  <2>1. LayoutTypeOK'
    BY <1>3 DEF LayoutInv, LayoutTypeOK, Align, POOL_MAX, Pools, Addr
  <2>2. \A r \in Pools : CtlDone(r)' = CtlDone(r) /\ DataDone(r)' = DataDone(r) /\ CtlEnd(r)' = CtlEnd(r)
    BY <1>3 DEF CtlDone, DataDone, CtlEnd
  <2>3. CtlLaid' /\ DataLaid'
    BY <1>3, <2>2 DEF LayoutInv, CtlLaid, DataLaid, CtlBytes, DataBytes, Align, Pools, POOL_MAX
  <2>4. LastEnd'
    BY <1>3 DEF LayoutInv, LastEnd, POOL_MAX
  <2> QED BY <2>1, <2>3, <2>4
<1> QED BY <1>3, <1>13, <1>14 DEF LayoutInv

(* Every step keeps the layout. *)
LEMMA StepLayout == LayoutInv /\ [Next]_vars => LayoutInv'
<1> SUFFICES ASSUME LayoutInv, [Next]_vars PROVE LayoutInv'
  OBVIOUS
<1>1. CASE EstimateCtl
  BY <1>1, CtlLayout
<1>2. CASE EstimateData
  BY <1>2, DataLayout
<1>3. CASE EstimateNext
  BY <1>3, NextLayout
<1>4. CASE \E p \in Pools : \E i \in ProbeIdx(p) : \E k \in Probes : Lookup(MemAdd(p, i) + k)
  BY <1>4, LookupLayout
<1>5. CASE UNCHANGED vars
  <2>1. LayoutTypeOK' /\ LastEnd'
    BY <1>5 DEF LayoutInv, LayoutTypeOK, LastEnd, vars, Align, POOL_MAX, Pools, Addr
  <2>2. \A r \in Pools : CtlDone(r)' = CtlDone(r) /\ DataDone(r)' = DataDone(r) /\ CtlEnd(r)' = CtlEnd(r)
    BY <1>5 DEF CtlDone, DataDone, CtlEnd, vars
  <2>3. CtlLaid' /\ DataLaid'
    BY <1>5, <2>2 DEF LayoutInv, CtlLaid, DataLaid, CtlBytes, DataBytes, Align, Pools, POOL_MAX, vars
  <2>4. LookupExact' = LookupExact
    BY <1>5 DEF LookupExact, MemAdd, ProbeIdx, Pools, POOL_MAX, vars
  <2> QED BY <1>5, <2>1, <2>3, <2>4 DEF LayoutInv, vars
<1> QED BY <1>1, <1>2, <1>3, <1>4, <1>5 DEF Next

(* The tables and areas laid out so far follow each other without overlap, each large enough. *)
THEOREM LayoutInvariant == Spec => []LayoutInv
BY InitLayout, StepLayout, PTL DEF Spec

(* mem_share_free finds the pool and the index of the block that an offset belongs to, whatever
   the sizes and the counts of the pools, and takes only first bytes for a match. *)
THEOREM LookupFindsBlock == Spec => []LookupExact
<1>1. LayoutInv => LookupExact
  BY DEF LayoutInv, LookupExact
<1> QED BY <1>1, LayoutInvariant, PTL

(* The segment as mem_share_estimate lays it out stays within the limit that mem_share_init sets. *)
WithinLimit == iMemAlen <= SHMMAX

(* A pool table that stays within the limit of the kernel gives a layout without overlap, in
   which every table and area has room for what mem_share_blkinit writes into it. *)
THEOREM LayoutNeverOverlaps == Spec /\ []WithinLimit => []LayoutDisjoint
<1>1. LayoutInv /\ WithinLimit => LayoutDisjoint
  <2> SUFFICES ASSUME LayoutInv, WithinLimit, loop = "done" PROVE LayoutDisjoint
    BY DEF LayoutDisjoint
  <2>1. /\ \A p \in Pools : /\ chche[p].iCtlTblAdd >= Align(CACHETBL_SIZE)
                            /\ chche[p].iCtlTblLen >= CtlBytes(p)
        /\ \A p, r \in Pools : p < r => CtlEnd(p) <= chche[r].iCtlTblAdd
        /\ \A p, r \in Pools : CtlEnd(r) <= chche[p].iStartAddr
    BY DEF LayoutInv, CtlLaid, DataLaid, CtlDone, DataDone
  <2>2. /\ \A p \in Pools : /\ chche[p].iStartAddr \in Nat /\ chche[p].iEndAddr \in Nat
                            /\ chche[p].iStartAddr + DataBytes(p) <= chche[p].iEndAddr
        /\ \A p, r \in Pools : p < r => chche[p].iEndAddr <= chche[r].iStartAddr
    BY Areas
  <2>3. PICK n : n = POOL_MAX
    OBVIOUS
  <2>4. n \in Nat \ {0} /\ Pools = 1 .. n
    BY <2>3, Constants DEF Pools
  <2>5. /\ DOMAIN Regions = 1 .. 2 * n
        /\ \A r \in 1 .. n : /\ r \in 1 .. 2 * n /\ r \in Pools
                             /\ Regions[r][1] = chche[r].iCtlTblAdd /\ Regions[r][2] = CtlEnd(r)
        /\ \A r \in 1 .. 2 * n : ~(r \in 1 .. n) =>
              /\ r - n \in Pools
              /\ Regions[r][1] = chche[r - n].iStartAddr /\ Regions[r][2] = chche[r - n].iEndAddr
    <3>1. DOMAIN Regions = 1 .. 2 * n
      BY <2>3 DEF Regions
    <3>2. \A r \in 1 .. 2 * n : Regions[r] = IF r <= n
                                 THEN <<chche[r].iCtlTblAdd, chche[r].iCtlTblAdd + chche[r].iCtlTblLen>>
                                 ELSE <<chche[r - n].iStartAddr, chche[r - n].iEndAddr>>
      BY <2>3 DEF Regions
    <3>3. \A r \in 1 .. n : r \in 1 .. 2 * n /\ r <= n
      BY <2>4
    <3>4. \A r \in 1 .. 2 * n : ~(r \in 1 .. n) => ~(r <= n) /\ r - n \in 1 .. n
      BY <2>4
    <3> QED BY <2>4, <3>1, <3>2, <3>3, <3>4 DEF CtlEnd
  <2>6. ASSUME NEW r \in DOMAIN Regions, NEW s \in DOMAIN Regions, r < s
        PROVE  Regions[r][2] <= Regions[s][1]
    <3>1. CASE r \in 1 .. n /\ s \in 1 .. n
      BY <2>1, <2>5, <2>6, <3>1
    <3>2. CASE r \in 1 .. n /\ ~(s \in 1 .. n)
      BY <2>1, <2>5, <2>6, <3>2
    <3>3. CASE ~(r \in 1 .. n)
      <4>1. ~(s \in 1 .. n) /\ r - n < s - n
        BY <2>4, <2>5, <2>6, <3>3
      <4> QED BY <2>2, <2>5, <2>6, <3>3, <4>1
    <3> QED BY <3>1, <3>2, <3>3
  <2>7. ASSUME NEW p \in Pools
        PROVE  /\ chche[p].iCtlTblLen >= iBlockCoun[p] * BLKCTL_BYTES
               /\ MemAdd(p, iBlockCoun[p] - 1) + iBlockSize[p] <= chche[p].iEndAddr
    <3>1. PICK a, e, s, c : a = chche[p].iStartAddr /\ e = chche[p].iEndAddr /\ s = iBlockSize[p] /\ c = iBlockCoun[p]
      OBVIOUS
    <3>2. a \in Nat /\ e \in Nat /\ s \in Nat \ {0} /\ c \in Nat \ {0} /\ a + c * s <= e
      BY <2>2, <3>1, Constants DEF DataBytes
    <3>3. c - 1 \in 0 .. c - 1 /\ 0 \in 0 .. s - 1
      BY <3>2
    <3>4. PICK x : x = (c - 1) * s
      OBVIOUS
    <3>5. x \in Nat /\ x + s = c * s
      BY <3>2, <3>3, <3>4, Within
    <3>6. a + x + s <= e
      BY <3>2, <3>5
    <3>7. MemAdd(p, iBlockCoun[p] - 1) = a + x
      BY <3>1, <3>4 DEF MemAdd
    <3> QED BY <2>1, <3>1, <3>6, <3>7 DEF CtlBytes
  <2>8. (POOL_MAX + 1) * CHCHES_BYTES <= Regions[1][1]
    <3>1. PICK t, a, b : t = (POOL_MAX + 1) * CHCHES_BYTES /\ a = Align(CACHETBL_SIZE) /\ b = chche[1].iCtlTblAdd
      OBVIOUS
    <3>2. t \in Int /\ t <= CACHETBL_SIZE /\ CACHETBL_SIZE \in Nat
      BY <3>1, LayoutAssumption, Constants
    <3>3. a \in Nat /\ a >= CACHETBL_SIZE /\ b \in Nat /\ b >= a
      <4>1. b \in Nat
        BY <3>1, Constants DEF LayoutInv, LayoutTypeOK, Addr
      <4> QED BY <2>1, <3>1, <4>1, Constants
    <3>4. t <= b
      BY <3>2, <3>3
    <3>5. Regions[1][1] = b
      <4>1. 1 \in 1 .. n
        BY <2>4
      <4> QED BY <2>5, <3>1, <4>1
    <3> QED BY <3>1, <3>4, <3>5
  <2>9. iMemAlen = Regions[2 * POOL_MAX][2] /\ iMemAlen <= SHMMAX
    <3>1. PICK w : w = 2 * n
      OBVIOUS
    <3>2. w \in 1 .. 2 * n /\ ~(w \in 1 .. n) /\ w - n = n
      BY <2>4, <3>1
    <3>3. Regions[w][2] = chche[n].iEndAddr
      BY <2>5, <3>2
    <3>4. iMemAlen = chche[n].iEndAddr
      BY <2>3 DEF LayoutInv, LastEnd
    <3> QED BY <2>3, <3>1, <3>3, <3>4 DEF WithinLimit
  <2> QED BY <2>6, <2>7, <2>8, <2>9 DEF LayoutDisjoint
<1> QED BY <1>1, LayoutInvariant, PTL
=============================================================================
