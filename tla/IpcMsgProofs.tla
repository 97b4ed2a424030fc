---------------------------- MODULE IpcMsgProofs ----------------------------
(***************************************************************************)
(* Proofs about IpcMsg, for every set of modules, number of blocks, size   *)
(* of the queues and number of deaths: no block is lost or freed twice,    *)
(* and an answer goes to the module that asked, for the request it waits   *)
(* for or for one it gave up.                                              *)
(***************************************************************************)
EXTENDS IpcMsg, FiniteSetTheorems, NaturalsInduction, WellFoundedInduction, TLAPS

(* What a queue holds, and that it holds nothing twice. *)
Elems(s) == {s[i] : i \in DOMAIN s}
Inj(s)   == \A i, j \in DOMAIN s : s[i] = s[j] => i = j

(* The same for the blocks in the reply queue. *)
Bufs(r)    == {r[i].msgbuff : i \in DOMAIN r}
InjBufs(r) == \A i, j \in DOMAIN r : r[i].msgbuff = r[j].msgbuff => i = j

(* A message is put at the end of a queue. *)
LEMMA AppendElems ==
  ASSUME NEW S, NEW s \in Seq(S), NEW x \in S
  PROVE  /\ Append(s, x) \in Seq(S)
         /\ Elems(Append(s, x)) = Elems(s) \cup {x}
         /\ Inj(s) /\ x \notin Elems(s) => Inj(Append(s, x))
<1> DEFINE t == Append(s, x)
<1>1. /\ t \in Seq(S) /\ Len(s) \in Nat /\ DOMAIN s = 1 .. Len(s) /\ DOMAIN t = 1 .. Len(s) + 1
      /\ \A i \in 1 .. Len(s) : t[i] = s[i]
      /\ t[Len(s) + 1] = x
  OBVIOUS
<1> HIDE DEF t
<1>2. \A i \in DOMAIN t : i \in DOMAIN s \/ i = Len(s) + 1
  BY <1>1
<1>3. \A i \in DOMAIN s : i \in DOMAIN t /\ t[i] = s[i] /\ t[i] \in Elems(s)
  BY <1>1 DEF Elems
<1>4. Len(s) + 1 \in DOMAIN t /\ Len(s) + 1 \notin DOMAIN s
  BY <1>1
<1>5. Elems(t) = Elems(s) \cup {x}
  BY <1>1, <1>2, <1>3, <1>4 DEF Elems
<1>6. Inj(s) /\ x \notin Elems(s) => Inj(t)
  BY <1>1, <1>2, <1>3, <1>4 DEF Inj
<1> QED BY <1>1, <1>5, <1>6 DEF t

(* The head of a queue is taken. *)
LEMMA TailElems ==
  ASSUME NEW S, NEW s \in Seq(S), s # <<>>, Inj(s)
  PROVE  /\ Tail(s) \in Seq(S) /\ Head(s) \in S /\ Head(s) \in Elems(s)
         /\ Elems(Tail(s)) = Elems(s) \ {Head(s)}
         /\ Inj(Tail(s))
<1> DEFINE t == Tail(s)
<1>1. /\ t \in Seq(S) /\ Head(s) \in S /\ Head(s) = s[1]
      /\ Len(s) \in Nat /\ Len(s) > 0 /\ DOMAIN s = 1 .. Len(s) /\ DOMAIN t = 1 .. Len(s) - 1
      /\ \A i \in 1 .. Len(s) - 1 : t[i] = s[i + 1]
  OBVIOUS
<1> HIDE DEF t
<1>2. \A i \in DOMAIN t : i + 1 \in DOMAIN s /\ t[i] = s[i + 1] /\ i + 1 # 1
  BY <1>1
<1>3. \A i \in DOMAIN s : i # 1 => i - 1 \in DOMAIN t /\ t[i - 1] = s[i]
  BY <1>1
<1>4. 1 \in DOMAIN s
  BY <1>1
<1>5. Elems(t) = Elems(s) \ {s[1]}
  BY <1>2, <1>3, <1>4 DEF Elems, Inj
<1>6. Inj(t)
  <2> SUFFICES ASSUME NEW i \in DOMAIN t, NEW j \in DOMAIN t, t[i] = t[j] PROVE i = j
    BY DEF Inj
  <2>1. i + 1 = j + 1
    BY <1>2 DEF Inj
  <2> QED BY <1>1, <2>1
<1> QED BY <1>1, <1>4, <1>5, <1>6 DEF t, Elems

(* The entry i is taken out of the reply queue. *)
LEMMA WithoutBufs ==
  ASSUME NEW R, NEW s \in Seq(R), NEW i \in DOMAIN s, InjBufs(s)
  PROVE  /\ Without(s, i) \in Seq(R)
         /\ \A j \in DOMAIN Without(s, i) : \E k \in DOMAIN s : k # i /\ Without(s, i)[j] = s[k]
         /\ Bufs(Without(s, i)) = Bufs(s) \ {s[i].msgbuff}
         /\ InjBufs(Without(s, i))
<1> DEFINE t == Without(s, i)
           n == Len(s)
           a == SubSeq(s, 1, i - 1)
           b == SubSeq(s, i + 1, n)
<1>1. n \in Nat /\ DOMAIN s = 1 .. n /\ i \in 1 .. n /\ i \in Int
  OBVIOUS
<1>2. /\ a \in Seq(R) /\ Len(a) = i - 1 /\ \A j \in 1 .. i - 1 : a[j] = s[j]
      /\ b \in Seq(R) /\ Len(b) = n - i /\ \A j \in 1 .. n - i : b[j] = s[j + i]
  <2>1. /\ a \in Seq(R) /\ Len(a) = i - 1 /\ \A j \in 1 .. i - 1 : a[j] = s[j]
    BY <1>1
  <2>2. /\ b \in Seq(R) /\ Len(b) = n - i
    BY <1>1
  <2>3. \A j \in 1 .. n - i : b[j] = s[j + i]
    BY <1>1
  <2> QED BY <2>1, <2>2, <2>3
<1>3. t = a \o b
  BY DEF Without
<1> HIDE DEF a, b, t, n
<1>4. /\ t \in Seq(R) /\ Len(t) = n - 1 /\ DOMAIN t = 1 .. n - 1
      /\ \A j \in 1 .. n - 1 : t[j] = IF j < i THEN s[j] ELSE s[j + 1]
  <2>3. a \in Seq(R) /\ b \in Seq(R)
    BY <1>2
  <2>4. a \o b \in Seq(R) 
    BY <2>3
  <2>5. Len(a \o b) = Len(a) + Len(b)
    BY <2>3
  <2>6. t \in Seq(R) /\ Len(t) = Len(a) + Len(b)
    BY <2>4, <2>5, <1>3
  <2>1. t \in Seq(R) /\ Len(t) = n - 1 /\ DOMAIN t = 1 .. n - 1
    BY <1>1, <1>2, <2>6
  <2>2. ASSUME NEW j \in 1 .. n - 1 PROVE t[j] = IF j < i THEN s[j] ELSE s[j + 1]
    <3>1. CASE j < i
      <4>1. j \in 1 .. i - 1
        BY <1>1, <3>1
      <4> QED BY <1>1, <1>2, <1>3, <3>1, <4>1
    <3>2. CASE ~(j < i)
      <4>1. j - (i - 1) \in 1 .. n - i /\ j - (i - 1) + i = j + 1
        BY <1>1, <3>2
      <4>2. t[j] = b[j - (i - 1)]
        BY <1>1, <1>2, <1>3, <3>2
      <4> QED BY <1>2, <3>2, <4>1, <4>2
    <3> QED BY <3>1, <3>2
  <2> QED BY <2>1, <2>2
<1>5. \A j \in DOMAIN t : \/ j < i /\ j \in DOMAIN s /\ t[j] = s[j] /\ j # i
                          \/ j >= i /\ j + 1 \in DOMAIN s /\ t[j] = s[j + 1] /\ j + 1 # i
  BY <1>1, <1>4
<1>6. \A k \in DOMAIN s : k # i => \/ k < i /\ k \in DOMAIN t /\ t[k] = s[k]
                                   \/ k > i /\ k - 1 \in DOMAIN t /\ t[k - 1] = s[k]
  BY <1>1, <1>4
<1>7. \A j \in DOMAIN t : \E k \in DOMAIN s : k # i /\ t[j] = s[k]
  BY <1>5
<1>8. Bufs(t) = Bufs(s) \ {s[i].msgbuff}
  <2>1. Bufs(t) \subseteq Bufs(s) \ {s[i].msgbuff}
    BY <1>7 DEF Bufs, InjBufs
  <2>2. Bufs(s) \ {s[i].msgbuff} \subseteq Bufs(t)
    BY <1>6 DEF Bufs
  <2> QED BY <2>1, <2>2
<1>9. InjBufs(t)
  <2> SUFFICES ASSUME NEW j \in DOMAIN t, NEW k \in DOMAIN t, t[j].msgbuff = t[k].msgbuff PROVE j = k
    BY DEF InjBufs
  <2>1. j \in Int /\ k \in Int
    BY <1>1, <1>4
  <2>2. CASE j < i /\ k < i
    BY <1>1, <1>5, <2>1, <2>2 DEF InjBufs
  <2>3. CASE j >= i /\ k >= i
    <3>1. j + 1 = k + 1
      BY <1>1, <1>5, <2>1, <2>3 DEF InjBufs
    <3> QED BY <2>1, <3>1
  <2>4. CASE j < i /\ k >= i
    <3>1. j = k + 1
      BY <1>1, <1>5, <2>1, <2>4 DEF InjBufs
    <3> QED BY <1>1, <2>1, <2>4, <3>1
  <2>5. CASE j >= i /\ k < i
    <3>1. j + 1 = k
      BY <1>1, <1>5, <2>1, <2>5 DEF InjBufs
    <3> QED BY <1>1, <2>1, <2>5, <3>1
  <2> QED BY <1>1, <2>1, <2>2, <2>3, <2>4, <2>5
<1> QED BY <1>4, <1>7, <1>8, <1>9 DEF t

(* An answer is put at the end of the reply queue. *)
LEMMA AppendBufs ==
  ASSUME NEW R, NEW s \in Seq(R), NEW x \in R
  PROVE  /\ Append(s, x) \in Seq(R)
         /\ \A j \in DOMAIN Append(s, x) : Append(s, x)[j] = x \/ \E k \in DOMAIN s : Append(s, x)[j] = s[k]
         /\ Bufs(Append(s, x)) = Bufs(s) \cup {x.msgbuff}
         /\ InjBufs(s) /\ x.msgbuff \notin Bufs(s) => InjBufs(Append(s, x))
<1> DEFINE t == Append(s, x)
<1>1. /\ t \in Seq(R) /\ Len(s) \in Nat /\ DOMAIN s = 1 .. Len(s) /\ DOMAIN t = 1 .. Len(s) + 1
      /\ \A i \in 1 .. Len(s) : t[i] = s[i]
      /\ t[Len(s) + 1] = x
  OBVIOUS
<1> HIDE DEF t
<1>2. \A i \in DOMAIN t : i \in DOMAIN s \/ i = Len(s) + 1
  BY <1>1
<1>3. \A i \in DOMAIN s : i \in DOMAIN t /\ t[i] = s[i] /\ t[i].msgbuff \in Bufs(s)
  BY <1>1 DEF Bufs
<1>4. Len(s) + 1 \in DOMAIN t
  BY <1>1
<1>5. Bufs(t) = Bufs(s) \cup {x.msgbuff}
  BY <1>1, <1>2, <1>3, <1>4 DEF Bufs
<1>6. InjBufs(s) /\ x.msgbuff \notin Bufs(s) => InjBufs(t)
  BY <1>1, <1>2, <1>3, <1>4 DEF InjBufs
<1>7. \A j \in DOMAIN t : t[j] = x \/ \E k \in DOMAIN s : t[j] = s[k]
  BY <1>1, <1>2, <1>3
<1> QED BY <1>1, <1>5, <1>6, <1>7 DEF t

-----------------------------------------------------------------------------
Hdrs == [module_id : Mods, sender_id : Mods, msg_type : Types,
         opcode : {"post", "request", "reply"}, request : Nat]
Pcs == {"idle", "handle", "drain", "send", "poll", "got", "rsend", "release", "dead"}

(* A header is not the mark of a free block. *)
LEMMA HdrNotNone == \A h \in Hdrs : h # NoHdr /\ h.opcode # "none"
BY DEF Hdrs, NoHdr

MsgTypeOK ==
  /\ que \in [Mods -> Seq(Buffers)]
  /\ replyq \in Seq([recvmod : Mods, msgbuff : Buffers])
  /\ hdr \in [Buffers -> Hdrs \cup {NoHdr}]
  /\ pc \in [Mods -> Pcs]
  /\ snd \in [Mods -> Buffers \cup {NoBuf}]
  /\ work \in [Mods -> Buffers \cup {NoBuf}]
  /\ got \in [Mods -> Buffers \cup {NoBuf}]
  /\ sndhdr \in [Mods -> Hdrs \cup {NoHdr}]
  /\ seq \in Nat
  /\ abandoned \in [Mods -> SUBSET Nat]
  /\ leaked \in SUBSET Buffers

(* What a main thread has in its hands at each step. *)
Sending  == {"drain", "send"}
Answered == {"rsend", "release"}
Hands(m) ==
  /\ pc[m] \in Sending \cup {"rsend"} <=> snd[m] # NoBuf
  /\ pc[m] = "got" <=> got[m] # NoBuf
  /\ pc[m] \in {"idle", "dead"} => work[m] = NoBuf
  /\ pc[m] \in {"handle", "rsend", "release"} => work[m] # NoBuf
  /\ pc[m] \in Sending \cup {"poll", "got"} => sndhdr[m] \in Hdrs

(* Each block has one kind of place k[b] and, where that is one of many, an owner o[b];
   the queues and the hands of the processes hold exactly the blocks placed there. *)
Kinds == {"free", "leaked", "reply", "que", "snd", "got", "work"}
At(x, y, b) ==
  /\ x \notin {"free", "leaked", "reply"} => y \in Mods
  /\ x = "free" <=> hdr[b] = NoHdr
  /\ x = "leaked" <=> b \in leaked
  /\ x = "reply" <=> b \in Bufs(replyq)
  /\ \A m \in Mods : /\ x = "que" /\ y = m <=> b \in Elems(que[m])
                     /\ x = "snd" /\ y = m <=> snd[m] = b
                     /\ x = "got" /\ y = m <=> got[m] = b
                     /\ x = "work" /\ y = m <=> work[m] = b
Spot(k, o, b) == At(k[b], o[b], b)
Placed(k, o) ==
  /\ k \in [Buffers -> Kinds]
  /\ o \in [Buffers -> Mods \cup {NoBuf}]
  /\ \A b \in Buffers : Spot(k, o, b)
  /\ \A m \in Mods : Inj(que[m])
  /\ InjBufs(replyq)

(* The first invariant: every block is in one place. *)
PlaceInv ==
  /\ MsgTypeOK
  /\ \A m \in Mods : Hands(m)
  /\ \E k, o : Placed(k, o)

(* In the first state all blocks are free. *)
LEMMA PlaceInit == Init => PlaceInv
<1> SUFFICES ASSUME Init PROVE PlaceInv
  OBVIOUS
<1>1. MsgTypeOK
  BY DEF Init, MsgTypeOK, Pcs
<1>2. \A m \in Mods : Hands(m)
  BY IpcAssumption DEF Init, Hands, Sending
<1> DEFINE k == [b \in Buffers |-> "free"]
           o == [b \in Buffers |-> NoBuf]
<1>3. /\ \A m \in Mods : Elems(que[m]) = {} /\ Inj(que[m])
      /\ Bufs(replyq) = {} /\ InjBufs(replyq)
  BY DEF Init, Elems, Inj, Bufs, InjBufs
<1>4. k \in [Buffers -> Kinds] /\ o \in [Buffers -> Mods \cup {NoBuf}]
  BY DEF Kinds
<1>5. Placed(k, o)
  BY <1>3, <1>4, IpcAssumption DEF Init, Placed, Spot, At, Answered
<1> QED BY <1>1, <1>2, <1>5 DEF PlaceInv

(* Only module m has moved. *)
LEMMA HandsOthers ==
  ASSUME PlaceInv, NEW m \in Mods,
         \A n \in Mods \ {m} : /\ pc'[n] = pc[n] /\ snd'[n] = snd[n] /\ got'[n] = got[n]
                               /\ work'[n] = work[n] /\ sndhdr'[n] = sndhdr[n],
         Hands(m)'
  PROVE  \A n \in Mods : Hands(n)'
<1> SUFFICES ASSUME NEW n \in Mods, n # m PROVE Hands(n)'
  OBVIOUS
<1> QED BY DEF PlaceInv, Hands

(* mem_share_malloc for a send. *)
LEMMA SendPlace ==
  ASSUME PlaceInv, NEW m \in Mods, NEW dst \in Mods, NEW t \in Types, NEW op \in {"post", "request"},
         Send(m, dst, t, op)
  PROVE  PlaceInv'
<1> DEFINE h == [module_id |-> dst, sender_id |-> m, msg_type |-> t, opcode |-> op, request |-> seq + 1]
           s == IF op = "request" THEN "drain" ELSE "send"
<1>1. PICK k, o : Placed(k, o)
  BY DEF PlaceInv
<1>2. PICK b \in Taken : /\ hdr' = Filled(b, h) /\ snd' = [snd EXCEPT ![m] = b]
                         /\ sndhdr' = [sndhdr EXCEPT ![m] = h]
  BY DEF Send
<1>3. /\ b \in Buffers /\ hdr[b] = NoHdr /\ hdr' = [hdr EXCEPT ![b] = h]
      /\ h \in Hdrs /\ h # NoHdr /\ seq' = seq + 1 /\ seq' \in Nat
  <2>1. seq' = seq + 1 /\ seq' \in Nat /\ seq + 1 \in Nat
    BY DEF Send, PlaceInv, MsgTypeOK
  <2>2. h \in Hdrs
    BY <2>1 DEF Hdrs
  <2>3. h # NoHdr
    BY <2>2, HdrNotNone
  <2>4. b \in Buffers /\ hdr[b] = NoHdr /\ hdr' = [hdr EXCEPT ![b] = h]
    BY <1>2 DEF Taken, FreeBufs, Filled
  <2> QED BY <2>1, <2>2, <2>3, <2>4
<1>4. /\ pc' = [pc EXCEPT ![m] = s] /\ s \in Sending /\ s \in Pcs /\ pc[m] \in {"idle", "handle"}
      /\ UNCHANGED <<que, replyq, work, got, abandoned, leaked>>
  BY DEF Send, Sending, Pcs
<1> HIDE DEF h, s
<1>5. MsgTypeOK'
  BY <1>2, <1>3, <1>4 DEF PlaceInv, MsgTypeOK
<1>6. /\ \A n \in Mods : /\ snd'[n] = IF n = m THEN b ELSE snd[n]
                         /\ pc'[n] = IF n = m THEN s ELSE pc[n]
                         /\ sndhdr'[n] = IF n = m THEN h ELSE sndhdr[n]
      /\ \A c \in Buffers : hdr'[c] = IF c = b THEN h ELSE hdr[c]
      /\ b # NoBuf
  BY <1>2, <1>3, <1>4, IpcAssumption DEF PlaceInv, MsgTypeOK
<1>7. \A n \in Mods : Hands(n)'
  <2>1. Hands(m)'
    BY <1>3, <1>4, <1>6 DEF PlaceInv, Hands, Sending
  <2> QED BY <1>4, <1>6, <2>1, HandsOthers
<1> DEFINE k2 == [k EXCEPT ![b] = "snd"]
           o2 == [o EXCEPT ![b] = m]
<1>8. /\ k2 \in [Buffers -> Kinds] /\ o2 \in [Buffers -> Mods \cup {NoBuf}]
      /\ \A c \in Buffers : /\ k2[c] = IF c = b THEN "snd" ELSE k[c]
                            /\ o2[c] = IF c = b THEN m ELSE o[c]
  BY <1>1, <1>3 DEF Placed, Kinds
<1> HIDE DEF k2, o2
<1>9. snd[m] = NoBuf /\ k[b] = "free"
  BY <1>1, <1>3, <1>4 DEF Placed, Spot, At, PlaceInv, Hands, Sending
<1>10. Placed(k2, o2)'
  <2>1. ASSUME NEW c \in Buffers PROVE Spot(k2, o2, c)'
    <3>0. Spot(k, o, c) /\ c # NoBuf
      BY <1>1, IpcAssumption DEF Placed
    <3>1. CASE c = b
      BY <1>3, <1>4, <1>6, <1>8, <1>9, <3>0, <3>1 DEF Spot, At, Sending, Answered
    <3>2. CASE c # b
      BY <1>3, <1>4, <1>6, <1>8, <1>9, <3>0, <3>2 DEF Spot, At, Sending, Answered
    <3> QED BY <3>1, <3>2
  <2> QED BY <1>1, <1>4, <1>8, <2>1 DEF Placed
<1> QED BY <1>5, <1>7, <1>10 DEF PlaceInv

(* A nonempty set of numbers has a least one. *)
LEMMA LeastNumber ==
  ASSUME NEW C \in SUBSET Nat, C # {}
  PROVE  \E m \in C : \A x \in C : m <= x
<1> DEFINE R == OpToRel(<, Nat)
<1>1. IsWellFoundedOn(R, Nat)
  BY NatLessThanWellFounded
<1>2. \A x, y \in Nat : x < y => <<x, y>> \in R
  BY DEF OpToRel
<1> HIDE DEF R
<1>3. PICK m \in C : \A x \in C : ~(<<x, m>> \in R)
  BY <1>1, WFMin
<1>4. \A x \in C : ~(x < m)
  BY <1>2, <1>3
<1>5. \A x \in C : m <= x
  BY <1>4
<1> QED BY <1>5

(* msgrcv returns a message of the type it was asked for. *)
LEMMA FirstReplyFor ==
  ASSUME MsgTypeOK, NEW m \in Mods, RepliesFor(m) # {}
  PROVE  /\ FirstReply(m) \in DOMAIN replyq
         /\ replyq[FirstReply(m)].recvmod = m /\ replyq[FirstReply(m)].msgbuff \in Buffers
         /\ replyq[FirstReply(m)].msgbuff \in Bufs(replyq)
<1>1. DOMAIN replyq \subseteq Nat
  BY DEF MsgTypeOK
<1>2. RepliesFor(m) \in SUBSET Nat
  BY <1>1 DEF RepliesFor
<1>3. \E i \in RepliesFor(m) : \A j \in RepliesFor(m) : i <= j
  BY <1>2, LeastNumber
<1>4. FirstReply(m) \in RepliesFor(m)
  BY <1>3 DEF FirstReply
<1>5. FirstReply(m) \in DOMAIN replyq /\ replyq[FirstReply(m)].recvmod = m
  BY <1>4 DEF RepliesFor
<1>6. \A i \in DOMAIN replyq : replyq[i].msgbuff \in Buffers /\ replyq[i].msgbuff \in Bufs(replyq)
  <2> DEFINE R == [recvmod : Mods, msgbuff : Buffers]
  <2>1. replyq \in Seq(R)
    BY DEF MsgTypeOK
  <2>2. \A r \in R : r.msgbuff \in Buffers
    OBVIOUS
  <2> HIDE DEF R
  <2>3. \A i \in DOMAIN replyq : replyq[i] \in R
    BY <2>1
  <2> QED BY <2>2, <2>3 DEF Bufs
<1> QED BY <1>5, <1>6

(* A block is freed. *)
LEMMA FreedType ==
  ASSUME MsgTypeOK, NEW b \in Buffers, hdr' = Freed(b)
  PROVE  /\ hdr' \in [Buffers -> Hdrs \cup {NoHdr}]
         /\ \A c \in Buffers : hdr'[c] = IF c = b THEN NoHdr ELSE hdr[c]
BY DEF MsgTypeOK, Freed

(* An answer that is not wanted is taken from the reply queue and freed. *)
LEMMA DropPlace ==
  ASSUME PlaceInv, NEW m \in Mods, RepliesFor(m) # {},
         replyq' = Without(replyq, FirstReply(m)), hdr' = Freed(replyq[FirstReply(m)].msgbuff),
         UNCHANGED <<que, snd, sndhdr, work, got, pc, seq, abandoned, leaked>>
  PROVE  PlaceInv'
<1>1. PICK k, o : Placed(k, o)
  BY DEF PlaceInv
<1>2. PICK b : b = replyq[FirstReply(m)].msgbuff
  OBVIOUS
<1>3. b \in Buffers /\ b \in Bufs(replyq) /\ FirstReply(m) \in DOMAIN replyq
  BY <1>2, FirstReplyFor DEF PlaceInv
<1>4. /\ replyq' \in Seq([recvmod : Mods, msgbuff : Buffers])
      /\ Bufs(replyq') = Bufs(replyq) \ {b} /\ InjBufs(replyq')
      /\ hdr' \in [Buffers -> Hdrs \cup {NoHdr}]
      /\ \A c \in Buffers : hdr'[c] = IF c = b THEN NoHdr ELSE hdr[c]
      /\ UNCHANGED <<que, snd, work, got, pc, leaked>>
  BY <1>1, <1>2, <1>3, WithoutBufs, FreedType DEF PlaceInv, MsgTypeOK, Placed
<1>5. MsgTypeOK'
  BY <1>4 DEF PlaceInv, MsgTypeOK
<1>7. \A n \in Mods : Hands(n)'
  BY <1>4 DEF PlaceInv, Hands
<1> DEFINE k2 == [k EXCEPT ![b] = "free"]
           o2 == [o EXCEPT ![b] = NoBuf]
<1>8. /\ k2 \in [Buffers -> Kinds] /\ o2 \in [Buffers -> Mods \cup {NoBuf}]
      /\ \A c \in Buffers : /\ k2[c] = IF c = b THEN "free" ELSE k[c]
                            /\ o2[c] = IF c = b THEN NoBuf ELSE o[c]
  BY <1>1, <1>3 DEF Placed, Kinds
<1> HIDE DEF k2, o2
<1>9. k[b] = "reply"
  BY <1>1, <1>3, <1>4, IpcAssumption DEF Placed, Spot, At, PlaceInv, Hands, Sending, Answered
<1>10. Placed(k2, o2)'
  <2>1. ASSUME NEW c \in Buffers PROVE Spot(k2, o2, c)'
    <3>0. Spot(k, o, c) /\ c # NoBuf
      BY <1>1, IpcAssumption DEF Placed
    <3>1. CASE c = b
      BY <1>3, <1>4, <1>8, <1>9, <3>0, <3>1 DEF Spot, At
    <3>2. CASE c # b
      BY <1>3, <1>4, <1>8, <1>9, <3>0, <3>2 DEF Spot, At
    <3> QED BY <3>1, <3>2
  <2> QED BY <1>1, <1>4, <1>8, <2>1 DEF Placed
<1> QED BY <1>5, <1>7, <1>10 DEF PlaceInv

(* ipc_sync_send_n1 before it sends. *)
LEMMA DrainPlace ==
  ASSUME PlaceInv, NEW m \in Mods, Drain(m)
  PROVE  PlaceInv'
<1>1. CASE RepliesFor(m) = {}
  <2>1. PICK k, o : Placed(k, o)
    BY DEF PlaceInv
  <2>2. /\ pc' = [pc EXCEPT ![m] = "send"] /\ pc[m] = "drain"
        /\ UNCHANGED <<que, replyq, hdr, snd, sndhdr, work, got, seq, abandoned, leaked>>
    BY <1>1 DEF Drain
  <2>3. \A n \in Mods : pc'[n] = IF n = m THEN "send" ELSE pc[n]
    BY <2>2 DEF PlaceInv, MsgTypeOK
  <2>4. MsgTypeOK'
    BY <2>2 DEF PlaceInv, MsgTypeOK, Pcs
  <2>5. \A n \in Mods : Hands(n)'
    BY <2>2, <2>3 DEF PlaceInv, Hands, Sending
  <2>6. Placed(k, o)'
    BY <2>1, <2>2, <2>3 DEF Placed, Spot, At, Answered
  <2> QED BY <2>4, <2>5, <2>6 DEF PlaceInv
<1>2. CASE RepliesFor(m) # {}
  BY <1>2, DropPlace DEF Drain
<1> QED BY <1>1, <1>2

(* Where a send returns to. *)
LEMMA BackPc ==
  ASSUME NEW m \in Mods
  PROVE  /\ Back(m) \in Pcs /\ Back(m) \in {"idle", "handle"}
         /\ Back(m) = "idle" <=> work[m] = NoBuf
BY DEF Back, Pcs

(* The block goes into the queue of the receiver. *)
LEMMA SentPlace ==
  ASSUME PlaceInv, NEW m \in Mods, TrySend(m), Len(que[sndhdr[m].module_id]) < QueueMax
  PROVE  PlaceInv'
<1>1. PICK k, o : Placed(k, o)
  BY DEF PlaceInv
<1>2. PICK b, dst, s : /\ b = snd[m] /\ dst = sndhdr[m].module_id
                       /\ s = IF sndhdr[m].opcode = "request" THEN "poll" ELSE Back(m)
  OBVIOUS
<1>3. /\ b \in Buffers /\ b # NoBuf /\ dst \in Mods /\ snd[m] = b /\ sndhdr[m] \in Hdrs
      /\ que[dst] \in Seq(Buffers) /\ pc[m] = "send"
      /\ s \in Pcs /\ s \notin Sending \cup Answered \cup {"got", "dead"}
      /\ s = "idle" => work[m] = NoBuf
      /\ s = "handle" => work[m] # NoBuf
      /\ s = "poll" => sndhdr' = sndhdr
  <2>1. pc[m] = "send" /\ sndhdr[m] \in Hdrs /\ snd[m] # NoBuf
    BY DEF TrySend, PlaceInv, Hands, Sending
  <2>2. b \in Buffers /\ dst \in Mods /\ que[dst] \in Seq(Buffers)
    <3>1. dst \in Mods
      BY <1>2, <2>1 DEF Hdrs
    <3> QED BY <1>2, <2>1, <3>1 DEF PlaceInv, MsgTypeOK
  <2>3. /\ s \in Pcs /\ s \notin Sending \cup Answered \cup {"got", "dead"}
        /\ s = "idle" => work[m] = NoBuf
        /\ s = "handle" => work[m] # NoBuf
    BY <1>2, BackPc DEF Pcs, Sending, Answered
  <2>4. s = "poll" => sndhdr' = sndhdr
    <3>1. ~(Len(que[dst]) >= QueueMax)
      BY <1>2, <2>2, IpcAssumption
    <3> QED BY <1>2, <3>1, BackPc DEF TrySend
  <2> QED BY <1>2, <2>1, <2>2, <2>3, <2>4
<1>4. /\ que' = [que EXCEPT ![dst] = Append(que[dst], b)] /\ snd' = [snd EXCEPT ![m] = NoBuf]
      /\ pc' = [pc EXCEPT ![m] = s] /\ (sndhdr' = sndhdr \/ sndhdr' = [sndhdr EXCEPT ![m] = NoHdr])
      /\ UNCHANGED <<replyq, hdr, work, got, seq, abandoned, leaked>>
  <2>1. ~(Len(que[dst]) >= QueueMax)
    BY <1>2, <1>3, IpcAssumption
  <2> QED BY <1>2, <2>1 DEF TrySend, Returned
<1>5. MsgTypeOK'
  <2>1. Append(que[dst], b) \in Seq(Buffers)
    BY <1>3
  <2> QED BY <1>3, <1>4, <2>1 DEF PlaceInv, MsgTypeOK
<1>6. /\ \A n \in Mods : /\ snd'[n] = IF n = m THEN NoBuf ELSE snd[n]
                         /\ pc'[n] = IF n = m THEN s ELSE pc[n]
                         /\ n # m => sndhdr'[n] = sndhdr[n]
                         /\ que'[n] = IF n = dst THEN Append(que[dst], b) ELSE que[n]
  BY <1>4 DEF PlaceInv, MsgTypeOK
<1>7. \A n \in Mods : Hands(n)'
  <2>1. Hands(m)'
    BY <1>3, <1>4, <1>6 DEF PlaceInv, Hands, Sending, Answered
  <2> QED BY <1>4, <1>6, <2>1, HandsOthers
<1> DEFINE k2 == [k EXCEPT ![b] = "que"]
           o2 == [o EXCEPT ![b] = dst]
<1>8. /\ k2 \in [Buffers -> Kinds] /\ o2 \in [Buffers -> Mods \cup {NoBuf}]
      /\ \A c \in Buffers : /\ k2[c] = IF c = b THEN "que" ELSE k[c]
                            /\ o2[c] = IF c = b THEN dst ELSE o[c]
  BY <1>1, <1>3 DEF Placed, Kinds
<1> HIDE DEF k2, o2
<1>9. k[b] = "snd" /\ o[b] = m
  BY <1>1, <1>3, <1>4, IpcAssumption DEF Placed, Spot, At, PlaceInv, Hands, Sending, Answered
<1>11. /\ \A n \in Mods : Elems(que'[n]) = IF n = dst THEN Elems(que[n]) \cup {b} ELSE Elems(que[n])
       /\ \A n \in Mods : Inj(que'[n])
  <2>1. b \notin Elems(que[dst]) /\ Inj(que[dst])
    BY <1>1, <1>3, <1>9 DEF Placed, Spot, At
  <2>2. Elems(Append(que[dst], b)) = Elems(que[dst]) \cup {b} /\ Inj(Append(que[dst], b))
    BY <1>3, <2>1, AppendElems
  <2> QED BY <1>1, <1>6, <2>2 DEF Placed
<1>12. /\ \A n \in Mods : pc'[n] \in Answered <=> pc[n] \in Answered
       /\ UNCHANGED <<replyq, hdr, work, got, leaked>>
  BY <1>3, <1>4, <1>6 DEF Answered
<1>10. Placed(k2, o2)'
  <2>1. ASSUME NEW c \in Buffers PROVE Spot(k2, o2, c)'
    <3>0. Spot(k, o, c) /\ c # NoBuf
      BY <1>1, IpcAssumption DEF Placed
    <3>1. CASE c = b
      <4>1. k2[c] = "que" /\ o2[c] = dst
        BY <1>8, <3>1
      <4>2. hdr'[c] # NoHdr /\ c \notin leaked' /\ c \notin Bufs(replyq')
        BY <1>9, <1>12, <3>0, <3>1 DEF Spot, At
      <4>3. ASSUME NEW n \in Mods
            PROVE  /\ dst = n <=> c \in Elems(que'[n])
                   /\ snd'[n] # c /\ got'[n] # c /\ work'[n] # c
        <5>1. n # dst => c \notin Elems(que'[n])
          BY <1>9, <1>11, <3>0, <3>1 DEF Spot, At
        <5>2. n = dst => c \in Elems(que'[n])
          BY <1>11, <3>1
        <5>3. snd'[n] # c /\ got'[n] # c /\ work'[n] # c
          BY <1>6, <1>9, <1>12, <3>0, <3>1 DEF Spot, At
        <5> QED BY <5>1, <5>2, <5>3
      <4> QED BY <1>3, <4>1, <4>2, <4>3 DEF Spot, At
    <3>2. CASE c # b
      <4>1. k2[c] = k[c] /\ o2[c] = o[c]
        BY <1>8, <3>2
      <4>2. UNCHANGED <<hdr[c], leaked, replyq>>
        BY <1>12
      <4>3. ASSUME NEW n \in Mods
            PROVE  /\ c \in Elems(que'[n]) <=> c \in Elems(que[n])
                   /\ snd'[n] = c <=> snd[n] = c
                   /\ got'[n] = got[n] /\ work'[n] = work[n]
                   /\ pc'[n] \in Answered <=> pc[n] \in Answered
        <5>1. c \in Elems(que'[n]) <=> c \in Elems(que[n])
          BY <1>11, <3>2
        <5>2. snd'[n] = c <=> snd[n] = c
          BY <1>3, <1>6, <3>0, <3>2
        <5> QED BY <1>12, <5>1, <5>2
      <4> QED BY <3>0, <4>1, <4>2, <4>3 DEF Spot, At
    <3> QED BY <3>1, <3>2
  <2> QED BY <1>1, <1>4, <1>8, <2>1, <1>6, <1>11 DEF Placed
<1> QED BY <1>5, <1>7, <1>10 DEF PlaceInv

(* The last attempt failed: the sender frees its block. *)
LEMMA GiveUpPlace ==
  ASSUME PlaceInv, NEW m \in Mods, pc[m] \in {"send", "rsend"}, NEW s, NEW x,
         s \in Pcs /\ s \notin Sending \cup {"got", "dead", "rsend", "poll"},
         s = "idle" => work[m] = NoBuf, s \in {"handle", "release"} => work[m] # NoBuf,
         hdr' = Freed(snd[m]), snd' = [snd EXCEPT ![m] = NoBuf], pc' = [pc EXCEPT ![m] = s],
         x \in Hdrs \cup {NoHdr}, sndhdr' = [sndhdr EXCEPT ![m] = x],
         UNCHANGED <<que, replyq, work, got, seq, abandoned, leaked>>
  PROVE  PlaceInv'
<1>1. PICK k, o : Placed(k, o)
  BY DEF PlaceInv
<1>2. PICK b : b = snd[m]
  OBVIOUS
<1>3. b \in Buffers /\ b # NoBuf /\ snd[m] = b
  BY <1>2 DEF PlaceInv, MsgTypeOK, Hands, Sending
<1>4. /\ hdr' \in [Buffers -> Hdrs \cup {NoHdr}]
      /\ \A c \in Buffers : hdr'[c] = IF c = b THEN NoHdr ELSE hdr[c]
      /\ UNCHANGED <<que, replyq, work, got, leaked>>
  BY <1>2, <1>3, FreedType DEF PlaceInv
<1>5. MsgTypeOK'
  BY <1>4 DEF PlaceInv, MsgTypeOK
<1>6. /\ \A n \in Mods : /\ snd'[n] = IF n = m THEN NoBuf ELSE snd[n]
                         /\ pc'[n] = IF n = m THEN s ELSE pc[n]
                         /\ n # m => sndhdr'[n] = sndhdr[n]
  BY DEF PlaceInv, MsgTypeOK
<1>7. \A n \in Mods : Hands(n)'
  <2>1. Hands(m)'
    BY <1>3, <1>4, <1>6 DEF PlaceInv, Hands, Sending, Answered, Pcs
  <2> QED BY <1>4, <1>6, <2>1, HandsOthers
<1> DEFINE k2 == [k EXCEPT ![b] = "free"]
           o2 == [o EXCEPT ![b] = NoBuf]
<1>8. /\ k2 \in [Buffers -> Kinds] /\ o2 \in [Buffers -> Mods \cup {NoBuf}]
      /\ \A c \in Buffers : /\ k2[c] = IF c = b THEN "free" ELSE k[c]
                            /\ o2[c] = IF c = b THEN NoBuf ELSE o[c]
  BY <1>1, <1>3 DEF Placed, Kinds
<1> HIDE DEF k2, o2
<1>9. k[b] = "snd" /\ o[b] = m
  BY <1>1, <1>3, <1>4, IpcAssumption DEF Placed, Spot, At, PlaceInv, Hands, Sending, Answered
<1>10. Placed(k2, o2)'
  <2>1. ASSUME NEW c \in Buffers PROVE Spot(k2, o2, c)'
    <3>0. Spot(k, o, c) /\ c # NoBuf
      BY <1>1, IpcAssumption DEF Placed
    <3>1. CASE c = b
      BY <1>3, <1>4, <1>6, <1>8, <1>9, <3>0, <3>1 DEF Spot, At, Sending, Answered
    <3>2. CASE c # b
      BY <1>3, <1>4, <1>6, <1>8, <1>9, <3>0, <3>2 DEF Spot, At, Sending, Answered
    <3> QED BY <3>1, <3>2
  <2> QED BY <1>1, <1>4, <1>8, <2>1 DEF Placed
<1> QED BY <1>5, <1>7, <1>10 DEF PlaceInv

(* A step that only counts. *)
LEMMA CountPlace ==
  ASSUME PlaceInv, UNCHANGED <<que, replyq, hdr, snd, sndhdr, work, got, pc, seq, abandoned, leaked>>
  PROVE  PlaceInv'
<1>1. PICK k, o : Placed(k, o)
  BY DEF PlaceInv
<1>2. Placed(k, o)'
  BY <1>1 DEF Placed, Spot, At
<1> QED BY <1>2 DEF PlaceInv, MsgTypeOK, Hands

(* The attempts of a send. *)
LEMMA TrySendPlace ==
  ASSUME PlaceInv, NEW m \in Mods, TrySend(m)
  PROVE  PlaceInv'
<1>1. CASE Len(que[sndhdr[m].module_id]) < QueueMax
  BY <1>1, SentPlace
<1>2. CASE ~(Len(que[sndhdr[m].module_id]) < QueueMax) /\ retry[m] > 1
  BY <1>2, CountPlace DEF TrySend
<1>3. CASE ~(Len(que[sndhdr[m].module_id]) < QueueMax) /\ ~(retry[m] > 1)
  <2>1. /\ pc[m] = "send" /\ hdr' = Freed(snd[m]) /\ snd' = [snd EXCEPT ![m] = NoBuf]
        /\ pc' = [pc EXCEPT ![m] = Back(m)] /\ sndhdr' = [sndhdr EXCEPT ![m] = NoHdr]
        /\ UNCHANGED <<que, replyq, work, got, seq, abandoned, leaked>>
    BY <1>3 DEF TrySend, Returned
  <2>2. PICK s : s = Back(m)
    OBVIOUS
  <2>3. /\ s \in Pcs /\ s \notin Sending \cup {"got", "dead", "rsend", "poll"}
        /\ s = "idle" => work[m] = NoBuf
        /\ s \in {"handle", "release"} => work[m] # NoBuf
    BY <2>1, <2>2, BackPc DEF Sending, Answered
  <2>4. pc' = [pc EXCEPT ![m] = s] /\ NoHdr \in Hdrs \cup {NoHdr}
    BY <2>1, <2>2
  <2> QED BY <2>1, <2>3, <2>4, GiveUpPlace
<1> QED BY <1>1, <1>2, <1>3

(* A step that leaves block c where it is. *)
Stays(c) ==
  /\ hdr'[c] = NoHdr <=> hdr[c] = NoHdr
  /\ c \in leaked' <=> c \in leaked
  /\ c \in Bufs(replyq') <=> c \in Bufs(replyq)
  /\ \A n \in Mods : /\ c \in Elems(que'[n]) <=> c \in Elems(que[n])
                     /\ snd'[n] = c <=> snd[n] = c
                     /\ got'[n] = c <=> got[n] = c
                     /\ work'[n] = c <=> work[n] = c

(* Block b goes to another place and all others stay. *)
LEMMA MovePlaced ==
  ASSUME PlaceInv, NEW b \in Buffers, NEW x \in Kinds, NEW y \in Mods \cup {NoBuf},
         \A c \in Buffers \ {b} : Stays(c),
         At(x, y, b)',
         \A n \in Mods : Inj(que'[n]),
         InjBufs(replyq')
  PROVE  \E k, o : Placed(k, o)'
<1>1. PICK k, o : Placed(k, o)
  BY DEF PlaceInv
<1> DEFINE k2 == [k EXCEPT ![b] = x]
           o2 == [o EXCEPT ![b] = y]
<1>2. /\ k2 \in [Buffers -> Kinds] /\ o2 \in [Buffers -> Mods \cup {NoBuf}]
      /\ k2[b] = x /\ o2[b] = y
      /\ \A c \in Buffers : c # b => k2[c] = k[c] /\ o2[c] = o[c]
  BY <1>1 DEF Placed
<1> HIDE DEF k2, o2
<1>3. ASSUME NEW c \in Buffers PROVE Spot(k2, o2, c)'
  <2>1. CASE c = b
    BY <1>2, <2>1 DEF Spot
  <2>2. CASE c # b
    <3>1. At(k[c], o[c], c)
      BY <1>1 DEF Placed, Spot
    <3>2. At(k[c], o[c], c)'
      BY <2>2, <3>1 DEF At, Stays
    <3> QED BY <1>2, <2>2, <3>2 DEF Spot
  <2> QED BY <2>1, <2>2
<1>4. Placed(k2, o2)'
  BY <1>2, <1>3 DEF Placed
<1> QED BY <1>4

(* What a block's place says about where it is not. *)
LEMMA WhereIs ==
  ASSUME PlaceInv, NEW b \in Buffers
  PROVE  \E x \in Kinds, y \in Mods \cup {NoBuf} : At(x, y, b)
BY DEF PlaceInv, Placed, Spot

(* The invariant's part on the queues. *)
LEMMA QueuesInj ==
  ASSUME PlaceInv
  PROVE  InjBufs(replyq) /\ \A n \in Mods : Inj(que[n])
BY DEF PlaceInv, Placed

(* ipc_sync_send_n1 takes the answer. *)
LEMMA MatchPlace ==
  ASSUME PlaceInv, NEW m \in Mods, Poll(m), RepliesFor(m) # {},
         Matches(hdr[replyq[FirstReply(m)].msgbuff], sndhdr[m])
  PROVE  PlaceInv'
<1>2. PICK b : b = replyq[FirstReply(m)].msgbuff
  OBVIOUS
<1>3. b \in Buffers /\ b \in Bufs(replyq) /\ FirstReply(m) \in DOMAIN replyq /\ b # NoBuf
  BY <1>2, FirstReplyFor, IpcAssumption DEF PlaceInv
<1>4. /\ replyq' = Without(replyq, FirstReply(m)) /\ got' = [got EXCEPT ![m] = b]
      /\ pc' = [pc EXCEPT ![m] = "got"] /\ pc[m] = "poll"
      /\ abandoned' = [abandoned EXCEPT ![m] = abandoned[m] \cup ({sndhdr[m].request} \ {hdr[b].request})]
      /\ UNCHANGED <<que, hdr, snd, sndhdr, work, seq, leaked>>
  BY <1>2 DEF Poll
<1>5. sndhdr[m] \in Hdrs /\ sndhdr[m].request \in Nat /\ got[m] = NoBuf
  BY <1>4 DEF PlaceInv, Hands, Hdrs
<1>6. /\ replyq' \in Seq([recvmod : Mods, msgbuff : Buffers])
      /\ Bufs(replyq') = Bufs(replyq) \ {b} /\ InjBufs(replyq')
  BY <1>2, <1>3, <1>4, WithoutBufs, QueuesInj DEF PlaceInv, MsgTypeOK
<1>7. MsgTypeOK'
  <2>1. abandoned' \in [Mods -> SUBSET Nat]
    BY <1>4, <1>5 DEF PlaceInv, MsgTypeOK
  <2> QED BY <1>3, <1>4, <1>6, <2>1 DEF PlaceInv, MsgTypeOK, Pcs
<1>8. /\ \A n \in Mods : /\ got'[n] = IF n = m THEN b ELSE got[n]
                         /\ pc'[n] = IF n = m THEN "got" ELSE pc[n]
      /\ UNCHANGED <<que, hdr, snd, sndhdr, work, leaked>>
  BY <1>4 DEF PlaceInv, MsgTypeOK
<1>9. \A n \in Mods : Hands(n)'
  <2>1. Hands(m)'
    BY <1>3, <1>4, <1>5, <1>8 DEF PlaceInv, Hands, Sending
  <2> QED BY <1>8, <2>1, HandsOthers
<1>10. ASSUME NEW c \in Buffers \ {b} PROVE Stays(c)
  BY <1>5, <1>6, <1>8, IpcAssumption DEF Stays
<1>11. At("got", m, b)'
  <2>1. PICK x \in Kinds, y \in Mods \cup {NoBuf} : At(x, y, b)
    BY <1>3, WhereIs
  <2>2. x = "reply"
    BY <1>3, <2>1 DEF At
  <2> QED BY <1>3, <1>6, <1>8, <2>1, <2>2 DEF At
<1>12. \E k, o : Placed(k, o)'
  BY <1>3, <1>6, <1>8, <1>10, <1>11, MovePlaced, QueuesInj DEF Kinds
<1> QED BY <1>7, <1>9, <1>12 DEF PlaceInv

(* One look at the reply queue. *)
LEMMA PollPlace ==
  ASSUME PlaceInv, NEW m \in Mods, Poll(m)
  PROVE  PlaceInv'
<1>1. CASE RepliesFor(m) = {}
  BY <1>1, CountPlace DEF Poll
<1>2. CASE RepliesFor(m) # {} /\ Matches(hdr[replyq[FirstReply(m)].msgbuff], sndhdr[m])
  BY <1>2, MatchPlace
<1>3. CASE RepliesFor(m) # {} /\ ~Matches(hdr[replyq[FirstReply(m)].msgbuff], sndhdr[m])
  BY <1>3, DropPlace DEF Poll
<1> QED BY <1>1, <1>2, <1>3

(* The request is given up; no block moves. *)
LEMMA TimeoutPlace ==
  ASSUME PlaceInv, NEW m \in Mods, Timeout(m)
  PROVE  PlaceInv'
<1>1. PICK k, o : Placed(k, o)
  BY DEF PlaceInv
<1>2. PICK s : s = Back(m)
  OBVIOUS
<1>3. s \in Pcs /\ s \in {"idle", "handle"} /\ (s = "idle" <=> work[m] = NoBuf)
  BY <1>2, BackPc
<1>4. /\ pc' = [pc EXCEPT ![m] = s] /\ pc[m] = "poll" /\ sndhdr' = [sndhdr EXCEPT ![m] = NoHdr]
      /\ abandoned' = [abandoned EXCEPT ![m] = abandoned[m] \cup {sndhdr[m].request}]
      /\ UNCHANGED <<que, replyq, hdr, snd, work, got, seq, leaked>>
  BY <1>2 DEF Timeout, Returned
<1>5. sndhdr[m].request \in Nat
  BY <1>4 DEF PlaceInv, Hands, Hdrs
<1>6. MsgTypeOK'
  <2>1. abandoned' \in [Mods -> SUBSET Nat]
    BY <1>4, <1>5 DEF PlaceInv, MsgTypeOK
  <2> QED BY <1>3, <1>4, <2>1 DEF PlaceInv, MsgTypeOK
<1>7. \A n \in Mods : pc'[n] = IF n = m THEN s ELSE pc[n]
  BY <1>4 DEF PlaceInv, MsgTypeOK
<1>8. \A n \in Mods : Hands(n)'
  <2>1. Hands(m)'
    BY <1>3, <1>4, <1>7 DEF PlaceInv, Hands, Sending
  <2>2. \A n \in Mods \ {m} : sndhdr'[n] = sndhdr[n]
    BY <1>4 DEF PlaceInv, MsgTypeOK
  <2> QED BY <1>4, <1>7, <2>1, <2>2, HandsOthers
<1>9. Placed(k, o)'
  BY <1>1, <1>4 DEF Placed, Spot, At
<1> QED BY <1>6, <1>8, <1>9 DEF PlaceInv

(* The caller frees the answer. *)
LEMMA ConsumePlace ==
  ASSUME PlaceInv, NEW m \in Mods, Consume(m)
  PROVE  PlaceInv'
<1>1. PICK b, s : b = got[m] /\ s = Back(m)
  OBVIOUS
<1>2. s \in Pcs /\ s \in {"idle", "handle"} /\ (s = "idle" <=> work[m] = NoBuf)
  BY <1>1, BackPc
<1>3. /\ pc' = [pc EXCEPT ![m] = s] /\ pc[m] = "got" /\ sndhdr' = [sndhdr EXCEPT ![m] = NoHdr]
      /\ got' = [got EXCEPT ![m] = NoBuf] /\ hdr' = Freed(b)
      /\ UNCHANGED <<que, replyq, snd, work, seq, abandoned, leaked>>
  BY <1>1 DEF Consume, Returned
<1>4. b \in Buffers /\ b # NoBuf /\ got[m] = b
  BY <1>1, <1>3 DEF PlaceInv, Hands, MsgTypeOK
<1>5. /\ hdr' \in [Buffers -> Hdrs \cup {NoHdr}]
      /\ \A c \in Buffers : hdr'[c] = IF c = b THEN NoHdr ELSE hdr[c]
  BY <1>3, <1>4, FreedType DEF PlaceInv
<1>6. MsgTypeOK'
  BY <1>2, <1>3, <1>5 DEF PlaceInv, MsgTypeOK
<1>7. /\ \A n \in Mods : /\ got'[n] = IF n = m THEN NoBuf ELSE got[n]
                         /\ pc'[n] = IF n = m THEN s ELSE pc[n]
                         /\ n # m => sndhdr'[n] = sndhdr[n]
      /\ UNCHANGED <<que, replyq, snd, work, leaked>>
  BY <1>3 DEF PlaceInv, MsgTypeOK
<1>8. \A n \in Mods : Hands(n)'
  <2>1. Hands(m)'
    BY <1>2, <1>3, <1>7 DEF PlaceInv, Hands, Sending
  <2> QED BY <1>7, <2>1, HandsOthers
<1>9. ASSUME NEW c \in Buffers \ {b} PROVE Stays(c)
  BY <1>4, <1>5, <1>7, IpcAssumption DEF Stays
<1>10. At("free", NoBuf, b)'
  <2>1. PICK x \in Kinds, y \in Mods \cup {NoBuf} : At(x, y, b)
    BY <1>4, WhereIs
  <2>2. x = "got" /\ y = m
    BY <1>4, <2>1 DEF At
  <2> QED BY <1>4, <1>5, <1>7, <2>1, <2>2 DEF At
<1>11. \E k, o : Placed(k, o)'
  BY <1>4, <1>7, <1>9, <1>10, MovePlaced, QueuesInj DEF Kinds
<1> QED BY <1>6, <1>8, <1>11 DEF PlaceInv

(* The handler gets the head of the queue. *)
LEMMA DispatchPlace ==
  ASSUME PlaceInv, NEW m \in Mods, Dispatch(m)
  PROVE  PlaceInv'
<1>1. PICK b : b = Head(que[m])
  OBVIOUS
<1>2. /\ que[m] # <<>> /\ que' = [que EXCEPT ![m] = Tail(que[m])] /\ work' = [work EXCEPT ![m] = b]
      /\ pc' = [pc EXCEPT ![m] = "handle"] /\ pc[m] = "idle"
      /\ UNCHANGED <<replyq, hdr, snd, sndhdr, got, seq, abandoned, leaked>>
  BY <1>1 DEF Dispatch
<1>3. que[m] \in Seq(Buffers) /\ Inj(que[m])
  BY QueuesInj DEF PlaceInv, MsgTypeOK
<1>4. /\ Tail(que[m]) \in Seq(Buffers) /\ Elems(Tail(que[m])) = Elems(que[m]) \ {b} /\ Inj(Tail(que[m]))
      /\ b \in Buffers /\ b \in Elems(que[m]) /\ b # NoBuf
  BY <1>1, <1>2, <1>3, TailElems, IpcAssumption
<1>5. MsgTypeOK'
  BY <1>2, <1>4 DEF PlaceInv, MsgTypeOK, Pcs
<1>6. \A n \in Mods : /\ work'[n] = IF n = m THEN b ELSE work[n]
                      /\ pc'[n] = IF n = m THEN "handle" ELSE pc[n]
                      /\ que'[n] = IF n = m THEN Tail(que[m]) ELSE que[n]
  BY <1>2 DEF PlaceInv, MsgTypeOK
<1>7. \A n \in Mods : Hands(n)'
  <2>1. Hands(m)'
    BY <1>2, <1>4, <1>6 DEF PlaceInv, Hands, Sending
  <2> QED BY <1>2, <1>6, <2>1, HandsOthers
<1>8. /\ \A n \in Mods : Elems(que'[n]) = (IF n = m THEN Elems(que[n]) \ {b} ELSE Elems(que[n])) /\ Inj(que'[n])
      /\ work[m] = NoBuf
  <2>1. work[m] = NoBuf
    BY <1>2 DEF PlaceInv, Hands
  <2>2. ASSUME NEW n \in Mods
        PROVE  Elems(que'[n]) = (IF n = m THEN Elems(que[n]) \ {b} ELSE Elems(que[n])) /\ Inj(que'[n])
    <3>1. CASE n = m
      BY <1>4, <1>6, <3>1
    <3>2. CASE n # m
      BY <1>6, <3>2, QueuesInj
    <3> QED BY <3>1, <3>2
  <2> QED BY <2>1, <2>2
<1>9. ASSUME NEW c \in Buffers \ {b} PROVE Stays(c)
  <2>1. c # NoBuf
    BY IpcAssumption
  <2>2. ASSUME NEW n \in Mods PROVE /\ c \in Elems(que'[n]) <=> c \in Elems(que[n])
                                    /\ work'[n] = c <=> work[n] = c
    BY <1>6, <1>8, <2>1
  <2> QED BY <1>2, <2>2 DEF Stays
<1>10. At("work", m, b)'
  <2>1. PICK x \in Kinds, y \in Mods \cup {NoBuf} : At(x, y, b)
    BY <1>4, WhereIs
  <2>2. x = "que" /\ y = m
    BY <1>4, <2>1 DEF At
  <2>3. ASSUME NEW n \in Mods PROVE b \notin Elems(que'[n]) /\ (n = m <=> work'[n] = b)
    BY <1>6, <1>8, <2>1, <2>2 DEF At
  <2> QED BY <1>2, <2>1, <2>2, <2>3 DEF At
<1>11. \E k, o : Placed(k, o)'
  BY <1>2, <1>4, <1>8, <1>9, <1>10, MovePlaced, QueuesInj DEF Kinds
<1> QED BY <1>5, <1>7, <1>11 DEF PlaceInv

(* mem_share_malloc for an answer. *)
LEMMA ReplyPlace ==
  ASSUME PlaceInv, NEW m \in Mods, Reply(m)
  PROVE  PlaceInv'
<1>1. PICK w : w = hdr[work[m]]
  OBVIOUS
<1> DEFINE h == [module_id |-> w.sender_id, sender_id |-> w.module_id, msg_type |-> w.msg_type,
                 opcode |-> "reply", request |-> w.request]
<1>2. PICK b \in Taken : hdr' = Filled(b, h) /\ snd' = [snd EXCEPT ![m] = b]
  BY <1>1 DEF Reply
<1>3. /\ pc' = [pc EXCEPT ![m] = "rsend"] /\ pc[m] = "handle" /\ w.opcode = "request"
      /\ UNCHANGED <<que, replyq, sndhdr, work, got, seq, abandoned, leaked>>
  BY <1>1 DEF Reply
<1>4. h \in Hdrs /\ h # NoHdr
  <2>1. work[m] \in Buffers
    BY <1>3 DEF PlaceInv, Hands, MsgTypeOK
  <2>2. w \in Hdrs \cup {NoHdr}
    BY <1>1, <2>1 DEF PlaceInv, MsgTypeOK
  <2>3. w \in Hdrs
    BY <1>3, <2>2 DEF NoHdr
  <2>4. h \in Hdrs
    BY <2>3 DEF Hdrs
  <2> QED BY <2>4, HdrNotNone
<1>5. b \in Buffers /\ b # NoBuf /\ hdr[b] = NoHdr /\ hdr' = [hdr EXCEPT ![b] = h]
  BY <1>2, IpcAssumption DEF Taken, FreeBufs, Filled
<1> HIDE DEF h
<1>6. MsgTypeOK'
  BY <1>2, <1>3, <1>4, <1>5 DEF PlaceInv, MsgTypeOK, Pcs
<1>7. /\ \A n \in Mods : /\ snd'[n] = IF n = m THEN b ELSE snd[n]
                         /\ pc'[n] = IF n = m THEN "rsend" ELSE pc[n]
      /\ \A c \in Buffers : hdr'[c] = IF c = b THEN h ELSE hdr[c]
      /\ snd[m] = NoBuf
  BY <1>2, <1>3, <1>5 DEF PlaceInv, MsgTypeOK, Hands, Sending
<1>8. \A n \in Mods : Hands(n)'
  <2>1. Hands(m)'
    BY <1>3, <1>5, <1>7 DEF PlaceInv, Hands, Sending
  <2> QED BY <1>3, <1>7, <2>1, HandsOthers
<1>9. ASSUME NEW c \in Buffers \ {b} PROVE Stays(c)
  BY <1>3, <1>7, IpcAssumption DEF Stays
<1>10. At("snd", m, b)'
  <2>1. PICK x \in Kinds, y \in Mods \cup {NoBuf} : At(x, y, b)
    BY <1>5, WhereIs
  <2>2. x = "free"
    BY <1>5, <2>1 DEF At
  <2> QED BY <1>3, <1>4, <1>5, <1>7, <2>1, <2>2 DEF At
<1>11. \E k, o : Placed(k, o)'
  BY <1>3, <1>5, <1>9, <1>10, MovePlaced, QueuesInj DEF Kinds
<1> QED BY <1>6, <1>8, <1>11 DEF PlaceInv

(* The answer goes into the reply queue. *)
LEMMA RepliedPlace ==
  ASSUME PlaceInv, NEW m \in Mods, pc[m] = "rsend",
         replyq' = Append(replyq, [recvmod |-> hdr[snd[m]].module_id, msgbuff |-> snd[m]]),
         snd' = [snd EXCEPT ![m] = NoBuf], pc' = [pc EXCEPT ![m] = AfterReply],
         UNCHANGED <<que, hdr, sndhdr, work, got, seq, abandoned, leaked>>
  PROVE  PlaceInv'
<1>1. PICK b, r : b = snd[m] /\ r = [recvmod |-> hdr[snd[m]].module_id, msgbuff |-> snd[m]]
  OBVIOUS
<1>2. b \in Buffers /\ b # NoBuf /\ snd[m] = b
  BY <1>1 DEF PlaceInv, Hands, MsgTypeOK
<1>3. PICK x \in Kinds, y \in Mods \cup {NoBuf} : At(x, y, b)
  BY <1>2, WhereIs
<1>4. x = "snd" /\ y = m /\ hdr[b] # NoHdr /\ b \notin Bufs(replyq)
  BY <1>2, <1>3 DEF At
<1>5. r \in [recvmod : Mods, msgbuff : Buffers] /\ r.msgbuff = b
  <2>1. hdr[b] \in Hdrs
    BY <1>2, <1>4 DEF PlaceInv, MsgTypeOK
  <2>2. hdr[b].module_id \in Mods
    BY <2>1 DEF Hdrs
  <2> QED BY <1>1, <1>2, <2>2
<1>6. /\ replyq' \in Seq([recvmod : Mods, msgbuff : Buffers])
      /\ Bufs(replyq') = Bufs(replyq) \cup {b} /\ InjBufs(replyq')
  <2> DEFINE R == [recvmod : Mods, msgbuff : Buffers]
  <2>1. replyq \in Seq(R) /\ r \in R /\ replyq' = Append(replyq, r)
    BY <1>1, <1>5 DEF PlaceInv, MsgTypeOK
  <2> HIDE DEF R
  <2>2. replyq' \in Seq(R) /\ Bufs(replyq') = Bufs(replyq) \cup {r.msgbuff} /\ InjBufs(replyq')
    BY <1>4, <1>5, <2>1, AppendBufs, QueuesInj
  <2> QED BY <1>5, <2>2 DEF R
<1>7. MsgTypeOK'
  BY <1>6 DEF PlaceInv, MsgTypeOK, Pcs, AfterReply
<1>8. \A n \in Mods : /\ snd'[n] = IF n = m THEN NoBuf ELSE snd[n]
                      /\ pc'[n] = IF n = m THEN "release" ELSE pc[n]
  BY DEF PlaceInv, MsgTypeOK, AfterReply
<1>9. \A n \in Mods : Hands(n)'
  <2>1. Hands(m)'
    BY <1>8 DEF PlaceInv, Hands, Sending
  <2> QED BY <1>8, <2>1, HandsOthers
<1>10. ASSUME NEW c \in Buffers \ {b} PROVE Stays(c)
  BY <1>2, <1>6, <1>8, IpcAssumption DEF Stays
<1>11. At("reply", NoBuf, b)'
  BY <1>2, <1>3, <1>4, <1>6, <1>8 DEF At
<1>12. \E k, o : Placed(k, o)'
  BY <1>2, <1>6, <1>10, <1>11, MovePlaced, QueuesInj DEF Kinds
<1> QED BY <1>7, <1>9, <1>12 DEF PlaceInv

(* The attempts of an answer. *)
LEMMA TryReplyPlace ==
  ASSUME PlaceInv, NEW m \in Mods, TryReply(m)
  PROVE  PlaceInv'
<1>1. CASE Len(replyq) < ReplyMax
  <2>1. ~(Len(replyq) >= ReplyMax)
    <3>1. Len(replyq) \in Nat
      BY DEF PlaceInv, MsgTypeOK
    <3> QED BY <1>1, <3>1, IpcAssumption
  <2> QED BY <2>1, RepliedPlace DEF TryReply
<1>2. CASE ~(Len(replyq) < ReplyMax) /\ retry[m] > 1
  BY <1>2, CountPlace DEF TryReply
<1>3. CASE ~(Len(replyq) < ReplyMax) /\ ~(retry[m] > 1)
  <2>1. /\ pc[m] = "rsend" /\ hdr' = Freed(snd[m]) /\ snd' = [snd EXCEPT ![m] = NoBuf]
        /\ pc' = [pc EXCEPT ![m] = "release"] /\ UNCHANGED sndhdr
        /\ UNCHANGED <<que, replyq, work, got, seq, abandoned, leaked>>
    BY <1>3 DEF TryReply, AfterReply
  <2>2. sndhdr' = [sndhdr EXCEPT ![m] = sndhdr[m]] /\ sndhdr[m] \in Hdrs \cup {NoHdr}
    BY <2>1 DEF PlaceInv, MsgTypeOK
  <2>3. /\ "release" \in Pcs /\ "release" \notin Sending \cup {"got", "dead", "rsend", "poll"}
        /\ work[m] # NoBuf
    BY <2>1 DEF Pcs, Sending, PlaceInv, Hands
  <2>4. PICK s, x : s = "release" /\ x = sndhdr[m]
    OBVIOUS
  <2> QED BY <2>1, <2>2, <2>3, <2>4, GiveUpPlace
<1> QED BY <1>1, <1>2, <1>3

(* The handler frees its message. *)
LEMMA ReleasePlace ==
  ASSUME PlaceInv, NEW m \in Mods, Release(m)
  PROVE  PlaceInv'
<1>1. PICK b : b = work[m]
  OBVIOUS
<1>2. /\ pc' = [pc EXCEPT ![m] = "idle"] /\ pc[m] \in {"handle", "release"}
      /\ work' = [work EXCEPT ![m] = NoBuf] /\ hdr' = Freed(b)
      /\ UNCHANGED <<que, replyq, snd, sndhdr, got, seq, abandoned, leaked>>
  BY <1>1 DEF Release
<1>3. b \in Buffers /\ b # NoBuf /\ work[m] = b
  BY <1>1, <1>2 DEF PlaceInv, Hands, MsgTypeOK
<1>4. /\ hdr' \in [Buffers -> Hdrs \cup {NoHdr}]
      /\ \A c \in Buffers : hdr'[c] = IF c = b THEN NoHdr ELSE hdr[c]
  BY <1>2, <1>3, FreedType DEF PlaceInv
<1>5. MsgTypeOK'
  BY <1>2, <1>4 DEF PlaceInv, MsgTypeOK, Pcs
<1>6. \A n \in Mods : /\ work'[n] = IF n = m THEN NoBuf ELSE work[n]
                      /\ pc'[n] = IF n = m THEN "idle" ELSE pc[n]
  BY <1>2 DEF PlaceInv, MsgTypeOK
<1>7. \A n \in Mods : Hands(n)'
  <2>1. Hands(m)'
    BY <1>2, <1>6 DEF PlaceInv, Hands, Sending
  <2> QED BY <1>2, <1>6, <2>1, HandsOthers
<1>8. ASSUME NEW c \in Buffers \ {b} PROVE Stays(c)
  BY <1>2, <1>3, <1>4, <1>6, IpcAssumption DEF Stays
<1>9. At("free", NoBuf, b)'
  <2>1. PICK x \in Kinds, y \in Mods \cup {NoBuf} : At(x, y, b)
    BY <1>3, WhereIs
  <2>2. x = "work" /\ y = m
    BY <1>3, <2>1 DEF At
  <2> QED BY <1>2, <1>3, <1>4, <1>6, <2>1, <2>2 DEF At
<1>10. \E k, o : Placed(k, o)'
  BY <1>2, <1>3, <1>8, <1>9, MovePlaced, QueuesInj DEF Kinds
<1> QED BY <1>5, <1>7, <1>10 DEF PlaceInv

(* A process dies: what it had in hand is lost, whatever that is. *)
LEMMA CrashPlace ==
  ASSUME PlaceInv, NEW m \in Mods, Crash(m)
  PROVE  PlaceInv'
<1>1. PICK k, o : Placed(k, o)
  BY DEF PlaceInv
<1>2. PICK H : H = InHand(m)
  OBVIOUS
<1>3. /\ pc' = [pc EXCEPT ![m] = "dead"] /\ leaked' = leaked \cup H
      /\ snd' = [snd EXCEPT ![m] = NoBuf] /\ work' = [work EXCEPT ![m] = NoBuf]
      /\ got' = [got EXCEPT ![m] = NoBuf] /\ sndhdr' = [sndhdr EXCEPT ![m] = NoHdr]
      /\ UNCHANGED <<que, replyq, hdr, seq>>
  BY <1>2 DEF Crash, Returned
<1>4. /\ H \subseteq Buffers
      /\ \A c \in Buffers : c \in H <=> c = snd[m] \/ c = work[m] \/ c = got[m]
  BY <1>2, IpcAssumption DEF InHand, PlaceInv, MsgTypeOK
<1>5. abandoned' \in [Mods -> SUBSET Nat]
  <2>1. CASE pc[m] = "poll"
    <3>1. sndhdr[m].request \in Nat
      BY <2>1 DEF PlaceInv, Hands, Hdrs
    <3>2. abandoned' = [abandoned EXCEPT ![m] = abandoned[m] \cup {sndhdr[m].request}]
      BY <2>1 DEF Crash
    <3> QED BY <3>1, <3>2 DEF PlaceInv, MsgTypeOK
  <2>2. CASE pc[m] # "poll"
    <3>1. abandoned' = [abandoned EXCEPT ![m] = abandoned[m]]
      BY <2>2 DEF Crash
    <3> QED BY <3>1 DEF PlaceInv, MsgTypeOK
  <2> QED BY <2>1, <2>2
<1>6. MsgTypeOK'
  BY <1>3, <1>4, <1>5 DEF PlaceInv, MsgTypeOK, Pcs
<1>7. \A n \in Mods : /\ snd'[n] = IF n = m THEN NoBuf ELSE snd[n]
                      /\ work'[n] = IF n = m THEN NoBuf ELSE work[n]
                      /\ got'[n] = IF n = m THEN NoBuf ELSE got[n]
                      /\ pc'[n] = IF n = m THEN "dead" ELSE pc[n]
                      /\ n # m => sndhdr'[n] = sndhdr[n]
  BY <1>3 DEF PlaceInv, MsgTypeOK
<1>8. \A n \in Mods : Hands(n)'
  <2>1. Hands(m)'
    BY <1>7 DEF Hands, Sending
  <2> QED BY <1>7, <2>1, HandsOthers
<1> DEFINE k2 == [c \in Buffers |-> IF c \in H THEN "leaked" ELSE k[c]]
<1>9. k2 \in [Buffers -> Kinds] /\ \A c \in Buffers : k2[c] = IF c \in H THEN "leaked" ELSE k[c]
  BY <1>1 DEF Placed, Kinds
<1> HIDE DEF k2
<1>10. ASSUME NEW c \in Buffers PROVE Spot(k2, o, c)'
  <2>0. At(k[c], o[c], c) /\ c # NoBuf
    BY <1>1, IpcAssumption DEF Placed, Spot
  <2>1. CASE c \in H
    <3>1. k[c] \in {"snd", "work", "got"} /\ o[c] = m
      BY <1>4, <2>0, <2>1 DEF At
    <3>2. At("leaked", o[c], c)'
      <4>1. hdr'[c] # NoHdr /\ c \in leaked' /\ c \notin Bufs(replyq')
        BY <1>3, <2>0, <2>1, <3>1 DEF At
      <4>2. \A n \in Mods : c \notin Elems(que'[n])
        BY <1>3, <2>0, <3>1 DEF At
      <4>3. \A n \in Mods : snd'[n] # c /\ work'[n] # c /\ got'[n] # c
        BY <1>7, <2>0, <3>1 DEF At
      <4> QED BY <4>1, <4>2, <4>3 DEF At
    <3>3. k2[c] = "leaked"
      BY <1>9, <2>1
    <3> QED BY <3>2, <3>3 DEF Spot
  <2>2. CASE c \notin H
    <3>1. k2[c] = k[c] /\ c # snd[m] /\ c # work[m] /\ c # got[m]
      BY <1>4, <1>9, <2>2
    <3>2. \A n \in Mods : /\ snd'[n] = c <=> snd[n] = c
                          /\ work'[n] = c <=> work[n] = c
                          /\ got'[n] = c <=> got[n] = c
      BY <1>7, <2>0, <3>1
    <3>3. Stays(c)
      BY <1>3, <2>2, <3>2 DEF Stays
    <3>4. At(k[c], o[c], c)'
      BY <2>0, <3>3 DEF At, Stays
    <3> QED BY <3>1, <3>4 DEF Spot
  <2> QED BY <2>1, <2>2
<1>11. Placed(k2, o)'
  BY <1>1, <1>3, <1>9, <1>10 DEF Placed
<1> QED BY <1>6, <1>8, <1>11 DEF PlaceInv

(* The process comes back. *)
LEMMA RestartPlace ==
  ASSUME PlaceInv, NEW m \in Mods, Restart(m)
  PROVE  PlaceInv'
<1>1. PICK k, o : Placed(k, o)
  BY DEF PlaceInv
<1>2. /\ pc' = [pc EXCEPT ![m] = "idle"] /\ pc[m] = "dead"
      /\ UNCHANGED <<que, replyq, hdr, snd, sndhdr, work, got, seq, abandoned, leaked>>
  BY DEF Restart
<1>3. \A n \in Mods : pc'[n] = IF n = m THEN "idle" ELSE pc[n]
  BY <1>2 DEF PlaceInv, MsgTypeOK
<1>4. MsgTypeOK'
  BY <1>2 DEF PlaceInv, MsgTypeOK, Pcs
<1>5. Hands(m)'
  BY <1>2, <1>3 DEF PlaceInv, Hands, Sending
<1>6. \A n \in Mods : Hands(n)'
  BY <1>2, <1>3, <1>5, HandsOthers
<1>7. Placed(k, o)'
  BY <1>1, <1>2 DEF Placed, Spot, At
<1> QED BY <1>4, <1>6, <1>7 DEF PlaceInv

(* Every step keeps the blocks in their places. *)
LEMMA PlaceNext == PlaceInv /\ [Next]_vars => PlaceInv'
<1> SUFFICES ASSUME PlaceInv, [Next]_vars PROVE PlaceInv'
  OBVIOUS
<1>1. CASE UNCHANGED vars
  BY <1>1, CountPlace DEF vars
<1>2. CASE Done
  BY <1>2, CountPlace DEF Done, vars
<1>3. ASSUME NEW m \in Mods, \E dst \in Mods, t \in Types, op \in {"post", "request"} : Send(m, dst, t, op)
      PROVE  PlaceInv'
  BY <1>3, SendPlace
<1>4. ASSUME NEW m \in Mods, Run(m) PROVE PlaceInv'
  BY <1>4, DrainPlace, TrySendPlace, PollPlace, TimeoutPlace, ConsumePlace, TryReplyPlace, ReleasePlace
     DEF Run
<1>5. ASSUME NEW m \in Mods, Dispatch(m) \/ Reply(m) \/ Crash(m) \/ Restart(m) PROVE PlaceInv'
  BY <1>5, DispatchPlace, ReplyPlace, CrashPlace, RestartPlace
<1>6. ASSUME NEW m \in Mods, NoMemory(m) PROVE PlaceInv'
  BY <1>6, CountPlace DEF NoMemory, vars
<1> QED BY <1>1, <1>2, <1>3, <1>4, <1>5, <1>6 DEF Next

-----------------------------------------------------------------------------
(* A block's place is the only one that refers to it. *)
LEMMA OnePlace ==
  ASSUME PlaceInv, NEW b \in Buffers
  PROVE  IF hdr[b] = NoHdr THEN Places(b) = {} ELSE \E p : Places(b) = {p}
<1>1. PICK x \in Kinds, y \in Mods \cup {NoBuf} : At(x, y, b)
  BY WhereIs
<1> DEFINE Q(m) == {j \in DOMAIN que[m] : que[m][j] = b}
           A == UNION {{<<m, i>> : i \in Q(m)} : m \in Mods}
           R == {j \in DOMAIN replyq : replyq[j].msgbuff = b}
           B == {<<"reply", i>> : i \in R}
           S == {n \in Mods : snd[n] = b}
           C == {<<"snd", m>> : m \in S}
           W == {n \in Mods : work[n] = b}
           D == {<<"work", m>> : m \in W}
           G == {n \in Mods : got[n] = b}
           E == {<<"got", m>> : m \in G}
           L == IF b \in leaked THEN {<<"leaked">>} ELSE {}
<1>2. Places(b) = A \cup B \cup C \cup D \cup E \cup L
  BY DEF Places
<1>3. /\ x # "que" => A = {}
      /\ x = "que" => \E p : A = {p}
  <2>1. ASSUME NEW m \in Mods PROVE b \in Elems(que[m]) <=> Q(m) # {}
    BY DEF Elems
  <2>2. CASE x # "que"
    <3>1. \A m \in Mods : Q(m) = {}
      BY <1>1, <2>1, <2>2 DEF At
    <3> QED BY <2>2, <3>1
  <2>3. CASE x = "que"
    <3>1. y \in Mods /\ Q(y) # {} /\ \A m \in Mods : m # y => Q(m) = {}
      BY <1>1, <2>1, <2>3 DEF At
    <3>2. PICK i : i \in Q(y)
      BY <3>1
    <3>3. \A j \in Q(y) : j = i
      BY <3>1, <3>2, QueuesInj DEF Inj
    <3>4. A = {<<y, i>>}
      <4>1. \A p \in A : p = <<y, i>>
        BY <3>1, <3>3
      <4>2. <<y, i>> \in A
        BY <3>1, <3>2
      <4> QED BY <4>1, <4>2
    <3> QED BY <2>3, <3>4
  <2> QED BY <2>2, <2>3
<1>4. /\ x # "reply" => B = {}
      /\ x = "reply" => \E p : B = {p}
  <2>1. b \in Bufs(replyq) <=> R # {}
    BY DEF Bufs
  <2>2. CASE x # "reply"
    BY <1>1, <2>1, <2>2 DEF At
  <2>3. CASE x = "reply"
    <3>1. PICK i : i \in R
      BY <1>1, <2>1, <2>3 DEF At
    <3>2. \A j \in R : j = i
      BY <3>1, QueuesInj DEF InjBufs
    <3>3. R = {i}
      BY <3>1, <3>2
    <3>4. B = {<<"reply", i>>}
      BY <3>3
    <3> QED BY <2>3, <3>4
  <2> QED BY <2>2, <2>3
<1>5. /\ x # "snd" => C = {}
      /\ x = "snd" => \E p : C = {p}
  <2>1. x # "snd" => S = {}
    BY <1>1 DEF At
  <2>2. x = "snd" => S = {y}
    BY <1>1 DEF At
  <2>3. x = "snd" => C = {<<"snd", y>>}
    BY <2>2
  <2> QED BY <2>1, <2>3
<1>6. /\ x # "work" => D = {}
      /\ x = "work" => \E p : D = {p}
  <2>1. x # "work" => W = {}
    BY <1>1 DEF At
  <2>2. x = "work" => W = {y}
    BY <1>1 DEF At
  <2>3. x = "work" => D = {<<"work", y>>}
    BY <2>2
  <2> QED BY <2>1, <2>3
<1>7. /\ x # "got" => E = {}
      /\ x = "got" => \E p : E = {p}
  <2>1. x # "got" => G = {}
    BY <1>1 DEF At
  <2>2. x = "got" => G = {y}
    BY <1>1 DEF At
  <2>3. x = "got" => E = {<<"got", y>>}
    BY <2>2
  <2> QED BY <2>1, <2>3
<1>8. /\ x # "leaked" => L = {}
      /\ x = "leaked" => \E p : L = {p}
  BY <1>1 DEF At
<1>9. x = "free" <=> hdr[b] = NoHdr
  BY <1>1 DEF At
<1> HIDE DEF A, B, C, D, E, L
<1>10. CASE x = "free"
  BY <1>2, <1>3, <1>4, <1>5, <1>6, <1>7, <1>8, <1>9, <1>10
<1>11. CASE x # "free"
  <2>1. \E p : A \cup B \cup C \cup D \cup E \cup L = {p}
    <3>1. CASE x = "que"
      BY <3>1, <1>3, <1>4, <1>5, <1>6, <1>7, <1>8
    <3>2. CASE x = "reply"
      BY <3>2, <1>3, <1>4, <1>5, <1>6, <1>7, <1>8
    <3>3. CASE x = "snd"
      BY <3>3, <1>3, <1>4, <1>5, <1>6, <1>7, <1>8
    <3>4. CASE x = "work"
      BY <3>4, <1>3, <1>4, <1>5, <1>6, <1>7, <1>8
    <3>5. CASE x = "got"
      BY <3>5, <1>3, <1>4, <1>5, <1>6, <1>7, <1>8
    <3>6. CASE x = "leaked"
      BY <3>6, <1>3, <1>4, <1>5, <1>6, <1>7, <1>8
    <3> QED BY <1>11, <3>1, <3>2, <3>3, <3>4, <3>5, <3>6 DEF Kinds
  <2> QED BY <1>2, <1>9, <1>11, <2>1
<1> QED BY <1>10, <1>11

(* The invariant gives the property. *)
LEMMA PlaceConserved == PlaceInv => BufferConserved
<1> SUFFICES ASSUME PlaceInv, NEW b \in Buffers
             PROVE  Cardinality(Places(b)) = IF hdr[b] = NoHdr THEN 0 ELSE 1
  BY DEF BufferConserved
<1>1. CASE hdr[b] = NoHdr
  BY <1>1, OnePlace, FS_EmptySet
<1>2. CASE hdr[b] # NoHdr
  <2>1. PICK p : Places(b) = {p}
    BY <1>2, OnePlace
  <2>2. Cardinality({p}) = 1
    BY FS_Singleton
  <2> QED BY <1>2, <2>1, <2>2
<1> QED BY <1>1, <1>2

(* In every reachable state each block is in one place. *)
THEOREM PlaceInvariant == Spec => []PlaceInv
BY PlaceInit, PlaceNext, PTL DEF Spec

(* No path of the message API loses a block, frees one twice or leaves a reference to a freed
   one behind: full queues, retries that run out, timeouts, late answers and answers nobody
   waits for included.  Only the death of a process takes blocks away, the ones in its hands. *)
THEOREM BlocksConserved == Spec => []BufferConserved
BY PlaceInvariant, PlaceConserved, PTL

-----------------------------------------------------------------------------
(* A request number is a token that travels: with the request, in the hands of the sender, in the
   queue and in the hands of the handler, and with the answer, from the step in which the handler
   makes it.  A block carries its token in these places and nowhere else. *)
Carries(b) ==
  \/ \E m \in Mods : \/ b \in Elems(que[m])
                     \/ snd[m] = b
                     \/ work[m] = b /\ pc[m] \notin Answered
  \/ b \in Bufs(replyq)
Live(b) == Carries(b) /\ hdr[b].opcode # "post"

(* The module that asked, and the requests an answer of which it may still see. *)
Origin(h) == IF h.opcode = "reply" THEN h.module_id ELSE h.sender_id
Open(m) == abandoned[m] \cup (IF pc[m] = "poll" THEN {sndhdr[m].request} ELSE {})
Unsent(b) == \E m \in Mods : pc[m] \in Sending /\ snd[m] = b

OneToken == \A b, c \in Buffers : Live(b) /\ Live(c) /\ hdr[b].request = hdr[c].request => b = c
OldToken == \A b \in Buffers : Live(b) => hdr[b].request <= seq
OpenToken == \A b \in Buffers : Live(b) /\ ~Unsent(b) => hdr[b].request \in Open(Origin(hdr[b]))

(* The entries of the reply queue, and what a module is sending or waits for. *)
Addressed == \A i \in DOMAIN replyq : LET h == hdr[replyq[i].msgbuff]
                                      IN h.opcode = "reply" /\ h.module_id = replyq[i].recvmod
Asks(m) ==
  /\ pc[m] \in Sending => /\ hdr[snd[m]] = sndhdr[m]
                          /\ sndhdr[m].opcode \in {"post", "request"} /\ sndhdr[m].sender_id = m
  /\ pc[m] = "rsend" => hdr[snd[m]].opcode = "reply"
  /\ pc[m] \in Sending \cup {"poll"} => /\ sndhdr[m].request <= seq
                                        /\ \A r \in abandoned[m] : r < sndhdr[m].request
  /\ \A r \in abandoned[m] : r <= seq
Own(m) == pc[m] = "got" =>
  /\ hdr[got[m]].module_id = m
  /\ \/ hdr[got[m]].request = sndhdr[m].request
     \/ hdr[got[m]].request \in abandoned[m] /\ hdr[got[m]].request < sndhdr[m].request

(* The second invariant: every request number is carried by one block at most, and by none
   that its origin neither waits for nor has given up. *)
TokenInv ==
  /\ OneToken /\ OldToken /\ OpenToken
  /\ Addressed
  /\ \A m \in Mods : Asks(m) /\ Own(m)

(* Only a block that was free gets a header, and only a block that is free now has lost it. *)
HdrStep == \A c \in Buffers : hdr'[c] = hdr[c] \/ hdr[c] = NoHdr \/ hdr'[c] = NoHdr

(* The steps that free a block are of this kind. *)
LEMMA FreedStep ==
  ASSUME PlaceInv, NEW x, hdr' = Freed(x)
  PROVE  HdrStep
BY DEF PlaceInv, MsgTypeOK, Freed, HdrStep

(* Nobody refers to a block that is free. *)
Held(b) ==
  hdr[b] = NoHdr => /\ b \notin Bufs(replyq)
                    /\ \A m \in Mods : /\ b \notin Elems(que[m])
                                       /\ snd[m] # b /\ work[m] # b /\ got[m] # b
(* A block that is in a queue or in a module's hands is allocated. *)
LEMMA PlaceHeld == ASSUME PlaceInv, NEW b \in Buffers PROVE Held(b)
BY DEF PlaceInv, Placed, Spot, At, Held

(* The same after a step. *)
LEMMA PlaceHeldNext == ASSUME PlaceInv', NEW b \in Buffers PROVE Held(b)'
BY DEF PlaceInv, Placed, Spot, At, Held

(* The header of a block that is carried before and after a step stays. *)
LEMMA CarriedHdr ==
  ASSUME PlaceInv, PlaceInv', HdrStep, NEW c \in Buffers, Carries(c), Carries(c)'
  PROVE  hdr'[c] = hdr[c] /\ hdr[c] \in Hdrs
<1>1. hdr[c] # NoHdr
  BY PlaceHeld DEF Held, Carries
<1>2. hdr'[c] # NoHdr
  BY PlaceHeldNext DEF Held, Carries
<1>3. hdr[c] \in Hdrs \cup {NoHdr}
  BY DEF PlaceInv, MsgTypeOK
<1> QED BY <1>1, <1>2, <1>3 DEF HdrStep

(* No block gets a token: the tokens that are left are as before. *)
LEMMA TokensKept ==
  ASSUME PlaceInv, PlaceInv', TokenInv, HdrStep, seq <= seq',
         \A c \in Buffers : Carries(c)' => Carries(c)
  PROVE  /\ OneToken' /\ OldToken'
         /\ \A c \in Buffers : Live(c)' => Live(c) /\ hdr'[c] = hdr[c] /\ hdr[c] \in Hdrs
<1>1. ASSUME NEW c \in Buffers, Live(c)' PROVE Live(c) /\ hdr'[c] = hdr[c] /\ hdr[c] \in Hdrs
  <2>1. Carries(c) /\ Carries(c)' /\ hdr'[c].opcode # "post"
    BY <1>1 DEF Live
  <2>2. hdr'[c] = hdr[c] /\ hdr[c] \in Hdrs
    BY <2>1, CarriedHdr
  <2> QED BY <2>1, <2>2 DEF Live
<1>2. OneToken'
  BY <1>1 DEF OneToken, TokenInv
<1>3. ASSUME NEW c \in Buffers, Live(c)' PROVE hdr'[c].request <= seq'
  <2>1. hdr[c].request <= seq /\ hdr[c].request \in Nat /\ hdr'[c] = hdr[c]
    BY <1>1, <1>3 DEF OldToken, TokenInv, Hdrs
  <2> QED BY <2>1 DEF PlaceInv, MsgTypeOK
<1>4. OldToken'
  BY <1>3 DEF OldToken
<1> QED BY <1>1, <1>2, <1>4

(* Answers are only taken out of the reply queue. *)
LEMMA AddressedKept ==
  ASSUME PlaceInv, PlaceInv', TokenInv, HdrStep,
         \A j \in DOMAIN replyq' : \E i \in DOMAIN replyq : replyq'[j] = replyq[i]
  PROVE  Addressed'
<1> SUFFICES ASSUME NEW j \in DOMAIN replyq'
             PROVE  /\ hdr'[replyq'[j].msgbuff].opcode = "reply"
                    /\ hdr'[replyq'[j].msgbuff].module_id = replyq'[j].recvmod
  BY DEF Addressed
<1>1. PICK i \in DOMAIN replyq : replyq'[j] = replyq[i]
  OBVIOUS
<1>2. PICK c : c = replyq[i].msgbuff
  OBVIOUS
<1>3. c \in Bufs(replyq) /\ c \in Bufs(replyq')
  BY <1>1, <1>2 DEF Bufs
<1>4. c \in Buffers
  <2> DEFINE R == [recvmod : Mods, msgbuff : Buffers]
  <2>1. replyq \in Seq(R)
    BY DEF PlaceInv, MsgTypeOK
  <2>2. \A r \in R : r.msgbuff \in Buffers
    OBVIOUS
  <2> HIDE DEF R
  <2>3. replyq[i] \in R
    BY <2>1
  <2> QED BY <1>2, <2>2, <2>3
<1>5. hdr'[c] = hdr[c]
  BY <1>3, <1>4, CarriedHdr DEF Carries
<1>6. hdr[c].opcode = "reply" /\ hdr[c].module_id = replyq[i].recvmod
  BY <1>2 DEF TokenInv, Addressed
<1> QED BY <1>1, <1>2, <1>5, <1>6

(* Only module m has moved. *)
OthersSame(m) ==
  \A n \in Mods \ {m} : /\ pc'[n] = pc[n] /\ snd'[n] = snd[n] /\ got'[n] = got[n]
                        /\ sndhdr'[n] = sndhdr[n] /\ abandoned'[n] = abandoned[n]

(* What the others ask for and have got stays. *)
LEMMA OthersAsk ==
  ASSUME PlaceInv, PlaceInv', TokenInv, HdrStep, seq <= seq', NEW m \in Mods, OthersSame(m),
         Asks(m)', Own(m)'
  PROVE  (\A n \in Mods : Asks(n) /\ Own(n))'
<1> SUFFICES ASSUME NEW n \in Mods, n # m PROVE Asks(n)' /\ Own(n)'
  OBVIOUS
<1>1. /\ pc'[n] = pc[n] /\ snd'[n] = snd[n] /\ got'[n] = got[n]
      /\ sndhdr'[n] = sndhdr[n] /\ abandoned'[n] = abandoned[n]
  BY DEF OthersSame
<1>2. pc[n] \in Sending \cup {"rsend"} => hdr'[snd[n]] = hdr[snd[n]]
  <2> SUFFICES ASSUME pc[n] \in Sending \cup {"rsend"} PROVE hdr'[snd[n]] = hdr[snd[n]]
    OBVIOUS
  <2>1. snd[n] \in Buffers
    BY DEF PlaceInv, Hands, MsgTypeOK
  <2>2. Carries(snd[n])
    BY DEF Carries
  <2>3. PICK c : c = snd[n]
    OBVIOUS
  <2>4. Carries(c)'
    BY <1>1, <2>3 DEF Carries
  <2> QED BY <2>1, <2>2, <2>3, <2>4, CarriedHdr
<1>3. pc[n] = "got" => hdr'[got[n]] = hdr[got[n]]
  <2> SUFFICES ASSUME pc[n] = "got" PROVE hdr'[got[n]] = hdr[got[n]]
    OBVIOUS
  <2>1. got[n] \in Buffers
    BY DEF PlaceInv, Hands, MsgTypeOK
  <2>2. PICK c : c = got[n]
    OBVIOUS
  <2>3. hdr[c] # NoHdr
    BY <2>1, <2>2, PlaceHeld DEF Held
  <2>4. hdr'[c] # NoHdr
    BY <1>1, <2>1, <2>2, PlaceHeldNext DEF Held
  <2> QED BY <2>1, <2>2, <2>3, <2>4 DEF HdrStep
<1>4. Asks(n) /\ Own(n)
  BY DEF TokenInv
<1>5. Own(n)'
  BY <1>1, <1>3, <1>4 DEF Own
<1>6. /\ pc[n] \in Sending \cup {"poll"} => sndhdr[n].request \in Nat
      /\ abandoned[n] \subseteq Nat /\ seq \in Nat /\ seq' \in Nat
  BY DEF PlaceInv, Hands, Hdrs, MsgTypeOK
<1>7. Asks(n)'
  BY <1>1, <1>2, <1>4, <1>6 DEF Asks
<1> QED BY <1>5, <1>7

(* A step that gives no block a token and closes no request. *)
LEMMA TokenStep ==
  ASSUME PlaceInv, PlaceInv', TokenInv, HdrStep, seq' = seq, NEW m \in Mods, OthersSame(m),
         \A c \in Buffers : Carries(c)' => Carries(c),
         \A c \in Buffers : pc[m] \in Sending /\ snd[m] = c /\ Carries(c)' => Unsent(c)',
         Open(m) \subseteq Open(m)',
         Addressed', Asks(m)', Own(m)'
  PROVE  TokenInv'
<1>0. seq <= seq'
  BY DEF PlaceInv, MsgTypeOK
<1>1. (\A n \in Mods : Asks(n) /\ Own(n))'
  BY <1>0, OthersAsk
<1>2. /\ OneToken' /\ OldToken'
      /\ \A c \in Buffers : Live(c)' => Live(c) /\ hdr'[c] = hdr[c] /\ hdr[c] \in Hdrs
  BY <1>0, TokensKept
<1>3. \A n \in Mods : Open(n) \subseteq Open(n)'
  BY DEF Open, OthersSame
<1>4. ASSUME NEW c \in Buffers, Live(c)', ~Unsent(c)' PROVE hdr'[c].request \in Open(Origin(hdr[c]))'
  <2>1. ~Unsent(c)
    <3>1. Carries(c)'
      BY <1>4 DEF Live
    <3> QED BY <1>4, <3>1 DEF Unsent, OthersSame
  <2>2. hdr[c].request \in Open(Origin(hdr[c])) /\ hdr'[c] = hdr[c] /\ hdr[c] \in Hdrs
    BY <1>2, <1>4, <2>1 DEF TokenInv, OpenToken
  <2>3. Origin(hdr[c]) \in Mods
    BY <2>2 DEF Origin, Hdrs
  <2>4. PICK n : n = Origin(hdr[c])
    OBVIOUS
  <2>5. n \in Mods /\ n = Origin(hdr'[c]) /\ hdr'[c].request \in Open(n)
    BY <2>2, <2>3, <2>4
  <2> QED BY <1>3, <2>5, <2>4
<1>5. OpenToken'
  BY <1>4 DEF OpenToken
<1> QED BY <1>1, <1>2, <1>5 DEF TokenInv

(* In the first state nothing is asked. *)
LEMMA TokenInit == Init => TokenInv
<1> SUFFICES ASSUME Init PROVE TokenInv
  OBVIOUS
<1>1. \A b \in Buffers : ~Carries(b)
  <2>1. /\ \A m \in Mods : Elems(que[m]) = {}
        /\ Bufs(replyq) = {}
    BY DEF Init, Elems, Bufs
  <2>2. \A b \in Buffers : \A m \in Mods : snd[m] # b /\ work[m] # b
    BY IpcAssumption DEF Init
  <2> QED BY <2>1, <2>2 DEF Carries
<1>2. OneToken /\ OldToken /\ OpenToken
  BY <1>1 DEF OneToken, OldToken, OpenToken, Live
<1>3. Addressed /\ \A m \in Mods : Asks(m) /\ Own(m)
  BY DEF Init, Addressed, Asks, Own, Sending
<1> QED BY <1>2, <1>3 DEF TokenInv

(* A step that only counts. *)
LEMMA CountToken ==
  ASSUME TokenInv, UNCHANGED <<que, replyq, hdr, snd, sndhdr, work, got, pc, seq, abandoned>>
  PROVE  TokenInv'
BY DEF TokenInv, OneToken, OldToken, OpenToken, Live, Carries, Unsent, Open, Addressed, Asks, Own

(* An answer that is not wanted leaves the reply queue. *)
LEMMA DropToken ==
  ASSUME PlaceInv, PlaceInv', TokenInv, NEW m \in Mods, RepliesFor(m) # {},
         replyq' = Without(replyq, FirstReply(m)), hdr' = Freed(replyq[FirstReply(m)].msgbuff),
         UNCHANGED <<que, snd, sndhdr, work, got, pc, seq, abandoned>>
  PROVE  TokenInv'
<1>1. HdrStep
  BY FreedStep
<1>2. FirstReply(m) \in DOMAIN replyq
  BY FirstReplyFor DEF PlaceInv
<1>3. /\ \A j \in DOMAIN replyq' : \E i \in DOMAIN replyq : replyq'[j] = replyq[i]
      /\ Bufs(replyq') \subseteq Bufs(replyq)
  BY <1>2, WithoutBufs, QueuesInj DEF PlaceInv, MsgTypeOK
<1>4. Addressed'
  BY <1>1, <1>3, AddressedKept
<1>5. /\ \A c \in Buffers : Carries(c)' => Carries(c)
      /\ \A c \in Buffers : pc[m] \in Sending /\ snd[m] = c /\ Carries(c)' => Unsent(c)'
  BY <1>3 DEF Carries, Unsent
<1>6. OthersSame(m) /\ Open(m) \subseteq Open(m)'
  BY DEF OthersSame, Open
<1>7. pc[m] \in Sending \cup {"rsend"} => hdr'[snd[m]] = hdr[snd[m]]
  <2> SUFFICES ASSUME pc[m] \in Sending \cup {"rsend"} PROVE hdr'[snd[m]] = hdr[snd[m]]
    OBVIOUS
  <2>1. PICK c : c = snd[m]
    OBVIOUS
  <2>2. c \in Buffers /\ Carries(c)
    BY <2>1 DEF PlaceInv, Hands, MsgTypeOK, Carries
  <2>3. Carries(c)'
    BY <2>1 DEF Carries
  <2> QED BY <1>1, <2>1, <2>2, <2>3, CarriedHdr
<1>8. pc[m] = "got" => hdr'[got[m]] = hdr[got[m]]
  <2> SUFFICES ASSUME pc[m] = "got" PROVE hdr'[got[m]] = hdr[got[m]]
    OBVIOUS
  <2>1. PICK c : c = got[m]
    OBVIOUS
  <2>2. c \in Buffers
    BY <2>1 DEF PlaceInv, Hands, MsgTypeOK
  <2>3. hdr[c] # NoHdr
    BY <2>1, <2>2, PlaceHeld DEF Held
  <2>4. hdr'[c] # NoHdr
    BY <2>1, <2>2, PlaceHeldNext DEF Held
  <2> QED BY <1>1, <2>1, <2>2, <2>3, <2>4 DEF HdrStep
<1>9. Asks(m)'
  BY <1>7 DEF TokenInv, Asks
<1>10. Own(m)'
  BY <1>8 DEF TokenInv, Own
<1> QED BY <1>1, <1>4, <1>5, <1>6, <1>9, <1>10, TokenStep

(* ipc_sync_send_n1 before it sends. *)
LEMMA DrainToken ==
  ASSUME PlaceInv, PlaceInv', TokenInv, NEW m \in Mods, Drain(m)
  PROVE  TokenInv'
<1>1. CASE RepliesFor(m) = {}
  <2>1. /\ pc' = [pc EXCEPT ![m] = "send"] /\ pc[m] = "drain"
        /\ UNCHANGED <<que, replyq, hdr, snd, sndhdr, work, got, seq, abandoned>>
    BY <1>1 DEF Drain
  <2>2. \A n \in Mods : pc'[n] = IF n = m THEN "send" ELSE pc[n]
    BY <2>1 DEF PlaceInv, MsgTypeOK
  <2>3. \A c \in Buffers : (Carries(c)' <=> Carries(c)) /\ (Unsent(c)' <=> Unsent(c))
    BY <2>1, <2>2 DEF Carries, Unsent, Sending, Answered
  <2>4. \A n \in Mods : Open(n)' = Open(n)
    BY <2>1, <2>2 DEF Open
  <2>5. HdrStep /\ OthersSame(m) /\ Addressed'
    BY <2>1, <2>2 DEF HdrStep, OthersSame, TokenInv, Addressed
  <2>6. Asks(m)' /\ Own(m)'
    BY <2>1, <2>2 DEF TokenInv, Asks, Own, Sending
  <2>7. \A c \in Buffers : pc[m] \in Sending /\ snd[m] = c /\ Carries(c)' => Unsent(c)'
    BY <2>3 DEF Unsent
  <2> QED BY <2>1, <2>3, <2>4, <2>5, <2>6, <2>7, TokenStep
<1>2. CASE RepliesFor(m) # {}
  BY <1>2, DropToken DEF Drain
<1> QED BY <1>1, <1>2

(* The sender or the handler gives up its attempts. *)
LEMMA GiveUpToken ==
  ASSUME PlaceInv, PlaceInv', TokenInv, NEW m \in Mods, pc[m] \in {"send", "rsend"}, NEW s,
         s \in {"idle", "handle", "release"}, s = "release" <=> pc[m] = "rsend",
         hdr' = Freed(snd[m]), snd' = [snd EXCEPT ![m] = NoBuf], pc' = [pc EXCEPT ![m] = s],
         \A n \in Mods \ {m} : sndhdr'[n] = sndhdr[n],
         UNCHANGED <<que, replyq, work, got, seq, abandoned>>
  PROVE  TokenInv'
<1>1. HdrStep
  BY FreedStep
<1>2. \A n \in Mods : /\ snd'[n] = IF n = m THEN NoBuf ELSE snd[n]
                      /\ pc'[n] = IF n = m THEN s ELSE pc[n]
  BY DEF PlaceInv, MsgTypeOK
<1>3. OthersSame(m) /\ Open(m) \subseteq Open(m)'
  BY <1>2 DEF OthersSame, Open
<1>4. ASSUME NEW c \in Buffers PROVE Carries(c)' => Carries(c)
  <2>1. c # NoBuf
    BY IpcAssumption
  <2>2. \A n \in Mods : /\ snd'[n] = c => snd[n] = c
                        /\ pc'[n] \notin Answered => pc[n] \notin Answered
    BY <1>2, <2>1 DEF Answered
  <2> QED BY <2>2 DEF Carries
<1>5. Addressed'
  BY <1>1, AddressedKept
<1>6. ASSUME NEW c \in Buffers, snd[m] = c, Carries(c)' PROVE FALSE
  <2>1. hdr'[c] = NoHdr
    BY <1>6 DEF Freed, PlaceInv, MsgTypeOK
  <2> QED BY <1>6, <2>1, PlaceHeldNext DEF Held, Carries
<1>7. Asks(m)' /\ Own(m)'
  BY <1>2 DEF TokenInv, Asks, Own, Sending
<1> QED BY <1>1, <1>3, <1>4, <1>5, <1>6, <1>7, TokenStep

(* The request is given up: it is open as before. *)
LEMMA TimeoutToken ==
  ASSUME PlaceInv, PlaceInv', TokenInv, NEW m \in Mods, Timeout(m)
  PROVE  TokenInv'
<1>1. PICK s : s = Back(m)
  OBVIOUS
<1>2. s \in {"idle", "handle"}
  BY <1>1 DEF Back
<1>3. /\ pc' = [pc EXCEPT ![m] = s] /\ pc[m] = "poll" /\ sndhdr' = [sndhdr EXCEPT ![m] = NoHdr]
      /\ abandoned' = [abandoned EXCEPT ![m] = abandoned[m] \cup {sndhdr[m].request}]
      /\ UNCHANGED <<que, replyq, hdr, snd, work, got, seq>>
  BY <1>1 DEF Timeout, Returned
<1>4. \A n \in Mods : /\ pc'[n] = IF n = m THEN s ELSE pc[n]
                      /\ abandoned'[n] = IF n = m THEN abandoned[m] \cup {sndhdr[m].request} ELSE abandoned[n]
                      /\ n # m => sndhdr'[n] = sndhdr[n]
  BY <1>3 DEF PlaceInv, MsgTypeOK
<1>5. OthersSame(m) /\ HdrStep
  BY <1>3, <1>4 DEF OthersSame, HdrStep
<1>6. Open(m) \subseteq Open(m)'
  BY <1>4 DEF Open
<1>7. \A c \in Buffers : Carries(c)' => Carries(c)
  BY <1>2, <1>3, <1>4 DEF Carries, Answered
<1>8. Addressed'
  BY <1>3 DEF TokenInv, Addressed
<1>9. Own(m)'
  BY <1>2, <1>4 DEF Own
<1>10. Asks(m)'
  <2>1. sndhdr[m].request <= seq /\ \A r \in abandoned[m] : r <= seq
    BY <1>3 DEF TokenInv, Asks
  <2>2. pc'[m] \in {"idle", "handle"} /\ \A r \in abandoned'[m] : r <= seq'
    BY <1>2, <1>3, <1>4, <2>1
  <2> QED BY <2>2 DEF Asks, Sending
<1>11. pc[m] \notin Sending /\ seq' = seq
  BY <1>3 DEF Sending
<1> QED BY <1>5, <1>6, <1>7, <1>8, <1>9, <1>10, <1>11, TokenStep

(* The caller frees the answer. *)
LEMMA ConsumeToken ==
  ASSUME PlaceInv, PlaceInv', TokenInv, NEW m \in Mods, Consume(m)
  PROVE  TokenInv'
<1>1. PICK s : s = Back(m)
  OBVIOUS
<1>2. s \in {"idle", "handle"}
  BY <1>1 DEF Back
<1>3. /\ pc' = [pc EXCEPT ![m] = s] /\ pc[m] = "got" /\ sndhdr' = [sndhdr EXCEPT ![m] = NoHdr]
      /\ got' = [got EXCEPT ![m] = NoBuf] /\ hdr' = Freed(got[m])
      /\ UNCHANGED <<que, replyq, snd, work, seq, abandoned>>
  BY <1>1 DEF Consume, Returned
<1>4. \A n \in Mods : /\ pc'[n] = IF n = m THEN s ELSE pc[n]
                      /\ n # m => sndhdr'[n] = sndhdr[n] /\ got'[n] = got[n]
  BY <1>3 DEF PlaceInv, MsgTypeOK
<1>5. HdrStep
  BY <1>3, FreedStep
<1>6. OthersSame(m) /\ Open(m) \subseteq Open(m)'
  BY <1>2, <1>3, <1>4 DEF OthersSame, Open
<1>7. \A c \in Buffers : Carries(c)' => Carries(c)
  BY <1>2, <1>3, <1>4 DEF Carries, Answered
<1>8. Addressed'
  BY <1>3, <1>5, AddressedKept
<1>9. Asks(m)' /\ Own(m)'
  BY <1>2, <1>3, <1>4 DEF TokenInv, Asks, Own, Sending
<1>10. pc[m] \notin Sending /\ seq' = seq
  BY <1>3 DEF Sending
<1> QED BY <1>5, <1>6, <1>7, <1>8, <1>9, <1>10, TokenStep

(* The handler gets the message with its token. *)
LEMMA DispatchToken ==
  ASSUME PlaceInv, PlaceInv', TokenInv, NEW m \in Mods, Dispatch(m)
  PROVE  TokenInv'
<1>1. PICK b : b = Head(que[m])
  OBVIOUS
<1>2. /\ que[m] # <<>> /\ que' = [que EXCEPT ![m] = Tail(que[m])] /\ work' = [work EXCEPT ![m] = b]
      /\ pc' = [pc EXCEPT ![m] = "handle"] /\ pc[m] = "idle"
      /\ UNCHANGED <<replyq, hdr, snd, sndhdr, got, seq, abandoned>>
  BY <1>1 DEF Dispatch
<1>3. que[m] \in Seq(Buffers) /\ Inj(que[m])
  BY QueuesInj DEF PlaceInv, MsgTypeOK
<1>4. Elems(Tail(que[m])) \subseteq Elems(que[m]) /\ b \in Elems(que[m])
  BY <1>1, <1>2, <1>3, TailElems
<1>5. \A n \in Mods : /\ work'[n] = IF n = m THEN b ELSE work[n]
                      /\ pc'[n] = IF n = m THEN "handle" ELSE pc[n]
                      /\ que'[n] = IF n = m THEN Tail(que[m]) ELSE que[n]
  BY <1>2 DEF PlaceInv, MsgTypeOK
<1>6. OthersSame(m) /\ HdrStep /\ Open(m) \subseteq Open(m)'
  BY <1>2, <1>5 DEF OthersSame, HdrStep, Open
<1>7. ASSUME NEW c \in Buffers, Carries(c)' PROVE Carries(c)
  <2>1. CASE c \in Bufs(replyq')
    BY <1>2, <2>1 DEF Carries
  <2>2. ASSUME NEW n \in Mods, c \in Elems(que'[n]) PROVE Carries(c)
    <3>1. c \in Elems(que[n])
      BY <1>4, <1>5, <2>2
    <3> QED BY <3>1 DEF Carries
  <2>3. ASSUME NEW n \in Mods, snd'[n] = c PROVE Carries(c)
    BY <1>2, <2>3 DEF Carries
  <2>4. ASSUME NEW n \in Mods, work'[n] = c, pc'[n] \notin Answered PROVE Carries(c)
    BY <1>4, <1>5, <2>4 DEF Carries
  <2> QED BY <1>7, <2>1, <2>2, <2>3, <2>4 DEF Carries
<1>8. Addressed'
  BY <1>2 DEF TokenInv, Addressed
<1>9. Asks(m)' /\ Own(m)'
  BY <1>2, <1>5 DEF TokenInv, Asks, Own, Sending
<1>10. pc[m] \notin Sending /\ seq' = seq
  BY <1>2 DEF Sending
<1> QED BY <1>6, <1>7, <1>8, <1>9, <1>10, TokenStep

(* The handler frees its message. *)
LEMMA ReleaseToken ==
  ASSUME PlaceInv, PlaceInv', TokenInv, NEW m \in Mods, Release(m)
  PROVE  TokenInv'
<1>1. /\ pc' = [pc EXCEPT ![m] = "idle"] /\ pc[m] \in {"handle", "release"}
      /\ work' = [work EXCEPT ![m] = NoBuf] /\ hdr' = Freed(work[m])
      /\ UNCHANGED <<que, replyq, snd, sndhdr, got, seq, abandoned>>
  BY DEF Release
<1>2. \A n \in Mods : /\ work'[n] = IF n = m THEN NoBuf ELSE work[n]
                      /\ pc'[n] = IF n = m THEN "idle" ELSE pc[n]
  BY <1>1 DEF PlaceInv, MsgTypeOK
<1>3. HdrStep
  BY <1>1, FreedStep
<1>4. OthersSame(m) /\ Open(m) \subseteq Open(m)'
  BY <1>1, <1>2 DEF OthersSame, Open
<1>5. \A c \in Buffers : Carries(c)' => Carries(c)
  BY <1>1, <1>2, IpcAssumption DEF Carries
<1>6. Addressed'
  BY <1>1, <1>3, AddressedKept
<1>7. Asks(m)' /\ Own(m)'
  BY <1>1, <1>2 DEF TokenInv, Asks, Own, Sending
<1>8. pc[m] \notin Sending /\ seq' = seq
  BY <1>1 DEF Sending
<1> QED BY <1>3, <1>4, <1>5, <1>6, <1>7, <1>8, TokenStep

(* A process dies: a request it was waiting for is given up. *)
LEMMA CrashToken ==
  ASSUME PlaceInv, PlaceInv', TokenInv, NEW m \in Mods, Crash(m)
  PROVE  TokenInv'
<1>1. /\ pc' = [pc EXCEPT ![m] = "dead"]
      /\ snd' = [snd EXCEPT ![m] = NoBuf] /\ work' = [work EXCEPT ![m] = NoBuf]
      /\ got' = [got EXCEPT ![m] = NoBuf] /\ sndhdr' = [sndhdr EXCEPT ![m] = NoHdr]
      /\ UNCHANGED <<que, replyq, hdr, seq>>
  BY DEF Crash, Returned
<1>2. /\ \A n \in Mods : /\ snd'[n] = IF n = m THEN NoBuf ELSE snd[n]
                         /\ work'[n] = IF n = m THEN NoBuf ELSE work[n]
                         /\ n # m => got'[n] = got[n]
                         /\ pc'[n] = IF n = m THEN "dead" ELSE pc[n]
                         /\ n # m => sndhdr'[n] = sndhdr[n] /\ abandoned'[n] = abandoned[n]
      /\ abandoned'[m] = Open(m)
  BY <1>1 DEF Crash, PlaceInv, MsgTypeOK, Open
<1>3. OthersSame(m) /\ HdrStep /\ Open(m) \subseteq Open(m)'
  BY <1>1, <1>2 DEF OthersSame, HdrStep, Open
<1>4. \A c \in Buffers : Carries(c)' => Carries(c)
  BY <1>1, <1>2, IpcAssumption DEF Carries
<1>5. Addressed'
  BY <1>1 DEF TokenInv, Addressed
<1>6. Own(m)'
  BY <1>2 DEF Own
<1>7. Asks(m)'
  <2>1. \A r \in Open(m) : r <= seq
    BY DEF TokenInv, Asks, Open
  <2> QED BY <1>1, <1>2, <2>1 DEF Asks, Sending
<1>8. ASSUME NEW c \in Buffers, snd[m] = c, Carries(c)' PROVE FALSE
  <2>1. PICK x \in Kinds, y \in Mods \cup {NoBuf} : At(x, y, c)
    BY WhereIs
  <2>2. x = "snd" /\ y = m
    BY <1>8, <2>1 DEF At
  <2>3. c \notin Bufs(replyq') /\ \A n \in Mods : c \notin Elems(que'[n]) /\ snd'[n] # c /\ work'[n] # c
    BY <1>1, <1>2, <2>1, <2>2, IpcAssumption DEF At
  <2> QED BY <1>8, <2>3 DEF Carries
<1>9. seq' = seq
  BY <1>1
<1> QED BY <1>3, <1>4, <1>5, <1>6, <1>7, <1>8, <1>9, TokenStep

(* The process comes back. *)
LEMMA RestartToken ==
  ASSUME PlaceInv, PlaceInv', TokenInv, NEW m \in Mods, Restart(m)
  PROVE  TokenInv'
<1>1. /\ pc' = [pc EXCEPT ![m] = "idle"] /\ pc[m] = "dead"
      /\ UNCHANGED <<que, replyq, hdr, snd, sndhdr, work, got, seq, abandoned>>
  BY DEF Restart
<1>2. \A n \in Mods : pc'[n] = IF n = m THEN "idle" ELSE pc[n]
  BY <1>1 DEF PlaceInv, MsgTypeOK
<1>3. OthersSame(m) /\ HdrStep /\ Open(m) \subseteq Open(m)'
  BY <1>1, <1>2 DEF OthersSame, HdrStep, Open
<1>4. \A c \in Buffers : Carries(c)' => Carries(c)
  BY <1>1, <1>2 DEF Carries, Answered
<1>5. Addressed'
  BY <1>1 DEF TokenInv, Addressed
<1>6. Asks(m)' /\ Own(m)'
  BY <1>1, <1>2 DEF TokenInv, Asks, Own, Sending
<1>7. pc[m] \notin Sending /\ seq' = seq
  BY <1>1 DEF Sending
<1> QED BY <1>3, <1>4, <1>5, <1>6, <1>7, TokenStep

(* A new request has a new number. *)
LEMMA SendToken ==
  ASSUME PlaceInv, PlaceInv', TokenInv, NEW m \in Mods, NEW dst \in Mods, NEW t \in Types,
         NEW op \in {"post", "request"}, Send(m, dst, t, op)
  PROVE  TokenInv'
<1> DEFINE h == [module_id |-> dst, sender_id |-> m, msg_type |-> t, opcode |-> op, request |-> seq + 1]
           s == IF op = "request" THEN "drain" ELSE "send"
<1>1. PICK b \in Taken : /\ hdr' = Filled(b, h) /\ snd' = [snd EXCEPT ![m] = b]
                         /\ sndhdr' = [sndhdr EXCEPT ![m] = h]
  BY DEF Send
<1>2. b \in Buffers /\ hdr[b] = NoHdr /\ hdr' = [hdr EXCEPT ![b] = h]
  BY <1>1 DEF Taken, FreeBufs, Filled
<1>3. /\ pc' = [pc EXCEPT ![m] = s] /\ s \in Sending /\ s # "poll" /\ s # "got" /\ s \notin Answered
      /\ pc[m] \in {"idle", "handle"}
      /\ UNCHANGED <<que, replyq, work, got, abandoned>>
      /\ seq' = seq + 1 /\ seq \in Nat
  BY DEF Send, Sending, Answered, PlaceInv, MsgTypeOK
<1>4. h.request = seq + 1 /\ h.opcode \in {"post", "request"} /\ h.sender_id = m
  OBVIOUS
<1> HIDE DEF h, s
<1>5. /\ \A n \in Mods : /\ snd'[n] = IF n = m THEN b ELSE snd[n]
                         /\ pc'[n] = IF n = m THEN s ELSE pc[n]
                         /\ sndhdr'[n] = IF n = m THEN h ELSE sndhdr[n]
      /\ \A c \in Buffers : hdr'[c] = IF c = b THEN h ELSE hdr[c]
  BY <1>1, <1>2, <1>3 DEF PlaceInv, MsgTypeOK
<1>6. HdrStep /\ OthersSame(m)
  BY <1>2, <1>3, <1>5 DEF HdrStep, OthersSame
<1>7. \A c \in Buffers : c # b /\ Carries(c)' => Carries(c)
  BY <1>3, <1>5 DEF Carries, Answered
<1>8. ASSUME NEW c \in Buffers, c # b, Live(c)'
      PROVE  Live(c) /\ hdr'[c] = hdr[c] /\ hdr[c].request <= seq /\ hdr[c] \in Hdrs
  <2>1. Carries(c) /\ hdr'[c] = hdr[c]
    BY <1>5, <1>7, <1>8 DEF Live
  <2>2. Live(c)
    BY <1>8, <2>1 DEF Live
  <2>3. hdr[c] \in Hdrs
    <3>1. hdr[c] # NoHdr
      BY <2>1, PlaceHeld DEF Held, Carries
    <3> QED BY <3>1 DEF PlaceInv, MsgTypeOK
  <2> QED BY <2>1, <2>2, <2>3 DEF TokenInv, OldToken
<1>9. OldToken'
  <2> SUFFICES ASSUME NEW c \in Buffers, Live(c)' PROVE hdr'[c].request <= seq'
    BY DEF OldToken
  <2>1. CASE c = b
    BY <1>3, <1>4, <1>5, <2>1
  <2>2. CASE c # b
    <3>1. hdr[c].request \in Nat
      BY <1>8, <2>2 DEF Hdrs
    <3> QED BY <1>3, <1>8, <2>2, <3>1
  <2> QED BY <2>1, <2>2
<1>10. OneToken'
  <2> SUFFICES ASSUME NEW c \in Buffers, NEW d \in Buffers, Live(c)', Live(d)',
                      hdr'[c].request = hdr'[d].request
               PROVE  c = d
    BY DEF OneToken
  <2>1. \A e \in Buffers : e # b /\ Live(e)' => hdr'[e].request # seq + 1
    <3> SUFFICES ASSUME NEW e \in Buffers, e # b, Live(e)' PROVE hdr'[e].request # seq + 1
      OBVIOUS
    <3>1. hdr'[e].request <= seq /\ hdr'[e].request \in Nat
      BY <1>8 DEF Hdrs
    <3> QED BY <1>3, <3>1
  <2>2. hdr'[b].request = seq + 1
    BY <1>2, <1>4, <1>5
  <2>3. CASE c = b \/ d = b
    BY <2>1, <2>2, <2>3
  <2>4. CASE c # b /\ d # b
    BY <1>8, <2>4 DEF TokenInv, OneToken
  <2> QED BY <2>3, <2>4
<1>11. \A n \in Mods : Open(n)' = Open(n)
  BY <1>3, <1>5 DEF Open
<1>12. OpenToken'
  <2> SUFFICES ASSUME NEW c \in Buffers, Live(c)', ~Unsent(c)'
               PROVE  hdr'[c].request \in Open(Origin(hdr[c]))'
    BY DEF OpenToken
  <2>1. c # b
    BY <1>3, <1>5 DEF Unsent
  <2>2. ~Unsent(c)
    BY <1>3, <1>5 DEF Unsent, Sending
  <2>3. hdr[c].request \in Open(Origin(hdr[c])) /\ hdr'[c] = hdr[c] /\ hdr[c] \in Hdrs
    BY <1>8, <2>1, <2>2 DEF TokenInv, OpenToken
  <2>4. PICK n : n = Origin(hdr[c])
    OBVIOUS
  <2>5. n \in Mods /\ n = Origin(hdr'[c]) /\ hdr'[c].request \in Open(n)
    BY <2>3, <2>4 DEF Origin, Hdrs
  <2> QED BY <1>11, <2>4, <2>5
<1>13. Addressed'
  BY <1>3, <1>6, AddressedKept
<1>14. Own(m)'
  BY <1>3, <1>5 DEF Own
<1>15. Asks(m)'
  <2>1. \A r \in abandoned[m] : r <= seq /\ r \in Nat
    BY DEF TokenInv, Asks, PlaceInv, MsgTypeOK
  <2>2. hdr'[snd'[m]] = sndhdr'[m] /\ sndhdr'[m] = h /\ pc'[m] \in Sending /\ pc'[m] # "rsend"
    BY <1>2, <1>3, <1>5 DEF Answered
  <2>3. \A r \in abandoned'[m] : r < h.request /\ r <= seq'
    BY <1>3, <1>4, <2>1
  <2> QED BY <1>3, <1>4, <2>2, <2>3 DEF Asks
<1>16. seq <= seq'
  BY <1>3
<1> QED BY <1>6, <1>9, <1>10, <1>12, <1>13, <1>14, <1>15, <1>16, OthersAsk DEF TokenInv

(* A request that is in its receiver's queue is the one its sender waits for. *)
LEMMA SentToken ==
  ASSUME PlaceInv, PlaceInv', TokenInv, NEW m \in Mods, TrySend(m),
         Len(que[sndhdr[m].module_id]) < QueueMax
  PROVE  TokenInv'
<1>1. PICK b, dst, s : /\ b = snd[m] /\ dst = sndhdr[m].module_id
                       /\ s = IF sndhdr[m].opcode = "request" THEN "poll" ELSE Back(m)
  OBVIOUS
<1>2. /\ pc[m] = "send" /\ sndhdr[m] \in Hdrs /\ b \in Buffers /\ snd[m] = b /\ b # NoBuf
      /\ dst \in Mods /\ que[dst] \in Seq(Buffers)
  <2>1. pc[m] = "send" /\ sndhdr[m] \in Hdrs /\ snd[m] # NoBuf
    BY DEF TrySend, PlaceInv, Hands, Sending
  <2>2. dst \in Mods
    BY <1>1, <2>1 DEF Hdrs
  <2> QED BY <1>1, <2>1, <2>2 DEF PlaceInv, MsgTypeOK
<1>3. /\ que' = [que EXCEPT ![dst] = Append(que[dst], b)] /\ snd' = [snd EXCEPT ![m] = NoBuf]
      /\ pc' = [pc EXCEPT ![m] = s] /\ (sndhdr' = sndhdr \/ sndhdr' = [sndhdr EXCEPT ![m] = NoHdr])
      /\ s = "poll" => sndhdr' = sndhdr
      /\ UNCHANGED <<replyq, hdr, work, got, seq, abandoned>>
  <2>1. ~(Len(que[dst]) >= QueueMax)
    BY <1>1, <1>2, IpcAssumption
  <2> QED BY <1>1, <2>1, BackPc DEF TrySend, Returned
<1>4. s \in {"poll", "idle", "handle"} /\ (s = "poll" <=> sndhdr[m].opcode = "request")
  BY <1>1 DEF Back
<1>5. /\ \A n \in Mods : /\ snd'[n] = IF n = m THEN NoBuf ELSE snd[n]
                         /\ pc'[n] = IF n = m THEN s ELSE pc[n]
                         /\ n # m => sndhdr'[n] = sndhdr[n]
                         /\ que'[n] = IF n = dst THEN Append(que[dst], b) ELSE que[n]
  BY <1>3 DEF PlaceInv, MsgTypeOK
<1>6. HdrStep /\ OthersSame(m)
  BY <1>3, <1>5 DEF HdrStep, OthersSame
<1>7. ASSUME NEW c \in Buffers, Carries(c)' PROVE Carries(c)
  <2>1. Elems(Append(que[dst], b)) = Elems(que[dst]) \cup {b}
    BY <1>2, AppendElems
  <2>2. CASE c \in Bufs(replyq')
    BY <1>3, <2>2 DEF Carries
  <2>3. ASSUME NEW n \in Mods, c \in Elems(que'[n]) PROVE Carries(c)
    <3>1. CASE c = b
      BY <1>2, <3>1 DEF Carries
    <3>2. CASE c # b
      <4>1. c \in Elems(que[n])
        BY <1>5, <2>1, <2>3, <3>2
      <4> QED BY <4>1 DEF Carries
    <3> QED BY <3>1, <3>2
  <2>4. ASSUME NEW n \in Mods, snd'[n] = c PROVE Carries(c)
    BY <1>5, <2>4, IpcAssumption DEF Carries
  <2>5. ASSUME NEW n \in Mods, work'[n] = c, pc'[n] \notin Answered PROVE Carries(c)
    <3>1. work[n] = c /\ pc[n] \notin Answered
      BY <1>2, <1>3, <1>5, <2>5 DEF Answered
    <3> QED BY <3>1 DEF Carries
  <2> QED BY <1>7, <2>2, <2>3, <2>4, <2>5 DEF Carries
<1>8. seq <= seq'
  BY <1>3 DEF PlaceInv, MsgTypeOK
<1>9. /\ OneToken' /\ OldToken'
      /\ \A c \in Buffers : Live(c)' => Live(c) /\ hdr'[c] = hdr[c] /\ hdr[c] \in Hdrs
  BY <1>6, <1>7, <1>8, TokensKept
<1>10. /\ hdr[b] = sndhdr[m] /\ sndhdr[m].opcode \in {"post", "request"} /\ sndhdr[m].sender_id = m
       /\ sndhdr[m].request <= seq
       /\ \A r \in abandoned[m] : r <= seq /\ r < sndhdr[m].request
  BY <1>2 DEF TokenInv, Asks, Sending
<1>11. \A n \in Mods : Open(n) \subseteq Open(n)'
  BY <1>2, <1>3, <1>5 DEF Open
<1>12. OpenToken'
  <2> SUFFICES ASSUME NEW c \in Buffers, Live(c)', ~Unsent(c)'
               PROVE  hdr'[c].request \in Open(Origin(hdr[c]))'
    BY DEF OpenToken
  <2>1. Live(c) /\ hdr'[c] = hdr[c] /\ hdr[c] \in Hdrs
    BY <1>9
  <2>2. CASE c = b
    <3>1. sndhdr[m].opcode = "request"
      BY <1>10, <2>1, <2>2 DEF Live
    <3>2. pc'[m] = "poll" /\ sndhdr'[m] = sndhdr[m]
      BY <1>3, <1>4, <1>5, <3>1
    <3>3. Origin(hdr'[c]) = m /\ hdr'[c].request = sndhdr'[m].request
      BY <1>10, <2>1, <2>2, <3>1, <3>2 DEF Origin
    <3>4. hdr'[c].request \in Open(m)'
      BY <3>2, <3>3 DEF Open
    <3>5. Open(Origin(hdr[c]))' = Open(m)'
      BY <3>3 DEF Open
    <3> QED BY <3>4, <3>5
  <2>3. CASE c # b
    <3>1. ~Unsent(c)
      BY <1>2, <1>5, <2>3 DEF Unsent
    <3>2. hdr[c].request \in Open(Origin(hdr[c]))
      BY <2>1, <3>1 DEF TokenInv, OpenToken
    <3>3. PICK n : n = Origin(hdr[c])
      OBVIOUS
    <3>4. n \in Mods /\ n = Origin(hdr'[c]) /\ hdr'[c].request \in Open(n)
      BY <2>1, <3>2, <3>3 DEF Origin, Hdrs
    <3> QED BY <1>11, <3>3, <3>4
  <2> QED BY <2>2, <2>3
<1>13. Addressed'
  BY <1>3 DEF TokenInv, Addressed
<1>14. Asks(m)' /\ Own(m)'
  <2>1. pc'[m] = s
    BY <1>5
  <2>2. s = "poll" => sndhdr'[m] = sndhdr[m]
    BY <1>3
  <2> QED BY <1>3, <1>4, <1>10, <2>1, <2>2 DEF Asks, Own, Sending
<1> QED BY <1>6, <1>8, <1>9, <1>12, <1>13, <1>14, OthersAsk DEF TokenInv

(* The attempts of a send. *)
LEMMA TrySendToken ==
  ASSUME PlaceInv, PlaceInv', TokenInv, NEW m \in Mods, TrySend(m)
  PROVE  TokenInv'
<1>1. CASE Len(que[sndhdr[m].module_id]) < QueueMax
  BY <1>1, SentToken
<1>2. CASE ~(Len(que[sndhdr[m].module_id]) < QueueMax) /\ retry[m] > 1
  BY <1>2, CountToken DEF TrySend
<1>3. CASE ~(Len(que[sndhdr[m].module_id]) < QueueMax) /\ ~(retry[m] > 1)
  <2>1. /\ pc[m] = "send" /\ hdr' = Freed(snd[m]) /\ snd' = [snd EXCEPT ![m] = NoBuf]
        /\ pc' = [pc EXCEPT ![m] = Back(m)] /\ sndhdr' = [sndhdr EXCEPT ![m] = NoHdr]
        /\ UNCHANGED <<que, replyq, work, got, seq, abandoned>>
    BY <1>3 DEF TrySend, Returned
  <2>2. PICK s : s = Back(m)
    OBVIOUS
  <2>3. s \in {"idle", "handle"}
    BY <2>2 DEF Back
  <2>4. s \in {"idle", "handle", "release"} /\ (s = "release" <=> pc[m] = "rsend") /\ pc' = [pc EXCEPT ![m] = s]
    BY <2>1, <2>2, <2>3
  <2>5. \A n \in Mods \ {m} : sndhdr'[n] = sndhdr[n]
    BY <2>1 DEF PlaceInv, MsgTypeOK
  <2> QED BY <2>1, <2>4, <2>5, GiveUpToken
<1> QED BY <1>1, <1>2, <1>3

(* An answer in the reply queue answers an open request of the module it is for. *)
LEMMA AnswerOpen ==
  ASSUME PlaceInv, TokenInv, NEW i \in DOMAIN replyq
  PROVE  /\ replyq[i].msgbuff \in Buffers /\ Live(replyq[i].msgbuff) /\ hdr[replyq[i].msgbuff] \in Hdrs
         /\ hdr[replyq[i].msgbuff].module_id = replyq[i].recvmod
         /\ hdr[replyq[i].msgbuff].request \in Open(replyq[i].recvmod)
<1>1. PICK b : b = replyq[i].msgbuff
  OBVIOUS
<1>2. b \in Buffers
  <2> DEFINE R == [recvmod : Mods, msgbuff : Buffers]
  <2>1. replyq \in Seq(R)
    BY DEF PlaceInv, MsgTypeOK
  <2>2. \A r \in R : r.msgbuff \in Buffers
    OBVIOUS
  <2> HIDE DEF R
  <2>3. replyq[i] \in R
    BY <2>1
  <2> QED BY <1>1, <2>2, <2>3
<1>3. b \in Bufs(replyq)
  BY <1>1 DEF Bufs
<1>4. hdr[b].opcode = "reply" /\ hdr[b].module_id = replyq[i].recvmod
  BY <1>1 DEF TokenInv, Addressed
<1>5. Live(b) /\ hdr[b] # NoHdr
  BY <1>2, <1>3, <1>4, PlaceHeld DEF Live, Carries, Held
<1>6. hdr[b] \in Hdrs
  BY <1>2, <1>5 DEF PlaceInv, MsgTypeOK
<1>7. ~Unsent(b)
  <2>1. PICK x \in Kinds, y \in Mods \cup {NoBuf} : At(x, y, b)
    BY <1>2, WhereIs
  <2> QED BY <1>3, <2>1 DEF At, Unsent
<1>8. hdr[b].request \in Open(Origin(hdr[b]))
  BY <1>2, <1>5, <1>7 DEF TokenInv, OpenToken
<1>9. Origin(hdr[b]) = replyq[i].recvmod
  BY <1>4 DEF Origin
<1> QED BY <1>1, <1>2, <1>4, <1>5, <1>6, <1>8, <1>9

(* ipc_sync_send_n1 takes an answer.  The request it waited for is closed, unless the answer was
   to an older one. *)
LEMMA MatchToken ==
  ASSUME PlaceInv, PlaceInv', TokenInv, NEW m \in Mods, Poll(m), RepliesFor(m) # {},
         Matches(hdr[replyq[FirstReply(m)].msgbuff], sndhdr[m])
  PROVE  TokenInv'
<1>1. PICK b, f : f = FirstReply(m) /\ b = replyq[f].msgbuff
  OBVIOUS
<1>2. f \in DOMAIN replyq /\ replyq[f].recvmod = m
  BY <1>1, FirstReplyFor DEF PlaceInv
<1>3. /\ b \in Buffers /\ Live(b) /\ hdr[b] \in Hdrs /\ hdr[b].module_id = m
      /\ hdr[b].request \in Open(m)
  BY <1>1, <1>2, AnswerOpen
<1>4. /\ replyq' = Without(replyq, f) /\ got' = [got EXCEPT ![m] = b]
      /\ pc' = [pc EXCEPT ![m] = "got"] /\ pc[m] = "poll"
      /\ abandoned' = [abandoned EXCEPT ![m] = abandoned[m] \cup ({sndhdr[m].request} \ {hdr[b].request})]
      /\ UNCHANGED <<que, hdr, snd, sndhdr, work, seq>>
  BY <1>1 DEF Poll
<1>5. /\ \A j \in DOMAIN replyq' : \E i \in DOMAIN replyq : replyq'[j] = replyq[i]
      /\ Bufs(replyq') = Bufs(replyq) \ {b}
  <2> DEFINE R == [recvmod : Mods, msgbuff : Buffers]
  <2>1. replyq \in Seq(R) /\ InjBufs(replyq)
    BY QueuesInj DEF PlaceInv, MsgTypeOK
  <2> HIDE DEF R
  <2>2. /\ \A j \in DOMAIN replyq' : \E i \in DOMAIN replyq : i # f /\ replyq'[j] = replyq[i]
        /\ Bufs(replyq') = Bufs(replyq) \ {replyq[f].msgbuff}
    BY <1>2, <1>4, <2>1, WithoutBufs
  <2> QED BY <1>1, <2>2
<1>6. \A n \in Mods : /\ pc'[n] = IF n = m THEN "got" ELSE pc[n]
                      /\ got'[n] = IF n = m THEN b ELSE got[n]
                      /\ n # m => abandoned'[n] = abandoned[n]
  BY <1>4 DEF PlaceInv, MsgTypeOK
<1>7. abandoned'[m] = abandoned[m] \cup ({sndhdr[m].request} \ {hdr[b].request})
  BY <1>4 DEF PlaceInv, MsgTypeOK
<1>8. HdrStep /\ OthersSame(m)
  BY <1>4, <1>6 DEF HdrStep, OthersSame
<1>9. \A c \in Buffers : Carries(c)' => Carries(c)
  BY <1>4, <1>5, <1>6 DEF Carries, Answered
<1>10. ~Carries(b)'
  <2>1. At("reply", NoBuf, b) \/ \E y \in Mods : At("reply", y, b)
    <3>1. PICK x \in Kinds, y \in Mods \cup {NoBuf} : At(x, y, b)
      BY <1>3, WhereIs
    <3>2. b \in Bufs(replyq)
      BY <1>1, <1>2 DEF Bufs
    <3> QED BY <3>1, <3>2 DEF At
  <2>2. \A n \in Mods : b \notin Elems(que[n]) /\ snd[n] # b /\ work[n] # b
    BY <2>1 DEF At
  <2>3. b \notin Bufs(replyq') /\ \A n \in Mods : b \notin Elems(que'[n]) /\ snd'[n] # b /\ work'[n] # b
    BY <1>4, <1>5, <2>2
  <2> QED BY <2>3 DEF Carries
<1>11. seq <= seq'
  BY <1>4 DEF PlaceInv, MsgTypeOK
<1>12. /\ OneToken' /\ OldToken'
       /\ \A c \in Buffers : Live(c)' => Live(c) /\ hdr'[c] = hdr[c] /\ hdr[c] \in Hdrs
  BY <1>8, <1>9, <1>11, TokensKept
<1>13. OpenToken'
  <2> SUFFICES ASSUME NEW c \in Buffers, Live(c)', ~Unsent(c)'
               PROVE  hdr'[c].request \in Open(Origin(hdr[c]))'
    BY DEF OpenToken
  <2>1. Live(c) /\ hdr'[c] = hdr[c] /\ hdr[c] \in Hdrs /\ c # b
    BY <1>10, <1>12 DEF Live
  <2>2. ~Unsent(c)
    BY <1>4, <1>6 DEF Unsent, Sending
  <2>3. hdr[c].request \in Open(Origin(hdr[c])) /\ hdr[c].request # hdr[b].request
    BY <1>3, <2>1, <2>2 DEF TokenInv, OpenToken, OneToken
  <2>4. PICK n : n = Origin(hdr[c])
    OBVIOUS
  <2>5. n \in Mods /\ n = Origin(hdr'[c]) /\ hdr[c].request \in Open(n)
    BY <2>1, <2>3, <2>4 DEF Origin, Hdrs
  <2>6. hdr[c].request \in Open(n)'
    <3>1. CASE n = m
      <4>1. hdr[c].request \in abandoned[m] \cup {sndhdr[m].request}
        BY <1>4, <2>5, <3>1 DEF Open
      <4>2. hdr[c].request \in abandoned'[m]
        BY <1>7, <2>3, <4>1
      <4> QED BY <3>1, <4>2 DEF Open
    <3>2. CASE n # m
      BY <1>4, <1>6, <2>5, <3>2 DEF Open
    <3> QED BY <3>1, <3>2
  <2>7. hdr'[c].request \in Open(n)'
    BY <2>1, <2>6
  <2> QED BY <2>5, <2>7
<1>14. Addressed'
  BY <1>5, <1>8, AddressedKept
<1>15. /\ sndhdr[m].request <= seq
       /\ \A r \in abandoned[m] : r < sndhdr[m].request /\ r <= seq
  BY <1>4 DEF TokenInv, Asks
<1>16. Asks(m)'
  <2>1. \A r \in abandoned'[m] : r <= seq'
    BY <1>4, <1>7, <1>15
  <2> QED BY <1>6, <2>1 DEF Asks, Sending
<1>17. Own(m)'
  <2>1. got'[m] = b /\ hdr'[b] = hdr[b] /\ sndhdr'[m] = sndhdr[m]
    BY <1>4, <1>6
  <2>2. hdr[b].request \in abandoned[m] \cup {sndhdr[m].request}
    BY <1>3, <1>4 DEF Open
  <2>3. \/ hdr[b].request = sndhdr[m].request
        \/ hdr[b].request \in abandoned'[m] /\ hdr[b].request < sndhdr[m].request
    BY <1>7, <1>15, <2>2
  <2> QED BY <1>3, <2>1, <2>3 DEF Own
<1> QED BY <1>8, <1>11, <1>12, <1>13, <1>14, <1>16, <1>17, OthersAsk DEF TokenInv

(* One look at the reply queue. *)
LEMMA PollToken ==
  ASSUME PlaceInv, PlaceInv', TokenInv, NEW m \in Mods, Poll(m)
  PROVE  TokenInv'
<1>1. CASE RepliesFor(m) = {}
  BY <1>1, CountToken DEF Poll
<1>2. CASE RepliesFor(m) # {} /\ Matches(hdr[replyq[FirstReply(m)].msgbuff], sndhdr[m])
  BY <1>2, MatchToken
<1>3. CASE RepliesFor(m) # {} /\ ~Matches(hdr[replyq[FirstReply(m)].msgbuff], sndhdr[m])
  BY <1>3, DropToken DEF Poll
<1> QED BY <1>1, <1>2, <1>3

(* The token goes from the request to its answer. *)
LEMMA ReplyToken ==
  ASSUME PlaceInv, PlaceInv', TokenInv, NEW m \in Mods, Reply(m)
  PROVE  TokenInv'
<1>1. PICK q, w : q = work[m] /\ w = hdr[q]
  OBVIOUS
<1> DEFINE h == [module_id |-> w.sender_id, sender_id |-> w.module_id, msg_type |-> w.msg_type,
                 opcode |-> "reply", request |-> w.request]
<1>2. PICK b \in Taken : hdr' = Filled(b, h) /\ snd' = [snd EXCEPT ![m] = b]
  BY <1>1 DEF Reply
<1>3. /\ pc' = [pc EXCEPT ![m] = "rsend"] /\ pc[m] = "handle" /\ w.opcode = "request"
      /\ UNCHANGED <<que, replyq, sndhdr, work, got, seq, abandoned>>
  BY <1>1 DEF Reply
<1>4. b \in Buffers /\ hdr[b] = NoHdr /\ hdr' = [hdr EXCEPT ![b] = h]
  BY <1>2 DEF Taken, FreeBufs, Filled
<1>5. h.request = w.request /\ h.opcode = "reply" /\ h.module_id = w.sender_id
  OBVIOUS
<1> HIDE DEF h
<1>6. /\ \A n \in Mods : /\ snd'[n] = IF n = m THEN b ELSE snd[n]
                         /\ pc'[n] = IF n = m THEN "rsend" ELSE pc[n]
      /\ \A c \in Buffers : hdr'[c] = IF c = b THEN h ELSE hdr[c]
  BY <1>2, <1>3, <1>4 DEF PlaceInv, MsgTypeOK
<1>7. /\ q \in Buffers /\ work[m] = q /\ q # b /\ w # NoHdr /\ w \in Hdrs
      /\ q \notin Bufs(replyq) /\ \A n \in Mods : /\ q \notin Elems(que[n]) /\ snd[n] # q
                                                  /\ n # m => work[n] # q
  <2>1. q \in Buffers /\ work[m] = q
    BY <1>1, <1>3 DEF PlaceInv, Hands, MsgTypeOK
  <2>2. PICK x \in Kinds, y \in Mods \cup {NoBuf} : At(x, y, q)
    BY <2>1, WhereIs
  <2>3. x = "work" /\ y = m
    BY <2>1, <2>2 DEF At
  <2>4. /\ w # NoHdr /\ q \notin Bufs(replyq)
        /\ \A n \in Mods : q \notin Elems(que[n]) /\ snd[n] # q /\ (n # m => work[n] # q)
    BY <1>1, <2>2, <2>3 DEF At
  <2>5. w \in Hdrs
    BY <1>1, <2>1, <2>4 DEF PlaceInv, MsgTypeOK
  <2> QED BY <1>1, <1>4, <2>1, <2>4, <2>5
<1>8. Live(q) /\ ~Unsent(q)
  BY <1>1, <1>3, <1>7 DEF Live, Carries, Unsent, Answered
<1>9. HdrStep /\ OthersSame(m)
  BY <1>3, <1>4, <1>6 DEF HdrStep, OthersSame
<1>10. \A c \in Buffers : c # b /\ Carries(c)' => Carries(c) /\ c # q
  <2> SUFFICES ASSUME NEW c \in Buffers, c # b, Carries(c)' PROVE Carries(c) /\ c # q
    OBVIOUS
  <2>1. CASE c \in Bufs(replyq')
    BY <1>3, <1>7, <2>1 DEF Carries
  <2>2. ASSUME NEW n \in Mods, c \in Elems(que'[n]) PROVE Carries(c) /\ c # q
    BY <1>3, <1>7, <2>2 DEF Carries
  <2>3. ASSUME NEW n \in Mods, snd'[n] = c PROVE Carries(c) /\ c # q
    BY <1>6, <1>7, <2>3 DEF Carries
  <2>4. ASSUME NEW n \in Mods, work'[n] = c, pc'[n] \notin Answered PROVE Carries(c) /\ c # q
    BY <1>3, <1>6, <1>7, <2>4 DEF Carries, Answered
  <2> QED BY <2>1, <2>2, <2>3, <2>4 DEF Carries
<1>11. ASSUME NEW c \in Buffers, c # b, Live(c)'
       PROVE  Live(c) /\ c # q /\ hdr'[c] = hdr[c] /\ hdr[c] \in Hdrs
  <2>1. Carries(c) /\ c # q /\ hdr'[c] = hdr[c]
    BY <1>6, <1>10, <1>11 DEF Live
  <2>2. hdr[c] # NoHdr
    BY <2>1, PlaceHeld DEF Held, Carries
  <2> QED BY <1>11, <2>1, <2>2 DEF Live, PlaceInv, MsgTypeOK
<1>12. hdr'[b] = h
  BY <1>4, <1>6
<1>13. OldToken'
  BY <1>1, <1>3, <1>5, <1>7, <1>8, <1>11, <1>12 DEF TokenInv, OldToken
<1>14. OneToken'
  <2> SUFFICES ASSUME NEW c \in Buffers, NEW d \in Buffers, Live(c)', Live(d)',
                      hdr'[c].request = hdr'[d].request
               PROVE  c = d
    BY DEF OneToken
  <2>1. \A e \in Buffers : e # b /\ Live(e)' => hdr'[e].request # w.request
    BY <1>1, <1>7, <1>8, <1>11 DEF TokenInv, OneToken
  <2>2. CASE c = b \/ d = b
    BY <1>5, <1>12, <2>1, <2>2
  <2>3. CASE c # b /\ d # b
    BY <1>11, <2>3 DEF TokenInv, OneToken
  <2> QED BY <2>2, <2>3
<1>15. \A n \in Mods : Open(n)' = Open(n)
  BY <1>3, <1>6 DEF Open
<1>16. OpenToken'
  <2> SUFFICES ASSUME NEW c \in Buffers, Live(c)', ~Unsent(c)'
               PROVE  hdr'[c].request \in Open(Origin(hdr[c]))'
    BY DEF OpenToken
  <2>1. CASE c = b
    <3>1. w.request \in Open(Origin(w))
      BY <1>1, <1>7, <1>8 DEF TokenInv, OpenToken
    <3>2. PICK n : n = w.sender_id
      OBVIOUS
    <3>3. n \in Mods /\ n = Origin(w) /\ n = Origin(hdr'[c])
      BY <1>3, <1>5, <1>7, <1>12, <2>1, <3>2 DEF Origin, Hdrs
    <3>4. hdr'[c].request \in Open(n)'
      BY <1>5, <1>12, <1>15, <2>1, <3>1, <3>3
    <3> QED BY <3>3, <3>4
  <2>2. CASE c # b
    <3>1. Live(c) /\ hdr'[c] = hdr[c] /\ hdr[c] \in Hdrs
      BY <1>11, <2>2
    <3>2. ~Unsent(c)
      BY <1>3, <1>6, <2>2 DEF Unsent, Sending
    <3>3. hdr[c].request \in Open(Origin(hdr[c]))
      BY <3>1, <3>2 DEF TokenInv, OpenToken
    <3>4. PICK n : n = Origin(hdr[c])
      OBVIOUS
    <3>5. n \in Mods /\ n = Origin(hdr'[c]) /\ hdr'[c].request \in Open(n)
      BY <3>1, <3>3, <3>4 DEF Origin, Hdrs
    <3> QED BY <1>15, <3>4, <3>5
  <2> QED BY <2>1, <2>2
<1>17. Addressed'
  BY <1>3, <1>9, AddressedKept
<1>18. Asks(m)' /\ Own(m)'
  <2>1. hdr'[snd'[m]].opcode = "reply" /\ pc'[m] = "rsend"
    BY <1>4, <1>5, <1>6
  <2>2. \A r \in abandoned'[m] : r <= seq'
    BY <1>3 DEF TokenInv, Asks
  <2> QED BY <2>1, <2>2 DEF Asks, Own, Sending
<1>19. seq <= seq'
  BY <1>3 DEF PlaceInv, MsgTypeOK
<1> QED BY <1>9, <1>13, <1>14, <1>16, <1>17, <1>18, <1>19, OthersAsk DEF TokenInv

(* The answer goes into the reply queue, for the module that asked. *)
LEMMA RepliedToken ==
  ASSUME PlaceInv, PlaceInv', TokenInv, NEW m \in Mods, pc[m] = "rsend",
         replyq' = Append(replyq, [recvmod |-> hdr[snd[m]].module_id, msgbuff |-> snd[m]]),
         snd' = [snd EXCEPT ![m] = NoBuf], pc' = [pc EXCEPT ![m] = AfterReply],
         UNCHANGED <<que, hdr, sndhdr, work, got, seq, abandoned>>
  PROVE  TokenInv'
<1>1. PICK b, r : b = snd[m] /\ r = [recvmod |-> hdr[b].module_id, msgbuff |-> b]
  OBVIOUS
<1>2. b \in Buffers /\ b # NoBuf /\ snd[m] = b /\ hdr[b] # NoHdr
  <2>1. b \in Buffers /\ b # NoBuf /\ snd[m] = b
    BY <1>1 DEF PlaceInv, Hands, MsgTypeOK
  <2> QED BY <2>1, PlaceHeld DEF Held
<1>3. hdr[b] \in Hdrs /\ hdr[b].module_id \in Mods /\ hdr[b].opcode = "reply"
  <2>1. hdr[b] \in Hdrs
    BY <1>2 DEF PlaceInv, MsgTypeOK
  <2>2. hdr[b].opcode = "reply"
    BY <1>2 DEF TokenInv, Asks
  <2> QED BY <2>1, <2>2 DEF Hdrs
<1>4. r.recvmod = hdr[b].module_id /\ r.msgbuff = b /\ r \in [recvmod : Mods, msgbuff : Buffers]
  BY <1>1, <1>2, <1>3
<1>5. /\ Bufs(replyq') = Bufs(replyq) \cup {b}
      /\ \A j \in DOMAIN replyq' : replyq'[j] = r \/ \E k \in DOMAIN replyq : replyq'[j] = replyq[k]
  <2> DEFINE R == [recvmod : Mods, msgbuff : Buffers]
  <2>1. replyq \in Seq(R) /\ r \in R /\ replyq' = Append(replyq, r)
    BY <1>1, <1>4 DEF PlaceInv, MsgTypeOK
  <2> HIDE DEF R
  <2>2. /\ Bufs(replyq') = Bufs(replyq) \cup {r.msgbuff}
        /\ \A j \in DOMAIN replyq' : replyq'[j] = r \/ \E k \in DOMAIN replyq : replyq'[j] = replyq[k]
    BY <2>1, AppendBufs
  <2> QED BY <1>4, <2>2
<1>6. Addressed'
  <2>1. \A k \in DOMAIN replyq : /\ hdr[replyq[k].msgbuff].opcode = "reply"
                                 /\ hdr[replyq[k].msgbuff].module_id = replyq[k].recvmod
    BY DEF TokenInv, Addressed
  <2>2. ASSUME NEW j \in DOMAIN replyq'
        PROVE  /\ hdr[replyq'[j].msgbuff].opcode = "reply"
               /\ hdr[replyq'[j].msgbuff].module_id = replyq'[j].recvmod
    BY <1>3, <1>4, <1>5, <2>1
  <2> QED BY <2>2 DEF Addressed
<1>7. \A n \in Mods : /\ snd'[n] = IF n = m THEN NoBuf ELSE snd[n]
                      /\ pc'[n] = IF n = m THEN "release" ELSE pc[n]
  BY DEF PlaceInv, MsgTypeOK, AfterReply
<1>8. OthersSame(m) /\ HdrStep /\ Open(m) \subseteq Open(m)'
  BY <1>7 DEF OthersSame, HdrStep, Open
<1>9. ASSUME NEW c \in Buffers PROVE Carries(c)' => Carries(c)
  <2>1. c # NoBuf
    BY IpcAssumption
  <2>2. CASE c = b
    BY <1>2, <2>2 DEF Carries
  <2>3. CASE c # b
    <3>1. c \in Bufs(replyq') => c \in Bufs(replyq)
      BY <1>5, <2>3
    <3>2. \A n \in Mods : /\ snd'[n] = c => snd[n] = c
                          /\ pc'[n] \notin Answered => pc[n] \notin Answered
      BY <1>7, <2>1 DEF Answered
    <3> QED BY <3>1, <3>2 DEF Carries
  <2> QED BY <2>2, <2>3
<1>10. Asks(m)' /\ Own(m)'
  BY <1>7 DEF TokenInv, Asks, Own, Sending
<1>11. pc[m] \notin Sending
  BY DEF Sending
<1> QED BY <1>6, <1>8, <1>9, <1>10, <1>11, TokenStep

(* The attempts of an answer. *)
LEMMA TryReplyToken ==
  ASSUME PlaceInv, PlaceInv', TokenInv, NEW m \in Mods, TryReply(m)
  PROVE  TokenInv'
<1>1. CASE Len(replyq) < ReplyMax
  <2>1. ~(Len(replyq) >= ReplyMax)
    <3>1. Len(replyq) \in Nat
      BY DEF PlaceInv, MsgTypeOK
    <3> QED BY <1>1, <3>1, IpcAssumption
  <2> QED BY <2>1, RepliedToken DEF TryReply
<1>2. CASE ~(Len(replyq) < ReplyMax) /\ retry[m] > 1
  BY <1>2, CountToken DEF TryReply
<1>3. CASE ~(Len(replyq) < ReplyMax) /\ ~(retry[m] > 1)
  <2>1. /\ pc[m] = "rsend" /\ hdr' = Freed(snd[m]) /\ snd' = [snd EXCEPT ![m] = NoBuf]
        /\ pc' = [pc EXCEPT ![m] = "release"] /\ UNCHANGED sndhdr
        /\ UNCHANGED <<que, replyq, work, got, seq, abandoned>>
    BY <1>3 DEF TryReply, AfterReply
  <2>2. PICK s : s = "release"
    OBVIOUS
  <2>3. s \in {"idle", "handle", "release"} /\ (s = "release" <=> pc[m] = "rsend") /\ pc' = [pc EXCEPT ![m] = s]
    BY <2>1, <2>2
  <2> QED BY <2>1, <2>3, GiveUpToken
<1> QED BY <1>1, <1>2, <1>3

(* Every step keeps the tokens. *)
LEMMA TokenNext == PlaceInv /\ PlaceInv' /\ TokenInv /\ [Next]_vars => TokenInv'
<1> SUFFICES ASSUME PlaceInv, PlaceInv', TokenInv, [Next]_vars PROVE TokenInv'
  OBVIOUS
<1>1. CASE UNCHANGED vars
  BY <1>1, CountToken DEF vars
<1>2. CASE Done
  BY <1>2, CountToken DEF Done, vars
<1>3. ASSUME NEW m \in Mods, \E dst \in Mods, t \in Types, op \in {"post", "request"} : Send(m, dst, t, op)
      PROVE  TokenInv'
  BY <1>3, SendToken
<1>4. ASSUME NEW m \in Mods, Run(m) PROVE TokenInv'
  BY <1>4, DrainToken, TrySendToken, PollToken, TimeoutToken, ConsumeToken, TryReplyToken, ReleaseToken
     DEF Run
<1>5. ASSUME NEW m \in Mods, Dispatch(m) \/ Reply(m) \/ Crash(m) \/ Restart(m) PROVE TokenInv'
  BY <1>5, DispatchToken, ReplyToken, CrashToken, RestartToken
<1>6. ASSUME NEW m \in Mods, NoMemory(m) PROVE TokenInv'
  BY <1>6, CountToken DEF NoMemory, vars
<1> QED BY <1>1, <1>2, <1>3, <1>4, <1>5, <1>6 DEF Next

(* In every reachable state a request number is carried by one block at most. *)
THEOREM TokenInvariant == Spec => []TokenInv
BY PlaceInvariant, TokenInit, TokenNext, PTL DEF Spec

(* A synchronous send returns an answer that is addressed to its module and answers the request
   it sent or one that the module itself gave up earlier; never an answer to a request that was
   already answered, and never another module's.  Matches does not compare the sequence numbers:
   what keeps a second answer to the same request away is that there is only one. *)
THEOREM AnswersOwnOrAbandoned == Spec => []OwnOrAbandoned
<1>1. TokenInv => OwnOrAbandoned
  BY DEF TokenInv, Own, OwnOrAbandoned
<1> QED BY <1>1, TokenInvariant, PTL

(* What lies in the one reply queue of the device for a module answers requests it gave up, one
   answer each, and at most the one it waits for now. *)
THEOREM RepliesBounded == Spec => []ReplyBound
<1>1. PlaceInv /\ TokenInv => ReplyBound
  <2> SUFFICES ASSUME PlaceInv, TokenInv, NEW m \in Mods, NEW i \in RepliesFor(m), NEW j \in RepliesFor(m)
               PROVE  /\ hdr[replyq[i].msgbuff].request \in Open(m)
                      /\ hdr[replyq[i].msgbuff].request = hdr[replyq[j].msgbuff].request => i = j
    BY DEF ReplyBound, Open
  <2>1. /\ i \in DOMAIN replyq /\ replyq[i].recvmod = m
        /\ j \in DOMAIN replyq /\ replyq[j].recvmod = m
    BY DEF RepliesFor
  <2>2. hdr[replyq[i].msgbuff].request \in Open(m)
    BY <2>1, AnswerOpen
  <2>3. ASSUME hdr[replyq[i].msgbuff].request = hdr[replyq[j].msgbuff].request PROVE i = j
    <3>1. /\ replyq[i].msgbuff \in Buffers /\ Live(replyq[i].msgbuff)
          /\ replyq[j].msgbuff \in Buffers /\ Live(replyq[j].msgbuff)
      BY <2>1, AnswerOpen
    <3>2. replyq[i].msgbuff = replyq[j].msgbuff
      BY <2>3, <3>1 DEF TokenInv, OneToken
    <3> QED BY <2>1, <3>2, QueuesInj DEF InjBufs
  <2> QED BY <2>2, <2>3
<1> QED BY <1>1, PlaceInvariant, TokenInvariant, PTL
=============================================================================
