----------------------------- MODULE ElpsProofs -----------------------------
(***************************************************************************)
(* Proofs about the sessions of Elps, for any signals, modes and bounds.   *)
(***************************************************************************)
EXTENDS Elps, TLAPS

Budgets == [fail : 0 .. MaxFail, command : 0 .. MaxCommand,
            cycle : 0 .. MaxCycle, hal : 0 .. MaxHal]

Wires == [Ends -> [Ports -> Seq(PDUs)]]

(* What a handler returns. *)
Outcome(o) == o.sess \in Sessions /\ o.ret \in {"success", "fail", "existed", "ipc"}

(* What holds of an enabled session while the hardware layer answers. *)
Safe(s) ==
  /\ s.hw = s.active
  /\ s.status = WTR => s.wtr
  /\ s.status \in {LO, SFP} => s.active = "master"
  /\ s.status \in {DNR, WTR, MS, SFW, FS} => s.active = "backup"

USE DEF NR, DNR, WTR, MS, SFW, FS, SFP, LO

(* A session has the two ports and no other. *)
LEMMA PortsOnly == \A p : p \in Ports <=> p = "master" \/ p = "backup"
BY DEF Ports

(* Telling the hardware layer to forward a port yields a session and a result
   and does not touch whether the session is on. *)
LEMMA SelectType ==
  ASSUME NEW s \in Sessions, NEW p \in Ports, NEW hal \in BOOLEAN
  PROVE  /\ Outcome(Forward(s, p, hal)) /\ Outcome(Select(s, p, hal))
         /\ Forward(s, p, hal).sess.enable = s.enable /\ Select(s, p, hal).sess.enable = s.enable
BY DEF Forward, Select, Outcome, Done, Sessions, Ports

(* Setting the request, and stopping the wait of a session in WTR, yield sessions. *)
LEMMA StatusType ==
  ASSUME NEW s \in Sessions, NEW st \in Statuses
  PROVE  /\ Status(s, st) \in Sessions /\ Status(s, st).enable = s.enable
         /\ StopWtr(s) \in Sessions /\ StopWtr(s).enable = s.enable
BY DEF Status, StopWtr, Sessions

(* elps_link_down_handler yields a session and a result. *)
LEMMA LinkDownType ==
  ASSUME NEW s \in Sessions, NEW d, NEW hal \in BOOLEAN
  PROVE  Outcome(link_down_handler(s, d, hal)) /\ link_down_handler(s, d, hal).sess.enable = s.enable
<1>1. /\ Status(StopWtr(s), SFP) \in Sessions /\ Status(StopWtr(s), SFP).enable = s.enable
      /\ Status(StopWtr(s), SFW) \in Sessions /\ Status(StopWtr(s), SFW).enable = s.enable
  BY StatusType DEF Statuses
<1> QED BY <1>1, SelectType, PortsOnly DEF link_down_handler, Outcome, Done

(* The assignments of the handlers to one field of a session yield sessions. *)
LEMMA SessionUpdates ==
  ASSUME NEW s \in Sessions, NEW p \in Ports, NEW st \in Statuses, NEW k \in BOOLEAN
  PROVE  /\ [s EXCEPT !.active = p] \in Sessions /\ [s EXCEPT !.active = p].enable = s.enable
         /\ [s EXCEPT !.wtr = k] \in Sessions /\ [s EXCEPT !.wtr = k].enable = s.enable
         /\ [s EXCEPT !.holdoff = k] \in Sessions /\ [s EXCEPT !.holdoff = k].enable = s.enable
         /\ [s EXCEPT !.hw = p, !.active = p] \in Sessions
         /\ [s EXCEPT !.hw = p, !.active = p].enable = s.enable
BY DEF Sessions

(* Every handler of a local event yields a session and a result, whether the
   hardware layer answers or not, and no handler switches the session on or off. *)
LEMMA LocalType ==
  ASSUME NEW e \in Ends, NEW s \in Sessions, NEW event, NEW d, NEW hal \in BOOLEAN
  PROVE  Outcome(Local(e, s, event, d, hal)) /\ Local(e, s, event, d, hal).sess.enable = s.enable
<1> DEFINE Fine(o) == Outcome(o) /\ o.sess.enable = s.enable
<1>1. \A st \in Statuses : Status(s, st) \in Sessions /\ Status(s, st).enable = s.enable
  BY StatusType
<1>2. \A st \in Statuses, p \in Ports : Fine(Forward(Status(s, st), p, hal)) /\ Fine(Select(Status(s, st), p, hal))
  BY <1>1, SelectType
<1>3. \A st \in Statuses, p \in Ports : /\ Fine(Done(Status(s, st), "success"))
                                        /\ Fine(Done([Status(s, st) EXCEPT !.active = p], "success"))
                                        /\ Fine(Done([Status(s, st) EXCEPT !.wtr = TRUE], "success"))
                                        /\ Fine(Done([Status(s, st) EXCEPT !.hw = p, !.active = p], "success"))
  <2> SUFFICES ASSUME NEW st \in Statuses, NEW p \in Ports
               PROVE  /\ Fine(Done(Status(s, st), "success"))
                      /\ Fine(Done([Status(s, st) EXCEPT !.active = p], "success"))
                      /\ Fine(Done([Status(s, st) EXCEPT !.wtr = TRUE], "success"))
                      /\ Fine(Done([Status(s, st) EXCEPT !.hw = p, !.active = p], "success"))
    OBVIOUS
  <2> DEFINE t == Status(s, st)
  <2>1. t \in Sessions /\ t.enable = s.enable
    BY <1>1
  <2> HIDE DEF t
  <2>2. /\ Fine(Done(t, "success")) /\ Fine(Done([t EXCEPT !.active = p], "success"))
        /\ Fine(Done([t EXCEPT !.wtr = TRUE], "success"))
        /\ Fine(Done([t EXCEPT !.hw = p, !.active = p], "success"))
    BY <2>1, SessionUpdates DEF Outcome, Done
  <2> QED BY <2>2 DEF t
<1>4. /\ \A r \in {"success", "fail", "existed", "ipc"} : Fine(Done(s, r))
      /\ Fine(Done([s EXCEPT !.holdoff = TRUE], "fail"))
  BY SessionUpdates DEF Outcome, Done, Ports, Statuses
<1>5. {NR, DNR, WTR, MS, SFW, FS, SFP, LO} \subseteq Statuses /\ "master" \in Ports /\ "backup" \in Ports
  BY DEF Statuses, Ports
<1>6. Fine(link_down_handler(s, d, hal))
  BY LinkDownType
<1> HIDE DEF Fine
<1>7. /\ Fine(handle_lop(s, hal)) /\ Fine(handle_fs(s, hal)) /\ Fine(handle_ms(s, hal))
      /\ Fine(handle_sf(e, s, d, hal)) /\ Fine(handle_msclear(e, s, hal))
  BY <1>2, <1>3, <1>4, <1>5, <1>6 DEF handle_lop, handle_fs, handle_ms, handle_sf, handle_msclear
<1>8. /\ Fine(handle_fsclear(e, s, d, hal)) /\ Fine(handle_lopclear(s, d, hal))
      /\ Fine(handle_rsf(e, s, event, d, hal)) /\ Fine(handle_wtr_timeout(s, hal))
  BY <1>2, <1>3, <1>4, <1>5 DEF handle_fsclear, handle_lopclear, handle_rsf, handle_wtr_timeout
<1>9. Fine(Local(e, s, event, d, hal))
  BY <1>4, <1>7, <1>8 DEF Local, Ignored
<1> QED BY <1>9 DEF Fine

(* The same of the handlers of the far end's messages. *)
LEMMA RemoteType ==
  ASSUME NEW e \in Ends, NEW s \in Sessions, NEW pdu \in PDUs, NEW d, NEW hal \in BOOLEAN
  PROVE  Outcome(Remote(e, s, pdu, d, hal)) /\ Remote(e, s, pdu, d, hal).sess.enable = s.enable
<1> DEFINE Fine(o) == Outcome(o) /\ o.sess.enable = s.enable
<1>1. \A st \in Statuses : Status(s, st) \in Sessions /\ Status(s, st).enable = s.enable
  BY StatusType
<1>2. \A st \in Statuses, p \in Ports : Fine(Forward(Status(s, st), p, hal)) /\ Fine(Select(Status(s, st), p, hal))
  BY <1>1, SelectType
<1>3. \A p \in Ports : /\ Fine(Forward(s, p, hal)) /\ Fine(Select(s, p, hal))
                       /\ Fine(Done(Status(Forward(s, p, hal).sess, NR), "success"))
                       /\ Fine(Done(Status(Select(s, p, hal).sess, NR), "success"))
  BY SelectType, StatusType DEF Outcome, Done, Statuses
<1>4. \A r \in {"success", "fail", "existed", "ipc"} :
        Fine(Done(s, r)) /\ \A st \in Statuses : Fine(Done(Status(s, st), r))
  BY <1>1 DEF Outcome, Done
<1>5. {NR, DNR, WTR, MS, SFW, FS, SFP, LO} \subseteq Statuses /\ "master" \in Ports /\ "backup" \in Ports
  BY DEF Statuses, Ports
<1> HIDE DEF Fine
<1>6. Fine(handle_nr(e, s, pdu.signal, d, hal))
  BY <1>2, <1>4, <1>5 DEF handle_nr
<1>7. Fine(handle_dnr(e, s, hal))
  BY <1>2, <1>3, <1>4, <1>5 DEF handle_dnr
<1>8. \A p \in Ports : Fine(change_to(s, p, hal))
  BY <1>3, <1>4, <1>5 DEF change_to
<1>9. Fine(Remote(e, s, pdu, d, hal))
  BY <1>4, <1>5, <1>6, <1>7, <1>8 DEF Remote, Ignored
<1> QED BY <1>9 DEF Fine

-----------------------------------------------------------------------------
(* A handler whose messages to the hardware layer are answered keeps Safe. *)

(* elps_link_down_handler keeps Safe: it announces a failure only of the port
   that it leaves, and stops the timer of the wait that it ends. *)
LEMMA LinkDownSafe ==
  ASSUME NEW s \in Sessions, Safe(s), NEW d
  PROVE  Safe(link_down_handler(s, d, TRUE).sess)
BY DEF Safe, link_down_handler, Select, Forward, Done, Status, StopWtr, Sessions, Ports, Statuses

(* The end of the wait leaves a safe session whatever the timer was. *)
LEMMA WtrTimeoutSafe ==
  ASSUME NEW s \in Sessions
  PROVE  Safe(handle_wtr_timeout(s, TRUE).sess)
<1> DEFINE t == Status(s, NR)
           u == [t EXCEPT !.hw = "master", !.active = "master"]
<1>1. t \in Sessions /\ t.status = NR
  BY DEF Status, Sessions, Statuses
<1> HIDE DEF t
<1>2. u.status = NR /\ u.hw = "master" /\ u.active = "master"
  BY <1>1 DEF Sessions
<1> HIDE DEF u
<1>3. Safe(u)
  BY <1>2 DEF Safe
<1> QED BY <1>3 DEF handle_wtr_timeout, Done, u, t

(* The handler of a local event keeps Safe, when its message is answered. *)
LEMMA LocalSafe ==
  ASSUME NEW e \in Ends, NEW s \in Sessions, Safe(s), NEW event, NEW d
  PROVE  Safe(Local(e, s, event, d, TRUE).sess)
<1>1. s.status # LO => Safe(handle_lop(s, TRUE).sess)
  BY DEF Safe, handle_lop, Select, Forward, Done, Status, Sessions, Ports
<1>2. Safe(handle_fs(s, TRUE).sess) /\ Safe(handle_ms(s, TRUE).sess)
  BY DEF Safe, handle_fs, handle_ms, Select, Forward, Done, Status, Sessions, Ports
<1>3. Safe(handle_sf(e, s, d, TRUE).sess)
  <2>1. Safe([s EXCEPT !.holdoff = TRUE])
    BY DEF Safe, Sessions
  <2> QED BY <2>1, LinkDownSafe DEF handle_sf, Done
<1>4. s.status = SFW => Safe(handle_rsf(e, s, event, d, TRUE).sess)
  BY DEF Safe, handle_rsf, Forward, Done, Status, Sessions, Ports
<1>5. s.status = SFP => Safe(handle_rsf(e, s, "P_RECOVERS", d, TRUE).sess)
  BY DEF Safe, handle_rsf, Forward, Done, Status, Sessions, Ports
<1>6. s.status = FS => Safe(handle_fsclear(e, s, d, TRUE).sess)
  BY DEF Safe, handle_fsclear, Forward, Done, Status, Sessions, Ports
<1>7. s.status = MS => Safe(handle_msclear(e, s, TRUE).sess)
  BY DEF Safe, handle_msclear, Forward, Done, Status, Sessions, Ports
<1>8. s.status = LO => Safe(handle_lopclear(s, d, TRUE).sess)
  BY DEF Safe, handle_lopclear, Forward, Done, Status, Sessions, Ports
<1>9. Safe(handle_wtr_timeout(s, TRUE).sess)
  BY WtrTimeoutSafe
<1>10. Safe(Ignored(s).sess)
  BY DEF Ignored, Done
<1> QED BY <1>1, <1>2, <1>3, <1>4, <1>5, <1>6, <1>7, <1>8, <1>9, <1>10 DEF Local

(* The expiry of the wait-to-restore timer, which stops the timer before the
   handler runs, leaves a safe session. *)
LEMMA WtrSafe ==
  ASSUME NEW e \in Ends, NEW s \in Sessions, Safe(s), NEW d
  PROVE  Safe(Local(e, [s EXCEPT !.wtr = FALSE], "WTR_EXPIRES", d, TRUE).sess)
<1> DEFINE t == [s EXCEPT !.wtr = FALSE]
<1>1. t \in Sessions /\ t.status = s.status
  BY DEF Sessions
<1>2. Local(e, t, "WTR_EXPIRES", d, TRUE) =
        IF t.status = WTR THEN handle_wtr_timeout(t, TRUE) ELSE Ignored(t)
  BY DEF Local
<1>3. Safe(handle_wtr_timeout(t, TRUE).sess)
  BY <1>1, WtrTimeoutSafe
<1>4. s.status # WTR => Safe(Ignored(t).sess)
  BY DEF Safe, Ignored, Done, Sessions
<1> QED BY <1>1, <1>2, <1>3, <1>4

(* The handler of the far end's message keeps Safe, when its message is answered. *)
LEMMA RemoteSafe ==
  ASSUME NEW e \in Ends, NEW s \in Sessions, Safe(s), NEW pdu \in PDUs, NEW d
  PROVE  Safe(Remote(e, s, pdu, d, TRUE).sess)
<1>1. s.status = NR => Safe(handle_nr(e, s, pdu.signal, d, TRUE).sess)
  BY DEF Safe, handle_nr, Select, Forward, Done, Status, Sessions, Ports
<1>2. Safe(handle_dnr(e, s, TRUE).sess)
  BY DEF Safe, handle_dnr, Select, Forward, Done, Status, Sessions, Ports
<1>3. \A p \in Ports : Safe(change_to(s, p, TRUE).sess)
  BY DEF Safe, change_to, Forward, Done, Status, Sessions, Ports
<1>4. Safe(Ignored(s).sess)
  BY DEF Ignored, Done
<1>5. "master" \in Ports /\ "backup" \in Ports
  BY DEF Ports
<1> QED BY <1>1, <1>2, <1>3, <1>4, <1>5 DEF Remote

-----------------------------------------------------------------------------
(* Messages: well typed, and at most MaxWire to a port. *)
GoodWire(w) == w \in Wires /\ \A e \in Ends, p \in Ports : Len(w[e][p]) <= MaxWire

(* The far end is an end. *)
LEMMA PeerEnd == \A e \in Ends : Peer(e) \in Ends
<1> SUFFICES ASSUME NEW e \in Ends PROVE \E f \in Ends : f # e
  BY DEF Peer
<1> QED BY ElpsAssumption

(* aps_send keeps the wires well formed and within MaxWire. *)
LEMMA SendType ==
  ASSUME NEW e \in Ends, NEW s \in Sessions, NEW w, GoodWire(w)
  PROVE  GoodWire(aps_send(e, s, w))
<1> DEFINE p == IF s.status = SFP THEN "master" ELSE "backup"
           m == [request_state |-> s.status, signal |-> s.active]
           q == Append(w[Peer(e)][p], m)
<1>1. p \in Ports /\ Peer(e) \in Ends /\ m \in PDUs
  BY PeerEnd DEF Ports, PDUs, Sessions
<1> HIDE DEF p, m
<1>2. w[Peer(e)][p] \in Seq(PDUs) /\ q \in Seq(PDUs) /\ Len(q) = Len(w[Peer(e)][p]) + 1
  BY <1>1 DEF GoodWire, Wires
<1>3. MaxWire \in Nat
  BY ElpsAssumption
<1> HIDE DEF q
<1>4. ASSUME Len(w[Peer(e)][p]) < MaxWire PROVE GoodWire([w EXCEPT ![Peer(e)][p] = q])
  <2>1. Len(q) <= MaxWire
    BY <1>2, <1>3, <1>4
  <2>2. [w EXCEPT ![Peer(e)][p] = q] \in Wires
    BY <1>1, <1>2 DEF GoodWire, Wires
  <2>3. ASSUME NEW f \in Ends, NEW r \in Ports
        PROVE  Len([w EXCEPT ![Peer(e)][p] = q][f][r]) <= MaxWire
    BY <1>1, <2>1 DEF GoodWire, Wires
  <2> QED BY <2>2, <2>3 DEF GoodWire
<1>5. aps_send(e, s, w) = IF Len(w[Peer(e)][p]) < MaxWire
                          THEN [w EXCEPT ![Peer(e)][p] = q] ELSE w
  BY DEF aps_send, p, q, m
<1> QED BY <1>4, <1>5

(* So does taking a message off a wire, and what is taken is a message. *)
LEMMA TailType ==
  ASSUME NEW e \in Ends, NEW p \in Ports, GoodWire(wire), wire[e][p] # <<>>
  PROVE  GoodWire([wire EXCEPT ![e][p] = Tail(@)]) /\ Head(wire[e][p]) \in PDUs
<1> DEFINE q == Tail(wire[e][p])
<1>1. wire[e][p] \in Seq(PDUs) /\ Len(wire[e][p]) <= MaxWire /\ MaxWire \in Nat
  BY ElpsAssumption DEF GoodWire, Wires
<1>2. q \in Seq(PDUs) /\ Len(q) <= MaxWire /\ Head(wire[e][p]) \in PDUs
  BY <1>1
<1> HIDE DEF q
<1>3. [wire EXCEPT ![e][p] = q] \in Wires
  BY <1>2 DEF GoodWire, Wires
<1>4. ASSUME NEW f \in Ends, NEW r \in Ports
      PROVE  Len([wire EXCEPT ![e][p] = q][f][r]) <= MaxWire
  BY <1>2 DEF GoodWire, Wires
<1> QED BY <1>2, <1>3, <1>4 DEF GoodWire, q

(* A message to the hardware layer that is not answered, and only that, lowers
   the bound on such messages. *)
LEMMA ChargeType ==
  ASSUME NEW b \in Budgets, NEW hal \in Answers(b)
  PROVE  /\ hal \in BOOLEAN /\ Charge(b, hal) \in Budgets
         /\ Charge(b, hal).hal <= b.hal
         /\ Charge(b, hal).hal = b.hal => hal = TRUE
<1>1. MaxHal \in Nat /\ b.hal \in 0 .. MaxHal
  BY ElpsAssumption DEF Budgets
<1>2. CASE hal = TRUE
  BY <1>1, <1>2 DEF Charge
<1>3. CASE hal # TRUE
  <2>1. b.hal > 0 /\ hal = FALSE
    BY <1>3 DEF Answers
  <2>2. b.hal - 1 \in 0 .. MaxHal
    BY <1>1, <2>1
  <2>3. [b EXCEPT !.hal = @ - 1] \in Budgets /\ [b EXCEPT !.hal = @ - 1].hal = b.hal - 1
    BY <2>2 DEF Budgets
  <2>4. Charge(b, hal) = [b EXCEPT !.hal = @ - 1]
    BY <2>1 DEF Charge
  <2>5. Charge(b, hal) \in Budgets /\ Charge(b, hal).hal = b.hal - 1
    BY <2>3, <2>4
  <2>6. Charge(b, hal).hal <= b.hal /\ Charge(b, hal).hal # b.hal
    BY <1>1, <2>5
  <2> QED BY <2>1, <2>5, <2>6
<1> QED BY <1>2, <1>3

(* The session after a handler and what follows it, when the handler started
   with a session that is on. *)
LEMMA ConcludeStep ==
  ASSUME sess \in [Ends -> Sessions], NEW e \in Ends, NEW o, Outcome(o),
         NEW b \in Budgets, NEW w, GoodWire(w), Conclude(e, o, b, w)
  PROVE  /\ \E s \in Sessions :
              /\ sess' = [sess EXCEPT ![e] = s]
              /\ o.ret # "success" => s = o.sess
              /\ budget'.hal = b.hal => s.enable = o.sess.enable /\ (Safe(o.sess) => Safe(s))
         /\ GoodWire(wire') /\ budget' \in Budgets /\ budget'.hal <= b.hal
<1>0. b.hal \in Nat
  BY ElpsAssumption DEF Budgets
<1>1. CASE o.ret # "success"
  BY <1>0, <1>1 DEF Conclude, Outcome
<1>2. CASE o.ret = "success"
  <2> DEFINE t(hal) == [o.sess EXCEPT !.keepalive = TRUE, !.enable = o.sess.enable /\ hal]
  <2>1. PICK hal \in Answers(b) : /\ sess' = [sess EXCEPT ![e] = t(hal)]
                                  /\ wire' = aps_send(e, o.sess, w)
                                  /\ budget' = Charge(b, hal)
    BY <1>2 DEF Conclude
  <2>2. hal \in BOOLEAN /\ budget' \in Budgets /\ budget'.hal <= b.hal /\ (budget'.hal = b.hal => hal = TRUE)
    BY <2>1, ChargeType
  <2>3. GoodWire(wire')
    BY <2>1, SendType DEF Outcome
  <2>4. o.sess \in Sessions /\ o.sess.enable \in BOOLEAN
    BY DEF Outcome, Sessions
  <2>5. (o.sess.enable /\ hal) \in BOOLEAN
    BY <2>2, <2>4
  <2>6. t(hal) \in Sessions
    BY <2>4, <2>5 DEF Sessions
  <2>7. hal = TRUE => t(hal).enable = o.sess.enable
    BY <2>4 DEF Sessions
  <2>8. Safe(o.sess) => Safe(t(hal))
    BY <2>4 DEF Safe, Sessions
  <2> HIDE DEF t
  <2> QED BY <1>2, <2>1, <2>2, <2>3, <2>6, <2>7, <2>8
<1> QED BY <1>1, <1>2

(* elps_fsm changes one session; one that is off stays as it is, and one that is
   on takes the outcome of its handler, if all messages were answered. *)
LEMMA FsmStep ==
  ASSUME sess \in [Ends -> Sessions], NEW e \in Ends, NEW s \in Sessions,
         NEW out, \A hal \in BOOLEAN : Outcome(out[hal]) /\ out[hal].sess.enable = s.enable,
         NEW b \in Budgets, NEW w, GoodWire(w), elps_fsm(e, s, out, b, w)
  PROVE  /\ \E t \in Sessions :
              /\ sess' = [sess EXCEPT ![e] = t]
              /\ ~s.enable => t = s
              /\ budget'.hal = b.hal =>
                   t.enable = s.enable /\ (s.enable /\ Safe(out[TRUE].sess) => Safe(t))
         /\ GoodWire(wire') /\ budget' \in Budgets /\ budget'.hal <= b.hal
<1>0. b.hal \in Nat /\ s.enable \in BOOLEAN
  BY ElpsAssumption DEF Budgets, Sessions
<1>1. CASE ~s.enable
  <2> DEFINE o == Ignored(s)
  <2>1. Conclude(e, o, b, w) /\ o.ret = "fail" /\ o.sess = s
    BY <1>1 DEF elps_fsm, Ignored, Done
  <2>2. Outcome(o)
    BY <2>1 DEF Outcome
  <2> HIDE DEF o
  <2>3. /\ GoodWire(wire') /\ budget' \in Budgets /\ budget'.hal <= b.hal
        /\ \E t \in Sessions : sess' = [sess EXCEPT ![e] = t] /\ t = o.sess
    BY <2>1, <2>2, ConcludeStep
  <2>4. sess' = [sess EXCEPT ![e] = s]
    BY <2>1, <2>3
  <2> QED BY <1>1, <2>3, <2>4, Zenon
<1>2. CASE s.enable
  <2>1. PICK hal \in Answers(b) : Conclude(e, out[hal], Charge(b, hal), w)
    BY <1>2 DEF elps_fsm
  <2>2. /\ hal \in BOOLEAN /\ Charge(b, hal) \in Budgets
        /\ Charge(b, hal).hal <= b.hal
        /\ Charge(b, hal).hal = b.hal => hal = TRUE
    BY ChargeType
  <2>3. Outcome(out[hal]) /\ out[hal].sess.enable = s.enable
    BY <2>2
  <2>4. /\ GoodWire(wire') /\ budget' \in Budgets /\ budget'.hal <= Charge(b, hal).hal
        /\ \E t \in Sessions :
              /\ sess' = [sess EXCEPT ![e] = t]
              /\ budget'.hal = Charge(b, hal).hal =>
                   t.enable = out[hal].sess.enable /\ (Safe(out[hal].sess) => Safe(t))
    BY <2>1, <2>2, <2>3, ConcludeStep
  <2>5. budget'.hal \in Nat /\ Charge(b, hal).hal \in Nat
    BY <2>2, <2>4, ElpsAssumption DEF Budgets
  <2>6. budget'.hal = b.hal => hal = TRUE /\ budget'.hal = Charge(b, hal).hal
    BY <1>0, <2>2, <2>4, <2>5
  <2>7. budget'.hal <= b.hal
    BY <1>0, <2>2, <2>4, <2>5
  <2>8. PICK t \in Sessions :
          /\ sess' = [sess EXCEPT ![e] = t]
          /\ budget'.hal = Charge(b, hal).hal =>
               t.enable = out[hal].sess.enable /\ (Safe(out[hal].sess) => Safe(t))
    BY <2>4
  <2>9. budget'.hal = b.hal => t.enable = s.enable /\ (Safe(out[TRUE].sess) => Safe(t))
    <3> SUFFICES ASSUME budget'.hal = b.hal
                 PROVE  t.enable = s.enable /\ (Safe(out[TRUE].sess) => Safe(t))
      OBVIOUS
    <3>1. hal = TRUE /\ budget'.hal = Charge(b, hal).hal
      BY <2>6
    <3>2. t.enable = out[hal].sess.enable /\ (Safe(out[hal].sess) => Safe(t))
      BY <2>8, <3>1
    <3> QED BY <2>3, <3>1, <3>2, Zenon
  <2> QED BY <1>2, <2>4, <2>7, <2>8, <2>9, Zenon
<1> QED BY <1>1, <1>2

-----------------------------------------------------------------------------
Quiet(s) == ~s.holdoff /\ ~s.wtr /\ ~s.keepalive

(* While every message to the hardware layer was answered: a session that is on
   is safe, one that is off has no timer, and none was freed with one. *)
SessionInv ==
  HalAnswers => /\ ~stray
                /\ \A e \in Ends : IF sess[e].enable THEN Safe(sess[e]) ELSE Quiet(sess[e])

ElpsInv == ElpsTypeOK /\ SessionInv

(* What the steps of this module's actions have in common: one session
   changes, and the others keep what they have. *)
LEMMA OneSession ==
  ASSUME ElpsInv, NEW e \in Ends, NEW t \in Sessions, sess' = [sess EXCEPT ![e] = t],
         GoodWire(wire'), budget' \in Budgets, down' \in [Ends -> SUBSET (Ports \X Signals)],
         stray' \in BOOLEAN, budget'.hal <= budget.hal,
         HalAnswers' /\ HalAnswers => (~stray /\ (IF sess[e].enable THEN Safe(sess[e]) ELSE Quiet(sess[e]))
                         => ~stray' /\ (IF t.enable THEN Safe(t) ELSE Quiet(t)))
  PROVE  ElpsInv'
<1>1. ElpsTypeOK'
  BY DEF ElpsInv, ElpsTypeOK, GoodWire, Wires, Budgets
<1>2. HalAnswers' => HalAnswers
  BY ElpsAssumption DEF ElpsInv, ElpsTypeOK, HalAnswers, Budgets
<1>3. sess'[e] = t /\ \A f \in Ends : f # e => sess'[f] = sess[f]
  BY DEF ElpsInv, ElpsTypeOK
<1>4. ASSUME HalAnswers' PROVE ~stray' /\ (IF t.enable THEN Safe(t) ELSE Quiet(t))
  BY <1>2, <1>4 DEF ElpsInv, SessionInv
<1>5. ASSUME HalAnswers', NEW f \in Ends
      PROVE  IF sess'[f].enable THEN Safe(sess'[f]) ELSE Quiet(sess'[f])
  BY <1>2, <1>3, <1>4, <1>5 DEF ElpsInv, SessionInv
<1>6. SessionInv'
  BY <1>4, <1>5 DEF SessionInv
<1> QED BY <1>1, <1>6 DEF ElpsInv

(* elps_fsm keeps the invariant when its handler keeps Safe. *)
LEMMA FsmKeeps ==
  ASSUME ElpsInv, NEW e \in Ends, NEW s \in Sessions,
         NEW out, \A hal \in BOOLEAN : Outcome(out[hal]) /\ out[hal].sess.enable = s.enable,
         NEW b \in Budgets, b.hal = budget.hal, NEW w, GoodWire(w), elps_fsm(e, s, out, b, w),
         down' \in [Ends -> SUBSET (Ports \X Signals)], UNCHANGED stray,
         HalAnswers /\ ~s.enable => sess[e] = s,
         HalAnswers /\ s.enable => Safe(out[TRUE].sess)
  PROVE  ElpsInv'
<1>1. sess \in [Ends -> Sessions] /\ stray \in BOOLEAN
  BY DEF ElpsInv, ElpsTypeOK
<1>2. /\ GoodWire(wire') /\ budget' \in Budgets /\ budget'.hal <= b.hal
      /\ \E t \in Sessions :
           /\ sess' = [sess EXCEPT ![e] = t]
           /\ ~s.enable => t = s
           /\ budget'.hal = b.hal =>
                t.enable = s.enable /\ (s.enable /\ Safe(out[TRUE].sess) => Safe(t))
  BY <1>1, FsmStep
<1>3. PICK t \in Sessions :
           /\ sess' = [sess EXCEPT ![e] = t]
           /\ ~s.enable => t = s
           /\ budget'.hal = b.hal =>
                t.enable = s.enable /\ (s.enable /\ Safe(out[TRUE].sess) => Safe(t))
  BY <1>2
<1>4. HalAnswers' /\ HalAnswers => budget'.hal = b.hal
  BY DEF HalAnswers
<1>5. HalAnswers' /\ HalAnswers /\ s.enable => t.enable /\ Safe(t)
  BY <1>3, <1>4
<1> QED BY <1>1, <1>2, <1>3, <1>5, OneSession

(* The types that the invariant gives. *)
LEMMA InvTypes ==
  ASSUME ElpsInv, NEW e \in Ends
  PROVE  /\ sess[e] \in Sessions /\ sess[e].enable \in BOOLEAN
         /\ down \in [Ends -> SUBSET (Ports \X Signals)] /\ stray \in BOOLEAN
         /\ budget \in Budgets /\ GoodWire(wire) /\ sess \in [Ends -> Sessions]
BY DEF ElpsInv, ElpsTypeOK, Budgets, GoodWire, Wires, Sessions

(* A local event keeps the invariant when its handler keeps Safe. *)
LEMMA LocalEventKeeps ==
  ASSUME ElpsInv, NEW e \in Ends, NEW s \in Sessions, NEW event, NEW dn,
         NEW b \in Budgets, b.hal = budget.hal, NEW w, GoodWire(w),
         LocalEvent(e, s, event, dn, b, w),
         down' \in [Ends -> SUBSET (Ports \X Signals)], UNCHANGED stray,
         HalAnswers /\ ~s.enable => sess[e] = s,
         HalAnswers /\ s.enable => Safe(Local(e, s, event, Failed(dn), TRUE).sess)
  PROVE  ElpsInv'
<1> DEFINE out == [hal \in BOOLEAN |-> Local(e, s, event, Failed(dn), hal)]
<1>1. \A hal \in BOOLEAN : Outcome(out[hal]) /\ out[hal].sess.enable = s.enable
  BY LocalType
<1>2. out[TRUE] = Local(e, s, event, Failed(dn), TRUE)
  OBVIOUS
<1>3. elps_fsm(e, s, out, b, w)
  BY DEF LocalEvent
<1> HIDE DEF out
<1> QED BY <1>1, <1>2, <1>3, FsmKeeps

(* What the invariant says of one session. *)
LEMMA EnabledSafe ==
  ASSUME ElpsInv, NEW e \in Ends, HalAnswers
  PROVE  /\ ~stray
         /\ sess[e].enable => Safe(sess[e])
         /\ ~sess[e].enable => Quiet(sess[e])
BY DEF ElpsInv, SessionInv

(* "elps enable" keeps the invariant. *)
LEMMA EnableKeeps == ASSUME ElpsInv, NEW e \in Ends, Enable(e) PROVE ElpsInv'
<1> DEFINE s == [sess[e] EXCEPT !.enable = TRUE, !.status = NR, !.active = "master", !.hw = "master"]
           b == [budget EXCEPT !.cycle = @ - 1]
           d == Failed(down[e])
<1>0. budget.cycle > 0
  BY DEF Enable
<1>1. b \in Budgets /\ b.hal = budget.hal /\ b.hal \in Nat
  BY <1>0, InvTypes, ElpsAssumption DEF Budgets
<1>2. s \in Sessions /\ s.enable = TRUE /\ Safe(s)
  <2> DEFINE u == sess[e]
  <2>1. u \in Sessions
    BY InvTypes
  <2> HIDE DEF u
  <2>2. /\ [u EXCEPT !.enable = TRUE, !.status = NR, !.active = "master", !.hw = "master"] \in Sessions
        /\ [u EXCEPT !.enable = TRUE, !.status = NR, !.active = "master", !.hw = "master"].enable = TRUE
    BY <2>1 DEF Sessions, Ports, Statuses
  <2>3. Safe([u EXCEPT !.enable = TRUE, !.status = NR, !.active = "master", !.hw = "master"])
    BY <2>1 DEF Sessions, Safe
  <2> QED BY <2>2, <2>3 DEF u
<1>3. /\ UNCHANGED <<down, stray>>
      /\ \/ \E event : LocalEvent(e, s, event, down[e], b, wire)
         \/ \E sends \in BOOLEAN :
              /\ sess' = [sess EXCEPT ![e] = [s EXCEPT !.keepalive = @ \/ sends]]
              /\ wire' = IF sends THEN aps_send(e, s, wire) ELSE wire
              /\ budget' = b
         \/ /\ b.hal > 0
            /\ budget' = Charge(b, FALSE)
            /\ UNCHANGED <<sess, wire>>
  BY DEF Enable
<1> HIDE DEF s, b
<1>4. ASSUME NEW event, LocalEvent(e, s, event, down[e], b, wire) PROVE ElpsInv'
  <2>1. Safe(Local(e, s, event, Failed(down[e]), TRUE).sess)
    BY <1>2, LocalSafe
  <2> QED BY <1>1, <1>2, <1>3, <1>4, <2>1, InvTypes, LocalEventKeeps
<1>5. ASSUME NEW sends \in BOOLEAN,
             sess' = [sess EXCEPT ![e] = [s EXCEPT !.keepalive = @ \/ sends]],
             wire' = IF sends THEN aps_send(e, s, wire) ELSE wire,
             budget' = b
      PROVE  ElpsInv'
  <2> DEFINE t == [s EXCEPT !.keepalive = @ \/ sends]
  <2>1. t \in Sessions /\ t.enable = TRUE /\ Safe(t)
    BY <1>2 DEF Sessions, Safe
  <2> HIDE DEF t
  <2>2. GoodWire(wire')
    BY <1>2, <1>5, InvTypes, SendType
  <2>3. sess' = [sess EXCEPT ![e] = t]
    BY <1>5 DEF t
  <2>4. budget' \in Budgets /\ budget'.hal <= budget.hal
    BY <1>1, <1>5
  <2> QED BY <1>3, <2>1, <2>2, <2>3, <2>4, InvTypes, OneSession
<1>6. CASE b.hal > 0 /\ budget' = Charge(b, FALSE) /\ UNCHANGED <<sess, wire>>
  <2>1. FALSE \in Answers(b)
    BY <1>6 DEF Answers
  <2>2. budget' \in Budgets /\ budget'.hal <= b.hal
    BY <1>1, <1>6, <2>1, ChargeType
  <2>3. sess[e] \in Sessions /\ sess' = [sess EXCEPT ![e] = sess[e]] /\ GoodWire(wire')
    BY <1>6, InvTypes
  <2> DEFINE u == sess[e]
  <2>4. u \in Sessions /\ sess' = [sess EXCEPT ![e] = u] /\ u = sess[e]
    BY <2>3
  <2> HIDE DEF u
  <2> QED BY <1>1, <1>3, <2>2, <2>3, <2>4, InvTypes, OneSession
<1> QED BY <1>3, <1>4, <1>5, <1>6

(* "elps disable" keeps the invariant: elps_clear_timer stops every timer. *)
LEMMA DisableKeeps == ASSUME ElpsInv, NEW e \in Ends, Disable(e) PROVE ElpsInv'
<1> DEFINE t == [sess[e] EXCEPT !.enable = FALSE, !.holdoff = FALSE, !.wtr = FALSE, !.keepalive = FALSE]
           u == sess[e]
<1>1. u \in Sessions /\ u = sess[e] /\ sess \in [Ends -> Sessions]
  BY InvTypes
<1>2. t \in Sessions /\ t.enable = FALSE /\ Quiet(t)
  <2> HIDE DEF u
  <2> DEFINE v == [u EXCEPT !.enable = FALSE, !.holdoff = FALSE, !.wtr = FALSE, !.keepalive = FALSE]
  <2>1. v \in Sessions /\ v.enable = FALSE /\ Quiet(v)
    BY <1>1 DEF Sessions, Quiet
  <2> QED BY <1>1, <2>1
<1>3. PICK hal \in Answers(budget) :
        /\ sess' = IF hal THEN [sess EXCEPT ![e] = t] ELSE sess
        /\ budget' = Charge(budget, hal)
        /\ UNCHANGED <<down, wire, stray>>
  BY DEF Disable
<1>4. budget' \in Budgets /\ budget'.hal <= budget.hal /\ hal \in BOOLEAN /\ GoodWire(wire')
  BY <1>3, InvTypes, ChargeType
<1> HIDE DEF t, u
<1>5. CASE hal
  BY <1>2, <1>3, <1>4, <1>5, InvTypes, OneSession
<1>6. CASE ~hal
  <2>1. sess' = [sess EXCEPT ![e] = u]
    BY <1>1, <1>3, <1>6
  <2> QED BY <1>1, <1>3, <1>4, <2>1, InvTypes, OneSession
<1> QED BY <1>4, <1>5, <1>6

(* "no elps session" keeps the invariant: a session that is off has no timer. *)
LEMMA DeleteKeeps == ASSUME ElpsInv, NEW e \in Ends, Delete(e) PROVE ElpsInv'
<1> DEFINE t == Fresh
<1>1. t \in Sessions /\ ~t.enable /\ Quiet(t)
  BY DEF Fresh, Sessions, Quiet, Statuses, Ports
<1>2. /\ sess[e].enable = FALSE /\ stray' = (stray \/ ~Quiet(sess[e])) /\ stray' \in BOOLEAN
      /\ sess' = [sess EXCEPT ![e] = t] /\ UNCHANGED <<down, wire, budget>>
  <2>1. sess[e].enable = FALSE /\ sess' = [sess EXCEPT ![e] = t] /\ UNCHANGED <<down, wire, budget>>
    BY InvTypes DEF Delete
  <2>2. stray' = (stray \/ sess[e].holdoff \/ sess[e].wtr \/ sess[e].keepalive)
    BY DEF Delete
  <2>3. stray' = (stray \/ ~Quiet(sess[e])) /\ stray' \in BOOLEAN
    BY <2>2 DEF Quiet
  <2> QED BY <2>1, <2>3
<1>3. HalAnswers => ~stray'
  BY <1>2, EnabledSafe
<1>4. budget' \in Budgets /\ budget'.hal <= budget.hal /\ GoodWire(wire')
  BY <1>2, InvTypes, ElpsAssumption DEF Budgets
<1> HIDE DEF t
<1> QED BY <1>1, <1>2, <1>3, <1>4, InvTypes, OneSession

(* An event that the session may use as it is. *)
LEMMA EventKeeps ==
  ASSUME ElpsInv, NEW e \in Ends, NEW event, NEW dn, NEW b \in Budgets, b.hal = budget.hal,
         LocalEvent(e, sess[e], event, dn, b, wire),
         down' \in [Ends -> SUBSET (Ports \X Signals)], UNCHANGED stray
  PROVE  ElpsInv'
<1>1. sess[e] \in Sessions /\ GoodWire(wire)
  BY InvTypes
<1>2. HalAnswers /\ sess[e].enable => Safe(Local(e, sess[e], event, Failed(dn), TRUE).sess)
  BY <1>1, EnabledSafe, LocalSafe
<1> QED BY <1>1, <1>2, LocalEventKeeps

(* The failure of a port keeps the invariant. *)
LEMMA FailKeeps ==
  ASSUME ElpsInv, NEW e \in Ends, NEW p \in Ports, NEW g \in Signals, Fail(e, p, g)
  PROVE  ElpsInv'
<1>1. [budget EXCEPT !.fail = @ - 1] \in Budgets /\ [budget EXCEPT !.fail = @ - 1].hal = budget.hal
  BY InvTypes, ElpsAssumption DEF Fail, Budgets
<1>2. down' \in [Ends -> SUBSET (Ports \X Signals)]
  BY InvTypes DEF Fail
<1> DEFINE b == [budget EXCEPT !.fail = @ - 1]
<1>3. LocalEvent(e, sess[e], FailEvent(p), down'[e], b, wire) /\ UNCHANGED stray
  BY DEF Fail
<1>4. b \in Budgets /\ b.hal = budget.hal
  BY <1>1
<1> HIDE DEF b
<1> QED BY <1>2, <1>3, <1>4, EventKeeps

(* The recovery of a port keeps the invariant. *)
LEMMA RecoverKeeps ==
  ASSUME ElpsInv, NEW e \in Ends, NEW p \in Ports, NEW g \in Signals, Recover(e, p, g)
  PROVE  ElpsInv'
<1>1. PICK event : LocalEvent(e, sess[e], event, down'[e], budget, wire) /\ UNCHANGED stray
  BY DEF Recover
<1>2. down' \in [Ends -> SUBSET (Ports \X Signals)]
  BY InvTypes DEF Recover
<1> QED BY <1>1, <1>2, InvTypes, EventKeeps

(* An operator's command keeps the invariant. *)
LEMMA CommandKeeps ==
  ASSUME ElpsInv, NEW e \in Ends, NEW event, Command(e, event)
  PROVE  ElpsInv'
<1> DEFINE b == [budget EXCEPT !.command = @ - 1]
<1>1. b \in Budgets /\ b.hal = budget.hal
  BY InvTypes, ElpsAssumption DEF Command, Budgets
<1>2. LocalEvent(e, sess[e], event, down[e], b, wire) /\ UNCHANGED <<down, stray>>
  BY DEF Command
<1> HIDE DEF b
<1> QED BY <1>1, <1>2, InvTypes, EventKeeps

(* The expiry of the hold-off timer keeps the invariant. *)
LEMMA HoldoffKeeps == ASSUME ElpsInv, NEW e \in Ends, HoldoffExpires(e) PROVE ElpsInv'
<1> DEFINE s == [sess[e] EXCEPT !.holdoff = FALSE]
           u == sess[e]
<1>1. u \in Sessions /\ u.holdoff /\ u = sess[e]
  BY InvTypes DEF HoldoffExpires
<1>2. s \in Sessions /\ s.enable = sess[e].enable /\ (Safe(sess[e]) => Safe(s))
  <2> HIDE DEF u
  <2> DEFINE v == [u EXCEPT !.holdoff = FALSE]
  <2>1. v \in Sessions /\ v.enable = u.enable /\ (Safe(u) => Safe(v))
    BY <1>1 DEF Sessions, Safe
  <2> QED BY <1>1, <2>1
<1> HIDE DEF u
<1>3. PICK hal \in Answers(budget) :
        Conclude(e, link_down_handler(s, Failed(down[e]), hal), Charge(budget, hal), wire)
  BY DEF HoldoffExpires
<1>4. UNCHANGED <<down, stray>>
  BY DEF HoldoffExpires
<1> HIDE DEF s
<1> DEFINE o == link_down_handler(s, Failed(down[e]), hal)
           c == Charge(budget, hal)
<1>5. hal \in BOOLEAN /\ c \in Budgets /\ c.hal <= budget.hal /\ (c.hal = budget.hal => hal = TRUE)
  BY InvTypes, ChargeType
<1>6. Outcome(o) /\ o.sess.enable = sess[e].enable
  BY <1>2, <1>5, LinkDownType
<1>7. hal = TRUE /\ Safe(sess[e]) => Safe(o.sess)
  <2> SUFFICES ASSUME hal = TRUE, Safe(sess[e]) PROVE Safe(o.sess)
    OBVIOUS
  <2>1. Safe(link_down_handler(s, Failed(down[e]), TRUE).sess)
    BY <1>2, LinkDownSafe
  <2> QED BY <2>1
<1>8. Conclude(e, o, c, wire)
  BY <1>3
<1> HIDE DEF o, c
<1>9. /\ GoodWire(wire') /\ budget' \in Budgets /\ budget'.hal <= c.hal
      /\ \E t \in Sessions :
            /\ sess' = [sess EXCEPT ![e] = t]
            /\ budget'.hal = c.hal => t.enable = o.sess.enable /\ (Safe(o.sess) => Safe(t))
  BY <1>5, <1>6, <1>8, InvTypes, ConcludeStep
<1>10. PICK t \in Sessions :
            /\ sess' = [sess EXCEPT ![e] = t]
            /\ budget'.hal = c.hal => t.enable = o.sess.enable /\ (Safe(o.sess) => Safe(t))
  BY <1>9
<1>11. budget'.hal \in Nat /\ c.hal \in Nat /\ budget.hal \in Nat
  BY <1>5, <1>9, InvTypes, ElpsAssumption DEF Budgets
<1>12. budget'.hal <= budget.hal /\ (budget'.hal = budget.hal => hal = TRUE /\ budget'.hal = c.hal)
  BY <1>5, <1>9, <1>11
<1>13. HalAnswers => sess[e].enable
  BY <1>1, EnabledSafe DEF Quiet
<1>14. HalAnswers' /\ HalAnswers => t.enable /\ Safe(t)
  <2> SUFFICES ASSUME HalAnswers', HalAnswers PROVE t.enable /\ Safe(t)
    OBVIOUS
  <2>1. hal = TRUE /\ budget'.hal = c.hal
    BY <1>12 DEF HalAnswers
  <2>2. sess[e].enable /\ Safe(sess[e])
    BY <1>13, EnabledSafe
  <2> QED BY <1>6, <1>7, <1>10, <2>1, <2>2
<1> QED BY <1>4, <1>9, <1>10, <1>12, <1>14, InvTypes, OneSession

(* The expiry of the wait-to-restore timer keeps the invariant. *)
LEMMA WtrKeeps == ASSUME ElpsInv, NEW e \in Ends, WtrExpires(e) PROVE ElpsInv'
<1> DEFINE u == sess[e]
           s == [u EXCEPT !.wtr = FALSE]
<1>1. u \in Sessions /\ u.wtr /\ u = sess[e]
  BY InvTypes DEF WtrExpires
<1>2. LocalEvent(e, s, "WTR_EXPIRES", down[e], budget, wire) /\ UNCHANGED <<down, stray>>
  BY DEF WtrExpires
<1> HIDE DEF u
<1>3. s \in Sessions /\ s.enable = u.enable
  BY <1>1 DEF Sessions
<1>4. HalAnswers /\ s.enable => Safe(Local(e, s, "WTR_EXPIRES", Failed(down[e]), TRUE).sess)
  BY <1>1, <1>3, EnabledSafe, WtrSafe
<1>5. HalAnswers => s.enable
  BY <1>1, <1>3, EnabledSafe DEF Quiet
<1> HIDE DEF s
<1> QED BY <1>2, <1>3, <1>4, <1>5, InvTypes, LocalEventKeeps

(* A step that only moves messages keeps the invariant. *)
LEMMA WireKeeps ==
  ASSUME ElpsInv, GoodWire(wire'), UNCHANGED <<sess, down, stray, budget>>
  PROVE  ElpsInv'
<1>1. ElpsTypeOK'
  BY DEF ElpsInv, ElpsTypeOK, GoodWire, Wires
<1>2. SessionInv'
  BY DEF ElpsInv, SessionInv, HalAnswers
<1> QED BY <1>1, <1>2 DEF ElpsInv

(* aps_recv keeps the invariant. *)
LEMMA ReceiveKeeps ==
  ASSUME ElpsInv, NEW e \in Ends, NEW p \in Ports, Receive(e, p)
  PROVE  ElpsInv'
<1> DEFINE w == [wire EXCEPT ![e][p] = Tail(@)]
           pdu == Head(wire[e][p])
           out == [hal \in BOOLEAN |-> Remote(e, sess[e], pdu, Failed(down[e]), hal)]
<1>1. elps_fsm(e, sess[e], out, budget, w) /\ UNCHANGED <<down, stray>>
  BY DEF Receive
<1>2. GoodWire(w) /\ pdu \in PDUs
  BY InvTypes, TailType DEF Receive
<1>3. sess[e] \in Sessions
  BY InvTypes
<1> HIDE DEF w, pdu
<1>4. \A hal \in BOOLEAN : Outcome(out[hal]) /\ out[hal].sess.enable = sess[e].enable
  BY <1>2, <1>3, RemoteType
<1>5. out[TRUE] = Remote(e, sess[e], pdu, Failed(down[e]), TRUE)
  OBVIOUS
<1>6. HalAnswers /\ sess[e].enable => Safe(out[TRUE].sess)
  BY <1>2, <1>3, <1>5, EnabledSafe, RemoteSafe
<1> HIDE DEF out
<1> QED BY <1>1, <1>2, <1>3, <1>4, <1>6, InvTypes, FsmKeeps

-----------------------------------------------------------------------------
(* The sessions start off, without timers. *)
LEMMA InitInv == Init => ElpsInv
<1> SUFFICES ASSUME Init PROVE ElpsInv
  OBVIOUS
<1>1. Fresh \in Sessions /\ Fresh.enable = FALSE /\ Quiet(Fresh)
  BY DEF Fresh, Sessions, Quiet, Statuses, Ports
<1> DEFINE f == Fresh
<1>0. f \in Sessions /\ f.enable = FALSE /\ Quiet(f) /\ sess = [e \in Ends |-> f]
  BY <1>1 DEF Init
<1> HIDE DEF f
<1>2. ElpsTypeOK
  <2>1. sess \in [Ends -> Sessions] /\ down \in [Ends -> SUBSET (Ports \X Signals)] /\ stray \in BOOLEAN
    BY <1>0 DEF Init
  <2>2. wire \in [Ends -> [Ports -> Seq(PDUs)]]
    BY DEF Init
  <2>3. \A e \in Ends, p \in Ports : Len(wire[e][p]) <= MaxWire
    BY ElpsAssumption DEF Init
  <2>4. budget \in [fail : 0 .. MaxFail, command : 0 .. MaxCommand,
                    cycle : 0 .. MaxCycle, hal : 0 .. MaxHal]
    BY ElpsAssumption DEF Init
  <2> QED BY <2>1, <2>2, <2>3, <2>4 DEF ElpsTypeOK
<1>3. SessionInv
  BY <1>0 DEF Init, SessionInv
<1> QED BY <1>2, <1>3 DEF ElpsInv

(* Every step keeps the invariant. *)
LEMMA NextInv == ElpsInv /\ [Next]_vars => ElpsInv'
<1> SUFFICES ASSUME ElpsInv, [Next]_vars PROVE ElpsInv'
  OBVIOUS
<1>1. ASSUME NEW e \in Ends, Enable(e) \/ Disable(e) \/ Delete(e) PROVE ElpsInv'
  BY <1>1, EnableKeeps, DisableKeeps, DeleteKeeps
<1>2. ASSUME NEW e \in Ends, NEW p \in Ports, NEW g \in Signals, Fail(e, p, g) \/ Recover(e, p, g)
      PROVE  ElpsInv'
  BY <1>2, FailKeeps, RecoverKeeps
<1>3. ASSUME NEW e \in Ends, NEW event, Command(e, event) PROVE ElpsInv'
  BY <1>3, CommandKeeps
<1>4. ASSUME NEW e \in Ends, HoldoffExpires(e) \/ WtrExpires(e) PROVE ElpsInv'
  BY <1>4, HoldoffKeeps, WtrKeeps
<1>5. ASSUME NEW e \in Ends, Keepalive(e) PROVE ElpsInv'
  <2>1. GoodWire(wire') /\ UNCHANGED <<sess, down, stray, budget>>
    BY <1>5, InvTypes, SendType DEF Keepalive
  <2> QED BY <2>1, WireKeeps
<1>6. ASSUME NEW e \in Ends, NEW p \in Ports, Receive(e, p) PROVE ElpsInv'
  BY <1>6, ReceiveKeeps
<1>7. ASSUME NEW e \in Ends, NEW p \in Ports, Lose(e, p) PROVE ElpsInv'
  <2>1. GoodWire(wire') /\ UNCHANGED <<sess, down, stray, budget>>
    BY <1>7, InvTypes, TailType DEF Lose
  <2> QED BY <2>1, WireKeeps
<1>8. CASE UNCHANGED vars
  <2>1. UNCHANGED <<sess, down, wire, stray, budget>>
    BY <1>8 DEF vars
  <2>2. ElpsTypeOK' /\ SessionInv'
    BY <2>1 DEF ElpsInv, ElpsTypeOK, SessionInv, HalAnswers
  <2> QED BY <2>2 DEF ElpsInv
<1> QED BY <1>1, <1>2, <1>3, <1>4, <1>5, <1>6, <1>7, <1>8 DEF Next

(* The invariant is as strong as the properties. *)
LEMMA InvImplies ==
  ElpsInv => ElpsTypeOK /\ WtrTimed /\ HardwareFollows /\ NoTimerOnFreedSession /\ RequestFitsPort
BY DEF ElpsInv, SessionInv, Safe, WtrTimed, HardwareFollows, NoTimerOnFreedSession, RequestFitsPort

(* The sessions, messages and bounds are well formed in every state. *)
THEOREM ElpsTypeCorrect == Spec => []ElpsTypeOK
BY InitInv, NextInv, InvImplies, PTL DEF Spec

(* A session that waits to restore has the timer that ends the wait. *)
THEOREM WaitIsTimed == Spec => []WtrTimed
BY InitInv, NextInv, InvImplies, PTL DEF Spec

(* The hardware forwards the port that the session selects. *)
THEOREM HardwareFollowsSession == Spec => []HardwareFollows
BY InitInv, NextInv, InvImplies, PTL DEF Spec

(* elps_clear_timer leaves no timer behind that points to a freed session. *)
THEOREM NoTimerIsLeft == Spec => []NoTimerOnFreedSession
BY InitInv, NextInv, InvImplies, PTL DEF Spec

(* The request that an end announces fits the port that it selects. *)
THEOREM RequestIsFollowed == Spec => []RequestFitsPort
BY InitInv, NextInv, InvImplies, PTL DEF Spec
=============================================================================
