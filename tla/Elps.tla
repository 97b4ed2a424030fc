------------------------------- MODULE Elps -------------------------------
(***************************************************************************)
(* Linear protection (src/l2/aps): the two ends of a protected link, each  *)
(* with a session that selects the master or the backup port.  A session   *)
(* reacts to the failure of a port, to operator commands, to its hold-off  *)
(* and wait-to-restore timers and to the APS messages of the far end.      *)
(*                                                                         *)
(* The handlers of elps_fsm.c are operators that take a session and return *)
(* [sess |-> the session after it, ret |-> the result]: every handler that *)
(* returns "success" has sent its burst of APS messages, no other has.     *)
(***************************************************************************)
EXTENDS Integers, Sequences

CONSTANTS
  Ends,        \* the two ends
  Signals,     \* what reports a failed port: "link", and "cc" with a CFM session
  failback,    \* info.failback of an end: TRUE for FAILBACK_ENABLE
  holdoff,     \* info.holdoff of an end is not zero
  MaxWire,     \* messages on their way to one port
  MaxFail,     \* bound on failures of a port
  MaxCommand,  \* bound on operator commands
  MaxCycle,    \* bound on enabling a session
  MaxHal       \* bound on messages to the hardware layer that fail

ASSUME ElpsAssumption ==
  /\ \E a, b \in Ends : a # b /\ Ends = {a, b}
  /\ Signals \subseteq {"link", "cc"}
  /\ failback \in [Ends -> BOOLEAN] /\ holdoff \in [Ends -> BOOLEAN]
  /\ MaxWire \in Nat /\ MaxFail \in Nat /\ MaxCommand \in Nat
  /\ MaxCycle \in Nat /\ MaxHal \in Nat

VARIABLES
  sess,      \* struct elps_sess of each end
  down,      \* per end, the <<port, signal>> that report a failure
  wire,      \* per end and port, the APS messages under way to it
  stray,     \* ghost: a session was freed while one of its timers ran
  budget     \* what is left of the bounds

vars == <<sess, down, wire, stray, budget>>

Ports == {"master", "backup"}
Peer(e) == CHOOSE f \in Ends : f # e

(* enum ELPS_STATUS: a larger number is a request of higher priority. *)
NR  == 0
DNR == 1
WTR == 5
MS  == 8
SFW == 11
FS  == 13
SFP == 14
LO  == 15
Statuses == {NR, DNR, WTR, MS, SFW, FS, SFP, LO}

(* enum ELPS_EVENT: a request of the far end, or one of these. *)
LocalEvents == {"LOP", "FS", "SF_W", "W_RECOVERS", "SF_P", "P_RECOVERS", "MS", "CLEAR",
                "WTR_EXPIRES"}

PDUs == [request_state : Statuses, signal : Ports]

(* The part of struct elps_sess that decides: current_status, active_port,
   whether the session is enabled and which timers run; hw is the port that
   the hardware layer was last told to forward. *)
Sessions == [status : Statuses, active : Ports, hw : Ports, enable : BOOLEAN,
             holdoff : BOOLEAN, wtr : BOOLEAN, keepalive : BOOLEAN]

Fresh == [status |-> NR, active |-> "master", hw |-> "master", enable |-> FALSE,
          holdoff |-> FALSE, wtr |-> FALSE, keepalive |-> FALSE]

(* The ports that have failed: down_flag of the interface, or the state of the
   CFM session bound to the port.  A handler is given the set of its end. *)
Failed(dn) == {p \in Ports : \E g \in Signals : <<p, g>> \in dn}

-----------------------------------------------------------------------------
(* Results of a handler; hal says whether the hardware layer answers. *)
Done(s, r) == [sess |-> s, ret |-> r]

(* The OAM_SUBTYPE_ELPS_STG update: the port changes when it is acknowledged. *)
Forward(s, p, hal) ==
  IF hal THEN Done([s EXCEPT !.hw = p, !.active = p], "success")
         ELSE Done(s, "ipc")

(* A handler that only has to tell the hardware when the port changes. *)
Select(s, p, hal) == IF s.active = p THEN Done(s, "success") ELSE Forward(s, p, hal)

Status(s, st) == [s EXCEPT !.status = st]

StopWtr(s) == IF s.status = WTR THEN [s EXCEPT !.wtr = FALSE] ELSE s

handle_lop(s, hal) == Select(Status(s, LO), "master", hal)
handle_fs(s, hal)  == Select(Status(s, FS), "backup", hal)
handle_ms(s, hal)  == Select(Status(s, MS), "backup", hal)

(* elps_link_down_handler: the ports are looked at again; a failed backup port
   goes before a failed master port, and a forced switch before the latter. *)
link_down_handler(s, d, hal) ==
  IF s.status = LO THEN Done(s, "existed")
  ELSE IF "backup" \in d THEN Select(Status(StopWtr(s), SFP), "master", hal)
  ELSE IF s.status > SFW \/ "master" \notin d THEN Done(s, "existed")
  ELSE Select(Status(StopWtr(s), SFW), "backup", hal)

handle_sf(e, s, d, hal) ==
  IF ~holdoff[e] THEN link_down_handler(s, d, hal)
  ELSE IF s.holdoff THEN Done(s, "existed")
  ELSE Done([s EXCEPT !.holdoff = TRUE], "fail")

handle_fsclear(e, s, d, hal) ==
  IF ~s.holdoff /\ "master" \in d
  THEN Done([Status(s, SFW) EXCEPT !.active = "backup"], "success")
  ELSE IF failback[e] THEN Forward(Status(s, NR), "master", hal)
  ELSE Done([Status(s, DNR) EXCEPT !.active = "backup"], "success")

handle_msclear(e, s, hal) ==
  IF failback[e] THEN Forward(Status(s, NR), "master", hal)
  ELSE Done(Status(s, DNR), "success")

(* Mutant: the port of a failed master is given up without a word to the
   hardware layer. *)
handle_lopclear_Silent(s, d, hal) ==
  IF ~s.holdoff /\ "backup" \in d
  THEN Done([Status(s, SFP) EXCEPT !.active = "master"], "success")
  ELSE IF ~s.holdoff /\ "master" \in d
  THEN Done([Status(s, SFW) EXCEPT !.active = "backup"], "success")
  ELSE Done([Status(s, NR) EXCEPT !.active = "master"], "success")

handle_lopclear(s, d, hal) ==
  IF ~s.holdoff /\ "backup" \in d
  THEN Done([Status(s, SFP) EXCEPT !.active = "master"], "success")
  ELSE IF ~s.holdoff /\ "master" \in d THEN Forward(Status(s, SFW), "backup", hal)
  ELSE Done([Status(s, NR) EXCEPT !.active = "master"], "success")

(* Mutant: the wait-to-restore timer is not started. *)
handle_rsf_NoTimer(e, s, event, d, hal) ==
  IF event = "W_RECOVERS"
  THEN Done(IF failback[e] THEN Status(s, WTR) ELSE Status(s, DNR), "success")
  ELSE IF "master" \in d THEN Forward(Status(s, SFW), "backup", hal)
  ELSE Done(Status(s, NR), "success")

(* elps_local_handle_rsf: a port recovers from the failure that decided. *)
handle_rsf(e, s, event, d, hal) ==
  IF event = "W_RECOVERS"
  THEN Done(IF failback[e] THEN [Status(s, WTR) EXCEPT !.wtr = TRUE]
                           ELSE Status(s, DNR), "success")
  ELSE IF "master" \in d THEN Forward(Status(s, SFW), "backup", hal)
  ELSE Done(Status(s, NR), "success")

handle_wtr_timeout(s, hal) ==
  IF hal THEN Done([Status(s, NR) EXCEPT !.hw = "master", !.active = "master"], "success")
         ELSE Done(s, "ipc")

(* elps_aps_change_to_nrw and elps_aps_change_to_nrp: the far end has the
   stronger request. *)
change_to(s, p, hal) ==
  IF s.active # p
  THEN LET o == Forward(s, p, hal)
       IN IF o.ret = "success" THEN Done(Status(o.sess, NR), "success") ELSE o
  ELSE IF s.status = NR THEN Done(s, "existed")
  ELSE Done(Status(s, NR), "success")

(* Mutant: the far end's "no request" is taken without a look at the ports. *)
handle_nr_Blind(e, s, signal, d, hal) ==
  IF s.active = "master" THEN Done(Status(s, NR), "existed")
  ELSE Forward(Status(s, NR), "master", hal)

(* Mutant: the far end's return to the master port is not followed. *)
handle_nr_Stay(e, s, signal, d, hal) ==
  IF ~s.holdoff /\ "backup" \in d /\ s.active = "master" THEN Done(Status(s, SFP), "success")
  ELSE IF ~s.holdoff /\ "master" \in d THEN Select(Status(s, SFW), "backup", hal)
  ELSE Done(Status(s, NR), "existed")

(* elps_aps_handle_nr: nobody requests anything, so local failures that gave
   way to the far end's request are looked at again. *)
handle_nr(e, s, signal, d, hal) ==
  LET lookP == ~s.holdoff /\ "backup" \in d /\ s.active = "master"
      lookW == ~s.holdoff /\ "master" \in d
  IN IF signal = "master"
     THEN IF lookP THEN Done(Status(s, SFP), "success")
          ELSE IF lookW THEN Select(Status(s, SFW), "backup", hal)
          ELSE IF s.active = "master" THEN Done(Status(s, NR), "existed")
          ELSE Forward(Status(s, NR), "master", hal)
     ELSE IF s.active = "master" THEN Done(Status(s, NR), "existed")
          ELSE IF failback[e] THEN Forward(Status(s, NR), "master", hal)
          ELSE Done(Status(s, DNR), "success")

handle_dnr(e, s, hal) ==
  IF ~failback[e] THEN Select(Status(s, DNR), "backup", hal)
  ELSE IF s.active = "backup" /\ s.status = NR THEN Done(s, "existed")
  ELSE LET o == Select(s, "backup", hal)
       IN IF o.ret = "success" THEN Done(Status(o.sess, NR), "success") ELSE o

-----------------------------------------------------------------------------
Ignored(s) == Done(s, "fail")

(* elps_fsm for a message of the far end. *)
Remote(e, s, pdu, d, hal) ==
  LET r == pdu.request_state
  IN IF r = NR THEN IF s.status = NR THEN handle_nr(e, s, pdu.signal, d, hal) ELSE Ignored(s)
     ELSE IF s.status >= r THEN Ignored(s)
     ELSE IF r = DNR THEN handle_dnr(e, s, hal)
     ELSE change_to(s, IF r \in {SFP, LO} THEN "master" ELSE "backup", hal)

(* elps_fsm for a local event. *)
Local(e, s, event, d, hal) ==
  CASE event = "LOP" /\ s.status # LO           -> handle_lop(s, hal)
    [] event = "SF_P" /\ s.status < SFP         -> handle_sf(e, s, d, hal)
    [] event = "FS" /\ s.status < FS            -> handle_fs(s, hal)
    [] event = "SF_W" /\ s.status < SFW         -> handle_sf(e, s, d, hal)
    [] event = "W_RECOVERS" /\ s.status = SFW   -> handle_rsf(e, s, event, d, hal)
    [] event = "P_RECOVERS" /\ s.status = SFP   -> handle_rsf(e, s, event, d, hal)
    [] event = "MS" /\ s.status < MS            -> handle_ms(s, hal)
    [] event = "CLEAR" /\ s.status = FS         -> handle_fsclear(e, s, d, hal)
    [] event = "CLEAR" /\ s.status = MS         -> handle_msclear(e, s, hal)
    [] event = "CLEAR" /\ s.status = LO         -> handle_lopclear(s, d, hal)
    [] event = "WTR_EXPIRES" /\ s.status = WTR  -> handle_wtr_timeout(s, hal)
    [] OTHER                                    -> Ignored(s)

-----------------------------------------------------------------------------
(* aps_send: what the session says, on the port that it says it on; pkt_send
   may lose it, and a full wire does. *)
aps_send(e, s, w) ==
  LET p == IF s.status = SFP THEN "master" ELSE "backup"
  IN IF Len(w[Peer(e)][p]) < MaxWire
     THEN [w EXCEPT ![Peer(e)][p] = Append(@, [request_state |-> s.status, signal |-> s.active])]
     ELSE w

(* What l2_msg_send_hal_wait_ack returns, and what that leaves of the bound. *)
Answers(b) == IF b.hal > 0 THEN BOOLEAN ELSE {TRUE}
Charge(b, hal) == IF hal THEN b ELSE [b EXCEPT !.hal = @ - 1]

(* The end of elps_fsm and of elps_holdoff_expiry.  A handler that returned
   success has called aps_send_burst: messages, and the keepalive timer anew.
   The OAM_SUBTYPE_ELPS_SESSION update follows; when it fails the session
   disables itself. *)
Conclude(e, o, b, w) ==
  IF o.ret # "success"
  THEN /\ sess' = [sess EXCEPT ![e] = o.sess]
       /\ wire' = w
       /\ budget' = b
  ELSE \E hal \in Answers(b) :
         /\ sess' = [sess EXCEPT ![e] = [o.sess EXCEPT !.keepalive = TRUE,
                                                     !.enable = o.sess.enable /\ hal]]
         /\ wire' = aps_send(e, o.sess, w)
         /\ budget' = Charge(b, hal)

(* elps_fsm(psess, ...) on session s; outcome[hal] is what the handler for the
   event does when its message to the hardware layer is answered or not. *)
elps_fsm(e, s, outcome, b, w) ==
  IF ~s.enable THEN Conclude(e, Ignored(s), b, w)
  ELSE \E hal \in Answers(b) :
         /\ outcome[hal].ret = "ipc" \/ hal
         /\ Conclude(e, outcome[hal], Charge(b, hal), w)

LocalEvent(e, s, event, dn, b, w) ==
  elps_fsm(e, s, [hal \in BOOLEAN |-> Local(e, s, event, Failed(dn), hal)], b, w)

-----------------------------------------------------------------------------
Init ==
  /\ sess = [e \in Ends |-> Fresh]
  /\ down = [e \in Ends |-> {}]
  /\ wire = [e \in Ends |-> [p \in Ports |-> <<>>]]
  /\ stray = FALSE
  /\ budget = [fail |-> MaxFail, command |-> MaxCommand, cycle |-> MaxCycle, hal |-> MaxHal]

(* "elps enable": elps_sess_enable tells the hardware layer, then
   elps_init_session starts from no request on the master port and looks at the
   ports; without a failure the first message goes out.  When pkt_send fails the
   keepalive timer is not started. *)
Enable(e) ==
  /\ ~sess[e].enable
  /\ budget.cycle > 0
  /\ LET s == [sess[e] EXCEPT !.enable = TRUE, !.status = NR, !.active = "master", !.hw = "master"]
         b == [budget EXCEPT !.cycle = @ - 1]
         d == Failed(down[e])
     IN \/ IF d # {}
           THEN LocalEvent(e, s, IF "backup" \in d THEN "SF_P" ELSE "SF_W", down[e], b, wire)
           ELSE \E sends \in BOOLEAN :
                  /\ sess' = [sess EXCEPT ![e] = [s EXCEPT !.keepalive = @ \/ sends]]
                  /\ wire' = IF sends THEN aps_send(e, s, wire) ELSE wire
                  /\ budget' = b
        \/ /\ b.hal > 0
           /\ budget' = Charge(b, FALSE)
           /\ UNCHANGED <<sess, wire>>
  /\ UNCHANGED <<down, stray>>

(* Mutant: the timers of a session that is switched off go on. *)
Disable_NoClear(e) ==
  /\ sess[e].enable
  /\ \E hal \in Answers(budget) :
        /\ sess' = IF hal THEN [sess EXCEPT ![e].enable = FALSE] ELSE sess
        /\ budget' = Charge(budget, hal)
  /\ UNCHANGED <<down, wire, stray>>

(* "elps disable": elps_sess_disable and elps_clear_timer. *)
Disable(e) ==
  /\ sess[e].enable
  /\ \E hal \in Answers(budget) :
        /\ sess' = IF hal THEN [sess EXCEPT ![e] = [@ EXCEPT !.enable = FALSE, !.holdoff = FALSE,
                                                    !.wtr = FALSE, !.keepalive = FALSE]]
                          ELSE sess
        /\ budget' = Charge(budget, hal)
  /\ UNCHANGED <<down, wire, stray>>

(* "no elps session" of a disabled session, and its configuration again: the
   structure is freed with the timers it has. *)
Delete(e) ==
  /\ ~sess[e].enable
  /\ sess[e] # Fresh
  /\ stray' = (stray \/ sess[e].holdoff \/ sess[e].wtr \/ sess[e].keepalive)
  /\ sess' = [sess EXCEPT ![e] = Fresh]
  /\ UNCHANGED <<down, wire, budget>>

FailEvent(p) == IF p = "master" THEN "SF_W" ELSE "SF_P"
RecoverEvent(p) == IF p = "master" THEN "W_RECOVERS" ELSE "P_RECOVERS"

(* l2if_down or a lost CFM session, then elps_state_update. *)
Fail(e, p, g) ==
  /\ <<p, g>> \notin down[e]
  /\ budget.fail > 0
  /\ down' = [down EXCEPT ![e] = @ \cup {<<p, g>>}]
  /\ LocalEvent(e, sess[e], FailEvent(p), down'[e], [budget EXCEPT !.fail = @ - 1], wire)
  /\ UNCHANGED stray

(* The port or its CFM session is back.  A link that comes up while the CFM
   session is still down counts as a failure; a CFM session comes up only over
   a link that is up. *)
Recover(e, p, g) ==
  /\ <<p, g>> \in down[e]
  /\ g = "cc" => <<p, "link">> \notin down[e]
  /\ down' = [down EXCEPT ![e] = @ \ {<<p, g>>}]
  /\ LocalEvent(e, sess[e], IF p \in Failed(down'[e]) THEN FailEvent(p) ELSE RecoverEvent(p),
                down'[e], budget, wire)
  /\ UNCHANGED stray

(* elps_sess_forceswitch, elps_sess_manualswitch, elps_sess_lock and their
   "no" forms, with the commands' own refusals. *)
Command(e, event) ==
  /\ sess[e].enable
  /\ budget.command > 0
  /\ CASE event = "LOP"   -> sess[e].status # LO
       [] event = "FS"    -> sess[e].status < FS
       [] event = "MS"    -> sess[e].status < MS
       [] event = "CLEAR" -> sess[e].status \in {FS, MS, LO}
  /\ LocalEvent(e, sess[e], event, down[e], [budget EXCEPT !.command = @ - 1], wire)
  /\ UNCHANGED <<down, stray>>

(* elps_holdoff_expiry: the ports are looked at, whether the session is enabled
   or not. *)
HoldoffExpires(e) ==
  /\ sess[e].holdoff
  /\ LET s == [sess[e] EXCEPT !.holdoff = FALSE]
     IN \E hal \in Answers(budget) :
          LET o == link_down_handler(s, Failed(down[e]), hal)
          IN /\ o.ret = "ipc" \/ hal
             /\ Conclude(e, o, Charge(budget, hal), wire)
  /\ UNCHANGED <<down, stray>>

WtrExpires(e) ==
  /\ sess[e].wtr
  /\ LocalEvent(e, [sess[e] EXCEPT !.wtr = FALSE], "WTR_EXPIRES", down[e], budget, wire)
  /\ UNCHANGED <<down, stray>>

(* elps_msg_expiry. *)
Keepalive(e) ==
  /\ sess[e].keepalive
  /\ sess[e].enable
  /\ wire' = aps_send(e, sess[e], wire)
  /\ UNCHANGED <<sess, down, stray, budget>>

(* aps_recv: a message that comes in by a port that works, for a session that
   is enabled, is given to elps_fsm. *)
Receive(e, p) ==
  /\ wire[e][p] # <<>>
  /\ p \notin Failed(down[e])
  /\ LET w == [wire EXCEPT ![e][p] = Tail(@)]
     IN elps_fsm(e, sess[e], [hal \in BOOLEAN |->
                   Remote(e, sess[e], Head(wire[e][p]), Failed(down[e]), hal)], budget, w)
  /\ UNCHANGED <<down, stray>>

Lose(e, p) ==
  /\ wire[e][p] # <<>>
  /\ wire' = [wire EXCEPT ![e][p] = Tail(@)]
  /\ UNCHANGED <<sess, down, stray, budget>>

Next ==
  \E e \in Ends :
    \/ Enable(e) \/ Disable(e) \/ Delete(e)
    \/ \E p \in Ports, g \in Signals : Fail(e, p, g) \/ Recover(e, p, g)
    \/ \E event \in {"LOP", "FS", "MS", "CLEAR"} : Command(e, event)
    \/ HoldoffExpires(e) \/ WtrExpires(e) \/ Keepalive(e)
    \/ \E p \in Ports : Receive(e, p) \/ Lose(e, p)

(* The timers are timers; messages are repeated, so that not all are lost. *)
Fairness ==
  \A e \in Ends :
    /\ WF_vars(HoldoffExpires(e)) /\ WF_vars(WtrExpires(e)) /\ WF_vars(Keepalive(e))
    /\ \A p \in Ports : SF_vars(Receive(e, p))

Spec == Init /\ [][Next]_vars
FairSpec == Spec /\ Fairness

-----------------------------------------------------------------------------
(* Statuses, ports and messages are ones that exist, and no port has more than
   MaxWire messages under way. *)
ElpsTypeOK ==
  /\ sess \in [Ends -> Sessions]
  /\ down \in [Ends -> SUBSET (Ports \X Signals)]
  /\ wire \in [Ends -> [Ports -> Seq(PDUs)]]
  /\ \A e \in Ends, p \in Ports : Len(wire[e][p]) <= MaxWire
  /\ stray \in BOOLEAN
  /\ budget \in [fail : 0 .. MaxFail, command : 0 .. MaxCommand,
                 cycle : 0 .. MaxCycle, hal : 0 .. MaxHal]

(* Every message to the hardware layer has been answered so far. *)
HalAnswers == budget.hal = MaxHal

(* A session that waits to restore has the timer that ends the wait: no
   sequence of failures, recoveries, commands and remote requests (some of
   which leave an old timer running, some of which stop it) loses it. *)
WtrTimed ==
  HalAnswers => \A e \in Ends : (sess[e].enable /\ sess[e].status = WTR) => sess[e].wtr

(* The hardware forwards the port that the session says is active, although
   several handlers change active_port without telling the hardware. *)
HardwareFollows ==
  HalAnswers => \A e \in Ends : sess[e].enable => sess[e].hw = sess[e].active

(* No session is freed with a timer that still points to it. *)
NoTimerOnFreedSession == HalAnswers => ~stray

(* What an end asks for fits the port it selects. *)
RequestFitsPort ==
  HalAnswers =>
    \A e \in Ends : sess[e].enable =>
      /\ sess[e].status \in {LO, SFP} => sess[e].active = "master"
      /\ sess[e].status \in {DNR, WTR, MS, SFW, FS} => sess[e].active = "backup"

(* Both ends are up, repeat what they say, and can hear each other. *)
Connected ==
  /\ HalAnswers
  /\ \A e \in Ends : sess[e].enable /\ sess[e].keepalive
  /\ \/ \A e \in Ends : "backup" \notin Failed(down[e])
     \/ \A e \in Ends : "master" \notin Failed(down[e])

(* Two ends that stay connected come to select the same port for good. *)
Agreement ==
  <>[]Connected => <>[](\A e, f \in Ends : sess[e].active = sess[f].active)

(* Both ends hear each other on the backup port, nobody has locked it out, and
   the master port of one has failed. *)
NeedsBackup ==
  /\ HalAnswers
  /\ \A e \in Ends : sess[e].enable /\ "backup" \notin Failed(down[e]) /\ sess[e].status # LO
  /\ \E e \in Ends : "master" \in Failed(down[e])

(* A failed master port is left for good by both ends, even when the failure
   was met while the far end's stronger request was followed. *)
Protected == <>[]NeedsBackup => <>[](\A e \in Ends : sess[e].active = "backup")
=============================================================================
