------------------------------- MODULE Erps -------------------------------
(***************************************************************************)
(* Ring protection (src/l2/raps): the sessions of the nodes of one ring.   *)
(* A node blocks one of its two ring ports, or none; the owner of the ring *)
(* protection link (RPL) keeps the ring open there while nothing fails.    *)
(*                                                                         *)
(* Node n's east port and node n+1's west port are the ends of one link.   *)
(* The handlers of erps_fsm_action.c are operators that take the session   *)
(* of a node and return [sess, sent, ret]: the session after it, the R-APS *)
(* requests sent, and the result.  While a handler runs, sess.fuse counts    *)
(* down the messages to the hardware layer to the one that is not          *)
(* answered; it is 0 when all are.                                         *)
(***************************************************************************)
EXTENDS Integers, FiniteSets

CONSTANTS
  N,           \* number of nodes
  role,        \* "owner", "neighbour" or "nonowner" of each node
  rpl,         \* the node's port to the RPL, None for a nonowner
  failback,    \* the ring reverts: FAILBACK_ENABLE
  holdoff,     \* info.holdoff is not zero
  Signals,     \* what reports a failed port: "link", and "cc" with CFM sessions
  patient,     \* the wait timers outlast the repetition of requests
  Commands,    \* the switch commands that operators use, of {"FS", "MS"}
  MaxFail,     \* bound on failures of a port
  MaxFar,      \* bound on failures, besides, of the far end of a failed link
  MaxCommand, MaxCycle, MaxHal   \* bounds on what the names in budget say

Nodes == 0 .. N - 1
Ports == {"east", "west"}
None == "none"

ASSUME ErpsAssumption ==
  /\ N \in Nat /\ N >= 2
  /\ role \in [Nodes -> {"owner", "neighbour", "nonowner"}]
  /\ rpl \in [Nodes -> Ports \cup {None}]
  /\ \A n \in Nodes : (rpl[n] = None) = (role[n] = "nonowner")
  /\ failback \in BOOLEAN /\ holdoff \in BOOLEAN /\ patient \in BOOLEAN
  /\ Signals \subseteq {"link", "cc"} /\ Commands \subseteq {"FS", "MS"}
  /\ MaxFail \in Nat /\ MaxFar \in Nat /\ MaxCommand \in Nat /\ MaxCycle \in Nat /\ MaxHal \in Nat

VARIABLES
  sess,      \* struct erps_sess of each node
  enabled,   \* gerps.sess_enable of each node
  down,      \* per node, the <<port, signal>> that report a failure
  wire,      \* the R-APS messages under way, at most one from a node to another
  heard,     \* <<m, n>>: n has got what m says, since either changed; if patient
  budget     \* what is left of the bounds

vars == <<sess, enabled, down, wire, heard, budget>>

Other(p) == IF p = "east" THEN "west" ELSE "east"

States == {"INIT", "IDLE", "PROTECTION", "MS", "FS", "PENDING", "PROTECTION_REMOTE"}
Kinds == {"NR", "NR_RB", "SF", "FS", "MS"}

Frames == [from : Nodes, to : Nodes, kind : Kinds]

(* The part of struct erps_sess that decides; hw are the ports that the
   hardware layer blocks, tx is the request of r_aps. *)
Sessions ==
  [st : States, block : Ports \cup {None}, event_block : Ports \cup {None},
   flag : SUBSET Ports, hw : SUBSET Ports, tx : Kinds, enable : BOOLEAN,
   keepalive : BOOLEAN, wtr : BOOLEAN, wtb : BOOLEAN, guard : BOOLEAN,
   holdoff : BOOLEAN, fuse : 0 .. 0]

Fresh ==
  [st |-> "INIT", block |-> None, event_block |-> None, flag |-> {}, hw |-> {}, tx |-> "NR",
   enable |-> FALSE, keepalive |-> FALSE, wtr |-> FALSE, wtb |-> FALSE, guard |-> FALSE,
   holdoff |-> FALSE, fuse |-> 0]

Failed(dn) == {p \in Ports : \E g \in Signals : <<p, g>> \in dn}

-----------------------------------------------------------------------------
(* Results, and the messages to the hardware layer. *)
Out(s, sent, r) == [sess |-> s, sent |-> sent, ret |-> r]
Ok(s) == Out(s, {}, "success")

NotAnswered(s) == s.fuse = 1
Burn(s) == [s EXCEPT !.fuse = IF @ > 0 THEN @ - 1 ELSE 0]
Block(s, p) == IF NotAnswered(s) THEN Burn(s) ELSE [Burn(s) EXCEPT !.hw = @ \cup {p}]
Foward(s, p) == IF NotAnswered(s) THEN Burn(s) ELSE [Burn(s) EXCEPT !.hw = @ \ {p}]

StopWaits(s) == [s EXCEPT !.wtr = FALSE, !.wtb = FALSE]
OwnerStopsWaits(n, s) == IF role[n] = "owner" THEN StopWaits(s) ELSE s
Owner(n) == role[n] = "owner" /\ failback

(* The event that a request of another node is. *)
Event(kind) ==
  CASE kind = "NR" -> "RAPS_NR" [] kind = "NR_RB" -> "RAPS_NR_RB" [] kind = "SF" -> "RAPS_SF"
    [] kind = "FS" -> "RAPS_FS" [] kind = "MS" -> "RAPS_MS"

(* raps_send_burst: the request is sent and repeated from now on. *)
Say(s, kind) == [s EXCEPT !.tx = kind, !.keepalive = TRUE]

(* Mutant: the port is forgotten and never opened. *)
Release_Forgets(s) == Ok([s EXCEPT !.block = None])

(* The blocked port, if any, is opened; block_interface is cleared first. *)
Release(s) ==
  IF s.block = None THEN Ok(s)
  ELSE LET t == [s EXCEPT !.block = None]
       IN Out(Foward(t, s.block), {}, IF NotAnswered(s) THEN "ipc" ELSE "success")

(* Mutant: the port that the node blocks stays blocked. *)
Follow_Keeps(n, s, st) ==
  Ok([s EXCEPT !.keepalive = FALSE, !.st = st])

(* erps_idlems_handle_raps_sf, erps_idle_handle_raps_ms, erps_x_handle_raps_fs and
   the erps_pending_handle_raps_ handlers: a request of another node is followed. *)
Follow(n, s, st) ==
  LET o == Release(s)
      t == [o.sess EXCEPT !.keepalive = FALSE, !.st = st]
  IN IF o.ret # "success" THEN o
     ELSE Ok(IF s.st = "PENDING" THEN OwnerStopsWaits(n, t) ELSE t)

(* The second half of a switch: tell the ring, open the other port. *)
SayAndOpen(s, kind, st) ==
  LET t == Foward(Say(s, kind), Other(s.event_block))
  IN IF NotAnswered(s) THEN Out(t, {kind}, "ipc")
     ELSE Out([t EXCEPT !.st = st], {kind}, "success")

(* The port of the request is blocked first.  Only erps_pending_handle_admin_fs
   notes the port before the hardware layer has answered. *)
BlockSayAndOpen(s, kind, st, early) ==
  LET p == s.event_block
      t == Block(s, p)
  IN IF NotAnswered(s)
     THEN Out(IF early THEN [t EXCEPT !.block = p] ELSE t, {}, "ipc")
     ELSE SayAndOpen([t EXCEPT !.block = p], kind, st)

Switch(s, kind, st, early) ==
  IF s.event_block = s.block THEN SayAndOpen(s, kind, st)
  ELSE BlockSayAndOpen(s, kind, st, early)

(* A switch in the pending state ends the owner's wait once it is done. *)
Settle(n, s, o) ==
  IF s.st = "PENDING" /\ o.ret = "success"
  THEN Out(OwnerStopsWaits(n, o.sess), o.sent, o.ret) ELSE o

local_sf(n, s) == Settle(n, s, Switch(s, "SF", "PROTECTION", FALSE))

admin_fs(n, s) ==
  IF s.st = "FS" THEN BlockSayAndOpen(s, "FS", "FS", FALSE)
  ELSE Settle(n, s, Switch(s, "FS", "FS", s.st = "PENDING"))

idle_admin_ms(n, s) ==
  IF s.event_block = s.block
  THEN Out([Say(s, "MS") EXCEPT !.st = "MS"], {"MS"}, "success")
  ELSE BlockSayAndOpen(s, "MS", "MS", FALSE)

(* erps_pending_handle_admin_ms.  The test for the west port compares the two
   interfaces of the session, which differ: nothing is sent to the hardware. *)
pending_admin_ms(n, s0) ==
  LET s == OwnerStopsWaits(n, s0)
  IN IF s.event_block = "west" /\ s.block # "west"
     THEN Out([Say(s, "MS") EXCEPT !.block = "west", !.st = "MS"], {"MS"}, "success")
     ELSE Switch(s, "MS", "MS", FALSE)

(* Mutant: the owner does not start its wait timer. *)
GiveUp_NoWait(n, s, wait) ==
  Out([Say(s, "NR") EXCEPT !.guard = TRUE, !.st = "PENDING"], {"NR"}, "success")

(* The node gives up its request: R-APS(NR), the port stays blocked. *)
GiveUp(n, s, wait) ==
  LET t == [Say(s, "NR") EXCEPT !.guard = TRUE, !.st = "PENDING"]
  IN Out(IF ~Owner(n) THEN t
         ELSE IF wait = "wtr" THEN [t EXCEPT !.wtr = TRUE] ELSE [t EXCEPT !.wtb = TRUE],
         {"NR"}, "success")

protection_clear_sf(n, s) == GiveUp(n, s, "wtr")

ms_raps_ms(n, s) == IF s.block # None THEN GiveUp(n, s, "wtb") ELSE Out(s, {}, "existed")

fsms_admin_clear(n, s) ==
  IF s.block # None THEN GiveUp(n, s, "wtb") ELSE Ok([s EXCEPT !.st = "PENDING"])

(* Mutant: the owner says that the RPL is blocked and leaves it open. *)
Revert_Open(n, s0) ==
  LET s == StopWaits(s0)
      t == Foward(s, Other(rpl[n]))
  IN IF role[n] # "owner" THEN Ok([s0 EXCEPT !.st = "IDLE"])
     ELSE Out([Say(t, "NR_RB") EXCEPT !.block = rpl[n], !.st = "IDLE"], {"NR_RB"}, "success")

(* erps_pending_handle_wtre, _wtbe and _admin_clear: the owner closes the RPL
   and says so; whether the hardware layer answered is only logged. *)
Revert(n, s0) ==
  LET s == StopWaits(s0)
      t == Foward(IF s.block = rpl[n] THEN s ELSE Block(s, rpl[n]), Other(rpl[n]))
  IN IF role[n] # "owner" THEN Ok([s0 EXCEPT !.st = "IDLE"])
     ELSE Out([Say(t, "NR_RB") EXCEPT !.block = rpl[n], !.st = "IDLE"], {"NR_RB"}, "success")

idle_nrrb(n, s) ==
  IF s.block = rpl[n] THEN Out(s, {}, "existed")
  ELSE LET told == role[n] # "nonowner"
           t == IF told THEN Foward([s EXCEPT !.block = rpl[n]], Other(rpl[n])) ELSE s
       IN IF told /\ NotAnswered(s) THEN Out(t, {}, "ipc")
          ELSE Ok([t EXCEPT !.keepalive = @ /\ role[n] = "owner"])

(* erps_pending_handle_nrrb: the RPL is closed, so that a nonowner may open. *)
pending_nrrb(n, s) ==
  LET idle(t) == [t EXCEPT !.st = "IDLE", !.keepalive = FALSE]
      b == Block(s, rpl[n])
      f == Foward([b EXCEPT !.block = rpl[n]], Other(rpl[n]))
  IN CASE role[n] = "owner"    -> Ok([StopWaits(s) EXCEPT !.st = "IDLE"])
       [] role[n] = "nonowner" ->
            IF s.block = None THEN Ok(idle(s))
            ELSE IF NotAnswered(s) THEN Out(Burn(s), {}, "ipc")
            ELSE Ok(idle([Foward(s, s.block) EXCEPT !.block = None]))
       [] role[n] = "neighbour" ->
            IF NotAnswered(s) THEN Out(b, {}, "ipc")
            ELSE IF NotAnswered(b) THEN Out(f, {}, "ipc")
            ELSE Ok(idle(f))

(* erps_idle_handle_raps_nr and erps_pending_handle_nr: of the nodes that have
   nothing to request the one with the highest node id keeps its port blocked. *)
Yield(n, s, from) ==
  LET o == IF s.flag = {} THEN Release(s) ELSE Ok(s)
  IN IF from <= n THEN Out(s, {}, "existed")
     ELSE IF o.ret # "success" THEN o
     ELSE Out([o.sess EXCEPT !.keepalive = FALSE], {},
              IF s.flag = {} /\ s.block # None THEN "success" ELSE "existed")

x_raps_nr(n, s) ==
  Ok([s EXCEPT !.st = "PENDING",
               !.wtr = @ \/ (Owner(n) /\ s.st = "PROTECTION_REMOTE"),
               !.wtb = @ \/ (Owner(n) /\ s.st \in {"MS", "FS"})])

Ignored(s) == Out(s, {}, "fail")

-----------------------------------------------------------------------------
(* The switch of erps_fsm; from is the sender of an R-APS message. *)
Handle(n, s, event, from) ==
  CASE event = "ADMIN_CLEAR" /\ s.st = "PENDING"                        -> Revert(n, s)
    [] event = "ADMIN_CLEAR" /\ s.st \in {"MS", "FS"}                   -> fsms_admin_clear(n, s)
    [] event = "ADMIN_FS"                                               -> admin_fs(n, s)
    [] event = "RAPS_FS" /\ s.st # "FS"                                 -> Follow(n, s, "FS")
    [] event = "LOCAL_SF" /\ s.st # "FS"                                -> local_sf(n, s)
    [] event = "LOCAL_CLEAR_SF" /\ s.st = "PROTECTION"                  -> protection_clear_sf(n, s)
    [] event = "RAPS_SF" /\ s.st \in {"PENDING", "IDLE", "MS"}          -> Follow(n, s, "PROTECTION_REMOTE")
    [] event = "RAPS_MS" /\ s.st \in {"IDLE", "PENDING"}                -> Follow(n, s, "MS")
    [] event = "RAPS_MS" /\ s.st = "MS"                                 -> ms_raps_ms(n, s)
    [] event = "ADMIN_MS" /\ s.st = "IDLE"                              -> idle_admin_ms(n, s)
    [] event = "ADMIN_MS" /\ s.st = "PENDING"                           -> pending_admin_ms(n, s)
    [] event \in {"WTR_EXP", "WTB_EXP"} /\ s.st = "PENDING"             -> Revert(n, s)
    [] event = "RAPS_NR_RB" /\ s.st = "IDLE"                            -> idle_nrrb(n, s)
    [] event = "RAPS_NR_RB" /\ s.st = "PENDING"                         -> pending_nrrb(n, s)
    [] event = "RAPS_NR" /\ s.st = "PENDING"                            -> Yield(n, s, from)
    [] event = "RAPS_NR" /\ s.st = "IDLE"                               ->
         IF role[n] = "nonowner" THEN Yield(n, s, from) ELSE Out(s, {}, "existed")
    [] event = "RAPS_NR" /\ s.st \in {"PROTECTION_REMOTE", "MS", "FS"}  -> x_raps_nr(n, s)
    [] OTHER                                                            -> Ignored(s)

(* erps_fsm: the handler and, when it succeeds, erps_sess_update, whose failure
   disables the session. *)
erps_fsm(n, s, event, from) ==
  LET o == Handle(n, s, event, from)
      t == Burn(o.sess)
  IN IF o.ret # "success" THEN o
     ELSE IF NotAnswered(o.sess) THEN Out([t EXCEPT !.enable = FALSE], o.sent, "ipc")
     ELSE Out(t, o.sent, "success")

(* Two calls of erps_fsm, one after the other. *)
Then(o, Next1(_)) ==
  LET q == Next1(o.sess) IN Out(q.sess, o.sent \cup q.sent, q.ret)

PortFailed(n, s, p) ==
  erps_fsm(n, [s EXCEPT !.flag = @ \cup {p}, !.event_block = p], "LOCAL_SF", n)

(* erps_init_handle_initialization: a port is blocked until the ring is known. *)
Initialize(n, s0) ==
  LET s == [StopWaits(s0) EXCEPT !.guard = FALSE]
      p == IF role[n] = "nonowner" THEN "west" ELSE rpl[n]
      t == [Block(s, p) EXCEPT !.block = p]
  IN IF NotAnswered(s)
     THEN Out(IF role[n] = "owner" THEN Block(s, p) ELSE t, {}, "ipc")
     ELSE Out([Say(t, "NR") EXCEPT !.wtr = Owner(n), !.st = "PENDING"], {"NR"}, "success")

(* erps_init_session: the ports are looked at, the east port first; an error
   ends it. *)
init_session(n, s0, d) ==
  LET s == [s0 EXCEPT !.flag = {}]
      e == IF "east" \in d THEN PortFailed(n, s, "east") ELSE Ok(s)
  IN IF e.ret # "success" \/ "west" \notin d THEN e
     ELSE Then(e, LAMBDA t : PortFailed(n, t, "west"))

(* erps_link_down_handler, when the hold-off time is over: the failed ports are
   looked at, the west port last.  When it is the CFM session of the west port
   that is down the port to block is set to the east one. *)
link_down_handler(n, s, dn) ==
  LET p == CASE <<"west", "link">> \in dn -> "west"
             [] OTHER -> "east"
  IN IF Failed(dn) = {} THEN Ok(s) ELSE erps_fsm(n, [s EXCEPT !.event_block = p], "LOCAL_SF", n)

(* erps_state_update with ERPS_PORT_DOWN or ERPS_CC_DOWN. *)
state_update_down(n, s, p) ==
  IF holdoff
  THEN Ok([s EXCEPT !.flag = @ \cup {p}, !.event_block = p, !.holdoff = TRUE])
  ELSE PortFailed(n, s, p)

(* Mutant: a second failed port is not turned to when the first recovers. *)
state_update_up_Alone(n, s, p, dn) ==
  LET t == [s EXCEPT !.flag = @ \ {p}]
  IN IF p \in Failed(dn) THEN PortFailed(n, s, p)
     ELSE IF s.st # "PROTECTION" \/ s.event_block # p \/ Other(p) \in t.flag THEN Ok(t)
     ELSE erps_fsm(n, [t EXCEPT !.event_block = None], "LOCAL_CLEAR_SF", n)

(* erps_state_update with ERPS_CC_DELETE, or with another event after which the
   port works.  Only the recovery of the port of the last request is acted upon,
   and only in the protection state. *)
PortRecovered(n, s, p) ==
  LET t == [s EXCEPT !.flag = @ \ {p}]
  IN IF s.st # "PROTECTION" \/ s.event_block # p THEN Ok(t)
     ELSE IF Other(p) \in t.flag
     THEN erps_fsm(n, [t EXCEPT !.event_block = Other(p)], "LOCAL_SF", n)
     ELSE erps_fsm(n, [t EXCEPT !.event_block = None], "LOCAL_CLEAR_SF", n)

(* erps_state_update with ERPS_PORT_UP or ERPS_CC_UP.  A link that comes up under
   a CFM session that is down counts as a failure. *)
state_update_up(n, s, p, dn) ==
  IF p \in Failed(dn) THEN PortFailed(n, s, p) ELSE PortRecovered(n, s, p)

-----------------------------------------------------------------------------
Init ==
  /\ sess = [n \in Nodes |-> Fresh]
  /\ enabled = [n \in Nodes |-> 0]
  /\ down = [n \in Nodes |-> {}]
  /\ wire = {}
  /\ heard = {}
  /\ budget = [fail |-> MaxFail, far |-> MaxFar, command |-> MaxCommand, cycle |-> MaxCycle, hal |-> MaxHal]

(* Enough for the messages to the hardware layer of any one action. *)
MaxMessages == 9

(* raps_send puts a message on both ring ports; it is lost to a node to which
   one is under way. *)
Transmit(n, sent, w) ==
  LET free == {d \in Nodes \ {n} : ~\E f \in w : f.from = n /\ f.to = d}
  IN IF sent = {} THEN {w}
     ELSE {w \cup {[from |-> n, to |-> d, kind |-> kind] : d \in free} : kind \in sent}

(* What the node keeps on telling the ring. *)
Says(s, kind) == s.enable /\ s.keepalive /\ s.tx = kind

(* The ring from m eastwards to n: its links work, and no port of the nodes
   between them is blocked, through which the hardware passes R-APS on. *)
East(n) == (n + 1) % N
PortWorks(n, p) == p \notin Failed(down[n])
LinkWorks(n) == PortWorks(n, "east") /\ PortWorks(East(n), "west")
EastwardFrom(m, n) == {(m + i) % N : i \in 0 .. ((n + N - m) % N) - 1}
Eastward(m, n) ==
  \A i \in EastwardFrom(m, n) : LinkWorks(i) /\ (i # m => sess[i].hw = {})
Reach(m, n) == Eastward(m, n) \/ Eastward(n, m)

(* A timer is far longer than a message takes round the ring: when it expires
   nothing is under way but what a node still says to one that it reaches.  This
   leaves out, too, that a sender changes its mind in the milliseconds before the
   timer expires, and its last message is still under way then. *)
Arriving == {f \in wire : Reach(f.from, f.to)}
Settled == \A f \in Arriving : Says(sess[f.from], f.kind)

(* The wait timers run for minutes (wait-to-block for 5.5 s), a request is repeated
   every 5 s: when one of them expires each node has heard those who reach it. *)
AllHeard ==
  \A m, n \in Nodes :
    m # n /\ Reach(m, n) /\ Says(sess[m], sess[m].tx) /\ sess[n].enable => <<m, n>> \in heard
Forget(n, s, h) ==
  {x \in h : /\ x[1] = n => s.keepalive /\ s.tx = sess[n].tx
             /\ x[2] = n => s.st = sess[n].st}

(* Node n runs Handler on its session; w, h and b are the variables wire, heard
   and budget before it.  At most one message to the hardware layer, the k-th
   that is sent, is not answered. *)
Run(n, Handler(_), w, h, b) ==
  \E k \in 0 .. (IF b.hal > 0 THEN MaxMessages ELSE 0) :
    LET o == Handler([sess[n] EXCEPT !.fuse = k])
    IN /\ o.sess.fuse = 0
       /\ sess' = [sess EXCEPT ![n] = o.sess]
       /\ wire' \in Transmit(n, o.sent, w)
       /\ heard' = Forget(n, o.sess, h)
       /\ budget' = [b EXCEPT !.hal = IF k > 0 THEN @ - 1 ELSE @]

(* erps_session_enable: erps_sess_enable tells the hardware layer; without an
   error the node takes its first state and looks at its failed ports, d. *)
session_enable(n, s, d) ==
  IF NotAnswered(s) THEN Out(Burn(s), {}, "ipc")
  ELSE Then(Initialize(n, [Burn(s) EXCEPT !.enable = TRUE]), LAMBDA t : init_session(n, t, d))

(* "erps enable": the session is counted first.  An operator is slower than a
   message. *)
Enable(n) ==
  /\ ~sess[n].enable
  /\ Settled
  /\ budget.cycle > 0
  /\ enabled' = [enabled EXCEPT ![n] = @ + 1]
  /\ Run(n, LAMBDA s : session_enable(n, s, Failed(down[n])),
         Arriving, heard, [budget EXCEPT !.cycle = @ - 1])
  /\ UNCHANGED down

(* Mutant: the session is counted out before the hardware layer has answered. *)
Disable_Counts(n) ==
  /\ sess[n].enable
  /\ budget.cycle > 0
  /\ Run(n, LAMBDA s : IF NotAnswered(s) THEN Out(Burn(s), {}, "ipc")
                       ELSE Ok([StopWaits(Burn(s)) EXCEPT !.enable = FALSE, !.st = "INIT", !.hw = {},
                                  !.guard = FALSE, !.holdoff = FALSE, !.keepalive = FALSE]),
         wire, heard, [budget EXCEPT !.cycle = @ - 1])
  /\ enabled' = [enabled EXCEPT ![n] = @ - 1]
  /\ UNCHANGED down

(* "erps disable": erps_sess_disable and erps_clear_timer.  The hardware layer
   forgets the session and opens its ports. *)
Disable(n) ==
  /\ sess[n].enable
  /\ budget.cycle > 0
  /\ Run(n, LAMBDA s : IF NotAnswered(s) THEN Out(Burn(s), {}, "ipc")
                       ELSE Ok([StopWaits(Burn(s)) EXCEPT !.enable = FALSE, !.st = "INIT", !.hw = {},
                                  !.guard = FALSE, !.holdoff = FALSE, !.keepalive = FALSE]),
         wire, heard, [budget EXCEPT !.cycle = @ - 1])
  /\ enabled' = IF sess'[n].enable THEN enabled ELSE [enabled EXCEPT ![n] = @ - 1]
  /\ UNCHANGED down

(* The bound that a failure counts towards. *)
Charged(n, p) ==
  IF LinkWorks(IF p = "east" THEN n ELSE (n + N - 1) % N) THEN {"fail"} ELSE {"fail", "far"}

(* l2if_down or a lost CFM session, of a node with an enabled session. *)
PortDown(n, p, g) ==
  /\ <<p, g>> \notin down[n]
  /\ down' = [down EXCEPT ![n] = @ \cup {<<p, g>>}]
  /\ \E k \in Charged(n, p) :
       /\ budget[k] > 0
       /\ Run(n, LAMBDA s : IF enabled[n] > 0 THEN state_update_down(n, s, p) ELSE Ok(s),
              wire, heard, [budget EXCEPT ![k] = @ - 1])
  /\ UNCHANGED enabled

(* The port is up, or its CFM session, which needs the port. *)
PortUp(n, p, g) ==
  /\ <<p, g>> \in down[n]
  /\ g = "cc" => <<p, "link">> \notin down[n]
  /\ down' = [down EXCEPT ![n] = @ \ {<<p, g>>}]
  /\ Run(n, LAMBDA s : IF enabled[n] > 0 THEN state_update_up(n, s, p, down'[n]) ELSE Ok(s),
         wire, heard, budget)
  /\ UNCHANGED enabled

(* ERPS_CC_DELETE: the CFM session of the port is deleted, up or down, which is
   taken for a recovery of the port even when its link is down. *)
CcDelete(n, p) ==
  /\ "cc" \in Signals
  /\ down' = [down EXCEPT ![n] = @ \ {<<p, "cc">>}]
  /\ Run(n, LAMBDA s : IF enabled[n] > 0 THEN PortRecovered(n, s, p) ELSE Ok(s),
         wire, heard, budget)
  /\ UNCHANGED enabled

(* "force-switch" and "manual-switch": the port is noted whatever becomes of
   the request. *)
Admin(n, c, p) ==
  /\ sess[n].enable
  /\ budget.command > 0
  /\ Run(n, LAMBDA s : erps_fsm(n, [s EXCEPT !.event_block = p],
                               IF c = "FS" THEN "ADMIN_FS" ELSE "ADMIN_MS", n),
         wire, heard, [budget EXCEPT !.command = @ - 1])
  /\ UNCHANGED <<enabled, down>>

(* erps_admin_clear: the request of the operator is dropped, then the ports that
   are noted as failed are reported again. *)
Again(n, o, p) ==
  IF p \in o.sess.flag THEN Then(o, LAMBDA t : state_update_down(n, t, p)) ELSE o
admin_clear(n, s) ==
  LET o == erps_fsm(n, [s EXCEPT !.event_block = None], "ADMIN_CLEAR", n)
  IN Again(n, Again(n, o, "east"), "west")

(* "clear". *)
Clear(n) ==
  /\ sess[n].enable
  /\ budget.command > 0
  /\ Run(n, LAMBDA s : admin_clear(n, s), wire, heard, [budget EXCEPT !.command = @ - 1])
  /\ UNCHANGED <<enabled, down>>

WtrExpires(n) ==
  /\ sess[n].wtr /\ Settled /\ (patient => AllHeard)
  /\ Run(n, LAMBDA s : erps_fsm(n, [s EXCEPT !.wtr = FALSE], "WTR_EXP", n), Arriving, heard, budget)
  /\ UNCHANGED <<enabled, down>>

WtbExpires(n) ==
  /\ sess[n].wtb /\ Settled /\ (patient => AllHeard)
  /\ Run(n, LAMBDA s : erps_fsm(n, [s EXCEPT !.wtb = FALSE], "WTB_EXP", n), Arriving, heard, budget)
  /\ UNCHANGED <<enabled, down>>

GuardExpires(n) ==
  /\ sess[n].guard /\ Settled
  /\ sess' = [sess EXCEPT ![n].guard = FALSE]
  /\ wire' = Arriving
  /\ UNCHANGED <<enabled, down, heard, budget>>

HoldoffExpires(n) ==
  /\ sess[n].holdoff
  /\ Run(n, LAMBDA s : link_down_handler(n, [s EXCEPT !.holdoff = FALSE], down[n]), wire, heard, budget)
  /\ UNCHANGED <<enabled, down>>

(* erps_msg_expiry: the request is repeated. *)
Keepalive(n) ==
  /\ sess[n].keepalive
  /\ sess[n].enable
  /\ wire' \in Transmit(n, {sess[n].tx}, wire)
  /\ UNCHANGED <<sess, enabled, down, heard, budget>>

(* raps_recv and raps_validity_check: the message is dropped by a session that
   is not enabled and while the guard timer runs. *)
Receive(m, n) ==
  \E f \in wire :
    /\ f.from = m /\ f.to = n
    /\ Reach(m, n)
    /\ Run(n, LAMBDA s : IF s.enable /\ ~s.guard THEN erps_fsm(n, s, Event(f.kind), m) ELSE Ok(s),
           wire \ {f}, heard \cup {x \in {<<m, n>>} : patient /\ ~sess[n].guard /\ Says(sess[m], f.kind)}, budget)
    /\ UNCHANGED <<enabled, down>>

Lose(m, n) ==
  \E f \in wire :
    /\ f.from = m /\ f.to = n
    /\ wire' = wire \ {f}
    /\ UNCHANGED <<sess, enabled, down, heard, budget>>

Next ==
  \E n \in Nodes :
    \/ Enable(n) \/ Disable(n)
    \/ \E p \in Ports, g \in Signals : PortDown(n, p, g) \/ PortUp(n, p, g)
    \/ \E p \in Ports : CcDelete(n, p)
    \/ \E c \in Commands, p \in Ports : Admin(n, c, p)
    \/ Clear(n)
    \/ WtrExpires(n) \/ WtbExpires(n) \/ GuardExpires(n) \/ HoldoffExpires(n) \/ Keepalive(n)
    \/ \E m \in Nodes \ {n} : Receive(m, n) \/ Lose(m, n)

(* The timers are timers, and messages are repeated: not all are lost. *)
TimerExpires(n) == WtrExpires(n) \/ WtbExpires(n) \/ GuardExpires(n) \/ HoldoffExpires(n)
Fairness ==
  \A n \in Nodes :
    /\ WF_vars(TimerExpires(n)) /\ WF_vars(Keepalive(n))
    /\ \A m \in Nodes \ {n} : SF_vars(Receive(m, n))

Spec == Init /\ [][Next]_vars
FairSpec == Spec /\ Fairness

-----------------------------------------------------------------------------
(* The variables have their types. *)
ErpsTypeOK ==
  /\ sess \in [Nodes -> Sessions]
  /\ enabled \in [Nodes -> Nat]
  /\ down \in [Nodes -> SUBSET (Ports \X Signals)]
  /\ wire \subseteq Frames
  /\ heard \subseteq Nodes \X Nodes
  /\ budget \in [fail : 0 .. MaxFail, far : 0 .. MaxFar, command : 0 .. MaxCommand,
                 cycle : 0 .. MaxCycle, hal : 0 .. MaxHal]

HalAnswers == budget.hal = MaxHal
(* No operator has switched ports and the hardware layer has always answered. *)
Undisturbed == HalAnswers /\ budget.command = MaxCommand
AllEnabled == \A n \in Nodes : sess[n].enable
NoneFailed == \A n \in Nodes : Failed(down[n]) = {}

(* While all nodes run the protocol and no link has failed some port of the ring
   is blocked in the hardware: there is never a loop. *)
NoLoop == HalAnswers /\ AllEnabled /\ NoneFailed => \E n \in Nodes : sess[n].hw # {}

(* Nodes of which the hardware blocks a port that the session does not note: it
   stays closed until the session happens to open it. *)
Forgetful == {n \in Nodes : ~(sess[n].hw \subseteq {sess[n].block})}

(* Nothing but an unanswered message makes a node forget a blocked port, and each
   costs one node at most, whatever the others do, fail and switch afterwards.
   (Release clears block_interface before the hardware layer has answered.) *)
NoForgottenBlock == Cardinality(Forgetful) <= MaxHal - budget.hal

(* Until a message is not answered or an operator gives a command, a port that an
   enabled session notes as blocked is blocked: idle_nrrb, which notes the RPL
   port without blocking it, is not reached with another port blocked. *)
NoPhantomBlock ==
  Undisturbed => \A n \in Nodes :
    sess[n].enable /\ sess[n].block # None => sess[n].block \in sess[n].hw

(* What sessions note as blocked and what the hardware blocks, both ways: only
   unanswered messages close a port that its node does not know of, and only they
   and commands open one that its node believes closed. *)
BlocksKnown == NoForgottenBlock /\ NoPhantomBlock

(* A node that protects blocks a port that has failed, not a healthy one. *)
ProtectsFailedPort ==
  HalAnswers => \A n \in Nodes :
    sess[n].enable /\ sess[n].st = "PROTECTION" => sess[n].block \in sess[n].flag

(* An owner that waits to restore the ring has the timer that ends the wait: no
   order of failures, recoveries and requests of others stops it too early.
   (A "clear" at an owner that follows another node's switch does.) *)
OwnerWaits ==
  Undisturbed => \A n \in Nodes :
    Owner(n) /\ sess[n].enable /\ sess[n].st = "PENDING" => sess[n].wtr \/ sess[n].wtb

(* An enabled session is counted: its node looks at the events of its ports. *)
Attended == \A n \in Nodes : sess[n].enable => enabled[n] > 0

(* The ring at rest: the owner blocks the RPL, every other link is open. *)
Rest ==
  \A n \in Nodes : /\ sess[n].hw \subseteq {rpl[n]}
                   /\ role[n] = "owner" => sess[n].hw = {rpl[n]}

(* Once nothing is failed and all run the protocol, the ring comes to rest,
   whatever was lost on the way. *)
Restores == <>[](Undisturbed /\ NoneFailed /\ AllEnabled) => <>[]Rest

OneLinkFailed ==
  \E i \in Nodes : /\ ~LinkWorks(i)
                   /\ \A j \in Nodes \ {i} : LinkWorks(j)
OthersOpen ==
  \A i \in Nodes : LinkWorks(i) => "east" \notin sess[i].hw /\ "west" \notin sess[East(i)].hw

(* While ports of just one link are failed, at one end or at both, every port of
   the other links comes to be open: the failure of one link cuts nobody off. *)
Connects == <>[](Undisturbed /\ OneLinkFailed /\ AllEnabled) => <>[]OthersOpen
=============================================================================
