----------------------------- MODULE ErpsProofs -----------------------------
(***************************************************************************)
(* Proofs about the sessions of Erps, for rings of any size, any signals   *)
(* and any bounds.                                                         *)
(*                                                                         *)
(* The first part is about one session and what a handler makes of it.     *)
(* The last part is about the ring: LoopInv, the inductive invariant for   *)
(* NoLoop, relates every open port to a node that keeps one blocked.       *)
(***************************************************************************)
EXTENDS Erps, FiniteSetTheorems, TLAPS

(* A session while a handler runs. *)
Running ==
  [st : States, block : Ports \cup {None}, event_block : Ports \cup {None},
   flag : SUBSET Ports, hw : SUBSET Ports, tx : Kinds, enable : BOOLEAN,
   keepalive : BOOLEAN, wtr : BOOLEAN, wtb : BOOLEAN, guard : BOOLEAN,
   holdoff : BOOLEAN, fuse : Nat]

(* What a handler that is given session s returns. *)
Good(s, o) ==
  /\ o.sess \in Running /\ o.sent \subseteq Kinds
  /\ o.sess.enable => s.enable

(* What a session that the hardware layer has answered is like. *)
Tidy(s) == s.hw \subseteq {s.block}
Waits(n, s) == Owner(n) /\ s.st = "PENDING" => s.wtr \/ s.wtb
Guarded(s) == s.st = "PROTECTION" => s.block = s.event_block /\ s.block \in s.flag

(* Block, Foward, Burn and StopWaits yield sessions and leave enable alone. *)
LEMMA PrimType ==
  ASSUME NEW s \in Running, NEW p \in Ports
  PROVE  /\ Burn(s) \in Running /\ Burn(s).enable = s.enable
         /\ Block(s, p) \in Running /\ Block(s, p).enable = s.enable
         /\ Foward(s, p) \in Running /\ Foward(s, p).enable = s.enable
         /\ StopWaits(s) \in Running /\ StopWaits(s).enable = s.enable
<1> DEFINE b == Burn(s)
<1>1. b \in Running /\ b.enable = s.enable
  BY DEF Burn, Running
<1>2. StopWaits(s) \in Running /\ StopWaits(s).enable = s.enable
  BY DEF StopWaits, Running
<1> HIDE DEF b
<1>3. /\ [b EXCEPT !.hw = @ \cup {p}] \in Running /\ [b EXCEPT !.hw = @ \cup {p}].enable = s.enable
      /\ [b EXCEPT !.hw = @ \ {p}] \in Running /\ [b EXCEPT !.hw = @ \ {p}].enable = s.enable
  BY <1>1 DEF Running
<1>4. Block(s, p) = IF NotAnswered(s) THEN b ELSE [b EXCEPT !.hw = @ \cup {p}]
  BY DEF Block, b
<1>5. Foward(s, p) = IF NotAnswered(s) THEN b ELSE [b EXCEPT !.hw = @ \ {p}]
  BY DEF Foward, b
<1> QED BY <1>1, <1>2, <1>3, <1>4, <1>5 DEF b

(* When every message is answered, Block and Foward only change the ports that
   the hardware blocks. *)
LEMMA PrimAnswered ==
  ASSUME NEW s \in Running, s.fuse = 0, NEW p \in Ports
  PROVE  /\ ~NotAnswered(s) /\ Burn(s) = s
         /\ Block(s, p) = [s EXCEPT !.hw = s.hw \cup {p}]
         /\ Foward(s, p) = [s EXCEPT !.hw = s.hw \ {p}]
<1>1. ~NotAnswered(s)
  BY DEF NotAnswered
<1>2. Burn(s) = s
  BY DEF Burn, Running
<1> QED BY <1>1, <1>2 DEF Block, Foward

(* The fields of a session that no handler of erps_fsm_action.c touches, and what a
   handler whose messages are answered does to the others. *)
Base(s, t) ==
  /\ t.fuse = 0 /\ t.enable = s.enable /\ t.flag = s.flag /\ t.event_block = s.event_block
  /\ t.holdoff = s.holdoff
Holds(s, t) == t.st = "PROTECTION" => s.st = "PROTECTION" /\ t.block = s.block
Answered(n, s, o) ==
  s.fuse = 0 => /\ Base(s, o.sess) /\ Holds(s, o.sess)
                /\ Tidy(s) => Tidy(o.sess)
                /\ Waits(n, s) => Waits(n, o.sess)
Fine(n, s, o) == Good(s, o) /\ Answered(n, s, o)

(* Release opens the port that is blocked: when it is answered no port stays
   blocked behind the session's back. *)
LEMMA ReleaseKeeps ==
  ASSUME NEW s \in Running
  PROVE  /\ Good(s, Release(s))
         /\ s.fuse = 0 => LET t == Release(s).sess
                          IN /\ t.fuse = 0 /\ t.enable = s.enable /\ t.flag = s.flag
                             /\ t.event_block = s.event_block /\ t.holdoff = s.holdoff /\ t.st = s.st
                             /\ t.wtr = s.wtr /\ t.wtb = s.wtb
                             /\ t.block = None /\ (Tidy(s) => t.hw = {})
                             /\ Release(s).ret = "success"
<1>1. CASE s.block = None
  BY <1>1 DEF Release, Good, Ok, Out, Tidy, Running, Ports, None
<1>2. CASE s.block # None
  <2> DEFINE t == [s EXCEPT !.block = None]
  <2>1. /\ t \in Running /\ t.enable = s.enable /\ s.block \in Ports
        /\ t.fuse = s.fuse /\ t.flag = s.flag /\ t.event_block = s.event_block /\ t.holdoff = s.holdoff
        /\ t.st = s.st /\ t.wtr = s.wtr /\ t.wtb = s.wtb /\ t.block = None /\ t.hw = s.hw
    BY <1>2 DEF Running
  <2>2. Release(s) = Out(Foward(t, s.block), {}, IF NotAnswered(s) THEN "ipc" ELSE "success")
    BY <1>2 DEF Release
  <2> HIDE DEF t
  <2>3. Good(s, Release(s))
    BY <2>1, <2>2, PrimType DEF Good, Out
  <2>4. ASSUME s.fuse = 0
        PROVE  Foward(t, s.block) = [t EXCEPT !.hw = t.hw \ {s.block}] /\ ~NotAnswered(s)
    BY <2>1, <2>4, PrimAnswered
  <2>5. ASSUME s.fuse = 0
        PROVE  LET u == [t EXCEPT !.hw = t.hw \ {s.block}]
               IN /\ u.fuse = 0 /\ u.enable = s.enable /\ u.flag = s.flag
                  /\ u.event_block = s.event_block /\ u.holdoff = s.holdoff /\ u.st = s.st
                  /\ u.wtr = s.wtr /\ u.wtb = s.wtb
                  /\ u.block = None /\ (Tidy(s) => u.hw = {})
    BY <2>1, <2>5 DEF Running, Tidy
  <2> DEFINE f == Foward(t, s.block)
  <2>6. Release(s).sess = f /\ (s.fuse = 0 => Release(s).ret = "success")
    BY <2>2, <2>4 DEF Out
  <2>7. s.fuse = 0 => /\ f.fuse = 0 /\ f.enable = s.enable /\ f.flag = s.flag
                      /\ f.event_block = s.event_block /\ f.holdoff = s.holdoff /\ f.st = s.st
                      /\ f.wtr = s.wtr /\ f.wtb = s.wtb
                      /\ f.block = None /\ (Tidy(s) => f.hw = {})
    BY <2>4, <2>5
  <2> HIDE DEF f
  <2> QED BY <2>3, <2>6, <2>7
<1> QED BY <1>1, <1>2

(* The handlers that follow a request of another node keep Tidy and end no wait
   of a node that stays in the pending state. *)
LEMMA FollowKeeps ==
  ASSUME NEW n \in Nodes, NEW s \in Running, NEW st \in {"FS", "MS", "PROTECTION_REMOTE"}
  PROVE  Fine(n, s, Follow(n, s, st))
<1> DEFINE r == Release(s)
           q == r.sess
           t == [q EXCEPT !.keepalive = FALSE, !.st = st]
           u == StopWaits(t)
<1>1. Good(s, r) /\ q \in Running /\ (q.enable => s.enable)
  BY ReleaseKeeps DEF Good
<1>2. s.fuse = 0 => /\ q.fuse = 0 /\ q.enable = s.enable /\ q.flag = s.flag
                    /\ q.event_block = s.event_block /\ q.holdoff = s.holdoff
                    /\ q.block = None /\ (Tidy(s) => q.hw = {}) /\ r.ret = "success"
  BY ReleaseKeeps
<1>3. Follow(n, s, st) = IF r.ret # "success" THEN r
                         ELSE Ok(IF s.st = "PENDING" THEN IF role[n] = "owner" THEN u ELSE t ELSE t)
  BY DEF Follow, OwnerStopsWaits
<1> HIDE DEF r, q
<1>4. /\ t \in Running /\ t.enable = q.enable /\ t.st = st /\ t.fuse = q.fuse /\ t.flag = q.flag
      /\ t.event_block = q.event_block /\ t.holdoff = q.holdoff /\ t.block = q.block /\ t.hw = q.hw
  BY <1>1 DEF Running, States
<1> HIDE DEF t
<1>5. /\ u \in Running /\ u.enable = q.enable /\ u.st = st /\ u.fuse = q.fuse /\ u.flag = q.flag
      /\ u.event_block = q.event_block /\ u.holdoff = q.holdoff /\ u.block = q.block /\ u.hw = q.hw
  BY <1>4 DEF Running, StopWaits
<1> HIDE DEF u
<1>6. ASSUME NEW x \in {t, u} PROVE Fine(n, s, Ok(x))
  <2>1. Good(s, Ok(x))
    BY <1>1, <1>4, <1>5 DEF Good, Ok, Out
  <2>2. x.st = st /\ (s.fuse = 0 => Base(s, x) /\ Holds(s, x) /\ (Tidy(s) => Tidy(x)))
    BY <1>2, <1>4, <1>5 DEF Base, Holds, Tidy
  <2>3. Waits(n, x)
    BY <2>2 DEF Waits
  <2> QED BY <2>1, <2>2, <2>3 DEF Fine, Answered, Ok, Out
<1>7. Follow(n, s, st) \in {Ok(t), Ok(u)} \/ (Follow(n, s, st) = r /\ s.fuse # 0)
  BY <1>2, <1>3
<1> QED BY <1>1, <1>6, <1>7 DEF Fine, Answered

(* A node has two ring ports. *)
LEMMA OtherPort == \A p \in Ports : Other(p) \in Ports /\ Other(p) # p /\ Ports \ {Other(p)} = {p}
BY DEF Other, Ports

(* The second half of a switch leaves no port blocked but that of the request. *)
LEMMA SayAndOpenKeeps ==
  ASSUME NEW s \in Running, s.event_block \in Ports, NEW kind \in Kinds, NEW st \in States
  PROVE  LET o == SayAndOpen(s, kind, st)
             t == o.sess
         IN /\ Good(s, o)
            /\ s.fuse = 0 => /\ t.fuse = 0 /\ t.enable = s.enable /\ t.flag = s.flag
                             /\ t.event_block = s.event_block /\ t.holdoff = s.holdoff
                             /\ t.block = s.block /\ t.st = st /\ t.hw \subseteq {s.event_block}
                             /\ o.ret = "success"
<1> DEFINE p == Other(s.event_block)
           q == Say(s, kind)
           f == Foward(q, p)
           g == [f EXCEPT !.st = st]
<1>1. /\ q \in Running /\ q.enable = s.enable /\ q.fuse = s.fuse /\ q.flag = s.flag /\ q.hw = s.hw
      /\ q.event_block = s.event_block /\ q.holdoff = s.holdoff /\ q.block = s.block
  BY DEF Say, Running
<1>2. p \in Ports /\ Ports \ {p} = {s.event_block}
  BY OtherPort
<1>3. SayAndOpen(s, kind, st) = IF NotAnswered(s) THEN Out(f, {kind}, "ipc") ELSE Out(g, {kind}, "success")
  BY DEF SayAndOpen
<1> HIDE DEF p, q
<1>4. f \in Running /\ f.enable = s.enable
  BY <1>1, <1>2, PrimType
<1>5. s.fuse = 0 => f = [q EXCEPT !.hw = q.hw \ {p}] /\ ~NotAnswered(s)
  BY <1>1, <1>2, PrimAnswered DEF NotAnswered
<1>6. s.fuse = 0 => /\ f.fuse = 0 /\ f.flag = s.flag /\ f.event_block = s.event_block
                    /\ f.holdoff = s.holdoff /\ f.block = s.block /\ f.hw = s.hw \ {p}
  BY <1>1, <1>5 DEF Running
<1>7. s.hw \subseteq Ports
  BY DEF Running
<1> HIDE DEF f
<1>8. g \in Running /\ g.enable = s.enable /\ g.st = st
  BY <1>4 DEF Running
<1>9. s.fuse = 0 => /\ g.fuse = 0 /\ g.flag = s.flag /\ g.event_block = s.event_block
                    /\ g.holdoff = s.holdoff /\ g.block = s.block /\ g.hw \subseteq {s.event_block}
  BY <1>2, <1>4, <1>6, <1>7 DEF Running
<1> HIDE DEF g
<1> QED BY <1>3, <1>4, <1>5, <1>8, <1>9 DEF Good, Out

(* What every switch to the port of the request comes to. *)
Switched(s, o, st) ==
  /\ Good(s, o)
  /\ s.fuse = 0 => /\ o.sess.fuse = 0 /\ o.sess.enable = s.enable /\ o.sess.flag = s.flag
                   /\ o.sess.event_block = s.event_block /\ o.sess.holdoff = s.holdoff
                   /\ o.sess.block = s.event_block /\ o.sess.st = st
                   /\ o.sess.hw \subseteq {s.event_block}
                   /\ o.ret = "success"

(* Blocking the port of the request and opening the other one is a switch to it. *)
LEMMA BlockSayAndOpenKeeps ==
  ASSUME NEW s \in Running, s.event_block \in Ports, NEW kind \in Kinds, NEW st \in States,
         NEW early \in BOOLEAN
  PROVE  Switched(s, BlockSayAndOpen(s, kind, st, early), st)
<1> DEFINE p == s.event_block
           b == Block(s, p)
           c == [b EXCEPT !.block = p]
           o == SayAndOpen(c, kind, st)
<1>1. b \in Running /\ b.enable = s.enable
  BY PrimType
<1>2. s.fuse = 0 => b = [s EXCEPT !.hw = s.hw \cup {p}] /\ ~NotAnswered(s)
  BY PrimAnswered
<1>3. s.fuse = 0 => /\ b.fuse = 0 /\ b.flag = s.flag /\ b.event_block = p /\ b.holdoff = s.holdoff
  BY <1>2 DEF Running
<1>x. b.event_block = p
  <2>1. Burn(s).event_block = p /\ Burn(s) \in Running
    BY PrimType DEF Burn, Running
  <2> QED BY <2>1 DEF Block, Running
<1>4. BlockSayAndOpen(s, kind, st, early) =
        IF NotAnswered(s) THEN Out(IF early THEN c ELSE b, {}, "ipc") ELSE o
  BY DEF BlockSayAndOpen
<1> HIDE DEF b
<1>5. /\ c \in Running /\ c.enable = s.enable /\ c.block = p /\ c.event_block = p /\ c.fuse = b.fuse
      /\ c.flag = b.flag /\ c.holdoff = b.holdoff
  BY <1>1, <1>x DEF Running
<1> HIDE DEF c
<1>6. /\ Good(c, o)
      /\ c.fuse = 0 => /\ o.sess.fuse = 0 /\ o.sess.enable = c.enable /\ o.sess.flag = c.flag
                       /\ o.sess.event_block = c.event_block /\ o.sess.holdoff = c.holdoff
                       /\ o.sess.block = c.block /\ o.sess.st = st /\ o.sess.hw \subseteq {c.event_block}
                       /\ o.ret = "success"
  BY <1>5, SayAndOpenKeeps
<1> HIDE DEF o
<1>7. Good(s, o) /\ Good(s, Out(c, {}, "ipc")) /\ Good(s, Out(b, {}, "ipc"))
  BY <1>1, <1>5, <1>6 DEF Good, Out
<1> QED BY <1>2, <1>3, <1>4, <1>5, <1>6, <1>7 DEF Switched

(* So is Switch, whether the port is blocked already or not. *)
LEMMA SwitchKeeps ==
  ASSUME NEW s \in Running, s.event_block \in Ports, NEW kind \in Kinds, NEW st \in States,
         NEW early \in BOOLEAN
  PROVE  Switched(s, Switch(s, kind, st, early), st)
<1>1. CASE s.event_block = s.block
  BY <1>1, SayAndOpenKeeps DEF Switch, Switched
<1>2. CASE s.event_block # s.block
  BY <1>2, BlockSayAndOpenKeeps DEF Switch
<1> QED BY <1>1, <1>2

(* Stopping the owner's timers after a switch does not undo it. *)
LEMMA SettleKeeps ==
  ASSUME NEW n \in Nodes, NEW s \in Running, NEW o, NEW st \in {"FS", "PROTECTION"}, Switched(s, o, st)
  PROVE  Switched(s, Settle(n, s, o), st)
<1> DEFINE q == o.sess
           u == StopWaits(q)
<1>1. q \in Running
  BY DEF Switched, Good
<1>2. /\ u \in Running /\ u.enable = q.enable /\ u.fuse = q.fuse /\ u.flag = q.flag
      /\ u.event_block = q.event_block /\ u.holdoff = q.holdoff /\ u.block = q.block /\ u.st = q.st
      /\ u.hw = q.hw
  <2> HIDE DEF q
  <2> QED BY <1>1 DEF StopWaits, Running
<1>3. Settle(n, s, o) \in {o, Out(u, o.sent, o.ret), Out(q, o.sent, o.ret)}
  BY DEF Settle, OwnerStopsWaits
<1> HIDE DEF u
<1>4. Switched(s, Out(u, o.sent, o.ret), st)
  BY <1>2 DEF Switched, Good, Out
<1>5. Switched(s, Out(q, o.sent, o.ret), st)
  BY DEF Switched, Good, Out
<1> QED BY <1>3, <1>4, <1>5

(* A forced switch keeps what every handler keeps. *)
LEMMA SwitchedFine ==
  ASSUME NEW n \in Nodes, NEW s \in Running, NEW o, Switched(s, o, "FS")
  PROVE  Fine(n, s, o)
BY DEF Switched, Fine, Answered, Base, Holds, Tidy, Waits

(* erps_x_handle_local_sf and erps_x_handle_admin_fs switch to the port of the event. *)
LEMMA SfFsKeeps ==
  ASSUME NEW n \in Nodes, NEW s \in Running, s.event_block \in Ports
  PROVE  /\ Switched(s, local_sf(n, s), "PROTECTION")
         /\ Switched(s, admin_fs(n, s), "FS") /\ Fine(n, s, admin_fs(n, s))
<1>1. {"SF", "FS"} \subseteq Kinds /\ {"FS", "PROTECTION"} \subseteq States /\ (s.st = "PENDING") \in BOOLEAN
  BY DEF Kinds, States
<1>2. Switched(s, local_sf(n, s), "PROTECTION")
  BY <1>1, SwitchKeeps, SettleKeeps DEF local_sf
<1>3. Switched(s, admin_fs(n, s), "FS")
  BY <1>1, SwitchKeeps, BlockSayAndOpenKeeps, SettleKeeps DEF admin_fs
<1> QED BY <1>2, <1>3, SwitchedFine

(* The handlers of a manual switch yield sessions.  (They do not keep Tidy.) *)
LEMMA AdminMsType ==
  ASSUME NEW n \in Nodes, NEW s \in Running, s.event_block \in Ports
  PROVE  Good(s, idle_admin_ms(n, s)) /\ Good(s, pending_admin_ms(n, s))
<1>1. "MS" \in Kinds /\ "MS" \in States /\ FALSE \in BOOLEAN /\ "west" \in Ports
  BY DEF Kinds, States, Ports
<1>2. Good(s, idle_admin_ms(n, s))
  <2> DEFINE q == Say(s, "MS")
             t == [q EXCEPT !.st = "MS"]
  <2>1. q \in Running /\ q.enable = s.enable
    BY <1>1 DEF Say, Running
  <2>2. idle_admin_ms(n, s) = IF s.event_block = s.block THEN Out(t, {"MS"}, "success")
                              ELSE BlockSayAndOpen(s, "MS", "MS", FALSE)
    BY DEF idle_admin_ms
  <2> HIDE DEF q
  <2>3. t \in Running /\ t.enable = s.enable
    BY <1>1, <2>1 DEF Running
  <2> HIDE DEF t
  <2>4. Good(s, Out(t, {"MS"}, "success"))
    BY <1>1, <2>3 DEF Good, Out
  <2> QED BY <1>1, <2>2, <2>4, BlockSayAndOpenKeeps, ZenonT(60) DEF Switched
<1>3. Good(s, pending_admin_ms(n, s))
  <2> DEFINE r == OwnerStopsWaits(n, s)
             q == Say(r, "MS")
             t == [q EXCEPT !.block = "west", !.st = "MS"]
  <2>1. r \in Running /\ r.enable = s.enable /\ r.event_block = s.event_block
    BY DEF OwnerStopsWaits, StopWaits, Running
  <2>2. pending_admin_ms(n, s) =
          IF r.event_block = "west" /\ r.block # "west" THEN Out(t, {"MS"}, "success")
          ELSE Switch(r, "MS", "MS", FALSE)
    BY DEF pending_admin_ms
  <2> HIDE DEF r
  <2>3. q \in Running /\ q.enable = s.enable
    BY <1>1, <2>1 DEF Say, Running
  <2> HIDE DEF q
  <2>4. t \in Running /\ t.enable = s.enable
    BY <1>1, <2>3 DEF Running
  <2> HIDE DEF t
  <2>5. Good(s, Out(t, {"MS"}, "success"))
    BY <1>1, <2>4 DEF Good, Out
  <2>6. Good(r, Switch(r, "MS", "MS", FALSE))
    BY <1>1, <2>1, SwitchKeeps DEF Switched
  <2> QED BY <2>1, <2>2, <2>5, <2>6 DEF Good
<1> QED BY <1>2, <1>3

(* A node that gives up its request keeps its port; the owner starts a timer. *)
LEMMA GiveUpKeeps ==
  ASSUME NEW n \in Nodes, NEW s \in Running, NEW wait
  PROVE  Fine(n, s, GiveUp(n, s, wait))
<1> DEFINE q == Say(s, "NR")
           t == [q EXCEPT !.guard = TRUE, !.st = "PENDING"]
           u == [t EXCEPT !.wtr = TRUE]
           v == [t EXCEPT !.wtb = TRUE]
<1>1. "NR" \in Kinds /\ "PENDING" \in States
  BY DEF Kinds, States
<1>2. /\ q \in Running /\ q.enable = s.enable /\ q.fuse = s.fuse /\ q.flag = s.flag /\ q.hw = s.hw
      /\ q.event_block = s.event_block /\ q.holdoff = s.holdoff /\ q.block = s.block
  BY <1>1 DEF Say, Running
<1>3. GiveUp(n, s, wait) = Out(IF ~Owner(n) THEN t ELSE IF wait = "wtr" THEN u ELSE v, {"NR"}, "success")
  BY DEF GiveUp
<1> HIDE DEF q
<1>4. /\ t \in Running /\ t.enable = s.enable /\ t.fuse = s.fuse /\ t.flag = s.flag /\ t.hw = s.hw
      /\ t.event_block = s.event_block /\ t.holdoff = s.holdoff /\ t.block = s.block /\ t.st = "PENDING"
  BY <1>1, <1>2 DEF Running
<1> HIDE DEF t
<1>5. /\ u \in Running /\ u.enable = s.enable /\ u.fuse = s.fuse /\ u.flag = s.flag /\ u.hw = s.hw
      /\ u.event_block = s.event_block /\ u.holdoff = s.holdoff /\ u.block = s.block /\ u.st = "PENDING"
      /\ u.wtr = TRUE
  BY <1>4 DEF Running
<1>6. /\ v \in Running /\ v.enable = s.enable /\ v.fuse = s.fuse /\ v.flag = s.flag /\ v.hw = s.hw
      /\ v.event_block = s.event_block /\ v.holdoff = s.holdoff /\ v.block = s.block /\ v.st = "PENDING"
      /\ v.wtb = TRUE
  BY <1>4 DEF Running
<1> HIDE DEF u, v
<1>7. ASSUME NEW x \in {t, u, v}, Waits(n, x) PROVE Fine(n, s, Out(x, {"NR"}, "success"))
  BY <1>1, <1>4, <1>5, <1>6, <1>7 DEF Fine, Good, Answered, Base, Holds, Tidy, Out
<1>8. Waits(n, u) /\ Waits(n, v) /\ (~Owner(n) => Waits(n, t))
  BY <1>5, <1>6 DEF Waits
<1> QED BY <1>3, <1>7, <1>8

(* The owner that reverts blocks its RPL port and no other. *)
LEMMA RevertKeeps ==
  ASSUME NEW n \in Nodes, NEW s \in Running
  PROVE  Fine(n, s, Revert(n, s)) /\ (s.fuse = 0 => Waits(n, Revert(n, s).sess))
<1>0. {"NR", "NR_RB"} \subseteq Kinds /\ "IDLE" \in States
  BY DEF Kinds, States
<1>1. CASE role[n] # "owner"
  <2> DEFINE t == [s EXCEPT !.st = "IDLE"]
  <2>1. /\ t \in Running /\ t.enable = s.enable /\ t.fuse = s.fuse /\ t.flag = s.flag /\ t.hw = s.hw
        /\ t.event_block = s.event_block /\ t.holdoff = s.holdoff /\ t.block = s.block /\ t.st = "IDLE"
    BY <1>0 DEF Running
  <2>2. Revert(n, s) = Ok(t)
    BY <1>1 DEF Revert
  <2> HIDE DEF t
  <2> QED BY <2>1, <2>2 DEF Fine, Good, Answered, Base, Holds, Tidy, Waits, Ok, Out
<1>2. CASE role[n] = "owner"
  <2> DEFINE p == rpl[n]
             r == StopWaits(s)
             b == IF r.block = p THEN r ELSE Block(r, p)
             f == Foward(b, Other(p))
             q == Say(f, "NR_RB")
             t == [q EXCEPT !.block = p, !.st = "IDLE"]
  <2>1. p \in Ports /\ Other(p) \in Ports /\ Ports \ {Other(p)} = {p}
    BY <1>2, ErpsAssumption, OtherPort
  <2>2. Revert(n, s) = Out(t, {"NR_RB"}, "success")
    BY <1>2 DEF Revert
  <2> HIDE DEF p
  <2>3. /\ r \in Running /\ r.enable = s.enable /\ r.fuse = s.fuse /\ r.flag = s.flag /\ r.hw = s.hw
        /\ r.event_block = s.event_block /\ r.holdoff = s.holdoff
    BY DEF StopWaits, Running
  <2> HIDE DEF r
  <2>4. b \in Running /\ b.enable = s.enable
    BY <2>1, <2>3, PrimType
  <2>5. s.fuse = 0 => b = r \/ b = [r EXCEPT !.hw = r.hw \cup {p}]
    BY <2>1, <2>3, PrimAnswered
  <2>6. s.fuse = 0 => /\ b.fuse = 0 /\ b.flag = s.flag
                      /\ b.event_block = s.event_block /\ b.holdoff = s.holdoff
    BY <2>3, <2>5 DEF Running
  <2> HIDE DEF b
  <2>7. f \in Running /\ f.enable = s.enable
    BY <2>1, <2>4, PrimType
  <2>8. s.fuse = 0 => f = [b EXCEPT !.hw = b.hw \ {Other(p)}]
    BY <2>1, <2>4, <2>6, PrimAnswered
  <2>9. b.hw \subseteq Ports
    BY <2>4 DEF Running
  <2>10. s.fuse = 0 => /\ f.fuse = 0 /\ f.flag = s.flag /\ f.hw \subseteq {p}
                       /\ f.event_block = s.event_block /\ f.holdoff = s.holdoff
    BY <2>1, <2>4, <2>6, <2>8, <2>9 DEF Running
  <2> HIDE DEF f
  <2>11. /\ q \in Running /\ q.enable = s.enable /\ q.fuse = f.fuse /\ q.flag = f.flag /\ q.hw = f.hw
         /\ q.event_block = f.event_block /\ q.holdoff = f.holdoff
    BY <1>0, <2>7 DEF Say, Running
  <2> HIDE DEF q
  <2>12. /\ t \in Running /\ t.enable = s.enable /\ t.fuse = f.fuse /\ t.flag = f.flag /\ t.hw = f.hw
         /\ t.event_block = f.event_block /\ t.holdoff = f.holdoff /\ t.st = "IDLE" /\ t.block = p
    BY <1>0, <2>1, <2>11 DEF Running
  <2> HIDE DEF t
  <2> QED BY <1>0, <2>2, <2>10, <2>12 DEF Fine, Good, Answered, Base, Holds, Tidy, Waits, Out
<1> QED BY <1>1, <1>2

(* An event that is ignored changes nothing. *)
LEMMA UnchangedFine ==
  ASSUME NEW n \in Nodes, NEW s \in Running, NEW r
  PROVE  Fine(n, s, Out(s, {}, r))
BY DEF Fine, Good, Answered, Base, Holds, Out

(* Owner and neighbour have a port to the RPL. *)
LEMMA RplPort == \A n \in Nodes : role[n] # "nonowner" => rpl[n] \in Ports
BY ErpsAssumption

(* erps_idle_handle_raps_nrrb, in the idle state. *)
LEMMA IdleNrrbKeeps ==
  ASSUME NEW n \in Nodes, NEW s \in Running, s.st = "IDLE"
  PROVE  Fine(n, s, idle_nrrb(n, s))
<1>1. CASE s.block = rpl[n]
  BY <1>1, UnchangedFine DEF idle_nrrb
<1>2. CASE s.block # rpl[n] /\ role[n] = "nonowner"
  <2> DEFINE t == [s EXCEPT !.keepalive = @ /\ role[n] = "owner"]
  <2>1. /\ t \in Running /\ t.enable = s.enable /\ t.fuse = s.fuse /\ t.flag = s.flag /\ t.hw = s.hw
        /\ t.event_block = s.event_block /\ t.holdoff = s.holdoff /\ t.block = s.block /\ t.st = "IDLE"
    BY DEF Running
  <2>2. idle_nrrb(n, s) = Ok(t)
    BY <1>2 DEF idle_nrrb
  <2> HIDE DEF t
  <2> QED BY <2>1, <2>2 DEF Fine, Good, Answered, Base, Holds, Tidy, Waits, Ok, Out
<1>3. CASE s.block # rpl[n] /\ role[n] # "nonowner"
  <2> DEFINE p == rpl[n]
             b == [s EXCEPT !.block = p]
             f == Foward(b, Other(p))
             t == [f EXCEPT !.keepalive = @ /\ role[n] = "owner"]
  <2>1. p \in Ports /\ Other(p) \in Ports /\ Ports \ {Other(p)} = {p}
    BY <1>3, RplPort, OtherPort
  <2>2. idle_nrrb(n, s) = IF NotAnswered(s) THEN Out(f, {}, "ipc") ELSE Ok(t)
    BY <1>3 DEF idle_nrrb
  <2> HIDE DEF p
  <2>3. /\ b \in Running /\ b.enable = s.enable /\ b.fuse = s.fuse /\ b.flag = s.flag /\ b.hw = s.hw
        /\ b.event_block = s.event_block /\ b.holdoff = s.holdoff /\ b.block = p /\ b.st = "IDLE"
    BY <2>1 DEF Running
  <2> HIDE DEF b
  <2>4. f \in Running /\ f.enable = s.enable
    BY <2>1, <2>3, PrimType
  <2>5. s.fuse = 0 => f = [b EXCEPT !.hw = b.hw \ {Other(p)}] /\ ~NotAnswered(s)
    BY <2>1, <2>3, PrimAnswered DEF NotAnswered
  <2>6. b.hw \subseteq Ports
    BY <2>3 DEF Running
  <2>7. s.fuse = 0 => /\ f.fuse = 0 /\ f.flag = s.flag /\ f.hw \subseteq {p} /\ f.block = p
                      /\ f.event_block = s.event_block /\ f.holdoff = s.holdoff /\ f.st = "IDLE"
    BY <2>1, <2>3, <2>5, <2>6 DEF Running
  <2> HIDE DEF f
  <2>8. /\ t \in Running /\ t.enable = s.enable /\ t.fuse = f.fuse /\ t.flag = f.flag /\ t.hw = f.hw
        /\ t.event_block = f.event_block /\ t.holdoff = f.holdoff /\ t.block = f.block /\ t.st = f.st
    BY <2>4 DEF Running
  <2> HIDE DEF t
  <2>9. Good(s, Out(f, {}, "ipc")) /\ Good(s, Ok(t))
    BY <2>4, <2>8 DEF Good, Ok, Out
  <2>10. Answered(n, s, Ok(t))
    BY <2>7, <2>8 DEF Answered, Base, Holds, Tidy, Waits, Ok, Out
  <2> QED BY <2>2, <2>5, <2>9, <2>10 DEF Fine, Answered
<1> QED BY <1>1, <1>2, <1>3

(* erps_pending_handle_nrrb: owner, neighbour and the others. *)
LEMMA PendingNrrbKeeps ==
  ASSUME NEW n \in Nodes, NEW s \in Running
  PROVE  Fine(n, s, pending_nrrb(n, s))
<1>0. "IDLE" \in States /\ role[n] \in {"owner", "neighbour", "nonowner"}
  BY ErpsAssumption DEF States
<1>1. CASE role[n] = "owner"
  <2> DEFINE r == StopWaits(s)
             t == [r EXCEPT !.st = "IDLE"]
  <2>1. /\ r \in Running /\ r.enable = s.enable /\ r.fuse = s.fuse /\ r.flag = s.flag /\ r.hw = s.hw
        /\ r.event_block = s.event_block /\ r.holdoff = s.holdoff /\ r.block = s.block
    BY DEF StopWaits, Running
  <2>2. pending_nrrb(n, s) = Ok(t)
    BY <1>1 DEF pending_nrrb
  <2> HIDE DEF r
  <2>3. /\ t \in Running /\ t.enable = s.enable /\ t.fuse = s.fuse /\ t.flag = s.flag /\ t.hw = s.hw
        /\ t.event_block = s.event_block /\ t.holdoff = s.holdoff /\ t.block = s.block /\ t.st = "IDLE"
    BY <1>0, <2>1 DEF Running
  <2> HIDE DEF t
  <2> QED BY <2>2, <2>3 DEF Fine, Good, Answered, Base, Holds, Tidy, Waits, Ok, Out
<1> DEFINE idle(t) == [t EXCEPT !.st = "IDLE", !.keepalive = FALSE]
<1>i. ASSUME NEW t \in Running
      PROVE  /\ idle(t) \in Running /\ idle(t).enable = t.enable /\ idle(t).fuse = t.fuse
             /\ idle(t).flag = t.flag /\ idle(t).hw = t.hw /\ idle(t).event_block = t.event_block
             /\ idle(t).holdoff = t.holdoff /\ idle(t).block = t.block /\ idle(t).st = "IDLE"
  BY <1>0 DEF Running
<1>2. CASE role[n] = "nonowner"
  <2> DEFINE f == Foward(s, s.block)
             g == [f EXCEPT !.block = None]
  <2>1. pending_nrrb(n, s) = IF s.block = None THEN Ok(idle(s))
                             ELSE IF NotAnswered(s) THEN Out(Burn(s), {}, "ipc") ELSE Ok(idle(g))
    BY <1>2 DEF pending_nrrb
  <2>2. Fine(n, s, Ok(idle(s)))
    <3> HIDE DEF idle
    <3> QED BY <1>i DEF Fine, Good, Answered, Base, Holds, Tidy, Waits, Ok, Out
  <2>3. CASE s.block # None
    <3>1. s.block \in Ports
      BY <2>3 DEF Running
    <3>2. /\ f \in Running /\ f.enable = s.enable /\ Burn(s) \in Running /\ Burn(s).enable = s.enable
      BY <3>1, PrimType
    <3>3. s.fuse = 0 => f = [s EXCEPT !.hw = s.hw \ {s.block}] /\ ~NotAnswered(s)
      BY <3>1, PrimAnswered
    <3>4. s.fuse = 0 => /\ f.fuse = 0 /\ f.flag = s.flag /\ f.hw = s.hw \ {s.block}
                        /\ f.event_block = s.event_block /\ f.holdoff = s.holdoff
      BY <3>3 DEF Running
    <3> HIDE DEF f
    <3>5. /\ g \in Running /\ g.enable = s.enable /\ g.fuse = f.fuse /\ g.flag = f.flag /\ g.hw = f.hw
          /\ g.event_block = f.event_block /\ g.holdoff = f.holdoff /\ g.block = None
      BY <3>2 DEF Running
    <3> HIDE DEF g, idle
    <3>6. Good(s, Out(Burn(s), {}, "ipc")) /\ Good(s, Ok(idle(g)))
      BY <1>i, <3>2, <3>5 DEF Good, Ok, Out
    <3>7. Answered(n, s, Ok(idle(g)))
      BY <1>i, <3>4, <3>5 DEF Answered, Base, Holds, Tidy, Waits, Ok, Out
    <3> QED BY <2>1, <2>3, <3>3, <3>6, <3>7 DEF Fine, Answered
  <2> QED BY <2>1, <2>2, <2>3
<1>3. CASE role[n] = "neighbour"
  <2> DEFINE p == rpl[n]
             b == Block(s, p)
             c == [b EXCEPT !.block = p]
             f == Foward(c, Other(p))
  <2>1. p \in Ports /\ Other(p) \in Ports /\ Ports \ {Other(p)} = {p}
    BY <1>3, RplPort, OtherPort
  <2>2. pending_nrrb(n, s) = IF NotAnswered(s) THEN Out(b, {}, "ipc")
                             ELSE IF NotAnswered(b) THEN Out(f, {}, "ipc") ELSE Ok(idle(f))
    BY <1>3 DEF pending_nrrb
  <2> HIDE DEF p
  <2>3. b \in Running /\ b.enable = s.enable
    BY <2>1, PrimType
  <2>4. s.fuse = 0 => b = [s EXCEPT !.hw = s.hw \cup {p}] /\ ~NotAnswered(s)
    BY <2>1, PrimAnswered
  <2>5. s.fuse = 0 => b.fuse = 0 /\ b.flag = s.flag /\ b.event_block = s.event_block /\ b.holdoff = s.holdoff
    BY <2>4 DEF Running
  <2> HIDE DEF b
  <2>6. /\ c \in Running /\ c.enable = s.enable /\ c.fuse = b.fuse /\ c.flag = b.flag /\ c.block = p
        /\ c.event_block = b.event_block /\ c.holdoff = b.holdoff /\ c.hw \subseteq Ports
    BY <2>1, <2>3 DEF Running
  <2> HIDE DEF c
  <2>7. f \in Running /\ f.enable = s.enable
    BY <2>1, <2>6, PrimType
  <2>8. s.fuse = 0 => f = [c EXCEPT !.hw = c.hw \ {Other(p)}] /\ ~NotAnswered(b)
    BY <2>1, <2>5, <2>6, PrimAnswered DEF NotAnswered
  <2>9. s.fuse = 0 => /\ f.fuse = 0 /\ f.flag = s.flag /\ f.hw \subseteq {p} /\ f.block = p
                      /\ f.event_block = s.event_block /\ f.holdoff = s.holdoff
    BY <2>1, <2>5, <2>6, <2>8 DEF Running
  <2> HIDE DEF f, idle
  <2>10. Good(s, Out(b, {}, "ipc")) /\ Good(s, Out(f, {}, "ipc")) /\ Good(s, Ok(idle(f)))
    BY <1>i, <2>3, <2>7 DEF Good, Ok, Out
  <2>11. Answered(n, s, Ok(idle(f)))
    BY <1>i, <2>7, <2>9 DEF Answered, Base, Holds, Tidy, Waits, Ok, Out
  <2> QED BY <2>2, <2>4, <2>8, <2>10, <2>11 DEF Fine, Answered
<1> QED BY <1>0, <1>1, <1>2, <1>3

(* R-APS(NR) of a node with a higher id opens the port or changes nothing. *)
LEMMA YieldKeeps ==
  ASSUME NEW n \in Nodes, NEW s \in Running, NEW from, s.st # "PROTECTION"
  PROVE  Fine(n, s, Yield(n, s, from))
<1> DEFINE o == IF s.flag = {} THEN Release(s) ELSE Ok(s)
           q == o.sess
           t == [q EXCEPT !.keepalive = FALSE]
           r == IF s.flag = {} /\ s.block # None THEN "success" ELSE "existed"
<1>1. Yield(n, s, from) \in {Out(s, {}, "existed"), Out(t, {}, r)} \/ (Yield(n, s, from) = o /\ o.ret # "success")
  BY DEF Yield
<1>2. Good(s, o) /\ q \in Running /\ (q.enable => s.enable)
  BY ReleaseKeeps DEF Good, Ok, Out
<1>3. s.fuse = 0 => /\ q.fuse = 0 /\ q.enable = s.enable /\ q.flag = s.flag
                    /\ q.event_block = s.event_block /\ q.holdoff = s.holdoff /\ q.st = s.st
                    /\ q.wtr = s.wtr /\ q.wtb = s.wtb
                    /\ (Tidy(s) => Tidy(q)) /\ o.ret = "success"
  BY ReleaseKeeps DEF Ok, Out, Tidy
<1> HIDE DEF o, q
<1>4. /\ t \in Running /\ t.enable = q.enable /\ t.fuse = q.fuse /\ t.flag = q.flag /\ t.hw = q.hw
      /\ t.event_block = q.event_block /\ t.holdoff = q.holdoff /\ t.block = q.block /\ t.st = q.st
      /\ t.wtr = q.wtr /\ t.wtb = q.wtb
  BY <1>2 DEF Running
<1> HIDE DEF t, r
<1>5. Good(s, Out(t, {}, r))
  BY <1>2, <1>4 DEF Good, Out
<1>6. Answered(n, s, Out(t, {}, r))
  BY <1>3, <1>4 DEF Answered, Base, Holds, Tidy, Waits, Out
<1> QED BY <1>1, <1>2, <1>3, <1>5, <1>6, UnchangedFine DEF Fine, Answered

(* R-APS(NR) takes a node to the pending state; the owner's timer is started. *)
LEMMA XNrKeeps ==
  ASSUME NEW n \in Nodes, NEW s \in Running, s.st \in {"PROTECTION_REMOTE", "MS", "FS"}
  PROVE  Fine(n, s, x_raps_nr(n, s))
<1> DEFINE w == s.wtr \/ (Owner(n) /\ s.st = "PROTECTION_REMOTE")
           x == s.wtb \/ (Owner(n) /\ s.st \in {"MS", "FS"})
           t == [s EXCEPT !.st = "PENDING", !.wtr = w, !.wtb = x]
<1>1. w \in BOOLEAN /\ x \in BOOLEAN /\ (Owner(n) => w \/ x) /\ "PENDING" \in States
  BY DEF States
<1>2. x_raps_nr(n, s) = Ok(t)
  BY DEF x_raps_nr
<1> HIDE DEF w, x
<1>3. /\ t \in Running /\ t.enable = s.enable /\ t.fuse = s.fuse /\ t.flag = s.flag /\ t.hw = s.hw
      /\ t.event_block = s.event_block /\ t.holdoff = s.holdoff /\ t.block = s.block /\ t.st = "PENDING"
      /\ t.wtr = w /\ t.wtb = x
  BY <1>1 DEF Running
<1> HIDE DEF t
<1>4. Waits(n, t)
  BY <1>1, <1>3 DEF Waits
<1> QED BY <1>2, <1>3, <1>4 DEF Fine, Good, Answered, Base, Holds, Tidy, Ok, Out

(* erps_fsms_handle_admin_clear keeps all but Waits: without a blocked port no
   timer is started. *)
LEMMA ClearKeeps ==
  ASSUME NEW n \in Nodes, NEW s \in Running
  PROVE  LET o == fsms_admin_clear(n, s)
         IN Good(s, o) /\ (s.fuse = 0 => Base(s, o.sess) /\ Holds(s, o.sess) /\ (Tidy(s) => Tidy(o.sess)))
<1>1. CASE s.block # None
  BY <1>1, GiveUpKeeps DEF fsms_admin_clear, Fine, Answered
<1>2. CASE s.block = None
  <2> DEFINE t == [s EXCEPT !.st = "PENDING"]
  <2>1. /\ t \in Running /\ t.enable = s.enable /\ t.fuse = s.fuse /\ t.flag = s.flag /\ t.hw = s.hw
        /\ t.event_block = s.event_block /\ t.holdoff = s.holdoff /\ t.block = s.block /\ t.st = "PENDING"
    BY DEF Running, States
  <2>2. fsms_admin_clear(n, s) = Ok(t)
    BY <1>2 DEF fsms_admin_clear
  <2> HIDE DEF t
  <2> QED BY <2>1, <2>2 DEF Good, Base, Holds, Tidy, Ok, Out
<1> QED BY <1>1, <1>2

(* Events that carry the port to block. *)
PortEvents == {"ADMIN_FS", "ADMIN_MS", "LOCAL_SF"}

(* What erps_fsm does for an event. *)
Handled(n, s, event, o) ==
  /\ Good(s, o)
  /\ event # "ADMIN_MS" /\ s.fuse = 0 =>
       /\ Base(s, o.sess) /\ (Tidy(s) => Tidy(o.sess))
       /\ event \notin PortEvents => Holds(s, o.sess)
       /\ event # "ADMIN_CLEAR" /\ Waits(n, s) => Waits(n, o.sess)
       /\ event \in {"WTR_EXP", "WTB_EXP"} => Waits(n, o.sess)
       /\ event = "ADMIN_FS" => o.sess.st = "FS"
       /\ event = "LOCAL_SF" => o.sess.st \in {"FS", "PROTECTION"} /\
                                (o.sess.st = "PROTECTION" => o.sess.block = s.event_block)
       /\ event = "LOCAL_CLEAR_SF" => o.sess.st # "PROTECTION"

(* Every handler that erps_fsm selects does what Handled says of its event. *)
LEMMA HandleKeeps ==
  ASSUME NEW n \in Nodes, NEW s \in Running, NEW event, NEW from,
         event \in PortEvents => s.event_block \in Ports
  PROVE  Handled(n, s, event, Handle(n, s, event, from))
<1> DEFINE o == Handle(n, s, event, from)
<1>1. CASE event = "ADMIN_CLEAR"
  <2>1. o = IF s.st = "PENDING" THEN Revert(n, s)
            ELSE IF s.st \in {"MS", "FS"} THEN fsms_admin_clear(n, s) ELSE Ignored(s)
    BY <1>1 DEF Handle
  <2>2. Good(s, o) /\ (s.fuse = 0 => Base(s, o.sess) /\ Holds(s, o.sess) /\ (Tidy(s) => Tidy(o.sess)))
    BY <2>1, RevertKeeps, ClearKeeps, UnchangedFine DEF Fine, Answered, Ignored
  <2> QED BY <1>1, <2>2 DEF Handled
<1>2. CASE event = "ADMIN_FS"
  <2>1. o = admin_fs(n, s)
    BY <1>2 DEF Handle
  <2> QED BY <1>2, <2>1, SfFsKeeps DEF Handled, PortEvents, Fine, Answered, Switched
<1>3. CASE event = "ADMIN_MS"
  <2>1. o \in {idle_admin_ms(n, s), pending_admin_ms(n, s), Ignored(s)}
    BY <1>3 DEF Handle
  <2> QED BY <1>3, <2>1, AdminMsType, UnchangedFine DEF Handled, PortEvents, Fine, Ignored
<1>4. CASE event = "LOCAL_SF"
  <2>1. o = IF s.st # "FS" THEN local_sf(n, s) ELSE Ignored(s)
    BY <1>4 DEF Handle
  <2>2. CASE s.st # "FS"
    BY <1>4, <2>1, <2>2, SfFsKeeps DEF Handled, PortEvents, Switched, Base, Tidy, Waits
  <2>3. CASE s.st = "FS"
    <3>1. Fine(n, s, o) /\ o.sess = s
      BY <2>1, <2>3, UnchangedFine DEF Ignored, Out
    <3> QED BY <1>4, <2>3, <3>1 DEF Handled, Fine, Answered
  <2> QED BY <2>2, <2>3
<1>5. CASE event \in {"WTR_EXP", "WTB_EXP"}
  <2>1. o = IF s.st = "PENDING" THEN Revert(n, s) ELSE Ignored(s)
    BY <1>5 DEF Handle
  <2>2. CASE s.st = "PENDING"
    BY <1>5, <2>1, <2>2, RevertKeeps DEF Handled, Fine, Answered
  <2>3. CASE s.st # "PENDING"
    <3>1. Fine(n, s, o) /\ o.sess = s
      BY <2>1, <2>3, UnchangedFine DEF Ignored, Out
    <3> QED BY <1>5, <2>3, <3>1 DEF Handled, Fine, Answered, Waits
  <2> QED BY <2>2, <2>3
<1>6. CASE event = "LOCAL_CLEAR_SF"
  <2>1. o = IF s.st = "PROTECTION" THEN GiveUp(n, s, "wtr") ELSE Ignored(s)
    BY <1>6 DEF Handle, protection_clear_sf
  <2>2. CASE s.st = "PROTECTION"
    <3>1. Fine(n, s, o)
      BY <2>1, <2>2, GiveUpKeeps
    <3>2. o.sess.st = "PENDING"
      <4> DEFINE q == Say(s, "NR")
                 t == [q EXCEPT !.guard = TRUE, !.st = "PENDING"]
      <4>1. q \in Running
        BY DEF Say, Running, Kinds
      <4>2. o.sess \in {t, [t EXCEPT !.wtr = TRUE], [t EXCEPT !.wtb = TRUE]}
        BY <2>1, <2>2 DEF GiveUp, Out
      <4> HIDE DEF q, o
      <4>3. t \in Running /\ t.st = "PENDING"
        BY <4>1 DEF Running, States
      <4> HIDE DEF t
      <4> QED BY <4>2, <4>3 DEF Running
    <3> QED BY <1>6, <3>1, <3>2 DEF Handled, Fine, Answered
  <2>3. CASE s.st # "PROTECTION"
    <3>1. Fine(n, s, o) /\ o.sess = s
      BY <2>1, <2>3, UnchangedFine DEF Ignored, Out
    <3> QED BY <1>6, <2>3, <3>1 DEF Handled, Fine, Answered
  <2> QED BY <2>2, <2>3
<1>7. CASE event \notin {"ADMIN_CLEAR", "ADMIN_FS", "ADMIN_MS", "LOCAL_SF", "WTR_EXP", "WTB_EXP", "LOCAL_CLEAR_SF"}
  <2>1. \/ o \in {Follow(n, s, "FS"), Follow(n, s, "PROTECTION_REMOTE"), Follow(n, s, "MS")}
        \/ o \in {ms_raps_ms(n, s), pending_nrrb(n, s), Ignored(s), Out(s, {}, "existed")}
        \/ s.st = "IDLE" /\ o = idle_nrrb(n, s)
        \/ s.st \in {"PENDING", "IDLE"} /\ o = Yield(n, s, from)
        \/ s.st \in {"PROTECTION_REMOTE", "MS", "FS"} /\ o = x_raps_nr(n, s)
    BY <1>7 DEF Handle
  <2>2. Fine(n, s, ms_raps_ms(n, s))
    BY GiveUpKeeps, UnchangedFine DEF ms_raps_ms
  <2>3. Fine(n, s, o)
    BY <2>1, <2>2, FollowKeeps, PendingNrrbKeeps, IdleNrrbKeeps, YieldKeeps, XNrKeeps, UnchangedFine
       DEF Ignored
  <2> QED BY <1>7, <2>3 DEF Handled, Fine, Answered
<1> QED BY <1>1, <1>2, <1>3, <1>4, <1>5, <1>6, <1>7

(* So does erps_fsm, whose update of the session may fail and disable it. *)
LEMMA FsmKeeps ==
  ASSUME NEW n \in Nodes, NEW s \in Running, NEW event, NEW from,
         event \in PortEvents => s.event_block \in Ports
  PROVE  Handled(n, s, event, erps_fsm(n, s, event, from))
<1> DEFINE o == Handle(n, s, event, from)
           q == o.sess
           t == Burn(q)
           u == [t EXCEPT !.enable = FALSE]
<1>1. Handled(n, s, event, o) /\ q \in Running /\ o.sent \subseteq Kinds /\ (q.enable => s.enable)
  BY HandleKeeps DEF Handled, Good
<1>2. erps_fsm(n, s, event, from) = IF o.ret # "success" THEN o
        ELSE IF NotAnswered(q) THEN Out(u, o.sent, "ipc") ELSE Out(t, o.sent, "success")
  BY DEF erps_fsm
<1>3. event # "ADMIN_MS" /\ s.fuse = 0 => q.fuse = 0
  BY <1>1 DEF Handled, Base
<1> HIDE DEF o
<1>4. Handled(n, s, event, Out(q, o.sent, "success"))
  BY <1>1 DEF Handled, Good, Out
<1> HIDE DEF q
<1>p. "east" \in Ports
  BY DEF Ports
<1>5. t \in Running /\ t.enable = q.enable /\ (q.fuse = 0 => t = q /\ ~NotAnswered(q))
  BY <1>1, <1>p, PrimType, PrimAnswered
<1> HIDE DEF t
<1>6. u \in Running /\ ~u.enable
  BY <1>5 DEF Running
<1> HIDE DEF u
<1>7. Good(s, Out(u, o.sent, "ipc")) /\ Good(s, Out(t, o.sent, "success"))
  BY <1>1, <1>5, <1>6 DEF Good, Out
<1>8. CASE event # "ADMIN_MS" /\ s.fuse = 0
  BY <1>1, <1>2, <1>3, <1>4, <1>5, <1>8
<1>9. CASE ~(event # "ADMIN_MS" /\ s.fuse = 0)
  BY <1>1, <1>2, <1>7, <1>9 DEF Handled
<1> QED BY <1>8, <1>9

-----------------------------------------------------------------------------
(* What a step of a node keeps of its session when all messages are answered. *)
Live(n, s, t) ==
  /\ t.fuse = 0 /\ t.enable = s.enable
  /\ t.holdoff => s.holdoff \/ holdoff
  /\ Tidy(s) => Tidy(t)
  /\ Waits(n, s) => Waits(n, t)
  /\ ~holdoff /\ Guarded(s) => Guarded(t)
Kept(n, s, o) == Good(s, o) /\ (s.fuse = 0 => Live(n, s, o.sess))

(* A port that fails: afterwards a node that protects blocks a failed port. *)
LEMMA PortFailedKeeps ==
  ASSUME NEW n \in Nodes, NEW s \in Running, NEW p \in Ports
  PROVE  /\ Kept(n, s, PortFailed(n, s, p))
         /\ s.fuse = 0 => Guarded(PortFailed(n, s, p).sess)
<1> DEFINE x == [s EXCEPT !.flag = @ \cup {p}, !.event_block = p]
           o == erps_fsm(n, x, "LOCAL_SF", n)
<1>1. /\ x \in Running /\ x.enable = s.enable /\ x.fuse = s.fuse /\ x.hw = s.hw /\ x.block = s.block
      /\ x.holdoff = s.holdoff /\ x.st = s.st /\ x.wtr = s.wtr /\ x.wtb = s.wtb
      /\ x.event_block = p /\ p \in x.flag
  BY DEF Running
<1>2. PortFailed(n, s, p) = o
  BY DEF PortFailed
<1> HIDE DEF x
<1>3. Handled(n, x, "LOCAL_SF", o)
  BY <1>1, FsmKeeps
<1> HIDE DEF o
<1>4. Good(s, o)
  BY <1>1, <1>3 DEF Handled, Good
<1>5. s.fuse = 0 => Guarded(o.sess)
  BY <1>1, <1>3 DEF Handled, Base, Guarded
<1>6. s.fuse = 0 => Live(n, s, o.sess)
  BY <1>1, <1>3, <1>5 DEF Handled, Base, Live, Tidy, Waits
<1> QED BY <1>2, <1>4, <1>5, <1>6 DEF Kept

(* erps_state_update for a port or CFM session that goes down, with and without
   a hold-off time. *)
LEMMA DownKeeps ==
  ASSUME NEW n \in Nodes, NEW s \in Running, NEW p \in Ports
  PROVE  /\ Kept(n, s, state_update_down(n, s, p))
         /\ s.fuse = 0 /\ ~holdoff => Guarded(state_update_down(n, s, p).sess)
<1>1. CASE holdoff
  <2> DEFINE x == [s EXCEPT !.flag = @ \cup {p}, !.event_block = p, !.holdoff = TRUE]
  <2>1. /\ x \in Running /\ x.enable = s.enable /\ x.fuse = s.fuse /\ x.hw = s.hw /\ x.block = s.block
        /\ x.st = s.st /\ x.wtr = s.wtr /\ x.wtb = s.wtb
    BY DEF Running
  <2>2. state_update_down(n, s, p) = Ok(x)
    BY <1>1 DEF state_update_down
  <2> HIDE DEF x
  <2> QED BY <1>1, <2>1, <2>2 DEF Kept, Good, Live, Tidy, Waits, Ok, Out
<1>2. CASE ~holdoff
  BY <1>2, PortFailedKeeps DEF state_update_down
<1> QED BY <1>1, <1>2

(* erps_state_update for one that recovers: the node turns to the other port if
   that one is failed, and gives up its request otherwise. *)
LEMMA RecoveredKeeps ==
  ASSUME NEW n \in Nodes, NEW s \in Running, NEW p \in Ports
  PROVE  Kept(n, s, PortRecovered(n, s, p))
<1> DEFINE t == [s EXCEPT !.flag = @ \ {p}]
           x == [t EXCEPT !.event_block = Other(p)]
           y == [t EXCEPT !.event_block = None]
<1>0. Other(p) \in Ports
  BY OtherPort
<1>1. /\ t \in Running /\ t.enable = s.enable /\ t.fuse = s.fuse /\ t.hw = s.hw /\ t.block = s.block
      /\ t.holdoff = s.holdoff /\ t.st = s.st /\ t.wtr = s.wtr /\ t.wtb = s.wtb
      /\ t.event_block = s.event_block /\ t.flag = s.flag \ {p}
  BY DEF Running
<1>2. PortRecovered(n, s, p) =
        IF s.st # "PROTECTION" \/ s.event_block # p THEN Ok(t)
        ELSE IF Other(p) \in t.flag THEN erps_fsm(n, x, "LOCAL_SF", n)
        ELSE erps_fsm(n, y, "LOCAL_CLEAR_SF", n)
  BY DEF PortRecovered
<1> HIDE DEF t
<1>3. /\ x \in Running /\ x.enable = s.enable /\ x.fuse = s.fuse /\ x.hw = s.hw /\ x.block = s.block
      /\ x.holdoff = s.holdoff /\ x.st = s.st /\ x.wtr = s.wtr /\ x.wtb = s.wtb
      /\ x.event_block = Other(p) /\ x.flag = t.flag
  BY <1>0, <1>1 DEF Running
<1>4. /\ y \in Running /\ y.enable = s.enable /\ y.fuse = s.fuse /\ y.hw = s.hw /\ y.block = s.block
      /\ y.holdoff = s.holdoff /\ y.st = s.st /\ y.wtr = s.wtr /\ y.wtb = s.wtb
  BY <1>1 DEF Running
<1> HIDE DEF x, y
<1>5. CASE s.st # "PROTECTION" \/ s.event_block # p
  <2>1. Guarded(s) => Guarded(t)
    BY <1>1, <1>5 DEF Guarded
  <2>2. Kept(n, s, Ok(t))
    BY <1>1, <2>1 DEF Kept, Good, Live, Tidy, Waits, Ok, Out
  <2> QED BY <1>2, <1>5, <2>2
<1>6. CASE s.st = "PROTECTION" /\ s.event_block = p /\ Other(p) \in t.flag
  <2> DEFINE o == erps_fsm(n, x, "LOCAL_SF", n)
  <2>1. Handled(n, x, "LOCAL_SF", o)
    BY <1>0, <1>3, FsmKeeps
  <2>2. PortRecovered(n, s, p) = o
    BY <1>2, <1>6
  <2> HIDE DEF o
  <2>3. Good(s, o)
    BY <1>3, <2>1 DEF Handled, Good
  <2>4. s.fuse = 0 => Guarded(o.sess)
    BY <1>3, <1>6, <2>1 DEF Handled, Base, Guarded
  <2>5. s.fuse = 0 => Live(n, s, o.sess)
    BY <1>3, <2>1, <2>4 DEF Handled, Base, Live, Tidy, Waits
  <2> QED BY <2>2, <2>3, <2>5 DEF Kept
<1>7. CASE s.st = "PROTECTION" /\ s.event_block = p /\ Other(p) \notin t.flag
  <2> DEFINE o == erps_fsm(n, y, "LOCAL_CLEAR_SF", n)
  <2>1. Handled(n, y, "LOCAL_CLEAR_SF", o)
    BY <1>4, FsmKeeps DEF PortEvents
  <2>2. PortRecovered(n, s, p) = o
    BY <1>2, <1>7
  <2> HIDE DEF o
  <2>3. Good(s, o)
    BY <1>4, <2>1 DEF Handled, Good
  <2>4. s.fuse = 0 => Guarded(o.sess)
    BY <1>4, <2>1 DEF Handled, Guarded
  <2>5. s.fuse = 0 => Live(n, s, o.sess)
    BY <1>4, <2>1, <2>4 DEF Handled, Base, Live, Tidy, Waits
  <2> QED BY <2>2, <2>3, <2>5 DEF Kept
<1> QED BY <1>5, <1>6, <1>7

(* So does one that comes up, which counts as a failure if it is still down. *)
LEMMA UpKeeps ==
  ASSUME NEW n \in Nodes, NEW s \in Running, NEW p \in Ports, NEW dn
  PROVE  Kept(n, s, state_update_up(n, s, p, dn))
BY RecoveredKeeps, PortFailedKeeps DEF state_update_up

(* erps_link_down_handler.  The port that it blocks may not be the failed one,
   hence nothing is said of Guarded; it runs only with a hold-off time. *)
LEMMA LinkDownKeeps ==
  ASSUME NEW n \in Nodes, NEW s \in Running, NEW dn
  PROVE  /\ Good(s, link_down_handler(n, s, dn))
         /\ holdoff /\ s.fuse = 0 => Live(n, s, link_down_handler(n, s, dn).sess)
<1>1. CASE Failed(dn) = {}
  BY <1>1 DEF link_down_handler, Good, Live, Ok, Out
<1>2. CASE Failed(dn) # {}
  <2>1. PICK p \in Ports : link_down_handler(n, s, dn) = erps_fsm(n, [s EXCEPT !.event_block = p], "LOCAL_SF", n)
    BY <1>2 DEF link_down_handler, Ports
  <2> DEFINE x == [s EXCEPT !.event_block = p]
             o == erps_fsm(n, x, "LOCAL_SF", n)
  <2>2. /\ x \in Running /\ x.enable = s.enable /\ x.fuse = s.fuse /\ x.hw = s.hw /\ x.block = s.block
        /\ x.holdoff = s.holdoff /\ x.st = s.st /\ x.wtr = s.wtr /\ x.wtb = s.wtb /\ x.event_block = p
    BY DEF Running
  <2>3. link_down_handler(n, s, dn) = o
    BY <2>1
  <2> HIDE DEF x
  <2>4. Handled(n, x, "LOCAL_SF", o)
    BY <2>2, FsmKeeps
  <2> HIDE DEF o
  <2> QED BY <2>2, <2>3, <2>4 DEF Handled, Good, Base, Live, Tidy, Waits
<1> QED BY <1>1, <1>2

(* A session that is enabled with open ports blocks one and waits. *)
LEMMA InitializeKeeps ==
  ASSUME NEW n \in Nodes, NEW s \in Running
  PROVE  LET o == Initialize(n, s)
         IN /\ Good(s, o)
            /\ s.fuse = 0 => /\ o.sess.fuse = 0 /\ o.sess.enable = s.enable /\ o.sess.holdoff = s.holdoff
                             /\ o.sess.st = "PENDING" /\ Waits(n, o.sess)
                             /\ s.hw = {} => Tidy(o.sess)
<1> DEFINE r == StopWaits(s)
           x == [r EXCEPT !.guard = FALSE]
           p == IF role[n] = "nonowner" THEN "west" ELSE rpl[n]
           b == Block(x, p)
           c == [b EXCEPT !.block = p]
           q == Say(c, "NR")
           v == [q EXCEPT !.wtr = Owner(n), !.st = "PENDING"]
<1>1. p \in Ports /\ "NR" \in Kinds /\ "PENDING" \in States /\ Owner(n) \in BOOLEAN
  BY RplPort, ErpsAssumption DEF Ports, Kinds, States, Owner
<1>2. r \in Running /\ r.enable = s.enable /\ r.fuse = s.fuse /\ r.hw = s.hw /\ r.holdoff = s.holdoff
  BY DEF StopWaits, Running
<1>3. Initialize(n, s) = IF NotAnswered(x) THEN Out(IF role[n] = "owner" THEN b ELSE c, {}, "ipc")
                         ELSE Out(v, {"NR"}, "success")
  BY DEF Initialize
<1> HIDE DEF r, p
<1>4. x \in Running /\ x.enable = s.enable /\ x.fuse = s.fuse /\ x.hw = s.hw /\ x.holdoff = s.holdoff
  BY <1>2 DEF Running
<1> HIDE DEF x
<1>5. b \in Running /\ b.enable = s.enable
  BY <1>1, <1>4, PrimType
<1>6. s.fuse = 0 => b = [x EXCEPT !.hw = x.hw \cup {p}] /\ ~NotAnswered(x)
  BY <1>1, <1>4, PrimAnswered
<1>7. s.fuse = 0 => b.fuse = 0 /\ b.holdoff = s.holdoff /\ b.hw = s.hw \cup {p}
  BY <1>4, <1>6 DEF Running
<1> HIDE DEF b
<1>8. c \in Running /\ c.enable = s.enable /\ c.fuse = b.fuse /\ c.holdoff = b.holdoff /\ c.hw = b.hw /\ c.block = p
  BY <1>1, <1>5 DEF Running
<1> HIDE DEF c
<1>9. q \in Running /\ q.enable = s.enable /\ q.fuse = b.fuse /\ q.holdoff = b.holdoff /\ q.hw = b.hw /\ q.block = p
  BY <1>1, <1>8 DEF Say, Running
<1> HIDE DEF q
<1>10. /\ v \in Running /\ v.enable = s.enable /\ v.fuse = b.fuse /\ v.holdoff = b.holdoff /\ v.hw = b.hw
       /\ v.block = p /\ v.st = "PENDING" /\ v.wtr = Owner(n)
  BY <1>1, <1>9 DEF Running
<1> HIDE DEF v
<1>11. Good(s, Out(b, {}, "ipc")) /\ Good(s, Out(c, {}, "ipc")) /\ Good(s, Out(v, {"NR"}, "success"))
  BY <1>1, <1>5, <1>8, <1>10 DEF Good, Out
<1>12. Waits(n, v) /\ (s.fuse = 0 /\ s.hw = {} => Tidy(v))
  BY <1>7, <1>10 DEF Waits, Tidy
<1> QED BY <1>3, <1>6, <1>7, <1>10, <1>11, <1>12 DEF Out

(* erps_init_session with any set of failed ports. *)
LEMMA InitSessionKeeps ==
  ASSUME NEW n \in Nodes, NEW s \in Running, NEW d \in SUBSET Ports
  PROVE  LET o == init_session(n, s, d)
         IN /\ Good(s, o)
            /\ s.fuse = 0 /\ s.st # "PROTECTION" => Live(n, s, o.sess) /\ (~holdoff => Guarded(o.sess))
<1> DEFINE x == [s EXCEPT !.flag = {}]
           e == IF "east" \in d THEN PortFailed(n, x, "east") ELSE Ok(x)
           q == e.sess
           f == PortFailed(n, q, "west")
<1>0. "east" \in Ports /\ "west" \in Ports
  BY DEF Ports
<1>1. /\ x \in Running /\ x.enable = s.enable /\ x.fuse = s.fuse /\ x.hw = s.hw /\ x.block = s.block
      /\ x.holdoff = s.holdoff /\ x.st = s.st /\ x.wtr = s.wtr /\ x.wtb = s.wtb
  BY DEF Running
<1>2. init_session(n, s, d) = IF e.ret # "success" \/ "west" \notin d THEN e
                              ELSE Out(f.sess, e.sent \cup f.sent, f.ret)
  BY DEF init_session, Then
<1> HIDE DEF x
<1>3. Kept(n, x, e) /\ (s.fuse = 0 /\ s.st # "PROTECTION" => Guarded(e.sess))
  <2>1. CASE "east" \in d
    BY <1>0, <1>1, <2>1, PortFailedKeeps
  <2>2. CASE "east" \notin d
    <3>1. Kept(n, x, Ok(x))
      BY <1>1 DEF Kept, Good, Live, Ok, Out
    <3> QED BY <1>1, <2>2, <3>1 DEF Guarded, Ok, Out
  <2> QED BY <2>1, <2>2
<1>4. Good(s, e) /\ q \in Running /\ e.sent \subseteq Kinds /\ (q.enable => s.enable)
  BY <1>1, <1>3 DEF Kept, Good
<1>5. s.fuse = 0 /\ s.st # "PROTECTION" => Live(n, s, q) /\ Guarded(q)
  BY <1>1, <1>3 DEF Kept, Live, Tidy, Waits
<1> HIDE DEF e, q
<1>6. Kept(n, q, f) /\ (q.fuse = 0 => Guarded(f.sess))
  BY <1>0, <1>4, PortFailedKeeps
<1> HIDE DEF f
<1>7. Good(s, Out(f.sess, e.sent \cup f.sent, f.ret))
  BY <1>4, <1>6 DEF Kept, Good, Out
<1>8. s.fuse = 0 /\ s.st # "PROTECTION" => Live(n, s, f.sess) /\ Guarded(f.sess)
  BY <1>5, <1>6 DEF Kept, Live
<1> QED BY <1>2, <1>4, <1>5, <1>7, <1>8 DEF Out, q

(* The whole of enabling, answered and not. *)
LEMMA EnableSessionKeeps ==
  ASSUME NEW n \in Nodes, NEW s \in Running, NEW d \in SUBSET Ports
  PROVE  LET o == session_enable(n, s, d)
         IN /\ o.sess \in Running /\ o.sent \subseteq Kinds
            /\ s.fuse = 0 /\ s.hw = {} =>
                 /\ o.sess.enable = TRUE /\ Tidy(o.sess) /\ Waits(n, o.sess)
                 /\ o.sess.holdoff => s.holdoff \/ holdoff
                 /\ ~holdoff => Guarded(o.sess)
<1> DEFINE b == Burn(s)
           x == [b EXCEPT !.enable = TRUE]
           i == Initialize(n, x)
           y == i.sess
           o == init_session(n, y, d)
<1>0. "east" \in Ports
  BY DEF Ports
<1>1. b \in Running /\ (s.fuse = 0 => b = s /\ ~NotAnswered(s))
  BY <1>0, PrimType, PrimAnswered
<1>2. session_enable(n, s, d) = IF NotAnswered(s) THEN Out(b, {}, "ipc")
                                ELSE Out(o.sess, i.sent \cup o.sent, o.ret)
  BY DEF session_enable, Then
<1> HIDE DEF b
<1>3. x \in Running /\ x.enable = TRUE /\ x.fuse = b.fuse /\ x.hw = b.hw /\ x.holdoff = b.holdoff
  BY <1>1 DEF Running
<1> HIDE DEF x
<1>4. /\ Good(x, i)
      /\ x.fuse = 0 => /\ y.fuse = 0 /\ y.enable = x.enable /\ y.holdoff = x.holdoff
                       /\ y.st = "PENDING" /\ Waits(n, y) /\ (x.hw = {} => Tidy(y))
  BY <1>3, InitializeKeeps
<1>5. y \in Running /\ i.sent \subseteq Kinds
  BY <1>4 DEF Good
<1> HIDE DEF i, y
<1>6. /\ Good(y, o)
      /\ y.fuse = 0 /\ y.st # "PROTECTION" => Live(n, y, o.sess) /\ (~holdoff => Guarded(o.sess))
  BY <1>5, InitSessionKeeps
<1> HIDE DEF o
<1>7. o.sess \in Running /\ i.sent \cup o.sent \subseteq Kinds
  BY <1>5, <1>6 DEF Good
<1>8. s.fuse = 0 /\ s.hw = {} =>
        /\ o.sess.enable = TRUE /\ Tidy(o.sess) /\ Waits(n, o.sess)
        /\ o.sess.holdoff => s.holdoff \/ holdoff
        /\ ~holdoff => Guarded(o.sess)
  BY <1>1, <1>3, <1>4, <1>6 DEF Live
<1> QED BY <1>1, <1>2, <1>7, <1>8 DEF Out

-----------------------------------------------------------------------------
Budgets == [fail : 0 .. MaxFail, far : 0 .. MaxFar, command : 0 .. MaxCommand,
            cycle : 0 .. MaxCycle, hal : 0 .. MaxHal]
Downs == [Nodes -> SUBSET (Ports \X Signals)]

(* Session s of node n, of which c are counted as enabled. *)
NodeOK(n, s, c) ==
  IF s.enable
  THEN c = 1 /\ Tidy(s) /\ (s.holdoff => holdoff) /\ (~holdoff => Guarded(s))
  ELSE c = 0 /\ s.hw = {} /\ ~s.holdoff /\ ~s.wtr /\ ~s.wtb

(* No manual switch was given. *)
NoSwitch == "MS" \in Commands => budget.command = MaxCommand

(* Nodes of which it does not hold, and one of which it holds. *)
Shaken == {n \in Nodes : ~NodeOK(n, sess[n], enabled[n])}
Trusted(n) == NoSwitch /\ NodeOK(n, sess[n], enabled[n])

(* A message that is not answered costs one node at most. *)
ErpsInv ==
  /\ ErpsTypeOK
  /\ Attended
  /\ NoSwitch => Cardinality(Shaken) <= MaxHal - budget.hal
  /\ Undisturbed => \A n \in Nodes : sess[n].enable => Waits(n, sess[n])

(* Sets of nodes are finite; one more node makes one more element at most. *)
LEMMA NodeSets ==
  /\ \A A \in SUBSET Nodes : Cardinality(A) \in Nat /\ (Cardinality(A) = 0 => A = {})
  /\ \A A \in SUBSET Nodes : \A B \in SUBSET A : Cardinality(B) <= Cardinality(A)
  /\ \A A \in SUBSET Nodes, n \in Nodes : \A B \in SUBSET (A \cup {n}) :
       Cardinality(B) <= Cardinality(A) + 1
<1>1. IsFiniteSet(Nodes)
  BY ErpsAssumption, FS_Interval DEF Nodes
<1>2. ASSUME NEW A \in SUBSET Nodes
      PROVE  IsFiniteSet(A) /\ Cardinality(A) \in Nat /\ (Cardinality(A) = 0 => A = {})
  <2>1. IsFiniteSet(A)
    BY <1>1, FS_Subset
  <2> QED BY <2>1, FS_CardinalityType, FS_EmptySet
<1>3. ASSUME NEW A \in SUBSET Nodes, NEW B \in SUBSET A PROVE Cardinality(B) <= Cardinality(A)
  BY <1>2, FS_Subset
<1>4. ASSUME NEW A \in SUBSET Nodes, NEW n \in Nodes, NEW B \in SUBSET (A \cup {n})
      PROVE  Cardinality(B) <= Cardinality(A) + 1
  <2>1. Cardinality(B) <= Cardinality(A \cup {n})
    BY <1>3
  <2>2. Cardinality(A \cup {n}) = IF n \in A THEN Cardinality(A) ELSE Cardinality(A) + 1
    BY <1>2, FS_AddElement
  <2>3. Cardinality(A) \in Nat /\ Cardinality(B) \in Nat
    BY <1>2
  <2> QED BY <2>1, <2>2, <2>3
<1> QED BY <1>2, <1>3, <1>4

(* Node n runs a handler that returns o; the k-th message is not answered. *)
RunAs(n, o, k, w, h, b) ==
  /\ k \in 0 .. (IF b.hal > 0 THEN MaxMessages ELSE 0)
  /\ o.sess.fuse = 0
  /\ sess' = [sess EXCEPT ![n] = o.sess]
  /\ wire' \in Transmit(n, o.sent, w)
  /\ heard' = Forget(n, o.sess, h)
  /\ budget' = [b EXCEPT !.hal = IF k > 0 THEN @ - 1 ELSE @]

(* raps_send puts R-APS messages on the wire. *)
LEMMA TransmitType ==
  ASSUME NEW n \in Nodes, NEW sent \in SUBSET Kinds, NEW w \in SUBSET Frames,
         NEW v \in Transmit(n, sent, w)
  PROVE  v \subseteq Frames
BY DEF Transmit, Frames

(* Running a handler takes at most one from what may stay unanswered. *)
LEMMA RunBudget ==
  ASSUME NEW b \in Budgets, NEW k \in 0 .. (IF b.hal > 0 THEN MaxMessages ELSE 0)
  PROVE  LET c == [b EXCEPT !.hal = IF k > 0 THEN @ - 1 ELSE @]
         IN /\ c \in Budgets /\ c.command = b.command
            /\ c.hal <= b.hal /\ (c.hal = b.hal => k = 0) /\ (k > 0 => c.hal = b.hal - 1)
<1>1. MaxHal \in Nat /\ b.hal \in 0 .. MaxHal /\ k \in Nat /\ (k > 0 => b.hal > 0)
  BY ErpsAssumption DEF Budgets, MaxMessages
<1> DEFINE j == IF k > 0 THEN b.hal - 1 ELSE b.hal
<1>2. j \in 0 .. MaxHal /\ j <= b.hal /\ (j = b.hal => k = 0) /\ (k > 0 => j = b.hal - 1)
  BY <1>1
<1> HIDE DEF j
<1>3. [b EXCEPT !.hal = j] \in Budgets /\ [b EXCEPT !.hal = j].command = b.command /\ [b EXCEPT !.hal = j].hal = j
  BY <1>2 DEF Budgets
<1>4. [b EXCEPT !.hal = IF k > 0 THEN @ - 1 ELSE @] = [b EXCEPT !.hal = j]
  BY DEF j
<1> QED BY <1>2, <1>3, <1>4

(* The types of the variables in a state that satisfies the invariant. *)
LEMMA InvTypes ==
  ASSUME ErpsInv, NEW n \in Nodes
  PROVE  /\ sess \in [Nodes -> Sessions] /\ sess[n] \in Sessions /\ enabled \in [Nodes -> Nat]
         /\ down \in Downs /\ wire \in SUBSET Frames /\ heard \in SUBSET (Nodes \X Nodes)
         /\ budget \in Budgets
BY DEF ErpsInv, ErpsTypeOK, Downs, Budgets

(* As long as every message was answered all nodes are in order. *)
LEMMA AnsweredTrusted ==
  ASSUME ErpsInv, HalAnswers, NoSwitch, NEW n \in Nodes
  PROVE  Trusted(n)
<1>1. Cardinality(Shaken) <= 0 /\ Cardinality(Shaken) \in Nat
  BY NodeSets, InvTypes, ErpsAssumption DEF ErpsInv, HalAnswers, Budgets, Shaken
<1>2. Shaken = {}
  BY <1>1, NodeSets DEF Shaken
<1> QED BY <1>2 DEF Shaken, Trusted

(* In particular when no operator has given a command. *)
LEMMA UndisturbedTrusted == ASSUME ErpsInv, Undisturbed, NEW n \in Nodes PROVE Trusted(n)
BY AnsweredTrusted DEF Undisturbed, NoSwitch

(* A session that a handler is given differs from the node's only in fuse. *)
LEMMA SessionFused ==
  ASSUME NEW s \in Sessions, NEW k \in Nat
  PROVE  LET y == [s EXCEPT !.fuse = k]
         IN /\ y \in Running /\ y.fuse = k /\ (k = 0 => y = s)
            /\ y.st = s.st /\ y.block = s.block /\ y.event_block = s.event_block /\ y.flag = s.flag
            /\ y.hw = s.hw /\ y.enable = s.enable /\ y.holdoff = s.holdoff /\ y.wtr = s.wtr /\ y.wtb = s.wtb
BY DEF Sessions, Running

(* A node that runs a handler keeps the invariant if the handler does so for the
   node's session; the other nodes are not touched. *)
LEMMA RunKeeps ==
  ASSUME ErpsInv, NEW n \in Nodes, NEW o, NEW k, NEW w \in SUBSET Frames,
         NEW h \in SUBSET (Nodes \X Nodes), NEW b \in Budgets,
         b.hal = budget.hal, b.command <= budget.command,
         RunAs(n, o, k, w, h, b), o.sess \in Running, o.sent \subseteq Kinds,
         down' \in Downs, enabled' \in [Nodes -> Nat],
         \A m \in Nodes \ {n} : enabled'[m] = enabled[m],
         o.sess.enable => enabled'[n] > 0,
         Trusted(n) /\ k = 0 /\ ("MS" \in Commands => b.command = budget.command)
           => NodeOK(n, o.sess, enabled'[n]),
         Undisturbed /\ k = 0 /\ b.command = budget.command /\ o.sess.enable => Waits(n, o.sess)
  PROVE  ErpsInv'
<1> DEFINE t == o.sess
<1>1. t \in Sessions /\ sess' = [sess EXCEPT ![n] = t]
  BY DEF RunAs, Running, Sessions
<1>2. budget' \in Budgets /\ budget'.command = b.command /\ budget'.hal <= b.hal /\ (budget'.hal = b.hal => k = 0)
      /\ (k > 0 => budget'.hal = b.hal - 1)
  BY RunBudget DEF RunAs
<1>3. wire' \subseteq Frames /\ heard' \subseteq Nodes \X Nodes
  BY TransmitType DEF RunAs, Forget
<1> HIDE DEF t
<1>4. sess' \in [Nodes -> Sessions] /\ sess'[n] = t /\ \A m \in Nodes \ {n} : sess'[m] = sess[m]
  BY <1>1, InvTypes
<1>5. ErpsTypeOK'
  BY <1>2, <1>3, <1>4 DEF ErpsTypeOK, Downs, Budgets
<1>6. Attended'
  BY <1>4 DEF ErpsInv, Attended, t
<1>7. budget.hal \in 0 .. MaxHal /\ budget.command \in 0 .. MaxCommand /\ b.command \in 0 .. MaxCommand
      /\ budget'.hal \in 0 .. MaxHal /\ MaxHal \in Nat /\ MaxCommand \in Nat
  BY <1>2, InvTypes, ErpsAssumption DEF Budgets
<1>8. HalAnswers' => HalAnswers /\ k = 0
  BY <1>2, <1>7 DEF HalAnswers
<1>9. budget'.command = MaxCommand => budget.command = MaxCommand /\ b.command = budget.command
  BY <1>2, <1>7
<1>10. NoSwitch' => NoSwitch /\ ("MS" \in Commands => b.command = budget.command)
  BY <1>9 DEF NoSwitch
<1>11. Undisturbed' => Undisturbed /\ k = 0 /\ b.command = budget.command
  BY <1>8, <1>9 DEF Undisturbed
<1>12. ASSUME NoSwitch' PROVE Cardinality(Shaken') <= MaxHal - budget'.hal
  <2>1. ASSUME NEW m \in Nodes \ {n} PROVE NodeOK(m, sess'[m], enabled'[m]) <=> NodeOK(m, sess[m], enabled[m])
    BY <1>4 DEF NodeOK
  <2>2. k = 0 /\ NodeOK(n, sess[n], enabled[n]) => NodeOK(n, sess'[n], enabled'[n])
    BY <1>4, <1>10, <1>12 DEF Trusted, t
  <2>3. Shaken' = {m \in Nodes : ~NodeOK(m, sess'[m], enabled'[m])}
    BY DEF Shaken, NodeOK, Tidy, Guarded
  <2>4. Shaken' \subseteq Shaken \cup {n} /\ (k = 0 => Shaken' \subseteq Shaken) /\ Shaken \subseteq Nodes
    BY <2>1, <2>2, <2>3 DEF Shaken
  <2>5. /\ Cardinality(Shaken) \in Nat /\ Cardinality(Shaken') \in Nat
        /\ Cardinality(Shaken') <= Cardinality(Shaken) + 1
        /\ k = 0 => Cardinality(Shaken') <= Cardinality(Shaken)
    BY <2>3, <2>4, NodeSets
  <2>6. Cardinality(Shaken) <= MaxHal - budget.hal
    BY <1>10, <1>12 DEF ErpsInv
  <2>7. k \in Nat
    BY DEF RunAs, MaxMessages
  <2>8. CASE k = 0
    BY <1>2, <1>7, <2>5, <2>6, <2>8
  <2>9. CASE k > 0
    BY <1>2, <1>7, <2>5, <2>6, <2>9
  <2> QED BY <2>7, <2>8, <2>9
<1>13. ASSUME Undisturbed', NEW m \in Nodes, sess'[m].enable PROVE Waits(m, sess'[m])
  <2>1. CASE m = n
    BY <1>4, <1>11, <1>13, <2>1 DEF t
  <2>2. CASE m # n
    BY <1>4, <1>11, <1>13, <2>2 DEF ErpsInv
  <2> QED BY <2>1, <2>2
<1>14. (NoSwitch => Cardinality(Shaken) <= MaxHal - budget.hal)'
  BY <1>12
<1>15. (Undisturbed => \A m \in Nodes : sess[m].enable => Waits(m, sess[m]))'
  BY <1>13 DEF Waits
<1> QED BY <1>5, <1>6, <1>14, <1>15 DEF ErpsInv

(* The message that is not answered has a number. *)
LEMMA RunCount ==
  ASSUME NEW n, NEW o, NEW k, NEW w, NEW h, NEW b, RunAs(n, o, k, w, h, b)
  PROVE  k \in Nat
BY DEF RunAs, MaxMessages

(* The same for the handlers that keep Live, when no command is given. *)
LEMMA KeptRun ==
  ASSUME ErpsInv, NEW n \in Nodes, NEW o, NEW k, NEW w \in SUBSET Frames,
         NEW h \in SUBSET (Nodes \X Nodes), NEW b \in Budgets,
         b.hal = budget.hal, b.command = budget.command,
         RunAs(n, o, k, w, h, b), Good([sess[n] EXCEPT !.fuse = k], o),
         down' \in Downs, enabled' = enabled,
         Trusted(n) /\ k = 0 => IF sess[n].enable THEN Live(n, sess[n], o.sess) ELSE o.sess = sess[n]
  PROVE  ErpsInv'
<1> DEFINE y == [sess[n] EXCEPT !.fuse = k]
<1>1. k \in Nat
  BY RunCount
<1>2. y \in Running /\ y.enable = sess[n].enable
  BY <1>1, InvTypes, SessionFused
<1> HIDE DEF y
<1>3. o.sess \in Running /\ o.sent \subseteq Kinds /\ (o.sess.enable => sess[n].enable)
  BY <1>2 DEF Good, y
<1>4. enabled' \in [Nodes -> Nat] /\ \A m \in Nodes \ {n} : enabled'[m] = enabled[m]
  BY InvTypes
<1>5. o.sess.enable => enabled'[n] > 0
  BY <1>3 DEF ErpsInv, Attended
<1>6. Trusted(n) /\ k = 0 => NodeOK(n, o.sess, enabled'[n])
  BY DEF Trusted, NodeOK, Live
<1>7. Undisturbed => Trusted(n)
  BY UndisturbedTrusted
<1>8. Undisturbed /\ k = 0 /\ o.sess.enable => Waits(n, o.sess)
  BY <1>3, <1>7 DEF ErpsInv, Live
<1>9. b.command <= budget.command
  BY InvTypes, ErpsAssumption DEF Budgets
<1> QED BY <1>3, <1>4, <1>5, <1>6, <1>8, <1>9, RunKeeps

(* "erps enable" keeps the invariant: the ports were open and nothing was counted. *)
LEMMA EnableInv == ASSUME ErpsInv, NEW n \in Nodes, Enable(n) PROVE ErpsInv'
<1> DEFINE d == Failed(down[n])
           b == [budget EXCEPT !.cycle = @ - 1]
           y(k) == [sess[n] EXCEPT !.fuse = k]
<1>1. PICK k : RunAs(n, session_enable(n, y(k), d), k, Arriving, heard, b)
  BY DEF Enable, Run, RunAs
<1> DEFINE o == session_enable(n, y(k), d)
<1>2. d \in SUBSET Ports /\ Arriving \in SUBSET Frames /\ heard \in SUBSET (Nodes \X Nodes)
  BY InvTypes DEF Failed, Arriving
<1>3. b \in Budgets /\ b.hal = budget.hal /\ b.command = budget.command /\ b.command <= budget.command
  BY InvTypes, ErpsAssumption DEF Budgets, Enable
<1>4. k \in Nat
  BY <1>1, RunCount
<1>5. y(k) \in Running /\ y(k).fuse = k /\ y(k).hw = sess[n].hw /\ y(k).holdoff = sess[n].holdoff
  BY <1>4, InvTypes, SessionFused
<1> HIDE DEF d, b, y
<1>6. /\ o.sess \in Running /\ o.sent \subseteq Kinds
      /\ k = 0 /\ sess[n].hw = {} =>
           /\ o.sess.enable = TRUE /\ Tidy(o.sess) /\ Waits(n, o.sess)
           /\ o.sess.holdoff => sess[n].holdoff \/ holdoff
           /\ ~holdoff => Guarded(o.sess)
  BY <1>2, <1>5, EnableSessionKeeps, ZenonT(60)
<1>7. RunAs(n, o, k, Arriving, heard, b)
  BY <1>1
<1> HIDE DEF o
<1>8. /\ enabled' \in [Nodes -> Nat] /\ enabled'[n] = enabled[n] + 1 /\ enabled[n] \in Nat
      /\ \A m \in Nodes \ {n} : enabled'[m] = enabled[m]
      /\ down' \in Downs
  BY InvTypes DEF Enable
<1>9. Trusted(n) /\ k = 0 => NodeOK(n, o.sess, enabled'[n])
  BY <1>6, <1>8 DEF Trusted, NodeOK, Enable
<1>10. Undisturbed /\ k = 0 /\ o.sess.enable => Waits(n, o.sess)
  BY <1>6, UndisturbedTrusted DEF NodeOK, Enable, Trusted
<1>11. enabled'[n] > 0
  BY <1>8
<1> QED BY <1>2, <1>3, <1>6, <1>7, <1>8, <1>9, <1>10, <1>11, RunKeeps

(* "erps disable" of one session. *)
DisableSession(s) ==
  IF NotAnswered(s) THEN Out(Burn(s), {}, "ipc")
  ELSE Ok([StopWaits(Burn(s)) EXCEPT !.enable = FALSE, !.st = "INIT", !.hw = {},
             !.guard = FALSE, !.holdoff = FALSE, !.keepalive = FALSE])

(* Disabling stops the timers and opens the ports if it is answered. *)
LEMMA DisableSessionKeeps ==
  ASSUME NEW s \in Running
  PROVE  LET o == DisableSession(s)
         IN /\ o.sess \in Running /\ o.sent \subseteq Kinds /\ (o.sess.enable => s.enable)
            /\ s.fuse = 0 => /\ ~o.sess.enable /\ o.sess.hw = {} /\ ~o.sess.holdoff
                             /\ ~o.sess.wtr /\ ~o.sess.wtb
<1> DEFINE b == Burn(s)
           q == StopWaits(b)
           t == [q EXCEPT !.enable = FALSE, !.st = "INIT", !.hw = {}, !.guard = FALSE,
                          !.holdoff = FALSE, !.keepalive = FALSE]
<1>0. "east" \in Ports
  BY DEF Ports
<1>1. b \in Running /\ b.enable = s.enable /\ (s.fuse = 0 => ~NotAnswered(s))
  BY <1>0, PrimType, PrimAnswered
<1>2. DisableSession(s) = IF NotAnswered(s) THEN Out(b, {}, "ipc") ELSE Ok(t)
  BY DEF DisableSession
<1> HIDE DEF b
<1>3. q \in Running /\ ~q.wtr /\ ~q.wtb
  BY <1>1 DEF StopWaits, Running
<1> HIDE DEF q
<1>4. t \in Running /\ ~t.enable /\ t.hw = {} /\ ~t.holdoff /\ t.wtr = q.wtr /\ t.wtb = q.wtb
  BY <1>3 DEF Running, States
<1> HIDE DEF t
<1> QED BY <1>1, <1>2, <1>3, <1>4 DEF Ok, Out

(* "erps disable" keeps the invariant: only a session that is off is counted out. *)
LEMMA DisableInv == ASSUME ErpsInv, NEW n \in Nodes, Disable(n) PROVE ErpsInv'
<1> DEFINE b == [budget EXCEPT !.cycle = @ - 1]
           y(k) == [sess[n] EXCEPT !.fuse = k]
<1>1. PICK k : RunAs(n, DisableSession(y(k)), k, wire, heard, b)
  BY DEF Disable, Run, RunAs, DisableSession
<1> DEFINE o == DisableSession(y(k))
<1>2. wire \in SUBSET Frames /\ heard \in SUBSET (Nodes \X Nodes)
  BY InvTypes
<1>3. b \in Budgets /\ b.hal = budget.hal /\ b.command = budget.command /\ b.command <= budget.command
  BY InvTypes, ErpsAssumption DEF Budgets, Disable
<1>4. k \in Nat
  BY <1>1, RunCount
<1>5. y(k) \in Running /\ y(k).fuse = k
  BY <1>4, InvTypes, SessionFused
<1> HIDE DEF b, y
<1>6. /\ o.sess \in Running /\ o.sent \subseteq Kinds
      /\ k = 0 => /\ ~o.sess.enable /\ o.sess.hw = {} /\ ~o.sess.holdoff
                  /\ ~o.sess.wtr /\ ~o.sess.wtb
  BY <1>5, DisableSessionKeeps
<1>7. RunAs(n, o, k, wire, heard, b)
  BY <1>1
<1> HIDE DEF o
<1>8. sess'[n] = o.sess
  BY <1>7, InvTypes DEF RunAs
<1>9. enabled[n] \in Nat /\ enabled[n] > 0
  BY InvTypes DEF Disable, ErpsInv, Attended
<1>10. /\ enabled' \in [Nodes -> Nat] /\ down' \in Downs
       /\ enabled'[n] = IF o.sess.enable THEN enabled[n] ELSE enabled[n] - 1
       /\ \A m \in Nodes \ {n} : enabled'[m] = enabled[m]
  BY <1>8, <1>9, InvTypes DEF Disable
<1>11. Trusted(n) /\ k = 0 => NodeOK(n, o.sess, enabled'[n])
  BY <1>6, <1>10 DEF Trusted, NodeOK, Disable
<1>12. o.sess.enable => enabled'[n] > 0
  BY <1>9, <1>10
<1>13. k = 0 => ~o.sess.enable
  BY <1>6
<1> QED BY <1>2, <1>3, <1>6, <1>7, <1>10, <1>11, <1>12, <1>13, RunKeeps

(* A failure of a port or CFM session keeps the invariant. *)
LEMMA PortDownInv ==
  ASSUME ErpsInv, NEW n \in Nodes, NEW p \in Ports, NEW g \in Signals, PortDown(n, p, g)
  PROVE  ErpsInv'
<1> DEFINE y(k) == [sess[n] EXCEPT !.fuse = k]
           o(k) == IF enabled[n] > 0 THEN state_update_down(n, y(k), p) ELSE Ok(y(k))
<1>1. PICK c \in Charged(n, p) : /\ budget[c] > 0
                                 /\ \E k : RunAs(n, o(k), k, wire, heard, [budget EXCEPT ![c] = @ - 1])
  BY DEF PortDown, Run, RunAs
<1> DEFINE b == [budget EXCEPT ![c] = @ - 1]
<1>2. PICK k : RunAs(n, o(k), k, wire, heard, b)
  BY <1>1
<1>3. wire \in SUBSET Frames /\ heard \in SUBSET (Nodes \X Nodes)
  BY InvTypes
<1>4. c \in {"fail", "far"}
  BY DEF Charged
<1>5. b \in Budgets /\ b.hal = budget.hal /\ b.command = budget.command
  BY <1>1, <1>4, InvTypes, ErpsAssumption DEF Budgets
<1>6. k \in Nat
  BY <1>2, RunCount
<1>7. y(k) \in Running /\ y(k).fuse = k /\ (k = 0 => y(k) = sess[n]) /\ y(k).enable = sess[n].enable
  BY <1>6, InvTypes, SessionFused
<1>8. enabled' = enabled /\ down' \in Downs
  BY InvTypes DEF PortDown, Downs
<1> HIDE DEF b
<1>9. Good(y(k), o(k)) /\ (k = 0 => Live(n, sess[n], o(k).sess))
  <2> HIDE DEF y
  <2>1. CASE enabled[n] > 0
    BY <1>7, <2>1, DownKeeps DEF Kept
  <2>2. CASE ~(enabled[n] > 0)
    BY <1>7, <2>2 DEF Good, Live, Ok, Out
  <2> QED BY <2>1, <2>2
<1>10. Trusted(n) /\ k = 0 /\ ~sess[n].enable => o(k).sess = sess[n]
  BY <1>7 DEF Trusted, NodeOK, Ok, Out
<1> HIDE DEF o
<1> QED BY <1>2, <1>3, <1>5, <1>8, <1>9, <1>10, KeptRun

(* So does a report q of a port that is looked at only if a session is counted. *)
LEMMA UpdateInv ==
  ASSUME ErpsInv, NEW n \in Nodes, NEW k, NEW q, down' \in Downs, enabled' = enabled,
         RunAs(n, IF enabled[n] > 0 THEN q ELSE Ok([sess[n] EXCEPT !.fuse = k]), k, wire, heard, budget),
         [sess[n] EXCEPT !.fuse = k] \in Running => Kept(n, [sess[n] EXCEPT !.fuse = k], q)
  PROVE  ErpsInv'
<1> DEFINE y == [sess[n] EXCEPT !.fuse = k]
           o == IF enabled[n] > 0 THEN q ELSE Ok(y)
<1>1. RunAs(n, o, k, wire, heard, budget) /\ k \in Nat
  BY RunCount
<1>2. wire \in SUBSET Frames /\ heard \in SUBSET (Nodes \X Nodes) /\ budget \in Budgets
  BY InvTypes
<1>3. y \in Running /\ y.fuse = k /\ (k = 0 => y = sess[n]) /\ y.enable = sess[n].enable
  BY <1>1, InvTypes, SessionFused
<1>4. Kept(n, y, q)
  BY <1>3
<1>5. Good(y, o) /\ (k = 0 => Live(n, sess[n], o.sess))
  <2> HIDE DEF y
  <2>1. CASE enabled[n] > 0
    BY <1>3, <1>4, <2>1 DEF Kept
  <2>2. CASE ~(enabled[n] > 0)
    BY <1>3, <2>2 DEF Good, Live, Ok, Out
  <2> QED BY <2>1, <2>2
<1>6. Trusted(n) /\ k = 0 /\ ~sess[n].enable => o.sess = sess[n]
  BY <1>3 DEF Trusted, NodeOK, Ok, Out
<1> HIDE DEF o
<1> QED BY <1>1, <1>2, <1>5, <1>6, KeptRun

(* So does its recovery. *)
LEMMA PortUpInv ==
  ASSUME ErpsInv, NEW n \in Nodes, NEW p \in Ports, NEW g \in Signals, PortUp(n, p, g)
  PROVE  ErpsInv'
<1> DEFINE y(k) == [sess[n] EXCEPT !.fuse = k]
           dn == down'[n]
<1>1. PICK k : RunAs(n, IF enabled[n] > 0 THEN state_update_up(n, y(k), p, dn) ELSE Ok(y(k)), k, wire, heard, budget)
  BY DEF PortUp, Run, RunAs
<1>2. enabled' = enabled /\ down' \in Downs
  BY InvTypes DEF PortUp, Downs
<1> HIDE DEF dn
<1>3. y(k) \in Running => Kept(n, y(k), state_update_up(n, y(k), p, dn))
  BY UpKeeps
<1> QED BY <1>1, <1>2, <1>3, UpdateInv

(* So does the deletion of its CFM session. *)
LEMMA CcDeleteInv ==
  ASSUME ErpsInv, NEW n \in Nodes, NEW p \in Ports, CcDelete(n, p)
  PROVE  ErpsInv'
<1> DEFINE y(k) == [sess[n] EXCEPT !.fuse = k]
<1>1. PICK k : RunAs(n, IF enabled[n] > 0 THEN PortRecovered(n, y(k), p) ELSE Ok(y(k)), k, wire, heard, budget)
  BY DEF CcDelete, Run, RunAs
<1>2. enabled' = enabled /\ down' \in Downs
  BY InvTypes DEF CcDelete, Downs
<1>3. y(k) \in Running => Kept(n, y(k), PortRecovered(n, y(k), p))
  BY RecoveredKeeps
<1> QED BY <1>1, <1>2, <1>3, UpdateInv

(* So do the switch commands; after a manual switch nothing is claimed. *)
LEMMA AdminInv ==
  ASSUME ErpsInv, NEW n \in Nodes, NEW c \in Commands, NEW p \in Ports, Admin(n, c, p)
  PROVE  ErpsInv'
<1> DEFINE b == [budget EXCEPT !.command = @ - 1]
           e == IF c = "FS" THEN "ADMIN_FS" ELSE "ADMIN_MS"
           y(k) == [sess[n] EXCEPT !.fuse = k]
           x(k) == [y(k) EXCEPT !.event_block = p]
           o(k) == erps_fsm(n, x(k), e, n)
<1>1. PICK k : RunAs(n, o(k), k, wire, heard, b)
  BY DEF Admin, Run, RunAs
<1>2. k \in Nat /\ c \in {"FS", "MS"}
  BY <1>1, RunCount, ErpsAssumption
<1>3. /\ b \in Budgets /\ b.hal = budget.hal /\ b.command = budget.command - 1
      /\ b.command <= budget.command /\ b.command # budget.command
  BY InvTypes, ErpsAssumption DEF Budgets, Admin
<1>4. wire \in SUBSET Frames /\ heard \in SUBSET (Nodes \X Nodes)
  BY InvTypes
<1>5. y(k) \in Running /\ y(k).fuse = k /\ (k = 0 => y(k) = sess[n]) /\ y(k).enable = sess[n].enable
  BY <1>2, InvTypes, SessionFused
<1> HIDE DEF b, y
<1>6. /\ x(k) \in Running /\ x(k).event_block = p /\ x(k).fuse = k /\ x(k).enable = sess[n].enable
      /\ x(k).hw = y(k).hw /\ x(k).block = y(k).block /\ x(k).holdoff = y(k).holdoff
  BY <1>5 DEF Running
<1> HIDE DEF x
<1>7. Handled(n, x(k), e, o(k))
  BY <1>6, FsmKeeps
<1> HIDE DEF o
<1>8. /\ o(k).sess \in Running /\ o(k).sent \subseteq Kinds /\ (o(k).sess.enable => sess[n].enable)
  BY <1>6, <1>7 DEF Handled, Good
<1>9. ASSUME Trusted(n), k = 0, "MS" \in Commands => b.command = budget.command
      PROVE  NodeOK(n, o(k).sess, enabled[n])
  <2>1. e = "ADMIN_FS"
    BY <1>2, <1>3, <1>9
  <2>2. Base(x(k), o(k).sess) /\ (Tidy(x(k)) => Tidy(o(k).sess)) /\ o(k).sess.st = "FS"
    BY <1>6, <1>7, <1>9, <2>1 DEF Handled
  <2>3. sess[n].enable /\ NodeOK(n, sess[n], enabled[n])
    BY <1>9 DEF Admin, Trusted
  <2> QED BY <1>5, <1>6, <1>9, <2>2, <2>3 DEF NodeOK, Base, Tidy, Guarded
<1>10. enabled' = enabled /\ enabled \in [Nodes -> Nat] /\ down' \in Downs
  BY InvTypes DEF Admin
<1>11. o(k).sess.enable => enabled'[n] > 0
  BY <1>8, <1>10 DEF ErpsInv, Attended
<1> QED BY <1>1, <1>3, <1>4, <1>8, <1>9, <1>10, <1>11, RunKeeps

(* Reporting a failed port again makes the node block a failed port. *)
LEMMA AgainKeeps ==
  ASSUME NEW n \in Nodes, NEW o, o.sess \in Running, o.sent \subseteq Kinds, NEW p \in Ports
  PROVE  LET r == Again(n, o, p)
         IN /\ Good(o.sess, r)
            /\ o.sess.fuse = 0 =>
                 /\ Live(n, o.sess, r.sess)
                 /\ p \in o.sess.flag /\ ~holdoff => Guarded(r.sess)
                 /\ p \notin o.sess.flag => r = o
<1> DEFINE s == o.sess
           q == state_update_down(n, s, p)
<1>1. Kept(n, s, q) /\ (s.fuse = 0 /\ ~holdoff => Guarded(q.sess))
  BY DownKeeps
<1>2. Again(n, o, p) = IF p \in s.flag THEN Out(q.sess, o.sent \cup q.sent, q.ret) ELSE o
  BY DEF Again, Then
<1>3. Good(s, o) /\ (s.fuse = 0 => Live(n, s, s))
  BY DEF Good, Live
<1> HIDE DEF q
<1>4. Good(s, Out(q.sess, o.sent \cup q.sent, q.ret))
  BY <1>1 DEF Kept, Good, Out
<1> QED BY <1>1, <1>2, <1>3, <1>4 DEF Kept, Out

(* "clear" keeps the invariant: it forgets the port of the last request, and a
   node that protects gets it back because its failed port is reported again. *)
LEMMA ClearInv == ASSUME ErpsInv, NEW n \in Nodes, Clear(n) PROVE ErpsInv'
<1> DEFINE b == [budget EXCEPT !.command = @ - 1]
           y(k) == [sess[n] EXCEPT !.fuse = k]
           x(k) == [y(k) EXCEPT !.event_block = None]
           i(k) == erps_fsm(n, x(k), "ADMIN_CLEAR", n)
           e(k) == Again(n, i(k), "east")
           o(k) == Again(n, e(k), "west")
<1>0. "east" \in Ports /\ "west" \in Ports /\ \A p \in Ports : p \in {"east", "west"} /\ p # None
  BY DEF Ports, None
<1>1. PICK k : RunAs(n, o(k), k, wire, heard, b)
  <2>1. \E k : RunAs(n, admin_clear(n, y(k)), k, wire, heard, b)
    BY DEF Clear, Run, RunAs
  <2>2. \A k : admin_clear(n, y(k)) = o(k)
    BY DEF admin_clear
  <2> HIDE DEF o
  <2> QED BY <2>1, <2>2
<1>2. k \in Nat
  BY <1>1, RunCount
<1>3. /\ b \in Budgets /\ b.hal = budget.hal /\ b.command = budget.command - 1
      /\ b.command <= budget.command /\ b.command # budget.command
  BY InvTypes, ErpsAssumption DEF Budgets, Clear
<1>4. wire \in SUBSET Frames /\ heard \in SUBSET (Nodes \X Nodes)
  BY InvTypes
<1>5. y(k) \in Running /\ y(k).fuse = k /\ (k = 0 => y(k) = sess[n]) /\ y(k).enable = sess[n].enable
  BY <1>2, InvTypes, SessionFused
<1> HIDE DEF b, y
<1>6. /\ x(k) \in Running /\ x(k).event_block = None /\ x(k).fuse = k /\ x(k).enable = sess[n].enable
      /\ x(k).hw = y(k).hw /\ x(k).block = y(k).block /\ x(k).holdoff = y(k).holdoff
      /\ x(k).st = y(k).st /\ x(k).flag = y(k).flag
  BY <1>5 DEF Running
<1> HIDE DEF x
<1>7. Handled(n, x(k), "ADMIN_CLEAR", i(k))
  BY <1>6, FsmKeeps DEF PortEvents
<1> HIDE DEF i
<1>8. i(k).sess \in Running /\ i(k).sent \subseteq Kinds /\ (i(k).sess.enable => sess[n].enable)
  BY <1>6, <1>7 DEF Handled, Good
<1>9. /\ Good(i(k).sess, e(k))
      /\ i(k).sess.fuse = 0 =>
           /\ Live(n, i(k).sess, e(k).sess)
           /\ "east" \in i(k).sess.flag /\ ~holdoff => Guarded(e(k).sess)
           /\ "east" \notin i(k).sess.flag => e(k) = i(k)
  BY <1>0, <1>8, AgainKeeps
<1> HIDE DEF e
<1>10. e(k).sess \in Running /\ e(k).sent \subseteq Kinds /\ (e(k).sess.enable => sess[n].enable)
  BY <1>8, <1>9 DEF Good
<1>11. /\ Good(e(k).sess, o(k))
       /\ e(k).sess.fuse = 0 =>
            /\ Live(n, e(k).sess, o(k).sess)
            /\ "west" \in e(k).sess.flag /\ ~holdoff => Guarded(o(k).sess)
            /\ "west" \notin e(k).sess.flag => o(k) = e(k)
  BY <1>0, <1>10, AgainKeeps
<1> HIDE DEF o
<1>12. o(k).sess \in Running /\ o(k).sent \subseteq Kinds /\ (o(k).sess.enable => sess[n].enable)
  BY <1>10, <1>11 DEF Good
<1>13. ASSUME Trusted(n), k = 0 PROVE NodeOK(n, o(k).sess, enabled[n])
  <2>1. sess[n].enable /\ NodeOK(n, sess[n], enabled[n])
    BY <1>13 DEF Clear, Trusted
  <2>2. Base(x(k), i(k).sess) /\ Holds(x(k), i(k).sess) /\ (Tidy(x(k)) => Tidy(i(k).sess))
    BY <1>6, <1>7, <1>13, SMTT(30) DEF Handled, PortEvents
  <2>3. /\ i(k).sess.fuse = 0 /\ i(k).sess.enable /\ Tidy(i(k).sess) /\ (i(k).sess.holdoff => holdoff)
    BY <1>5, <1>6, <1>13, <2>1, <2>2 DEF NodeOK, Base, Tidy
  <2>4. ~holdoff /\ i(k).sess.st = "PROTECTION" => i(k).sess.block \in i(k).sess.flag
    BY <1>0, <1>5, <1>6, <1>13, <2>1, <2>2 DEF NodeOK, Base, Holds, Guarded
  <2>5. /\ e(k).sess.fuse = 0 /\ e(k).sess.enable /\ Tidy(e(k).sess) /\ (e(k).sess.holdoff => holdoff)
    BY <1>9, <2>3 DEF Live
  <2>6. /\ o(k).sess.enable /\ Tidy(o(k).sess) /\ (o(k).sess.holdoff => holdoff)
    BY <1>11, <2>5 DEF Live
  <2>7. ASSUME ~holdoff PROVE Guarded(o(k).sess)
    <3>1. CASE "west" \in e(k).sess.flag
      BY <1>11, <2>5, <2>7, <3>1
    <3>2. CASE "west" \notin e(k).sess.flag /\ "east" \in i(k).sess.flag
      BY <1>9, <1>11, <2>3, <2>5, <2>7, <3>2
    <3>3. CASE "west" \notin e(k).sess.flag /\ "east" \notin i(k).sess.flag
      <4>1. o(k) = i(k) /\ e(k) = i(k)
        BY <1>9, <1>11, <2>3, <2>5, <3>3
      <4>2. i(k).sess.flag = {}
        BY <1>0, <1>8, <3>3, <4>1 DEF Running
      <4> QED BY <2>4, <2>7, <4>1, <4>2 DEF Guarded
    <3> QED BY <3>1, <3>2, <3>3
  <2> QED BY <2>1, <2>6, <2>7 DEF NodeOK
<1>14. enabled' = enabled /\ enabled \in [Nodes -> Nat] /\ down' \in Downs
  BY InvTypes DEF Clear
<1>15. o(k).sess.enable => enabled'[n] > 0
  BY <1>12, <1>14 DEF ErpsInv, Attended
<1> QED BY <1>1, <1>3, <1>4, <1>12, <1>13, <1>14, <1>15, RunKeeps

(* The end of a wait keeps the invariant: the owner leaves the pending state. *)
LEMMA WaitEnds ==
  ASSUME ErpsInv, NEW n \in Nodes, NEW e \in {"WTR_EXP", "WTB_EXP"}, NEW k, NEW x,
         sess[n].wtr \/ sess[n].wtb,
         \/ x = [[sess[n] EXCEPT !.fuse = k] EXCEPT !.wtr = FALSE]
         \/ x = [[sess[n] EXCEPT !.fuse = k] EXCEPT !.wtb = FALSE],
         RunAs(n, erps_fsm(n, x, e, n), k, Arriving, heard, budget),
         enabled' = enabled, down' = down
  PROVE  ErpsInv'
<1> DEFINE y == [sess[n] EXCEPT !.fuse = k]
           o == erps_fsm(n, x, e, n)
<1>1. k \in Nat
  BY RunCount
<1>2. y \in Running /\ y.fuse = k /\ (k = 0 => y = sess[n])
  BY <1>1, InvTypes, SessionFused
<1>3. RunAs(n, o, k, Arriving, heard, budget)
  OBVIOUS
<1>4. x = [y EXCEPT !.wtr = FALSE] \/ x = [y EXCEPT !.wtb = FALSE]
  OBVIOUS
<1> HIDE DEF y
<1>5. /\ x \in Running /\ x.fuse = k /\ x.enable = y.enable /\ x.hw = y.hw /\ x.block = y.block
      /\ x.holdoff = y.holdoff /\ x.st = y.st /\ x.event_block = y.event_block /\ x.flag = y.flag
  BY <1>2, <1>4, ZenonT(60) DEF Running
<1>6. Handled(n, x, e, o)
  BY <1>5, FsmKeeps DEF PortEvents
<1> HIDE DEF o
<1>7. Good(y, o)
  BY <1>5, <1>6 DEF Handled, Good
<1>8. k = 0 => Base(x, o.sess) /\ Holds(x, o.sess) /\ (Tidy(x) => Tidy(o.sess)) /\ Waits(n, o.sess)
  BY <1>5, <1>6 DEF Handled, PortEvents
<1>9. k = 0 => Live(n, y, o.sess)
  BY <1>5, <1>8 DEF Live, Base, Holds, Tidy, Guarded
<1>10. Trusted(n) => sess[n].enable
  BY DEF Trusted, NodeOK
<1>11. /\ Arriving \in SUBSET Frames /\ heard \in SUBSET (Nodes \X Nodes) /\ budget \in Budgets
       /\ down' \in Downs
  BY InvTypes DEF Arriving
<1> QED BY <1>2, <1>3, <1>7, <1>9, <1>10, <1>11, KeptRun DEF y

(* The wait to restore ends. *)
LEMMA WtrInv == ASSUME ErpsInv, NEW n \in Nodes, WtrExpires(n) PROVE ErpsInv'
<1> DEFINE x(k) == [[sess[n] EXCEPT !.fuse = k] EXCEPT !.wtr = FALSE]
<1>1. PICK k : RunAs(n, erps_fsm(n, x(k), "WTR_EXP", n), k, Arriving, heard, budget)
  BY DEF WtrExpires, Run, RunAs
<1>2. sess[n].wtr /\ enabled' = enabled /\ down' = down
  BY DEF WtrExpires
<1> QED BY <1>1, <1>2, WaitEnds

(* The wait to block ends. *)
LEMMA WtbInv == ASSUME ErpsInv, NEW n \in Nodes, WtbExpires(n) PROVE ErpsInv'
<1> DEFINE x(k) == [[sess[n] EXCEPT !.fuse = k] EXCEPT !.wtb = FALSE]
<1>1. PICK k : RunAs(n, erps_fsm(n, x(k), "WTB_EXP", n), k, Arriving, heard, budget)
  BY DEF WtbExpires, Run, RunAs
<1>2. sess[n].wtb /\ enabled' = enabled /\ down' = down
  BY DEF WtbExpires
<1> QED BY <1>1, <1>2, WaitEnds

(* The guard timer expires. *)
LEMMA GuardInv == ASSUME ErpsInv, NEW n \in Nodes, GuardExpires(n) PROVE ErpsInv'
<1> DEFINE s == sess[n]
           t == [s EXCEPT !.guard = FALSE]
<1>1. s \in Sessions /\ sess' = [sess EXCEPT ![n] = t]
  BY InvTypes DEF GuardExpires
<1> HIDE DEF s
<1>2. /\ t \in Sessions /\ t.enable = s.enable /\ t.hw = s.hw /\ t.block = s.block /\ t.wtr = s.wtr
      /\ t.wtb = s.wtb /\ t.st = s.st /\ t.holdoff = s.holdoff /\ t.event_block = s.event_block
      /\ t.flag = s.flag
  BY <1>1 DEF Sessions
<1> HIDE DEF t
<1>3. sess' \in [Nodes -> Sessions] /\ sess'[n] = t /\ \A m \in Nodes \ {n} : sess'[m] = sess[m]
  BY <1>1, <1>2, InvTypes
<1>4. \A m \in Nodes : /\ sess'[m].enable = sess[m].enable
                       /\ NodeOK(m, sess[m], enabled[m]) <=> NodeOK(m, sess'[m], enabled[m])
                       /\ Waits(m, sess[m]) => Waits(m, sess'[m])
  BY <1>2, <1>3 DEF NodeOK, Waits, Tidy, Guarded, s
<1>5. enabled' = enabled /\ down' = down /\ heard' = heard /\ budget' = budget /\ wire' \subseteq wire
  BY DEF GuardExpires, Arriving
<1>6. ErpsTypeOK'
  BY <1>3, <1>5 DEF ErpsInv, ErpsTypeOK
<1>7. Attended'
  BY <1>4, <1>5 DEF ErpsInv, Attended
<1>8. (NoSwitch' => NoSwitch) /\ (Undisturbed' => Undisturbed)
  BY <1>5 DEF NoSwitch, Undisturbed, HalAnswers
<1>9. Shaken' = Shaken
  <2>1. Shaken' = {m \in Nodes : ~NodeOK(m, sess'[m], enabled'[m])}
    BY DEF Shaken, NodeOK, Tidy, Guarded
  <2> QED BY <1>4, <1>5, <2>1 DEF Shaken
<1>10. Undisturbed' => \A m \in Nodes : sess'[m].enable => Waits(m, sess'[m])
  BY <1>4, <1>8 DEF ErpsInv
<1>11. (NoSwitch => Cardinality(Shaken) <= MaxHal - budget.hal)'
  BY <1>5, <1>8, <1>9 DEF ErpsInv
<1>12. (Undisturbed => \A m \in Nodes : sess[m].enable => Waits(m, sess[m]))'
  BY <1>10 DEF Waits
<1> QED BY <1>6, <1>7, <1>11, <1>12 DEF ErpsInv

(* The hold-off timer expires. *)
LEMMA HoldoffInv == ASSUME ErpsInv, NEW n \in Nodes, HoldoffExpires(n) PROVE ErpsInv'
<1> DEFINE y(k) == [sess[n] EXCEPT !.fuse = k]
           x(k) == [y(k) EXCEPT !.holdoff = FALSE]
           o(k) == link_down_handler(n, x(k), down[n])
<1>1. PICK k : RunAs(n, o(k), k, wire, heard, budget)
  BY DEF HoldoffExpires, Run, RunAs
<1>2. k \in Nat
  BY <1>1, RunCount
<1>3. y(k) \in Running /\ y(k).fuse = k /\ (k = 0 => y(k) = sess[n])
  BY <1>2, InvTypes, SessionFused
<1> HIDE DEF y
<1>4. /\ x(k) \in Running /\ x(k).fuse = k /\ x(k).enable = y(k).enable /\ x(k).hw = y(k).hw
      /\ x(k).block = y(k).block /\ x(k).st = y(k).st /\ x(k).wtr = y(k).wtr /\ x(k).wtb = y(k).wtb
      /\ x(k).event_block = y(k).event_block /\ x(k).flag = y(k).flag
  BY <1>3 DEF Running
<1> HIDE DEF x
<1>5. Good(x(k), o(k)) /\ (holdoff /\ k = 0 => Live(n, x(k), o(k).sess))
  BY <1>4, LinkDownKeeps
<1> HIDE DEF o
<1>6. Good(y(k), o(k))
  BY <1>4, <1>5 DEF Good
<1>7. holdoff /\ k = 0 => Live(n, sess[n], o(k).sess)
  BY <1>3, <1>4, <1>5 DEF Live, Tidy, Waits
<1>8. Trusted(n) => sess[n].enable /\ holdoff
  BY DEF Trusted, NodeOK, HoldoffExpires
<1>9. /\ wire \in SUBSET Frames /\ heard \in SUBSET (Nodes \X Nodes) /\ budget \in Budgets
      /\ down' \in Downs /\ enabled' = enabled
  BY InvTypes DEF HoldoffExpires
<1> QED BY <1>1, <1>6, <1>7, <1>8, <1>9, KeptRun DEF y

(* A message arrives, or is dropped by the guard timer or a disabled session. *)
LEMMA ReceiveInv == ASSUME ErpsInv, NEW n \in Nodes, NEW m \in Nodes, Receive(m, n) PROVE ErpsInv'
<1> DEFINE y(k) == [sess[n] EXCEPT !.fuse = k]
           o(k, f) == IF y(k).enable /\ ~y(k).guard THEN erps_fsm(n, y(k), Event(f.kind), m) ELSE Ok(y(k))
           h(f) == heard \cup {x \in {<<m, n>>} : patient /\ ~sess[n].guard /\ Says(sess[m], f.kind)}
<1>1. PICK f \in wire : \E k : RunAs(n, o(k, f), k, wire \ {f}, h(f), budget)
  BY DEF Receive, Run, RunAs
<1>2. PICK k : RunAs(n, o(k, f), k, wire \ {f}, h(f), budget)
  BY <1>1
<1>3. k \in Nat
  BY <1>2, RunCount
<1>4. y(k) \in Running /\ y(k).fuse = k /\ (k = 0 => y(k) = sess[n]) /\ y(k).enable = sess[n].enable
  BY <1>3, InvTypes, SessionFused
<1>5. /\ wire \ {f} \in SUBSET Frames /\ h(f) \in SUBSET (Nodes \X Nodes) /\ budget \in Budgets
      /\ down' \in Downs /\ enabled' = enabled
  BY InvTypes DEF Receive
<1> HIDE DEF y, h
<1>6. Good(y(k), o(k, f)) /\ (k = 0 => Live(n, sess[n], o(k, f).sess))
      /\ (k = 0 /\ ~sess[n].enable => o(k, f).sess = sess[n])
  <2>1. CASE y(k).enable /\ ~y(k).guard
    <3> DEFINE e == Event(f.kind)
               q == erps_fsm(n, y(k), e, m)
    <3>1. e \in {"RAPS_NR", "RAPS_NR_RB", "RAPS_SF", "RAPS_FS", "RAPS_MS"}
      <4>1. f.kind \in Kinds
        BY InvTypes DEF Frames
      <4> QED BY <4>1 DEF Event, Kinds
    <3> HIDE DEF e
    <3>2. Handled(n, y(k), e, q)
      BY <1>4, <3>1, FsmKeeps DEF PortEvents
    <3>3. o(k, f) = q
      BY <2>1 DEF e
    <3> HIDE DEF q, o
    <3>4. Good(y(k), q)
      BY <3>2 DEF Handled
    <3>5. k = 0 => /\ Base(y(k), q.sess) /\ Holds(y(k), q.sess) /\ (Tidy(y(k)) => Tidy(q.sess))
                   /\ Waits(n, y(k)) => Waits(n, q.sess)
      BY <1>4, <3>1, <3>2 DEF Handled, PortEvents
    <3>6. k = 0 => Live(n, y(k), q.sess)
      BY <1>4, <3>5 DEF Live, Base, Holds, Tidy, Waits, Guarded
    <3> QED BY <1>4, <2>1, <3>3, <3>4, <3>6
  <2>2. CASE ~(y(k).enable /\ ~y(k).guard)
    BY <1>4, <2>2 DEF Good, Live, Ok, Out
  <2> QED BY <2>1, <2>2
<1> HIDE DEF o
<1> QED BY <1>2, <1>5, <1>6, KeptRun DEF y

(* A step that changes nothing but the messages under way keeps the invariant. *)
LEMMA WireInv ==
  ASSUME ErpsInv, wire' \subseteq Frames, UNCHANGED <<sess, enabled, down, heard, budget>>
  PROVE  ErpsInv'
<1>1. ErpsTypeOK' /\ Attended'
  BY DEF ErpsInv, ErpsTypeOK, Attended
<1>2. (NoSwitch => Cardinality(Shaken) <= MaxHal - budget.hal)'
  <2>1. Shaken' = Shaken /\ (NoSwitch' <=> NoSwitch) /\ budget' = budget
    BY DEF Shaken, NoSwitch, NodeOK, Tidy, Guarded
  <2> QED BY <2>1 DEF ErpsInv
<1>3. (Undisturbed => \A n \in Nodes : sess[n].enable => Waits(n, sess[n]))'
  BY DEF ErpsInv, Undisturbed, HalAnswers, Waits
<1> QED BY <1>1, <1>2, <1>3 DEF ErpsInv

(* A request is repeated. *)
LEMMA KeepaliveInv == ASSUME ErpsInv, NEW n \in Nodes, Keepalive(n) PROVE ErpsInv'
<1>1. sess[n].tx \in Kinds /\ wire \in SUBSET Frames
  BY InvTypes DEF Sessions
<1>2. wire' \subseteq Frames
  BY <1>1, TransmitType DEF Keepalive
<1> QED BY <1>2, WireInv DEF Keepalive

(* A message is lost. *)
LEMMA LoseInv == ASSUME ErpsInv, NEW n \in Nodes, NEW m \in Nodes, Lose(m, n) PROVE ErpsInv'
BY InvTypes, WireInv DEF Lose

(* The invariant holds at first, when no session is enabled. *)
LEMMA InitInv == Init => ErpsInv
<1> SUFFICES ASSUME Init PROVE ErpsInv
  OBVIOUS
<1>1. Fresh \in Sessions /\ ~Fresh.enable /\ Fresh.hw = {} /\ ~Fresh.holdoff /\ ~Fresh.wtr /\ ~Fresh.wtb
  BY DEF Fresh, Sessions, States, Kinds, Ports, None
<1> HIDE DEF Fresh
<1>2. \A n \in Nodes : sess[n] = Fresh /\ enabled[n] = 0
  BY DEF Init
<1>3. budget \in Budgets
  BY ErpsAssumption DEF Init, Budgets
<1>4. ErpsTypeOK
  BY <1>1, <1>3 DEF Init, ErpsTypeOK, Budgets
<1>5. \A n \in Nodes : NodeOK(n, sess[n], enabled[n]) /\ ~sess[n].enable
  BY <1>1, <1>2 DEF NodeOK
<1>6. Cardinality(Shaken) <= MaxHal - budget.hal
  <2>1. Shaken = {} /\ budget.hal = MaxHal /\ MaxHal \in Nat
    BY <1>5, ErpsAssumption DEF Shaken, Init
  <2> QED BY <2>1, FS_EmptySet
<1> QED BY <1>4, <1>5, <1>6 DEF ErpsInv, Attended

(* Every step keeps it. *)
LEMMA NextInv == ErpsInv /\ [Next]_vars => ErpsInv'
<1> SUFFICES ASSUME ErpsInv, [Next]_vars PROVE ErpsInv'
  OBVIOUS
<1>1. CASE UNCHANGED vars
  BY <1>1, WireInv DEF vars, ErpsInv, ErpsTypeOK
<1>2. CASE Next
  <2>1. PICK n \in Nodes :
          \/ Enable(n) \/ Disable(n)
          \/ \E p \in Ports, g \in Signals : PortDown(n, p, g) \/ PortUp(n, p, g)
          \/ \E p \in Ports : CcDelete(n, p)
          \/ \E c \in Commands, p \in Ports : Admin(n, c, p)
          \/ Clear(n)
          \/ WtrExpires(n) \/ WtbExpires(n) \/ GuardExpires(n) \/ HoldoffExpires(n) \/ Keepalive(n)
          \/ \E m \in Nodes \ {n} : Receive(m, n) \/ Lose(m, n)
    BY <1>2 DEF Next
  <2>2. CASE Enable(n) \/ Disable(n) \/ Clear(n)
    BY <2>2, EnableInv, DisableInv, ClearInv
  <2>3. CASE \E p \in Ports, g \in Signals : PortDown(n, p, g) \/ PortUp(n, p, g)
    BY <2>3, PortDownInv, PortUpInv
  <2>4. CASE \E c \in Commands, p \in Ports : Admin(n, c, p)
    BY <2>4, AdminInv
  <2>5. CASE WtrExpires(n) \/ WtbExpires(n) \/ GuardExpires(n) \/ HoldoffExpires(n) \/ Keepalive(n)
    BY <2>5, WtrInv, WtbInv, GuardInv, HoldoffInv, KeepaliveInv
  <2>6. CASE \E m \in Nodes \ {n} : Receive(m, n) \/ Lose(m, n)
    BY <2>6, ReceiveInv, LoseInv
  <2>7. CASE \E p \in Ports : CcDelete(n, p)
    BY <2>7, CcDeleteInv
  <2> QED BY <2>1, <2>2, <2>3, <2>4, <2>5, <2>6, <2>7
<1> QED BY <1>1, <1>2

(* It holds always. *)
LEMMA SpecInv == Spec => []ErpsInv
BY InitInv, NextInv, PTL DEF Spec

(* erps_fsm and its handlers keep sessions, messages and counters well formed on
   rings of any size, whether the hardware layer answers or not. *)
THEOREM ErpsTypeCorrect == Spec => []ErpsTypeOK
<1>1. ErpsInv => ErpsTypeOK
  BY DEF ErpsInv
<1> QED BY <1>1, SpecInv, PTL

(* gerps.sess_enable counts every enabled session, so that its node looks at the
   events of its ports, even if enabling or disabling fails half way. *)
THEOREM SessionsAreAttended == Spec => []Attended
<1>1. ErpsInv => Attended
  BY DEF ErpsInv
<1> QED BY <1>1, SpecInv, PTL

(* An owner in the pending state has the timer that ends its wait, after any
   failures, recoveries and requests of other nodes. *)
THEOREM OwnersWait == Spec => []OwnerWaits
<1>1. ErpsInv => OwnerWaits
  BY DEF ErpsInv, OwnerWaits, Waits
<1> QED BY <1>1, SpecInv, PTL

(* Every node whose hardware blocks a port that its session has forgotten stands for
   a message that was not answered, with forced switches, a hold-off time and CFM
   sessions too; when all were answered there is none.  (Release clears
   block_interface first, and returns if the message fails.)  The assumption leaves out
   erps_pending_handle_admin_ms, which notes the west port and blocks nothing. *)
THEOREM UnansweredMessagesForget == ASSUME "MS" \notin Commands PROVE Spec => []NoForgottenBlock
<1>1. ASSUME ErpsInv PROVE NoForgottenBlock
  <2>1. \A n \in Nodes : NodeOK(n, sess[n], enabled[n]) => sess[n].hw \subseteq {sess[n].block}
    BY DEF NodeOK, Tidy
  <2>2. Forgetful \subseteq Shaken /\ Shaken \subseteq Nodes
    BY <2>1 DEF Forgetful, Shaken
  <2>3. /\ Cardinality(Forgetful) <= Cardinality(Shaken)
        /\ Cardinality(Forgetful) \in Nat /\ Cardinality(Shaken) \in Nat
    BY <2>2, NodeSets
  <2>4. Cardinality(Shaken) <= MaxHal - budget.hal
    BY <1>1 DEF ErpsInv, NoSwitch
  <2>5. MaxHal - budget.hal \in Int
    BY <1>1, InvTypes, ErpsAssumption DEF Budgets, Nodes, ErpsInv, ErpsTypeOK
  <2> QED BY <2>3, <2>4, <2>5 DEF NoForgottenBlock
<1> QED BY <1>1, SpecInv, PTL

(* A node that protects blocks a port that has failed, whatever the order of
   failures and recoveries of its two ports, forced switches and clears.  With a
   hold-off time erps_link_down_handler may take the wrong port. *)
THEOREM FailedPortsAreProtected ==
  ASSUME "MS" \notin Commands, ~holdoff PROVE Spec => []ProtectsFailedPort
<1>1. ErpsInv => ProtectsFailedPort
  BY AnsweredTrusted DEF NoSwitch, ProtectsFailedPort, Trusted, NodeOK, Guarded
<1> QED BY <1>1, SpecInv, PTL

-----------------------------------------------------------------------------
(* A ring has one owner of its RPL. *)
OneOwner == \A m, n \in Nodes : role[m] = "owner" /\ role[n] = "owner" => m = n

(* A node that yields to nobody: it is off, protects a failed port, or its guard timer runs
   since the port recovered. *)
Strong(s) == ~s.enable \/ s.st = "PROTECTION" \/ s.guard

(* What an enabled session says and blocks, when no command was given. *)
Claims(n, s) ==
  /\ s.st \in {"IDLE", "PROTECTION", "PENDING", "PROTECTION_REMOTE"}
  /\ s.hw = IF s.block = None THEN {} ELSE {s.block}
  /\ s.keepalive => /\ s.block # None
                    /\ \/ s.st = "PROTECTION" /\ s.tx = "SF"
                       \/ s.st = "PENDING" /\ s.tx = "NR"
                       \/ s.st = "IDLE" /\ s.tx = "NR_RB" /\ role[n] = "owner"
  /\ s.st = "PROTECTION" \/ s.guard => s.keepalive
  /\ s.st = "IDLE" => s.block = rpl[n]
  /\ s.wtr \/ s.wtb => role[n] = "owner"

(* Somebody yields to nobody; or is the owner that closes the RPL; or has nothing to request,
   keeps its port blocked and yields to no node below m. *)
Protecting(S) == \E x \in Nodes : Strong(S[x])
Closing(S)    == Protecting(S) \/ \E x \in Nodes : Says(S[x], "NR_RB")
Keeping(S, m) == Closing(S) \/ \E x \in Nodes : x >= m /\ Says(S[x], "NR")

(* A message under way, however old, has somebody behind it to whom its receiver may yield. *)
Covered(S, f) ==
  \/ f.kind = "SF" /\ Protecting(S)
  \/ f.kind = "NR_RB" /\ role[f.from] = "owner" /\ Closing(S)
  \/ f.kind = "NR" /\ Keeping(S, f.from)

LoopInv ==
  Undisturbed => /\ \A n \in Nodes : sess[n].enable => Claims(n, sess[n])
                 /\ \A f \in wire : Covered(sess, f)
                 /\ Keeping(sess, 0)

(* Nodes are numbers. *)
LEMMA NodeNumbers == \A n \in Nodes : n \in Int /\ n >= 0
BY ErpsAssumption DEF Nodes

(* What a node says now has this node behind it. *)
LEMMA SaidCovered ==
  ASSUME NEW S, \A n \in Nodes : S[n].enable => Claims(n, S[n]),
         NEW f, f.from \in Nodes, Says(S[f.from], f.kind)
  PROVE  Covered(S, f)
<1>1. Claims(f.from, S[f.from]) /\ S[f.from].keepalive /\ S[f.from].tx = f.kind
  BY DEF Says
<1>2. CASE S[f.from].st = "PROTECTION" /\ f.kind = "SF"
  BY <1>2 DEF Covered, Protecting, Strong
<1>3. CASE f.kind = "NR"
  BY <1>3, NodeNumbers DEF Covered, Keeping
<1>4. CASE f.kind = "NR_RB" /\ role[f.from] = "owner"
  BY <1>4 DEF Covered, Closing
<1> QED BY <1>1, <1>2, <1>3, <1>4 DEF Claims

(* With a node that yields to nobody all is covered that has the right sender. *)
LEMMA StrongCovers ==
  ASSUME NEW S, Protecting(S)
  PROVE  /\ Closing(S) /\ \A m : Keeping(S, m)
         /\ \A f, T : Covered(T, f) => Covered(S, f)
BY DEF Closing, Keeping, Covered

(* Cover is carried over. *)
LEMMA CoverCarried ==
  ASSUME NEW S, NEW T, Protecting(S) => Protecting(T), Closing(S) => Closing(T),
         \A m \in Nodes : Keeping(S, m) => Keeping(T, m),
         NEW f, f.from \in Nodes, Covered(S, f)
  PROVE  Covered(T, f)
BY DEF Covered

(* A step of node n that changes nothing it says. *)
LEMMA SameClaim ==
  ASSUME NEW S, NEW T, NEW n \in Nodes, \A m \in Nodes \ {n} : T[m] = S[m],
         Strong(S[n]) => Strong(T[n]),
         Says(S[n], "NR_RB") => Says(T[n], "NR_RB"), Says(S[n], "NR") => Says(T[n], "NR")
  PROVE  /\ \A m : Keeping(S, m) => Keeping(T, m)
         /\ \A f : Covered(S, f) => Covered(T, f)
<1>1. Protecting(S) => Protecting(T)
  BY DEF Protecting
<1>2. Closing(S) => Closing(T)
  BY <1>1 DEF Closing
<1>3. \A m : Keeping(S, m) => Keeping(T, m)
  BY <1>2 DEF Keeping
<1> QED BY <1>1, <1>2, <1>3 DEF Covered

(* A node that no longer keeps its port blocked because of a message that is covered. *)
LEMMA YieldedCovered ==
  ASSUME NEW S, NEW T, NEW n \in Nodes, \A m \in Nodes \ {n} : T[m] = S[m],
         ~Strong(S[n]), ~Says(S[n], "NR_RB") \/ Protecting(S),
         \/ Protecting(S)
         \/ Closing(S)
         \/ \E m \in Nodes : m > n /\ Keeping(S, m)
  PROVE  /\ \A m \in Nodes : Keeping(S, m) => Keeping(T, m)
         /\ \A f : f.from \in Nodes /\ Covered(S, f) => Covered(T, f)
<1>1. Protecting(S) => Protecting(T)
  BY DEF Protecting
<1>2. Closing(S) => Closing(T)
  BY <1>1 DEF Closing
<1>3. ASSUME NEW m \in Nodes, Keeping(S, m) PROVE Keeping(T, m)
  <2>1. CASE Closing(S)
    BY <1>2, <2>1 DEF Keeping
  <2>2. CASE ~Closing(S)
    <3>1. PICK k \in Nodes : k > n /\ Keeping(S, k)
      BY <2>2 DEF Closing
    <3>2. PICK x \in Nodes : x >= k /\ Says(S[x], "NR")
      BY <2>2, <3>1 DEF Keeping
    <3>3. PICK y \in Nodes : y >= m /\ Says(S[y], "NR")
      BY <1>3, <2>2 DEF Keeping
    <3>4. x > n /\ x # n
      BY <3>1, <3>2, NodeNumbers
    <3>5. Says(T[x], "NR") /\ (y # n => Says(T[y], "NR"))
      BY <3>2, <3>3, <3>4
    <3>6. y = n => x >= m
      BY <3>3, <3>4, NodeNumbers
    <3> QED BY <3>3, <3>5, <3>6 DEF Keeping
  <2> QED BY <2>1, <2>2
<1> QED BY <1>1, <1>2, <1>3, CoverCarried

-----------------------------------------------------------------------------
(* The session keeps what it says and blocks; at most a wait ends. *)
Same(s, t) ==
  /\ t.st = s.st /\ t.hw = s.hw /\ t.block = s.block /\ t.tx = s.tx /\ t.keepalive = s.keepalive
  /\ t.guard = s.guard /\ t.enable = s.enable /\ (t.wtr => s.wtr) /\ (t.wtb => s.wtb)

(* The node comes to yield to nobody, and tells no more than that. *)
Resists(n, o) ==
  /\ o.sess.enable /\ Strong(o.sess) /\ Claims(n, o.sess) /\ o.sent \subseteq {"NR", "SF"}

(* What a handler that an event of the node's own ports runs comes to. *)
Stands(n, s, o) == (Same(s, o.sess) /\ o.sent = {}) \/ Resists(n, o)

(* A session that stays the same keeps its claims. *)
LEMMA SameClaims ==
  ASSUME NEW n, NEW s, NEW t, Same(s, t)
  PROVE  /\ Claims(n, s) => Claims(n, t)
         /\ Strong(s) = Strong(t) /\ \A kind : Says(s, kind) = Says(t, kind)
BY DEF Same, Claims, Strong, Says

(* The second half of a switch, when the hardware layer answers. *)
LEMMA SayAndOpenAnswered ==
  ASSUME NEW s \in Running, s.fuse = 0, s.event_block \in Ports, s.event_block \in s.hw
  PROVE  LET o == SayAndOpen(s, "SF", "PROTECTION")
             t == o.sess
         IN /\ o.ret = "success" /\ o.sent = {"SF"}
            /\ t \in Running /\ t.fuse = 0 /\ t.enable = s.enable /\ t.block = s.block /\ t.st = "PROTECTION"
            /\ t.hw = {s.event_block} /\ t.tx = "SF" /\ t.keepalive = TRUE /\ t.guard = s.guard
            /\ t.wtr = s.wtr /\ t.wtb = s.wtb
<1> DEFINE p == Other(s.event_block)
           q == Say(s, "SF")
           f == [q EXCEPT !.hw = q.hw \ {p}]
           g == [f EXCEPT !.st = "PROTECTION"]
<1>0. "SF" \in Kinds /\ "PROTECTION" \in States
  BY DEF Kinds, States
<1>1. /\ q \in Running /\ q.enable = s.enable /\ q.fuse = 0 /\ q.hw = s.hw /\ q.block = s.block
      /\ q.tx = "SF" /\ q.keepalive = TRUE /\ q.guard = s.guard /\ q.wtr = s.wtr /\ q.wtb = s.wtb
  BY <1>0 DEF Say, Running
<1>2. p \in Ports /\ Ports \ {p} = {s.event_block} /\ p # s.event_block
  BY OtherPort
<1>3. ~NotAnswered(s) /\ Foward(q, p) = f
  BY <1>1, <1>2, PrimAnswered DEF NotAnswered
<1>4. SayAndOpen(s, "SF", "PROTECTION") = Out(g, {"SF"}, "success")
  BY <1>3 DEF SayAndOpen
<1> HIDE DEF p, q
<1>5. s.hw \subseteq Ports
  BY DEF Running
<1>6. s.hw \ {p} = {s.event_block}
  BY <1>2, <1>5
<1>7. /\ g \in Running /\ g.enable = s.enable /\ g.fuse = 0 /\ g.hw = s.hw \ {p} /\ g.block = s.block
      /\ g.tx = "SF" /\ g.keepalive = TRUE /\ g.guard = s.guard /\ g.wtr = s.wtr /\ g.wtb = s.wtb
      /\ g.st = "PROTECTION"
  BY <1>0, <1>1 DEF Running
<1> HIDE DEF g
<1> QED BY <1>4, <1>6, <1>7 DEF Out

(* A failed port is blocked and the other one opened, whichever was blocked before. *)
LEMMA SwitchAnswered ==
  ASSUME NEW s \in Running, s.fuse = 0, s.event_block \in Ports,
         s.hw = IF s.block = None THEN {} ELSE {s.block}
  PROVE  LET o == Switch(s, "SF", "PROTECTION", FALSE)
             t == o.sess
         IN /\ o.ret = "success" /\ o.sent = {"SF"}
            /\ t \in Running /\ t.fuse = 0 /\ t.enable = s.enable /\ t.block = s.event_block
            /\ t.st = "PROTECTION" /\ t.hw = {s.event_block} /\ t.tx = "SF" /\ t.keepalive = TRUE
            /\ t.wtr = s.wtr /\ t.wtb = s.wtb
<1>0. "SF" \in Kinds /\ "PROTECTION" \in States /\ s.event_block # None
  BY DEF Kinds, States, Ports, None
<1>1. CASE s.event_block = s.block
  <2>1. s.event_block \in s.hw
    BY <1>0, <1>1
  <2>2. Switch(s, "SF", "PROTECTION", FALSE) = SayAndOpen(s, "SF", "PROTECTION")
    BY <1>1 DEF Switch
  <2> DEFINE o == SayAndOpen(s, "SF", "PROTECTION")
  <2>3. /\ o.ret = "success" /\ o.sent = {"SF"}
        /\ o.sess \in Running /\ o.sess.fuse = 0 /\ o.sess.enable = s.enable /\ o.sess.block = s.block
        /\ o.sess.st = "PROTECTION" /\ o.sess.hw = {s.event_block} /\ o.sess.tx = "SF"
        /\ o.sess.keepalive = TRUE /\ o.sess.wtr = s.wtr /\ o.sess.wtb = s.wtb
    BY <1>0, <2>1, SayAndOpenAnswered
  <2> HIDE DEF o
  <2> QED BY <1>1, <2>2, <2>3 DEF o
<1>2. CASE s.event_block # s.block
  <2> DEFINE p == s.event_block
             b == [s EXCEPT !.hw = s.hw \cup {p}]
             c == [b EXCEPT !.block = p]
  <2>1. ~NotAnswered(s) /\ Block(s, p) = b
    BY PrimAnswered
  <2>2. Switch(s, "SF", "PROTECTION", FALSE) = SayAndOpen(c, "SF", "PROTECTION")
    BY <1>2, <2>1 DEF Switch, BlockSayAndOpen
  <2>3. /\ c \in Running /\ c.enable = s.enable /\ c.fuse = 0 /\ p \in c.hw /\ c.block = p
        /\ c.event_block = p /\ c.wtr = s.wtr /\ c.wtb = s.wtb
    BY DEF Running
  <2> HIDE DEF c
  <2> DEFINE o == SayAndOpen(c, "SF", "PROTECTION")
  <2>4. /\ o.ret = "success" /\ o.sent = {"SF"}
        /\ o.sess \in Running /\ o.sess.fuse = 0 /\ o.sess.enable = c.enable /\ o.sess.block = c.block
        /\ o.sess.st = "PROTECTION" /\ o.sess.hw = {p} /\ o.sess.tx = "SF"
        /\ o.sess.keepalive = TRUE /\ o.sess.wtr = c.wtr /\ o.sess.wtb = c.wtb
    BY <1>0, <2>3, SayAndOpenAnswered
  <2> HIDE DEF o
  <2> QED BY <2>2, <2>3, <2>4 DEF o
<1> QED BY <1>1, <1>2

(* erps_x_handle_local_sf makes the node protect the failed port. *)
LEMMA LocalSfClaims ==
  ASSUME NEW n \in Nodes, NEW s \in Running, s.fuse = 0, s.enable, Claims(n, s), s.event_block \in Ports
  PROVE  LET o == local_sf(n, s)
         IN o.ret = "success" /\ o.sess \in Running /\ o.sess.fuse = 0 /\ Resists(n, o)
<1> DEFINE r == Switch(s, "SF", "PROTECTION", FALSE)
           q == r.sess
           u == StopWaits(q)
<1>0. s.event_block # None
  BY DEF Ports, None
<1>1. /\ r.ret = "success" /\ r.sent = {"SF"}
      /\ q \in Running /\ q.fuse = 0 /\ q.enable = s.enable /\ q.block = s.event_block
      /\ q.st = "PROTECTION" /\ q.hw = {s.event_block} /\ q.tx = "SF" /\ q.keepalive = TRUE
      /\ q.wtr = s.wtr /\ q.wtb = s.wtb
  BY SwitchAnswered DEF Claims
<1>2. local_sf(n, s) \in {r, Out(u, r.sent, r.ret), Out(q, r.sent, r.ret)}
  BY DEF local_sf, Settle, OwnerStopsWaits
<1> HIDE DEF r, q
<1>3. /\ u \in Running /\ u.fuse = 0 /\ u.enable = q.enable /\ u.block = q.block
      /\ u.st = q.st /\ u.hw = q.hw /\ u.tx = q.tx /\ u.keepalive = q.keepalive
      /\ ~u.wtr /\ ~u.wtb
  BY <1>1 DEF StopWaits, Running
<1> HIDE DEF u
<1>4. ASSUME NEW x \in {q, u} PROVE x \in Running /\ x.fuse = 0 /\ x.enable /\ Strong(x) /\ Claims(n, x)
  <2>1. /\ x \in Running /\ x.fuse = 0 /\ x.enable /\ x.block = s.event_block
        /\ x.st = "PROTECTION" /\ x.hw = {s.event_block} /\ x.tx = "SF" /\ x.keepalive
        /\ (x.wtr => s.wtr) /\ (x.wtb => s.wtb)
    BY <1>1, <1>3
  <2> QED BY <1>0, <2>1 DEF Strong, Claims
<1> DEFINE o == local_sf(n, s)
<1>5. o.sess \in {q, u} /\ o.sent = {"SF"} /\ o.ret = "success"
  BY <1>1, <1>2 DEF Out, q
<1> HIDE DEF o
<1> QED BY <1>4, <1>5 DEF Resists, o

(* erps_fsm adds nothing to its handler when the hardware layer answers. *)
LEMMA FsmAnswered ==
  ASSUME NEW n, NEW s, NEW event, NEW from, NEW o, o = Handle(n, s, event, from),
         o.sess \in Running, o.sess.fuse = 0
  PROVE  LET e == erps_fsm(n, s, event, from)
         IN e.sess = o.sess /\ e.sent = o.sent /\ e.ret = o.ret
<1>1. "east" \in Ports
  BY DEF Ports
<1>2. Burn(o.sess) = o.sess /\ ~NotAnswered(o.sess)
  BY <1>1, PrimAnswered
<1>3. erps_fsm(n, s, event, from) = IF o.ret # "success" THEN o ELSE Out(o.sess, o.sent, "success")
  BY <1>2 DEF erps_fsm
<1> QED BY <1>3 DEF Out

(* So erps_fsm protects a failed port. *)
LEMMA FsmSfClaims ==
  ASSUME NEW n \in Nodes, NEW s \in Running, s.fuse = 0, s.enable, Claims(n, s), s.event_block \in Ports,
         NEW from
  PROVE  LET o == erps_fsm(n, s, "LOCAL_SF", from)
         IN o.ret = "success" /\ o.sess \in Running /\ o.sess.fuse = 0 /\ Resists(n, o)
<1> DEFINE o == local_sf(n, s)
           e == erps_fsm(n, s, "LOCAL_SF", from)
<1>1. o.ret = "success" /\ o.sess \in Running /\ o.sess.fuse = 0 /\ Resists(n, o)
  BY LocalSfClaims
<1>2. s.st # "FS"
  BY DEF Claims
<1>3. Handle(n, s, "LOCAL_SF", from) = o
  BY <1>2 DEF Handle
<1> HIDE DEF o
<1>4. e.sess = o.sess /\ e.sent = o.sent /\ e.ret = o.ret
  BY <1>1, <1>3, FsmAnswered
<1> QED BY <1>1, <1>4 DEF Resists

(* A node whose failed port recovers keeps it blocked and its guard timer runs. *)
LEMMA FsmClearClaims ==
  ASSUME NEW n \in Nodes, NEW s \in Running, s.fuse = 0, s.enable, Claims(n, s), s.st = "PROTECTION",
         NEW from
  PROVE  Resists(n, erps_fsm(n, s, "LOCAL_CLEAR_SF", from))
<1> DEFINE q == Say(s, "NR")
           t == [q EXCEPT !.guard = TRUE, !.st = "PENDING"]
           u == [t EXCEPT !.wtr = TRUE]
           x == IF ~Owner(n) THEN t ELSE u
           o == Out(x, {"NR"}, "success")
           e == erps_fsm(n, s, "LOCAL_CLEAR_SF", from)
<1>1. "NR" \in Kinds /\ "PENDING" \in States
  BY DEF Kinds, States
<1>2. Handle(n, s, "LOCAL_CLEAR_SF", from) = protection_clear_sf(n, s)
  BY DEF Handle
<1>3. protection_clear_sf(n, s) = o
  BY DEF protection_clear_sf, GiveUp
<1>4. /\ q \in Running /\ q.enable = s.enable /\ q.fuse = 0 /\ q.hw = s.hw /\ q.block = s.block
      /\ q.tx = "NR" /\ q.keepalive = TRUE /\ q.wtr = s.wtr /\ q.wtb = s.wtb
  BY <1>1 DEF Say, Running
<1> HIDE DEF q
<1>5. /\ t \in Running /\ t.enable = s.enable /\ t.fuse = 0 /\ t.hw = s.hw /\ t.block = s.block
      /\ t.tx = "NR" /\ t.keepalive = TRUE /\ t.wtr = s.wtr /\ t.wtb = s.wtb /\ t.guard = TRUE
      /\ t.st = "PENDING"
  BY <1>1, <1>4 DEF Running
<1> HIDE DEF t
<1>6. /\ u \in Running /\ u.enable = s.enable /\ u.fuse = 0 /\ u.hw = s.hw /\ u.block = s.block
      /\ u.tx = "NR" /\ u.keepalive = TRUE /\ u.wtb = s.wtb /\ u.guard = TRUE
      /\ u.st = "PENDING"
  BY <1>5 DEF Running
<1> HIDE DEF u
<1>7. /\ x \in Running /\ x.enable /\ x.fuse = 0 /\ x.hw = s.hw /\ x.block = s.block
      /\ x.tx = "NR" /\ x.keepalive /\ x.guard /\ x.st = "PENDING"
      /\ (x.wtr => s.wtr \/ role[n] = "owner") /\ (x.wtb => s.wtb)
  BY <1>5, <1>6 DEF Owner
<1> HIDE DEF x
<1>8. Strong(x) /\ Claims(n, x)
  BY <1>7 DEF Strong, Claims
<1>9. o.sess = x /\ o.sent = {"NR"}
  BY DEF Out
<1> HIDE DEF o
<1>10. e.sess = o.sess /\ e.sent = o.sent
  BY <1>2, <1>3, <1>7, <1>9, FsmAnswered
<1> QED BY <1>7, <1>8, <1>9, <1>10 DEF Resists

(* A port that fails makes the node protect it. *)
LEMMA PortFailedClaims ==
  ASSUME NEW n \in Nodes, NEW s \in Running, s.fuse = 0, s.enable, Claims(n, s), NEW p \in Ports
  PROVE  LET o == PortFailed(n, s, p)
         IN o.ret = "success" /\ o.sess \in Running /\ o.sess.fuse = 0 /\ Resists(n, o)
<1> DEFINE x == [s EXCEPT !.flag = @ \cup {p}, !.event_block = p]
<1>1. x \in Running /\ x.fuse = 0 /\ x.enable /\ x.event_block \in Ports /\ Same(s, x)
  BY DEF Running, Same
<1>2. PortFailed(n, s, p) = erps_fsm(n, x, "LOCAL_SF", n)
  BY DEF PortFailed
<1> HIDE DEF x
<1>3. Claims(n, x)
  BY <1>1, SameClaims
<1> QED BY <1>1, <1>2, <1>3, FsmSfClaims

(* erps_state_update, for a port that goes down. *)
LEMMA DownStands ==
  ASSUME NEW n \in Nodes, NEW s \in Running, s.fuse = 0, s.enable, Claims(n, s), NEW p \in Ports
  PROVE  Stands(n, s, state_update_down(n, s, p))
<1>1. CASE holdoff
  <2> DEFINE x == [s EXCEPT !.flag = @ \cup {p}, !.event_block = p, !.holdoff = TRUE]
  <2>1. Same(s, x)
    BY DEF Running, Same
  <2>2. state_update_down(n, s, p) = Ok(x)
    BY <1>1 DEF state_update_down
  <2> HIDE DEF x
  <2> QED BY <2>1, <2>2 DEF Stands, Ok, Out
<1>2. CASE ~holdoff
  BY <1>2, PortFailedClaims DEF state_update_down, Stands
<1> QED BY <1>1, <1>2

(* erps_state_update, for a port that recovers. *)
LEMMA RecoveredStands ==
  ASSUME NEW n \in Nodes, NEW s \in Running, s.fuse = 0, s.enable, Claims(n, s), NEW p \in Ports
  PROVE  Stands(n, s, PortRecovered(n, s, p))
<1> DEFINE t == [s EXCEPT !.flag = @ \ {p}]
           x == [t EXCEPT !.event_block = Other(p)]
           y == [t EXCEPT !.event_block = None]
<1>0. Other(p) \in Ports
  BY OtherPort
<1>1. t \in Running /\ t.fuse = 0 /\ t.enable /\ t.st = s.st /\ Same(s, t)
  BY DEF Running, Same
<1>2. PortRecovered(n, s, p) =
        IF s.st # "PROTECTION" \/ s.event_block # p THEN Ok(t)
        ELSE IF Other(p) \in t.flag THEN erps_fsm(n, x, "LOCAL_SF", n)
        ELSE erps_fsm(n, y, "LOCAL_CLEAR_SF", n)
  BY DEF PortRecovered
<1> HIDE DEF t
<1>3. x \in Running /\ x.fuse = 0 /\ x.enable /\ x.event_block \in Ports /\ Same(t, x)
  BY <1>0, <1>1 DEF Running, Same
<1>4. y \in Running /\ y.fuse = 0 /\ y.enable /\ y.st = s.st /\ Same(t, y)
  BY <1>1 DEF Running, Same
<1> HIDE DEF x, y
<1>5. Claims(n, x) /\ Claims(n, y)
  BY <1>1, <1>3, <1>4, SameClaims
<1>6. Stands(n, s, Ok(t))
  BY <1>1 DEF Stands, Ok, Out
<1>7. Stands(n, s, erps_fsm(n, x, "LOCAL_SF", n))
  BY <1>3, <1>5, FsmSfClaims DEF Stands
<1>8. s.st = "PROTECTION" => Stands(n, s, erps_fsm(n, y, "LOCAL_CLEAR_SF", n))
  BY <1>4, <1>5, FsmClearClaims DEF Stands
<1> QED BY <1>2, <1>6, <1>7, <1>8

(* And for one that comes up. *)
LEMMA UpStands ==
  ASSUME NEW n \in Nodes, NEW s \in Running, s.fuse = 0, s.enable, Claims(n, s), NEW p \in Ports, NEW dn
  PROVE  Stands(n, s, state_update_up(n, s, p, dn))
<1>1. Stands(n, s, PortFailed(n, s, p))
  BY PortFailedClaims DEF Stands
<1> QED BY <1>1, RecoveredStands DEF state_update_up

(* erps_link_down_handler, when the hold-off timer expires. *)
LEMMA LinkDownStands ==
  ASSUME NEW n \in Nodes, NEW s \in Running, s.fuse = 0, s.enable, Claims(n, s), NEW dn
  PROVE  Stands(n, s, link_down_handler(n, s, dn))
<1>1. CASE Failed(dn) = {}
  BY <1>1 DEF link_down_handler, Stands, Same, Ok, Out
<1>2. CASE Failed(dn) # {}
  <2>1. PICK p \in Ports : link_down_handler(n, s, dn) = erps_fsm(n, [s EXCEPT !.event_block = p], "LOCAL_SF", n)
    BY <1>2 DEF link_down_handler, Ports
  <2> DEFINE x == [s EXCEPT !.event_block = p]
  <2>2. x \in Running /\ x.fuse = 0 /\ x.enable /\ x.event_block \in Ports /\ Same(s, x)
    BY DEF Running, Same
  <2> HIDE DEF x
  <2>3. Claims(n, x)
    BY <2>2, SameClaims
  <2>4. Resists(n, erps_fsm(n, x, "LOCAL_SF", n))
    BY <2>2, <2>3, FsmSfClaims
  <2> QED BY <2>1, <2>4 DEF Stands, x
<1> QED BY <1>1, <1>2

(* A session that is enabled blocks a port and says that it has nothing to request. *)
LEMMA InitializeClaims ==
  ASSUME NEW n \in Nodes, NEW s \in Running, s.fuse = 0, s.enable, s.hw = {}
  PROVE  LET o == Initialize(n, s)
         IN /\ o.sess \in Running /\ o.sess.fuse = 0 /\ o.sess.enable /\ o.sent = {"NR"}
            /\ Claims(n, o.sess) /\ Says(o.sess, "NR")
<1> DEFINE r == StopWaits(s)
           x == [r EXCEPT !.guard = FALSE]
           p == IF role[n] = "nonowner" THEN "west" ELSE rpl[n]
           b == [x EXCEPT !.hw = x.hw \cup {p}]
           c == [b EXCEPT !.block = p]
           q == Say(c, "NR")
           v == [q EXCEPT !.wtr = Owner(n), !.st = "PENDING"]
<1>1. p \in Ports /\ "NR" \in Kinds /\ "PENDING" \in States /\ Owner(n) \in BOOLEAN /\ p # None
  BY RplPort, ErpsAssumption DEF Ports, Kinds, States, Owner, None
<1>2. r \in Running /\ r.enable = s.enable /\ r.fuse = 0 /\ r.hw = {} /\ r.wtb = FALSE
  BY DEF StopWaits, Running
<1>3. r.fuse = 0 => x.fuse = 0
  BY <1>2 DEF Running
<1>4. Initialize(n, s) = IF NotAnswered(x) THEN Out(IF role[n] = "owner" THEN Block(x, p) ELSE [Block(x, p) EXCEPT !.block = p], {}, "ipc")
                         ELSE Out([Say([Block(x, p) EXCEPT !.block = p], "NR") EXCEPT !.wtr = Owner(n), !.st = "PENDING"], {"NR"}, "success")
  BY DEF Initialize
<1> HIDE DEF r, p
<1>5. x \in Running /\ x.enable = s.enable /\ x.fuse = 0 /\ x.hw = {} /\ x.wtb = FALSE /\ x.guard = FALSE
  BY <1>2 DEF Running
<1> HIDE DEF x
<1>6. ~NotAnswered(x) /\ Block(x, p) = b
  BY <1>1, <1>5, PrimAnswered
<1>7. Initialize(n, s) = Out(v, {"NR"}, "success")
  BY <1>4, <1>6
<1>8. /\ c \in Running /\ c.enable = s.enable /\ c.fuse = 0 /\ c.hw = {p} /\ c.wtb = FALSE
      /\ c.guard = FALSE /\ c.block = p
  BY <1>1, <1>5 DEF Running
<1> HIDE DEF c
<1>9. /\ q \in Running /\ q.enable = s.enable /\ q.fuse = 0 /\ q.hw = {p} /\ q.wtb = FALSE
      /\ q.guard = FALSE /\ q.block = p /\ q.tx = "NR" /\ q.keepalive = TRUE
  BY <1>1, <1>8 DEF Say, Running
<1> HIDE DEF q
<1>10. /\ v \in Running /\ v.enable = s.enable /\ v.fuse = 0 /\ v.hw = {p} /\ v.wtb = FALSE
       /\ v.guard = FALSE /\ v.block = p /\ v.tx = "NR" /\ v.keepalive = TRUE /\ v.wtr = Owner(n)
       /\ v.st = "PENDING"
  BY <1>1, <1>9 DEF Running
<1> HIDE DEF v
<1>11. Claims(n, v) /\ Says(v, "NR")
  BY <1>1, <1>10 DEF Claims, Says, Owner
<1> DEFINE o == Initialize(n, s)
<1>12. o.sess = v /\ o.sent = {"NR"}
  BY <1>7 DEF Out
<1>13. v.enable
  BY <1>10
<1> HIDE DEF o
<1> QED BY <1>10, <1>11, <1>12, <1>13 DEF o

(* Then the ports are looked at; those that have failed are protected. *)
LEMMA InitSessionStands ==
  ASSUME NEW n \in Nodes, NEW s \in Running, s.fuse = 0, s.enable, Claims(n, s), NEW d
  PROVE  Stands(n, s, init_session(n, s, d))
<1> DEFINE x == [s EXCEPT !.flag = {}]
           e == IF "east" \in d THEN PortFailed(n, x, "east") ELSE Ok(x)
           q == e.sess
           f == PortFailed(n, q, "west")
           g == Out(f.sess, e.sent \cup f.sent, f.ret)
<1>0. "east" \in Ports /\ "west" \in Ports
  BY DEF Ports
<1>1. x \in Running /\ x.enable /\ x.fuse = 0 /\ Same(s, x)
  BY DEF Running, Same
<1>2. init_session(n, s, d) = IF e.ret # "success" \/ "west" \notin d THEN e ELSE g
  BY DEF init_session, Then
<1> HIDE DEF x
<1>3. Claims(n, x)
  BY <1>1, SameClaims
<1>4. CASE "east" \in d
  <2>1. q \in Running /\ q.fuse = 0 /\ Resists(n, e)
    BY <1>0, <1>1, <1>3, <1>4, PortFailedClaims
  <2> HIDE DEF e, q
  <2>2. q.enable /\ Claims(n, q) /\ e.sent \subseteq {"NR", "SF"}
    BY <2>1 DEF Resists, q
  <2>3. Resists(n, f)
    BY <1>0, <2>1, <2>2, PortFailedClaims
  <2> HIDE DEF f
  <2>4. Resists(n, g)
    BY <2>2, <2>3 DEF Resists, Out
  <2> HIDE DEF g
  <2> QED BY <1>2, <2>1, <2>4 DEF Stands
<1>5. CASE "east" \notin d
  <2>1. e = Ok(x) /\ q = x /\ e.sent = {}
    BY <1>5 DEF Ok, Out
  <2> HIDE DEF e, q
  <2>2. Resists(n, f)
    BY <1>0, <1>1, <1>3, <2>1, PortFailedClaims
  <2> HIDE DEF f
  <2>3. Resists(n, g)
    BY <2>1, <2>2 DEF Resists, Out
  <2>4. Same(s, e.sess)
    BY <1>1, <2>1 DEF Ok, Out
  <2> HIDE DEF g
  <2> QED BY <1>2, <2>1, <2>3, <2>4 DEF Stands
<1> QED BY <1>4, <1>5

(* The whole of enabling: the node says that it has nothing to request, or protects. *)
LEMMA EnableClaims ==
  ASSUME NEW n \in Nodes, NEW s \in Running, s.fuse = 0, s.hw = {}, NEW d
  PROVE  LET o == session_enable(n, s, d)
         IN /\ o.sess.enable /\ Claims(n, o.sess) /\ o.sent \subseteq {"NR", "SF"}
            /\ Strong(o.sess) \/ (Says(o.sess, "NR") /\ o.sent = {"NR"})
<1> DEFINE x == [s EXCEPT !.enable = TRUE]
           i == Initialize(n, x)
           y == i.sess
           o == init_session(n, y, d)
           e == Out(o.sess, i.sent \cup o.sent, o.ret)
<1>0. "east" \in Ports
  BY DEF Ports
<1>1. Burn(s) = s /\ ~NotAnswered(s)
  BY <1>0, PrimAnswered
<1>2. session_enable(n, s, d) = e
  BY <1>1 DEF session_enable, Then
<1>3. x \in Running /\ x.enable /\ x.fuse = 0 /\ x.hw = {}
  BY DEF Running
<1> HIDE DEF x
<1>4. y \in Running /\ y.fuse = 0 /\ y.enable /\ i.sent = {"NR"} /\ Claims(n, y) /\ Says(y, "NR")
  BY <1>3, InitializeClaims
<1> HIDE DEF i, y
<1>5. Stands(n, y, o)
  BY <1>4, InitSessionStands
<1> HIDE DEF o
<1>6. e.sess = o.sess /\ e.sent = {"NR"} \cup o.sent
  BY <1>4 DEF Out
<1> HIDE DEF e
<1>7. CASE Same(y, o.sess) /\ o.sent = {}
  <2>1. Claims(n, o.sess) /\ Says(o.sess, "NR") /\ o.sess.enable
    BY <1>4, <1>7, SameClaims DEF Same
  <2>2. e.sent = {"NR"}
    BY <1>6, <1>7
  <2> QED BY <1>2, <1>6, <2>1, <2>2
<1>8. CASE Resists(n, o)
  BY <1>2, <1>6, <1>8 DEF Resists
<1> QED BY <1>5, <1>7, <1>8 DEF Stands

(* The owner that reverts closes the RPL and says so. *)
LEMMA RevertClaims ==
  ASSUME NEW n \in Nodes, NEW s \in Running, s.fuse = 0, s.enable, Claims(n, s), role[n] = "owner"
  PROVE  LET o == Revert(n, s)
         IN /\ o.sess \in Running /\ o.sess.fuse = 0 /\ o.sess.enable /\ o.sent = {"NR_RB"}
            /\ Claims(n, o.sess) /\ Says(o.sess, "NR_RB")
<1> DEFINE p == rpl[n]
           r == StopWaits(s)
           b == IF r.block = p THEN r ELSE [r EXCEPT !.hw = r.hw \cup {p}]
           f == [b EXCEPT !.hw = b.hw \ {Other(p)}]
           q == Say(f, "NR_RB")
           t == [q EXCEPT !.block = p, !.st = "IDLE"]
           o == Revert(n, s)
<1>0. "NR_RB" \in Kinds /\ "IDLE" \in States
  BY DEF Kinds, States
<1>1. p \in Ports /\ Other(p) \in Ports /\ Other(p) # p /\ Ports \ {Other(p)} = {p} /\ p # None
  BY RplPort, OtherPort DEF Ports, None
<1>2. /\ r \in Running /\ r.enable = s.enable /\ r.fuse = 0 /\ r.hw = s.hw /\ r.block = s.block
      /\ r.wtr = FALSE /\ r.wtb = FALSE
  BY DEF StopWaits, Running
<1>3. Block(r, p) = [r EXCEPT !.hw = r.hw \cup {p}]
  BY <1>1, <1>2, PrimAnswered
<1>4. b \in Running /\ b.enable = s.enable /\ b.fuse = 0 /\ b.wtr = FALSE /\ b.wtb = FALSE
  <2> HIDE DEF p, r
  <2> QED BY <1>1, <1>2 DEF Running
<1>5. p \in b.hw /\ b.hw \subseteq Ports
  <2>1. r.block = p => p \in r.hw
    BY <1>1, <1>2 DEF Claims
  <2> HIDE DEF p, r
  <2> QED BY <1>1, <1>2, <2>1 DEF Running
<1>6. Foward(b, Other(p)) = f
  <2> HIDE DEF b, p
  <2> QED BY <1>1, <1>4, PrimAnswered
<1>7. o = Out(t, {"NR_RB"}, "success")
  BY <1>3, <1>6 DEF Revert
<1> HIDE DEF o, p, b
<1>8. f \in Running /\ f.enable = s.enable /\ f.fuse = 0 /\ f.wtr = FALSE /\ f.wtb = FALSE /\ f.hw = {p}
  BY <1>1, <1>4, <1>5 DEF Running
<1> HIDE DEF f
<1>9. /\ q \in Running /\ q.enable = s.enable /\ q.fuse = 0 /\ q.wtr = FALSE /\ q.wtb = FALSE /\ q.hw = {p}
      /\ q.tx = "NR_RB" /\ q.keepalive = TRUE
  BY <1>0, <1>8 DEF Say, Running
<1> HIDE DEF q
<1>10. /\ t \in Running /\ t.enable = s.enable /\ t.fuse = 0 /\ t.wtr = FALSE /\ t.wtb = FALSE /\ t.hw = {p}
       /\ t.tx = "NR_RB" /\ t.keepalive = TRUE /\ t.st = "IDLE" /\ t.block = p
  BY <1>0, <1>1, <1>9 DEF Running
<1> HIDE DEF t
<1>11. t.enable /\ Claims(n, t) /\ Says(t, "NR_RB")
  BY <1>1, <1>10 DEF Claims, Says, p
<1>12. o.sess = t /\ o.sent = {"NR_RB"}
  BY <1>7 DEF Out
<1> QED BY <1>10, <1>11, <1>12 DEF o

(* What the end of a wait comes to. *)
LEMMA WaitClaims ==
  ASSUME NEW n \in Nodes, NEW s \in Running, s.fuse = 0, s.enable, Claims(n, s), role[n] = "owner",
         NEW event \in {"WTR_EXP", "WTB_EXP"}, NEW from
  PROVE  LET o == erps_fsm(n, s, event, from)
         IN \/ Same(s, o.sess) /\ o.sent = {}
            \/ /\ s.st = "PENDING" /\ o.sess.enable /\ o.sent = {"NR_RB"}
               /\ Claims(n, o.sess) /\ Says(o.sess, "NR_RB")
<1> DEFINE h == Handle(n, s, event, from)
           e == erps_fsm(n, s, event, from)
<1>1. CASE s.st = "PENDING"
  <2>1. h = Revert(n, s)
    BY <1>1 DEF Handle
  <2>2. /\ h.sess \in Running /\ h.sess.fuse = 0 /\ h.sess.enable /\ h.sent = {"NR_RB"}
        /\ Claims(n, h.sess) /\ Says(h.sess, "NR_RB")
    BY <2>1, RevertClaims
  <2>3. e.sess = h.sess /\ e.sent = h.sent
    <3> HIDE DEF h
    <3> QED BY <2>2, FsmAnswered DEF h
  <2> HIDE DEF h, e
  <2> QED BY <1>1, <2>2, <2>3 DEF e
<1>2. CASE s.st # "PENDING"
  <2>1. h = Ignored(s)
    BY <1>2 DEF Handle
  <2>2. h.sess = s /\ h.sent = {}
    BY <2>1 DEF Ignored, Out
  <2>3. e.sess = h.sess /\ e.sent = h.sent
    <3> HIDE DEF h
    <3> QED BY <2>2, FsmAnswered DEF h
  <2> QED BY <2>2, <2>3 DEF Same
<1> QED BY <1>1, <1>2

-----------------------------------------------------------------------------
(* Release opens the port and changes nothing else. *)
LEMMA ReleaseAnswered ==
  ASSUME NEW s \in Running, s.fuse = 0, s.hw = IF s.block = None THEN {} ELSE {s.block}
  PROVE  LET o == Release(s)
             t == o.sess
         IN /\ o.ret = "success" /\ t \in Running /\ t.fuse = 0 /\ t.block = None /\ t.hw = {}
            /\ t.st = s.st /\ t.tx = s.tx /\ t.enable = s.enable /\ t.keepalive = s.keepalive
            /\ t.guard = s.guard /\ t.wtr = s.wtr /\ t.wtb = s.wtb
<1>1. CASE s.block = None
  BY <1>1 DEF Release, Ok, Out
<1>2. CASE s.block # None
  <2> DEFINE t == [s EXCEPT !.block = None]
             f == [t EXCEPT !.hw = t.hw \ {s.block}]
  <2>1. /\ t \in Running /\ t.fuse = 0 /\ t.block = None /\ t.hw = {s.block} /\ s.block \in Ports
        /\ t.st = s.st /\ t.tx = s.tx /\ t.enable = s.enable /\ t.keepalive = s.keepalive
        /\ t.guard = s.guard /\ t.wtr = s.wtr /\ t.wtb = s.wtb
    BY <1>2 DEF Running
  <2>2. ~NotAnswered(s) /\ Foward(t, s.block) = f
    <3> HIDE DEF t
    <3> QED BY <2>1, PrimAnswered DEF NotAnswered
  <2>3. Release(s) = Out(f, {}, "success")
    BY <1>2, <2>2 DEF Release
  <2> HIDE DEF t
  <2>4. /\ f \in Running /\ f.fuse = 0 /\ f.block = None /\ f.hw = {}
        /\ f.st = s.st /\ f.tx = s.tx /\ f.enable = s.enable /\ f.keepalive = s.keepalive
        /\ f.guard = s.guard /\ f.wtr = s.wtr /\ f.wtb = s.wtb
    BY <2>1 DEF Running
  <2> HIDE DEF f
  <2> QED BY <2>3, <2>4 DEF Out
<1> QED BY <1>1, <1>2

(* An enabled session with its claims, after a handler. *)
Claimed(n, t) == t \in Running /\ t.fuse = 0 /\ t.enable /\ Claims(n, t)

(* R-APS(SF): the node opens its port. *)
LEMMA FollowClaims ==
  ASSUME NEW n \in Nodes, NEW s \in Running, s.fuse = 0, s.enable, Claims(n, s), ~s.guard
  PROVE  LET o == Follow(n, s, "PROTECTION_REMOTE") IN Claimed(n, o.sess) /\ o.sent = {}
<1> DEFINE r == Release(s)
           q == r.sess
           t == [q EXCEPT !.keepalive = FALSE, !.st = "PROTECTION_REMOTE"]
           u == StopWaits(t)
           o == Follow(n, s, "PROTECTION_REMOTE")
<1>1. /\ r.ret = "success" /\ q \in Running /\ q.fuse = 0 /\ q.block = None /\ q.hw = {}
      /\ q.enable = s.enable /\ q.guard = s.guard /\ q.wtr = s.wtr /\ q.wtb = s.wtb
  BY ReleaseAnswered DEF Claims
<1>2. o \in {Ok(t), Ok(u)}
  BY <1>1 DEF Follow, OwnerStopsWaits
<1> HIDE DEF r, q
<1>3. /\ t \in Running /\ t.fuse = 0 /\ t.block = None /\ t.hw = {} /\ t.keepalive = FALSE
      /\ t.st = "PROTECTION_REMOTE" /\ t.enable = s.enable /\ t.guard = s.guard
      /\ t.wtr = s.wtr /\ t.wtb = s.wtb
  BY <1>1 DEF Running, States
<1> HIDE DEF t
<1>4. /\ u \in Running /\ u.fuse = 0 /\ u.block = None /\ u.hw = {} /\ u.keepalive = FALSE
      /\ u.st = "PROTECTION_REMOTE" /\ u.enable = s.enable /\ u.guard = s.guard
      /\ u.wtr = FALSE /\ u.wtb = FALSE
  BY <1>3 DEF StopWaits, Running
<1> HIDE DEF u
<1>5. Claimed(n, t) /\ Claimed(n, u)
  BY <1>3, <1>4 DEF Claimed, Claims
<1>6. o.sess \in {t, u} /\ o.sent = {}
  BY <1>2 DEF Ok, Out
<1> QED BY <1>5, <1>6

(* R-APS(NR, RB) in the pending state: a node that is not the owner opens its port, the
   neighbour keeps its end of the RPL blocked. *)
LEMMA PendingNrrbClaims ==
  ASSUME NEW n \in Nodes, NEW s \in Running, s.fuse = 0, s.enable, Claims(n, s), ~s.guard,
         role[n] # "owner"
  PROVE  LET o == pending_nrrb(n, s) IN Claimed(n, o.sess) /\ o.sent = {}
<1> DEFINE idle(t) == [t EXCEPT !.st = "IDLE", !.keepalive = FALSE]
           o == pending_nrrb(n, s)
<1>0. role[n] \in {"neighbour", "nonowner"} /\ "IDLE" \in States
  BY ErpsAssumption DEF States
<1>1. ASSUME NEW t \in Running, t.fuse = 0, t.enable = s.enable, t.guard = s.guard, t.wtr = s.wtr,
             t.wtb = s.wtb, t.block = rpl[n], t.hw = IF rpl[n] = None THEN {} ELSE {rpl[n]}
      PROVE  Claimed(n, idle(t))
  <2> DEFINE u == idle(t)
  <2>1. /\ u \in Running /\ u.fuse = 0 /\ u.enable = s.enable /\ u.guard = s.guard /\ u.wtr = s.wtr
        /\ u.wtb = s.wtb /\ u.block = rpl[n] /\ u.hw = t.hw /\ u.st = "IDLE" /\ u.keepalive = FALSE
    BY <1>0, <1>1 DEF Running
  <2> HIDE DEF u
  <2>2. Claims(n, u) /\ u.enable
    BY <1>1, <2>1 DEF Claims
  <2> QED BY <2>1, <2>2 DEF Claimed, u
<1>2. CASE role[n] = "nonowner"
  <2>0. rpl[n] = None
    BY <1>2, ErpsAssumption
  <2>1. CASE s.block = None
    <3>1. o = Ok(idle(s))
      BY <1>2, <2>1 DEF pending_nrrb
    <3>2. Claimed(n, idle(s))
      <4>1. s.hw = {}
        BY <2>1 DEF Claims
      <4> HIDE DEF idle
      <4> QED BY <1>1, <2>0, <2>1, <4>1
    <3> HIDE DEF idle
    <3> QED BY <3>1, <3>2 DEF Ok, Out
  <2>2. CASE s.block # None
    <3> DEFINE f == [s EXCEPT !.hw = s.hw \ {s.block}]
               g == [f EXCEPT !.block = None]
    <3>1. s.block \in Ports /\ s.hw = {s.block}
      BY <2>2 DEF Running, Claims
    <3>2. ~NotAnswered(s) /\ Foward(s, s.block) = f
      BY <3>1, PrimAnswered
    <3>3. o = Ok(idle(g))
      BY <1>2, <2>2, <3>2 DEF pending_nrrb
    <3>4. /\ g \in Running /\ g.fuse = 0 /\ g.enable = s.enable /\ g.guard = s.guard /\ g.wtr = s.wtr
          /\ g.wtb = s.wtb /\ g.block = None /\ g.hw = {}
      BY <3>1 DEF Running
    <3> HIDE DEF g, idle
    <3>5. Claimed(n, idle(g))
      BY <1>1, <2>0, <3>4
    <3> QED BY <3>3, <3>5 DEF Ok, Out
  <2> QED BY <2>1, <2>2
<1>3. CASE role[n] = "neighbour"
  <2> DEFINE p == rpl[n]
             b == [s EXCEPT !.hw = s.hw \cup {p}]
             c == [b EXCEPT !.block = p]
             f == [c EXCEPT !.hw = c.hw \ {Other(p)}]
  <2>1. p \in Ports /\ Other(p) \in Ports /\ Other(p) # p /\ Ports \ {Other(p)} = {p} /\ p # None
    BY <1>3, RplPort, OtherPort DEF Ports, None
  <2>2. ~NotAnswered(s) /\ Block(s, p) = b
    BY <2>1, PrimAnswered
  <2>3. /\ c \in Running /\ c.fuse = 0 /\ c.enable = s.enable /\ c.guard = s.guard /\ c.wtr = s.wtr
        /\ c.wtb = s.wtb /\ c.block = p /\ c.hw \subseteq Ports /\ p \in c.hw
    <3> HIDE DEF p
    <3> QED BY <2>1 DEF Running
  <2>4. Foward(c, Other(p)) = f
    <3> HIDE DEF c, p
    <3> QED BY <2>1, <2>3, PrimAnswered
  <2>5. ~NotAnswered(b)
    <3> HIDE DEF p
    <3> QED BY <2>1 DEF Running, NotAnswered
  <2>6. o = Ok(idle(f))
    BY <1>3, <2>2, <2>4, <2>5 DEF pending_nrrb
  <2> HIDE DEF c
  <2>7. /\ f \in Running /\ f.fuse = 0 /\ f.enable = s.enable /\ f.guard = s.guard /\ f.wtr = s.wtr
        /\ f.wtb = s.wtb /\ f.block = p /\ f.hw = {p}
    <3> HIDE DEF p
    <3> QED BY <2>1, <2>3 DEF Running
  <2> HIDE DEF f, idle
  <2>8. Claimed(n, idle(f))
    BY <1>1, <2>1, <2>7
  <2> QED BY <2>6, <2>8 DEF Ok, Out
<1> QED BY <1>0, <1>2, <1>3

(* R-APS(NR) of a higher node: the node says nothing any more, and may open its port. *)
LEMMA YieldClaims ==
  ASSUME NEW n \in Nodes, NEW s \in Running, s.fuse = 0, s.enable, Claims(n, s), ~s.guard,
         s.st = "PENDING" \/ (s.st = "IDLE" /\ role[n] = "nonowner"), NEW from \in Nodes
  PROVE  LET o == Yield(n, s, from)
         IN Claimed(n, o.sess) /\ o.sent = {} /\ (o.sess = s \/ from > n)
<1> DEFINE r == IF s.flag = {} THEN Release(s) ELSE Ok(s)
           q == r.sess
           t == [q EXCEPT !.keepalive = FALSE]
           e == IF s.flag = {} /\ s.block # None THEN "success" ELSE "existed"
           o == Yield(n, s, from)
<1>1. /\ r.ret = "success" /\ q \in Running /\ q.fuse = 0 /\ q.st = s.st /\ q.enable = s.enable
      /\ q.guard = s.guard /\ q.wtr = s.wtr /\ q.wtb = s.wtb
      /\ q.block \in {None, s.block} /\ q.hw = IF q.block = None THEN {} ELSE {q.block}
  <2>1. CASE s.flag = {}
    <3>1. r = Release(s)
      BY <2>1
    <3> HIDE DEF r
    <3> QED BY <3>1, ReleaseAnswered DEF Claims
  <2>2. CASE s.flag # {}
    <3>1. q = s /\ r.ret = "success"
      BY <2>2 DEF Ok, Out
    <3> HIDE DEF q
    <3> QED BY <3>1 DEF Claims
  <2> QED BY <2>1, <2>2
<1>2. o = IF from <= n THEN Out(s, {}, "existed") ELSE Out(t, {}, e)
  BY <1>1 DEF Yield
<1> HIDE DEF r, q, e
<1>3. /\ t \in Running /\ t.fuse = 0 /\ t.st = s.st /\ t.enable = s.enable
      /\ t.guard = s.guard /\ t.wtr = s.wtr /\ t.wtb = s.wtb /\ t.keepalive = FALSE
      /\ t.block = q.block /\ t.hw = q.hw
  BY <1>1 DEF Running
<1> HIDE DEF t
<1>4. s.st = "IDLE" => s.block = None /\ rpl[n] = None
  BY ErpsAssumption DEF Claims
<1>5. Claimed(n, t)
  BY <1>1, <1>3, <1>4 DEF Claimed, Claims
<1>6. Claimed(n, s)
  BY DEF Claimed
<1>7. n \in Int /\ from \in Int
  BY NodeNumbers
<1> QED BY <1>2, <1>5, <1>6, <1>7 DEF Out

(* R-APS(NR) at a node that had followed a request: it is pending, its port stays open. *)
LEMMA XNrClaims ==
  ASSUME NEW n \in Nodes, NEW s \in Running, s.fuse = 0, s.enable, Claims(n, s), ~s.guard,
         s.st = "PROTECTION_REMOTE"
  PROVE  LET o == x_raps_nr(n, s) IN Claimed(n, o.sess) /\ o.sent = {}
<1> DEFINE w == s.wtr \/ (Owner(n) /\ s.st = "PROTECTION_REMOTE")
           x == s.wtb \/ (Owner(n) /\ s.st \in {"MS", "FS"})
           t == [s EXCEPT !.st = "PENDING", !.wtr = w, !.wtb = x]
<1>1. w \in BOOLEAN /\ x \in BOOLEAN /\ (w \/ x => role[n] = "owner") /\ "PENDING" \in States
  BY DEF States, Owner, Claims
<1>2. x_raps_nr(n, s) = Ok(t)
  BY DEF x_raps_nr
<1> HIDE DEF w, x
<1>3. /\ t \in Running /\ t.enable = s.enable /\ t.fuse = 0 /\ t.hw = s.hw /\ t.block = s.block
      /\ t.keepalive = s.keepalive /\ t.guard = s.guard /\ t.st = "PENDING" /\ t.wtr = w /\ t.wtb = x
  BY <1>1 DEF Running
<1> HIDE DEF t
<1>4. ~s.keepalive
  BY DEF Claims
<1>5. Claimed(n, t)
  BY <1>1, <1>3, <1>4 DEF Claimed, Claims
<1> QED BY <1>2, <1>5 DEF Ok, Out

(* What a request of another node does to a session that does not guard: it changes nothing
   of what the node says, or the node yields to a request that may be yielded to. *)
LEMMA RapsClaims ==
  ASSUME NEW n \in Nodes, NEW s \in Running, s.fuse = 0, s.enable, Claims(n, s), ~s.guard,
         NEW m \in Nodes, NEW kind \in {"SF", "NR_RB", "NR"}, kind = "NR_RB" => role[n] # "owner"
  PROVE  LET o == erps_fsm(n, s, Event(kind), m)
         IN /\ o.sess.enable /\ Claims(n, o.sess) /\ o.sent = {}
            /\ \/ /\ Strong(s) => Strong(o.sess)
                  /\ \A k \in {"NR", "NR_RB"} : Says(s, k) => Says(o.sess, k)
               \/ /\ ~Strong(s)
                  /\ kind = "SF" \/ ~Says(s, "NR_RB")
                  /\ kind = "NR" => m > n
<1> DEFINE h == Handle(n, s, Event(kind), m)
           e == erps_fsm(n, s, Event(kind), m)
           Keeps(t) == /\ Strong(s) => Strong(t)
                       /\ \A k \in {"NR", "NR_RB"} : Says(s, k) => Says(t, k)
           Yields == /\ ~Strong(s)
                     /\ kind = "SF" \/ ~Says(s, "NR_RB")
                     /\ kind = "NR" => m > n
<1>1. s.st \in {"IDLE", "PROTECTION", "PENDING", "PROTECTION_REMOTE"}
  BY DEF Claims
<1>2. Claimed(n, s)
  BY DEF Claimed
<1>3. s.st # "PROTECTION" => ~Strong(s)
  BY DEF Strong
<1>4. s.st = "IDLE" => s.block = rpl[n]
  BY DEF Claims
<1>5. s.st # "IDLE" \/ role[n] # "owner" => ~Says(s, "NR_RB")
  BY DEF Claims, Says
<1>6. h.sess = s => Keeps(h.sess)
  OBVIOUS
<1>7. Claimed(n, h.sess) /\ h.sent = {} /\ (Keeps(h.sess) \/ Yields)
  <2>1. CASE kind = "SF"
    <3>1. h = IF s.st \in {"PENDING", "IDLE"} THEN Follow(n, s, "PROTECTION_REMOTE") ELSE Ignored(s)
      BY <1>1, <2>1 DEF Handle, Event
    <3>2. CASE s.st \in {"PENDING", "IDLE"}
      <4>1. Claimed(n, h.sess) /\ h.sent = {}
        BY <3>1, <3>2, FollowClaims
      <4> QED BY <1>3, <2>1, <3>2, <4>1
    <3>3. CASE s.st \notin {"PENDING", "IDLE"}
      <4>1. h.sess = s /\ h.sent = {}
        BY <3>1, <3>3 DEF Ignored, Out
      <4> QED BY <1>2, <1>6, <4>1
    <3> QED BY <3>2, <3>3
  <2>2. CASE kind = "NR_RB"
    <3>1. h = IF s.st = "PENDING" THEN pending_nrrb(n, s)
              ELSE IF s.st = "IDLE" THEN Out(s, {}, "existed") ELSE Ignored(s)
      BY <1>1, <1>4, <2>2 DEF Handle, Event, idle_nrrb
    <3>2. CASE s.st = "PENDING"
      <4>1. Claimed(n, h.sess) /\ h.sent = {}
        BY <2>2, <3>1, <3>2, PendingNrrbClaims
      <4> QED BY <1>3, <1>5, <2>2, <3>2, <4>1
    <3>3. CASE s.st # "PENDING"
      <4>1. h.sess = s /\ h.sent = {}
        BY <3>1, <3>3 DEF Ignored, Out
      <4> QED BY <1>2, <1>6, <4>1
    <3> QED BY <3>2, <3>3
  <2>3. CASE kind = "NR"
    <3>1. h = IF s.st = "PENDING" \/ (s.st = "IDLE" /\ role[n] = "nonowner") THEN Yield(n, s, m)
              ELSE IF s.st = "IDLE" THEN Out(s, {}, "existed")
              ELSE IF s.st = "PROTECTION_REMOTE" THEN x_raps_nr(n, s) ELSE Ignored(s)
      BY <1>1, <2>3 DEF Handle, Event
    <3>2. CASE s.st = "PENDING" \/ (s.st = "IDLE" /\ role[n] = "nonowner")
      <4>1. Claimed(n, h.sess) /\ h.sent = {} /\ (h.sess = s \/ m > n)
        BY <3>1, <3>2, YieldClaims
      <4>2. ~Strong(s) /\ ~Says(s, "NR_RB")
        BY <1>3, <1>5, <3>2
      <4> QED BY <1>6, <2>3, <4>1, <4>2
    <3>3. CASE s.st = "PROTECTION_REMOTE"
      <4>1. Claimed(n, h.sess) /\ h.sent = {}
        BY <3>1, <3>3, XNrClaims
      <4>2. ~s.keepalive
        BY <3>3 DEF Claims
      <4>3. Keeps(h.sess)
        BY <1>3, <3>3, <4>2 DEF Says
      <4> QED BY <4>1, <4>3
    <3>4. CASE s.st = "PROTECTION" \/ (s.st = "IDLE" /\ role[n] # "nonowner")
      <4>1. h.sess = s /\ h.sent = {}
        BY <3>1, <3>4 DEF Ignored, Out
      <4> QED BY <1>2, <1>6, <4>1
    <3> QED BY <1>1, <3>2, <3>3, <3>4
  <2> QED BY <2>1, <2>2, <2>3
<1> HIDE DEF Keeps, Yields
<1>8. h.sess \in Running /\ h.sess.fuse = 0 /\ h.sess.enable /\ Claims(n, h.sess)
  BY <1>7 DEF Claimed
<1> HIDE DEF h
<1>9. e.sess = h.sess /\ e.sent = h.sent
  BY <1>8, FsmAnswered DEF h
<1> HIDE DEF e
<1>10. e.sess.enable /\ Claims(n, e.sess) /\ e.sent = {} /\ (Keeps(e.sess) \/ Yields)
  BY <1>7, <1>8, <1>9
<1> QED BY <1>10 DEF Keeps, Yields, e

-----------------------------------------------------------------------------
(* An event of the node's own ports takes the cover from no message. *)
LEMMA StandsCovers ==
  ASSUME NEW S, NEW T, NEW n \in Nodes, \A m \in Nodes \ {n} : T[m] = S[m],
         NEW o, T[n] = o.sess, S[n].enable, Claims(n, S[n]), Stands(n, S[n], o)
  PROVE  /\ o.sess.enable => Claims(n, o.sess)
         /\ \A m : Keeping(S, m) => Keeping(T, m)
         /\ \A f : Covered(S, f) => Covered(T, f)
         /\ \A f : f.kind \in o.sent => Covered(T, f)
<1>1. CASE Same(S[n], o.sess) /\ o.sent = {}
  <2>1. Claims(n, o.sess) /\ Strong(S[n]) = Strong(T[n]) /\ \A kind : Says(S[n], kind) = Says(T[n], kind)
    BY <1>1, SameClaims
  <2> QED BY <1>1, <2>1, SameClaim
<1>2. CASE Resists(n, o)
  <2>1. Claims(n, o.sess) /\ Protecting(T)
    BY <1>2 DEF Resists, Protecting
  <2>2. Closing(T) /\ \A m : Keeping(T, m)
    BY <2>1, StrongCovers
  <2>3. \A f : Covered(S, f) => Covered(T, f)
    BY <2>1, StrongCovers
  <2>4. \A f : f.kind \in o.sent => Covered(T, f)
    BY <1>2, <2>1, <2>2 DEF Resists, Covered
  <2> QED BY <2>1, <2>2, <2>3, <2>4
<1> QED BY <1>1, <1>2 DEF Stands

(* raps_send: what is new on the wire is a request of the node. *)
LEMMA TransmitFrames ==
  ASSUME NEW n, NEW sent, NEW w, NEW v \in Transmit(n, sent, w), NEW f \in v
  PROVE  f \in w \/ (f.from = n /\ f.kind \in sent)
BY DEF Transmit

(* Nothing unusual has happened: the other parts of the invariant hold. *)
LEMMA UndisturbedNode ==
  ASSUME ErpsInv, Undisturbed, NEW n \in Nodes
  PROVE  /\ NodeOK(n, sess[n], enabled[n]) /\ sess[n] \in Running /\ sess[n].fuse = 0
         /\ [sess[n] EXCEPT !.fuse = 0] = sess[n]
<1>1. NodeOK(n, sess[n], enabled[n])
  BY UndisturbedTrusted DEF Trusted
<1>2. sess[n] \in Sessions
  BY InvTypes
<1>3. sess[n] \in Running /\ sess[n].fuse = 0 /\ [sess[n] EXCEPT !.fuse = 0] = sess[n]
  <2> DEFINE s == sess[n]
  <2>1. s \in Sessions
    BY <1>2
  <2> HIDE DEF s
  <2>2. s \in Running /\ s.fuse = 0 /\ [s EXCEPT !.fuse = 0] = s
    BY <2>1 DEF Sessions, Running
  <2> QED BY <2>2 DEF s
<1> QED BY <1>1, <1>3

(* A node that runs a handler keeps the invariant if, unless something unusual happens, it
   has its claims and what is under way is covered. *)
LEMMA RunLoop ==
  ASSUME ErpsInv, LoopInv, NEW n \in Nodes, NEW o, NEW k, NEW w \in SUBSET Frames, NEW h, NEW b \in Budgets,
         b.hal = budget.hal, b.command <= budget.command, RunAs(n, o, k, w, h, b),
         Undisturbed /\ k = 0 /\ b.command = budget.command =>
           /\ o.sess.enable => Claims(n, o.sess)
           /\ \A f \in w : Covered(sess', f)
           /\ \A f : f.from = n /\ f.kind \in o.sent => Covered(sess', f)
           /\ Keeping(sess', 0)
  PROVE  LoopInv'
<1>1. sess' = [sess EXCEPT ![n] = o.sess] /\ wire' \in Transmit(n, o.sent, w)
  BY DEF RunAs
<1>2. sess'[n] = o.sess /\ \A m \in Nodes \ {n} : sess'[m] = sess[m]
  BY <1>1, InvTypes
<1>3. budget' \in Budgets /\ budget'.command = b.command /\ budget'.hal <= b.hal /\ (budget'.hal = b.hal => k = 0)
  BY RunBudget DEF RunAs
<1>4. budget.hal \in 0 .. MaxHal /\ budget.command \in 0 .. MaxCommand /\ b.command \in 0 .. MaxCommand
      /\ budget'.hal \in 0 .. MaxHal /\ MaxHal \in Nat /\ MaxCommand \in Nat
  BY <1>3, InvTypes, ErpsAssumption DEF Budgets
<1>5. Undisturbed' => Undisturbed /\ k = 0 /\ b.command = budget.command
  BY <1>3, <1>4 DEF Undisturbed, HalAnswers
<1> SUFFICES ASSUME Undisturbed'
             PROVE  (/\ \A m \in Nodes : sess[m].enable => Claims(m, sess[m])
                     /\ \A f \in wire : Covered(sess, f)
                     /\ Keeping(sess, 0))'
  BY DEF LoopInv
<1>6. \A m \in Nodes : sess'[m].enable => Claims(m, sess'[m])
  BY <1>2, <1>5 DEF LoopInv
<1>7. \A f \in wire' : Covered(sess', f)
  <2> SUFFICES ASSUME NEW f \in wire' PROVE Covered(sess', f)
    OBVIOUS
  <2>1. f \in w \/ (f.from = n /\ f.kind \in o.sent)
    BY <1>1, TransmitFrames
  <2> QED BY <1>5, <2>1
<1>8. Keeping(sess', 0)
  BY <1>5
<1> QED BY <1>6, <1>7, <1>8 DEF Claims, Covered, Keeping, Closing, Protecting, Strong, Says

(* A node that runs a handler: its session is the handler's result, the others stay. *)
LEMMA RunSess ==
  ASSUME ErpsInv, NEW n \in Nodes, NEW o, NEW k, NEW w, NEW h, NEW b, RunAs(n, o, k, w, h, b)
  PROVE  sess'[n] = o.sess /\ \A m \in Nodes \ {n} : sess'[m] = sess[m]
BY InvTypes DEF RunAs

(* The steps in which an event of the node's own ports is handled. *)
LEMMA StandsRun ==
  ASSUME ErpsInv, LoopInv, NEW n \in Nodes, NEW o, NEW k, NEW b \in Budgets,
         b.hal = budget.hal, b.command = budget.command, RunAs(n, o, k, wire, heard, b),
         Undisturbed /\ k = 0 => IF sess[n].enable THEN Claims(n, sess[n]) => Stands(n, sess[n], o)
                                 ELSE o.sess = sess[n] /\ o.sent = {}
  PROVE  LoopInv'
<1>1. sess'[n] = o.sess /\ \A m \in Nodes \ {n} : sess'[m] = sess[m]
  BY RunSess
<1>2. ASSUME Undisturbed, k = 0
      PROVE  /\ o.sess.enable => Claims(n, o.sess)
             /\ \A f \in wire : Covered(sess', f)
             /\ \A f : f.from = n /\ f.kind \in o.sent => Covered(sess', f)
             /\ Keeping(sess', 0)
  <2>1. /\ \A m \in Nodes : sess[m].enable => Claims(m, sess[m])
        /\ \A f \in wire : Covered(sess, f)
        /\ Keeping(sess, 0)
    BY <1>2 DEF LoopInv
  <2>2. CASE sess[n].enable
    <3>1. Claims(n, sess[n]) /\ Stands(n, sess[n], o)
      BY <1>2, <2>1, <2>2
    <3>2. /\ o.sess.enable => Claims(n, o.sess)
          /\ \A m : Keeping(sess, m) => Keeping(sess', m)
          /\ \A f : Covered(sess, f) => Covered(sess', f)
          /\ \A f : f.kind \in o.sent => Covered(sess', f)
      BY <1>1, <2>2, <3>1, StandsCovers
    <3> QED BY <2>1, <3>2
  <2>3. CASE ~sess[n].enable
    <3>1. o.sess = sess[n] /\ o.sent = {}
      BY <1>2, <2>3
    <3>2. /\ \A m : Keeping(sess, m) => Keeping(sess', m)
          /\ \A f : Covered(sess, f) => Covered(sess', f)
      BY <1>1, <3>1, SameClaim
    <3> QED BY <2>1, <2>3, <3>1, <3>2
  <2> QED BY <2>2, <2>3
<1>3. b.command <= budget.command
  BY InvTypes, ErpsAssumption DEF Budgets
<1>4. wire \in SUBSET Frames
  BY InvTypes
<1> QED BY <1>2, <1>3, <1>4, RunLoop

(* A port fails. *)
LEMMA PortDownLoop ==
  ASSUME ErpsInv, LoopInv, NEW n \in Nodes, NEW p \in Ports, NEW g \in Signals, PortDown(n, p, g)
  PROVE  LoopInv'
<1> DEFINE y(k) == [sess[n] EXCEPT !.fuse = k]
           o(k) == IF enabled[n] > 0 THEN state_update_down(n, y(k), p) ELSE Ok(y(k))
<1>1. PICK c \in Charged(n, p) : /\ budget[c] > 0
                                 /\ \E k : RunAs(n, o(k), k, wire, heard, [budget EXCEPT ![c] = @ - 1])
  BY DEF PortDown, Run, RunAs
<1> DEFINE b == [budget EXCEPT ![c] = @ - 1]
<1>2. PICK k : RunAs(n, o(k), k, wire, heard, b)
  BY <1>1
<1>3. c \in {"fail", "far"}
  BY DEF Charged
<1>4. b \in Budgets /\ b.hal = budget.hal /\ b.command = budget.command
  BY <1>1, <1>3, InvTypes, ErpsAssumption DEF Budgets
<1> HIDE DEF b
<1>5. ASSUME Undisturbed, k = 0
      PROVE  IF sess[n].enable THEN Claims(n, sess[n]) => Stands(n, sess[n], o(k))
             ELSE o(k).sess = sess[n] /\ o(k).sent = {}
  <2>1. NodeOK(n, sess[n], enabled[n]) /\ sess[n] \in Running /\ sess[n].fuse = 0 /\ y(k) = sess[n]
    BY <1>5, UndisturbedNode
  <2> HIDE DEF y
  <2>2. CASE sess[n].enable
    <3>1. o(k) = state_update_down(n, sess[n], p)
      BY <2>1, <2>2 DEF NodeOK
    <3> QED BY <2>1, <2>2, <3>1, DownStands
  <2>3. CASE ~sess[n].enable
    BY <2>1, <2>3 DEF NodeOK, Ok, Out
  <2> QED BY <2>2, <2>3
<1> HIDE DEF o
<1> QED BY <1>2, <1>4, <1>5, StandsRun

(* A report q of a port is looked at if a session is counted. *)
LEMMA UpdateLoop ==
  ASSUME ErpsInv, LoopInv, NEW n \in Nodes, NEW k, NEW q,
         RunAs(n, IF enabled[n] > 0 THEN q ELSE Ok([sess[n] EXCEPT !.fuse = k]), k, wire, heard, budget),
         LET y == [sess[n] EXCEPT !.fuse = k]
         IN y \in Running /\ y.fuse = 0 /\ y.enable /\ Claims(n, y) => Stands(n, y, q)
  PROVE  LoopInv'
<1> DEFINE y == [sess[n] EXCEPT !.fuse = k]
           o == IF enabled[n] > 0 THEN q ELSE Ok(y)
<1>1. RunAs(n, o, k, wire, heard, budget)
  OBVIOUS
<1>2. budget \in Budgets
  BY InvTypes
<1>3. ASSUME Undisturbed, k = 0
      PROVE  IF sess[n].enable THEN Claims(n, sess[n]) => Stands(n, sess[n], o)
             ELSE o.sess = sess[n] /\ o.sent = {}
  <2>1. NodeOK(n, sess[n], enabled[n]) /\ sess[n] \in Running /\ sess[n].fuse = 0 /\ y = sess[n]
    BY <1>3, UndisturbedNode
  <2>2. sess[n].enable /\ Claims(n, sess[n]) => Stands(n, sess[n], q)
    BY <2>1
  <2> HIDE DEF y
  <2>3. CASE sess[n].enable
    <3>1. o = q
      BY <2>1, <2>3 DEF NodeOK
    <3> QED BY <2>2, <2>3, <3>1
  <2>4. CASE ~sess[n].enable
    BY <2>1, <2>4 DEF NodeOK, Ok, Out
  <2> QED BY <2>3, <2>4
<1> HIDE DEF o
<1> QED BY <1>1, <1>2, <1>3, StandsRun

(* A port recovers. *)
LEMMA PortUpLoop ==
  ASSUME ErpsInv, LoopInv, NEW n \in Nodes, NEW p \in Ports, NEW g \in Signals, PortUp(n, p, g)
  PROVE  LoopInv'
<1> DEFINE y(k) == [sess[n] EXCEPT !.fuse = k]
           dn == down'[n]
<1>1. PICK k : RunAs(n, IF enabled[n] > 0 THEN state_update_up(n, y(k), p, dn) ELSE Ok(y(k)), k, wire, heard, budget)
  BY DEF PortUp, Run, RunAs
<1> HIDE DEF dn
<1> QED BY <1>1, UpStands, UpdateLoop

(* The CFM session of a port is deleted. *)
LEMMA CcDeleteLoop ==
  ASSUME ErpsInv, LoopInv, NEW n \in Nodes, NEW p \in Ports, CcDelete(n, p)
  PROVE  LoopInv'
<1> DEFINE y(k) == [sess[n] EXCEPT !.fuse = k]
<1>1. PICK k : RunAs(n, IF enabled[n] > 0 THEN PortRecovered(n, y(k), p) ELSE Ok(y(k)), k, wire, heard, budget)
  BY DEF CcDelete, Run, RunAs
<1> QED BY <1>1, RecoveredStands, UpdateLoop

(* The hold-off timer expires. *)
LEMMA HoldoffLoop == ASSUME ErpsInv, LoopInv, NEW n \in Nodes, HoldoffExpires(n) PROVE LoopInv'
<1> DEFINE y(k) == [sess[n] EXCEPT !.fuse = k]
           x(k) == [y(k) EXCEPT !.holdoff = FALSE]
           o(k) == link_down_handler(n, x(k), down[n])
<1>1. PICK k : RunAs(n, o(k), k, wire, heard, budget)
  BY DEF HoldoffExpires, Run, RunAs
<1>2. budget \in Budgets
  BY InvTypes
<1>3. ASSUME Undisturbed, k = 0
      PROVE  IF sess[n].enable THEN Claims(n, sess[n]) => Stands(n, sess[n], o(k))
             ELSE o(k).sess = sess[n] /\ o(k).sent = {}
  <2>1. NodeOK(n, sess[n], enabled[n]) /\ sess[n] \in Running /\ sess[n].fuse = 0 /\ y(k) = sess[n]
    BY <1>3, UndisturbedNode
  <2>2. sess[n].enable
    BY <2>1 DEF NodeOK, HoldoffExpires
  <2> HIDE DEF y
  <2>3. x(k) \in Running /\ x(k).fuse = 0 /\ x(k).enable /\ Same(sess[n], x(k))
    <3> DEFINE s == sess[n]
    <3>1. s \in Running /\ s.fuse = 0 /\ s.enable /\ y(k) = s
      BY <2>1, <2>2
    <3> HIDE DEF s
    <3>2. x(k) \in Running /\ x(k).fuse = 0 /\ x(k).enable /\ Same(s, x(k))
      BY <3>1 DEF Running, Same
    <3> QED BY <3>2 DEF s
  <2> HIDE DEF x
  <2>4. ASSUME Claims(n, sess[n]) PROVE Stands(n, sess[n], o(k))
    <3>1. Claims(n, x(k))
      BY <2>3, <2>4, SameClaims
    <3>2. Stands(n, x(k), o(k))
      BY <2>3, <3>1, LinkDownStands
    <3> QED BY <2>3, <3>2 DEF Stands, Same
  <2> QED BY <2>2, <2>4
<1> HIDE DEF o
<1> QED BY <1>1, <1>2, <1>3, StandsRun

(* A session is disabled: nothing is claimed of a ring in which a node is off. *)
LEMMA DisableLoop == ASSUME ErpsInv, LoopInv, NEW n \in Nodes, Disable(n) PROVE LoopInv'
<1> DEFINE b == [budget EXCEPT !.cycle = @ - 1]
           y(k) == [sess[n] EXCEPT !.fuse = k]
           o(k) == DisableSession(y(k))
<1>1. PICK k : RunAs(n, o(k), k, wire, heard, b)
  BY DEF Disable, Run, RunAs, DisableSession
<1>2. b \in Budgets /\ b.hal = budget.hal /\ b.command = budget.command /\ b.command <= budget.command
  BY InvTypes, ErpsAssumption DEF Budgets, Disable
<1> HIDE DEF b
<1>3. sess'[n] = o(k).sess
  BY <1>1, RunSess
<1>4. ASSUME Undisturbed, k = 0
      PROVE  /\ o(k).sess.enable => Claims(n, o(k).sess)
             /\ \A f \in wire : Covered(sess', f)
             /\ \A f : f.from = n /\ f.kind \in o(k).sent => Covered(sess', f)
             /\ Keeping(sess', 0)
  <2>1. sess[n] \in Running /\ sess[n].fuse = 0 /\ y(k) = sess[n]
    BY <1>4, UndisturbedNode
  <2>2. ~o(k).sess.enable
    <3> HIDE DEF y
    <3> QED BY <2>1, DisableSessionKeeps
  <2>3. o(k).sent = {}
    <3>1. o(k) = Out(Burn(y(k)), {}, "ipc") \/ \E t : o(k) = Out(t, {}, "success")
      BY DEF DisableSession, Ok
    <3> HIDE DEF o
    <3> QED BY <3>1 DEF Out
  <2> HIDE DEF o
  <2>4. Protecting(sess')
    BY <1>3, <2>2 DEF Protecting, Strong
  <2>5. \A f \in wire : Covered(sess, f)
    BY <1>4 DEF LoopInv
  <2> QED BY <2>2, <2>3, <2>4, <2>5, StrongCovers
<1>5. wire \in SUBSET Frames
  BY InvTypes
<1> HIDE DEF o
<1> QED BY <1>1, <1>2, <1>4, <1>5, RunLoop

(* A session is enabled: what is under way then others still say. *)
LEMMA EnableLoop == ASSUME ErpsInv, LoopInv, NEW n \in Nodes, Enable(n) PROVE LoopInv'
<1> DEFINE d == Failed(down[n])
           b == [budget EXCEPT !.cycle = @ - 1]
           y(k) == [sess[n] EXCEPT !.fuse = k]
           o(k) == session_enable(n, y(k), d)
<1>1. PICK k : RunAs(n, o(k), k, Arriving, heard, b)
  BY DEF Enable, Run, RunAs
<1>2. b \in Budgets /\ b.hal = budget.hal /\ b.command = budget.command /\ b.command <= budget.command
  BY InvTypes, ErpsAssumption DEF Budgets, Enable
<1> HIDE DEF b, d
<1>3. sess'[n] = o(k).sess /\ \A m \in Nodes \ {n} : sess'[m] = sess[m]
  BY <1>1, RunSess
<1>4. Arriving \in SUBSET Frames
  BY InvTypes DEF Arriving
<1>5. ASSUME Undisturbed, k = 0
      PROVE  /\ o(k).sess.enable => Claims(n, o(k).sess)
             /\ \A f \in Arriving : Covered(sess', f)
             /\ \A f : f.from = n /\ f.kind \in o(k).sent => Covered(sess', f)
             /\ Keeping(sess', 0)
  <2>1. NodeOK(n, sess[n], enabled[n]) /\ sess[n] \in Running /\ sess[n].fuse = 0 /\ y(k) = sess[n]
    BY <1>5, UndisturbedNode
  <2>2. sess[n].hw = {} /\ ~sess[n].enable /\ Settled
    BY <2>1 DEF NodeOK, Enable
  <2> HIDE DEF y
  <2>3. /\ o(k).sess.enable /\ Claims(n, o(k).sess) /\ o(k).sent \subseteq {"NR", "SF"}
        /\ Strong(o(k).sess) \/ (Says(o(k).sess, "NR") /\ o(k).sent = {"NR"})
    BY <2>1, <2>2, EnableClaims
  <2> HIDE DEF o
  <2>4. \A m \in Nodes : sess'[m].enable => Claims(m, sess'[m])
    BY <1>3, <1>5, <2>3 DEF LoopInv
  <2>5. ASSUME NEW f \in Arriving PROVE Covered(sess', f)
    <3>1. f.from \in Nodes /\ Says(sess[f.from], f.kind)
      BY <1>4, <2>2 DEF Settled, Frames
    <3>2. f.from # n
      BY <2>2, <3>1 DEF Says
    <3>3. Says(sess'[f.from], f.kind)
      BY <1>3, <3>1, <3>2
    <3> QED BY <2>4, <3>1, <3>3, SaidCovered
  <2>6. CASE Strong(o(k).sess)
    <3>1. Protecting(sess')
      BY <1>3, <2>6 DEF Protecting
    <3>2. \A m : Keeping(sess', m)
      BY <3>1, StrongCovers
    <3>3. \A f : f.kind \in {"NR", "SF"} => Covered(sess', f)
      BY <3>1, <3>2 DEF Covered
    <3> QED BY <2>3, <2>5, <3>2, <3>3
  <2>7. CASE Says(o(k).sess, "NR") /\ o(k).sent = {"NR"}
    <3>1. Says(sess'[n], "NR")
      BY <1>3, <2>7
    <3>2. \A f : f.from = n /\ f.kind \in {"NR"} => Covered(sess', f)
      BY <2>4, <3>1, SaidCovered
    <3>3. Keeping(sess', 0)
      BY <3>1, NodeNumbers DEF Keeping
    <3> QED BY <2>3, <2>5, <2>7, <3>2, <3>3
  <2> QED BY <2>3, <2>6, <2>7
<1> HIDE DEF o
<1> QED BY <1>1, <1>2, <1>4, <1>5, RunLoop

(* A wait ends: what is under way is still said; the owner that closes the RPL says more. *)
LEMMA WaitLoop ==
  ASSUME ErpsInv, LoopInv, NEW n \in Nodes, NEW e \in {"WTR_EXP", "WTB_EXP"}, NEW k, NEW x,
         sess[n].wtr \/ sess[n].wtb, Settled,
         \/ x = [[sess[n] EXCEPT !.fuse = k] EXCEPT !.wtr = FALSE]
         \/ x = [[sess[n] EXCEPT !.fuse = k] EXCEPT !.wtb = FALSE],
         RunAs(n, erps_fsm(n, x, e, n), k, Arriving, heard, budget)
  PROVE  LoopInv'
<1> DEFINE o == erps_fsm(n, x, e, n)
<1>1. RunAs(n, o, k, Arriving, heard, budget)
  OBVIOUS
<1>2. budget \in Budgets /\ budget.command <= budget.command /\ Arriving \in SUBSET Frames
  BY InvTypes, ErpsAssumption DEF Budgets, Arriving
<1>3. sess'[n] = o.sess /\ \A m \in Nodes \ {n} : sess'[m] = sess[m]
  BY <1>1, RunSess
<1>4. ASSUME Undisturbed, k = 0
      PROVE  /\ o.sess.enable => Claims(n, o.sess)
             /\ \A f \in Arriving : Covered(sess', f)
             /\ \A f : f.from = n /\ f.kind \in o.sent => Covered(sess', f)
             /\ Keeping(sess', 0)
  <2> DEFINE s == sess[n]
  <2>1. NodeOK(n, s, enabled[n]) /\ s \in Running /\ s.fuse = 0 /\ [s EXCEPT !.fuse = k] = s
    BY <1>4, UndisturbedNode
  <2>2. s.enable
    BY <2>1 DEF NodeOK
  <2>3. Claims(n, s) /\ Keeping(sess, 0) /\ \A m \in Nodes : sess[m].enable => Claims(m, sess[m])
    BY <1>4, <2>2 DEF LoopInv
  <2>4. role[n] = "owner"
    BY <2>3 DEF Claims
  <2>5. x = [s EXCEPT !.wtr = FALSE] \/ x = [s EXCEPT !.wtb = FALSE]
    BY <2>1
  <2> HIDE DEF s
  <2>6. x \in Running /\ x.fuse = 0 /\ x.enable /\ x.st = s.st /\ Same(s, x)
    BY <2>1, <2>2, <2>5 DEF Running, Same
  <2>7. Claims(n, x)
    BY <2>3, <2>6, SameClaims
  <2>8. \/ Same(x, o.sess) /\ o.sent = {}
        \/ /\ x.st = "PENDING" /\ o.sess.enable /\ o.sent = {"NR_RB"}
           /\ Claims(n, o.sess) /\ Says(o.sess, "NR_RB")
    BY <2>4, <2>6, <2>7, WaitClaims
  <2> HIDE DEF o
  <2>9. Claims(n, o.sess)
    BY <2>7, <2>8, SameClaims
  <2>10. \A m \in Nodes : sess'[m].enable => Claims(m, sess'[m])
    BY <1>3, <2>3, <2>9
  <2>11. \A f \in Arriving : f.from \in Nodes /\ Says(sess[f.from], f.kind)
    BY <1>2 DEF Settled, Frames
  <2>12. CASE Same(x, o.sess) /\ o.sent = {}
    <3>1. Strong(s) = Strong(o.sess) /\ \A kind : Says(s, kind) = Says(o.sess, kind)
      <4>1. Strong(s) = Strong(x) /\ \A kind : Says(s, kind) = Says(x, kind)
        BY <2>6, SameClaims
      <4>2. Strong(x) = Strong(o.sess) /\ \A kind : Says(x, kind) = Says(o.sess, kind)
        BY <2>12, SameClaims
      <4> QED BY <4>1, <4>2
    <3>2. Keeping(sess', 0)
      BY <1>3, <2>3, <3>1, SameClaim DEF s
    <3>3. ASSUME NEW f \in Arriving PROVE Covered(sess', f)
      <4>1. f.from \in Nodes /\ Says(sess'[f.from], f.kind)
        BY <1>3, <2>11, <3>1 DEF s
      <4> QED BY <2>10, <4>1, SaidCovered
    <3> QED BY <2>9, <2>12, <3>2, <3>3
  <2>13. CASE x.st = "PENDING" /\ o.sent = {"NR_RB"} /\ Says(o.sess, "NR_RB")
    <3>1. Closing(sess')
      BY <1>3, <2>13 DEF Closing
    <3>2. \A m : Keeping(sess', m)
      BY <3>1 DEF Keeping
    <3>3. ASSUME NEW f \in Arriving PROVE Covered(sess', f)
      <4>1. CASE f.from = n
        <5>1. f.kind = "NR"
          BY <2>3, <2>6, <2>11, <2>13, <4>1 DEF Claims, Says, s
        <5> QED BY <3>2, <5>1 DEF Covered
      <4>2. CASE f.from # n
        <5>1. f.from \in Nodes /\ Says(sess'[f.from], f.kind)
          BY <1>3, <2>11, <4>2
        <5> QED BY <2>10, <5>1, SaidCovered
      <4> QED BY <4>1, <4>2
    <3>4. \A f : f.from = n /\ f.kind \in {"NR_RB"} => Covered(sess', f)
      BY <2>4, <3>1 DEF Covered
    <3> QED BY <2>9, <2>13, <3>2, <3>3, <3>4
  <2> QED BY <2>8, <2>12, <2>13
<1> HIDE DEF o
<1> QED BY <1>1, <1>2, <1>4, RunLoop

(* The wait to restore ends. *)
LEMMA WtrLoop == ASSUME ErpsInv, LoopInv, NEW n \in Nodes, WtrExpires(n) PROVE LoopInv'
<1> DEFINE x(k) == [[sess[n] EXCEPT !.fuse = k] EXCEPT !.wtr = FALSE]
<1>1. PICK k : RunAs(n, erps_fsm(n, x(k), "WTR_EXP", n), k, Arriving, heard, budget)
  BY DEF WtrExpires, Run, RunAs
<1>2. sess[n].wtr /\ Settled
  BY DEF WtrExpires
<1> QED BY <1>1, <1>2, WaitLoop

(* The wait to block ends. *)
LEMMA WtbLoop == ASSUME ErpsInv, LoopInv, NEW n \in Nodes, WtbExpires(n) PROVE LoopInv'
<1> DEFINE x(k) == [[sess[n] EXCEPT !.fuse = k] EXCEPT !.wtb = FALSE]
<1>1. PICK k : RunAs(n, erps_fsm(n, x(k), "WTB_EXP", n), k, Arriving, heard, budget)
  BY DEF WtbExpires, Run, RunAs
<1>2. sess[n].wtb /\ Settled
  BY DEF WtbExpires
<1> QED BY <1>1, <1>2, WaitLoop

(* The guard timer expires: the node yields from now on, but it still says what it said. *)
LEMMA GuardLoop == ASSUME ErpsInv, LoopInv, NEW n \in Nodes, GuardExpires(n) PROVE LoopInv'
<1> DEFINE s == sess[n]
           t == [s EXCEPT !.guard = FALSE]
<1>1. s \in Sessions /\ sess' = [sess EXCEPT ![n] = t] /\ s.guard
  BY InvTypes DEF GuardExpires
<1>2. sess'[n] = t /\ \A m \in Nodes \ {n} : sess'[m] = sess[m]
  BY <1>1, InvTypes
<1> HIDE DEF s
<1>3. /\ t.st = s.st /\ t.hw = s.hw /\ t.block = s.block /\ t.tx = s.tx /\ t.keepalive = s.keepalive
      /\ t.enable = s.enable /\ t.wtr = s.wtr /\ t.wtb = s.wtb /\ t.guard = FALSE
  BY <1>1 DEF Sessions
<1> HIDE DEF t
<1>4. budget' = budget /\ wire' = Arriving /\ Settled /\ Arriving \in SUBSET Frames
  BY InvTypes DEF GuardExpires, Arriving
<1> SUFFICES ASSUME Undisturbed'
             PROVE  (/\ \A m \in Nodes : sess[m].enable => Claims(m, sess[m])
                     /\ \A f \in wire : Covered(sess, f)
                     /\ Keeping(sess, 0))'
  BY DEF LoopInv
<1>5. Undisturbed
  BY <1>4 DEF Undisturbed, HalAnswers
<1>6. /\ \A m \in Nodes : sess[m].enable => Claims(m, sess[m])
      /\ Keeping(sess, 0)
  BY <1>5 DEF LoopInv
<1>7. Claims(n, s) => Claims(n, t)
  BY <1>3 DEF Claims
<1>8. \A m \in Nodes : sess'[m].enable => Claims(m, sess'[m])
  BY <1>2, <1>3, <1>6, <1>7 DEF s
<1>9. \A m \in Nodes : \A kind : Says(sess[m], kind) => Says(sess'[m], kind)
  BY <1>2, <1>3 DEF Says, s
<1>10. ASSUME NEW f \in wire' PROVE Covered(sess', f)
  <2>1. f.from \in Nodes /\ Says(sess[f.from], f.kind)
    BY <1>4 DEF Settled, Frames
  <2> QED BY <1>8, <1>9, <2>1, SaidCovered
<1>11. Keeping(sess', 0)
  <2>1. CASE ~s.enable
    <3>1. Protecting(sess')
      BY <1>2, <1>3, <2>1 DEF Protecting, Strong
    <3> QED BY <3>1, StrongCovers
  <2>2. CASE s.enable
    <3>1. Claims(n, s) /\ s.keepalive
      BY <1>1, <1>6, <2>2 DEF Claims, s
    <3>2. CASE s.st = "PROTECTION"
      <4>1. Protecting(sess')
        BY <1>2, <1>3, <3>2 DEF Protecting, Strong
      <4> QED BY <4>1, StrongCovers
    <3>3. CASE s.tx = "NR" \/ s.tx = "NR_RB"
      <4>1. Says(sess'[n], s.tx)
        BY <1>2, <1>3, <2>2, <3>1 DEF Says
      <4> QED BY <3>3, <4>1, NodeNumbers DEF Keeping, Closing
    <3> QED BY <3>1, <3>2, <3>3 DEF Claims
  <2> QED BY <2>1, <2>2
<1> QED BY <1>8, <1>10, <1>11 DEF Claims, Covered, Keeping, Closing, Protecting, Strong, Says

(* A step that only puts on the wire what nodes say, or takes from it. *)
LEMMA WireLoop ==
  ASSUME ErpsInv, LoopInv, UNCHANGED <<sess, budget>>,
         Undisturbed => \A f \in wire' : f \in wire \/ Covered(sess, f)
  PROVE  LoopInv'
<1> SUFFICES ASSUME Undisturbed'
             PROVE  (/\ \A m \in Nodes : sess[m].enable => Claims(m, sess[m])
                     /\ \A f \in wire : Covered(sess, f)
                     /\ Keeping(sess, 0))'
  BY DEF LoopInv
<1>1. Undisturbed
  BY DEF Undisturbed, HalAnswers
<1>2. /\ \A m \in Nodes : sess[m].enable => Claims(m, sess[m])
      /\ \A f \in wire' : Covered(sess, f)
      /\ Keeping(sess, 0)
  BY <1>1 DEF LoopInv
<1>3. sess' = sess
  OBVIOUS
<1> QED BY <1>2, <1>3 DEF Claims, Covered, Keeping, Closing, Protecting, Strong, Says

(* A request is repeated. *)
LEMMA KeepaliveLoop == ASSUME ErpsInv, LoopInv, NEW n \in Nodes, Keepalive(n) PROVE LoopInv'
<1>1. ASSUME Undisturbed, NEW f \in wire', f \notin wire PROVE Covered(sess, f)
  <2>1. f.from = n /\ f.kind = sess[n].tx
    <3>1. wire' \in Transmit(n, {sess[n].tx}, wire)
      BY DEF Keepalive
    <3>2. f \in wire \/ (f.from = n /\ f.kind \in {sess[n].tx})
      BY <3>1, TransmitFrames
    <3> QED BY <1>1, <3>2
  <2>2. Says(sess[f.from], f.kind)
    BY <2>1 DEF Says, Keepalive
  <2>3. \A m \in Nodes : sess[m].enable => Claims(m, sess[m])
    BY <1>1 DEF LoopInv
  <2> QED BY <2>1, <2>2, <2>3, SaidCovered
<1> QED BY <1>1, WireLoop DEF Keepalive

(* A message is lost. *)
LEMMA LoseLoop == ASSUME ErpsInv, LoopInv, NEW n \in Nodes, NEW m \in Nodes, Lose(m, n) PROVE LoopInv'
BY WireLoop DEF Lose

(* A message arrives, however old it is: what the node yields to is covered. *)
LEMMA ReceiveLoop ==
  ASSUME OneOwner, ErpsInv, LoopInv, NEW n \in Nodes, NEW m \in Nodes \ {n}, Receive(m, n)
  PROVE  LoopInv'
<1> DEFINE y(k) == [sess[n] EXCEPT !.fuse = k]
           o(k, f) == IF y(k).enable /\ ~y(k).guard THEN erps_fsm(n, y(k), Event(f.kind), m) ELSE Ok(y(k))
           h(f) == heard \cup {x \in {<<m, n>>} : patient /\ ~sess[n].guard /\ Says(sess[m], f.kind)}
<1>1. PICK f \in wire : f.from = m /\ \E k : RunAs(n, o(k, f), k, wire \ {f}, h(f), budget)
  BY DEF Receive, Run, RunAs
<1>2. PICK k : RunAs(n, o(k, f), k, wire \ {f}, h(f), budget)
  BY <1>1
<1> HIDE DEF h
<1>3. wire \ {f} \in SUBSET Frames /\ budget \in Budgets /\ budget.command <= budget.command
  BY InvTypes, ErpsAssumption DEF Budgets
<1>4. sess'[n] = o(k, f).sess /\ \A i \in Nodes \ {n} : sess'[i] = sess[i]
  BY <1>2, RunSess
<1>5. ASSUME Undisturbed, k = 0
      PROVE  /\ o(k, f).sess.enable => Claims(n, o(k, f).sess)
             /\ \A x \in wire \ {f} : Covered(sess', x)
             /\ \A x : x.from = n /\ x.kind \in o(k, f).sent => Covered(sess', x)
             /\ Keeping(sess', 0)
  <2> DEFINE s == sess[n]
  <2>1. s \in Running /\ s.fuse = 0 /\ y(k) = s
    BY <1>5, UndisturbedNode
  <2>2. /\ s.enable => Claims(n, s)
        /\ \A x \in wire : Covered(sess, x)
        /\ Keeping(sess, 0)
    BY <1>5 DEF LoopInv
  <2>3. \A x \in wire : x.from \in Nodes
    BY <1>3, InvTypes DEF Frames
  <2> HIDE DEF y, s
  <2>4. CASE s.enable /\ ~s.guard
    <3> DEFINE q == erps_fsm(n, s, Event(f.kind), m)
    <3>1. o(k, f) = q
      BY <2>1, <2>4
    <3>2. Covered(sess, f)
      BY <2>2
    <3>3. f.kind \in {"SF", "NR_RB", "NR"} /\ (f.kind = "NR_RB" => role[n] # "owner")
      BY <1>1, <3>2 DEF Covered, OneOwner
    <3>4. /\ q.sess.enable /\ Claims(n, q.sess) /\ q.sent = {}
          /\ \/ /\ Strong(s) => Strong(q.sess)
                /\ \A kind \in {"NR", "NR_RB"} : Says(s, kind) => Says(q.sess, kind)
             \/ /\ ~Strong(s)
                /\ f.kind = "SF" \/ ~Says(s, "NR_RB")
                /\ f.kind = "NR" => m > n
      BY <2>1, <2>2, <2>4, <3>3, RapsClaims
    <3> HIDE DEF q, o
    <3>5. CASE /\ Strong(s) => Strong(q.sess)
               /\ \A kind \in {"NR", "NR_RB"} : Says(s, kind) => Says(q.sess, kind)
      <4>1. /\ \A i : Keeping(sess, i) => Keeping(sess', i)
            /\ \A x : Covered(sess, x) => Covered(sess', x)
        BY <1>4, <3>1, <3>5, SameClaim DEF s
      <4> QED BY <2>2, <3>1, <3>4, <4>1
    <3>6. CASE /\ ~Strong(s)
               /\ f.kind = "SF" \/ ~Says(s, "NR_RB")
               /\ f.kind = "NR" => m > n
      <4>1. \/ f.kind = "SF" /\ Protecting(sess)
            \/ f.kind = "NR_RB" /\ Closing(sess)
            \/ f.kind = "NR" /\ m > n /\ Keeping(sess, m)
        BY <1>1, <3>2, <3>6 DEF Covered
      <4>2. ~Says(s, "NR_RB") \/ Protecting(sess)
        BY <3>6, <4>1
      <4>3. /\ \A i \in Nodes : Keeping(sess, i) => Keeping(sess', i)
            /\ \A x : x.from \in Nodes /\ Covered(sess, x) => Covered(sess', x)
        BY <1>4, <3>6, <4>1, <4>2, YieldedCovered DEF s
      <4>4. 0 \in Nodes
        BY ErpsAssumption DEF Nodes
      <4> QED BY <2>2, <2>3, <3>1, <3>4, <4>3, <4>4
    <3> QED BY <3>4, <3>5, <3>6
  <2>5. CASE ~(s.enable /\ ~s.guard)
    <3>1. o(k, f).sess = s /\ o(k, f).sent = {}
      BY <2>1, <2>5 DEF Ok, Out
    <3> HIDE DEF o
    <3>2. /\ \A i : Keeping(sess, i) => Keeping(sess', i)
          /\ \A x : Covered(sess, x) => Covered(sess', x)
      BY <1>4, <3>1, SameClaim DEF s
    <3> QED BY <2>2, <3>1, <3>2
  <2> QED BY <2>4, <2>5
<1> HIDE DEF o
<1> QED BY <1>2, <1>3, <1>5, RunLoop

(* After a command of an operator nothing is claimed. *)
LEMMA CommandLoop ==
  ASSUME ErpsInv, LoopInv, NEW n \in Nodes,
         Clear(n) \/ \E c \in Commands, p \in Ports : Admin(n, c, p)
  PROVE  LoopInv'
<1> DEFINE b == [budget EXCEPT !.command = @ - 1]
<1>1. PICK o, k : RunAs(n, o, k, wire, heard, b)
  BY DEF Clear, Admin, Run, RunAs
<1>2. budget \in Budgets /\ budget.command > 0
  BY InvTypes DEF Clear, Admin
<1>3. b \in Budgets /\ b.hal = budget.hal /\ b.command = budget.command - 1 /\ budget.command \in Int
  BY <1>2, ErpsAssumption DEF Budgets
<1> HIDE DEF b
<1>4. b.command <= budget.command /\ b.command # budget.command
  BY <1>3
<1>5. wire \in SUBSET Frames
  BY InvTypes
<1> QED BY <1>1, <1>3, <1>4, <1>5, RunLoop

(* At first no session is enabled. *)
LEMMA InitLoop == Init => LoopInv
<1> SUFFICES ASSUME Init PROVE LoopInv
  OBVIOUS
<1>1. \A n \in Nodes : ~sess[n].enable
  BY DEF Init, Fresh
<1>2. 0 \in Nodes
  BY ErpsAssumption DEF Nodes
<1>3. Protecting(sess)
  BY <1>1, <1>2 DEF Protecting, Strong
<1>4. Keeping(sess, 0)
  BY <1>3, StrongCovers
<1> QED BY <1>1, <1>4 DEF LoopInv, Init

(* Every step keeps the invariant. *)
LEMMA NextLoop == ASSUME OneOwner PROVE ErpsInv /\ LoopInv /\ [Next]_vars => LoopInv'
<1> SUFFICES ASSUME ErpsInv, LoopInv, [Next]_vars PROVE LoopInv'
  OBVIOUS
<1>1. ASSUME NEW n \in Nodes, Enable(n) \/ Disable(n) PROVE LoopInv'
  BY <1>1, EnableLoop, DisableLoop
<1>2. ASSUME NEW n \in Nodes, NEW p \in Ports, NEW g \in Signals, PortDown(n, p, g) \/ PortUp(n, p, g)
      PROVE  LoopInv'
  BY <1>2, PortDownLoop, PortUpLoop
<1>3. ASSUME NEW n \in Nodes, Clear(n) \/ \E c \in Commands, p \in Ports : Admin(n, c, p) PROVE LoopInv'
  BY <1>3, CommandLoop
<1>4. ASSUME NEW n \in Nodes, WtrExpires(n) \/ WtbExpires(n) PROVE LoopInv'
  BY <1>4, WtrLoop, WtbLoop
<1>5. ASSUME NEW n \in Nodes, GuardExpires(n) \/ HoldoffExpires(n) \/ Keepalive(n) PROVE LoopInv'
  BY <1>5, GuardLoop, HoldoffLoop, KeepaliveLoop
<1>6. ASSUME NEW n \in Nodes, NEW m \in Nodes \ {n}, Receive(m, n) \/ Lose(m, n) PROVE LoopInv'
  BY <1>6, ReceiveLoop, LoseLoop
<1>7. ASSUME UNCHANGED vars PROVE LoopInv'
  BY <1>7, WireLoop DEF vars
<1>8. ASSUME NEW n \in Nodes, NEW p \in Ports, CcDelete(n, p) PROVE LoopInv'
  BY <1>8, CcDeleteLoop
<1> QED BY <1>1, <1>2, <1>3, <1>4, <1>5, <1>6, <1>7, <1>8 DEF Next

(* While some node is behind what is said, one that is enabled blocks a port. *)
LEMMA LoopInvNoLoop == ASSUME LoopInv, Undisturbed PROVE NoLoop
<1> SUFFICES ASSUME AllEnabled PROVE \E n \in Nodes : sess[n].hw # {}
  BY DEF NoLoop
<1>1. \A n \in Nodes : sess[n].enable /\ Claims(n, sess[n])
  BY DEF LoopInv, AllEnabled
<1>2. PICK n \in Nodes : Strong(sess[n]) \/ Says(sess[n], "NR_RB") \/ Says(sess[n], "NR")
  BY DEF LoopInv, Keeping, Closing, Protecting
<1>3. sess[n].keepalive
  BY <1>1, <1>2 DEF Strong, Says, Claims
<1>4. sess[n].hw = {sess[n].block}
  BY <1>1, <1>3 DEF Claims
<1> QED BY <1>4

(* A ring with one owner has no loop as long as no operator has given a command and the
   hardware layer has answered: in every order of failures, recoveries, timers, lost and
   late messages, for any number of nodes, with a hold-off time and without. *)
THEOREM RingHasNoLoop == ASSUME OneOwner PROVE Spec => [](Undisturbed => NoLoop)
<1>1. Spec => []ErpsInv
  BY SpecInv
<1>2. ErpsInv /\ LoopInv /\ [Next]_vars => LoopInv'
  BY NextLoop
<1>3. LoopInv => (Undisturbed => NoLoop)
  BY LoopInvNoLoop
<1> QED BY <1>1, <1>2, <1>3, InitLoop, PTL DEF Spec

(* So when no commands are given at all, NoLoop holds as the runs check it. *)
THEOREM RingWithoutCommandsHasNoLoop ==
  ASSUME OneOwner, MaxCommand = 0 PROVE Spec => []NoLoop
<1>1. ErpsInv /\ (Undisturbed => NoLoop) => NoLoop
  <2> SUFFICES ASSUME ErpsInv, Undisturbed => NoLoop, HalAnswers PROVE NoLoop
    BY DEF NoLoop
  <2>1. budget.command = MaxCommand
    BY DEF ErpsInv, ErpsTypeOK
  <2> QED BY <2>1 DEF Undisturbed
<1> QED BY <1>1, SpecInv, RingHasNoLoop, PTL

(* What sessions note as blocked and what the hardware blocks agree: a port is blocked
   unknown to its node only after as many unanswered messages as there are such nodes,
   and until one is unanswered or a command is given the port that an enabled session
   notes is blocked, although idle_nrrb and Release note it before or without asking. *)
THEOREM BlocksAreKnown ==
  ASSUME OneOwner, "MS" \notin Commands PROVE Spec => []BlocksKnown
<1>1. ASSUME LoopInv PROVE NoPhantomBlock
  BY <1>1 DEF LoopInv, NoPhantomBlock, Claims
<1>2. ErpsInv /\ LoopInv /\ [Next]_vars => LoopInv'
  BY NextLoop
<1>3. NoForgottenBlock /\ NoPhantomBlock => BlocksKnown
  BY DEF BlocksKnown
<1>4. Spec => []NoForgottenBlock
  BY UnansweredMessagesForget
<1> QED BY <1>1, <1>2, <1>3, <1>4, SpecInv, InitLoop, PTL DEF Spec
=============================================================================
