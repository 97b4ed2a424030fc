------------------------------- MODULE MCErps -------------------------------
(* Values of the constants of Erps for TLC: the owner is node 0, and its west
   port and the east port of the last node are the ends of the RPL. *)
EXTENDS Erps
RingRole == [n \in Nodes |-> IF n = 0 THEN "owner" ELSE IF n = N - 1 THEN "neighbour" ELSE "nonowner"]
RingRpl == [n \in Nodes |-> IF n = 0 THEN "west" ELSE IF n = N - 1 THEN "east" ELSE None]
LinkOnly == {"link"}
Nothing == {}
LinkAndCc == {"link", "cc"}
Forced == {"FS"}

(* The ring at rest: what Restores says enabling all nodes leads to. *)
RestInit ==
  /\ sess = [n \in Nodes |->
       [Fresh EXCEPT !.st = "IDLE", !.block = rpl[n], !.enable = TRUE,
                     !.hw = IF rpl[n] = None THEN {} ELSE {rpl[n]},
                     !.tx = IF role[n] = "owner" THEN "NR_RB" ELSE "NR",
                     !.keepalive = role[n] = "owner"]]
  /\ enabled = [n \in Nodes |-> 1]
  /\ down = [n \in Nodes |-> {}]
  /\ wire = {}
  /\ heard = {}
  /\ budget = [fail |-> MaxFail, far |-> MaxFar, command |-> MaxCommand, cycle |-> MaxCycle, hal |-> MaxHal]

RestSpec == RestInit /\ [][Next]_vars
FairRestSpec == RestSpec /\ Fairness
=============================================================================
