------------------------------- MODULE MCElps -------------------------------
(* Values of the constants of Elps for TLC. *)
EXTENDS Elps
CONSTANTS West, East
MCEnds == {West, East}
Mixed == [e \in MCEnds |-> e = West]
OneHoldoff == [e \in MCEnds |-> e = West]
LinkOnly == {"link"}
=============================================================================
