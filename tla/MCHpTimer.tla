----------------------------- MODULE MCHpTimer -----------------------------
(* Addresses are interchangeable. *)
EXTENDS HpTimer, TLC

Interchangeable == Permutations(Timers)
=============================================================================
