------------------------------ MODULE MCTimer ------------------------------
(* Small instances of TimerManager for TLC. *)
EXTENDS TimerManager, TLC

CONSTANTS p1, p2

(* Pollers are interchangeable; timers are not: they are ordered. *)
PollerSymmetry == Permutations(Pollers)
=============================================================================
