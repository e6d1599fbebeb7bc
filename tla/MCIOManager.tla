---------------------------- MODULE MCIOManager ----------------------------
(* Small instances of IOManager for TLC. *)
EXTENDS IOManager, TLC

CONSTANTS f1, f2, p1, p2

Symmetry == Permutations(Fibers) \cup Permutations(Pollers)

(* What is left in the shared buffer when no poller will read it any more. *)
View == <<size, gen, channelVars, epollVars, pending, got, reports, pc, call,
          IF got = {} THEN {} ELSE {slot}>>
=============================================================================
