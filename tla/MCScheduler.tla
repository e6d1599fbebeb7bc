---------------------------- MODULE MCScheduler ----------------------------
(* Small instances of Scheduler for TLC. *)
EXTENDS Scheduler, TLC

CONSTANTS w1, w2, main, any, f1, f2

(* f1 may run anywhere, f2 (scheduled by fiber code) only on w1. *)
HomedPins == (f1 :> {any}) @@ (f2 :> {w1})

(* Every task is for any thread. *)
AnyPins == [f \in Fibers |-> {any}]
=============================================================================
