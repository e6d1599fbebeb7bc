------------------------------ MODULE MCConfig ------------------------------
(* One name, one file; c2 refuses the value 2. *)
EXTENDS Config, TLC

CONSTANTS n1, f1, c1, c2, t1, t2

MCWants == [c \in Comps |-> n1]
MCRefuses == (c1 :> {}) @@ (c2 :> {2})
MCContents == {Bad, <<<<n1, 1>>>>, <<<<n1, Bad>>, <<n1, 2>>>>}
MCDir == <<f1>>
MCSymmetry == Permutations(Threads)
=============================================================================
