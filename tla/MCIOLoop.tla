------------------------------ MODULE MCIOLoop ------------------------------
(* One thread, and two threads. *)
EXTENDS IOLoop

CONSTANTS t1, t2

MCPools == {{t1}, {t1, t2}}
=============================================================================
