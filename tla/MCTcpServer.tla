----------------------------- MODULE MCTcpServer -----------------------------
(* One listening socket and two client Sockets with a handler each; without *)
(* a server, u1 uses x while u2 closes it and connects y.                   *)
EXTENDS TcpServer

CONSTANTS a1, st, u1, u2, l1, x, y

MCAcceptor == (l1 :> a1)
MCOwn == (u1 :> x) @@ (u2 :> y)
MCMaxCalls == (TRUE :> 1) @@ (FALSE :> 2)
MCMay == (u1 :> {"connect", "recv"} \X {x})
      @@ (u2 :> {"close", "setFlags"} \X {x} \cup {<<"connect", y>>})
=============================================================================
