------------------------------ MODULE MCBuffer ------------------------------
(* Three blocks of two bytes of two bits each, numbers of three bits. *)
EXTENDS Buffer

MCDatas == {<<>>, <<1>>, <<2, 1>>, <<1, 2, 1, 2>>}
MCNumbers == {1, 2, 4}

(* No action reads the last call and its result. *)
MCView == <<buf, trapped>>
=============================================================================
