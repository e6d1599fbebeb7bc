----------------------------- MODULE FlatBuffer -----------------------------
(***************************************************************************)
(* What a Buffer promises its user: a sequence of bytes with a cursor.     *)
(* The blocks the bytes live in cannot be seen, with two exceptions the    *)
(* code makes: a write may store only a part of what it was given, and a   *)
(* few calls end the program.  `call` is the last call with its arguments  *)
(* and `out` what it gave back: some bytes, perhaps none, or an exception. *)
(***************************************************************************)
EXTENDS Integers, Sequences

CONSTANT Bytes   \* the values of a byte

VARIABLES bytes, pos, call, out, trapped

Gave(s) == [threw |-> FALSE, data |-> s]
Thrown == [threw |-> TRUE, data |-> <<>>]

vars == <<bytes, pos, call, out, trapped>>

Init ==
  /\ bytes \in Seq(Bytes)
  /\ pos = 0
  /\ call = [op |-> "none"]
  /\ out = Gave(<<>>)
  /\ trapped = FALSE

(* The bytes s with d stored from offset p on. *)
Stored(s, p, d) ==
  [i \in 1..(IF p + Len(d) > Len(s) THEN p + Len(d) ELSE Len(s)) |->
     IF i \in p + 1..p + Len(d) THEN d[i - p] ELSE s[i]]

(* The non-empty beginnings of s, and s itself. *)
Beginnings(s) == {SubSeq(s, 1, n) : n \in 1..Len(s)} \cup {s}

(***************************************************************************)
(* A write stores some beginning of each part (a length and the data, or   *)
(* only data), one after the other, and the cursor follows.                *)
(***************************************************************************)
Write ==
  /\ call'.op = "write"
  /\ \E a \in Beginnings(call'.head), d \in Beginnings(call'.data) :
       /\ bytes' = Stored(bytes, pos, a \o d)
       /\ pos' = pos + Len(a) + Len(d)
  /\ out' = Gave(<<>>)
  /\ UNCHANGED trapped

(* A file is stored chunk by chunk, each chunk perhaps in part. *)
Load ==
  /\ call'.op = "load"
  /\ pos' \in pos..pos + Len(call'.data)
  /\ bytes' = Stored(bytes, pos, SubSeq(bytes', pos + 1, pos'))
  /\ out' = Gave(<<>>)
  /\ UNCHANGED trapped

(* Bytes stored behind the cursor through getWriteBuffers: neither the     *)
(* cursor nor the length moves, so that only old bytes are seen to change. *)
Fill ==
  /\ call'.op = "fill"
  /\ bytes' = SubSeq(Stored(bytes, pos, call'.data), 1, Len(bytes))
  /\ out' = Gave(<<>>)
  /\ UNCHANGED <<pos, trapped>>

(* The bytes from the cursor on, which moves behind them. *)
Read ==
  /\ call'.op \in {"read", "varint", "string"}
  /\ pos' \in pos..Len(bytes)
  /\ out' = Gave(SubSeq(bytes, pos + 1, pos'))
  /\ call'.op = "read" => pos' = pos + call'.n
  /\ UNCHANGED <<bytes, trapped>>

(* The same bytes, without moving. *)
Peek ==
  /\ \/ /\ call'.op = "peek" \/ (call'.op \in {"peekAt", "readAt"} /\ call'.p = pos)
        /\ LET left == Len(bytes) - pos
               n == IF call'.n < left THEN call'.n ELSE left
           IN out' = Gave(SubSeq(bytes, pos + 1, pos + n))
     \/ /\ call'.op \in {"peekAt", "readAt"}
        /\ call'.p # pos
     \/ /\ call'.op = "save"
        /\ out' = Gave(SubSeq(bytes, pos + 1, Len(bytes)))
  /\ UNCHANGED <<bytes, pos, trapped>>

(* Moving beyond the end makes the bytes in between appear, whatever they  *)
(* are.                                                                    *)
Seek ==
  /\ call'.op = "seek"
  /\ pos' = call'.n
  /\ bytes' \in Seq(Bytes)
  /\ SubSeq(bytes', 1, Len(bytes)) = bytes
  /\ Len(bytes') = IF pos' > Len(bytes) THEN pos' ELSE Len(bytes)
  /\ out' = Gave(<<>>)
  /\ UNCHANGED trapped

Clear ==
  /\ call'.op = "clear"
  /\ bytes' = <<>>
  /\ pos' = 0
  /\ out' = Gave(<<>>)
  /\ UNCHANGED trapped

(* The byte order of numbers is chosen; the bytes do not change. *)
Order ==
  /\ call'.op = "endian"
  /\ out' = Gave(<<>>)
  /\ UNCHANGED <<bytes, pos, trapped>>

(***************************************************************************)
(* std::out_of_range: not enough bytes (a number or a string may have been *)
(* read in part by then), or no room to seek to.                           *)
(***************************************************************************)
Throw ==
  /\ out' = Thrown
  /\ \/ call'.op = "read" /\ call'.n > Len(bytes) - pos /\ pos' = pos
     \/ call'.op \in {"varint", "string"} /\ pos' \in pos..Len(bytes)
     \/ call'.op = "readAt" /\ call'.n > Len(bytes) - pos /\ pos' = pos
     \/ call'.op = "seek" /\ call'.n > Len(bytes) /\ pos' = pos
  /\ UNCHANGED <<bytes, trapped>>

(***************************************************************************)
(* The calls that may follow a null pointer: reading nothing at the end,   *)
(* an empty string there, looking at another place than the cursor, and    *)
(* writing to a file.                                                      *)
(***************************************************************************)
Trap ==
  /\ \/ call'.op = "read" /\ call'.n = 0 /\ pos = Len(bytes)
     \/ call'.op = "string"
     \/ call'.op \in {"peekAt", "readAt"} /\ call'.p # pos
     \/ call'.op = "save"
     \/ call'.op = "readAt" /\ call'.n = 0 /\ pos = Len(bytes)
  /\ trapped' = TRUE

Dead == trapped /\ UNCHANGED vars

Next ==
  \/ /\ ~trapped
     /\ \/ Write \/ Load \/ Fill \/ Read \/ Peek \/ Seek \/ Clear \/ Order
        \/ Throw \/ Trap
  \/ Dead

Spec == Init /\ [][Next]_vars
=============================================================================
