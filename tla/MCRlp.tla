------------------------------ MODULE MCRlp ------------------------------
(***************************************************************************)
(* Rlp for TLC: strings on both sides of each form of a length.            *)
(***************************************************************************)
EXTENDS Rlp

Bytes(n) == [i \in 1..n |-> i % 256]

Boundary == {<<>>, <<0>>, <<127>>, <<128>>, <<1, 0>>} \cup {Bytes(n) : n \in {52, 53, 54, 55, 56, 255, 256}}

\* On both sides of each width
Edges == {0, 127, 128, 255, 256, 65535, 65536, 16777215, 16777216, 2147483647}

Short == {<<>>, <<0>>, <<200>>, Bytes(55)}
Nested == {<<>>} \cup {<<s>> : s \in Short} \cup {<<s, t>> : s, t \in Short}
===========================================================================
