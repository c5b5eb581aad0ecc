----------------------------- MODULE MCSockets -----------------------------
(***************************************************************************)
(* Sockets for TLC: the values the configurations share.                   *)
(***************************************************************************)
EXTENDS Sockets, TLC

\* Endpoints are interchangeable: Init takes every hash function.
Symmetry == Permutations(Endpoints)
===========================================================================
