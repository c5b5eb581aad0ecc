----------------------------- MODULE MCLinqJS -----------------------------
(***************************************************************************)
(* LinqJS for TLC: updates of two files, with one and two packets.         *)
(***************************************************************************)
EXTENDS LinqJS, TLC

TwoFiles == {<< <<1>>, <<2, 3>> >>}

\* Where netw.poll is not on the stack
OutsidePoll == {"task", "continuation"}
Tasks == {"task"}
===========================================================================
