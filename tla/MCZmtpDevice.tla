--------------------------- MODULE MCZmtpDevice ---------------------------
(***************************************************************************)
(* ZmtpDevice for TLC: the values the configurations share.                *)
(***************************************************************************)
EXTENDS ZmtpDevice

Timeout1 == {1}
Legacy == {0}
Versioned == {1}
AnyVersion == {0, 1}
NeverFails == {TRUE}
MayFail == {TRUE, FALSE}

\* 2^32 in the code; these are never reached, or reached after a few steps
Wide == 1024
===========================================================================
