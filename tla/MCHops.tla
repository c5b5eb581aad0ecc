------------------------------ MODULE MCHops ------------------------------
(***************************************************************************)
(* Hops for TLC: a triangle of instances, in which a message passed on     *)
(* twice comes back.  The hub h of the device accepts the connection of    *)
(* the asker c, or makes it.                                               *)
(***************************************************************************)
EXTENDS Hops

CONSTANTS c, h, b

Triangles == {{<<c, h>>, <<h, b>>, <<b, c>>}, {<<h, c>>, <<b, h>>, <<c, b>>}}
===========================================================================
