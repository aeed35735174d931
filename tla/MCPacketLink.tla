---------------------------- MODULE MCPacketLink ----------------------------
(***************************************************************************)
(* Instances of PacketLink.                                                *)
(***************************************************************************)
EXTENDS PacketLink

\* A fresh counter, one that makes the first miss fatal, one about to wrap.
SomeStale == {0, 4, 255}
Zeroed    == {0}
=============================================================================
