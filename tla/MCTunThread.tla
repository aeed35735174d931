---------------------------- MODULE MCTunThread ----------------------------
(* An instance of TunThread. *)
EXTENDS TunThread

CONSTANTS Me, Other

Packet(dst) ==
    [is_valid |-> TRUE, dst |-> dst, size |-> 6, specifier |-> 4, crc_ok |-> TRUE]

\* A packet that is delivered, then one that is not.
TwoPackets == <<Packet(Me), Packet(Other)>>
=============================================================================
