---------------------------- MODULE MCM17Netd -----------------------------
(* An instance of M17Netd. *)
EXTENDS M17Netd

CONSTANTS Me, Other

Packet(dst) ==
    [is_valid |-> TRUE, dst |-> dst, size |-> 6, specifier |-> 4, crc_ok |-> TRUE]

\* A packet that is delivered, then one that is not.
TwoPackets == <<Packet(Me), Packet(Other)>>
=============================================================================
