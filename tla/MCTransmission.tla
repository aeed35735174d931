--------------------------- MODULE MCTransmission ---------------------------
(***************************************************************************)
(* Every size of IP packet the constructor accepts, and one it refuses;    *)
(* samples for packets of one, two and three frames, and the longest.      *)
(***************************************************************************)
EXTENDS Transmission

AllSizes  == 0 .. 823
SomeSizes == {22, 23, 72, 822}
NoByte    == -1
TheLsf    == [dst |-> "D", crc_ok |-> TRUE]
=============================================================================
