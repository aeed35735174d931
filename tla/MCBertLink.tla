----------------------------- MODULE MCBertLink -----------------------------
(***************************************************************************)
(* Frames of the real length in bits, of two symbols.  The channel hits    *)
(* the first bit, the last, two bits the register's taps are apart, bursts *)
(* of as many errors as the receiver tolerates and one more, and all bits. *)
(***************************************************************************)
EXTENDS BertLink

SomeDamages == {{1}, {FrameBits}, {20, 25}, 40 .. 57, 40 .. 58, 1 .. FrameBits}
=============================================================================
