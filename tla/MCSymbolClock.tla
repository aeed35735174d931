---------------------------- MODULE MCSymbolClock ----------------------------
(* Instances of SymbolClock. *)
EXTENDS SymbolClock

OneSample == {-1, 0, 1}

\* Frames of 32 symbols come back to the ring four places earlier: from these
\* places the first three sync words fall on any side of its end, and from 50
\* on none.
AroundTheEnd == {p \in 0 .. BufferSize - 1 : p <= 9 \/ p >= 150} \cup {50}
=============================================================================
