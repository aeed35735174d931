-------------------------- MODULE PacketSuperframe --------------------------
(***************************************************************************)
(* src/m17tx.cpp, constructor of m17tx_pkt: an IP packet of L bytes, its   *)
(* type specifier and its CRC are cut in frames of 25 bytes; and, on a     *)
(* perfect channel, what m17rx::add_frame makes of them.  One step is one  *)
(* round of the constructor's loop, its frame handed to the receiver.      *)
(*                                                                         *)
(* Bytes are named by their place in the superframe: 0 is the specifier,   *)
(* 1 .. L the IP packet, L + 1 and L + 2 its CRC.                          *)
(***************************************************************************)
EXTENDS Integers, Sequences

CONSTANTS Sizes,        \* the sizes of IP packet considered
          NoLsf, Lsf,   \* an empty packet's LSF, and the transmitted one
          Garbage,      \* a byte read past the end of a frame
          Pad           \* a byte that is not part of the superframe

ASSUME SizesAssumption == Sizes \subseteq Nat

R == INSTANCE M17Rx WITH FrameBytes <- 25

MaxIpSize == 822

VARIABLES pc,           \* "check", "segment", "done" or "threw"
          size,         \* ip_pkt->size(); 2 more once the CRC is appended
          index_i,      \* bytes of ip_pkt already in a frame
          index_o,      \* bytes of the current frame already filled
          frame_number, \* number of the current frame
          pkt_data,     \* the 25 data bytes of the frame under construction
          rx            \* the receiver's m17rx

vars == <<pc, size, index_i, index_o, frame_number, pkt_data, rx>>

Init == /\ pc = "check"
        /\ size \in Sizes
        /\ index_i = 0 /\ index_o = 1 /\ frame_number = 0
        /\ pkt_data = [k \in 0 .. 24 |-> IF k = 0 THEN 0 ELSE Pad]
        /\ rx = R!EmptyPacket

\* The length check and, when it passes, the LSF frame and the CRC.
Begin ==
    /\ pc = "check"
    /\ size <= MaxIpSize
    /\ pc' = "segment"
    /\ size' = size + 2
    /\ rx' = R!AddFrame(rx, R!LsfFrame(Lsf))
    /\ UNCHANGED <<index_i, index_o, frame_number, pkt_data>>

\* throw(invalid_argument(...)).
Throw ==
    /\ pc = "check"
    /\ size > MaxIpSize
    /\ pc' = "threw"
    /\ UNCHANGED <<size, index_i, index_o, frame_number, pkt_data, rx>>

\* A variant that copies the larger of the two amounts.
Smaller_Swapped(a, b) == IF a <= b THEN b ELSE a

Smaller(a, b) == IF a <= b THEN a ELSE b

\* memcpy of len bytes to place o; the last frame is padded behind them.
Filled(o, len, last) ==
    [k \in 0 .. 24 |-> IF k \in o .. (o + len - 1) THEN index_i + (k - o) + 1
                       ELSE IF last /\ k >= o + len THEN Pad ELSE pkt_data[k]]

\* A variant that shifts the frame number one bit too far.
Meta_Shift3(o, last) ==
    IF last THEN 128 + ((4 * o) % 128) ELSE (8 * frame_number) % 256

\* pkt_data[25]: the end bit and the byte count, or the frame number.
Meta(o, last) == IF last THEN 128 + ((4 * o) % 128) ELSE (4 * frame_number) % 256

\* A variant whose last test is off by one.
Segment_LastEarly ==
    /\ pc = "segment"
    /\ LET o    == index_o % 25
           len  == Smaller(size - index_i, 25 - o)
           last == index_i + len >= size - 1
       IN  /\ index_i' = index_i + len
           /\ index_o' = o + len
           /\ pkt_data' = Filled(o, len, last)
           /\ rx' = R!AddFrame(rx, R!PktFrame(Meta(o + len, last),
                                              [i \in 1 .. 25 |-> pkt_data'[i - 1]]))
           /\ pc' = IF last THEN "done" ELSE "segment"
    /\ frame_number' = (frame_number + 1) % 256
    /\ UNCHANGED size

\* One round of while(index_i < ip_pkt->size()).
Segment ==
    /\ pc = "segment"
    /\ LET o    == index_o % 25
           len  == Smaller(size - index_i, 25 - o)
           last == index_i + len >= size
       IN  /\ index_i' = index_i + len
           /\ index_o' = o + len
           /\ pkt_data' = Filled(o, len, last)
           /\ rx' = R!AddFrame(rx, R!PktFrame(Meta(o + len, last),
                                              [i \in 1 .. 25 |-> pkt_data'[i - 1]]))
           /\ pc' = IF last THEN "done" ELSE "segment"
    /\ frame_number' = (frame_number + 1) % 256
    /\ UNCHANGED size

Terminated == pc \in {"done", "threw"} /\ UNCHANGED vars

Next == Begin \/ Throw \/ Segment \/ Terminated

Spec == Init /\ [][Next]_vars

(***************************************************************************)
(* Properties.                                                             *)
(***************************************************************************)
TypeOK ==
    /\ pc \in {"check", "segment", "done", "threw"}
    /\ size \in Nat /\ index_i \in Nat
    /\ index_o \in 0 .. 25
    /\ frame_number \in 0 .. 255
    /\ pkt_data \in [0 .. 24 -> Int \cup {Pad}]
    /\ rx.status \in {"EMPTY", "LSF_RECEIVED", "PKT_COMPLETE", "ERROR"}

\* In the middle of a superframe the receiver holds exactly the bytes cut so
\* far: the frame boundary arithmetic (first frame one byte shorter, index_o
\* modulo 25) neither skips nor repeats a byte, the frame numbers are the ones
\* add_frame expects, and no number sets the end-of-transmission bit.
PrefixReceived ==
    pc = "segment" => /\ rx.status = "LSF_RECEIVED"
                      /\ rx.received_pkt_frames = frame_number - 1
                      /\ rx.data = [k \in 1 .. 25 * frame_number |-> k - 1]

\* A packet of any legal size crosses a perfect channel unchanged, in at most
\* the 33 frames of a packet superframe, and the padding is stripped.
RoundTrip ==
    pc = "done" => /\ rx.status = "PKT_COMPLETE"
                   /\ rx.data = [k \in 1 .. size + 1 |-> k - 1]
                   /\ rx.received_pkt_frames + 1 = frame_number
                   /\ frame_number <= 33
=============================================================================
