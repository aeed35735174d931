------------------------------- MODULE M17Rx -------------------------------
(***************************************************************************)
(* src/m17rx.cpp: the object that collects the frames of one reception.    *)
(* A packet is a record and add_frame a function from packets to packets.  *)
(* A frame is what the decoder finds in it: its sync word and, for LSF     *)
(* frames, the link setup fields, for PKT frames 25 bytes and the metadata *)
(* byte (end-of-transmission bit, then a 5-bit number or byte count).      *)
(***************************************************************************)
EXTENDS Integers, Sequences

CONSTANTS NoLsf,        \* the zeroed LSF of an empty packet
          Garbage,      \* a byte read past the data bytes of a frame
          FrameBytes    \* data bytes in a frame (25)

Packet(status, lsf, data, received_pkt_frames) ==
    [status |-> status, lsf |-> lsf, data |-> data,
     received_pkt_frames |-> received_pkt_frames]

\* A variant that counts the LSF as a frame.
EmptyPacket_FromZero == Packet("EMPTY", NoLsf, <<>>, 0)

EmptyPacket == Packet("EMPTY", NoLsf, <<>>, -1)

LsfFrame(lsf)         == [sync |-> "LSF", lsf |-> lsf]
PktFrame(meta, bytes) == [sync |-> "PKT", meta |-> meta, bytes |-> bytes]
BerFrame              == [sync |-> "BER"]

IsLast(f)   == (f.meta \div 128) % 2 = 1
NumberOf(f) == (f.meta \div 4) % 32

\* What insert(cend, begin, begin + n) appends: n may exceed the frame.
FirstBytes(f, n) == [i \in 1 .. n |-> IF i <= FrameBytes THEN f.bytes[i] ELSE Garbage]

\* The early returns of add_frame: the packet is left as it is.
Refuses(p, f) ==
    \/ p.status \in {"PKT_COMPLETE", "ERROR"}
    \/ f.sync = "LSF" /\ p.status # "EMPTY"
    \/ f.sync = "PKT" /\ p.status # "LSF_RECEIVED"
    \/ f.sync = "BER" /\ p.status \notin {"BERT", "EMPTY"}

\* The last frame: its number is replaced by a count, so it is not checked.
AddLastPkt(p, f) ==
    Packet("PKT_COMPLETE", p.lsf, p.data \o FirstBytes(f, NumberOf(f)),
           p.received_pkt_frames + 1)

AddNextPkt(p, f) ==
    IF NumberOf(f) = p.received_pkt_frames + 1
      THEN Packet(p.status, p.lsf, p.data \o FirstBytes(f, FrameBytes),
                  p.received_pkt_frames + 1)
      ELSE [p EXCEPT !.status = "ERROR"]

AddFrame(p, f) ==
    CASE Refuses(p, f) -> p
      [] ~Refuses(p, f) /\ f.sync = "LSF" ->
            Packet("LSF_RECEIVED", f.lsf, p.data, p.received_pkt_frames)
      [] ~Refuses(p, f) /\ f.sync = "PKT" ->
            IF IsLast(f) THEN AddLastPkt(p, f) ELSE AddNextPkt(p, f)
      [] ~Refuses(p, f) /\ f.sync = "BER" -> [p EXCEPT !.status = "BERT"]

IsComplete(p) == p.status = "PKT_COMPLETE"
IsError(p)    == p.status = "ERROR"

\* is_valid(): complete, and the CRC of the LSF is right.
IsValid(p) == IsComplete(p) /\ p.lsf # NoLsf /\ p.lsf.crc_ok

GetPayload(p) == IF IsValid(p) THEN p.data ELSE <<>>
=============================================================================
