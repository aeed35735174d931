----------------------------- MODULE PacketLink -----------------------------
(***************************************************************************)
(* What radio_thread's receive loop (src/radio_thread.cpp) makes of the    *)
(* transmissions it hears: the demodulator of M17Demodulator finds frames, *)
(* m17rx::add_frame (M17Rx) collects them in rx_packet, and the loop       *)
(* replaces rx_packet when it is complete, in error, or when the           *)
(* demodulator reports the end of a transmission.  A step is one round of  *)
(* the loop in which the demodulator moves.                                *)
(*                                                                         *)
(* The channel may corrupt a frame or hide a sync word.  A transmission    *)
(* the demodulator is not armed for leaves no trace and is not a step.     *)
(* Codes are ideal: a damaged LSF fails its CRC.  Here a frame carries one *)
(* byte, named by its transmission and its place.                          *)
(***************************************************************************)
EXTENDS M17Demodulator, Sequences

CONSTANTS Callsign, Other,  \* this station and another one
          MaxPeaks,         \* bound: correlation peaks, of a signal or of noise
          MaxFrames,        \* bound: packet frames of a transmission
          Noise,            \* nothing the demodulator is aligned with
          NoLsf, Garbage

ASSUME LinkBoundAssumption == MaxPeaks \in Nat /\ MaxFrames \in 1 .. 31

R == INSTANCE M17Rx WITH FrameBytes <- 1

VARIABLES air,          \* the transmission the demodulator follows, or Noise
          pos,          \* which frame of it is being received; 0 is the first
          heard,        \* how many correlation peaks there were
          rx_packet,    \* the loop's current m17rx
          valid_pkts,   \* history: packets added to from_radio that are valid
          clean,        \* history: all of air so far was decoded as it was sent
          silent        \* history: the last lock ended without an EOT

linkVars == <<air, pos, heard, rx_packet, valid_pkts, clean, silent>>
vars     == <<demodVars, linkVars>>

Tx == [id : 1 .. MaxPeaks, kind : {"PACKET", "BERT"}, dst : {Callsign, Other},
       n : 1 .. MaxFrames]

LsfOf(tx)     == [id |-> tx.id, dst |-> tx.dst, crc_ok |-> TRUE]
GarbageLsf    == [id |-> 0, dst |-> Other, crc_ok |-> FALSE]
ByteOf(tx, k) == [tx |-> tx, place |-> k]
BytesOf(tx)   == [k \in 1 .. tx.n |-> ByteOf(tx, k)]

ASSUME NothingAssumption == Noise \notin Tx /\ \A tx \in Tx : LsfOf(tx) # NoLsf

\* The frames of a transmission, as m17tx_pkt builds them.
SentFrame(tx, k) ==
    CASE tx.kind = "BERT"                           -> R!BerFrame
      [] tx.kind = "PACKET" /\ k = 0                -> R!LsfFrame(LsfOf(tx))
      [] tx.kind = "PACKET" /\ k > 0 /\ k < tx.n    -> R!PktFrame(4 * (k - 1), <<ByteOf(tx, k)>>)
      [] tx.kind = "PACKET" /\ k = tx.n             -> R!PktFrame(128 + 4, <<ByteOf(tx, k)>>)

\* The sync word in front of it, and the one that follows.
WordOf(tx, k) == IF tx.kind = "BERT" THEN "BERT" ELSE IF k = 0 THEN "LSF" ELSE "PACKET"
NextWord      == IF pos < air.n THEN WordOf(air, pos + 1) ELSE "EOT"

\* What a decoder may find where there is no frame of the type it expects.
GarbageFrames(w) ==
    CASE w = "LSF"    -> {R!LsfFrame(GarbageLsf)}
      [] w = "PACKET" -> {R!PktFrame(4 * k, <<Garbage>>) : k \in 0 .. MaxFrames}
                           \cup {R!PktFrame(128 + 4 * k, <<Garbage>>) : k \in 0 .. 2}
      [] w = "BERT"   -> {R!BerFrame}

Intact(f) == /\ air # Noise
             /\ lastSyncWord = WordOf(air, pos)
             /\ f = SentFrame(air, pos)

Decodings == GarbageFrames(lastSyncWord)
               \cup (IF air # Noise /\ lastSyncWord = WordOf(air, pos)
                       THEN {SentFrame(air, pos)} ELSE {})

Init == /\ DemodInit
        /\ air = Noise /\ pos = 0 /\ heard = 0
        /\ rx_packet = R!EmptyPacket
        /\ valid_pkts = <<>>
        /\ clean = FALSE /\ silent = FALSE

\* A variant that keeps rx_packet at the end of a transmission.
NoNewFrame_KeepsPacket == UNCHANGED <<rx_packet, valid_pkts>>

\* radio_thread's reaction to an update() that brings no frame: -1 starts a
\* new packet, 0 does nothing.
NoNewFrame == /\ rx_packet' = IF returned' = -1 THEN R!EmptyPacket ELSE rx_packet
              /\ UNCHANGED valid_pkts

\* A variant that keeps a packet in error.
NewFrame_KeepsError(f) ==
    LET p == R!AddFrame(rx_packet, f)
    IN  /\ rx_packet' = IF R!IsComplete(p) THEN R!EmptyPacket ELSE p
        /\ valid_pkts' = IF R!IsValid(p)
                           THEN Append(valid_pkts, [pkt |-> p, silent |-> silent])
                           ELSE valid_pkts

\* A variant that keeps a packet it has pushed.
NewFrame_KeepsComplete(f) ==
    LET p == R!AddFrame(rx_packet, f)
    IN  /\ rx_packet' = IF R!IsError(p) THEN R!EmptyPacket ELSE p
        /\ valid_pkts' = IF R!IsValid(p) /\ Len(valid_pkts) < MaxPeaks
                           THEN Append(valid_pkts, [pkt |-> p, silent |-> silent])
                           ELSE valid_pkts

\* ... and to a frame: the packet takes it, and is pushed when it is complete.
NewFrame(f) ==
    LET p == R!AddFrame(rx_packet, f)
    IN  /\ rx_packet' = IF R!IsError(p) \/ R!IsComplete(p) THEN R!EmptyPacket ELSE p
        /\ valid_pkts' = IF R!IsValid(p)
                           THEN Append(valid_pkts, [pkt |-> p, silent |-> silent])
                           ELSE valid_pkts

(***************************************************************************)
(* Before a lock.                                                          *)
(***************************************************************************)
Quiet == /\ Initialise \/ Listen \/ NoPeak
         /\ NoNewFrame
         /\ UNCHANGED <<air, pos, heard, clean, silent>>

Hear == /\ heard < MaxPeaks
        /\ heard' = heard + 1
        /\ \E tx \in Tx : /\ tx.id = heard'
                          /\ FindPeak(WordOf(tx, 0))
                          /\ air' = tx
        /\ pos' = 0 /\ clean' = TRUE
        /\ NoNewFrame
        /\ UNCHANGED silent

HearNoise == /\ heard < MaxPeaks
             /\ heard' = heard + 1
             /\ \E w \in SyncWords : FindPeak(w)
             /\ NoNewFrame
             /\ UNCHANGED <<air, pos, clean, silent>>

Confirm == /\ Lock
           /\ NoNewFrame
           /\ UNCHANGED <<air, pos, heard, clean, silent>>

Leave == air' = Noise /\ pos' = 0 /\ clean' = FALSE /\ UNCHANGED heard

Reject == RejectPeak /\ NoNewFrame /\ Leave /\ UNCHANGED silent

(***************************************************************************)
(* While locked.                                                           *)
(***************************************************************************)
Receive == /\ CompleteFrame
           /\ \E f \in Decodings : NewFrame(f) /\ clean' = (clean /\ Intact(f))
           /\ UNCHANGED <<air, pos, heard, silent>>

\* The demodulator stays with the transmission, or with the noise after it.
Follow(right) == IF air # Noise /\ pos < air.n
                   THEN /\ pos' = pos + 1
                        /\ clean' = (clean /\ right)
                        /\ UNCHANGED <<air, heard>>
                   ELSE Leave

NextSync == /\ \E w \in SyncWords : /\ air # Noise => w = NextWord
                                    /\ FindSync(w)
            /\ NoNewFrame
            /\ Follow(TRUE)
            /\ UNCHANGED silent

HearEot == /\ air # Noise => NextWord = "EOT"
           /\ FindEot
           /\ NoNewFrame
           /\ Leave
           /\ silent' = FALSE

MissSync == /\ \E w \in SyncWords \ {"EOT"} :
                  /\ GuessSync(w)
                  /\ Follow(air # Noise /\ w = NextWord)
            /\ NoNewFrame
            /\ UNCHANGED silent

GuessEot == /\ GuessSync("EOT")
            /\ NoNewFrame
            /\ Leave
            /\ silent' = FALSE

LoseSilently == /\ LoseLock
                /\ NoNewFrame
                /\ Leave
                /\ silent' = TRUE

Next == \/ Quiet \/ Hear \/ HearNoise \/ Confirm \/ Reject
        \/ Receive \/ NextSync \/ HearEot \/ MissSync \/ GuessEot \/ LoseSilently

Spec == Init /\ [][Next]_vars

(***************************************************************************)
(* Properties.                                                             *)
(***************************************************************************)
TypeOK == /\ DemodTypeOK
          /\ air \in Tx \cup {Noise}
          /\ pos \in 0 .. MaxFrames
          /\ heard \in 0 .. MaxPeaks
          /\ rx_packet.status \in {"EMPTY", "LSF_RECEIVED", "BERT"}
          /\ rx_packet.received_pkt_frames \in -1 .. MaxFrames
          /\ clean \in BOOLEAN /\ silent \in BOOLEAN
          /\ Len(valid_pkts) <= MaxPeaks

\* The last frame of a packet transmission has just been received, and like
\* all the others it was decoded as it was sent.
AllReceived == /\ demodState = "SYNC_UPDATE"
               /\ air # Noise
               /\ clean
               /\ air.kind = "PACKET" /\ pos = air.n

\* A packet received intact is pushed, once it is complete and as it was sent,
\* whatever was received before it, if only the previous lock ended with an
\* end-of-transmission (heard or guessed).
HeardIsPushed ==
    AllReceived /\ ~silent =>
        /\ valid_pkts # <<>>
        /\ valid_pkts[Len(valid_pkts)].pkt
             = R!Packet("PKT_COMPLETE", LsfOf(air), BytesOf(air), air.n - 1)

\* No byte of any transmission is pushed twice.
PushedOnce ==
    \A i, j \in DOMAIN valid_pkts :
        LET d == valid_pkts[i].pkt.data
            e == valid_pkts[j].pkt.data
        IN  \A k \in DOMAIN d, l \in DOMAIN e :
                d[k] = e[l] /\ d[k] # Garbage => i = j /\ k = l

\* The addresses and the payload of a pushed packet are of one transmission,
\* unless the lock before was lost without an end-of-transmission.
SameTransmission ==
    \A i \in DOMAIN valid_pkts :
        LET p == valid_pkts[i].pkt
        IN  \A k \in DOMAIN p.data :
                ~valid_pkts[i].silent /\ p.data[k] # Garbage =>
                    p.lsf = LsfOf(p.data[k].tx)

\* What a silently lost lock leaves behind is gone when the next packet heard
\* intact ends, though it spoils that packet.  (Left in BERT mode, rx_packet
\* waits for an end-of-transmission.)
Recovers == AllReceived /\ rx_packet.status # "BERT" => rx_packet = R!EmptyPacket

\* The tests of tun_thread after is_valid(): destination and packet CRC.
Delivered(p) == /\ p.lsf.dst = Callsign
                /\ p.data # <<>>
                /\ p.data[1] # Garbage
                /\ p.data = BytesOf(p.data[1].tx)

\* tun_threads.cpp: "check if the dst callsign matches our callsign".
OnlyOwnPackets ==
    \A i \in DOMAIN valid_pkts :
        LET p == valid_pkts[i].pkt
        IN  Delivered(p) => p.data[1].tx.dst = Callsign
=============================================================================
