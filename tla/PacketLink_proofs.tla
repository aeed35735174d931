------------------------- MODULE PacketLink_proofs -------------------------
(***************************************************************************)
(* Theorems about the demodulator, for every initial value of missedSyncs, *)
(* and about the receive loop it feeds.                                    *)
(***************************************************************************)
EXTENDS PacketLink, SequenceTheorems, TLAPS

\* Once a sync has been missed, missedSyncs counts at least the misses in a
\* row and has not passed the limit, whatever it held before.
CountsMisses == locked /\ missesInARow > 0 =>
                    missesInARow <= missedSyncs /\ missedSyncs <= MaxMissed

\* A frame is never received under the sync word that ends a transmission.
FrameWord == /\ demodState \in {"SYNCED", "LOCKED", "SYNC_UPDATE"} =>
                    lastSyncWord \in {"LSF", "PACKET", "BERT"}
             /\ demodState = "ARMED" => lastSyncWord = "NONE"
             /\ demodState = "INIT" => ~locked

DemodInv == /\ DemodTypeOK
            /\ LockedIsRight
            /\ FrameWord
            /\ ReturnIsRight
            /\ CountsMisses

LEMMA DemodInitInv == DemodInit => DemodInv
<1> SUFFICES ASSUME DemodInit PROVE DemodInv
  OBVIOUS
<1>1. ~locked /\ locked \in BOOLEAN
  BY DEF DemodInit
<1>2. /\ demodState = "INIT" /\ lastSyncWord \in SyncWords
      /\ missedSyncs \in 0 .. 255 /\ returned = 0 /\ missesInARow = 0
  BY StaleMissesAssumption DEF DemodInit
<1>3. QED
  BY <1>1, <1>2 DEF DemodInv, DemodTypeOK, LockedIsRight, FrameWord,
     ReturnIsRight, CountsMisses

LEMMA DemodStepInv == DemodInv /\ [DemodNext]_demodVars => DemodInv'
<1> SUFFICES ASSUME DemodInv, [DemodNext]_demodVars PROVE DemodInv'
  OBVIOUS
<1> USE DEF DemodInv, DemodTypeOK, LockedIsRight, FrameWord, ReturnIsRight,
            CountsMisses, SyncWords, Returns, MaxMissed
<1>1. CASE Initialise
  BY <1>1 DEF Initialise
<1>2. CASE Listen
  BY <1>2 DEF Listen
<1>3. CASE Lock
  BY <1>3 DEF Lock
<1>4. CASE RejectPeak
  BY <1>4 DEF RejectPeak
<1>5. CASE CompleteFrame
  BY <1>5 DEF CompleteFrame
<1>6. CASE FindEot
  <2>1. ~locked' /\ locked' \in BOOLEAN
    BY <1>6 DEF FindEot
  <2>2. /\ demodState' = "UNLOCKED" /\ lastSyncWord' = "EOT"
        /\ missedSyncs' = 0 /\ missesInARow' = 0 /\ returned' = -1
    BY <1>6 DEF FindEot
  <2>3. QED
    BY <2>1, <2>2
<1>7. CASE LoseLock
  <2>1. ~locked' /\ locked' \in BOOLEAN
    BY <1>7 DEF LoseLock
  <2>2. /\ demodState = "SYNC_UPDATE" /\ demodState' = "UNLOCKED"
        /\ lastSyncWord' = lastSyncWord /\ returned' = 0
        /\ missesInARow' = missesInARow + 1 /\ missedSyncs' = (missedSyncs + 1) % 256
    BY <1>7 DEF LoseLock, CountMiss
  <2>3. missesInARow <= 4
    BY <2>2
  <2>4. missesInARow' \in 0 .. 5 /\ missedSyncs' \in 0 .. 255
    BY <2>2, <2>3
  <2>5. QED
    BY <2>1, <2>2, <2>4
<1>8. ASSUME NEW w \in SyncWords, FindPeak(w) PROVE DemodInv'
  BY <1>8 DEF FindPeak
<1>9. ASSUME NEW w \in SyncWords, FindSync(w) PROVE DemodInv'
  BY <1>9 DEF FindSync
<1>10. ASSUME NEW w \in SyncWords, GuessSync(w) PROVE DemodInv'
  <2>1. (locked' <=> w # "EOT") /\ locked' \in BOOLEAN
    BY <1>10 DEF GuessSync
  <2>2. /\ demodState = "SYNC_UPDATE" /\ missedSyncs < 4
        /\ demodState' = (IF w = "EOT" THEN "UNLOCKED" ELSE "LOCKED")
        /\ w \in {"LSF", "PACKET", "BERT", "EOT"} /\ lastSyncWord' = w
        /\ returned' = (IF w = "EOT" THEN -1 ELSE 0)
        /\ missesInARow' = missesInARow + 1 /\ missedSyncs' = (missedSyncs + 1) % 256
    BY <1>10 DEF GuessSync, CountMiss, TooManyMisses
  <2>3. missesInARow = 0 \/ missesInARow <= missedSyncs
    BY <2>2
  <2>4. /\ missedSyncs' = missedSyncs + 1 /\ missedSyncs' \in 0 .. 4
        /\ missesInARow' \in 0 .. 4 /\ missesInARow' <= missedSyncs'
    BY <2>2, <2>3
  <2>5. QED
    BY <2>1, <2>2, <2>4
<1>11. CASE UNCHANGED demodVars
  BY <1>11 DEF demodVars
<1>12. CASE NoPeak
  BY <1>12 DEF NoPeak
<1>13. QED
  BY <1>12, <1>1, <1>2, <1>3, <1>4, <1>5, <1>6, <1>7, <1>8, <1>9, <1>10, <1>11
     DEF DemodNext

\* The machine's registers stay in their types; missedSyncs may wrap but the
\* number of misses in a row never exceeds five.
THEOREM DemodInvariance == DemodSpec => []DemodInv
<1>1. QED
  BY DemodInitInv, DemodStepInv, PTL DEF DemodSpec

\* What radio_thread learns from isLocked() is what the machine is doing.
THEOREM LockTheorem == DemodSpec => []LockedIsRight
<1>1. DemodInv => LockedIsRight
  BY DEF DemodInv
<1>2. QED
  BY <1>1, DemodInvariance, PTL

\* What update() returns goes with the sync word and the lock.
THEOREM ReturnTheorem == DemodSpec => []ReturnIsRight
<1>1. DemodInv => ReturnIsRight
  BY DEF DemodInv
<1>2. QED
  BY <1>1, DemodInvariance, PTL

\* A lost signal holds the lock for four frames at most, from any stale value
\* of missedSyncs.
THEOREM DeadSignalTheorem == DemodSpec => []DeadSignalBounded
<1>1. DemodInv => DeadSignalBounded
  BY DEF DemodInv, DemodTypeOK, CountsMisses, DeadSignalBounded, MaxMissed
<1>2. QED
  BY <1>1, DemodInvariance, PTL

(***************************************************************************)
(* The link.                                                               *)
(***************************************************************************)
\* The demodulator in the link does nothing it does not do alone.
LEMMA DemodStep == [Next]_vars => [DemodNext]_demodVars
<1>1. FindPeak("LSF") \/ FindPeak("BERT") => DemodNext
  BY DEF DemodNext, SyncWords
<1>2. \A tx \in Tx : FindPeak(WordOf(tx, 0)) => DemodNext
  BY DEF FindPeak, DemodNext, SyncWords
<1>3. GuessSync("EOT") => DemodNext
  BY DEF DemodNext, SyncWords
<1>4. Quiet \/ HearNoise \/ Confirm \/ Reject \/ Receive => DemodNext
  BY DEF Quiet, HearNoise, Confirm, Reject, Receive, DemodNext
<1>5. Hear => DemodNext
  BY <1>2 DEF Hear
<1>6. NextSync \/ HearEot \/ MissSync \/ GuessEot \/ LoseSilently => DemodNext
  BY <1>3 DEF NextSync, HearEot, MissSync, GuessEot, LoseSilently, DemodNext
<1>7. QED
  BY <1>4, <1>5, <1>6 DEF Next, vars

Lsfs  == {NoLsf, GarbageLsf} \cup {LsfOf(tx) : tx \in Tx}
Bytes == [tx : Tx, place : Nat] \cup {Garbage}

Receiving == [status : {"EMPTY", "LSF_RECEIVED", "BERT"}, lsf : Lsfs,
              data : Seq(Bytes), received_pkt_frames : -1 .. MaxFrames]
Completed == [status : {"PKT_COMPLETE"}, lsf : Lsfs, data : Seq(Bytes),
              received_pkt_frames : Int]
Pushed    == [pkt : Completed, silent : BOOLEAN]

LinkType ==
    /\ DemodInv
    /\ air \in Tx \cup {Noise} /\ pos \in Nat /\ heard \in 0 .. MaxPeaks
    /\ clean \in BOOLEAN /\ silent \in BOOLEAN
    /\ valid_pkts \in Seq(Pushed)
    /\ rx_packet \in Receiving
    /\ rx_packet.status = "EMPTY" => rx_packet = R!EmptyPacket
    /\ rx_packet.status = "BERT" => rx_packet.data = <<>>
    /\ IF air = Noise THEN pos = 0 ELSE pos <= air.n
    /\ demodState \in {"INIT", "UNLOCKED", "ARMED"} => air = Noise
    /\ demodState = "SYNCED" => pos = 0

(***************************************************************************)
(* What a step does to rx_packet and valid_pkts.                           *)
(***************************************************************************)
Kept       == UNCHANGED <<rx_packet, valid_pkts>>
Started(l) == /\ rx_packet = R!EmptyPacket
              /\ rx_packet' = R!Packet("LSF_RECEIVED", l, <<>>, -1)
              /\ UNCHANGED valid_pkts
Bert       == /\ rx_packet.status \in {"EMPTY", "BERT"}
              /\ rx_packet' = [rx_packet EXCEPT !.status = "BERT"]
              /\ UNCHANGED valid_pkts
Extended(b) == /\ rx_packet.status = "LSF_RECEIVED"
               /\ rx_packet.received_pkt_frames < MaxFrames
               /\ rx_packet' = R!Packet("LSF_RECEIVED", rx_packet.lsf,
                                        rx_packet.data \o <<b>>,
                                        rx_packet.received_pkt_frames + 1)
               /\ UNCHANGED valid_pkts
Dropped    == rx_packet' = R!EmptyPacket /\ UNCHANGED valid_pkts
Whole(e)   == R!Packet("PKT_COMPLETE", rx_packet.lsf, rx_packet.data \o e,
                       rx_packet.received_pkt_frames + 1)
Push(e)    == /\ rx_packet.status = "LSF_RECEIVED"
              /\ rx_packet.lsf # NoLsf /\ rx_packet.lsf.crc_ok
              /\ rx_packet' = R!EmptyPacket
              /\ valid_pkts' = Append(valid_pkts, [pkt |-> Whole(e), silent |-> silent])

\* The bytes a frame of packet data may bring.
Fresh(b) == \/ b = Garbage
            \/ /\ air # Noise /\ air.kind = "PACKET" /\ pos > 0
               /\ b = ByteOf(air, pos)

LEMMA PktFrameCases ==
    ASSUME LinkType, NEW b, NEW m \in 0 .. 255,
           (m \div 128) % 2 = 1 => (m \div 4) % 32 <= 2,
           (m \div 128) % 2 # 1 => (m \div 4) % 32 <= MaxFrames,
           NewFrame(R!PktFrame(m, <<b>>))
    PROVE  \/ Kept \/ Extended(b) \/ Dropped
           \/ \E e \in {<<>>, <<b>>, <<b, Garbage>>} : Push(e)
<1> DEFINE f == R!PktFrame(m, <<b>>)
           p == R!AddFrame(rx_packet, f)
           n == (m \div 4) % 32
<1>1. f.sync = "PKT" /\ f.meta = m /\ f.bytes = <<b>>
  BY DEF R!PktFrame
<1>2. R!NumberOf(f) = n /\ (R!IsLast(f) <=> (m \div 128) % 2 = 1)
  BY <1>1 DEF R!NumberOf, R!IsLast
<1>3. /\ rx_packet' = IF p.status \in {"ERROR", "PKT_COMPLETE"} THEN R!EmptyPacket ELSE p
      /\ valid_pkts' = IF p.status = "PKT_COMPLETE" /\ p.lsf # NoLsf /\ p.lsf.crc_ok
                         THEN Append(valid_pkts, [pkt |-> p, silent |-> silent])
                         ELSE valid_pkts
  BY DEF NewFrame, R!IsError, R!IsComplete, R!IsValid
<1>4. n \in 0 .. 31
  OBVIOUS
<1> HIDE DEF f, n
<1>5. CASE rx_packet.status # "LSF_RECEIVED"
  <2>1. R!Refuses(rx_packet, f)
    BY <1>1, <1>5 DEF R!Refuses
  <2>2. p = rx_packet
    BY <2>1 DEF R!AddFrame
  <2>3. QED
    BY <1>3, <2>2 DEF LinkType, Receiving, Kept
<1>6. CASE rx_packet.status = "LSF_RECEIVED"
  <2>1. ~R!Refuses(rx_packet, f)
    BY <1>1, <1>6 DEF R!Refuses
  <2>2. CASE R!IsLast(f)
    <3>1. p = R!Packet("PKT_COMPLETE", rx_packet.lsf, rx_packet.data \o R!FirstBytes(f, n),
                       rx_packet.received_pkt_frames + 1)
      BY <1>1, <1>2, <2>1, <2>2 DEF R!AddFrame, R!AddLastPkt
    <3>2. n \in {0, 1, 2}
      BY <1>2, <1>4, <2>2 DEF n
    <3>3. R!FirstBytes(f, n) \in {<<>>, <<b>>, <<b, Garbage>>}
      BY <1>1, <3>2 DEF R!FirstBytes
    <3>4. p = Whole(R!FirstBytes(f, n)) /\ p.status = "PKT_COMPLETE" /\ p.lsf = rx_packet.lsf
      BY <3>1 DEF Whole, R!Packet
    <3>5. CASE rx_packet.lsf # NoLsf /\ rx_packet.lsf.crc_ok
      BY <1>3, <1>6, <3>3, <3>4, <3>5 DEF Push
    <3>6. CASE ~(rx_packet.lsf # NoLsf /\ rx_packet.lsf.crc_ok)
      BY <1>3, <3>4, <3>6 DEF Dropped
    <3>7. QED
      BY <3>5, <3>6
  <2>3. CASE ~R!IsLast(f)
    <3>1. p = R!AddNextPkt(rx_packet, f)
      BY <1>1, <2>1, <2>3 DEF R!AddFrame
    <3>2. CASE n = rx_packet.received_pkt_frames + 1
      <4>1. R!FirstBytes(f, 1) = <<b>>
        BY <1>1 DEF R!FirstBytes
      <4>2. p = R!Packet(rx_packet.status, rx_packet.lsf, rx_packet.data \o <<b>>,
                         rx_packet.received_pkt_frames + 1)
        BY <1>2, <3>1, <3>2, <4>1 DEF R!AddNextPkt
      <4>3. rx_packet.received_pkt_frames < MaxFrames
        BY <1>2, <1>4, <2>3, <3>2, LinkBoundAssumption DEF n, LinkType, Receiving
      <4>4. p.status = "LSF_RECEIVED"
        BY <1>6, <4>2 DEF R!Packet
      <4>5. QED
        BY <1>3, <1>6, <4>2, <4>3, <4>4 DEF Extended
    <3>3. CASE n # rx_packet.received_pkt_frames + 1
      <4>1. p = [rx_packet EXCEPT !.status = "ERROR"]
        BY <1>2, <3>1, <3>3 DEF R!AddNextPkt
      <4>2. p.status = "ERROR"
        BY <4>1 DEF LinkType, Receiving
      <4>3. QED
        BY <1>3, <4>2 DEF Dropped
    <3>4. QED
      BY <3>2, <3>3
  <2>4. QED
    BY <2>2, <2>3
<1>7. QED
  BY <1>5, <1>6

LEMMA LsfFrameCases ==
    ASSUME LinkType, NEW l, NewFrame(R!LsfFrame(l))
    PROVE  Kept \/ Started(l)
<1> DEFINE f == R!LsfFrame(l)
           p == R!AddFrame(rx_packet, f)
<1>1. f.sync = "LSF" /\ f.lsf = l
  BY DEF R!LsfFrame
<1>2. p.status \notin {"ERROR", "PKT_COMPLETE"} => rx_packet' = p /\ UNCHANGED valid_pkts
  BY DEF NewFrame, R!IsError, R!IsComplete, R!IsValid
<1> HIDE DEF f
<1>3. CASE rx_packet.status # "EMPTY"
  BY <1>1, <1>2, <1>3 DEF R!AddFrame, R!Refuses, LinkType, Receiving, Kept
<1>4. CASE rx_packet.status = "EMPTY"
  <2>1. rx_packet = R!EmptyPacket
    BY <1>4 DEF LinkType
  <2>2. ~R!Refuses(rx_packet, f)
    BY <1>1, <1>4 DEF R!Refuses
  <2>3. p = R!Packet("LSF_RECEIVED", l, rx_packet.data, rx_packet.received_pkt_frames)
    BY <1>1, <2>2 DEF R!AddFrame
  <2>4. p = R!Packet("LSF_RECEIVED", l, <<>>, -1)
    BY <2>1, <2>3 DEF R!EmptyPacket, R!Packet
  <2>5. QED
    BY <1>2, <2>1, <2>4 DEF R!Packet, Started
<1>5. QED
  BY <1>3, <1>4

LEMMA BerFrameCases ==
    ASSUME LinkType, NewFrame(R!BerFrame)
    PROVE  Kept \/ Bert
<1> DEFINE p == R!AddFrame(rx_packet, R!BerFrame)
<1>1. R!BerFrame.sync = "BER"
  BY DEF R!BerFrame
<1>2. p.status \notin {"ERROR", "PKT_COMPLETE"} => rx_packet' = p /\ UNCHANGED valid_pkts
  BY DEF NewFrame, R!IsError, R!IsComplete, R!IsValid
<1>3. CASE R!Refuses(rx_packet, R!BerFrame)
  BY <1>2, <1>3 DEF R!AddFrame, LinkType, Receiving, Kept
<1>4. CASE ~R!Refuses(rx_packet, R!BerFrame)
  <2>1. p = [rx_packet EXCEPT !.status = "BERT"]
    BY <1>1, <1>4 DEF R!AddFrame
  <2>2. p.status = "BERT" /\ rx_packet.status \in {"EMPTY", "BERT"}
    BY <1>1, <1>4, <2>1 DEF R!Refuses, LinkType, Receiving
  <2>3. QED
    BY <1>2, <2>1, <2>2 DEF Bert
<1>5. QED
  BY <1>3, <1>4

\* What a decoder may find, wherever the demodulator is.
DataFrame(f) ==
    \E b : \E m \in 0 .. 255 :
        /\ f = R!PktFrame(m, <<b>>)
        /\ Fresh(b)
        /\ (m \div 128) % 2 = 1 => (m \div 4) % 32 <= 2
        /\ (m \div 128) % 2 # 1 => (m \div 4) % 32 <= MaxFrames

LEMMA DecodingCases ==
    ASSUME LinkType, NEW f \in Decodings,
           lastSyncWord \in {"LSF", "PACKET", "BERT"}
    PROVE  \/ f = R!LsfFrame(GarbageLsf) \/ f = R!BerFrame
           \/ /\ air # Noise /\ air.kind = "PACKET" /\ pos = 0
              /\ f = R!LsfFrame(LsfOf(air))
           \/ DataFrame(f)
<1>1. CASE f \in GarbageFrames(lastSyncWord)
  <2>1. ASSUME NEW k \in 0 .. MaxFrames, f = R!PktFrame(4 * k, <<Garbage>>)
        PROVE  DataFrame(f)
    <3> DEFINE m == 4 * k
    <3>1. /\ m \in 0 .. 255 /\ (m \div 128) % 2 # 1
          /\ (m \div 4) % 32 <= MaxFrames
      BY LinkBoundAssumption
    <3>2. f = R!PktFrame(m, <<Garbage>>)
      BY <2>1
    <3> HIDE DEF m
    <3>3. QED
      BY <3>1, <3>2 DEF DataFrame, Fresh
  <2>2. ASSUME NEW k \in 0 .. 2, f = R!PktFrame(128 + 4 * k, <<Garbage>>)
        PROVE  DataFrame(f)
    <3>1. /\ 128 + 4 * k \in 0 .. 255 /\ ((128 + 4 * k) \div 128) % 2 = 1
          /\ ((128 + 4 * k) \div 4) % 32 <= 2
      OBVIOUS
    <3>2. QED
      BY <2>2, <3>1 DEF DataFrame, Fresh
  <2>3. QED
    BY <1>1, <2>1, <2>2 DEF GarbageFrames
<1>2. CASE air # Noise /\ f = SentFrame(air, pos)
  <2>1. air \in Tx /\ pos \in 0 .. air.n /\ air.n \in 1 .. MaxFrames
        /\ air.kind \in {"PACKET", "BERT"}
    BY <1>2 DEF LinkType, Tx
  <2>2. CASE air.kind = "PACKET" /\ pos > 0
    <3>1. PICK m \in 0 .. 255 :
              /\ f = R!PktFrame(m, <<ByteOf(air, pos)>>)
              /\ m = 128 + 4 \/ m = 4 * (pos - 1)
      BY <1>2, <2>1, <2>2, LinkBoundAssumption DEF SentFrame
    <3>2. /\ (m \div 128) % 2 = 1 => (m \div 4) % 32 <= 2
          /\ (m \div 128) % 2 # 1 => (m \div 4) % 32 <= MaxFrames
      BY <2>1, <2>2, <3>1, LinkBoundAssumption
    <3>3. Fresh(ByteOf(air, pos))
      BY <1>2, <2>2 DEF Fresh
    <3>4. QED
      BY <3>1, <3>2, <3>3 DEF DataFrame
  <2>3. CASE air.kind = "PACKET" /\ pos = 0
    BY <1>2, <2>1, <2>3 DEF SentFrame
  <2>4. CASE air.kind = "BERT"
    BY <1>2, <2>1, <2>4 DEF SentFrame
  <2>5. QED
    BY <2>1, <2>2, <2>3, <2>4
<1>3. QED
  BY <1>1, <1>2 DEF Decodings

Took == \/ Kept \/ Dropped \/ Bert
        \/ Started(GarbageLsf)
        \/ air # Noise /\ air.kind = "PACKET" /\ pos = 0 /\ Started(LsfOf(air))
        \/ \E b : /\ Fresh(b)
                  /\ Extended(b) \/ \E e \in {<<>>, <<b>>, <<b, Garbage>>} : Push(e)

\* The packet and the history after a frame.
LEMMA ReceiveCases == LinkType /\ Receive => Took
<1> SUFFICES ASSUME LinkType, Receive PROVE Took
  OBVIOUS
<1>1. PICK f \in Decodings : NewFrame(f)
  BY DEF Receive
<1>2. lastSyncWord \in {"LSF", "PACKET", "BERT"}
  BY DEF LinkType, DemodInv, FrameWord, Receive, CompleteFrame
<1>3. CASE f = R!LsfFrame(GarbageLsf)
  BY <1>1, <1>3, LsfFrameCases DEF Took
<1>4. CASE f = R!BerFrame
  BY <1>1, <1>4, BerFrameCases DEF Took
<1>5. CASE /\ air # Noise /\ air.kind = "PACKET" /\ pos = 0
           /\ f = R!LsfFrame(LsfOf(air))
  BY <1>1, <1>5, LsfFrameCases DEF Took
<1>6. CASE DataFrame(f)
  <2>1. PICK b : \E m \in 0 .. 255 :
            /\ f = R!PktFrame(m, <<b>>)
            /\ Fresh(b)
            /\ (m \div 128) % 2 = 1 => (m \div 4) % 32 <= 2
            /\ (m \div 128) % 2 # 1 => (m \div 4) % 32 <= MaxFrames
    BY <1>6 DEF DataFrame
  <2>2. PICK m \in 0 .. 255 :
            /\ f = R!PktFrame(m, <<b>>)
            /\ (m \div 128) % 2 = 1 => (m \div 4) % 32 <= 2
            /\ (m \div 128) % 2 # 1 => (m \div 4) % 32 <= MaxFrames
    BY <2>1
  <2>3. Kept \/ Extended(b) \/ Dropped \/ \E e \in {<<>>, <<b>>, <<b, Garbage>>} : Push(e)
    BY <1>1, <2>2, PktFrameCases
  <2>4. QED
    BY <2>1, <2>3 DEF Took
<1>7. QED
  BY <1>2, <1>3, <1>4, <1>5, <1>6, DecodingCases

\* All other steps keep the packet or start a new one.
LEMMA OtherCases == [Next]_vars => Receive \/ Kept \/ Dropped
<1>1. NoNewFrame => Kept \/ Dropped
  BY DEF NoNewFrame, Kept, Dropped
<1>2. QED
  BY <1>1 DEF Next, Quiet, Hear, HearNoise, Confirm, Reject, NextSync, HearEot,
     MissSync, GuessEot, LoseSilently, vars, linkVars, Kept

LEMMA FreshBytes ==
    ASSUME LinkType, NEW b, Fresh(b), NEW e \in {<<>>, <<b>>, <<b, Garbage>>}
    PROVE  b \in Bytes /\ e \in Seq(Bytes) /\ <<b>> \in Seq(Bytes)
<1>1. b \in Bytes
  BY DEF Fresh, LinkType, Bytes, ByteOf
<1>2. Garbage \in Bytes
  BY DEF Bytes
<1>3. <<>> \in Seq(Bytes) /\ <<b>> \in Seq(Bytes) /\ <<b, Garbage>> \in Seq(Bytes)
  <2> HIDE DEF Bytes
  <2>1. QED
    BY <1>1, <1>2
<1>4. QED
  BY <1>1, <1>3

LEMMA WholeType ==
    ASSUME LinkType, rx_packet.status = "LSF_RECEIVED", NEW e \in Seq(Bytes)
    PROVE  /\ [pkt |-> Whole(e), silent |-> silent] \in Pushed
           /\ Whole(e).data = rx_packet.data \o e /\ Whole(e).lsf = rx_packet.lsf
<1>1. rx_packet.data \in Seq(Bytes) /\ rx_packet.lsf \in Lsfs
      /\ rx_packet.received_pkt_frames \in Int /\ silent \in BOOLEAN
  BY DEF LinkType, Receiving
<1>2. rx_packet.data \o e \in Seq(Bytes)
  BY <1>1, ConcatProperties
<1>3. Whole(e) \in Completed
  BY <1>1, <1>2 DEF Whole, R!Packet, Completed
<1>4. [pkt |-> Whole(e), silent |-> silent] \in Pushed
  BY <1>1, <1>3 DEF Pushed
<1>5. QED
  BY <1>4 DEF Whole, R!Packet

\* The packets stay what they are.
LEMMA PacketTypes ==
    LinkType /\ [Next]_vars =>
        /\ valid_pkts' \in Seq(Pushed)
        /\ rx_packet' \in Receiving
        /\ rx_packet'.status = "EMPTY" => rx_packet' = R!EmptyPacket
        /\ rx_packet'.status = "BERT" => rx_packet'.data = <<>>
<1> SUFFICES ASSUME LinkType, [Next]_vars
             PROVE  /\ valid_pkts' \in Seq(Pushed)
                    /\ rx_packet' \in Receiving
                    /\ rx_packet'.status = "EMPTY" => rx_packet' = R!EmptyPacket
                    /\ rx_packet'.status = "BERT" => rx_packet'.data = <<>>
  OBVIOUS
<1>1. R!EmptyPacket \in Receiving /\ R!EmptyPacket.status = "EMPTY"
  BY LinkBoundAssumption DEF R!EmptyPacket, R!Packet, Receiving, Lsfs
<1>2. CASE Kept
  BY <1>2 DEF Kept, LinkType
<1>3. CASE Dropped
  BY <1>1, <1>3 DEF Dropped, LinkType
<1>4. CASE Bert
  <2>1. rx_packet.data = <<>>
    BY <1>4 DEF Bert, LinkType, R!EmptyPacket, R!Packet
  <2>2. rx_packet' \in Receiving /\ rx_packet'.status = "BERT" /\ rx_packet'.data = <<>>
    BY <1>4, <2>1 DEF Bert, LinkType, Receiving
  <2>3. QED
    BY <1>4, <2>2 DEF Bert, LinkType
<1>5. ASSUME NEW l \in Lsfs, Started(l)
      PROVE  /\ valid_pkts' \in Seq(Pushed)
             /\ rx_packet' \in Receiving /\ rx_packet'.status = "LSF_RECEIVED"
  BY <1>5, LinkBoundAssumption DEF Started, LinkType, Receiving, R!Packet
<1>6. ASSUME NEW b, Fresh(b), Extended(b)
      PROVE  /\ valid_pkts' \in Seq(Pushed)
             /\ rx_packet' \in Receiving /\ rx_packet'.status = "LSF_RECEIVED"
  <2>1. <<b>> \in Seq(Bytes)
    BY <1>6, FreshBytes
  <2>2. rx_packet.data \o <<b>> \in Seq(Bytes)
    BY <2>1, ConcatProperties DEF LinkType, Receiving
  <2>3. rx_packet.received_pkt_frames + 1 \in -1 .. MaxFrames
    BY <1>6, LinkBoundAssumption DEF Extended, LinkType, Receiving
  <2>4. QED
    BY <1>6, <2>2, <2>3 DEF Extended, LinkType, Receiving, R!Packet
<1>7. ASSUME NEW b, Fresh(b), NEW e \in {<<>>, <<b>>, <<b, Garbage>>}, Push(e)
      PROVE  valid_pkts' \in Seq(Pushed) /\ rx_packet' = R!EmptyPacket
  BY <1>7, FreshBytes, WholeType, AppendProperties DEF Push, LinkType
<1>8. GarbageLsf \in Lsfs /\ (air # Noise => LsfOf(air) \in Lsfs)
  BY DEF Lsfs, LinkType
<1>9. QED
  BY <1>1, <1>2, <1>3, <1>4, <1>5, <1>6, <1>7, <1>8, ReceiveCases, OtherCases DEF Took

LEMMA LinkInitType == Init => LinkType
<1> SUFFICES ASSUME Init PROVE LinkType
  OBVIOUS
<1>1. DemodInv
  BY DemodInitInv DEF Init
<1>2. <<>> \in Seq(Pushed)
  BY EmptySeq
<1>3. rx_packet \in Receiving /\ rx_packet.status = "EMPTY"
  BY LinkBoundAssumption DEF Init, R!EmptyPacket, R!Packet, Receiving, Lsfs
<1>4. silent \in BOOLEAN /\ clean \in BOOLEAN
  BY DEF Init
<1>5. QED
  BY <1>1, <1>2, <1>3, <1>4, LinkBoundAssumption DEF Init, LinkType, DemodInit

\* Where the demodulator is in the transmission it follows.
Places == /\ air \in Tx \cup {Noise} /\ pos \in Nat /\ heard \in 0 .. MaxPeaks
          /\ IF air = Noise THEN pos = 0 ELSE pos <= air.n
          /\ demodState \in {"INIT", "UNLOCKED", "ARMED"} => air = Noise
          /\ demodState = "SYNCED" => pos = 0

LEMMA PlacesStep == LinkType /\ [Next]_vars => Places'
<1> SUFFICES ASSUME LinkType, [Next]_vars PROVE Places'
  OBVIOUS
<1> USE LinkBoundAssumption DEF LinkType, Places
<1>1. CASE Quiet
  BY <1>1 DEF Quiet, Initialise, Listen, NoPeak
<1>2. CASE Hear
  BY <1>2, NothingAssumption DEF Hear, FindPeak, Tx
<1>3. CASE HearNoise
  BY <1>3 DEF HearNoise, FindPeak
<1>4. CASE Confirm
  BY <1>4 DEF Confirm, Lock
<1>5. CASE Reject
  BY <1>5 DEF Reject, RejectPeak, Leave
<1>6. CASE Receive
  BY <1>6 DEF Receive, CompleteFrame
<1>7. ASSUME NEW right, Follow(right), demodState' = "LOCKED" PROVE Places'
  BY <1>7 DEF Follow, Leave, Tx
<1>8. CASE NextSync
  BY <1>7, <1>8 DEF NextSync, FindSync
<1>9. CASE HearEot
  BY <1>9 DEF HearEot, FindEot, Leave
<1>10. CASE MissSync
  BY <1>7, <1>10 DEF MissSync, GuessSync
<1>11. CASE GuessEot
  BY <1>11 DEF GuessEot, GuessSync, Leave
<1>12. CASE LoseSilently
  BY <1>12 DEF LoseSilently, LoseLock, Leave
<1>13. CASE UNCHANGED vars
  BY <1>13 DEF vars, linkVars, demodVars
<1>14. QED
  BY <1>1, <1>2, <1>3, <1>4, <1>5, <1>6, <1>8, <1>9, <1>10, <1>11, <1>12, <1>13 DEF Next

LEMMA LinkStepType == LinkType /\ [Next]_vars => LinkType'
<1> SUFFICES ASSUME LinkType, [Next]_vars PROVE LinkType'
  OBVIOUS
<1>1. DemodInv'
  BY DemodStep, DemodStepInv DEF LinkType
<1>2. Places'
  BY PlacesStep
<1>3. silent' \in BOOLEAN
  BY DEF LinkType, Next, Quiet, Hear, HearNoise, Confirm, Reject, Receive, NextSync, HearEot,
     MissSync, GuessEot, LoseSilently, vars, linkVars
<1>4. clean' \in BOOLEAN
  <2>1. ASSUME NEW right, Follow(right) PROVE clean' \in BOOLEAN
    BY <2>1 DEF LinkType, Follow, Leave
  <2>2. QED
    BY <2>1 DEF LinkType, Next, Quiet, Hear, HearNoise, Confirm, Reject, Receive, NextSync,
       HearEot, MissSync, GuessEot, LoseSilently, Leave, vars, linkVars
<1>5. QED
  BY <1>1, <1>2, <1>3, <1>4, PacketTypes DEF LinkType, Places

THEOREM LinkTyped == Spec => []LinkType
<1>1. QED
  BY LinkInitType, LinkStepType, PTL DEF Spec

(***************************************************************************)
(* No byte is pushed twice: a byte in rx_packet or in a pushed packet is   *)
(* of a place the demodulator has passed, and the one a frame brings is    *)
(* not.                                                                    *)
(***************************************************************************)
Passed(b) ==
    /\ b \in [tx : Tx, place : Nat] /\ b.tx.id <= heard
    /\ b.tx = air => \/ b.place < pos
                     \/ b.place = pos /\ demodState = "SYNC_UPDATE"

\* The data of rx_packet, then those of the pushed packets.
Data == [i \in 0 .. Len(valid_pkts) |->
            IF i = 0 THEN rx_packet.data ELSE valid_pkts[i].pkt.data]

Once(D) == \A i, j \in DOMAIN D : \A k \in DOMAIN D[i], l \in DOMAIN D[j] :
               D[i][k] = D[j][l] /\ D[i][k] # Garbage => i = j /\ k = l

AllPassed(D) == \A i \in DOMAIN D : \A k \in DOMAIN D[i] :
                    D[i][k] # Garbage => Passed(D[i][k])

OnceInv == /\ air # Noise => air.id <= heard
           /\ AllPassed(Data)
           /\ Once(Data)

LEMMA StaysPassed ==
    ASSUME LinkType, [Next]_vars, NEW b, Passed(b)
    PROVE  Passed(b)'
<1> USE LinkBoundAssumption DEF LinkType, Passed
<1>1. CASE Quiet
  BY <1>1, NothingAssumption DEF Quiet, Initialise, Listen, NoPeak
<1>2. CASE Hear
  BY <1>2 DEF Hear, Tx
<1>3. CASE HearNoise
  BY <1>3, NothingAssumption DEF HearNoise, FindPeak, Tx
<1>4. CASE Confirm
  BY <1>4 DEF Confirm, Lock
<1>5. CASE Reject
  BY <1>5, NothingAssumption DEF Reject, Leave
<1>6. CASE Receive
  BY <1>6 DEF Receive, CompleteFrame
<1>7. ASSUME NEW right, Follow(right) PROVE Passed(b)'
  BY <1>7, NothingAssumption DEF Follow, Leave
<1>8. CASE NextSync
  BY <1>7, <1>8 DEF NextSync
<1>9. CASE HearEot
  BY <1>9, NothingAssumption DEF HearEot, Leave
<1>10. CASE MissSync
  BY <1>7, <1>10 DEF MissSync
<1>11. CASE GuessEot
  BY <1>11, NothingAssumption DEF GuessEot, Leave
<1>12. CASE LoseSilently
  BY <1>12, NothingAssumption DEF LoseSilently, Leave
<1>13. CASE UNCHANGED vars
  BY <1>13 DEF vars, linkVars, demodVars
<1>14. QED
  BY <1>1, <1>2, <1>3, <1>4, <1>5, <1>6, <1>8, <1>9, <1>10, <1>11, <1>12, <1>13 DEF Next

LEMMA AirHeard ==
    ASSUME LinkType, [Next]_vars, air # Noise => air.id <= heard
    PROVE  (air # Noise => air.id <= heard)'
<1> USE LinkBoundAssumption DEF LinkType
<1>1. ASSUME NEW right, Follow(right) PROVE (air # Noise => air.id <= heard)'
  BY <1>1 DEF Follow, Leave
<1>2. CASE Hear
  BY <1>2 DEF Hear, Tx
<1>3. CASE HearNoise
  BY <1>3, NothingAssumption DEF HearNoise, Tx
<1>4. QED
  BY <1>1, <1>2, <1>3 DEF Next, Quiet, Confirm, Reject, Receive, NextSync, HearEot,
     MissSync, GuessEot, LoseSilently, Leave, vars, linkVars

\* The byte a frame brings is new; it then counts as passed.
LEMMA FreshByte ==
    ASSUME LinkType, OnceInv, Receive, NEW b, Fresh(b), b # Garbage
    PROVE  ~Passed(b) /\ Passed(b)'
<1>1. /\ air \in Tx /\ air # Noise /\ b = ByteOf(air, pos) /\ pos \in Nat
      /\ air.id <= heard
  BY DEF Fresh, LinkType, OnceInv
<1>2. b \in [tx : Tx, place : Nat] /\ b.tx = air /\ b.place = pos
  BY <1>1 DEF ByteOf
<1>3. /\ demodState = "LOCKED" /\ demodState' = "SYNC_UPDATE"
      /\ air' = air /\ pos' = pos /\ heard' = heard
  BY DEF Receive, CompleteFrame
<1>4. QED
  BY <1>1, <1>2, <1>3 DEF Passed

\* Appending the bytes of a frame.
LEMMA AppendBytes ==
    ASSUME NEW d \in Seq(Bytes), NEW b \in Bytes, NEW e \in Seq(Bytes),
           e \in {<<>>, <<b>>, <<b, Garbage>>}, NEW k \in DOMAIN (d \o e),
           (d \o e)[k] # Garbage
    PROVE  \/ k \in DOMAIN d /\ (d \o e)[k] = d[k]
           \/ k = Len(d) + 1 /\ k \notin DOMAIN d /\ (d \o e)[k] = b
<1>1. Len(d) \in Nat /\ DOMAIN d = 1 .. Len(d) /\ Len(e) \in Nat
  BY LenProperties
<1>2. d \o e \in Seq(Bytes) /\ Len(d \o e) = Len(d) + Len(e)
  BY ConcatProperties
<1>3. k \in 1 .. Len(d) + Len(e)
  BY <1>2, LenProperties
<1>4. (d \o e)[k] = IF k <= Len(d) THEN d[k] ELSE e[k - Len(d)]
  BY <1>3, ConcatProperties
<1>5. CASE k <= Len(d)
  BY <1>1, <1>3, <1>4, <1>5
<1>6. CASE k > Len(d)
  <2>1. k - Len(d) \in 1 .. Len(e)
    BY <1>1, <1>3, <1>6
  <2>2. e[k - Len(d)] # Garbage
    BY <1>1, <1>3, <1>4, <1>6
  <2>3. k - Len(d) = 1 /\ e[1] = b
    <3> DEFINE j == k - Len(d)
    <3>1. j \in 1 .. Len(e) /\ e[j] # Garbage
      BY <2>1, <2>2
    <3> HIDE DEF j
    <3>2. j = 1 /\ e[1] = b
      BY <3>1
    <3>3. QED
      BY <3>2 DEF j
  <2>4. QED
    BY <1>1, <1>3, <1>4, <1>6, <2>3
<1>7. QED
  BY <1>1, <1>3, <1>5, <1>6

DataIs == /\ DOMAIN Data = 0 .. Len(valid_pkts) /\ Len(valid_pkts) \in Nat
          /\ DOMAIN valid_pkts = 1 .. Len(valid_pkts)
          /\ Data[0] = rx_packet.data
          /\ \A i \in 1 .. Len(valid_pkts) : Data[i] = valid_pkts[i].pkt.data
          /\ \A i \in DOMAIN Data : Data[i] \in Seq(Bytes)

LEMMA DataType == LinkType => DataIs
<1> SUFFICES ASSUME LinkType PROVE DataIs
  OBVIOUS
<1>1. Len(valid_pkts) \in Nat /\ DOMAIN valid_pkts = 1 .. Len(valid_pkts)
  BY LenProperties DEF LinkType
<1>2. DOMAIN Data = 0 .. Len(valid_pkts)
  BY DEF Data
<1>3. Data[0] = rx_packet.data
  BY <1>1 DEF Data
<1>4. \A i \in 1 .. Len(valid_pkts) : Data[i] = valid_pkts[i].pkt.data
  BY <1>1 DEF Data
<1>5. rx_packet.data \in Seq(Bytes)
  BY DEF LinkType, Receiving
<1>6. ASSUME NEW i \in 1 .. Len(valid_pkts) PROVE valid_pkts[i].pkt.data \in Seq(Bytes)
  <2>1. valid_pkts[i] \in Pushed
    BY ElementOfSeq DEF LinkType
  <2>2. QED
    BY <2>1 DEF Pushed, Completed
<1>7. QED
  BY <1>1, <1>2, <1>3, <1>4, <1>5, <1>6 DEF DataIs

\* Data E whose bytes are those of D, each at most once, and a new one.
Carried(D, E, old, z, n, b) ==
    /\ \A i \in DOMAIN E : \A k \in DOMAIN E[i] :
          E[i][k] # Garbage =>
              \/ /\ old[i] \in DOMAIN D /\ k \in DOMAIN D[old[i]]
                 /\ E[i][k] = D[old[i]][k]
              \/ i = z /\ k = n /\ E[i][k] = b
    /\ \A i, j \in DOMAIN E : old[i] = old[j] => i = j

LEMMA OnceCarried ==
    ASSUME NEW D, NEW E, NEW old, NEW z, NEW n, NEW b, Carried(D, E, old, z, n, b),
           Once(D), AllPassed(D), b # Garbage => ~Passed(b)
    PROVE  /\ Once(E)
           /\ \A i \in DOMAIN E : \A k \in DOMAIN E[i] :
                 E[i][k] # Garbage => Passed(E[i][k]) \/ E[i][k] = b
<1>1. ASSUME NEW i \in DOMAIN E, NEW k \in DOMAIN E[i], E[i][k] # Garbage
      PROVE  \/ /\ old[i] \in DOMAIN D /\ k \in DOMAIN D[old[i]]
                /\ E[i][k] = D[old[i]][k] /\ Passed(E[i][k])
             \/ i = z /\ k = n /\ E[i][k] = b /\ ~Passed(E[i][k])
  <2>1. ASSUME old[i] \in DOMAIN D, k \in DOMAIN D[old[i]], E[i][k] = D[old[i]][k]
        PROVE  Passed(E[i][k])
    BY <1>1, <2>1 DEF AllPassed
  <2>2. E[i][k] = b => ~Passed(E[i][k])
    BY <1>1
  <2>3. QED
    BY <1>1, <2>1, <2>2 DEF Carried
<1>2. ASSUME NEW i \in DOMAIN E, NEW j \in DOMAIN E, NEW k \in DOMAIN E[i],
             NEW l \in DOMAIN E[j], E[i][k] = E[j][l], E[i][k] # Garbage
      PROVE  i = j /\ k = l
  <2>1. CASE Passed(E[i][k])
    <3>1. /\ old[i] \in DOMAIN D /\ k \in DOMAIN D[old[i]] /\ E[i][k] = D[old[i]][k]
          /\ old[j] \in DOMAIN D /\ l \in DOMAIN D[old[j]] /\ E[j][l] = D[old[j]][l]
      BY <1>1, <1>2, <2>1
    <3>2. PICK m \in DOMAIN D, q \in DOMAIN D : m = old[i] /\ q = old[j]
      BY <3>1
    <3>3. k \in DOMAIN D[m] /\ l \in DOMAIN D[q] /\ D[m][k] = D[q][l] /\ D[m][k] # Garbage
      BY <1>2, <3>1, <3>2
    <3>4. m = q /\ k = l
      BY <3>3 DEF Once
    <3>5. QED
      BY <3>2, <3>4 DEF Carried
  <2>2. CASE ~Passed(E[i][k])
    BY <1>1, <1>2, <2>2
  <2>3. QED
    BY <2>1, <2>2
<1>3. QED
  BY <1>1, <1>2 DEF Once

LEMMA OnceStays ==
    ASSUME LinkType, OnceInv, [Next]_vars, NEW old, NEW z, NEW n, NEW b,
           Carried(Data, Data', old, z, n, b),
           b # Garbage => ~Passed(b) /\ Passed(b)'
    PROVE  OnceInv'
<1> HIDE DEF Data
<1>1. (air # Noise => air.id <= heard)'
  BY AirHeard DEF OnceInv
<1>2. PICK D : D = Data
  OBVIOUS
<1>3. PICK E : E = Data'
  OBVIOUS
<1>4. Once(D) /\ AllPassed(D) /\ Carried(D, E, old, z, n, b)
  BY <1>2, <1>3 DEF OnceInv
<1>5. /\ Once(E)
      /\ \A i \in DOMAIN E : \A k \in DOMAIN E[i] :
            E[i][k] # Garbage => Passed(E[i][k]) \/ E[i][k] = b
  BY <1>4, OnceCarried
<1>6. ASSUME NEW i \in DOMAIN E, NEW k \in DOMAIN E[i], E[i][k] # Garbage
      PROVE  Passed(E[i][k])'
  <2>1. CASE Passed(E[i][k])
    BY <2>1, StaysPassed
  <2>2. CASE E[i][k] = b
    <3>1. Passed(b)'
      BY <1>6, <2>2
    <3>2. QED
      BY <2>2, <3>1
  <2>3. QED
    BY <1>5, <1>6, <2>1, <2>2
<1>7. AllPassed(Data)'
  BY <1>3, <1>6 DEF AllPassed, Passed
<1>8. Once(Data)'
  BY <1>3, <1>5 DEF Once
<1>9. QED
  BY <1>1, <1>7, <1>8 DEF OnceInv

LEMMA OnceInit == Init => OnceInv
  BY EmptySeq DEF Init, OnceInv, Once, AllPassed, Data, R!EmptyPacket, R!Packet

LEMMA OnceStep == LinkType /\ OnceInv /\ [Next]_vars => OnceInv'
<1> SUFFICES ASSUME LinkType, OnceInv, [Next]_vars PROVE OnceInv'
  OBVIOUS
<1> DEFINE N == Len(valid_pkts)
<1>t. LinkType'
  BY LinkStepType
<1>d. /\ DOMAIN Data = 0 .. N /\ N \in Nat
      /\ Data[0] = rx_packet.data
      /\ \A i \in 1 .. N : Data[i] = valid_pkts[i].pkt.data
      /\ \A i \in DOMAIN Data : Data[i] \in Seq(Bytes)
  BY DataType DEF DataIs
<1>e. /\ DOMAIN Data' = 0 .. Len(valid_pkts')
      /\ Data'[0] = rx_packet'.data
      /\ \A i \in 1 .. Len(valid_pkts') : Data'[i] = valid_pkts'[i].pkt.data
  <2>1. DataIs'
    BY <1>t, DataType, PTL
  <2>2. QED
    BY <2>1 DEF DataIs
<1> HIDE DEF Data
<1>1. ASSUME UNCHANGED valid_pkts, rx_packet'.data \in {rx_packet.data, <<>>}
      PROVE  OnceInv'
  <2> DEFINE old == [i \in 0 .. N |-> i]
  <2>1. \A i \in DOMAIN Data' : \A k \in DOMAIN Data'[i] :
           old[i] \in DOMAIN Data /\ k \in DOMAIN Data[old[i]] /\ Data'[i][k] = Data[old[i]][k]
    BY <1>1, <1>d, <1>e
  <2>2. \A i, j \in DOMAIN Data' : old[i] = old[j] => i = j
    BY <1>1, <1>e
  <2>3. Carried(Data, Data', old, 0, 0, Garbage)
    BY <2>1, <2>2 DEF Carried
  <2> HIDE DEF old
  <2>4. QED
    BY <2>3, OnceStays
<1>2. ASSUME Receive, NEW b, Fresh(b), Extended(b) PROVE OnceInv'
  <2> DEFINE old == [i \in 0 .. N |-> i]
             d   == rx_packet.data
  <2>1. rx_packet'.data = d \o <<b>> /\ valid_pkts' = valid_pkts
    BY <1>2 DEF Extended, R!Packet
  <2>2. d \in Seq(Bytes) /\ b \in Bytes /\ <<b>> \in Seq(Bytes)
    BY <1>2, FreshBytes DEF LinkType, Receiving
  <2> HIDE DEF d
  <2>3. ASSUME NEW k \in DOMAIN (d \o <<b>>), (d \o <<b>>)[k] # Garbage
        PROVE  \/ k \in DOMAIN d /\ (d \o <<b>>)[k] = d[k]
               \/ k = Len(d) + 1 /\ (d \o <<b>>)[k] = b
    BY <2>2, <2>3, AppendBytes
  <2>4. ASSUME NEW i \in DOMAIN Data', NEW k \in DOMAIN Data'[i], Data'[i][k] # Garbage
        PROVE  \/ /\ old[i] \in DOMAIN Data /\ k \in DOMAIN Data[old[i]]
                  /\ Data'[i][k] = Data[old[i]][k]
               \/ i = 0 /\ k = Len(d) + 1 /\ Data'[i][k] = b
    <3>1. CASE i = 0
      <4>1. Data'[i] = d \o <<b>> /\ Data[old[i]] = d /\ old[i] \in DOMAIN Data
        BY <1>d, <1>e, <2>1, <3>1 DEF d
      <4>2. QED
        BY <2>3, <2>4, <3>1, <4>1
    <3>2. CASE i # 0
      BY <1>d, <1>e, <2>1, <3>2
    <3>3. QED
      BY <3>1, <3>2
  <2>5. \A i, j \in DOMAIN Data' : old[i] = old[j] => i = j
    BY <1>e, <2>1
  <2>6. b # Garbage => ~Passed(b) /\ Passed(b)'
    BY <1>2, FreshByte
  <2> HIDE DEF old
  <2>7. Carried(Data, Data', old, 0, Len(d) + 1, b)
    BY <2>4, <2>5 DEF Carried
  <2>8. QED
    BY <2>6, <2>7, OnceStays
<1>3. ASSUME Receive, NEW b, Fresh(b), NEW e \in {<<>>, <<b>>, <<b, Garbage>>}, Push(e)
      PROVE  OnceInv'
  <2> DEFINE old == [i \in 0 .. N + 1 |-> IF i = N + 1 THEN 0 ELSE IF i = 0 THEN -1 ELSE i]
             d   == rx_packet.data
  <2>1. d \in Seq(Bytes) /\ b \in Bytes /\ e \in Seq(Bytes)
    BY <1>3, FreshBytes DEF LinkType, Receiving
  <2>2. /\ [pkt |-> Whole(e), silent |-> silent] \in Pushed
        /\ Whole(e).data = d \o e
    BY <1>3, <2>1, WholeType DEF Push
  <2>3. /\ rx_packet'.data = <<>>
        /\ valid_pkts' = Append(valid_pkts, [pkt |-> Whole(e), silent |-> silent])
    BY <1>3 DEF Push, R!EmptyPacket, R!Packet
  <2>4. /\ Len(valid_pkts') = N + 1
        /\ \A i \in 1 .. N : valid_pkts'[i] = valid_pkts[i]
        /\ valid_pkts'[N + 1] = [pkt |-> Whole(e), silent |-> silent]
    BY <2>2, <2>3, AppendProperties DEF LinkType
  <2>5. /\ DOMAIN Data' = 0 .. N + 1 /\ Data'[0] = <<>> /\ Data'[N + 1] = d \o e
        /\ \A i \in 1 .. N : Data'[i] = Data[i]
    BY <1>d, <1>e, <2>2, <2>3, <2>4
  <2> HIDE DEF d, N
  <2>6. ASSUME NEW k \in DOMAIN (d \o e), (d \o e)[k] # Garbage
        PROVE  \/ k \in DOMAIN d /\ (d \o e)[k] = d[k]
               \/ k = Len(d) + 1 /\ (d \o e)[k] = b
    BY <1>3, <2>1, <2>6, AppendBytes
  <2>7. ASSUME NEW i \in DOMAIN Data', NEW k \in DOMAIN Data'[i], Data'[i][k] # Garbage
        PROVE  \/ /\ old[i] \in DOMAIN Data /\ k \in DOMAIN Data[old[i]]
                  /\ Data'[i][k] = Data[old[i]][k]
               \/ i = N + 1 /\ k = Len(d) + 1 /\ Data'[i][k] = b
    <3>1. CASE i = N + 1
      <4>1. Data'[i] = d \o e /\ Data[old[i]] = d /\ old[i] \in DOMAIN Data
        BY <1>d, <2>5, <3>1 DEF d
      <4>2. QED
        BY <2>6, <2>7, <3>1, <4>1
    <3>2. CASE i = 0
      BY <1>d, <2>5, <3>2
    <3>3. CASE i \in 1 .. N
      BY <1>d, <2>5, <3>3
    <3>4. QED
      BY <1>d, <2>5, <3>1, <3>2, <3>3
  <2>8. ASSUME NEW i \in DOMAIN Data', NEW j \in DOMAIN Data', old[i] = old[j]
        PROVE  i = j
    <3>1. N \in Nat /\ i \in 0 .. N + 1 /\ j \in 0 .. N + 1
      BY <1>d, <2>5 DEF N
    <3>2. \A x \in 0 .. N + 1 : old[x] = IF x = N + 1 THEN 0 ELSE IF x = 0 THEN -1 ELSE x
      OBVIOUS
    <3> HIDE DEF old
    <3>3. QED
      BY <2>8, <3>1, <3>2
  <2>9. b # Garbage => ~Passed(b) /\ Passed(b)'
    BY <1>3, FreshByte
  <2> HIDE DEF old
  <2>10. Carried(Data, Data', old, N + 1, Len(d) + 1, b)
    BY <2>7, <2>8 DEF Carried
  <2>11. QED
    BY <2>9, <2>10, OnceStays
<1>4. Kept => OnceInv'
  BY <1>1 DEF Kept
<1>5. Dropped => OnceInv'
  BY <1>1 DEF Dropped, R!EmptyPacket, R!Packet
<1>6. Bert => OnceInv'
  BY <1>1 DEF Bert, LinkType, Receiving
<1>7. ASSUME NEW l, Started(l) PROVE OnceInv'
  BY <1>1, <1>7 DEF Started, R!Packet
<1>8. QED
  BY <1>2, <1>3, <1>4, <1>5, <1>6, <1>7, ReceiveCases, OtherCases DEF Took

\* No byte of a transmission is pushed twice, not even by packets that a silent
\* loss of the lock has mixed.
THEOREM OnceTheorem == Spec => []PushedOnce
<1>1. LinkType /\ OnceInv => PushedOnce
  <2> SUFFICES ASSUME LinkType, OnceInv PROVE PushedOnce
    OBVIOUS
  <2>1. /\ DOMAIN valid_pkts \subseteq DOMAIN Data
        /\ \A i \in DOMAIN valid_pkts : Data[i] = valid_pkts[i].pkt.data
    BY DataType DEF DataIs
  <2> HIDE DEF Data
  <2>2. QED
    BY <2>1 DEF PushedOnce, OnceInv, Once
<1>2. Spec => []OnceInv
  BY OnceInit, OnceStep, LinkTyped, PTL DEF Spec
<1>3. QED
  BY <1>1, <1>2, LinkTyped, PTL

(***************************************************************************)
(* The addresses and the bytes of rx_packet belong together, unless the    *)
(* last lock was lost silently: without a lock it is empty, with one it    *)
(* takes the LSF of the transmission that is followed, or garbage.         *)
(***************************************************************************)
Of(l, d) == \A k \in DOMAIN d : d[k] # Garbage => l = LsfOf(d[k].tx)

SameInv ==
    /\ ~silent /\ demodState \notin {"LOCKED", "SYNC_UPDATE"} => rx_packet = R!EmptyPacket
    /\ ~silent /\ rx_packet.status = "LSF_RECEIVED" /\ rx_packet.lsf # GarbageLsf =>
           /\ Of(rx_packet.lsf, rx_packet.data)
           /\ air # Noise => rx_packet.lsf = LsfOf(air)
    /\ \A i \in DOMAIN valid_pkts :
           ~valid_pkts[i].silent => Of(valid_pkts[i].pkt.lsf, valid_pkts[i].pkt.data)

LEMMA SameInit == Init => SameInv
  BY DEF Init, DemodInit, SameInv, R!EmptyPacket, R!Packet

\* Without a new transmission, steps that keep or empty the packet.
LEMMA SameKept ==
    ASSUME LinkType, SameInv, valid_pkts' = valid_pkts,
           ~silent' =>
               \/ rx_packet' = R!EmptyPacket
               \/ /\ ~silent /\ rx_packet' = rx_packet
                  /\ demodState' \in {"LOCKED", "SYNC_UPDATE"}
                  /\ air' \in {air, Noise}
    PROVE  SameInv'
<1>1. R!EmptyPacket.status = "EMPTY"
  BY DEF R!EmptyPacket, R!Packet
<1>2. ASSUME ~silent', demodState' \notin {"LOCKED", "SYNC_UPDATE"}
      PROVE  rx_packet' = R!EmptyPacket
  BY <1>2
<1>3. ASSUME ~silent', rx_packet'.status = "LSF_RECEIVED", rx_packet'.lsf # GarbageLsf
      PROVE  /\ Of(rx_packet'.lsf, rx_packet'.data)
             /\ air' # Noise => rx_packet'.lsf = LsfOf(air')
  <2>1. ~silent /\ rx_packet' = rx_packet /\ air' \in {air, Noise}
    BY <1>1, <1>3
  <2>2. QED
    BY <1>3, <2>1 DEF SameInv
<1>4. (\A i \in DOMAIN valid_pkts :
           ~valid_pkts[i].silent => Of(valid_pkts[i].pkt.lsf, valid_pkts[i].pkt.data))'
  BY DEF SameInv, Of
<1>5. QED
  BY <1>2, <1>3, <1>4 DEF SameInv, Of

LEMMA SameReceive == LinkType /\ SameInv /\ Receive => SameInv'
<1> SUFFICES ASSUME LinkType, SameInv, Receive PROVE SameInv'
  OBVIOUS
<1>1. /\ demodState' = "SYNC_UPDATE" /\ demodState = "LOCKED" /\ air' = air
      /\ silent' = silent /\ pos' = pos
  BY DEF Receive, CompleteFrame
<1>2. ASSUME UNCHANGED valid_pkts,
             ~silent /\ rx_packet'.status = "LSF_RECEIVED" /\ rx_packet'.lsf # GarbageLsf =>
                /\ Of(rx_packet'.lsf, rx_packet'.data)
                /\ air # Noise => rx_packet'.lsf = LsfOf(air)
      PROVE  SameInv'
  <2>1. (\A i \in DOMAIN valid_pkts :
             ~valid_pkts[i].silent => Of(valid_pkts[i].pkt.lsf, valid_pkts[i].pkt.data))'
    BY <1>2 DEF SameInv, Of
  <2>2. QED
    BY <1>1, <1>2, <2>1 DEF SameInv, Of
<1>3. CASE Kept
  BY <1>2, <1>3 DEF Kept, SameInv
<1>4. CASE Dropped
  BY <1>2, <1>4 DEF Dropped, R!EmptyPacket, R!Packet
<1>5. CASE Bert
  BY <1>2, <1>5 DEF Bert, LinkType, Receiving
<1>6. CASE Started(GarbageLsf)
  BY <1>2, <1>6 DEF Started, R!Packet
<1>7. CASE air # Noise /\ Started(LsfOf(air))
  BY <1>2, <1>7 DEF Started, R!Packet, Of
<1>8. ASSUME NEW b, Fresh(b), NEW e \in {<<>>, <<b>>, <<b, Garbage>>},
             ~silent, rx_packet.status = "LSF_RECEIVED", rx_packet.lsf # GarbageLsf
      PROVE  Of(rx_packet.lsf, rx_packet.data \o e)
  <2> DEFINE d == rx_packet.data
  <2>1. d \in Seq(Bytes) /\ b \in Bytes /\ e \in Seq(Bytes)
    BY <1>8, FreshBytes DEF LinkType, Receiving
  <2>2. Of(rx_packet.lsf, d)
    BY <1>8 DEF SameInv
  <2>3. b # Garbage => rx_packet.lsf = LsfOf(b.tx)
    BY <1>8 DEF SameInv, Fresh, ByteOf
  <2> HIDE DEF d
  <2>4. ASSUME NEW k \in DOMAIN (d \o e), (d \o e)[k] # Garbage
        PROVE  rx_packet.lsf = LsfOf((d \o e)[k].tx)
    <3>1. \/ k \in DOMAIN d /\ (d \o e)[k] = d[k]
          \/ (d \o e)[k] = b
      BY <1>8, <2>1, <2>4, AppendBytes
    <3>2. QED
      BY <2>2, <2>3, <2>4, <3>1 DEF Of
  <2>5. QED
    BY <2>4 DEF Of, d
<1>9. ASSUME NEW b, Fresh(b), Extended(b) PROVE SameInv'
  <2>1. /\ rx_packet'.lsf = rx_packet.lsf /\ rx_packet'.data = rx_packet.data \o <<b>>
        /\ UNCHANGED valid_pkts /\ rx_packet.status = "LSF_RECEIVED"
    BY <1>9 DEF Extended, R!Packet
  <2>2. ~silent /\ rx_packet.lsf # GarbageLsf =>
            /\ Of(rx_packet'.lsf, rx_packet'.data)
            /\ air # Noise => rx_packet'.lsf = LsfOf(air)
    BY <1>8, <1>9, <2>1 DEF SameInv
  <2>3. QED
    BY <1>2, <2>1, <2>2
<1>10. ASSUME NEW b, Fresh(b), NEW e \in {<<>>, <<b>>, <<b, Garbage>>}, Push(e) PROVE SameInv'
  <2> DEFINE new == [pkt |-> Whole(e), silent |-> silent]
             N   == Len(valid_pkts)
  <2>1. e \in Seq(Bytes) /\ rx_packet.status = "LSF_RECEIVED"
    BY <1>10, FreshBytes DEF Push
  <2>2. new \in Pushed /\ Whole(e).data = rx_packet.data \o e /\ Whole(e).lsf = rx_packet.lsf
    BY <2>1, WholeType
  <2>3. rx_packet.lsf # GarbageLsf
    BY <1>10 DEF Push, GarbageLsf
  <2>4. ~silent => Of(Whole(e).lsf, Whole(e).data)
    BY <1>8, <1>10, <2>1, <2>2, <2>3
  <2>5. new.pkt = Whole(e) /\ new.silent = silent
    OBVIOUS
  <2>6. ~new.silent => Of(new.pkt.lsf, new.pkt.data)
    BY <2>4, <2>5
  <2> HIDE DEF new
  <2>7. /\ DOMAIN valid_pkts' = 1 .. N + 1 /\ N \in Nat /\ DOMAIN valid_pkts = 1 .. N
        /\ \A i \in 1 .. N : valid_pkts'[i] = valid_pkts[i]
        /\ valid_pkts'[N + 1] = new
    BY <1>10, <2>2, AppendProperties, LenProperties DEF Push, LinkType, new
  <2>8. ASSUME NEW i \in DOMAIN valid_pkts', ~valid_pkts'[i].silent
        PROVE  Of(valid_pkts'[i].pkt.lsf, valid_pkts'[i].pkt.data)
    <3>1. CASE i = N + 1
      BY <2>6, <2>7, <2>8, <3>1
    <3>2. CASE i \in 1 .. N
      <4>1. valid_pkts'[i] = valid_pkts[i] /\ i \in DOMAIN valid_pkts
        BY <2>7, <3>2
      <4>2. ~valid_pkts[i].silent
        BY <2>8, <4>1
      <4>3. QED
        BY <4>1, <4>2 DEF SameInv
    <3>3. QED
      BY <2>7, <3>1, <3>2
  <2>9. rx_packet' = R!EmptyPacket /\ rx_packet'.status # "LSF_RECEIVED"
    BY <1>10 DEF Push, R!EmptyPacket, R!Packet
  <2>10. QED
    BY <1>1, <2>8, <2>9 DEF SameInv, Of
<1>11. QED
  BY <1>3, <1>4, <1>5, <1>6, <1>7, <1>9, <1>10, ReceiveCases DEF Took

LEMMA SameStep == LinkType /\ SameInv /\ [Next]_vars => SameInv'
<1> SUFFICES ASSUME LinkType, SameInv, [Next]_vars PROVE SameInv'
  OBVIOUS
<1>1. CASE Receive
  BY <1>1, SameReceive
<1>2. ASSUME NoNewFrame, ~silent' => ~silent,
             demodState \notin {"LOCKED", "SYNC_UPDATE"}
      PROVE  SameInv'
  BY <1>2, SameKept DEF NoNewFrame, SameInv
<1>3. CASE Quiet
  BY <1>2, <1>3 DEF Quiet, Initialise, Listen, NoPeak
<1>4. CASE Hear
  BY <1>2, <1>4 DEF Hear, FindPeak
<1>5. CASE HearNoise
  BY <1>2, <1>5 DEF HearNoise, FindPeak
<1>6. CASE Confirm
  BY <1>2, <1>6 DEF Confirm, Lock
<1>7. CASE Reject
  BY <1>2, <1>7 DEF Reject, RejectPeak
<1>8. ASSUME NEW right, Follow(right) PROVE air' \in {air, Noise}
  BY <1>8 DEF Follow, Leave
<1>9. CASE NextSync
  BY <1>8, <1>9, SameKept DEF NextSync, FindSync, NoNewFrame
<1>10. CASE MissSync
  BY <1>8, <1>10, SameKept DEF MissSync, GuessSync, NoNewFrame
<1>11. CASE HearEot
  BY <1>11, SameKept DEF HearEot, FindEot, Returns, NoNewFrame
<1>12. CASE GuessEot
  BY <1>12, SameKept DEF GuessEot, GuessSync, CountMiss, Returns, NoNewFrame
<1>13. CASE LoseSilently
  BY <1>13, SameKept DEF LoseSilently, NoNewFrame
<1>14. CASE UNCHANGED vars
  BY <1>14 DEF vars, linkVars, demodVars, SameInv, Of
<1>15. QED
  BY <1>1, <1>3, <1>4, <1>5, <1>6, <1>7, <1>9, <1>10, <1>11, <1>12, <1>13, <1>14 DEF Next

THEOREM SameInvariance == Spec => []SameInv
<1>1. QED
  BY SameInit, SameStep, LinkTyped, PTL DEF Spec

\* A packet's addresses are those of the station its bytes came from, unless the
\* lock before was lost without an end-of-transmission.
THEOREM SameTheorem == Spec => []SameTransmission
<1>1. SameInv => SameTransmission
  BY DEF SameInv, Of, SameTransmission
<1>2. QED
  BY <1>1, SameInvariance, PTL

(***************************************************************************)
(* What is heard intact is pushed.                                         *)
(***************************************************************************)
FirstOf(tx, k)  == [i \in 1 .. k |-> ByteOf(tx, i)]
Collected(k)    == R!Packet("LSF_RECEIVED", LsfOf(air), FirstOf(air, k), k - 1)
LastIsWhole     ==
    /\ valid_pkts # <<>>
    /\ valid_pkts[Len(valid_pkts)].pkt
         = R!Packet("PKT_COMPLETE", LsfOf(air), BytesOf(air), air.n - 1)

\* As long as all frames of the transmission were decoded as they were sent,
\* the packet holds the frames passed.
HeardInv ==
    ~silent /\ clean /\ air # Noise /\ air.kind = "PACKET" =>
        /\ demodState \in {"SYNCED", "LOCKED"} /\ pos = 0 => rx_packet = R!EmptyPacket
        /\ demodState = "LOCKED" /\ pos > 0 => rx_packet = Collected(pos - 1)
        /\ demodState = "SYNC_UPDATE" /\ pos < air.n => rx_packet = Collected(pos)
        /\ demodState = "SYNC_UPDATE" /\ pos = air.n => LastIsWhole

LEMMA FirstAnd ==
    ASSUME NEW tx \in Tx, NEW k \in Nat
    PROVE  /\ FirstOf(tx, k) \in Seq(Bytes) /\ <<ByteOf(tx, k + 1)>> \in Seq(Bytes)
           /\ FirstOf(tx, k) \o <<ByteOf(tx, k + 1)>> = FirstOf(tx, k + 1)
<1>1. \A i \in Nat : ByteOf(tx, i) \in Bytes
  BY DEF ByteOf, Bytes
<1> HIDE DEF Bytes
<1>2. FirstOf(tx, k) \in Seq(Bytes) /\ Len(FirstOf(tx, k)) = k
  BY <1>1 DEF FirstOf
<1>3. FirstOf(tx, k + 1) \in Seq(Bytes) /\ Len(FirstOf(tx, k + 1)) = k + 1
  BY <1>1 DEF FirstOf
<1>4. <<ByteOf(tx, k + 1)>> \in Seq(Bytes) /\ Len(<<ByteOf(tx, k + 1)>>) = 1
      /\ <<ByteOf(tx, k + 1)>>[1] = ByteOf(tx, k + 1)
  BY <1>1
<1> DEFINE s == FirstOf(tx, k) \o <<ByteOf(tx, k + 1)>>
<1>5. s \in Seq(Bytes) /\ Len(s) = k + 1
      /\ \A i \in 1 .. k + 1 : s[i] = IF i <= k THEN FirstOf(tx, k)[i]
                                      ELSE <<ByteOf(tx, k + 1)>>[i - k]
  BY <1>2, <1>4, ConcatProperties
<1>6. ASSUME NEW i \in 1 .. k + 1 PROVE s[i] = FirstOf(tx, k + 1)[i]
  <2>1. FirstOf(tx, k + 1)[i] = ByteOf(tx, i) /\ (i <= k => FirstOf(tx, k)[i] = ByteOf(tx, i))
    BY DEF FirstOf
  <2>2. i > k => i = k + 1 /\ i - k = 1
    OBVIOUS
  <2>3. QED
    BY <1>4, <1>5, <2>1, <2>2
<1>7. s = FirstOf(tx, k + 1)
  BY <1>3, <1>5, <1>6, SeqEqual
<1>8. QED
  BY <1>2, <1>4, <1>7

LEMMA HeardInit == Init => HeardInv
  BY DEF Init, HeardInv

\* A frame that is decoded as it was sent.
LEMMA HeardFrame ==
    ASSUME LinkType, HeardInv, ~silent, air # Noise, air.kind = "PACKET", clean,
           demodState = "LOCKED", air' = air, NewFrame(SentFrame(air, pos))
    PROVE  /\ pos < air.n => rx_packet' = Collected(pos)
           /\ pos = air.n => LastIsWhole'
<1>1. /\ air \in Tx /\ pos \in 0 .. air.n /\ air.n \in 1 .. MaxFrames
      /\ MaxFrames \in 1 .. 31
  BY LinkBoundAssumption DEF LinkType, Tx
<1> DEFINE f == SentFrame(air, pos)
           p == R!AddFrame(rx_packet, f)
<1>2. /\ rx_packet' = IF p.status \in {"ERROR", "PKT_COMPLETE"} THEN R!EmptyPacket ELSE p
      /\ valid_pkts' = IF p.status = "PKT_COMPLETE" /\ p.lsf # NoLsf /\ p.lsf.crc_ok
                         THEN Append(valid_pkts, [pkt |-> p, silent |-> silent])
                         ELSE valid_pkts
  BY DEF NewFrame, R!IsError, R!IsComplete, R!IsValid
<1>3. CASE pos = 0
  <2>1. f.sync = "LSF" /\ f.lsf = LsfOf(air)
    BY <1>1, <1>3 DEF SentFrame, R!LsfFrame
  <2>2. rx_packet = R!EmptyPacket
    BY <1>3 DEF HeardInv
  <2>3. p = R!Packet("LSF_RECEIVED", LsfOf(air), <<>>, -1)
    BY <2>1, <2>2 DEF R!AddFrame, R!Refuses, R!EmptyPacket, R!Packet
  <2>4. FirstOf(air, 0) = <<>>
    BY DEF FirstOf
  <2>5. p = Collected(0) /\ p.status = "LSF_RECEIVED"
    BY <2>3, <2>4 DEF Collected, R!Packet
  <2>6. QED
    BY <1>1, <1>2, <1>3, <2>5
<1>4. CASE pos > 0
  <2> DEFINE k == pos - 1
             b == <<ByteOf(air, pos)>>
  <2>1. k \in Nat /\ pos = k + 1 /\ k + 1 <= air.n /\ k <= 30
    BY <1>1, <1>4
  <2>2. rx_packet = Collected(k)
    BY <1>1, <1>4 DEF HeardInv
  <2>3. FirstOf(air, k) \o b = FirstOf(air, pos)
    BY <1>1, <2>1, FirstAnd
  <2>4. /\ rx_packet.status = "LSF_RECEIVED" /\ rx_packet.lsf = LsfOf(air)
        /\ rx_packet.data = FirstOf(air, k) /\ rx_packet.received_pkt_frames = k - 1
    BY <2>2 DEF Collected, R!Packet
  <2>5. CASE pos < air.n
    <3>1. f = R!PktFrame(4 * k, b)
      BY <1>1, <1>4, <2>5 DEF SentFrame
    <3>2. f.sync = "PKT" /\ f.meta = 4 * k /\ f.bytes = b
      BY <3>1 DEF R!PktFrame
    <3>3. ~R!IsLast(f) /\ R!NumberOf(f) = k
      <4>1. ((4 * k) \div 128) % 2 = 0 /\ ((4 * k) \div 4) % 32 = k
        BY <2>1
      <4>2. QED
        BY <3>2, <4>1 DEF R!IsLast, R!NumberOf
    <3> HIDE DEF f, k
    <3>4. R!FirstBytes(f, 1) = b
      BY <3>2 DEF R!FirstBytes
    <3>5. p = R!AddNextPkt(rx_packet, f)
      BY <2>4, <3>2, <3>3 DEF R!AddFrame, R!Refuses
    <3>6. R!NumberOf(f) = rx_packet.received_pkt_frames + 1
      BY <2>1, <2>4, <3>3
    <3>7. p = R!Packet("LSF_RECEIVED", LsfOf(air), FirstOf(air, pos), k)
      BY <2>1, <2>3, <2>4, <3>3, <3>4, <3>5, <3>6 DEF R!AddNextPkt
    <3>8. p = Collected(pos) /\ p.status = "LSF_RECEIVED"
      BY <3>7 DEF Collected, R!Packet, k
    <3>9. rx_packet' = Collected(pos)
      BY <1>2, <3>8
    <3>10. QED
      BY <1>1, <2>5, <3>9
  <2>6. CASE pos = air.n
    <3>1. f = R!PktFrame(132, b)
      BY <1>1, <1>4, <2>6 DEF SentFrame
    <3>2. f.sync = "PKT" /\ f.meta = 132 /\ f.bytes = b
      BY <3>1 DEF R!PktFrame
    <3>3. R!IsLast(f) /\ R!NumberOf(f) = 1
      BY <3>2 DEF R!IsLast, R!NumberOf
    <3> HIDE DEF f, k
    <3>4. R!FirstBytes(f, 1) = b
      BY <3>2 DEF R!FirstBytes
    <3>5. p = R!AddLastPkt(rx_packet, f)
      BY <2>4, <3>2, <3>3 DEF R!AddFrame, R!Refuses
    <3>6. p = R!Packet("PKT_COMPLETE", LsfOf(air), FirstOf(air, pos), k)
      <4>1. rx_packet.received_pkt_frames + 1 = k
        BY <2>1, <2>4
      <4>2. rx_packet.data \o R!FirstBytes(f, R!NumberOf(f)) = FirstOf(air, pos)
        BY <2>3, <2>4, <3>3, <3>4
      <4>3. QED
        BY <2>4, <3>5, <4>1, <4>2 DEF R!AddLastPkt
    <3>7. FirstOf(air, pos) = BytesOf(air) /\ k = air.n - 1
      BY <2>6 DEF FirstOf, BytesOf, k
    <3>8. p.status = "PKT_COMPLETE" /\ p.lsf # NoLsf /\ p.lsf.crc_ok
      BY <1>1, <3>6, NothingAssumption DEF R!Packet, LsfOf
    <3>9. valid_pkts' = Append(valid_pkts, [pkt |-> p, silent |-> silent])
      BY <1>2, <3>8
    <3> HIDE DEF p
    <3> DEFINE new == [pkt |-> p, silent |-> silent]
    <3>10. new.pkt = p
      OBVIOUS
    <3> HIDE DEF new
    <3>11. valid_pkts' # <<>> /\ valid_pkts'[Len(valid_pkts')] = new
      <4>1. valid_pkts \in Seq(Pushed \cup {new}) /\ new \in Pushed \cup {new}
        BY DEF LinkType
      <4>2. valid_pkts' = Append(valid_pkts, new)
        BY <3>9 DEF new
      <4>3. QED
        BY <4>1, <4>2, AppendProperties, LenProperties
    <3>12. LastIsWhole'
      BY <3>6, <3>7, <3>10, <3>11 DEF LastIsWhole
    <3>13. QED
      BY <1>1, <2>6, <3>12
  <2>7. QED
    BY <1>1, <2>5, <2>6
<1>5. QED
  BY <1>1, <1>3, <1>4

LEMMA HeardStep == LinkType /\ SameInv /\ HeardInv /\ [Next]_vars => HeardInv'
<1> SUFFICES ASSUME LinkType, SameInv, HeardInv, [Next]_vars PROVE HeardInv'
  OBVIOUS
<1>1. CASE Receive
  <2> SUFFICES ASSUME ~silent', clean', air' # Noise, air'.kind = "PACKET"
               PROVE  /\ demodState' = "SYNC_UPDATE"
                      /\ pos' < air'.n => rx_packet' = Collected(pos)'
                      /\ pos' = air'.n => LastIsWhole'
    BY DEF HeardInv
  <2>1. /\ demodState = "LOCKED" /\ demodState' = "SYNC_UPDATE"
        /\ air' = air /\ pos' = pos /\ silent' = silent
    BY <1>1 DEF Receive, CompleteFrame
  <2>2. PICK f \in Decodings : NewFrame(f) /\ clean' = (clean /\ Intact(f))
    BY <1>1 DEF Receive
  <2>3. clean /\ f = SentFrame(air, pos)
    BY <2>2 DEF Intact
  <2>4. /\ pos < air.n => rx_packet' = Collected(pos)
        /\ pos = air.n => LastIsWhole'
    BY <2>1, <2>2, <2>3, HeardFrame
  <2>5. QED
    BY <2>1, <2>4 DEF Collected
<1>2. CASE Hear
  <2>1. /\ ~silent' => rx_packet = R!EmptyPacket
        /\ NoNewFrame /\ silent' = silent /\ pos' = 0 /\ demodState' = "SYNCED"
    BY <1>2 DEF Hear, FindPeak, SameInv
  <2>2. QED
    BY <2>1 DEF HeardInv, NoNewFrame
<1>3. CASE Confirm
  <2>1. /\ demodState = "SYNCED" /\ demodState' = "LOCKED" /\ pos = 0
        /\ UNCHANGED <<air, pos, clean, silent>> /\ NoNewFrame
    BY <1>3 DEF Confirm, Lock, LinkType
  <2>2. QED
    BY <2>1 DEF HeardInv, NoNewFrame
<1>4. ASSUME NEW right, Follow(right), demodState = "SYNC_UPDATE", demodState' = "LOCKED",
             rx_packet' = rx_packet, silent' = silent
      PROVE  HeardInv'
  <2>1. CASE air # Noise /\ pos < air.n
    <3>1. /\ air' = air /\ pos' = pos + 1 /\ (clean' => clean) /\ pos \in Nat
          /\ pos' > 0 /\ pos' - 1 = pos
      BY <1>4, <2>1 DEF Follow, LinkType
    <3>2. Collected(pos' - 1) = Collected(pos)
      BY <3>1
    <3>3. QED
      BY <1>4, <2>1, <3>1, <3>2 DEF HeardInv, Collected
  <2>2. CASE ~(air # Noise /\ pos < air.n)
    BY <1>4, <2>2 DEF Follow, Leave, HeardInv
  <2>3. QED
    BY <2>1, <2>2
<1>5. CASE NextSync
  <2>1. /\ demodState = "SYNC_UPDATE" /\ demodState' = "LOCKED" /\ returned' = 0
        /\ silent' = silent /\ NoNewFrame
    BY <1>5 DEF NextSync, FindSync, Returns
  <2>2. rx_packet' = rx_packet
    BY <2>1 DEF NoNewFrame
  <2>3. Follow(TRUE)
    BY <1>5 DEF NextSync
  <2>4. QED
    BY <1>4, <2>1, <2>2, <2>3
<1>6. CASE MissSync
  BY <1>4, <1>6 DEF MissSync, GuessSync, CountMiss, NoNewFrame, Returns
<1>7. CASE Quiet \/ HearNoise
  <2>1. air' = Noise
    BY <1>7 DEF Quiet, HearNoise, Initialise, Listen, NoPeak, FindPeak, LinkType
  <2>2. QED
    BY <2>1 DEF HeardInv
<1>8. CASE Reject \/ HearEot \/ GuessEot \/ LoseSilently
  BY <1>8 DEF Reject, HearEot, GuessEot, LoseSilently, Leave, HeardInv
<1>9. CASE UNCHANGED vars
  BY <1>9 DEF vars, linkVars, demodVars, HeardInv, Collected, LastIsWhole
<1>10. QED
  BY <1>1, <1>2, <1>3, <1>5, <1>6, <1>7, <1>8, <1>9 DEF Next

\* A packet all of whose frames were decoded as they were sent is pushed as it
\* was sent, if the lock before ended with an end-of-transmission.
THEOREM HeardTheorem == Spec => []HeardIsPushed
<1>1. LinkType /\ HeardInv => HeardIsPushed
  <2> SUFFICES ASSUME LinkType, HeardInv, AllReceived, ~silent
               PROVE  /\ valid_pkts # <<>>
                      /\ valid_pkts[Len(valid_pkts)].pkt
                           = R!Packet("PKT_COMPLETE", LsfOf(air), BytesOf(air), air.n - 1)
    BY DEF HeardIsPushed
  <2>1. LastIsWhole
    BY DEF AllReceived, HeardInv
  <2>2. QED
    BY <2>1 DEF LastIsWhole
<1>2. Spec => []HeardInv
  BY HeardInit, HeardStep, LinkTyped, SameInvariance, PTL DEF Spec
<1>3. QED
  BY <1>1, <1>2, LinkTyped, PTL

LEMMA RecoversStep == LinkType /\ Recovers /\ [Next]_vars => Recovers'
<1> SUFFICES ASSUME LinkType, Recovers, [Next]_vars,
                    AllReceived', rx_packet'.status # "BERT"
             PROVE  rx_packet' = R!EmptyPacket
  BY DEF Recovers
<1>1. CASE Receive
  <2>1. PICK f \in Decodings : NewFrame(f) /\ clean' = (clean /\ Intact(f))
    BY <1>1 DEF Receive
  <2>0. air' = air /\ pos' = pos
    BY <1>1 DEF Receive
  <2>a. clean' /\ air # Noise /\ air.kind = "PACKET" /\ pos = air.n
    BY <2>0 DEF AllReceived
  <2>b. f = SentFrame(air, pos)
    BY <2>1, <2>a DEF Intact
  <2>2. /\ f = SentFrame(air, pos) /\ air \in Tx /\ air.kind = "PACKET" /\ pos = air.n
        /\ air.n > 0
    BY <2>a, <2>b DEF LinkType, Tx
  <2>3. f = R!PktFrame(128 + 4, <<ByteOf(air, pos)>>)
    BY <2>2 DEF SentFrame, Tx
  <2>4. f.sync = "PKT" /\ f.meta = 132
    BY <2>3 DEF R!PktFrame
  <2>5. R!IsLast(f)
    BY <2>4 DEF R!IsLast
  <2> DEFINE p == R!AddFrame(rx_packet, f)
  <2>6. rx_packet' = IF p.status \in {"ERROR", "PKT_COMPLETE"} THEN R!EmptyPacket ELSE p
    BY <2>1 DEF NewFrame, R!IsError, R!IsComplete
  <2>7. CASE rx_packet.status = "LSF_RECEIVED"
    <3>1. p = R!AddLastPkt(rx_packet, f)
      BY <2>4, <2>5, <2>7 DEF R!AddFrame, R!Refuses
    <3>2. QED
      BY <2>6, <3>1 DEF R!AddLastPkt, R!Packet
  <2>8. CASE rx_packet.status # "LSF_RECEIVED"
    <3>1. p = rx_packet
      BY <2>4, <2>8 DEF R!AddFrame, R!Refuses
    <3>2. QED
      BY <2>6, <2>8, <3>1 DEF LinkType, Receiving
  <2>9. QED
    BY <2>7, <2>8
<1>2. CASE UNCHANGED vars
  BY <1>2 DEF vars, linkVars, demodVars, AllReceived, Recovers
<1>3. demodState' = "SYNC_UPDATE"
  BY DEF AllReceived
<1>4. Receive \/ UNCHANGED vars
  BY <1>3 DEF Next, Quiet, Initialise, Listen, NoPeak, Hear, HearNoise, FindPeak, Confirm,
     Lock, Reject, RejectPeak, NextSync, FindSync, HearEot, FindEot, MissSync, GuessEot,
     GuessSync, LoseSilently, LoseLock
<1>5. QED
  BY <1>1, <1>2, <1>4

\* When a packet heard intact ends, nothing an earlier lock left is in rx_packet.
THEOREM RecoversTheorem == Spec => []Recovers
<1>1. Init => Recovers
  BY DEF Init, DemodInit, Recovers, AllReceived
<1>2. QED
  BY <1>1, RecoversStep, LinkTyped, PTL DEF Spec

(***************************************************************************)
(* A packet is pushed at most once for a correlation peak: the LSF it      *)
(* needs is received behind a peak only.                                   *)
(***************************************************************************)
LsfHeld == IF rx_packet.status = "LSF_RECEIVED" /\ rx_packet.lsf # GarbageLsf THEN 1 ELSE 0
LsfDue  == IF demodState \in {"SYNCED", "LOCKED"} /\ pos = 0 /\ air # Noise THEN 1 ELSE 0

CountInv == Len(valid_pkts) + LsfHeld + LsfDue <= heard

\* What a step leaves to be heard.
LEMMA DueStep ==
    LinkType /\ [Next]_vars =>
        \/ heard' = heard /\ LsfDue' <= LsfDue
        \/ heard' = heard + 1 /\ LsfDue = 0
<1> SUFFICES ASSUME LinkType, [Next]_vars
             PROVE  \/ heard' = heard /\ LsfDue' <= LsfDue
                    \/ heard' = heard + 1 /\ LsfDue = 0
  OBVIOUS
<1>1. ASSUME NEW right, Follow(right) PROVE heard' = heard /\ LsfDue' = 0
  BY <1>1 DEF Follow, Leave, LsfDue, LinkType
<1>2. Leave => heard' = heard /\ LsfDue' = 0
  BY DEF Leave, LsfDue
<1>3. CASE Hear \/ HearNoise
  BY <1>3 DEF Hear, HearNoise, FindPeak, LsfDue
<1>4. Quiet => heard' = heard /\ LsfDue' = 0
  BY DEF Quiet, Initialise, Listen, NoPeak, LsfDue
<1>5. CASE Confirm
  BY <1>5 DEF Confirm, Lock, LsfDue
<1>6. CASE Receive
  BY <1>6 DEF Receive, CompleteFrame, LsfDue
<1>7. CASE UNCHANGED vars
  BY <1>7 DEF vars, linkVars, demodVars, LsfDue
<1>8. Reject \/ HearEot \/ GuessEot \/ LoseSilently => heard' = heard /\ LsfDue' = 0
  BY <1>2 DEF Reject, HearEot, GuessEot, LoseSilently
<1>9. NextSync \/ MissSync => heard' = heard /\ LsfDue' = 0
  BY <1>1 DEF NextSync, MissSync
<1>10. LsfDue \in {0, 1}
  BY DEF LsfDue
<1>11. QED
  BY <1>3, <1>4, <1>5, <1>6, <1>7, <1>8, <1>9, <1>10 DEF Next

LEMMA CountStep == LinkType /\ CountInv /\ [Next]_vars => CountInv'
<1> SUFFICES ASSUME LinkType, CountInv, [Next]_vars PROVE CountInv'
  OBVIOUS
<1> DEFINE N == Len(valid_pkts)
           H == LsfHeld
           D == LsfDue
<1>a. N \in Nat /\ heard \in Nat
  BY LenProperties DEF LinkType
<1>b. H \in {0, 1} /\ D \in {0, 1} /\ D' \in {0, 1}
  BY DEF LsfHeld, LsfDue
<1>1. N \in Nat /\ heard \in Nat /\ H \in {0, 1} /\ D \in {0, 1} /\ D' \in {0, 1}
      /\ N + H + D <= heard
  BY <1>a, <1>b DEF CountInv
<1>2. (heard' = heard /\ D' <= D) \/ (heard' = heard + 1 /\ D = 0)
  BY DueStep
<1>3. N' + H' <= N + H /\ N' \in Nat /\ H' \in {0, 1} => CountInv'
  <2> SUFFICES ASSUME N' + H' <= N + H, N' \in Nat, H' \in {0, 1} PROVE CountInv'
    OBVIOUS
  <2>1. CASE heard' = heard /\ D' <= D
    BY <1>1, <2>1 DEF CountInv
  <2>2. CASE heard' = heard + 1 /\ D = 0
    BY <1>1, <2>2 DEF CountInv
  <2>3. QED
    BY <1>2, <2>1, <2>2
<1>4. H' \in {0, 1}
  BY DEF LsfHeld
<1>5. CASE Kept \/ Dropped
  <2>1. N' = N /\ H' <= H
    BY <1>5 DEF Kept, Dropped, LsfHeld, R!EmptyPacket, R!Packet
  <2>2. QED
    BY <1>1, <1>3, <1>4, <2>1
<1>6. CASE Receive
  <2>1. heard' = heard /\ D' = 0 /\ (pos = 0 /\ air # Noise => D = 1)
    BY <1>6 DEF Receive, CompleteFrame, LsfDue
  <2>2. CASE Bert \/ Started(GarbageLsf)
    <3>1. N' = N /\ H' = 0
      BY <2>2 DEF Bert, Started, LsfHeld, R!Packet, LinkType, Receiving
    <3>2. QED
      BY <1>1, <1>3, <3>1
  <2>3. CASE air # Noise /\ pos = 0 /\ Started(LsfOf(air))
    <3>1. N' = N /\ D = 1
      BY <2>1, <2>3 DEF Started
    <3>2. N' + H' + D' <= heard'
      BY <1>1, <1>4, <2>1, <3>1
    <3>3. QED
      BY <3>2 DEF CountInv
  <2>4. ASSUME NEW b, Extended(b) PROVE CountInv'
    <3>1. N' = N /\ H' <= H
      BY <2>4 DEF Extended, LsfHeld, R!Packet
    <3>2. QED
      BY <1>1, <1>3, <1>4, <3>1
  <2>5. ASSUME NEW b, Fresh(b), NEW e \in {<<>>, <<b>>, <<b, Garbage>>}, Push(e)
        PROVE  CountInv'
    <3>1. N' = N + 1
      BY <2>5, FreshBytes, WholeType, AppendProperties DEF Push, LinkType
    <3>2. H = 1 /\ H' = 0
      BY <2>5 DEF Push, LsfHeld, GarbageLsf, R!EmptyPacket, R!Packet
    <3>3. QED
      BY <1>1, <1>3, <3>1, <3>2
  <2>6. QED
    BY <1>5, <1>6, <2>2, <2>3, <2>4, <2>5, ReceiveCases DEF Took
<1>7. QED
  BY <1>5, <1>6, OtherCases

\* The counters stay in their ranges; no more packets are pushed than there were
\* correlation peaks.
THEOREM LinkTypeTheorem == Spec => []TypeOK
<1>1. Init => CountInv
  <2> SUFFICES ASSUME Init PROVE CountInv
    OBVIOUS
  <2>1. Len(valid_pkts) = 0 /\ heard = 0 /\ LsfDue = 0 /\ LsfHeld = 0
    BY DEF Init, DemodInit, LsfDue, LsfHeld, R!EmptyPacket, R!Packet
  <2>2. QED
    BY <2>1 DEF CountInv
<1>2. LinkType /\ CountInv => TypeOK
  <2> SUFFICES ASSUME LinkType, CountInv PROVE TypeOK
    OBVIOUS
  <2>1. Len(valid_pkts) <= MaxPeaks
    <3>1. /\ Len(valid_pkts) \in Nat /\ heard \in 0 .. MaxPeaks
          /\ LsfHeld \in {0, 1} /\ LsfDue \in {0, 1}
      BY LenProperties DEF LinkType, LsfHeld, LsfDue
    <3>2. QED
      BY <3>1, LinkBoundAssumption DEF CountInv
  <2>2. pos \in 0 .. MaxFrames
    <3>1. /\ air \in Tx \cup {Noise} /\ pos \in Nat
          /\ IF air = Noise THEN pos = 0 ELSE pos <= air.n
      BY DEF LinkType
    <3>2. CASE air = Noise
      BY <3>1, <3>2, LinkBoundAssumption
    <3>3. CASE air # Noise
      <4>1. air \in Tx /\ pos <= air.n
        BY <3>1, <3>3
      <4>2. air.n \in 0 .. MaxFrames
        BY <4>1, LinkBoundAssumption DEF Tx
      <4>3. QED
        BY <3>1, <4>1, <4>2, LinkBoundAssumption
    <3>4. QED
      BY <3>2, <3>3
  <2>3. /\ rx_packet.status \in {"EMPTY", "LSF_RECEIVED", "BERT"}
        /\ rx_packet.received_pkt_frames \in -1 .. MaxFrames
    BY DEF LinkType, Receiving
  <2>4. DemodTypeOK /\ air \in Tx \cup {Noise} /\ heard \in 0 .. MaxPeaks
    BY DEF LinkType, DemodInv
  <2>5. clean \in BOOLEAN /\ silent \in BOOLEAN
    BY DEF LinkType
  <2>6. QED
    BY <2>1, <2>2, <2>3, <2>4, <2>5 DEF TypeOK
<1>3. Spec => []CountInv
  BY <1>1, CountStep, LinkTyped, PTL DEF Spec
<1>4. QED
  BY <1>2, <1>3, LinkTyped, PTL

\* In the link, too, a lost signal holds the lock for four frames at most.
THEOREM LinkDeadSignalTheorem == Spec => []DeadSignalBounded
<1>1. Init => DemodInit
  BY DEF Init
<1>2. Spec => DemodSpec
  BY <1>1, DemodStep, PTL DEF Spec, DemodSpec
<1>3. QED
  BY <1>2, DeadSignalTheorem
=============================================================================
