------------------------ MODULE Transmission_proofs ------------------------
(***************************************************************************)
(* Proofs about a packet on its way to the air (src/m17tx.cpp), for        *)
(* packets of every size: the segmentation of the constructor and the      *)
(* reassembly of add_frame are inverse, the polyphase interpolator returns *)
(* the convolution of the symbols with the filter at every sample, and the *)
(* transmit loop of src/radio_thread.cpp sends it to its end.              *)
(***************************************************************************)
EXTENDS Transmission, SequenceTheorems, TLAPS

(***************************************************************************)
(* Segmentation and reassembly.                                            *)
(***************************************************************************)
Counting(n) == [k \in 1 .. n |-> k - 1]

\* The receiver after n frames of a superframe that is not complete.
Partial(n) == R!Packet("LSF_RECEIVED", Lsf, Counting(25 * n), n - 1)

\* Where the loop stands before a round: the first frame has one byte less
\* room for the packet because the specifier is in it.
LoopInv ==
    /\ size \in 2 .. 824
    /\ index_i < size
    /\ rx = Partial(frame_number)
    /\ \/ /\ frame_number = 0 /\ index_i = 0 /\ index_o = 1
          /\ pkt_data[0] = 0
       \/ /\ frame_number > 0 /\ index_o = 25
          /\ index_i = 25 * frame_number - 1

IndInv == /\ TypeOK
          /\ pc = "check" => /\ index_i = 0 /\ index_o = 1 /\ frame_number = 0
                             /\ pkt_data[0] = 0
                             /\ rx = R!EmptyPacket
          /\ pc = "segment" => LoopInv
          /\ RoundTrip

\* Appending the next bytes of the count to a prefix of it.
LEMMA CountingConcat ==
    ASSUME NEW n \in Nat, NEW m \in Nat, NEW b, b = [i \in 1 .. m |-> n + i - 1]
    PROVE  Counting(n) \o b = Counting(n + m)
<1>1. Counting(n) \in Seq(Int) /\ Len(Counting(n)) = n
  BY DEF Counting
<1>2. b \in Seq(Int) /\ Len(b) = m
  OBVIOUS
<1>3. Counting(n + m) \in Seq(Int) /\ Len(Counting(n + m)) = n + m
  BY DEF Counting
<1>4. /\ Counting(n) \o b \in Seq(Int)
      /\ Len(Counting(n) \o b) = n + m
      /\ \A k \in 1 .. (n + m) : (Counting(n) \o b)[k]
                                  = IF k <= n THEN Counting(n)[k] ELSE b[k - n]
  BY <1>1, <1>2, ConcatProperties
<1>5. ASSUME NEW k \in 1 .. (n + m)
      PROVE  (Counting(n) \o b)[k] = Counting(n + m)[k]
  <2>1. Counting(n + m)[k] = k - 1
    BY DEF Counting
  <2>2. k <= n => Counting(n)[k] = k - 1
    BY DEF Counting
  <2>3. k > n => b[k - n] = k - 1
    OBVIOUS
  <2>4. QED
    BY <1>4, <2>1, <2>2, <2>3
<1>6. QED
  BY <1>3, <1>4, <1>5, SeqEqual

\* A frame that is not the last extends the partial packet.
LEMMA AddNext ==
    ASSUME NEW n \in 0 .. 31, NEW bytes,
           bytes = [i \in 1 .. 25 |-> 25 * n + i - 1]
    PROVE  R!AddFrame(Partial(n), R!PktFrame((4 * n) % 256, bytes)) = Partial(n + 1)
<1> DEFINE f == R!PktFrame((4 * n) % 256, bytes)
<1>1. f.sync = "PKT" /\ f.meta = 4 * n /\ f.bytes = bytes
  BY DEF R!PktFrame
<1> HIDE DEF f
<1>2. ~R!IsLast(f) /\ R!NumberOf(f) = n
  BY <1>1 DEF R!IsLast, R!NumberOf
<1>3. R!FirstBytes(f, 25) = bytes
  BY <1>1 DEF R!FirstBytes
<1>4. ~R!Refuses(Partial(n), f)
  BY <1>1 DEF R!Refuses, Partial, R!Packet
<1>5. R!AddFrame(Partial(n), f) = R!AddNextPkt(Partial(n), f)
  BY <1>1, <1>2, <1>4 DEF R!AddFrame
<1>6. Counting(25 * n) \o bytes = Counting(25 * (n + 1))
  <2>1. 25 * n \in Nat /\ 25 * n + 25 = 25 * (n + 1)
    OBVIOUS
  <2>2. QED
    BY <2>1, CountingConcat
<1>7. R!AddNextPkt(Partial(n), f) = Partial(n + 1)
  <2>1. /\ Partial(n).received_pkt_frames + 1 = n
        /\ Partial(n).data = Counting(25 * n)
    BY DEF Partial, R!Packet
  <2>2. R!AddNextPkt(Partial(n), f)
          = R!Packet("LSF_RECEIVED", Lsf, Counting(25 * (n + 1)), n)
    BY <1>2, <1>3, <1>6, <2>1 DEF R!AddNextPkt, R!Packet, Partial
  <2>3. (n + 1) - 1 = n
    OBVIOUS
  <2>4. QED
    BY <2>2, <2>3 DEF Partial
<1>8. QED
  BY <1>5, <1>7 DEF f

\* The last frame completes it; the padding behind count bytes is dropped.
LEMMA AddLast ==
    ASSUME NEW n \in 0 .. 32, NEW count \in 1 .. 25, NEW bytes,
           \A i \in 1 .. count : bytes[i] = 25 * n + i - 1
    PROVE  R!AddFrame(Partial(n), R!PktFrame(128 + ((4 * count) % 128), bytes))
             = R!Packet("PKT_COMPLETE", Lsf, Counting(25 * n + count), n)
<1> DEFINE f == R!PktFrame(128 + ((4 * count) % 128), bytes)
<1>1. f.sync = "PKT" /\ f.meta = 128 + 4 * count /\ f.bytes = bytes
  BY DEF R!PktFrame
<1> HIDE DEF f
<1>2. R!IsLast(f) /\ R!NumberOf(f) = count
  BY <1>1 DEF R!IsLast, R!NumberOf
<1>3. R!FirstBytes(f, count) = [i \in 1 .. count |-> 25 * n + i - 1]
  BY <1>1 DEF R!FirstBytes
<1>4. ~R!Refuses(Partial(n), f)
  BY <1>1 DEF R!Refuses, Partial, R!Packet
<1>5. R!AddFrame(Partial(n), f) = R!AddLastPkt(Partial(n), f)
  BY <1>1, <1>2, <1>4 DEF R!AddFrame
<1>6. Counting(25 * n) \o R!FirstBytes(f, count) = Counting(25 * n + count)
  <2>1. 25 * n \in Nat /\ count \in Nat
    OBVIOUS
  <2>2. QED
    BY <1>3, <2>1, CountingConcat
<1>7. R!AddLastPkt(Partial(n), f)
        = R!Packet("PKT_COMPLETE", Lsf, Counting(25 * n + count), n)
  <2>1. /\ Partial(n).received_pkt_frames + 1 = n
        /\ Partial(n).data = Counting(25 * n)
    BY DEF Partial, R!Packet
  <2>2. QED
    BY <1>2, <1>6, <2>1 DEF R!AddLastPkt, R!Packet, Partial
<1>8. QED
  BY <1>5, <1>7 DEF f

LEMMA InitInv == Init => IndInv
  BY SizesAssumption DEF Init, IndInv, TypeOK, RoundTrip, R!EmptyPacket, R!Packet

LEMMA BeginInv == IndInv /\ Begin => IndInv'
<1> SUFFICES ASSUME IndInv, Begin PROVE IndInv'
  OBVIOUS
<1>1. rx' = Partial(0)
  <2>1. rx = R!EmptyPacket
    BY DEF IndInv, Begin
  <2>2. Counting(0) = <<>> /\ 25 * 0 = 0
    BY DEF Counting
  <2>3. rx' = R!Packet("LSF_RECEIVED", Lsf, <<>>, -1)
    BY <2>1 DEF Begin, R!AddFrame, R!Refuses, R!LsfFrame, R!EmptyPacket, R!Packet
  <2>4. QED
    BY <2>2, <2>3 DEF Partial
<1>2. TypeOK'
  BY <1>1 DEF IndInv, Begin, TypeOK, Partial, R!Packet
<1>3. LoopInv'
  BY <1>1 DEF IndInv, Begin, LoopInv, MaxIpSize, TypeOK
<1>4. QED
  BY <1>2, <1>3 DEF IndInv, Begin, RoundTrip

LEMMA SegmentInv == IndInv /\ Segment => IndInv'
<1> SUFFICES ASSUME IndInv, Segment PROVE IndInv'
  OBVIOUS
<1> DEFINE n     == frame_number
           o     == index_o % 25
           len   == Smaller(size - index_i, 25 - o)
           last  == index_i + len >= size
           bytes == [i \in 1 .. 25 |-> pkt_data'[i - 1]]
<1>1. LoopInv /\ TypeOK
  BY DEF IndInv, Segment
<1>2. /\ size \in 2 .. 824 /\ n \in 0 .. 32 /\ index_i \in Nat /\ index_i < size
      /\ index_i + 1 = 25 * n + o
      /\ o = IF n = 0 THEN 1 ELSE 0
      /\ n = 0 => pkt_data[0] = 0
  BY <1>1 DEF LoopInv, TypeOK
<1>3. /\ len \in 1 .. 25 /\ o + len \in 1 .. 25
      /\ ~last => /\ o + len = 25 /\ n <= 31
                  /\ index_i + len = 25 * (n + 1) - 1 /\ index_i + len < size
      /\ last => index_i + len = size /\ 25 * n + (o + len) = size + 1
  BY <1>2 DEF Smaller
<1>4. /\ index_i' = index_i + len /\ index_o' = o + len
      /\ pkt_data' = Filled(o, len, last)
      /\ rx' = R!AddFrame(rx, R!PktFrame(Meta(o + len, last), bytes))
      /\ pc' = IF last THEN "done" ELSE "segment"
      /\ frame_number' = n + 1 /\ size' = size
  BY <1>2 DEF Segment
<1>5. \A i \in 1 .. (o + len) : bytes[i] = 25 * n + i - 1
  <2> SUFFICES ASSUME NEW i \in 1 .. (o + len) PROVE bytes[i] = 25 * n + i - 1
    OBVIOUS
  <2>1. i \in 1 .. 25 /\ i - 1 \in 0 .. 24 /\ bytes[i] = Filled(o, len, last)[i - 1]
    BY <1>3, <1>4
  <2>2. CASE i - 1 >= o
    BY <1>2, <1>3, <2>1, <2>2 DEF Filled
  <2>3. CASE i - 1 < o
    <3>1. n = 0 /\ o = 1 /\ i = 1
      BY <1>2, <2>3
    <3>2. Filled(o, len, last)[0] = pkt_data[0]
      BY <1>3, <3>1 DEF Filled
    <3>3. QED
      BY <1>2, <2>1, <3>1, <3>2
  <2>4. QED
    BY <1>2, <2>2, <2>3
<1>6. pkt_data' \in [0 .. 24 -> Int \cup {Pad}]
  <2>1. pkt_data \in [0 .. 24 -> Int \cup {Pad}] /\ o \in Int /\ index_i \in Int
    BY <1>1, <1>2 DEF TypeOK
  <2> HIDE DEF o, len, last
  <2>2. ASSUME NEW k \in 0 .. 24
        PROVE  (IF k \in o .. (o + len - 1) THEN index_i + (k - o) + 1
                ELSE IF last /\ k >= o + len THEN Pad ELSE pkt_data[k])
                 \in Int \cup {Pad}
    BY <2>1
  <2>3. QED
    BY <1>4, <2>2 DEF Filled
<1>7. rx = Partial(n)
  BY <1>1 DEF LoopInv
<1> HIDE DEF n, o, len, last, bytes
<1>8. CASE ~last
  <2>1. bytes = [i \in 1 .. 25 |-> 25 * n + i - 1]
    BY <1>3, <1>5, <1>8 DEF bytes
  <2>2. Meta(o + len, last) = (4 * n) % 256
    BY <1>8 DEF Meta, n
  <2>3. rx' = Partial(n + 1)
    BY <1>2, <1>3, <1>4, <1>7, <1>8, <2>1, <2>2, AddNext
  <2>4. TypeOK'
    BY <1>1, <1>2, <1>3, <1>4, <1>6, <1>8, <2>3 DEF TypeOK, Partial, R!Packet
  <2>5. LoopInv'
    BY <1>2, <1>3, <1>4, <1>8, <2>3 DEF LoopInv
  <2>6. QED
    BY <1>4, <1>8, <2>4, <2>5 DEF IndInv, RoundTrip
<1>9. CASE last
  <2>1. Meta(o + len, last) = 128 + ((4 * (o + len)) % 128)
    BY <1>9 DEF Meta
  <2>2. rx' = R!Packet("PKT_COMPLETE", Lsf, Counting(25 * n + (o + len)), n)
    <3>1. \A m \in 0 .. 32, c \in 1 .. 25 : \A b :
             (\A i \in 1 .. c : b[i] = 25 * m + i - 1)
               => R!AddFrame(Partial(m), R!PktFrame(128 + ((4 * c) % 128), b))
                    = R!Packet("PKT_COMPLETE", Lsf, Counting(25 * m + c), m)
      BY AddLast
    <3>2. rx' = R!AddFrame(Partial(n), R!PktFrame(128 + ((4 * (o + len)) % 128), bytes))
      BY <1>4, <1>7, <2>1
    <3>3. n \in 0 .. 32 /\ o + len \in 1 .. 25
      BY <1>2, <1>3
    <3>4. QED
      BY <1>5, <3>1, <3>2, <3>3
  <2>3. /\ rx'.status = "PKT_COMPLETE" /\ rx'.received_pkt_frames = n
        /\ rx'.data = Counting(size + 1)
    BY <1>3, <1>9, <2>2 DEF R!Packet
  <2>4. TypeOK'
    <3>1. pc' = "done" /\ index_i' \in Nat /\ size' \in Nat
      BY <1>2, <1>3, <1>4, <1>9
    <3>2. index_o' \in 0 .. 25 /\ frame_number' \in 0 .. 255
      BY <1>2, <1>3, <1>4
    <3>3. QED
      BY <1>6, <2>3, <3>1, <3>2 DEF TypeOK
  <2>5. RoundTrip'
    <3>1. rx'.data = [k \in 1 .. size' + 1 |-> k - 1]
      BY <1>4, <2>3 DEF Counting
    <3>2. rx'.received_pkt_frames + 1 = frame_number' /\ frame_number' <= 33
      BY <1>2, <1>4, <2>3
    <3>3. QED
      BY <2>3, <3>1, <3>2 DEF RoundTrip
  <2>6. QED
    BY <1>4, <1>9, <2>4, <2>5 DEF IndInv
<1>10. QED
  BY <1>8, <1>9

LEMMA StepInv == IndInv /\ [Next]_vars => IndInv'
<1> SUFFICES ASSUME IndInv, [Next]_vars PROVE IndInv'
  OBVIOUS
<1>1. CASE Begin
  BY <1>1, BeginInv
<1>2. CASE Segment
  BY <1>2, SegmentInv
<1>3. CASE Throw
  BY <1>3 DEF Throw, IndInv, TypeOK, RoundTrip
<1>4. CASE UNCHANGED vars
  BY <1>4 DEF vars, IndInv, TypeOK, LoopInv, RoundTrip
<1>5. QED
  BY <1>1, <1>2, <1>3, <1>4 DEF Next, Terminated

\* The loop invariant of the constructor, tied to the receiver's state.
THEOREM Invariance == Spec => []IndInv
<1>1. QED
  BY InitInv, StepInv, PTL DEF Spec

\* The indices stay within the frame and the counters within their widths.
THEOREM TypeCorrect == Spec => []TypeOK
<1>1. IndInv => TypeOK
  BY DEF IndInv
<1>2. QED
  BY <1>1, Invariance, PTL

\* Half way through a superframe the receiver holds exactly the bytes cut.
THEOREM PrefixTheorem == Spec => []PrefixReceived
<1>1. IndInv => PrefixReceived
  BY DEF IndInv, LoopInv, PrefixReceived, Partial, R!Packet, Counting
<1>2. QED
  BY <1>1, Invariance, PTL

\* A packet of any size up to 822 bytes crosses a perfect channel unchanged.
THEOREM RoundTripTheorem == Spec => []RoundTrip
<1>1. IndInv => RoundTrip
  BY DEF IndInv
<1>2. QED
  BY <1>1, Invariance, PTL

(***************************************************************************)
(* The interpolator and the transmit loop.                                 *)
(***************************************************************************)
\* The number of the symbol that filt_buff[0] holds, or would hold.
Newest == first + sym_idx - 1

\* The entry of the buffer that is j symbols old.
Held(j) == IF Newest - j >= 0 /\ Newest - j < first + nsym THEN Newest - j ELSE None

\* What relates the three counters of the interpolator and its buffer.
BufferInv ==
    /\ first \in Nat /\ nsym \in Nat \ {0}
    /\ sym_idx \in Nat \ {0} /\ emitted \in Nat
    /\ filt_offset \in 0 .. N - 1
    /\ N * Newest = emitted + filt_offset
    /\ filt_buff \in [Slots -> Nat \cup {None}]
    /\ \A j \in Slots : filt_buff[j] = Held(j)

\* A counter of samples per block, of blocks and of the samples sent.
BlockInv ==
    /\ bb_samples = emitted /\ emitted <= Limit
    /\ blocks \in Nat /\ stale \in Nat /\ got \in Nat /\ room \in Nat
    /\ loop \in {"asking", "filling"} => stale = 0
    /\ loop = "asking" => /\ room = 0 /\ emitted < Limit
                          /\ block_size * blocks = emitted
    /\ loop = "filling" => /\ block_size * blocks + got = emitted
                           /\ got + room <= block_size
                           /\ room > 0 => emitted < Limit /\ got + room = block_size
                           /\ room = 0 => got > 0 /\ (got = block_size \/ emitted = Limit)
    /\ loop = "sent" => /\ emitted = Limit /\ stale < block_size
                        /\ block_size * blocks = emitted + stale

TxInv ==
    /\ loop \in {"building", "asking", "filling", "sent"}
    /\ frame_number \in Nat
    /\ loop = "building" => Constructed /\ blocks = 0 /\ stale = 0
    /\ loop /= "building" => BufferInv /\ BlockInv

USE DEF N, nb_taps, Slots, None, block_size, SYM_PER_FRA

\* The constructor loads symbol 0 into a buffer of zeros: m17tx_pkt's
\* filt_buff[0] = symbols[0] and sym_idx = 1.
LEMMA LoadBuffer ==
    ASSUME Constructed, NEW n \in Nat \ {0}, Load(n)
    PROVE  BufferInv'
<1> DEFINE b == filt_buff
<1>1. b = [j \in Slots |-> None] /\ first = 0 /\ emitted = 0 /\ filt_offset = 0
  BY DEF Constructed
<1>2. /\ first' = 0 /\ nsym' = n /\ sym_idx' = 1 /\ emitted' = 0 /\ filt_offset' = 0
      /\ filt_buff' = [j \in Slots |-> IF j = 0 THEN 0 ELSE -1]
  <2>1. filt_buff' = [b EXCEPT ![0] = 0]
    BY <1>1 DEF Load
  <2>2. QED
    BY <1>1, <2>1 DEF Load
<1>3. Newest' = 0
  BY <1>2 DEF Newest
<1>4. \A j \in Slots : filt_buff'[j] = Held(j)'
  BY <1>2, <1>3 DEF Held
<1>5. filt_buff' \in [Slots -> Nat \cup {None}]
  BY <1>2
<1>6. QED
  BY <1>2, <1>3, <1>4, <1>5 DEF BufferInv

\* One sample of get_baseband_samples keeps counters and buffer in step: a
\* symbol comes in exactly when the offset wraps.
LEMMA AdvanceBuffer ==
    ASSUME BufferInv, Push
    PROVE  BufferInv'
<1>1. /\ first \in Nat /\ nsym \in Nat \ {0} /\ sym_idx \in Nat \ {0}
      /\ emitted \in Nat /\ filt_offset \in 0 .. 19
      /\ 20 * Newest = emitted + filt_offset
      /\ filt_buff \in [Slots -> Nat \cup {None}]
      /\ \A j \in Slots : filt_buff[j] = Held(j)
  BY DEF BufferInv
<1>2. first' = first /\ nsym' = nsym /\ emitted' = emitted + 1
  BY DEF Push
<1>3. CASE filt_offset = 0
  <2>1. /\ filt_buff' = [j \in Slots |-> IF j = 0 THEN NextSymbol ELSE filt_buff[j - 1]]
        /\ sym_idx' = sym_idx + 1 /\ filt_offset' = 19
    BY <1>3 DEF Push, Advance
  <2>2. Newest' = Newest + 1 /\ Newest \in Nat
    BY <1>1, <1>2, <2>1 DEF Newest
  <2>3. NextSymbol \in Nat \cup {None} /\ NextSymbol = Held(0)'
    BY <1>1, <1>2, <2>1, <2>2 DEF NextSymbol, Held, Newest
  <2>4. filt_buff' \in [Slots -> Nat \cup {None}]
    <3>1. \A j \in Slots : j /= 0 => filt_buff[j - 1] \in Nat \cup {None}
      BY <1>1
    <3>2. QED
      BY <2>1, <2>3, <3>1
  <2>5. \A j \in Slots : filt_buff'[j] = Held(j)'
    <3> SUFFICES ASSUME NEW j \in Slots
                 PROVE  filt_buff'[j] = Held(j)'
      OBVIOUS
    <3>1. CASE j = 0
      BY <2>1, <2>3, <3>1
    <3>2. CASE j /= 0
      <4>1. filt_buff'[j] = filt_buff[j - 1] /\ j - 1 \in Slots
        BY <2>1, <3>2
      <4>2. filt_buff[j - 1] = Held(j - 1)
        BY <1>1, <4>1
      <4>3. Held(j - 1) = Held(j)'
        BY <1>1, <1>2, <2>2 DEF Held
      <4>4. QED
        BY <4>1, <4>2, <4>3
    <3>3. QED
      BY <3>1, <3>2
  <2>6. QED
    BY <1>1, <1>2, <1>3, <2>1, <2>2, <2>4, <2>5 DEF BufferInv
<1>4. CASE filt_offset > 0
  <2>1. /\ filt_offset' = filt_offset - 1 /\ filt_buff' = filt_buff
        /\ sym_idx' = sym_idx
    BY <1>1, <1>4 DEF Push, Advance
  <2>2. Newest' = Newest /\ \A j \in Slots : Held(j)' = Held(j)
    BY <1>2, <2>1 DEF Newest, Held
  <2>3. QED
    BY <1>1, <1>2, <1>4, <2>1, <2>2 DEF BufferInv
<1>5. QED
  BY <1>1, <1>3, <1>4

\* From the buffer's invariant: each tap of the filter meets the symbol that
\* the convolution has there.
LEMMA TapsMeetTheirSymbols ==
    ASSUME BufferInv
    PROVE  \A k \in 0 .. nb_taps - 1 : AtTap(k) = Due(k)
<1> SUFFICES ASSUME NEW k \in 0 .. 160
             PROVE  AtTap(k) = Due(k)
  OBVIOUS
<1>1. /\ first \in Nat /\ nsym \in Nat /\ emitted \in Nat /\ filt_offset \in 0 .. 19
      /\ Newest \in Int /\ 20 * Newest = emitted + filt_offset
  BY DEF BufferInv, Newest
<1>2. CASE (filt_offset + k) % 20 = 0
  <2> DEFINE j == (filt_offset + k) \div 20
  <2>1. j \in Slots /\ 20 * j = filt_offset + k
    BY <1>1, <1>2
  <2>2. 20 * (Newest - j) = emitted - k
    BY <1>1, <2>1
  <2>3. (emitted - k) % 20 = 0 /\ (emitted - k) \div 20 = Newest - j
    BY <1>1, <2>1, <2>2
  <2>4. emitted - k >= 0 <=> Newest - j >= 0
    BY <1>1, <2>1, <2>2
  <2>5. AtTap(k) = Held(j)
    BY <1>2, <2>1 DEF BufferInv, AtTap
  <2> HIDE DEF j
  <2>6. QED
    BY <2>3, <2>4, <2>5 DEF Held, Due
<1>3. CASE (filt_offset + k) % 20 /= 0
  <2>1. (emitted - k) % 20 /= 0
    BY <1>1, <1>3
  <2>2. QED
    BY <1>3, <2>1 DEF AtTap, Due
<1>4. QED
  BY <1>2, <1>3

\* A sample taken from the interpolator by the block being filled.
LEMMA SampleKeeps ==
    ASSUME TxInv, Sample
    PROVE  TxInv'
<1>1. /\ loop = "filling" /\ loop' = loop /\ room > 0
      /\ blocks' = blocks /\ stale' = stale /\ frame_number' = frame_number
      /\ Push /\ BufferInv /\ BlockInv /\ frame_number \in Nat
  BY DEF Sample, Push, TxInv, vars
<1>2. BufferInv'
  BY <1>1, AdvanceBuffer
<1>3. /\ bb_samples' = bb_samples + 1 /\ emitted' = emitted + 1 /\ got' = got + 1
      /\ room' = (IF bb_samples' >= Limit THEN 0 ELSE room - 1)
      /\ nsym' = nsym /\ nsym \in Nat
  BY <1>1 DEF Push, BufferInv
<1>4. Limit' = Limit /\ Limit \in Nat
  BY <1>3 DEF Limit
<1>5. /\ bb_samples = emitted /\ emitted \in Nat /\ emitted < Limit
      /\ blocks \in Nat /\ stale = 0 /\ got \in Nat /\ room \in Nat
      /\ 128 * blocks + got = emitted /\ got + room = 128
  BY <1>1 DEF BlockInv, BufferInv
<1>6. BlockInv'
  BY <1>1, <1>3, <1>4, <1>5 DEF BlockInv
<1>7. QED
  BY <1>1, <1>2, <1>6 DEF TxInv

LEMMA TxInvInit == TxInit => TxInv
BY DEF TxInit, Init, TxInv, Constructed

LEMMA TxInvNext == TxInv /\ [TxNext]_txVars => TxInv'
<1> SUFFICES ASSUME TxInv, [TxNext]_txVars
             PROVE  TxInv'
  OBVIOUS
<1>1. CASE Build
  <2>1. /\ loop = "building" /\ Constructed /\ frame_number \in Nat
        /\ blocks' = 0 /\ stale' = 0
    BY <1>1 DEF Build, TxInv
  <2>2. frame_number' \in Nat
    BY <1>1, <2>1 DEF Build, Begin, Throw, Segment
  <2>3. CASE pc' = "done"
    <3> DEFINE n == (frame_number' + 3) * 192
    <3>1. n \in Nat \ {0} /\ Load(n) /\ loop' = "asking"
      <4>1. Load(n) /\ loop' = "asking"
        BY <1>1, <2>3, Zenon DEF Build
      <4>2. \A x \in Nat : (x + 3) * 192 \in Nat \ {0}
        OBVIOUS
      <4>3. QED
        BY <2>2, <4>1, <4>2
    <3>2. BufferInv'
      BY <2>1, <3>1, LoadBuffer
    <3>3. /\ nsym' = n /\ bb_samples' = 0 /\ emitted' = 0 /\ room' = 0 /\ got' = 0
      BY <2>1, <3>1 DEF Load, call, Constructed
    <3>4. Limit' \in Nat /\ Limit' > 0
      BY <3>1, <3>3 DEF Limit
    <3>5. BlockInv'
      BY <2>1, <3>1, <3>3, <3>4 DEF BlockInv
    <3>6. QED
      BY <2>2, <3>1, <3>2, <3>5 DEF TxInv
  <2>4. CASE pc' /= "done"
    <3>1. loop' = "building" /\ position' = position /\ call' = call
      BY <1>1, <2>1, <2>4 DEF Build
    <3>2. Constructed'
      BY <2>1, <3>1 DEF Constructed, position, call
    <3>3. QED
      BY <2>1, <2>2, <3>1, <3>2 DEF TxInv
  <2>5. QED
    BY <2>3, <2>4
<1>2. CASE Ask
  <2>1. /\ loop = "asking" /\ loop' = "filling" /\ CallSamples(128)
        /\ blocks' = blocks /\ stale' = stale /\ frame_number' = frame_number
        /\ BufferInv /\ BlockInv /\ frame_number \in Nat
    BY <1>2 DEF Ask, TxInv, vars
  <2>2. BufferInv'
    BY <2>1 DEF CallSamples, position, BufferInv, Newest, Held
  <2>3. Limit' = Limit /\ emitted' = emitted /\ bb_samples' = bb_samples
        /\ room' = 128 /\ got' = 0
    BY <2>1 DEF CallSamples, position, Limit
  <2>4. BlockInv'
    BY <2>1, <2>3 DEF BlockInv, BufferInv
  <2>5. QED
    BY <2>1, <2>2, <2>4 DEF TxInv
<1>3. CASE Sample
  BY <1>3, SampleKeeps
<1>4. CASE Transmit
  <2>1. /\ loop = "filling" /\ room = 0 /\ blocks' = blocks + 1
        /\ stale' = stale + 128 - got
        /\ loop' = (IF Limit - bb_samples > 0 THEN "asking" ELSE "sent")
        /\ UNCHANGED <<first, nsym, bb_samples, sym_idx, filt_offset, filt_buff,
                       emitted, room, got, frame_number>>
        /\ BufferInv /\ BlockInv /\ frame_number \in Nat
    BY <1>4 DEF Transmit, baseband_samples_left, TxInv, vars, position, call
  <2>2. BufferInv'
    BY <2>1 DEF BufferInv, Newest, Held
  <2>3. Limit' = Limit /\ Limit \in Nat
    BY <2>1 DEF Limit, BufferInv
  <2>4. /\ bb_samples = emitted /\ emitted <= Limit /\ emitted \in Nat
        /\ blocks \in Nat /\ stale = 0 /\ got \in Nat
        /\ 128 * blocks + got = emitted /\ got <= 128
        /\ got > 0 /\ (got = 128 \/ emitted = Limit)
    BY <2>1 DEF BlockInv, BufferInv
  <2>5. stale' \in Nat /\ 128 * blocks' = emitted + stale' /\ stale' < 128
    BY <2>1, <2>4
  <2>6. CASE emitted < Limit
    <3>1. loop' = "asking" /\ stale' = 0
      BY <2>1, <2>3, <2>4, <2>6
    <3>2. BlockInv'
      BY <2>1, <2>3, <2>4, <2>5, <2>6, <3>1 DEF BlockInv
    <3>3. QED
      BY <2>1, <2>2, <3>1, <3>2 DEF TxInv
  <2>7. CASE emitted = Limit
    <3>1. loop' = "sent"
      BY <2>1, <2>3, <2>4, <2>7
    <3>2. BlockInv'
      BY <2>1, <2>3, <2>4, <2>5, <2>7, <3>1 DEF BlockInv
    <3>3. QED
      BY <2>1, <2>2, <3>1, <3>2 DEF TxInv
  <2>8. QED
    BY <2>3, <2>4, <2>6, <2>7
<1>5. CASE Stopped \/ UNCHANGED txVars
  <2>1. UNCHANGED <<vars, position, call, loop, blocks, stale>>
    BY <1>5 DEF Stopped, txVars
  <2>2. BufferInv' = BufferInv /\ BlockInv' = BlockInv /\ Constructed' = Constructed
    BY <2>1 DEF BufferInv, BlockInv, Constructed, Newest, Held, Limit, position, call
  <2>3. QED
    BY <2>1, <2>2 DEF TxInv, vars
<1>6. QED
  BY <1>1, <1>2, <1>3, <1>4, <1>5 DEF TxNext

\* From a packet of any size the interpolator returns, sample by sample, the
\* convolution of all its symbols with the filter: Transmission's run checks
\* Convolution for the sizes of OnAir, this holds it for every packet.
THEOREM ConvolutionTheorem == TxSpec => []Convolution
<1>1. TxInv => Convolution
  <2>1. CASE loop = "building"
    BY <2>1 DEF TxInv, Constructed, Convolution
  <2>2. CASE loop /= "building"
    BY <2>2, TapsMeetTheirSymbols DEF TxInv, Convolution
  <2>3. QED
    BY <2>1, <2>2
<1>2. QED
  BY <1>1, TxInvInit, TxInvNext, PTL DEF TxSpec

\* The transmit loop ends with the last symbol through the filter, pads the
\* last block only, and get_baseband_samples never meets the end of its
\* symbols (m17tx.cpp's break), for packets of every size.
THEOREM SentToTheEndTheorem == TxSpec => []SentToTheEnd
<1>1. TxInv => SentToTheEnd
  <2> SUFFICES ASSUME TxInv
               PROVE  SentToTheEnd
    OBVIOUS
  <2>1. CASE loop = "building"
    BY <2>1 DEF TxInv, Constructed, SentToTheEnd, NeverExhausted
  <2>2. CASE loop /= "building"
    <3>1. /\ BlockInv /\ nsym \in Nat \ {0} /\ emitted \in Nat
          /\ first \in Nat /\ sym_idx \in Nat
          /\ 20 * Newest = emitted + filt_offset
      BY <2>2 DEF TxInv, BufferInv
    <3>2. bb_samples = emitted /\ emitted <= Limit /\ stale \in Nat
      BY <3>1 DEF BlockInv
    <3>3. Limit = 20 * nsym + 80
      BY <3>1 DEF Limit
    <3>4. NeverExhausted
      BY <3>1, <3>2, <3>3 DEF NeverExhausted, Newest
    <3>5. stale > 0 => loop = "sent" /\ stale < 128
      BY <2>2, <3>1, <3>2 DEF BlockInv, TxInv
    <3>6. loop = "sent" => emitted = Limit /\ 128 * blocks = emitted + stale
      BY <3>1 DEF BlockInv
    <3>7. QED
      BY <3>1, <3>2, <3>3, <3>4, <3>5, <3>6 DEF SentToTheEnd, baseband_samples_left
  <2>3. QED
    BY <2>1, <2>2
<1>2. QED
  BY <1>1, TxInvInit, TxInvNext, PTL DEF TxSpec
=============================================================================
