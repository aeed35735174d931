-------------------------- MODULE BertLink_proofs --------------------------
(***************************************************************************)
(* Proofs about BertLink: a synchronised receiver of a bit error rate test *)
(* counts the errors exactly and one frame without errors synchronises it  *)
(* (src/m17rx.cpp), and the transmitter's stream (src/m17tx.cpp) is sent   *)
(* without a gap to its end, for frames of any length (161 bits or more to *)
(* synchronise), blocks of any size and any damage the channel does.       *)
(***************************************************************************)
EXTENDS BertLink, FiniteSetTheorems, SequenceTheorems, TLAPS

(***************************************************************************)
(* The transmitter.                                                        *)
(***************************************************************************)
Frames == [last : Nat, state : Nat]

\* The counters of the interpolator, and what each phase of the program's call
\* knows of them.  bb_samples is cleared with the symbols, up to N - 1 samples
\* before or behind the place where the new ones begin.
StreamInv ==
    /\ first \in Nat /\ nsym \in Nat /\ sym_idx \in Nat
    /\ bb_samples \in Nat /\ emitted \in Nat
    /\ room \in Nat /\ got \in Nat /\ want \in Int
    /\ filt_offset \in 0 .. N - 1 /\ eot_sent \in BOOLEAN
    /\ N * (first + sym_idx - 1) = emitted + filt_offset
    /\ emitted - N * first <= bb_samples
    /\ bb_samples < emitted - N * first + 2 * N
    /\ phase \in {"generating", "blocks", "block", "asking", "tail", "over"}
    /\ phase \in {"generating", "blocks", "block"} => ~eot_sent
    /\ phase \in {"generating", "blocks"} \/ (phase = "asking" /\ ~eot_sent)
         => sym_idx < nsym
    /\ phase = "block" => room + emitted <= N * (first + nsym - 1)
    /\ phase = "asking" => bb_samples <= Limit
    /\ phase = "tail" =>
         /\ eot_sent
         /\ bb_samples <= Limit \/ (bb_samples = Limit + 1 /\ got = 1)
         /\ room > 0 => /\ got + room = BlockSize
                        /\ bb_samples < Limit \/ (bb_samples = Limit /\ got = 0)
         /\ room = 0 => got = BlockSize \/ bb_samples >= Limit
    /\ phase = "over" => eot_sent /\ bb_samples \in {Limit, Limit + 1}

\* The frames still on the air, in order: none is out, and none is behind the
\* symbols made (of which the last are the end of transmission).
AirInv ==
    /\ air \in Seq(Frames) /\ bert_state \in Nat
    /\ \A i \in 1 .. Len(air) :
          /\ emitted <= N * air[i].last + nb_taps \div 2
          /\ air[i].last + (IF eot_sent THEN FrameSyms ELSE 0) < first + nsym
    /\ \A i, j \in 1 .. Len(air) : i < j => air[i].last < air[j].last

USE DEF N, nb_taps, Limit

LEMMA StreamInit == Init => StreamInv
<1> SUFFICES ASSUME Init PROVE StreamInv
  OBVIOUS
<1>1. /\ first = 0 /\ nsym = 2 * FrameSyms /\ bb_samples = 0 /\ sym_idx = 1
      /\ filt_offset = 0 /\ emitted = 0 /\ room = 0 /\ got = 0
      /\ eot_sent = FALSE /\ want = 0 /\ phase = "generating"
  BY DEF Init
<1>2. eot_sent \in BOOLEAN /\ ~eot_sent
  BY <1>1, Zenon
<1>3. nsym \in Nat /\ 2 <= nsym
  BY <1>1, BertAssumption
<1>4. QED
  BY <1>1, <1>2, <1>3 DEF StreamInv

LEMMA AirInit == Init => AirInv
<1> SUFFICES ASSUME Init PROVE AirInv
  OBVIOUS
<1> DEFINE f == [last |-> 2 * FrameSyms - 1, state |-> 1]
<1>1. f \in Frames
  BY BertAssumption DEF Frames
<1>2. air = <<f>>
  BY DEF Init, Frame
<1>3. air \in Seq(Frames) /\ Len(air) = 1 /\ air[1] = f
  BY <1>1, <1>2
<1>4. QED
  BY <1>1, <1>3, BertAssumption DEF Init, AirInv

\* A sample of a block or of the tail.
LEMMA SampleStreams ==
    ASSUME StreamInv, Sample
    PROVE  StreamInv'
<1>1. /\ phase \in {"block", "tail"} /\ phase' = phase /\ eot_sent' = eot_sent
      /\ want' = want /\ room > 0 /\ Advance
      /\ bb_samples' = bb_samples + 1 /\ emitted' = emitted + 1 /\ got' = got + 1
      /\ room' = (IF bb_samples' >= Limit THEN 0 ELSE room - 1)
      /\ first' = first /\ nsym' = nsym
  BY DEF Sample, Push, txVars
<1>2. /\ filt_offset' \in 0 .. 19 /\ sym_idx' \in Nat
      /\ 20 * (first' + sym_idx' - 1) = emitted' + filt_offset'
  <2>1. CASE filt_offset = 0
    BY <1>1, <2>1 DEF Advance, StreamInv
  <2>2. CASE filt_offset > 0
    <3>1. filt_offset' = filt_offset - 1 /\ sym_idx' = sym_idx
      BY <1>1, <2>2 DEF Advance, StreamInv
    <3>2. QED
      BY <1>1, <2>2, <3>1 DEF StreamInv
  <2>3. QED
    BY <2>1, <2>2 DEF StreamInv
<1>3. CASE phase = "block"
  BY <1>1, <1>2, <1>3 DEF StreamInv
<1>4. CASE phase = "tail"
  BY <1>1, <1>2, <1>4, BertAssumption DEF StreamInv
<1>5. QED
  BY <1>1, <1>3, <1>4

LEMMA StreamNext == StreamInv /\ [Next]_vars => StreamInv'
<1> SUFFICES ASSUME StreamInv, [Next]_vars
             PROVE  StreamInv'
  OBVIOUS
<1>1. CASE GenerateBit
  BY <1>1 DEF GenerateBit, StreamInv, position, call
<1>2. CASE Terminate
  BY <1>2, BertAssumption DEF Terminate, StreamInv, call
<1>3. CASE Ask
  BY <1>3, BertAssumption DEF Ask, StreamInv, position, call
<1>4. CASE AskTail
  BY <1>4, BertAssumption DEF AskTail, CallSamples, StreamInv, position
<1>5. CASE AskBlock
  <2> DEFINE n == IF SymbolsLeft <= want THEN SymbolsLeft ELSE want
  <2>1. /\ phase = "blocks" /\ phase' = "block" /\ want > 0
        /\ room' = n /\ got' = 0
        /\ UNCHANGED <<first, nsym, bb_samples, sym_idx, filt_offset, emitted, eot_sent, want>>
    BY <1>5 DEF AskBlock, CallSamples, position
  <2>2. n \in Nat /\ n <= 20 * (nsym - sym_idx)
    BY <2>1 DEF StreamInv, SymbolsLeft
  <2> HIDE DEF n
  <2>3. QED
    BY <2>1, <2>2 DEF StreamInv
<1>6. CASE EndBlock
  <2>1. /\ phase = "block" /\ room = 0 /\ want' = want - got
        /\ UNCHANGED <<filt_offset, emitted, room, got, eot_sent>>
    BY <1>6 DEF EndBlock, call
  <2>2. sym_idx <= nsym
    BY <2>1 DEF StreamInv
  <2>3. CASE sym_idx >= nsym /\ Refill /\ phase' = "generating"
    BY <2>1, <2>2, <2>3, BertAssumption DEF Refill, StreamInv
  <2>4. CASE /\ sym_idx < nsym /\ phase' = "blocks"
             /\ UNCHANGED <<first, nsym, sym_idx, bb_samples, air, made, gen>>
    BY <2>1, <2>4 DEF StreamInv
  <2>5. QED
    BY <1>6, <2>3, <2>4 DEF EndBlock
<1>7. CASE Return
  <2>1. UNCHANGED <<first, nsym, bb_samples, sym_idx, filt_offset, emitted, room, got,
                    eot_sent, want>>
    BY <1>7 DEF Return, position, call
  <2>2. CASE phase = "blocks" /\ want = 0 /\ phase' = "asking"
    BY <2>1, <2>2 DEF StreamInv
  <2>3. CASE phase = "tail" /\ room = 0 /\ phase' = IF got < BlockSize THEN "over" ELSE "asking"
    BY <2>1, <2>3, BertAssumption DEF StreamInv
  <2>4. QED
    BY <1>7, <2>2, <2>3 DEF Return
<1>8. CASE Sample
  BY <1>8, SampleStreams
<1>9. CASE HearBit
  BY <1>9 DEF HearBit, StreamInv, position, call, txVars
<1>10. CASE Over \/ UNCHANGED vars
  BY <1>10 DEF Over, StreamInv, vars, position, call, txVars
<1>11. QED
  BY <1>1, <1>2, <1>3, <1>4, <1>5, <1>6, <1>7, <1>8, <1>9, <1>10 DEF Next

LEMMA AirTyped ==
    ASSUME AirInv
    PROVE  /\ Len(air) \in Nat
           /\ \A i \in 1 .. Len(air) : air[i] \in Frames /\ air[i].last \in Nat
<1>1. \A i \in 1 .. Len(air) : air[i] \in Frames
  BY ElementOfSeq DEF AirInv
<1>2. \A f \in Frames : f.last \in Nat
  BY DEF Frames
<1>3. QED
  BY <1>1, <1>2, LenProperties DEF AirInv

LEMMA AirNext == StreamInv /\ AirInv /\ [Next]_vars => AirInv'
<1> SUFFICES ASSUME StreamInv, AirInv, [Next]_vars
             PROVE  AirInv'
  OBVIOUS
<1>1. ASSUME UNCHANGED <<air, emitted, first, nsym, eot_sent>>, bert_state' \in Nat
      PROVE  AirInv'
  BY <1>1 DEF AirInv
<1>2. CASE GenerateBit
  <2>1. bert_state' \in Nat
    BY <1>2 DEF GenerateBit, BertIter, Shift, Feedback, AirInv
  <2>2. QED
    BY <1>1, <1>2, <2>1 DEF GenerateBit, position, rxVars
<1>3. CASE Terminate
  <2>1. /\ ~eot_sent /\ eot_sent' = TRUE /\ nsym' = nsym + FrameSyms
        /\ UNCHANGED <<first, emitted, air, bert_state>>
        /\ first \in Nat /\ nsym \in Nat
    BY <1>3 DEF Terminate, StreamInv, rxVars
  <2>2. \A i \in 1 .. Len(air) : air[i].last < first + nsym /\ air[i].last \in Nat
    BY <2>1, AirTyped DEF AirInv
  <2>3. \A i \in 1 .. Len(air) : air[i].last + FrameSyms < first + nsym'
    BY <2>1, <2>2, BertAssumption
  <2>4. QED
    BY <2>1, <2>3 DEF AirInv
<1>4. CASE Ask \/ AskTail \/ AskBlock \/ Return \/ HearBit
  BY <1>1, <1>4 DEF Ask, AskTail, AskBlock, Return, HearBit, CallSamples, AirInv,
                    position, rxVars, txVars
<1>5. CASE EndBlock
  <2>1. UNCHANGED <<emitted, eot_sent, bert_state>> /\ phase = "block" /\ room = 0
    BY <1>5 DEF EndBlock
  <2>2. CASE UNCHANGED <<first, nsym, air>>
    BY <1>1, <2>1, <2>2 DEF AirInv
  <2>3. CASE sym_idx >= nsym /\ Refill
    <3> DEFINE f == [last |-> first + nsym + FrameSyms - 1, state |-> bert_state]
    <3>1. /\ air' = Append(air, f) /\ first' = first + nsym /\ nsym' = FrameSyms
          /\ ~eot_sent /\ emitted <= 20 * (first + nsym - 1)
          /\ first \in Nat /\ nsym \in Nat /\ emitted \in Nat
      BY <2>1, <2>3 DEF Refill, Frame, StreamInv
    <3>2. f \in Frames /\ f.last = first + nsym + FrameSyms - 1
      BY <3>1, BertAssumption DEF AirInv, Frames
    <3> HIDE DEF f
    <3>3. /\ air' \in Seq(Frames) /\ Len(air') = Len(air) + 1
          /\ \A i \in 1 .. Len(air) : air'[i] = air[i] /\ air[i] \in Frames
          /\ air'[Len(air) + 1] = f /\ Len(air) \in Nat
      BY <3>1, <3>2, AppendProperties DEF AirInv
    <3>4. \A i \in 1 .. Len(air) : /\ air[i].last \in Nat
                                   /\ emitted <= 20 * air[i].last + 80
                                   /\ air[i].last < first + nsym
      BY <3>1, <3>3 DEF AirInv, Frames
    <3>5. ASSUME NEW i \in 1 .. Len(air')
          PROVE  /\ emitted' <= 20 * air'[i].last + 80
                 /\ air'[i].last < first' + nsym'
      <4>1. CASE i = Len(air) + 1
        BY <2>1, <3>1, <3>2, <3>3, <4>1, BertAssumption
      <4>2. CASE i \in 1 .. Len(air)
        BY <2>1, <3>1, <3>3, <3>4, <4>2, BertAssumption
      <4>3. QED
        BY <3>3, <4>1, <4>2
    <3>6. ASSUME NEW i \in 1 .. Len(air'), NEW j \in 1 .. Len(air'), i < j
          PROVE  air'[i].last < air'[j].last
      <4>1. i \in 1 .. Len(air)
        BY <3>3, <3>6
      <4>2. CASE j = Len(air) + 1
        BY <3>1, <3>2, <3>3, <3>4, <4>1, <4>2, BertAssumption
      <4>3. CASE j \in 1 .. Len(air)
        BY <3>3, <3>6, <4>1, <4>3 DEF AirInv
      <4>4. QED
        BY <3>3, <4>2, <4>3
    <3>7. \A i \in 1 .. Len(air') :
             air'[i].last + (IF eot_sent' THEN FrameSyms ELSE 0) < first' + nsym'
      <4>1. \A i \in 1 .. Len(air') : air'[i].last \in Nat
        <5>1. \A i \in 1 .. Len(air') : air'[i] \in Frames
          BY <3>3, ElementOfSeq
        <5>2. QED
          BY <5>1 DEF Frames
      <4>2. QED
        BY <2>1, <3>1, <3>5, <4>1
    <3>8. bert_state' \in Nat
      BY <2>1 DEF AirInv
    <3>9. QED
      BY <3>3, <3>5, <3>6, <3>7, <3>8 DEF AirInv
  <2>4. QED
    BY <1>5, <2>2, <2>3 DEF EndBlock
<1>6. CASE Sample
  <2>1. /\ emitted' = emitted + 1 /\ emitted \in Nat
        /\ UNCHANGED <<first, nsym, eot_sent, bert_state>>
    BY <1>6 DEF Sample, Push, txVars, StreamInv
  <2>2. \A i \in 1 .. Len(air) : air[i] \in Frames /\ air[i].last \in Nat
    BY AirTyped
  <2>3. CASE air = <<>>
    <3>1. air' = air
      BY <1>6, <2>3 DEF Sample
    <3>2. QED
      BY <2>1, <2>3, <3>1 DEF AirInv
  <2>4. CASE air # <<>>
    <3>1. /\ Head(air) = air[1] /\ Len(air) \in Nat \ {0}
          /\ Tail(air) \in Seq(Frames) /\ Len(Tail(air)) = Len(air) - 1
          /\ \A i \in 1 .. Len(Tail(air)) : Tail(air)[i] = air[i + 1]
      BY <2>4, HeadTailProperties DEF AirInv
    <3>2. \A i \in 2 .. Len(air) : air[1].last + 1 <= air[i].last
      BY <2>2, <3>1 DEF AirInv
    <3>3. CASE IsOut(Head(air))
      <4>1. air' = Tail(air)
        BY <1>6, <2>4, <3>3 DEF Sample
      <4>2. emitted <= 20 * air[1].last + 80
        BY <3>1 DEF AirInv
      <4>3. \A i \in 2 .. Len(air) : emitted' <= 20 * air[i].last + 80
        BY <2>1, <2>2, <3>1, <3>2, <4>2
      <4>4. \A i \in 1 .. Len(air') : i + 1 \in 2 .. Len(air) /\ air'[i] = air[i + 1]
        BY <3>1, <4>1
      <4>5. QED
        BY <2>1, <3>1, <4>1, <4>3, <4>4 DEF AirInv
    <3>4. CASE ~IsOut(Head(air))
      <4>1. air' = air
        BY <1>6, <3>4 DEF Sample
      <4>2. emitted' <= 20 * air[1].last + 80
        BY <2>1, <2>2, <3>1, <3>4 DEF IsOut
      <4>3. \A i \in 1 .. Len(air) : emitted' <= 20 * air[i].last + 80
        BY <2>1, <2>2, <3>1, <3>2, <4>2
      <4>4. QED
        BY <2>1, <4>1, <4>3 DEF AirInv
    <3>5. QED
      BY <3>3, <3>4
  <2>5. QED
    BY <2>3, <2>4
<1>7. CASE Over \/ UNCHANGED vars
  BY <1>1, <1>7 DEF Over, AirInv, vars, position, txVars, rxVars
<1>8. QED
  BY <1>2, <1>3, <1>4, <1>5, <1>6, <1>7 DEF Next

\* The stream of a bit error rate test has no gap and no empty block, and ends
\* only behind its last frame and symbol: m17tx_bert::get_baseband_samples, for
\* blocks and frames of every size.
THEOREM StreamTheorem == Spec => []StreamWhole
<1>1. StreamInv /\ AirInv => StreamWhole
  <2> SUFFICES ASSUME StreamInv, AirInv
               PROVE  StreamWhole
    OBVIOUS
  <2>1. phase = "blocks" /\ want > 0 => SymbolsLeft > 0
    BY DEF StreamInv, SymbolsLeft
  <2>2. phase = "block" => room <= baseband_samples_left
    BY DEF StreamInv, baseband_samples_left
  <2>3. ASSUME phase = "over"
        PROVE  emitted > 20 * (first + nsym - 2) + 80 /\ air = <<>>
    <3>1. emitted > 20 * (first + nsym - 2) + 80 /\ eot_sent
      BY <2>3 DEF StreamInv
    <3>2. ~ (1 \in 1 .. Len(air))
      <4> SUFFICES ASSUME 1 \in 1 .. Len(air)
                   PROVE  FALSE
        OBVIOUS
      <4>1. /\ air[1] \in Frames /\ emitted <= 20 * air[1].last + 80
            /\ air[1].last + FrameSyms < first + nsym
        BY <3>1 DEF AirInv
      <4>2. QED
        BY <3>1, <4>1, BertAssumption DEF StreamInv, Frames
    <3>3. air = <<>>
      <4>1. Len(air) = 0
        BY <3>2 DEF AirInv
      <4>2. QED
        BY <4>1, EmptySeq DEF AirInv
    <3>4. QED
      BY <3>1, <3>3
  <2>4. NeverExhausted
    BY DEF StreamInv, NeverExhausted
  <2>5. QED
    BY <2>1, <2>2, <2>3, <2>4 DEF StreamWhole
<1>2. QED
  BY <1>1, StreamInit, AirInit, StreamNext, AirNext, PTL DEF Spec

(***************************************************************************)
(* The receiver.                                                           *)
(***************************************************************************)
Receivers == [bert_lfsr : Nat, bert_errcnt : Nat, bert_totcnt : Nat,
              bert_synccnt : Nat, bert_hist : SUBSET (0 .. HistoryLen - 1)]

\* The generator reads bits 4 and 8 of its register: of two that agree on the
\* lowest nine bits it makes the same next bit and the same next nine bits.
LEMMA LowBits ==
    ASSUME NEW a \in Nat, NEW b \in Nat, Same(a, b)
    PROVE  /\ Feedback(a) = Feedback(b) /\ Feedback(a) \in {0, 1}
           /\ \A bit \in {0, 1} : /\ Same(Shift(a, bit), Shift(b, bit))
                                  /\ Shift(a, bit) \in Nat
                                  /\ Shift(a, bit) % 2 = bit
<1> DEFINE Bit(n) == ((n \div 256) + (n \div 16)) % 2
<1>1. \A n \in Nat : (n % 512) \in Nat /\ Bit(n) = Bit(n % 512)
  <2> SUFFICES ASSUME NEW n \in Nat
               PROVE  (n % 512) \in Nat /\ Bit(n) = Bit(n % 512)
    OBVIOUS
  <2>1. PICK q \in Nat, s \in Nat : s = n % 512 /\ n = 512 * q + s /\ s < 512
    <3>1. /\ n = 512 * (n \div 512) + (n % 512)
          /\ (n \div 512) \in Nat /\ (n % 512) \in Nat /\ (n % 512) < 512
      OBVIOUS
    <3>2. QED
      BY <3>1
  <2>2. (n \div 256) = 2 * q + (s \div 256) /\ (n \div 16) = 32 * q + (s \div 16)
    BY <2>1
  <2>3. (s \div 256) \in Nat /\ (s \div 16) \in Nat
    BY <2>1
  <2>4. \A x, y \in Nat : ((2 * q + x) + (32 * q + y)) % 2 = (x + y) % 2
    BY <2>1
  <2>5. ((2 * q + (s \div 256)) + (32 * q + (s \div 16))) % 2
          = ((s \div 256) + (s \div 16)) % 2
    BY <2>3, <2>4
  <2>6. Bit(n) = Bit(s)
    BY <2>2, <2>5
  <2>7. QED
    BY <2>1, <2>6
<1>2. Feedback(a) = Bit(a) /\ Feedback(b) = Bit(b) /\ Feedback(a) \in {0, 1}
  BY DEF Feedback
<1>3. \A n \in Nat, bit \in {0, 1} : Shift(n, bit) \in Nat /\ Shift(n, bit) % 2 = bit
  BY DEF Shift
<1> HIDE DEF Bit
<1>5. Feedback(a) = Feedback(b)
  BY <1>1, <1>2 DEF Same
<1>6. \A bit \in {0, 1} : Same(Shift(a, bit), Shift(b, bit))
  <2> SUFFICES ASSUME NEW bit \in {0, 1}
               PROVE  Shift(a, bit) % 512 = Shift(b, bit) % 512
    BY DEF Same
  <2>1. /\ Shift(a, bit) % 512 = (2 * (a % 512) + bit) % 512
        /\ Shift(b, bit) % 512 = (2 * (b % 512) + bit) % 512
    <3>1. Shift(a, bit) % 512 = (2 * (a % 512) + bit) % 512
      BY DEF Shift
    <3>2. Shift(b, bit) % 512 = (2 * (b % 512) + bit) % 512
      BY DEF Shift
    <3>3. QED
      BY <3>1, <3>2
  <2>2. a % 512 = b % 512
    BY DEF Same
  <2>3. QED
    BY <2>1, <2>2
<1>7. QED
  BY <1>2, <1>3, <1>5, <1>6

\* The history of a receiver grows by one at most, and only by an error.
LEMMA HistoryGrows ==
    ASSUME NEW hist \in SUBSET (0 .. HistoryLen - 1), NEW err \in BOOLEAN
    PROVE  /\ HistoryWith(hist, err) \in SUBSET (0 .. HistoryLen - 1)
           /\ Cardinality(hist) \in Nat /\ Cardinality(HistoryWith(hist, err)) \in Nat
           /\ Cardinality(HistoryWith(hist, err))
                <= Cardinality(hist) + (IF err THEN 1 ELSE 0)
<1> DEFINE kept == hist \ {HistoryLen - 1}
           moved == {a + 1 : a \in kept}
<1>1. IsFiniteSet(hist) /\ IsFiniteSet(kept) /\ Cardinality(kept) <= Cardinality(hist)
  <2>1. IsFiniteSet(0 .. HistoryLen - 1)
    <3>1. 0 \in Int /\ HistoryLen - 1 \in Int
      BY DEF HistoryLen
    <3>2. QED
      BY <3>1, FS_Interval, Zenon
  <2>2. IsFiniteSet(hist)
    BY <2>1, FS_Subset
  <2>3. QED
    BY <2>2, FS_Subset
<1>2. IsFiniteSet(moved) /\ Cardinality(moved) <= Cardinality(kept)
  <2> DEFINE f == [a \in kept |-> a + 1]
  <2>1. f \in Surjection(kept, moved)
    BY DEF Surjection
  <2>2. QED
    BY <1>1, <2>1, FS_Surjection
<1>3. HistoryWith(hist, err) = IF err THEN moved \cup {0} ELSE moved
  BY DEF HistoryWith
<1>4. 0 \notin moved /\ moved \in SUBSET (0 .. HistoryLen - 1)
  BY DEF HistoryLen
<1>5. IsFiniteSet(moved \cup {0}) /\ Cardinality(moved \cup {0}) = Cardinality(moved) + 1
  BY <1>2, <1>4, FS_AddElement
<1>6. /\ Cardinality(hist) \in Nat /\ Cardinality(kept) \in Nat
      /\ Cardinality(moved) \in Nat /\ Cardinality(moved \cup {0}) \in Nat
  BY <1>1, <1>2, <1>5, FS_CardinalityType
<1>7. 0 \in 0 .. HistoryLen - 1
  BY DEF HistoryLen
<1> HIDE DEF moved, kept
<1>8. QED
  BY <1>1, <1>2, <1>3, <1>4, <1>5, <1>6, <1>7

\* A bit of either value leaves a receiver of the same shape.
LEMMA ReceiverStays ==
    ASSUME NEW r \in Receivers, NEW bit \in {0, 1}
    PROVE  AddBit(r, bit) \in Receivers
<1>1. /\ r.bert_lfsr \in Nat /\ r.bert_errcnt \in Nat /\ r.bert_totcnt \in Nat
      /\ r.bert_synccnt \in Nat /\ r.bert_hist \in SUBSET (0 .. HistoryLen - 1)
  BY DEF Receivers
<1>2. \A b \in {0, 1} : Shift(r.bert_lfsr, b) \in Nat
  BY <1>1 DEF Shift
<1>3. Feedback(r.bert_lfsr) \in {0, 1}
  BY <1>1 DEF Feedback
<1>4. CASE IsBertSynced(r)
  <2> DEFINE err == bit # Feedback(r.bert_lfsr)
             hist == HistoryWith(r.bert_hist, err)
             lost == Cardinality(hist) > bert_lockcnt
  <2>1. hist \in SUBSET (0 .. HistoryLen - 1)
    BY <1>1, HistoryGrows
  <2>2. AddBit(r, bit) = BertState(Shift(r.bert_lfsr, Feedback(r.bert_lfsr)),
                  r.bert_errcnt + (IF err THEN 1 ELSE 0), r.bert_totcnt + 1,
                  IF lost THEN bert_lockcnt ELSE 0, IF lost THEN {} ELSE hist)
    BY <1>4 DEF AddBit, CountBit
  <2> HIDE DEF err, hist, lost
  <2>3. QED
    BY <1>1, <1>2, <1>3, <2>1, <2>2 DEF BertState, Receivers, bert_lockcnt
<1>5. CASE ~IsBertSynced(r)
  <2> DEFINE lfsr == Shift(r.bert_lfsr, bit)
             cnt  == IF bit = Feedback(r.bert_lfsr) THEN r.bert_synccnt - 1 ELSE 18
             s    == [r EXCEPT !.bert_lfsr = lfsr, !.bert_synccnt = cnt]
  <2>1. AddBit(r, bit) = s
    BY <1>5 DEF AddBit, FollowBit, bert_lockcnt
  <2>2. lfsr \in Nat /\ cnt \in Nat
    BY <1>1, <1>2, <1>5 DEF IsBertSynced
  <2> HIDE DEF lfsr, cnt
  <2>3. s \in Receivers
    BY <2>2 DEF Receivers
  <2>4. QED
    BY <2>1, <2>3
<1>6. QED
  BY <1>4, <1>5

\* In lock, and with room in the history, a bit is counted and an error with it.
LEMMA CountsOneBit ==
    ASSUME NEW r \in Receivers, NEW line \in Nat, Follows(r, line),
           NEW flipped \in BOOLEAN,
           Cardinality(r.bert_hist) + (IF flipped THEN 1 ELSE 0) <= bert_lockcnt
    PROVE  LET next == BertIter(line)
               bit  == IF flipped THEN 1 - (next % 2) ELSE next % 2
               s    == AddBit(r, bit)
           IN  /\ bit \in {0, 1} /\ next \in Nat
               /\ s.bert_errcnt = r.bert_errcnt + (IF flipped THEN 1 ELSE 0)
               /\ s.bert_totcnt = r.bert_totcnt + 1
               /\ Cardinality(s.bert_hist)
                    <= Cardinality(r.bert_hist) + (IF flipped THEN 1 ELSE 0)
               /\ Follows(s, next)
<1> DEFINE next == BertIter(line)
           bit  == IF flipped THEN 1 - (next % 2) ELSE next % 2
           s    == AddBit(r, bit)
           fb   == Feedback(line)
           hist == HistoryWith(r.bert_hist, flipped)
           more == IF flipped THEN 1 ELSE 0
<1>1. /\ r.bert_lfsr \in Nat /\ r.bert_errcnt \in Nat /\ r.bert_totcnt \in Nat
      /\ r.bert_hist \in SUBSET (0 .. HistoryLen - 1)
      /\ IsBertSynced(r) /\ Same(r.bert_lfsr, line)
  BY DEF Receivers, Follows
<1>2. /\ Feedback(r.bert_lfsr) = fb /\ fb \in {0, 1}
      /\ Same(Shift(r.bert_lfsr, fb), next)
  BY <1>1, LowBits DEF BertIter
<1>3. next \in Nat /\ next % 2 = fb
  BY <1>2, LowBits DEF BertIter, Same
<1>4. bit \in {0, 1} /\ (bit # Feedback(r.bert_lfsr)) = flipped
  BY <1>2, <1>3
<1>5. /\ Cardinality(hist) \in Nat /\ Cardinality(r.bert_hist) \in Nat
      /\ Cardinality(hist) <= Cardinality(r.bert_hist) + more
  BY <1>1, HistoryGrows
<1>6. ~(Cardinality(hist) > bert_lockcnt)
  BY <1>5 DEF bert_lockcnt
<1> HIDE DEF next, bit, fb
<1>7. s = BertState(Shift(r.bert_lfsr, fb), r.bert_errcnt + more,
                    r.bert_totcnt + 1, 0, hist)
  BY <1>1, <1>2, <1>4, <1>6 DEF AddBit, CountBit
<1> HIDE DEF s, hist, more
<1>8. /\ s.bert_errcnt = r.bert_errcnt + more
      /\ s.bert_totcnt = r.bert_totcnt + 1
      /\ s.bert_hist = hist /\ s.bert_synccnt = 0
      /\ s.bert_lfsr = Shift(r.bert_lfsr, fb)
  BY <1>7 DEF BertState
<1>9. Follows(s, next)
  BY <1>2, <1>8 DEF Follows, IsBertSynced
<1>10. QED
  BY <1>3, <1>4, <1>5, <1>8, <1>9 DEF next, bit, s, more

\* The receiver and the frame it hears.
Hearings == [damage : SUBSET (1 .. FrameBits), bit : 0 .. FrameBits, line : Nat,
             start : Nat, before : Receivers]

\* The premise of CountsFlips, and what it promises with the number of errors
\* the history may hold meanwhile, which makes it inductive.
Countable == /\ Follows(heard.before, heard.start)
             /\ Cardinality(heard.before.bert_hist) + Cardinality(Flips) <= bert_lockcnt

Counted == /\ rx.bert_errcnt = heard.before.bert_errcnt + Cardinality(Flips)
           /\ rx.bert_totcnt = heard.before.bert_totcnt + heard.bit
           /\ Follows(rx, heard.line)
           /\ Cardinality(rx.bert_hist)
                <= Cardinality(heard.before.bert_hist) + Cardinality(Flips)

CountInv ==
    /\ rx \in Receivers /\ heard \in Hearings
    /\ Countable => Counted

LEMMA FlipsFinite ==
    ASSUME NEW h \in Hearings
    PROVE  /\ IsFiniteSet(h.damage \cap (1 .. h.bit))
           /\ Cardinality(h.damage \cap (1 .. h.bit)) \in Nat
<1>1. h.bit \in Int /\ 1 \in Int
  BY BertAssumption DEF Hearings
<1>2. IsFiniteSet(1 .. h.bit)
  BY <1>1, FS_Interval, Zenon
<1>3. IsFiniteSet(h.damage \cap (1 .. h.bit))
  BY <1>2, FS_Intersection
<1>4. QED
  BY <1>3, FS_CardinalityType

LEMMA HistFinite ==
    ASSUME NEW r \in Receivers
    PROVE  Cardinality(r.bert_hist) \in Nat
<1>1. r.bert_hist \in SUBSET (0 .. HistoryLen - 1)
  BY DEF Receivers
<1>2. QED
  BY <1>1, HistoryGrows

\* A frame begins: nothing of it is counted yet.
LEMMA HearCounts ==
    ASSUME CountInv, NEW damage \in SUBSET (1 .. FrameBits), NEW f \in Frames,
           Hear(f, damage), rx' = rx
    PROVE  CountInv'
<1> DEFINE h == [damage |-> damage, bit |-> 0, line |-> f.state, start |-> f.state,
                 before |-> rx]
<1>1. heard' = h
  BY DEF Hear, Hearing
<1>2. h \in Hearings
  BY BertAssumption DEF CountInv, Hearings, Frames
<1>3. Flips' = {}
  BY <1>1 DEF Flips
<1>4. Cardinality(Flips') = 0
  BY <1>3, FS_EmptySet
<1>5. Cardinality(rx.bert_hist) \in Nat /\ rx.bert_errcnt \in Nat /\ rx.bert_totcnt \in Nat
  BY HistFinite DEF CountInv, Receivers
<1>6. Countable' => Counted'
  BY <1>1, <1>4, <1>5 DEF Countable, Counted, Follows
<1>7. QED
  BY <1>1, <1>2, <1>6 DEF CountInv

\* A bit of the frame.
LEMMA BitCounts ==
    ASSUME CountInv, HearBit
    PROVE  CountInv'
<1> DEFINE line    == BertIter(heard.line)
           flipped == heard.bit + 1 \in heard.damage
           bit     == IF flipped THEN 1 - (line % 2) ELSE line % 2
           h       == [damage |-> heard.damage, bit |-> heard.bit + 1, line |-> line,
                       start |-> heard.start, before |-> heard.before]
           more    == IF flipped THEN 1 ELSE 0
<1>1. rx' = AddBit(rx, bit) /\ heard' = h
  BY DEF HearBit, Hearing
<1>2. /\ rx \in Receivers /\ heard \in Hearings
      /\ heard.damage \in SUBSET (1 .. FrameBits) /\ heard.bit \in 0 .. FrameBits
      /\ heard.line \in Nat /\ heard.start \in Nat /\ heard.before \in Receivers
      /\ heard.bit # FrameBits
  BY DEF CountInv, Hearings, HearBit, Idle
<1>3. line \in Nat /\ bit \in {0, 1}
  <2>1. Feedback(heard.line) \in {0, 1}
    BY <1>2 DEF Feedback
  <2>2. line \in Nat /\ (line % 2) \in {0, 1}
    BY <1>2, <2>1 DEF BertIter, Shift
  <2> HIDE DEF line
  <2>3. QED
    BY <2>2
<1>4. rx' \in Receivers
  BY <1>1, <1>2, <1>3, ReceiverStays
<1>5. heard' \in Hearings
  <2> HIDE DEF line
  <2>1. QED
    BY <1>1, <1>2, <1>3, BertAssumption DEF Hearings
<1>6. /\ Cardinality(Flips) \in Nat /\ Cardinality(Flips)' = Cardinality(Flips) + more
      /\ Cardinality(heard.before.bert_hist) \in Nat /\ Cardinality(rx.bert_hist) \in Nat
  <2>1. IsFiniteSet(Flips) /\ Cardinality(Flips) \in Nat
    BY <1>2, FlipsFinite DEF Flips
  <2>2. Flips' = IF flipped THEN Flips \cup {heard.bit + 1} ELSE Flips
    BY <1>1, <1>2 DEF Flips
  <2>3. heard.bit + 1 \notin Flips
    BY <1>2 DEF Flips
  <2>4. Cardinality(Flips \cup {heard.bit + 1}) = Cardinality(Flips) + 1
    BY <2>1, <2>3, FS_AddElement
  <2>5. QED
    BY <1>2, <2>1, <2>2, <2>4, HistFinite
<1>7. Countable' => Counted'
  <2> SUFFICES ASSUME Countable'
               PROVE  Counted'
    OBVIOUS
  <2>1. /\ Follows(heard.before, heard.start)
        /\ Cardinality(heard.before.bert_hist) + (Cardinality(Flips) + more) <= 18
    <3> HIDE DEF more, line
    <3>1. QED
      BY <1>1, <1>6 DEF Countable, bert_lockcnt
  <2>2. more \in {0, 1}
    OBVIOUS
  <2> HIDE DEF more
  <2>3. Countable
    BY <1>6, <2>1, <2>2 DEF Countable, bert_lockcnt
  <2>4. Counted
    BY <2>3 DEF CountInv
  <2>5. /\ Follows(rx, heard.line)
        /\ Cardinality(rx.bert_hist) + more <= bert_lockcnt
    BY <1>6, <2>1, <2>2, <2>4 DEF Counted, bert_lockcnt
  <2>6. /\ rx'.bert_errcnt = rx.bert_errcnt + more
        /\ rx'.bert_totcnt = rx.bert_totcnt + 1
        /\ Cardinality(rx'.bert_hist) <= Cardinality(rx.bert_hist) + more
        /\ Follows(rx', line)
    <3>1. flipped \in BOOLEAN
      OBVIOUS
    <3> HIDE DEF flipped
    <3>2. QED
      BY <1>1, <1>2, <2>5, <3>1, CountsOneBit DEF more
  <2>7. /\ rx.bert_errcnt \in Nat /\ rx.bert_totcnt \in Nat
        /\ heard.before.bert_errcnt \in Nat /\ heard.before.bert_totcnt \in Nat
        /\ Cardinality(rx.bert_hist)' \in Nat
    BY <1>2, <1>4, HistFinite DEF Receivers
  <2> HIDE DEF line, flipped
  <2>8. /\ rx'.bert_errcnt = heard.before.bert_errcnt + Cardinality(Flips)'
        /\ rx'.bert_totcnt = heard.before.bert_totcnt + (heard.bit + 1)
        /\ Cardinality(rx'.bert_hist)
             <= Cardinality(heard.before.bert_hist) + Cardinality(Flips)'
    BY <1>2, <1>6, <2>2, <2>4, <2>6, <2>7 DEF Counted
  <2>9. QED
    BY <1>1, <2>6, <2>8 DEF Counted
<1>8. QED
  BY <1>1, <1>4, <1>5, <1>7 DEF CountInv

LEMMA CountInit == Init => CountInv
<1> SUFFICES ASSUME Init PROVE CountInv
  OBVIOUS
<1>1. rx \in Receivers /\ ~IsBertSynced(NewBertState)
  BY DEF Init, NewBertState, BertState, Receivers, IsBertSynced, bert_lockcnt
<1>2. heard \in Hearings /\ heard.before = NewBertState
  BY <1>1, BertAssumption DEF Init, Hearing, Hearings
<1>3. ~Countable
  BY <1>1, <1>2 DEF Countable, Follows
<1>4. QED
  BY <1>1, <1>2, <1>3 DEF CountInv

LEMMA CountNext == CountInv /\ AirInv /\ [Next]_vars => CountInv'
<1> SUFFICES ASSUME CountInv, AirInv, [Next]_vars
             PROVE  CountInv'
  OBVIOUS
<1>1. ASSUME rx' = rx, heard' = heard
      PROVE  CountInv'
  BY <1>1 DEF CountInv, Countable, Counted, Flips, Follows
<1>2. CASE GenerateBit \/ Terminate \/ Ask \/ AskTail \/ AskBlock \/ EndBlock \/ Return
  BY <1>1, <1>2 DEF GenerateBit, Terminate, Ask, AskTail, AskBlock, EndBlock, Return, rxVars
<1>3. CASE Sample
  <2>1. rx' = rx
    BY <1>3 DEF Sample
  <2>2. CASE air # <<>> /\ IsOut(Head(air))
    <3>1. Receive(Head(air))
      BY <1>3, <2>2 DEF Sample
    <3>2. Head(air) \in Frames
      BY <2>2, HeadTailProperties DEF AirInv
    <3>3. CASE heard' = heard
      BY <1>1, <2>1, <3>3
    <3>4. CASE \E damage \in SUBSET (1 .. FrameBits) : Hear(Head(air), damage)
      BY <2>1, <3>2, <3>4, HearCounts
    <3>5. QED
      BY <3>1, <3>3, <3>4, BertAssumption DEF Receive
  <2>3. CASE ~(air # <<>> /\ IsOut(Head(air)))
    BY <1>1, <1>3, <2>1, <2>3 DEF Sample
  <2>4. QED
    BY <2>2, <2>3
<1>4. CASE HearBit
  BY <1>4, BitCounts
<1>5. CASE Over \/ UNCHANGED vars
  BY <1>1, <1>5 DEF Over, vars, rxVars
<1>6. QED
  BY <1>2, <1>3, <1>4, <1>5 DEF Next

\* A receiver in lock counts every flipped bit of a frame once and nothing else
\* as long as its history has room: m17rx::add_frame, for frames of any length
\* and whatever the channel flips and loses.
THEOREM CountTheorem == Spec => []CountsFlips
<1>1. CountInv => CountsFlips
  BY DEF CountInv, CountsFlips, Countable, Counted
<1>2. QED
  BY <1>1, CountInit, AirInit, StreamInit, CountNext, AirNext, StreamNext, PTL DEF Spec

(***************************************************************************)
(* Synchronisation.                                                        *)
(***************************************************************************)
\* The nine bits of a register that are ever read.
BitOf(lfsr, j) == (lfsr \div <<1, 2, 4, 8, 16, 32, 64, 128, 256>>[j + 1]) % 2

\* A shift moves the bits up and puts the new one in front.
LEMMA BitsOfShift ==
    ASSUME NEW a \in Nat, NEW bit \in {0, 1}
    PROVE  /\ Shift(a, bit) \in Nat
           /\ BitOf(Shift(a, bit), 0) = bit
           /\ \A j \in 1 .. 8 : BitOf(Shift(a, bit), j) = BitOf(a, j - 1)
<1> DEFINE s == (2 * a + bit) % 65536
           q == (2 * a + bit) \div 65536
<1>1. s \in 0 .. 65535 /\ q \in Nat /\ 2 * a + bit = 65536 * q + s
  OBVIOUS
<1>2. Shift(a, bit) = s  BY DEF Shift
<1> HIDE DEF s, q
<1>3. (s % 2) = bit  BY <1>1
<1>4. (s \div 2) = a - 32768 * q /\ ((s \div 2) % 2) = a % 2
  <2>1. (s \div 2) = a - 32768 * q  BY <1>1
  <2>2. ((a - 32768 * q) % 2) = a % 2  BY <1>1
  <2> QED  BY <2>1, <2>2
<1>5. (s \div 4) = (a \div 2) - 16384 * q /\ ((s \div 4) % 2) = (a \div 2) % 2
  <2>1. (s \div 4) = (s \div 2) \div 2 /\ (a \div 2) = a \div 2  BY <1>1
  <2>2. \A x \in Nat : ((x - 32768 * q) \div 2) = (x \div 2) - 16384 * q /\ ((x - 16384 * q) % 2) = x % 2
    BY <1>1
  <2>3. a \in Nat /\ (a \div 2) \in Nat  OBVIOUS
  <2> QED  BY <1>4, <2>1, <2>2, <2>3
<1>6. (s \div 8) = (a \div 4) - 8192 * q /\ ((s \div 8) % 2) = (a \div 4) % 2
  <2>1. (s \div 8) = (s \div 4) \div 2 /\ (a \div 4) = (a \div 2) \div 2  BY <1>1
  <2>2. \A x \in Nat : ((x - 16384 * q) \div 2) = (x \div 2) - 8192 * q /\ ((x - 8192 * q) % 2) = x % 2
    BY <1>1
  <2>3. (a \div 2) \in Nat /\ (a \div 4) \in Nat  OBVIOUS
  <2> QED  BY <1>5, <2>1, <2>2, <2>3
<1>7. (s \div 16) = (a \div 8) - 4096 * q /\ ((s \div 16) % 2) = (a \div 8) % 2
  <2>1. (s \div 16) = (s \div 8) \div 2 /\ (a \div 8) = (a \div 4) \div 2  BY <1>1
  <2>2. \A x \in Nat : ((x - 8192 * q) \div 2) = (x \div 2) - 4096 * q /\ ((x - 4096 * q) % 2) = x % 2
    BY <1>1
  <2>3. (a \div 4) \in Nat /\ (a \div 8) \in Nat  OBVIOUS
  <2> QED  BY <1>6, <2>1, <2>2, <2>3
<1>8. (s \div 32) = (a \div 16) - 2048 * q /\ ((s \div 32) % 2) = (a \div 16) % 2
  <2>1. (s \div 32) = (s \div 16) \div 2 /\ (a \div 16) = (a \div 8) \div 2  BY <1>1
  <2>2. \A x \in Nat : ((x - 4096 * q) \div 2) = (x \div 2) - 2048 * q /\ ((x - 2048 * q) % 2) = x % 2
    BY <1>1
  <2>3. (a \div 8) \in Nat /\ (a \div 16) \in Nat  OBVIOUS
  <2> QED  BY <1>7, <2>1, <2>2, <2>3
<1>9. (s \div 64) = (a \div 32) - 1024 * q /\ ((s \div 64) % 2) = (a \div 32) % 2
  <2>1. (s \div 64) = (s \div 32) \div 2 /\ (a \div 32) = (a \div 16) \div 2  BY <1>1
  <2>2. \A x \in Nat : ((x - 2048 * q) \div 2) = (x \div 2) - 1024 * q /\ ((x - 1024 * q) % 2) = x % 2
    BY <1>1
  <2>3. (a \div 16) \in Nat /\ (a \div 32) \in Nat  OBVIOUS
  <2> QED  BY <1>8, <2>1, <2>2, <2>3
<1>10. (s \div 128) = (a \div 64) - 512 * q /\ ((s \div 128) % 2) = (a \div 64) % 2
  <2>1. (s \div 128) = (s \div 64) \div 2 /\ (a \div 64) = (a \div 32) \div 2  BY <1>1
  <2>2. \A x \in Nat : ((x - 1024 * q) \div 2) = (x \div 2) - 512 * q /\ ((x - 512 * q) % 2) = x % 2
    BY <1>1
  <2>3. (a \div 32) \in Nat /\ (a \div 64) \in Nat  OBVIOUS
  <2> QED  BY <1>9, <2>1, <2>2, <2>3
<1>11. (s \div 256) = (a \div 128) - 256 * q /\ ((s \div 256) % 2) = (a \div 128) % 2
  <2>1. (s \div 256) = (s \div 128) \div 2 /\ (a \div 128) = (a \div 64) \div 2  BY <1>1
  <2>2. \A x \in Nat : ((x - 512 * q) \div 2) = (x \div 2) - 256 * q /\ ((x - 256 * q) % 2) = x % 2
    BY <1>1
  <2>3. (a \div 64) \in Nat /\ (a \div 128) \in Nat  OBVIOUS
  <2> QED  BY <1>10, <2>1, <2>2, <2>3
<1>12. BitOf(s, 0) = bit
  BY <1>1, <1>3 DEF BitOf
<1>13. ASSUME NEW j \in 1 .. 8 PROVE BitOf(s, j) = BitOf(a, j - 1)
  <2>1. BitOf(s, 1) = BitOf(a, 0)  BY <1>4 DEF BitOf
  <2>2. BitOf(s, 2) = BitOf(a, 1)  BY <1>5 DEF BitOf
  <2>3. BitOf(s, 3) = BitOf(a, 2)  BY <1>6 DEF BitOf
  <2>4. BitOf(s, 4) = BitOf(a, 3)  BY <1>7 DEF BitOf
  <2>5. BitOf(s, 5) = BitOf(a, 4)  BY <1>8 DEF BitOf
  <2>6. BitOf(s, 6) = BitOf(a, 5)  BY <1>9 DEF BitOf
  <2>7. BitOf(s, 7) = BitOf(a, 6)  BY <1>10 DEF BitOf
  <2>8. BitOf(s, 8) = BitOf(a, 7)  BY <1>11 DEF BitOf
  <2> QED  BY <2>1, <2>2, <2>3, <2>4, <2>5, <2>6, <2>7, <2>8
<1> QED  BY <1>1, <1>2, <1>12, <1>13

\* The next bit is the sum of bits 4 and 8, and the bits are the register's value.
LEMMA BitsOfRegister ==
    ASSUME NEW a \in Nat
    PROVE  /\ \A j \in 0 .. 8 : BitOf(a, j) \in {0, 1}
           /\ Feedback(a) = (IF BitOf(a, 4) = BitOf(a, 8) THEN 0 ELSE 1)
           /\ a % 512 = BitOf(a, 0) + 2 * BitOf(a, 1) + 4 * BitOf(a, 2) + 8 * BitOf(a, 3)
                          + 16 * BitOf(a, 4) + 32 * BitOf(a, 5) + 64 * BitOf(a, 6)
                          + 128 * BitOf(a, 7) + 256 * BitOf(a, 8)
<1>1. /\ BitOf(a, 0) = a % 2 /\ BitOf(a, 1) = (a \div 2) % 2
      /\ BitOf(a, 2) = (a \div 4) % 2 /\ BitOf(a, 3) = (a \div 8) % 2
      /\ BitOf(a, 4) = (a \div 16) % 2 /\ BitOf(a, 5) = (a \div 32) % 2
      /\ BitOf(a, 6) = (a \div 64) % 2 /\ BitOf(a, 7) = (a \div 128) % 2
      /\ BitOf(a, 8) = (a \div 256) % 2
  BY DEF BitOf
<1>2. \A j \in 0 .. 8 : BitOf(a, j) \in {0, 1}  BY DEF BitOf
<1>3. Feedback(a) = (IF BitOf(a, 4) = BitOf(a, 8) THEN 0 ELSE 1)
  BY <1>1 DEF Feedback
<1>4. /\ a % 4 = (a % 2) + 2 * ((a \div 2) % 2)
      /\ a % 8 = (a % 4) + 4 * ((a \div 4) % 2)
      /\ a % 16 = (a % 8) + 8 * ((a \div 8) % 2)
      /\ a % 32 = (a % 16) + 16 * ((a \div 16) % 2)
  OBVIOUS
<1>5. /\ a % 64 = (a % 32) + 32 * ((a \div 32) % 2)
      /\ a % 128 = (a % 64) + 64 * ((a \div 64) % 2)
  OBVIOUS
<1>6. a % 256 = (a % 128) + 128 * ((a \div 128) % 2)
  OBVIOUS
<1>7. a % 512 = (a % 256) + 256 * ((a \div 256) % 2)
  OBVIOUS
<1>8. a % 512 = BitOf(a, 0) + 2 * BitOf(a, 1) + 4 * BitOf(a, 2) + 8 * BitOf(a, 3)
                  + 16 * BitOf(a, 4) + 32 * BitOf(a, 5) + 64 * BitOf(a, 6)
                  + 128 * BitOf(a, 7) + 256 * BitOf(a, 8)
  <2> DEFINE m2 == a % 2      m4 == a % 4      m8 == a % 8     m16 == a % 16
             m32 == a % 32    m64 == a % 64    m128 == a % 128    m256 == a % 256
             m512 == a % 512
  <2>1. /\ m2 = BitOf(a, 0)                /\ m4 = m2 + 2 * BitOf(a, 1)
        /\ m8 = m4 + 4 * BitOf(a, 2)       /\ m16 = m8 + 8 * BitOf(a, 3)
        /\ m32 = m16 + 16 * BitOf(a, 4)    /\ m64 = m32 + 32 * BitOf(a, 5)
        /\ m128 = m64 + 64 * BitOf(a, 6)   /\ m256 = m128 + 128 * BitOf(a, 7)
        /\ m512 = m256 + 256 * BitOf(a, 8)
    BY <1>1, <1>4, <1>5, <1>6, <1>7, Zenon
  <2>2. /\ BitOf(a, 0) \in Int /\ BitOf(a, 1) \in Int /\ BitOf(a, 2) \in Int
        /\ BitOf(a, 3) \in Int /\ BitOf(a, 4) \in Int /\ BitOf(a, 5) \in Int
        /\ BitOf(a, 6) \in Int /\ BitOf(a, 7) \in Int /\ BitOf(a, 8) \in Int
    BY <1>2
  <2> HIDE DEF m2, m4, m8, m16, m32, m64, m128, m256, m512
  <2>3. m512 = BitOf(a, 0) + 2 * BitOf(a, 1) + 4 * BitOf(a, 2) + 8 * BitOf(a, 3)
                  + 16 * BitOf(a, 4) + 32 * BitOf(a, 5) + 64 * BitOf(a, 6)
                  + 128 * BitOf(a, 7) + 256 * BitOf(a, 8)
    BY <2>1, <2>2
  <2> QED  BY <2>3 DEF m512
<1> QED  BY <1>2, <1>3, <1>8

\* Registers that are the same have the same bits.
LEMMA SameByBits ==
    ASSUME NEW a \in Nat, NEW b \in Nat
    PROVE  Same(a, b) <=> \A j \in 0 .. 8 : BitOf(a, j) = BitOf(b, j)
<1> DEFINE sum(x) == BitOf(x, 0) + 2 * BitOf(x, 1) + 4 * BitOf(x, 2) + 8 * BitOf(x, 3)
                          + 16 * BitOf(x, 4) + 32 * BitOf(x, 5) + 64 * BitOf(x, 6)
                          + 128 * BitOf(x, 7) + 256 * BitOf(x, 8)
<1>1. Same(a, b) <=> sum(a) = sum(b)  BY BitsOfRegister DEF Same
<1>2. \A j \in 0 .. 8 : BitOf(a, j) \in {0, 1} /\ BitOf(b, j) \in {0, 1}  BY BitsOfRegister
<1>3. /\ BitOf(a, 0) \in {0, 1} /\ BitOf(a, 1) \in {0, 1} /\ BitOf(a, 2) \in {0, 1}
      /\ BitOf(a, 3) \in {0, 1} /\ BitOf(a, 4) \in {0, 1} /\ BitOf(a, 5) \in {0, 1}
      /\ BitOf(a, 6) \in {0, 1} /\ BitOf(a, 7) \in {0, 1} /\ BitOf(a, 8) \in {0, 1}
      /\ BitOf(b, 0) \in {0, 1} /\ BitOf(b, 1) \in {0, 1} /\ BitOf(b, 2) \in {0, 1}
      /\ BitOf(b, 3) \in {0, 1} /\ BitOf(b, 4) \in {0, 1} /\ BitOf(b, 5) \in {0, 1}
      /\ BitOf(b, 6) \in {0, 1} /\ BitOf(b, 7) \in {0, 1} /\ BitOf(b, 8) \in {0, 1}
  BY <1>2
<1>4. ASSUME sum(a) = sum(b) PROVE \A j \in 0 .. 8 : BitOf(a, j) = BitOf(b, j)
  <2>1. BitOf(a, 0) = BitOf(b, 0)  BY <1>3, <1>4
  <2>2. BitOf(a, 1) = BitOf(b, 1)  BY <1>3, <1>4, <2>1
  <2>3. BitOf(a, 2) = BitOf(b, 2)  BY <1>3, <1>4, <2>1, <2>2
  <2>4. BitOf(a, 3) = BitOf(b, 3)  BY <1>3, <1>4, <2>1, <2>2, <2>3
  <2>5. BitOf(a, 4) = BitOf(b, 4)  BY <1>3, <1>4, <2>1, <2>2, <2>3, <2>4
  <2>6. BitOf(a, 5) = BitOf(b, 5)  BY <1>3, <1>4, <2>1, <2>2, <2>3, <2>4, <2>5
  <2>7. BitOf(a, 6) = BitOf(b, 6)  BY <1>3, <1>4, <2>1, <2>2, <2>3, <2>4, <2>5, <2>6
  <2>8. BitOf(a, 7) = BitOf(b, 7)  BY <1>3, <1>4, <2>1, <2>2, <2>3, <2>4, <2>5, <2>6, <2>7
  <2>9. BitOf(a, 8) = BitOf(b, 8)
    BY <1>3, <1>4, <2>1, <2>2, <2>3, <2>4, <2>5, <2>6, <2>7, <2>8
  <2> QED  BY <2>1, <2>2, <2>3, <2>4, <2>5, <2>6, <2>7, <2>8, <2>9
<1>5. sum(a) = sum(b) => \A j \in 0 .. 8 : BitOf(a, j) = BitOf(b, j)
  BY <1>4
<1>6. (\A j \in 0 .. 8 : BitOf(a, j) = BitOf(b, j)) => sum(a) = sum(b)
  OBVIOUS
<1> QED  BY <1>1, <1>5, <1>6

\* Eighteen bits of the generator's sequence, not all zero, have three ones at
\* least: nine of them determine the rest.
LEMMA EighteenBits ==
    ASSUME NEW x \in [0 .. 17 -> {0, 1}],
           \A m \in 0 .. 8 : x[m] = (IF x[m + 5] = x[m + 9] THEN 0 ELSE 1),
           \E m \in 9 .. 17 : x[m] = 1
    PROVE  x[0] + x[1] + x[2] + x[3] + x[4] + x[5] + x[6] + x[7] + x[8] + x[9] + x[10]
             + x[11] + x[12] + x[13] + x[14] + x[15] + x[16] + x[17] >= 3
<1>1. /\ x[0] = (IF x[5] = x[9] THEN 0 ELSE 1) /\ x[1] = (IF x[6] = x[10] THEN 0 ELSE 1)
      /\ x[2] = (IF x[7] = x[11] THEN 0 ELSE 1) /\ x[3] = (IF x[8] = x[12] THEN 0 ELSE 1)
      /\ x[4] = (IF x[9] = x[13] THEN 0 ELSE 1) /\ x[5] = (IF x[10] = x[14] THEN 0 ELSE 1)
      /\ x[6] = (IF x[11] = x[15] THEN 0 ELSE 1) /\ x[7] = (IF x[12] = x[16] THEN 0 ELSE 1)
      /\ x[8] = (IF x[13] = x[17] THEN 0 ELSE 1)
  OBVIOUS
<1>2. /\ x[9] \in {0, 1} /\ x[10] \in {0, 1} /\ x[11] \in {0, 1} /\ x[12] \in {0, 1}
      /\ x[13] \in {0, 1} /\ x[14] \in {0, 1} /\ x[15] \in {0, 1} /\ x[16] \in {0, 1}
      /\ x[17] \in {0, 1}
  OBVIOUS
<1>3. \/ x[9] = 1 \/ x[10] = 1 \/ x[11] = 1 \/ x[12] = 1 \/ x[13] = 1 \/ x[14] = 1
      \/ x[15] = 1 \/ x[16] = 1 \/ x[17] = 1
  OBVIOUS
<1> DEFINE a == x[9]  b == x[10]  c == x[11]  d == x[12]  e == x[13]
           f == x[14]  g == x[15]  h == x[16]  k == x[17]
           x0 == x[0]  x1 == x[1]  x2 == x[2]  x3 == x[3]  x4 == x[4]
           x5 == x[5]  x6 == x[6]  x7 == x[7]  x8 == x[8]
<1>4. /\ x0 = (IF x5 = a THEN 0 ELSE 1) /\ x1 = (IF x6 = b THEN 0 ELSE 1)
      /\ x2 = (IF x7 = c THEN 0 ELSE 1) /\ x3 = (IF x8 = d THEN 0 ELSE 1)
      /\ x4 = (IF a = e THEN 0 ELSE 1) /\ x5 = (IF b = f THEN 0 ELSE 1)
      /\ x6 = (IF c = g THEN 0 ELSE 1) /\ x7 = (IF d = h THEN 0 ELSE 1)
      /\ x8 = (IF e = k THEN 0 ELSE 1)
  BY <1>1
<1>5. /\ a \in {0, 1} /\ b \in {0, 1} /\ c \in {0, 1} /\ d \in {0, 1} /\ e \in {0, 1}
      /\ f \in {0, 1} /\ g \in {0, 1} /\ h \in {0, 1} /\ k \in {0, 1}
      /\ a = 1 \/ b = 1 \/ c = 1 \/ d = 1 \/ e = 1 \/ f = 1 \/ g = 1 \/ h = 1 \/ k = 1
  BY <1>2, <1>3
<1> HIDE DEF a, b, c, d, e, f, g, h, k, x0, x1, x2, x3, x4, x5, x6, x7, x8
<1>6. x0 + x1 + x2 + x3 + x4 + x5 + x6 + x7 + x8 + a + b + c + d + e + f + g + h + k >= 3
  BY <1>4, <1>5
<1> QED  BY <1>6 DEF a, b, c, d, e, f, g, h, k, x0, x1, x2, x3, x4, x5, x6, x7, x8

\* The ones of a history at its newest m places.
OnesBelow(hist, m) == Cardinality(hist \cap (0 .. m - 1))

\* A place more holds one more, or none.
LEMMA OneMore ==
    ASSUME NEW hist, NEW m \in Nat
    PROVE  /\ OnesBelow(hist, m) \in Nat
           /\ OnesBelow(hist, m + 1) = OnesBelow(hist, m) + (IF m \in hist THEN 1 ELSE 0)
<1> DEFINE low == hist \cap (0 .. m - 1)
<1>1. IsFiniteSet(low)
  <2>1. IsFiniteSet(0 .. m - 1)  BY FS_Interval
  <2> QED  BY <2>1, FS_Intersection
<1>2. hist \cap (0 .. (m + 1) - 1) = IF m \in hist THEN low \cup {m} ELSE low
  OBVIOUS
<1>3. m \notin low /\ Cardinality(low) \in Nat  BY <1>1, FS_CardinalityType
<1>4. Cardinality(low \cup {m}) = Cardinality(low) + 1
  BY <1>1, <1>3, FS_AddElement
<1>5. OnesBelow(hist, m) = Cardinality(low)  BY DEF OnesBelow
<1>6. OnesBelow(hist, m + 1) = Cardinality(IF m \in hist THEN low \cup {m} ELSE low)
  BY <1>2, Zenon DEF OnesBelow
<1> HIDE DEF low
<1> QED  BY <1>3, <1>4, <1>5, <1>6

\* Any eighteen places of a history that obeys the generator's law hold three.
LEMMA ThreeOnes ==
    ASSUME NEW hist, NEW i \in Nat,
           \A m \in i .. i + 8 : m \in hist <=> (m + 5 \in hist) # (m + 9 \in hist),
           \E m \in i + 9 .. i + 17 : m \in hist
    PROVE  OnesBelow(hist, i + 18) >= OnesBelow(hist, i) + 3
<1> DEFINE x == [m \in 0 .. 17 |-> IF i + m \in hist THEN 1 ELSE 0]
           n(m) == OnesBelow(hist, i + m)
<1>1. x \in [0 .. 17 -> {0, 1}]  OBVIOUS
<1>2. \A m \in 0 .. 8 : x[m] = (IF x[m + 5] = x[m + 9] THEN 0 ELSE 1)
  <2> SUFFICES ASSUME NEW m \in 0 .. 8 PROVE x[m] = (IF x[m + 5] = x[m + 9] THEN 0 ELSE 1)
    OBVIOUS
  <2>1. i + m \in hist <=> ((i + m) + 5 \in hist) # ((i + m) + 9 \in hist)  OBVIOUS
  <2>2. (i + m) + 5 = i + (m + 5) /\ (i + m) + 9 = i + (m + 9)  OBVIOUS
  <2> QED  BY <2>1, <2>2
<1>3. \E m \in 9 .. 17 : x[m] = 1
  <2>1. PICK k \in i + 9 .. i + 17 : k \in hist  OBVIOUS
  <2>2. k - i \in 9 .. 17 /\ i + (k - i) = k  BY <2>1
  <2>3. x[k - i] = 1  BY <2>1, <2>2
  <2> QED  BY <2>2, <2>3
<1>4. \A m \in 0 .. 17 : n(m + 1) = n(m) + x[m] /\ n(m) \in Int
  <2> SUFFICES ASSUME NEW m \in 0 .. 17 PROVE n(m + 1) = n(m) + x[m] /\ n(m) \in Int
    OBVIOUS
  <2>1. i + m \in Nat /\ i + (m + 1) = (i + m) + 1  OBVIOUS
  <2> QED  BY <2>1, OneMore
<1> HIDE DEF x, n
<1>5. /\ n(1) = n(0) + x[0] /\ n(2) = n(1) + x[1] /\ n(3) = n(2) + x[2] /\ n(4) = n(3) + x[3]
      /\ n(5) = n(4) + x[4] /\ n(6) = n(5) + x[5] /\ n(7) = n(6) + x[6] /\ n(8) = n(7) + x[7]
      /\ n(9) = n(8) + x[8] /\ n(10) = n(9) + x[9] /\ n(11) = n(10) + x[10]
      /\ n(12) = n(11) + x[11] /\ n(13) = n(12) + x[12] /\ n(14) = n(13) + x[13]
      /\ n(15) = n(14) + x[14] /\ n(16) = n(15) + x[15] /\ n(17) = n(16) + x[16]
      /\ n(18) = n(17) + x[17]
  BY <1>4
<1>6. /\ n(0) \in Int
      /\ x[0] \in Int /\ x[1] \in Int /\ x[2] \in Int /\ x[3] \in Int /\ x[4] \in Int
      /\ x[5] \in Int /\ x[6] \in Int /\ x[7] \in Int /\ x[8] \in Int /\ x[9] \in Int
      /\ x[10] \in Int /\ x[11] \in Int /\ x[12] \in Int /\ x[13] \in Int /\ x[14] \in Int
      /\ x[15] \in Int /\ x[16] \in Int /\ x[17] \in Int
  <2>1. \A m \in 0 .. 17 : x[m] \in Int  BY <1>1
  <2> QED  BY <1>4, <2>1
<1>7. n(6) = n(0) + x[0] + x[1] + x[2] + x[3] + x[4] + x[5]  BY <1>5, <1>6
<1>8. n(12) = n(6) + x[6] + x[7] + x[8] + x[9] + x[10] + x[11]  BY <1>5, <1>6, <1>7
<1>9. n(18) = n(12) + x[12] + x[13] + x[14] + x[15] + x[16] + x[17]
  BY <1>5, <1>6, <1>7, <1>8
<1>10. x[0] + x[1] + x[2] + x[3] + x[4] + x[5] + x[6] + x[7] + x[8] + x[9] + x[10]
             + x[11] + x[12] + x[13] + x[14] + x[15] + x[16] + x[17] >= 3
  BY <1>1, <1>2, <1>3, EighteenBits
<1>11. n(18) >= n(0) + 3
  <2> DEFINE a == x[0] + x[1] + x[2] + x[3] + x[4] + x[5]
             b == x[6] + x[7] + x[8] + x[9] + x[10] + x[11]
             c == x[12] + x[13] + x[14] + x[15] + x[16] + x[17]
  <2>1. a \in Int /\ b \in Int /\ c \in Int  BY <1>6
  <2>2. n(6) = n(0) + a  BY <1>6, <1>7
  <2>3. n(12) = n(6) + b  BY <1>6, <1>8, <2>1, <2>2
  <2>4. n(18) = n(12) + c  BY <1>6, <1>9, <2>1, <2>2, <2>3
  <2>5. a + b + c >= 3  BY <1>6, <1>10
  <2> HIDE DEF a, b, c
  <2> QED  BY <1>6, <2>1, <2>2, <2>3, <2>4, <2>5
<1>12. n(18) = OnesBelow(hist, i + 18) /\ n(0) = OnesBelow(hist, i)  BY DEF n
<1> QED  BY <1>11, <1>12

\* The newest n places of a history obey the generator's law, and no nine of
\* them in a row are free of errors.
Recurring(hist, n) ==
    /\ \A i \in 0 .. n - 10 : i \in hist <=> (i + 5 \in hist) # (i + 9 \in hist)
    /\ \A i \in 0 .. n - 9 : \E j \in i .. i + 8 : j \in hist

\* The receiver's register and the transmitter's differ at bit j.
Wrong(r, line, j) == BitOf(r.bert_lfsr, j) # BitOf(line, j)

\* A receiver in lock with a wrong register, for n right bits of a frame: the
\* generator is linear, so its errors are the bits of the difference of the two
\* registers, which is itself a sequence of the generator.
FalseLock(r, line, n) ==
    /\ IsBertSynced(r) /\ ~Same(r.bert_lfsr, line)
    /\ \A j \in 0 .. 8 : j < n => (j \in r.bert_hist <=> Wrong(r, line, j))
    /\ Recurring(r.bert_hist, n)

\* In 126 bits such a sequence has 21 ones, more than the receiver tolerates.
LEMMA TooManyErrors ==
    ASSUME NEW hist \in SUBSET (0 .. HistoryLen - 1), Recurring(hist, 126)
    PROVE  Cardinality(hist) > bert_lockcnt
<1>1. \A i \in Nat : i <= 108 => OnesBelow(hist, i + 18) >= OnesBelow(hist, i) + 3
  <2> SUFFICES ASSUME NEW i \in Nat, i <= 108
               PROVE  OnesBelow(hist, i + 18) >= OnesBelow(hist, i) + 3
    OBVIOUS
  <2>1. \A m \in i .. i + 8 : m \in hist <=> (m + 5 \in hist) # (m + 9 \in hist)
    BY DEF Recurring
  <2>2. \E m \in i + 9 .. i + 17 : m \in hist
    <3>1. i + 9 \in 0 .. 126 - 9 /\ (i + 9) + 8 = i + 17  OBVIOUS
    <3>2. \E m \in i + 9 .. (i + 9) + 8 : m \in hist  BY <3>1 DEF Recurring
    <3> QED  BY <3>1, <3>2
  <2> QED  BY <2>1, <2>2, ThreeOnes
<1>2. \A i \in Nat : OnesBelow(hist, i) \in Nat  BY OneMore
<1> DEFINE n(i) == OnesBelow(hist, i)
<1>3. /\ n(18) >= n(0) + 3 /\ n(36) >= n(18) + 3 /\ n(54) >= n(36) + 3
      /\ n(72) >= n(54) + 3 /\ n(90) >= n(72) + 3 /\ n(108) >= n(90) + 3
      /\ n(126) >= n(108) + 3
  <2>1. 0 + 18 = 18 /\ 18 + 18 = 36 /\ 36 + 18 = 54 /\ 54 + 18 = 72 /\ 72 + 18 = 90
        /\ 90 + 18 = 108 /\ 108 + 18 = 126
    OBVIOUS
  <2>2. /\ n(0 + 18) >= n(0) + 3 /\ n(18 + 18) >= n(18) + 3 /\ n(36 + 18) >= n(36) + 3
        /\ n(54 + 18) >= n(54) + 3 /\ n(72 + 18) >= n(72) + 3 /\ n(90 + 18) >= n(90) + 3
        /\ n(108 + 18) >= n(108) + 3
    BY <1>1
  <2> QED  BY <2>1, <2>2
<1>4. /\ n(0) \in Nat /\ n(18) \in Nat /\ n(36) \in Nat /\ n(54) \in Nat /\ n(72) \in Nat
      /\ n(90) \in Nat /\ n(108) \in Nat /\ n(126) \in Nat
  BY <1>2
<1>5. n(126) <= Cardinality(hist) /\ Cardinality(hist) \in Nat
  <2>1. IsFiniteSet(0 .. HistoryLen - 1)
    <3>1. 0 \in Int /\ HistoryLen - 1 \in Int  BY DEF HistoryLen
    <3> QED  BY <3>1, FS_Interval, Zenon
  <2>2. IsFiniteSet(hist)  BY <2>1, FS_Subset
  <2>3. hist \cap (0 .. 126 - 1) \in SUBSET hist  OBVIOUS
  <2>4. Cardinality(hist \cap (0 .. 126 - 1)) <= Cardinality(hist)  BY <2>2, <2>3, FS_Subset
  <2> QED  BY <2>2, <2>4, FS_CardinalityType DEF OnesBelow
<1> HIDE DEF n
<1> QED  BY <1>3, <1>4, <1>5 DEF bert_lockcnt

\* The history after one more bit.
LEMMA HistoryShifts ==
    ASSUME NEW hist \in SUBSET (0 .. HistoryLen - 1), NEW err \in BOOLEAN
    PROVE  /\ 0 \in HistoryWith(hist, err) <=> err
           /\ \A a \in 0 .. HistoryLen - 2 : a + 1 \in HistoryWith(hist, err) <=> a \in hist
BY DEF HistoryWith, HistoryLen

\* A false lock goes on being one, with one bit more of that sequence, or ends.
LEMMA FalseLockLasts ==
    ASSUME NEW r \in Receivers, NEW line \in Nat, NEW n \in 0 .. 125, FalseLock(r, line, n)
    PROVE  LET s == AddBit(r, BertIter(line) % 2)
           IN  \/ n < 125 /\ FalseLock(s, BertIter(line), n + 1)
               \/ s.bert_synccnt = bert_lockcnt
<1> DEFINE lfsr == r.bert_lfsr
           hist == r.bert_hist
           fr == Feedback(lfsr)
           fl == Feedback(line)
           next == BertIter(line)
           err == fl # fr
           hist2 == HistoryWith(hist, err)
           lost == Cardinality(hist2) > bert_lockcnt
           s == AddBit(r, next % 2)
           W(j) == Wrong(r, line, j)
           W2(j) == BitOf(Shift(lfsr, fr), j) # BitOf(next, j)
<1>1. lfsr \in Nat /\ hist \in SUBSET (0 .. HistoryLen - 1) /\ IsBertSynced(r)
  BY DEF Receivers, FalseLock
<1>2. fr \in {0, 1} /\ fl \in {0, 1} /\ next = Shift(line, fl) /\ next \in Nat /\ next % 2 = fl
  BY <1>1, LowBits DEF BertIter, Same
<1>3. err <=> ~(W(4) <=> W(8))
  <2>1. /\ BitOf(lfsr, 4) \in {0, 1} /\ BitOf(lfsr, 8) \in {0, 1}
        /\ BitOf(line, 4) \in {0, 1} /\ BitOf(line, 8) \in {0, 1}
        /\ fr = (IF BitOf(lfsr, 4) = BitOf(lfsr, 8) THEN 0 ELSE 1)
        /\ fl = (IF BitOf(line, 4) = BitOf(line, 8) THEN 0 ELSE 1)
    BY <1>1, BitsOfRegister
  <2> HIDE DEF fr, fl
  <2> QED  BY <2>1 DEF Wrong
<1>4. (W2(0) <=> err) /\ \A j \in 1 .. 8 : W2(j) <=> W(j - 1)
  <2>1. /\ BitOf(Shift(lfsr, fr), 0) = fr /\ BitOf(next, 0) = fl
        /\ \A j \in 1 .. 8 : /\ BitOf(Shift(lfsr, fr), j) = BitOf(lfsr, j - 1)
                             /\ BitOf(next, j) = BitOf(line, j - 1)
    BY <1>1, <1>2, BitsOfShift
  <2> HIDE DEF fr, fl, next
  <2> QED  BY <2>1 DEF Wrong
<1>5. (0 \in hist2 <=> err) /\ \A a \in 0 .. 126 : a + 1 \in hist2 <=> a \in hist
  <2>1. err \in BOOLEAN  OBVIOUS
  <2> HIDE DEF err
  <2> QED  BY <1>1, <2>1, HistoryShifts DEF HistoryLen
<1>6. hist2 \in SUBSET (0 .. HistoryLen - 1)
  BY <1>1 DEF HistoryWith, HistoryLen
<1>7. /\ s.bert_synccnt = (IF lost THEN bert_lockcnt ELSE 0)
      /\ s.bert_hist = (IF lost THEN {} ELSE hist2)
      /\ s.bert_lfsr = Shift(lfsr, fr)
  BY <1>1, <1>2 DEF AddBit, CountBit, BertState
<1>8. /\ ~Same(lfsr, line)
      /\ \A j \in 0 .. 8 : j < n => (j \in hist <=> W(j))
      /\ \A i \in 0 .. n - 10 : i \in hist <=> (i + 5 \in hist) # (i + 9 \in hist)
      /\ \A i \in 0 .. n - 9 : \E j \in i .. i + 8 : j \in hist
  BY DEF FalseLock, Recurring
<1>9. \E j \in 0 .. 8 : W(j)
  BY <1>1, <1>8, SameByBits DEF Wrong
<1>10. ~Same(Shift(lfsr, fr), next) <=> \E j \in 0 .. 8 : W2(j)
  <2>1. Shift(lfsr, fr) \in Nat  BY <1>1, <1>2, BitsOfShift
  <2> HIDE DEF next, fr
  <2> QED  BY <1>2, <2>1, SameByBits
<1> HIDE DEF lfsr, hist, fr, fl, next, err, hist2, s, W, W2
<1>11. \E j \in 0 .. 8 : W2(j)
  <2>1. CASE \E j \in 0 .. 7 : W(j)
    <3>1. PICK j \in 0 .. 7 : W(j)  BY <2>1
    <3>2. j + 1 \in 1 .. 8 /\ (j + 1) - 1 = j  OBVIOUS
    <3>3. W2(j + 1)  BY <1>4, <3>1, <3>2
    <3> QED  BY <3>2, <3>3
  <2>2. CASE ~\E j \in 0 .. 7 : W(j)
    <3>1. W(8) /\ ~W(4)  BY <1>9, <2>2
    <3> QED  BY <1>3, <1>4, <3>1
  <2> QED  BY <2>1, <2>2
<1>12. \A j \in 0 .. 8 : j < n + 1 => (j \in hist2 <=> W2(j))
  <2> SUFFICES ASSUME NEW j \in 0 .. 8, j < n + 1 PROVE j \in hist2 <=> W2(j)
    OBVIOUS
  <2>1. CASE j = 0
    BY <1>4, <1>5, <2>1
  <2>2. CASE j # 0
    <3>1. j - 1 \in 0 .. 8 /\ j - 1 < n /\ (j - 1) + 1 = j /\ j \in 1 .. 8  BY <2>2
    <3>2. j \in hist2 <=> j - 1 \in hist  BY <1>5, <3>1
    <3>3. j - 1 \in hist <=> W(j - 1)  BY <1>8, <3>1
    <3> QED  BY <1>4, <3>1, <3>2, <3>3
  <2> QED  BY <2>1, <2>2
<1>13. Recurring(hist2, n + 1)
  <2>1. ASSUME NEW i \in 0 .. (n + 1) - 10
        PROVE  i \in hist2 <=> (i + 5 \in hist2) # (i + 9 \in hist2)
    <3>1. CASE i = 0
      <4>1. 4 < n /\ 8 < n  BY <3>1
      <4>2. (4 \in hist <=> W(4)) /\ (8 \in hist <=> W(8))  BY <1>8, <4>1
      <4>3. 4 + 1 = 5 /\ 8 + 1 = 9 /\ 4 \in 0 .. 126 /\ 8 \in 0 .. 126  OBVIOUS
      <4>4. (5 \in hist2 <=> 4 \in hist) /\ (9 \in hist2 <=> 8 \in hist)  BY <1>5, <4>3
      <4>5. 0 \in hist2 <=> ~(5 \in hist2 <=> 9 \in hist2)  BY <1>3, <1>5, <4>2, <4>4, Zenon
      <4>6. 0 \in hist2 <=> (5 \in hist2) # (9 \in hist2)  BY <4>5
      <4> QED  BY <3>1, <4>6
    <3>2. CASE i # 0
      <4>1. /\ i - 1 \in 0 .. n - 10 /\ i - 1 \in 0 .. 126
            /\ (i - 1) + 5 \in 0 .. 126 /\ (i - 1) + 9 \in 0 .. 126
            /\ (i - 1) + 1 = i /\ ((i - 1) + 5) + 1 = i + 5 /\ ((i - 1) + 9) + 1 = i + 9
        BY <3>2
      <4>2. i - 1 \in hist <=> ((i - 1) + 5 \in hist) # ((i - 1) + 9 \in hist)
        BY <1>8, <4>1
      <4>3. /\ i \in hist2 <=> i - 1 \in hist
            /\ i + 5 \in hist2 <=> (i - 1) + 5 \in hist
            /\ i + 9 \in hist2 <=> (i - 1) + 9 \in hist
        BY <1>5, <4>1
      <4> QED  BY <4>2, <4>3
    <3> QED  BY <3>1, <3>2
  <2>2. ASSUME NEW i \in 0 .. (n + 1) - 9
        PROVE  \E j \in i .. i + 8 : j \in hist2
    <3>1. CASE i = 0
      <4>1. PICK j \in 0 .. 8 : W2(j)  BY <1>11
      <4>2. j < n + 1  BY <3>1
      <4> QED  BY <1>12, <3>1, <4>1, <4>2
    <3>2. CASE i # 0
      <4>1. i - 1 \in 0 .. n - 9  BY <3>2
      <4>2. PICK j \in i - 1 .. (i - 1) + 8 : j \in hist  BY <1>8, <4>1
      <4>3. j \in 0 .. 126 /\ j + 1 \in i .. i + 8  BY <4>1
      <4> QED  BY <1>5, <4>2, <4>3
    <3> QED  BY <3>1, <3>2
  <2> QED  BY <2>1, <2>2 DEF Recurring
<1>14. CASE lost
  BY <1>7, <1>14 DEF s, next
<1>15. CASE ~lost
  <2>1. n < 125
    <3> SUFFICES ASSUME n = 125 PROVE FALSE
      OBVIOUS
    <3>1. Recurring(hist2, 126)  BY <1>13
    <3> QED  BY <1>6, <1>15, <3>1, TooManyErrors
  <2>2. FalseLock(s, next, n + 1)
    <3>1. IsBertSynced(s)  BY <1>7, <1>15 DEF IsBertSynced
    <3>2. \A j \in 0 .. 8 : W2(j) <=> Wrong(s, next, j)  BY <1>7 DEF W2, Wrong
    <3> QED  BY <1>7, <1>10, <1>11, <1>12, <1>13, <1>15, <3>1, <3>2 DEF FalseLock
  <2> QED  BY <2>1, <2>2 DEF s, next
<1> QED  BY <1>14, <1>15

\* The lowest j bits of the two registers agree.
Agree(r, line, j) == \A i \in 0 .. j - 1 : BitOf(r.bert_lfsr, i) = BitOf(line, i)

\* Where a receiver can be when k bits of a frame without errors are heard: in
\* lock; following, in the first eight bits, with as many right bits as it heard;
\* following since a false lock ended, which began in those eight bits and lasted
\* 126 at most; following with the right register, and counting down; or in a
\* false lock that began in the first eight bits.
Clean(r, line, k) ==
    \/ Follows(r, line)
    \/ /\ ~IsBertSynced(r)
       /\ \/ k <= 8 /\ Agree(r, line, k)
          \/ \E j \in 0 .. 8 : /\ Agree(r, line, j) /\ k <= 134 + j
                               /\ r.bert_synccnt >= bert_lockcnt - j
          \/ Same(r.bert_lfsr, line) /\ k + r.bert_synccnt <= 161
    \/ \E n \in 0 .. 125 : k <= n + 8 /\ FalseLock(r, line, n)

\* No more errors than tolerated are in the history, nor bits to wait for.
Sound(r) == Cardinality(r.bert_hist) <= bert_lockcnt /\ r.bert_synccnt \in 0 .. bert_lockcnt

\* Out of lock a right bit makes one more bit agree, and a register that agrees
\* on nine predicts the next.
LEMMA FollowsBits ==
    ASSUME NEW r \in Receivers, NEW line \in Nat, Sound(r), ~IsBertSynced(r)
    PROVE  LET next == BertIter(line)
               s    == AddBit(r, next % 2)
           IN  /\ next \in Nat /\ s \in Receivers /\ s.bert_synccnt \in 0 .. bert_lockcnt
               /\ s.bert_synccnt >= r.bert_synccnt - 1
               /\ \A j \in 0 .. 8 : Agree(r, line, j) => Agree(s, next, j + 1)
               /\ Same(r.bert_lfsr, line) => /\ Same(s.bert_lfsr, next)
                                             /\ s.bert_synccnt = r.bert_synccnt - 1
               /\ Agree(s, next, 9) => Same(s.bert_lfsr, next)
<1> DEFINE lfsr == r.bert_lfsr
           fr == Feedback(lfsr)
           fl == Feedback(line)
           next == BertIter(line)
           s == AddBit(r, next % 2)
<1>1. lfsr \in Nat /\ r.bert_synccnt \in 1 .. 18
  BY DEF Receivers, Sound, IsBertSynced, bert_lockcnt
<1>2. fr \in {0, 1} /\ fl \in {0, 1} /\ next = Shift(line, fl) /\ next \in Nat /\ next % 2 = fl
  BY <1>1, LowBits DEF BertIter, Same
<1>3. s \in Receivers
  <2>1. next % 2 \in {0, 1}  BY <1>2
  <2> HIDE DEF next
  <2> QED  BY <2>1, ReceiverStays
<1>4. /\ s.bert_lfsr = Shift(lfsr, fl)
      /\ s.bert_synccnt = IF fl = fr THEN r.bert_synccnt - 1 ELSE 18
  <2>1. s = [r EXCEPT !.bert_lfsr = Shift(lfsr, fl),
                      !.bert_synccnt = IF fl = fr THEN r.bert_synccnt - 1 ELSE 18]
    BY <1>2 DEF AddBit, FollowBit, bert_lockcnt
  <2> HIDE DEF s, fl, fr
  <2> QED  BY <2>1 DEF Receivers
<1>5. /\ BitOf(s.bert_lfsr, 0) = fl /\ BitOf(next, 0) = fl
      /\ \A j \in 1 .. 8 : /\ BitOf(s.bert_lfsr, j) = BitOf(lfsr, j - 1)
                           /\ BitOf(next, j) = BitOf(line, j - 1)
  BY <1>1, <1>2, <1>4, BitsOfShift
<1>6. Same(lfsr, line) => Same(s.bert_lfsr, next) /\ fl = fr
  BY <1>1, <1>2, <1>4, LowBits
<1>7. Agree(s, next, 9) => Same(s.bert_lfsr, next)
  <2>1. s.bert_lfsr \in Nat  BY <1>3 DEF Receivers
  <2> HIDE DEF s, next
  <2> QED  BY <1>2, <2>1, SameByBits DEF Agree
<1> HIDE DEF s, next, fl, fr
<1>8. ASSUME NEW j \in 0 .. 8, Agree(r, line, j)
      PROVE  Agree(s, next, j + 1)
  <2> SUFFICES ASSUME NEW i \in 0 .. (j + 1) - 1
               PROVE  BitOf(s.bert_lfsr, i) = BitOf(next, i)
    BY DEF Agree
  <2>1. CASE i = 0
    BY <1>5, <2>1
  <2>2. CASE i # 0
    <3>1. i \in 1 .. 8 /\ i - 1 \in 0 .. j - 1  BY <2>2
    <3>2. BitOf(lfsr, i - 1) = BitOf(line, i - 1)  BY <1>8, <3>1 DEF Agree
    <3> QED  BY <1>5, <3>1, <3>2
  <2> QED  BY <2>1, <2>2
<1>9. s.bert_synccnt \in 0 .. bert_lockcnt /\ s.bert_synccnt >= r.bert_synccnt - 1
  BY <1>1, <1>4 DEF bert_lockcnt
<1> QED  BY <1>2, <1>3, <1>4, <1>6, <1>7, <1>8, <1>9 DEF s, next

\* A bit of either value, right or wrong.
LEMMA StaysSound ==
    ASSUME NEW r \in Receivers, NEW bit \in {0, 1}, Sound(r)
    PROVE  Sound(AddBit(r, bit))
<1> DEFINE s == AddBit(r, bit)
           err == bit # Feedback(r.bert_lfsr)
           hist == HistoryWith(r.bert_hist, err)
           lost == Cardinality(hist) > bert_lockcnt
<1> SUFFICES Sound(s)
  OBVIOUS
<1>1. r.bert_hist \in SUBSET (0 .. HistoryLen - 1) /\ r.bert_synccnt \in 0 .. 18
      /\ Cardinality(r.bert_hist) <= 18
  BY DEF Receivers, Sound, bert_lockcnt
<1>2. Cardinality(hist) \in Nat
  <2>1. err \in BOOLEAN  OBVIOUS
  <2> HIDE DEF err
  <2> QED  BY <1>1, <2>1, HistoryGrows
<1>3. CASE IsBertSynced(r)
  <2>1. /\ s.bert_synccnt = (IF lost THEN bert_lockcnt ELSE 0)
        /\ s.bert_hist = (IF lost THEN {} ELSE hist)
    BY <1>3 DEF AddBit, CountBit, BertState
  <2> HIDE DEF s, hist
  <2>2. CASE lost
    BY <2>1, <2>2, FS_EmptySet DEF Sound, bert_lockcnt
  <2>3. CASE ~lost
    BY <1>2, <2>1, <2>3 DEF Sound, bert_lockcnt
  <2> QED  BY <2>2, <2>3
<1>4. CASE ~IsBertSynced(r)
  <2> DEFINE cnt == IF bit = Feedback(r.bert_lfsr) THEN r.bert_synccnt - 1 ELSE 18
  <2>1. s = [r EXCEPT !.bert_lfsr = Shift(r.bert_lfsr, bit), !.bert_synccnt = cnt]
    BY <1>4 DEF AddBit, FollowBit, bert_lockcnt
  <2>2. cnt \in 0 .. 18  BY <1>1, <1>4 DEF IsBertSynced
  <2> HIDE DEF s, cnt
  <2>3. s.bert_synccnt = cnt /\ s.bert_hist = r.bert_hist  BY <2>1 DEF Receivers
  <2> QED  BY <1>1, <2>2, <2>3 DEF Sound, bert_lockcnt
<1> QED  BY <1>3, <1>4

\* A frame without errors begins, whatever was heard before it.
LEMMA CleanBegins ==
    ASSUME NEW r \in Receivers, NEW line \in Nat
    PROVE  Clean(r, line, 0)
<1>1. CASE Follows(r, line)
  BY <1>1 DEF Clean
<1>2. CASE ~IsBertSynced(r)
  BY <1>2 DEF Clean, Agree
<1>3. CASE IsBertSynced(r) /\ ~Same(r.bert_lfsr, line)
  <2>1. FalseLock(r, line, 0)  BY <1>3 DEF FalseLock, Recurring
  <2> QED  BY <2>1 DEF Clean
<1> QED  BY <1>1, <1>2, <1>3 DEF Follows

\* A bit of it.
LEMMA CleanBit ==
    ASSUME NEW r \in Receivers, NEW line \in Nat, NEW k \in Nat, Sound(r), Clean(r, line, k)
    PROVE  Clean(AddBit(r, BertIter(line) % 2), BertIter(line), k + 1)
<1> DEFINE next == BertIter(line)
           s == AddBit(r, next % 2)
<1> SUFFICES Clean(s, next, k + 1)
  OBVIOUS
<1>1. CASE Follows(r, line)
  <2>1. Cardinality(r.bert_hist) \in Nat /\ Cardinality(r.bert_hist) <= bert_lockcnt
    BY HistFinite DEF Sound
  <2>2. Cardinality(r.bert_hist) + (IF FALSE THEN 1 ELSE 0) <= bert_lockcnt  BY <2>1
  <2>3. Follows(s, next)
    <3> DEFINE t == AddBit(r, IF FALSE THEN 1 - (next % 2) ELSE next % 2)
    <3>1. Follows(t, next)  BY <1>1, <2>2, CountsOneBit
    <3>2. s = t  OBVIOUS
    <3> QED  BY <3>1, <3>2
  <2> QED  BY <2>3 DEF Clean
<1>2. CASE ~IsBertSynced(r)
  <2>1. /\ s.bert_synccnt \in 0 .. 18 /\ s.bert_synccnt >= r.bert_synccnt - 1
        /\ \A j \in 0 .. 8 : Agree(r, line, j) => Agree(s, next, j + 1)
        /\ Same(r.bert_lfsr, line) => /\ Same(s.bert_lfsr, next)
                                      /\ s.bert_synccnt = r.bert_synccnt - 1
        /\ Agree(s, next, 9) => Same(s.bert_lfsr, next)
    BY <1>2, FollowsBits DEF bert_lockcnt
  <2>2. r.bert_synccnt \in 1 .. 18  BY <1>2 DEF Sound, IsBertSynced, bert_lockcnt
  <2> HIDE DEF s, next
  <2>3. ASSUME Same(s.bert_lfsr, next), k + 1 + s.bert_synccnt <= 161
        PROVE  Clean(s, next, k + 1)
    BY <2>3 DEF Clean, Follows
  <2>4. CASE k <= 8 /\ Agree(r, line, k)
    <3>1. Agree(s, next, k + 1)  BY <2>1, <2>4
    <3>2. CASE k = 8
      BY <2>1, <2>3, <3>1, <3>2
    <3>3. CASE k < 8 /\ ~IsBertSynced(s)
      <4>1. k + 1 <= 8  BY <3>3
      <4> QED  BY <3>1, <3>3, <4>1 DEF Clean
    <3>4. CASE k < 8 /\ IsBertSynced(s)
      <4>1. CASE Same(s.bert_lfsr, next)
        BY <3>4, <4>1 DEF Clean, Follows
      <4>2. CASE ~Same(s.bert_lfsr, next)
        <5>1. FalseLock(s, next, 0)  BY <3>4, <4>2 DEF FalseLock, Recurring
        <5>2. k + 1 <= 0 + 8  BY <3>4
        <5> QED  BY <5>1, <5>2 DEF Clean
      <4> QED  BY <4>1, <4>2
    <3> QED  BY <2>4, <3>2, <3>3, <3>4
  <2>5. ASSUME NEW j \in 0 .. 8, Agree(r, line, j), k <= 134 + j, r.bert_synccnt >= 18 - j
        PROVE  Clean(s, next, k + 1)
    <3>1. Agree(s, next, j + 1)  BY <2>1, <2>5
    <3>2. CASE j = 8
      <4>1. k + 1 + s.bert_synccnt <= 161  BY <2>1, <2>5, <3>2
      <4> QED  BY <2>1, <2>3, <3>1, <3>2, <4>1
    <3>3. CASE j < 8
      <4>1. /\ j + 1 \in 0 .. 8 /\ k + 1 <= 134 + (j + 1)
            /\ s.bert_synccnt >= bert_lockcnt - (j + 1) /\ s.bert_synccnt # 0
        BY <2>1, <2>2, <2>5, <3>3 DEF bert_lockcnt
      <4> QED  BY <3>1, <4>1 DEF Clean, IsBertSynced
    <3> QED  BY <3>2, <3>3
  <2>6. CASE Same(r.bert_lfsr, line) /\ k + r.bert_synccnt <= 161
    BY <2>1, <2>2, <2>3, <2>6
  <2> QED  BY <1>2, <2>4, <2>5, <2>6 DEF Clean, Follows, FalseLock, bert_lockcnt
<1>3. ASSUME NEW n \in 0 .. 125, k <= n + 8, FalseLock(r, line, n)
      PROVE  Clean(s, next, k + 1)
  <2>1. \/ n < 125 /\ FalseLock(s, next, n + 1)
        \/ s.bert_synccnt = bert_lockcnt
    BY <1>3, FalseLockLasts
  <2> HIDE DEF s, next
  <2>2. CASE n < 125 /\ FalseLock(s, next, n + 1)
    <3>1. n + 1 \in 0 .. 125 /\ k + 1 <= (n + 1) + 8  BY <1>3, <2>2
    <3> QED  BY <2>2, <3>1 DEF Clean
  <2>3. CASE s.bert_synccnt = bert_lockcnt
    <3>1. /\ Agree(s, next, 0) /\ k + 1 <= 134 + 0 /\ s.bert_synccnt >= bert_lockcnt - 0
          /\ ~IsBertSynced(s)
      BY <1>3, <2>3 DEF Agree, bert_lockcnt, IsBertSynced
    <3> QED  BY <3>1 DEF Clean
  <2> QED  BY <2>1, <2>2, <2>3
<1> QED  BY <1>1, <1>2, <1>3 DEF Clean

\* 161 bits are enough: 8 until a false lock, 126 in it, 9 to take over the
\* register and 18 to be in lock.
LEMMA CleanEnds ==
    ASSUME NEW r \in Receivers, NEW line \in Nat, Sound(r), Clean(r, line, FrameBits)
    PROVE  Follows(r, line)
<1>1. r.bert_synccnt \in 0 .. 18  BY DEF Sound, bert_lockcnt
<1>2. ~IsBertSynced(r) => r.bert_synccnt >= 1  BY <1>1 DEF IsBertSynced
<1> QED  BY <1>1, <1>2, SyncAssumption, BertAssumption DEF Clean

\* The receiver, and where it is in a frame without errors.
CleanInv == Sound(rx) /\ (heard.damage = {} => Clean(rx, heard.line, heard.bit))

LEMMA CleanInit == Init => CleanInv
<1> SUFFICES ASSUME Init PROVE CleanInv
  OBVIOUS
<1>1. Sound(rx)
  BY FS_EmptySet DEF Init, NewBertState, BertState, Sound, bert_lockcnt
<1>2. 1 \in heard.damage
  BY BertAssumption DEF Init, Hearing
<1> QED  BY <1>1, <1>2 DEF CleanInv

LEMMA CleanNext == CountInv /\ AirInv /\ CleanInv /\ [Next]_vars => CleanInv'
<1> SUFFICES ASSUME CountInv, AirInv, CleanInv, [Next]_vars
             PROVE  CleanInv'
  OBVIOUS
<1>1. ASSUME rx' = rx, heard' = heard
      PROVE  CleanInv'
  BY <1>1 DEF CleanInv
<1>2. CASE GenerateBit \/ Terminate \/ Ask \/ AskTail \/ AskBlock \/ EndBlock \/ Return
  BY <1>1, <1>2 DEF GenerateBit, Terminate, Ask, AskTail, AskBlock, EndBlock, Return, rxVars
<1>3. CASE Sample
  <2>1. rx' = rx  BY <1>3 DEF Sample
  <2>2. CASE air # <<>> /\ IsOut(Head(air))
    <3>1. Receive(Head(air))  BY <1>3, <2>2 DEF Sample
    <3>2. Head(air) \in Frames  BY <2>2, HeadTailProperties DEF AirInv
    <3>3. CASE heard' = heard
      BY <1>1, <2>1, <3>3
    <3>4. ASSUME NEW damage, Hear(Head(air), damage)
          PROVE  CleanInv'
      <4>1. heard'.bit = 0 /\ heard'.line = Head(air).state
        BY <3>4 DEF Hear, Hearing
      <4>2. Head(air).state \in Nat /\ rx \in Receivers  BY <3>2 DEF Frames, CountInv
      <4>3. Clean(rx, Head(air).state, 0)  BY <4>2, CleanBegins
      <4> QED  BY <2>1, <4>1, <4>3 DEF CleanInv
    <3> QED  BY <3>1, <3>3, <3>4 DEF Receive
  <2>3. CASE ~(air # <<>> /\ IsOut(Head(air)))
    BY <1>1, <1>3, <2>1, <2>3 DEF Sample
  <2> QED  BY <2>2, <2>3
<1>4. CASE HearBit
  <2> DEFINE line == BertIter(heard.line)
             bit  == IF heard.bit + 1 \in heard.damage THEN 1 - (line % 2) ELSE line % 2
  <2>1. /\ rx' = AddBit(rx, bit)
        /\ heard' = Hearing(heard.damage, heard.bit + 1, line, heard.start, heard.before)
    BY <1>4 DEF HearBit
  <2>2. /\ heard'.damage = heard.damage /\ heard'.line = line
        /\ heard'.bit = heard.bit + 1
    BY <2>1 DEF Hearing
  <2>3. rx \in Receivers /\ heard.line \in Nat /\ heard.bit \in Nat /\ Sound(rx)
    BY BertAssumption DEF CountInv, Hearings, CleanInv
  <2>4. line % 2 \in {0, 1} /\ bit \in {0, 1}
    <3>1. line \in Nat
      BY <2>3, LowBits DEF BertIter, Same
    <3> HIDE DEF line
    <3> QED  BY <3>1
  <2>5. Sound(rx')
    <3> HIDE DEF bit
    <3> QED  BY <2>1, <2>3, <2>4, StaysSound
  <2>6. ASSUME heard'.damage = {}
        PROVE  Clean(rx', heard'.line, heard'.bit)
    <3>1. heard.damage = {} /\ bit = line % 2  BY <2>2, <2>6
    <3>2. Clean(rx, heard.line, heard.bit)  BY <3>1 DEF CleanInv
    <3>3. Clean(AddBit(rx, line % 2), line, heard.bit + 1)  BY <2>3, <3>2, CleanBit
    <3> HIDE DEF line, bit
    <3> QED  BY <2>1, <2>2, <3>1, <3>3
  <2> QED  BY <2>5, <2>6 DEF CleanInv
<1>5. CASE Over \/ UNCHANGED vars
  BY <1>1, <1>5 DEF Over, vars, rxVars
<1> QED  BY <1>2, <1>3, <1>4, <1>5 DEF Next

\* After a frame without an error the receiver is in lock with the transmitter's
\* register, whatever it was in before, a lock on a wrong register included, and
\* whatever the channel had done: m17rx::add_frame, for frames of 161 bits and more.
THEOREM SyncTheorem == Spec => []SyncAfterCleanFrame
<1>1. CountInv /\ CleanInv => SyncAfterCleanFrame
  <2> SUFFICES ASSUME CountInv, CleanInv, heard.bit = FrameBits, heard.damage = {}
               PROVE  Follows(rx, heard.line)
    BY DEF SyncAfterCleanFrame, Idle
  <2>1. /\ rx \in Receivers /\ heard.line \in Nat /\ Sound(rx)
        /\ Clean(rx, heard.line, FrameBits)
    BY DEF CountInv, Hearings, CleanInv
  <2> QED  BY <2>1, CleanEnds
<1> QED
  BY <1>1, CountInit, AirInit, StreamInit, CleanInit, CountNext, AirNext, StreamNext,
     CleanNext, PTL DEF Spec
=============================================================================
