------------------------------ MODULE BertLink ------------------------------
(***************************************************************************)
(* A bit error rate test: m17tx_bert (src/m17tx.cpp) makes an endless      *)
(* sequence of frames and their samples, called like src/test_bert_tx.cpp  *)
(* calls it, and a receiver (BertRx), like that of src/test_bert_rx.cpp,   *)
(* hears them over a channel that flips bits and loses frames.             *)
(***************************************************************************)
EXTENDS Baseband, BertRx, Sequences

CONSTANTS FrameBits,    \* bits of a frame (197)
          FrameSyms,    \* symbols of a preamble, a frame, an end (192)
          BlockSize,    \* samples the program asks for (128)
          Damages,      \* sets of places at which the channel flips bits
          MaxFrames,    \* bound: no call begins when so many are made
          MaxTroubles   \* bound: frames damaged or lost

\* A block of one sample is never a short one, which ends the program.
ASSUME BertAssumption ==
    /\ FrameBits \in Nat \ {0} /\ FrameSyms \in Nat \ {0} /\ BlockSize \in Nat \ {0, 1}
    /\ MaxFrames \in Nat /\ MaxTroubles \in Nat
    /\ \A damage \in Damages : damage \subseteq 1 .. FrameBits

\* Bits enough to leave a lock on a wrong register and gain the right one.
ASSUME SyncAssumption == FrameBits > 160

VARIABLES bert_state,   \* the transmitter's register
          eot_sent,
          want,         \* samples the program's call still misses
          phase,        \* where that call is
          gen,          \* bits generate_frame() still has to generate
          air,          \* frames not all of whose symbols are out
          made,         \* frames made
          troubles,     \* frames damaged or lost
          rx,           \* the receiver
          heard         \* the frame being heard, or heard last

txVars == <<bert_state, eot_sent, want, phase, gen, made>>
rxVars == <<air, troubles, rx, heard>>
vars   == <<position, call, txVars, rxVars>>

\* A frame on the air: its last symbol, and the register before its first bit.
Frame(last, state) == [last |-> last, state |-> state]

\* A frame being heard: its bits with damage, bit of them added; line is the
\* transmitter's register before the next.  before and start are a history: the
\* receiver and that register before the first.
Hearing(damage, bit, line, start, before) ==
    [damage |-> damage, bit |-> bit, line |-> line, start |-> start, before |-> before]

\* bert_iter()
BertIter(state) == Shift(state, Feedback(state))

\* The constructor: preamble and first frame, whose bits are being generated.
Init ==
    /\ first = 0 /\ nsym = 2 * FrameSyms
    /\ bb_samples = 0 /\ sym_idx = 1 /\ filt_offset = 0
    /\ filt_buff = [j \in Slots |-> IF j = 0 THEN 0 ELSE None]
    /\ emitted = 0 /\ room = 0 /\ got = 0
    /\ bert_state = 1 /\ gen = FrameBits
    /\ air = <<Frame(2 * FrameSyms - 1, 1)>> /\ made = 1
    /\ eot_sent = FALSE /\ want = 0 /\ phase = "generating"
    /\ troubles = 0 /\ rx = NewBertState
    /\ heard = Hearing(1 .. FrameBits, FrameBits, 1, 1, NewBertState)

(***************************************************************************)
(* The transmitter.                                                        *)
(***************************************************************************)
\* One round of the loop of generate_frame().
GenerateBit ==
    /\ phase = "generating"
    /\ bert_state' = BertIter(bert_state)
    /\ gen' = gen - 1
    /\ phase' = IF gen' = 0 THEN "blocks" ELSE "generating"
    /\ UNCHANGED <<position, call, eot_sent, want, made, rxVars>>

\* terminate_stream(), called before every block once SIGINT was caught.
Terminate ==
    /\ phase = "asking" /\ ~eot_sent
    /\ eot_sent' = TRUE
    /\ nsym' = nsym + FrameSyms
    /\ UNCHANGED <<first, bb_samples, sym_idx, filt_offset, filt_buff, emitted, call,
                   bert_state, want, phase, gen, made, rxVars>>

\* get_baseband_samples(BlockSize), with and without more frames to come.
Ask ==
    /\ phase = "asking" /\ ~eot_sent
    /\ made < MaxFrames
    /\ want' = BlockSize
    /\ phase' = "blocks"
    /\ UNCHANGED <<position, call, bert_state, eot_sent, gen, made, rxVars>>

AskTail ==
    /\ phase = "asking" /\ eot_sent
    /\ CallSamples(BlockSize)
    /\ phase' = "tail"
    /\ UNCHANGED <<bert_state, eot_sent, want, gen, made, rxVars>>

SymbolsLeft == N * (nsym - sym_idx)

\* One round of the loop: no more samples than there are symbols for.
AskBlock ==
    /\ phase = "blocks" /\ want > 0
    /\ CallSamples(IF SymbolsLeft <= want THEN SymbolsLeft ELSE want)
    /\ phase' = "block"
    /\ UNCHANGED <<bert_state, eot_sent, want, gen, made, rxVars>>

\* A variant that leaves the count of samples as it is.
Refill_KeepsCount ==
    /\ first' = first + nsym /\ nsym' = FrameSyms
    /\ sym_idx' = 0
    /\ air' = Append(air, Frame(first' + FrameSyms - 1, bert_state))
    /\ made' = made + 1 /\ gen' = FrameBits
    /\ UNCHANGED bb_samples

\* symbols is cleared and a frame generated.
Refill ==
    /\ first' = first + nsym /\ nsym' = FrameSyms
    /\ sym_idx' = 0 /\ bb_samples' = 0
    /\ air' = Append(air, Frame(first' + FrameSyms - 1, bert_state))
    /\ made' = made + 1 /\ gen' = FrameBits

EndBlock ==
    /\ phase = "block" /\ room = 0
    /\ want' = want - got
    /\ \/ sym_idx >= nsym /\ Refill /\ phase' = "generating"
       \/ /\ sym_idx < nsym /\ phase' = "blocks"
          /\ UNCHANGED <<first, nsym, sym_idx, bb_samples, air, made, gen>>
    /\ UNCHANGED <<filt_offset, filt_buff, emitted, call, bert_state, eot_sent,
                   troubles, rx, heard>>

\* The block is returned and transmitted; a short one is the last.
Return ==
    /\ \/ phase = "blocks" /\ want = 0 /\ phase' = "asking"
       \/ phase = "tail" /\ room = 0 /\ phase' = IF got < BlockSize THEN "over" ELSE "asking"
    /\ UNCHANGED <<position, call, bert_state, eot_sent, want, gen, made, rxVars>>

(***************************************************************************)
(* The channel and the receiver.                                           *)
(***************************************************************************)
Idle == heard.bit = FrameBits

\* The last symbol of the frame passes the middle of the filter.
IsOut(frame) == emitted' > N * frame.last + nb_taps \div 2

Hear(frame, damage) == heard' = Hearing(damage, 0, frame.state, frame.state, rx)

\* The frame arrives, whole, damaged or not at all.
Receive(frame) ==
    \/ Hear(frame, {}) /\ UNCHANGED troubles
    \/ /\ troubles < MaxTroubles /\ troubles' = troubles + 1
       /\ \/ \E damage \in Damages : Hear(frame, damage)
          \/ UNCHANGED heard

Sample ==
    /\ phase \in {"block", "tail"} /\ Idle
    /\ Push
    /\ IF air # <<>> /\ IsOut(Head(air))
         THEN Receive(Head(air)) /\ air' = Tail(air)
         ELSE UNCHANGED <<air, troubles, heard>>
    /\ UNCHANGED <<txVars, rx>>

\* One round of add_frame()'s loop over the bits.
HearBit ==
    /\ ~Idle
    /\ LET line == BertIter(heard.line)
           bit  == IF heard.bit + 1 \in heard.damage THEN 1 - (line % 2) ELSE line % 2
       IN  /\ rx' = AddBit(rx, bit)
           /\ heard' = Hearing(heard.damage, heard.bit + 1, line, heard.start, heard.before)
    /\ UNCHANGED <<position, call, txVars, air, troubles>>

Over == phase = "over" /\ Idle /\ UNCHANGED vars

Next == \/ GenerateBit \/ Terminate \/ Ask \/ AskTail \/ AskBlock \/ EndBlock
        \/ Return \/ Sample \/ HearBit \/ Over

Spec == Init /\ [][Next]_vars

(***************************************************************************)
(* Properties.                                                             *)
(***************************************************************************)
\* The loop that makes frames as they are needed never asks for a block of no
\* samples (it would not end) nor for more than it gets, and the stream stops
\* only when every frame is out and every symbol of the end of transmission has
\* passed the middle of the filter, except perhaps the last: bb_samples is
\* cleared up to N - 1 samples after the place of the symbols' first sample, so
\* that many samples are missing at the end.
StreamWhole ==
    /\ phase = "blocks" /\ want > 0 => SymbolsLeft > 0
    /\ phase = "block" => room <= baseband_samples_left
    /\ phase = "over" => emitted > N * (first + nsym - 2) + nb_taps \div 2 /\ air = <<>>
    /\ NeverExhausted

Follows(r, line) == IsBertSynced(r) /\ Same(r.bert_lfsr, line)

\* One frame without errors is enough: whatever was heard or lost before, the
\* receiver then is synchronised, and with the transmitter's register.
SyncAfterCleanFrame == Idle /\ heard.damage = {} => Follows(rx, heard.line)

\* The bits of the frame flipped so far.
Flips == heard.damage \cap (1 .. heard.bit)

\* A receiver synchronised when a frame begins counts every flipped bit once and
\* none besides, at any bit of the frame, and stays synchronised as long as the
\* history and the frame together have no more errors than it tolerates.
CountsFlips ==
    LET r == heard.before
    IN  Follows(r, heard.start) /\ Cardinality(r.bert_hist) + Cardinality(Flips) <= bert_lockcnt
        => /\ rx.bert_errcnt = r.bert_errcnt + Cardinality(Flips)
           /\ rx.bert_totcnt = r.bert_totcnt + heard.bit
           /\ Follows(rx, heard.line)
=============================================================================
