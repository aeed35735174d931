---------------------------- MODULE Transmission ----------------------------
(***************************************************************************)
(* A packet from the constructor of m17tx_pkt (PacketSuperframe) to the    *)
(* blocks of samples that are transmitted: the inner transmit loop of      *)
(* src/radio_thread.cpp over get_baseband_samples (Baseband).  That        *)
(* running is cleared in the middle is RadioThread's subject.              *)
(***************************************************************************)
EXTENDS PacketSuperframe, Baseband

CONSTANT OnAir          \* bound: the sizes of packet whose samples are generated

ASSUME OnAirAssumption == OnAir \subseteq Nat

VARIABLES loop,         \* "building", "asking", "filling" or "sent"
          blocks,       \* blocks transmitted
          stale         \* of their samples, those left over from a block before

txVars == <<vars, position, call, loop, blocks, stale>>

block_size  == 128
SYM_PER_FRA == 192

TxInit == Init /\ Constructed /\ loop = "building" /\ blocks = 0 /\ stale = 0

\* The constructor; behind the last frame it appends the end of transmission
\* and loads the first symbol of preamble, LSF, frames and end.
Build ==
    /\ loop = "building"
    /\ Begin \/ Throw \/ Segment
    /\ IF pc' = "done"
         THEN /\ Load((frame_number' + 3) * SYM_PER_FRA)
              /\ loop' = "asking"
         ELSE UNCHANGED <<position, call, loop>>
    /\ UNCHANGED <<blocks, stale>>

Ask ==
    /\ loop = "asking" /\ size - 2 \in OnAir
    /\ CallSamples(block_size)
    /\ loop' = "filling"
    /\ UNCHANGED <<vars, blocks, stale>>

Sample ==
    /\ loop = "filling"
    /\ Push
    /\ UNCHANGED <<vars, loop, blocks, stale>>

\* transmit() takes the whole of tx_samples, of which got are new.
Transmit ==
    /\ loop = "filling" /\ room = 0
    /\ blocks' = blocks + 1
    /\ stale' = stale + block_size - got
    /\ loop' = IF baseband_samples_left > 0 THEN "asking" ELSE "sent"
    /\ UNCHANGED <<vars, position, call>>

Stopped == /\ pc = "threw" \/ loop = "sent" \/ (loop = "asking" /\ size - 2 \notin OnAir)
           /\ UNCHANGED txVars

TxNext == Build \/ Ask \/ Sample \/ Transmit \/ Stopped

TxSpec == TxInit /\ [][TxNext]_txVars

(***************************************************************************)
(* Properties.                                                             *)
(***************************************************************************)
\* All of a packet is transmitted: at the end every symbol has passed the
\* middle of the filter, no block but the last holds samples of the one
\* before, and that one holds them only behind the last sample.
SentToTheEnd ==
    /\ stale > 0 => loop = "sent" /\ stale < block_size
    /\ loop = "sent" => /\ emitted > N * (nsym - 1) + nb_taps \div 2
                        /\ block_size * blocks = emitted + stale
                        /\ baseband_samples_left = 0
    /\ NeverExhausted
=============================================================================
