------------------------------ MODULE Baseband ------------------------------
(***************************************************************************)
(* src/m17tx.cpp, the base class m17tx: the symbols of a transmission are  *)
(* interpolated by N and put through a filter, get_baseband_samples(n)     *)
(* returning the next samples.  The symbols of a transmission are numbered *)
(* from 0; `symbols` holds nsym of them, the first of them numbered first. *)
(* Of filt_buff only the entries 0, N, 2N, ... are ever set: filt_buff[j]  *)
(* is entry N * j, and None is the value 0 that stands for no symbol.      *)
(***************************************************************************)
EXTENDS Integers

N       == 20
nb_taps == 161
Slots   == 0 .. 9       \* N * 9 is the last entry the shift loop writes
None    == -1

VARIABLES first, nsym,  \* the vector of symbols
          bb_samples,   \* samples returned since symbols was last cleared
          sym_idx,
          filt_offset,
          filt_buff,
          emitted,      \* history: samples returned since the construction
          room,         \* samples the current call may still push
          got           \* samples it has pushed

position == <<first, nsym, bb_samples, sym_idx, filt_offset, filt_buff, emitted>>
call     == <<room, got>>

\* m17tx(), before the constructor of the derived class.
Constructed ==
    /\ first = 0 /\ nsym = 0
    /\ bb_samples = 0 /\ sym_idx = 0 /\ filt_offset = 0
    /\ filt_buff = [j \in Slots |-> None]
    /\ emitted = 0 /\ room = 0 /\ got = 0

\* The end of that constructor: all symbols are there, the first is loaded.
Load(n) ==
    /\ nsym' = n
    /\ sym_idx' = 1
    /\ filt_buff' = [filt_buff EXCEPT ![0] = first]
    /\ UNCHANGED <<first, bb_samples, filt_offset, emitted, call>>

\* get_baseband_samples(n) is called when the last call has returned.
CallSamples(n) ==
    /\ room = 0
    /\ room' = n /\ got' = 0
    /\ UNCHANGED position

\* A variant without the filter's tail.
Limit_NoTail == nsym * N

Limit == nsym * N + nb_taps \div 2

baseband_samples_left == Limit - bb_samples

NextSymbol == IF sym_idx >= nsym THEN None ELSE first + sym_idx

\* A variant that reloads one sample late.
Advance_Late ==
    \/ /\ filt_offset = 0
       /\ filt_buff' = [j \in Slots |-> IF j = 0 THEN NextSymbol ELSE filt_buff[j - 1]]
       /\ sym_idx' = sym_idx + 1
       /\ filt_offset' = N
    \/ /\ filt_offset > 0
       /\ filt_offset' = filt_offset - 1
       /\ UNCHANGED <<filt_buff, sym_idx>>

\* After every N samples the buffer is shifted and a symbol, or a zero behind
\* the last one, comes in.  The break for a sym_idx of nsym + nb_taps / N is
\* not modelled: NeverExhausted says that no call gets there.
Advance ==
    \/ /\ filt_offset = 0
       /\ filt_buff' = [j \in Slots |-> IF j = 0 THEN NextSymbol ELSE filt_buff[j - 1]]
       /\ sym_idx' = sym_idx + 1
       /\ filt_offset' = N - 1
    \/ /\ filt_offset > 0
       /\ filt_offset' = filt_offset - 1
       /\ UNCHANGED <<filt_buff, sym_idx>>

\* One round of the loop of get_baseband_samples; the last sample of the
\* transmission ends the call.
Push ==
    /\ room > 0
    /\ Advance
    /\ bb_samples' = bb_samples + 1
    /\ emitted' = emitted + 1
    /\ got' = got + 1
    /\ room' = IF bb_samples' >= Limit THEN 0 ELSE room - 1
    /\ UNCHANGED <<first, nsym>>

(***************************************************************************)
(* Properties.                                                             *)
(***************************************************************************)
GeneratorTypeOK ==
    /\ first \in Nat /\ nsym \in Nat
    /\ bb_samples \in Nat /\ sym_idx \in Nat /\ emitted \in Nat
    /\ filt_offset \in 0 .. N - 1
    /\ filt_buff \in [Slots -> Nat \cup {None}]
    /\ room \in Nat /\ got \in Nat

\* inner_product(taps, filt_buff + filt_offset): the symbol tap k meets in the
\* next sample.
AtTap(k) == IF (filt_offset + k) % N = 0 THEN filt_buff[(filt_offset + k) \div N]
            ELSE None

\* The symbol it meets in the convolution of the symbols with the taps.
Due(k) == IF /\ (emitted - k) % N = 0
             /\ emitted - k >= 0
             /\ (emitted - k) \div N < first + nsym
            THEN (emitted - k) \div N
            ELSE None

NeverExhausted == filt_offset = 0 => sym_idx < nsym + nb_taps \div N

\* Every sample returned is the one the convolution of all symbols with the
\* filter has at its place: the polyphase buffer, its offset and the index of
\* the next symbol never drift apart, over any number of calls.
Convolution == nsym > 0 => \A k \in 0 .. nb_taps - 1 : AtTap(k) = Due(k)
=============================================================================
