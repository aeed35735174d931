---------------------------- MODULE SymbolClock ----------------------------
(***************************************************************************)
(* src/M17Demodulator.cpp sample by sample: where update() takes the       *)
(* symbols of a frame, how a sync word moves its clock, and which frame it *)
(* returns.  M17Demodulator is what this promises.                         *)
(*                                                                         *)
(* The signal is a sequence of sync words, FrameSymbols apart but for the  *)
(* Drifts between the two stations' clocks, and may stop at any of them.   *)
(* Samples on which the code only counts are taken several at a time.      *)
(***************************************************************************)
EXTENDS Synchronizer, FiniteSetsExt

CONSTANTS FrameSymbols,     \* M17_FRAME_SYMBOLS
          Drifts,           \* bound: samples a frame is longer than it should be
          Tolerance,        \* lateness at which symbols are still read right
          StaleMisses,      \* what missedSyncs, never initialised, may hold
          Places,           \* bound: places in the ring where one begins
          MaxWords          \* bound: sync words of a transmission

\* A frame has room for the window of a sync word, which opens before its end, and
\* a sync word is no shorter than a call of update().
ASSUME FrameAssumption == /\ SyncwordSymbols > 1
                          /\ FrameSymbols \in Nat /\ FrameSymbols > 3 * SyncwordSymbols + 2
                          /\ Drifts \subseteq -1 .. 1 /\ Tolerance \in Nat
                          /\ MaxWords \in Nat /\ Places \subseteq 0 .. BufferSize - 1
                          /\ StaleMisses \subseteq 0 .. 255
ASSUME CallAssumption  == SyncwordSymbols * SamplesPerSymbol >= 128

VARIABLES demodState, locked, lastSyncWord, missedSyncs,
          index,            \* correlator.index()
          lsfSync, packetSync,
          peak,             \* sampIndex of the sync word just found, else 0
          sampleIndex,      \* 0 when the next sample is a symbol; the code counts
                            \* on outside frames, where nothing reads it
          symbols,          \* symbols in demodFrame: frameIndex is twice that
          nearest,          \* the sync word demodFrame begins with, as far as
                            \* Hamming distances tell; NONE once decided
          syncCount,        \* samples left for a sync word, 0 when none is looked
                            \* for: SYNC_UPDATE begins with a new count
          newFrame,         \* samples in the call since a frame was completed
          word,             \* the sync word on the air, and how it is heard
          words,            \* history: sync words of the transmission so far
          ahead,            \* samples from the last one to its last symbol
          late,             \* history: how late the last symbol was taken
          missesInARow      \* history: sync words missed since one was found

machine == <<demodState, locked, lastSyncWord, missedSyncs, missesInARow>>
syncs   == <<lsfSync, packetSync, peak>>
frame   == <<symbols, nearest, late>>
signal  == <<word, words, ahead>>
vars    == <<machine, syncs, frame, signal, index, sampleIndex, syncCount, newFrame>>

SyncWords   == {"NONE", "LSF", "PACKET", "BERT", "EOT"}
MaxMissed   == 4

\* A symbol has room for the samples that a clock may be late or early.
ASSUME LatenessAssumption == SamplesPerSymbol > 2 * (MaxMissed + 3)

FrameLength == FrameSymbols * SamplesPerSymbol
Window      == 2 * SyncwordSymbols * SamplesPerSymbol   \* SYNCWORD_SAMPLES * 2

\* A variant with calls longer than a sync word.
block_size_192 == 192

\* The samples of a call of update().
block_size == 128

InFrame == demodState \in {"LOCKED", "SYNC_UPDATE"}

\* A sync word is heard well, not at all, or has a peak and damaged symbols.
Words(kinds) == [kind : kinds, heard : {"well", "peak", "not"}]
Awaited(w)   == [w EXCEPT !.heard = "due"]
NoWord       == [kind |-> "NONE", heard |-> "not"]
After(kind)  == CASE kind \in {"LSF", "PACKET"} -> {"PACKET", "EOT"}
                  [] kind = "BERT"              -> {"BERT", "EOT"}
                  [] OTHER                      -> {}

Init ==
    /\ demodState = "INIT" /\ locked = FALSE
    /\ lastSyncWord \in SyncWords
    /\ missedSyncs \in StaleMisses
    /\ lsfSync = NewSynchronizer /\ packetSync = NewSynchronizer
    /\ index = 0 /\ peak = 0 /\ sampleIndex = 0 /\ syncCount = 0
    /\ symbols = 0 /\ nearest = "NONE"
    /\ newFrame = 0
    /\ word = NoWord /\ words = 0 /\ ahead = 0
    /\ late = 0 /\ missesInARow = 0

(***************************************************************************)
(* The signal.                                                             *)
(***************************************************************************)
\* The correlation with the word due, some samples before its last symbol: it
\* rises for three samples, and may be as high or lower on the fourth.
Shape(distance) == CASE distance = 2  -> {1}
                     [] distance = 1  -> {2}
                     [] distance = 0  -> {3}
                     [] distance = -1 -> {0, 2, 3}
                     [] OTHER         -> {0}

Heard(kind) == word.kind = kind /\ word.heard \in {"well", "peak"}

LsfCorr    == IF Heard("LSF") THEN Shape(ahead - 1) ELSE {0}

\* BERT is PACKET with the signs changed.
PacketCorr == IF Heard("PACKET") THEN Shape(ahead - 1)
              ELSE IF Heard("BERT") THEN {-c : c \in Shape(ahead - 1)}
              ELSE {0}

\* The places at which the signal goes on by a step of its own: half a symbol
\* after a sync word, and before the correlation with the next one.
FrameEnd == ahead = -(SamplesPerSymbol \div 2)
WordDue  == ahead = 5 /\ word.heard = "due"

\* Some time later there is the first sync word of a transmission.  missedSyncs,
\* which every lost lock counts up, is followed as far as it matters.
MaxCount == MaxMissed + 1   \* bound: missedSyncs as a transmission begins

Begin ==
    /\ demodState = "ARMED" /\ word = NoWord
    /\ missedSyncs <= MaxCount
    /\ index' \in Places
    /\ word' \in Words({"LSF", "BERT"}) /\ words' = 1 /\ ahead' = 3
    /\ UNCHANGED <<machine, syncs, frame, sampleIndex, syncCount, newFrame>>

NextFrame ==
    /\ demodState \notin {"INIT", "UNLOCKED"}
    /\ FrameEnd
    /\ word' = Awaited(word) /\ ahead' = ahead + FrameLength
    /\ UNCHANGED <<words, machine, syncs, frame, index, sampleIndex, syncCount, newFrame>>

NextWord ==
    /\ demodState \notin {"INIT", "UNLOCKED"}
    /\ WordDue
    /\ \/ /\ words < MaxWords
          /\ word' \in Words(After(word.kind)) /\ words' = words + 1
          /\ \E drift \in Drifts : ahead' = ahead + drift
       \/ word' = NoWord /\ UNCHANGED <<words, ahead>>
    /\ UNCHANGED <<machine, syncs, frame, index, sampleIndex, syncCount, newFrame>>

(***************************************************************************)
(* Samples.                                                                *)
(***************************************************************************)
\* Samples that come before the next one on which something may happen: a step
\* of the signal or a correlation with a sync word, a symbol, the end of the
\* window, or the end of the call with a complete frame.
Quiet ==
    LET place == IF word.heard = "due" THEN 5 ELSE IF ahead > -2 THEN 3
                 ELSE -(SamplesPerSymbol \div 2)
    IN  Min({IF ahead > place THEN ahead - place ELSE 0}
            \cup (IF InFrame THEN {(SamplesPerSymbol - sampleIndex) % SamplesPerSymbol} ELSE {})
            \cup (IF demodState = "SYNC_UPDATE" THEN {syncCount} ELSE {})
            \cup (IF newFrame > 0 THEN {block_size - newFrame} ELSE {}))

\* k samples go by in the signal and in a call of at most block_size.
Pass(k) ==
    /\ ~FrameEnd /\ ~WordDue /\ ~(demodState = "ARMED" /\ word = NoWord)
    /\ newFrame > 0 => newFrame + k <= block_size
    /\ index' = NextIndex(index, k)
    /\ ahead' = ahead - k
    /\ UNCHANGED <<word, words>>

Unread(k) == IF newFrame > 0 THEN newFrame + k ELSE 0

Count ==
    /\ demodState \in {"ARMED", "LOCKED", "SYNC_UPDATE"}
    /\ Quiet > 0
    /\ Pass(Quiet)
    /\ sampleIndex' = IF InFrame THEN (sampleIndex + Quiet) % SamplesPerSymbol ELSE 0
    /\ syncCount' = IF demodState = "SYNC_UPDATE" THEN syncCount - Quiet ELSE syncCount
    /\ newFrame' = Unread(Quiet)
    /\ UNCHANGED <<machine, syncs, frame>>

\* The samples of INIT.
Initialise ==
    /\ demodState = "INIT"
    /\ demodState' = "UNLOCKED"
    /\ UNCHANGED <<locked, lastSyncWord, missedSyncs, missesInARow, syncs, frame, signal,
                   index, sampleIndex, syncCount, newFrame>>

\* 2500 quiet samples.  What the other variables hold has no meaning before a
\* transmission begins.
Listen ==
    /\ demodState = "UNLOCKED"
    /\ demodState' = "ARMED"
    /\ lastSyncWord' = "NONE"
    /\ lsfSync' = NewSynchronizer /\ packetSync' = NewSynchronizer
    /\ index' = 0 /\ sampleIndex' = 0 /\ syncCount' = 0
    /\ symbols' = 0 /\ nearest' = "NONE" /\ late' = 0
    /\ word' = NoWord /\ words' = 0 /\ ahead' = 0
    /\ UNCHANGED <<locked, missedSyncs, missesInARow, peak, newFrame>>

\* ARMED while nothing is on the air: the correlations stay below the threshold.
NoPeak == demodState = "ARMED" /\ word = NoWord /\ UNCHANGED vars

\* A sample of ARMED.
Search ==
    /\ demodState = "ARMED" /\ Quiet = 0
    /\ Pass(1)
    /\ \E lsfCorr \in LsfCorr, packetCorr \in PacketCorr :
       \E l \in Update(lsfSync, index', lsfCorr), p \in Update(packetSync, index', packetCorr) :
          /\ lsfSync' = l.sync /\ packetSync' = p.sync
          /\ CASE l.status = 1 ->
                    lastSyncWord' = "LSF" /\ demodState' = "SYNCED" /\ peak' = l.peak
               [] l.status # 1 /\ p.status = -1 ->
                    lastSyncWord' = "BERT" /\ demodState' = "SYNCED" /\ peak' = p.peak
               [] OTHER -> UNCHANGED <<lastSyncWord, demodState, peak>>
    /\ UNCHANGED <<locked, missedSyncs, missesInARow, frame, sampleIndex, syncCount,
                   newFrame>>

\* The sample after the peak's: the sync word is read back from the ring, and
\* its Hamming distance decides.
Confirm ==
    /\ demodState = "SYNCED"
    /\ Pass(1)
    /\ late' = 0 - ahead' - Ago(index', peak)
    /\ symbols' = SyncwordSymbols
    /\ IF word = [kind |-> lastSyncWord, heard |-> "well"] /\ Magnitude(late') <= Tolerance
         THEN /\ demodState' = "LOCKED" /\ locked' = TRUE
              /\ sampleIndex' = (Ago(index', peak) + 1) % SamplesPerSymbol
              /\ missesInARow' = 0
         ELSE /\ demodState' = "UNLOCKED"
              /\ UNCHANGED <<locked, sampleIndex, missesInARow>>
    /\ peak' = 0
    /\ UNCHANGED <<lastSyncWord, missedSyncs, lsfSync, packetSync, nearest, syncCount,
                   newFrame>>

AtSymbol == sampleIndex = 0
Tick     == sampleIndex' = (sampleIndex + 1) % SamplesPerSymbol

\* Where the symbol of a place in the frame lies: samples ahead of the last
\* symbol of the sync word due.
Due(place) == SamplesPerSymbol * (SyncwordSymbols - 1 - place
                                  + IF place < SyncwordSymbols THEN 0 ELSE FrameSymbols)

\* updateFrame() at a sampling point.  A whole frame is ready to be read.
TakeSymbol ==
    IF AtSymbol
      THEN /\ symbols' = (symbols + 1) % FrameSymbols
           /\ newFrame' = IF symbols' = 0 THEN 1 ELSE Unread(1)
           /\ late' = Due(symbols) - ahead'
      ELSE /\ newFrame' = Unread(1)
           /\ UNCHANGED <<symbols, late>>

\* A sample of LOCKED: four symbols before the end of the frame the sync word
\* is looked for.
Follow ==
    /\ demodState = "LOCKED" /\ Quiet = 0
    /\ Pass(1) /\ TakeSymbol /\ Tick
    /\ IF AtSymbol /\ symbols' = FrameSymbols - SyncwordSymbols \div 2
         THEN demodState' = "SYNC_UPDATE" /\ syncCount' = Window
         ELSE UNCHANGED <<demodState, syncCount>>
    /\ UNCHANGED <<locked, lastSyncWord, missedSyncs, missesInARow, syncs, nearest>>

(***************************************************************************)
(* SYNC_UPDATE.                                                            *)
(***************************************************************************)
\* What packetSync may leave and return for a sample.
Results == UNION {Update(packetSync, NextIndex(index, 1), corr) : corr \in PacketCorr}

\* Eight symbols taken in time are nearest to the word that was heard.
SyncRead == IF word.heard = "well" /\ Magnitude(late') <= Tolerance THEN word.kind ELSE "NONE"

\* Every sample: the frame goes on, and packetSync with it.
Seek(u) ==
    /\ demodState = "SYNC_UPDATE" /\ Quiet = 0
    /\ Pass(1) /\ TakeSymbol
    /\ packetSync' = u.sync
    /\ UNCHANGED <<lsfSync, peak>>

\* A correlation counts only from the last symbol of the sync word to the next
\* symbol, and with that word in demodFrame.
InPlace == symbols' = SyncwordSymbols
Begins  == IF AtSymbol /\ InPlace THEN SyncRead ELSE nearest
Found(u, w) == InPlace /\ u.status = (IF w = "BERT" THEN -1 ELSE 1) /\ Begins = w

\* The clock is set by the peak.
FindSync(w) ==
    /\ w \in {"PACKET", "BERT"}
    /\ \E u \in Results :
          /\ Seek(u) /\ Found(u, w)
          /\ sampleIndex' = (Ago(index', u.peak) + 1) % SamplesPerSymbol
    /\ demodState' = "LOCKED" /\ lastSyncWord' = w
    /\ missedSyncs' = 0 /\ missesInARow' = 0
    /\ nearest' = "NONE" /\ syncCount' = 0
    /\ UNCHANGED locked

\* EOTSync, whose negative threshold is the positive one, may or may not find
\* its peak when it passes.
FindEot ==
    /\ \E u \in Results : Seek(u) /\ u.status = 0
    /\ InPlace /\ ahead' \in {-1, -2} /\ Begins = "EOT"
    /\ demodState' = "UNLOCKED" /\ locked' = FALSE /\ lastSyncWord' = "EOT"
    /\ missedSyncs' = 0 /\ missesInARow' = 0
    /\ Tick
    /\ nearest' = "NONE" /\ syncCount' = 0

\* Nothing found yet.
NotFound == /\ \E u \in Results : Seek(u) /\ \A w \in {"PACKET", "BERT"} : ~Found(u, w)
            /\ Tick

Await ==
    /\ syncCount > 0
    /\ NotFound
    /\ syncCount' = syncCount - 1
    /\ nearest' = Begins
    /\ UNCHANGED machine

\* Nothing found in the window.
Miss ==
    /\ syncCount = 0
    /\ NotFound
    /\ missedSyncs' = (missedSyncs + 1) % 256
    /\ missesInARow' = missesInARow + 1
    /\ nearest' = "NONE"
    /\ UNCHANGED syncCount

\* A variant that forgets to tell radio_thread.
LoseLock_StaysLocked ==
    /\ missedSyncs >= MaxMissed
    /\ Miss
    /\ demodState' = "UNLOCKED"
    /\ UNCHANGED <<lastSyncWord, locked>>

LoseLock ==
    /\ missedSyncs >= MaxMissed
    /\ Miss
    /\ demodState' = "UNLOCKED" /\ locked' = FALSE
    /\ UNCHANGED lastSyncWord

\* The nearest sync word is taken for granted: anything, when none was read.
GuessSync(w) ==
    /\ missedSyncs < MaxMissed
    /\ Miss
    /\ w # "NONE" /\ nearest \in {"NONE", w}
    /\ lastSyncWord' = w
    /\ demodState' = IF w = "EOT" THEN "UNLOCKED" ELSE "LOCKED"
    /\ locked' = (w # "EOT")

\* update() has returned 1 and radio_thread calls getFrame().
ReadFrame ==
    /\ newFrame > 0
    /\ newFrame' = 0
    /\ UNCHANGED <<machine, syncs, frame, signal, index, sampleIndex, syncCount>>

Next == \/ Initialise \/ Listen \/ NoPeak \/ Begin \/ NextFrame \/ NextWord \/ Count \/ Search \/ Confirm
        \/ Follow \/ FindEot \/ Await \/ LoseLock \/ ReadFrame
        \/ \E w \in SyncWords : FindSync(w) \/ GuessSync(w)

Spec == Init /\ [][Next]_vars

(***************************************************************************)
(* Properties.                                                             *)
(***************************************************************************)
\* The symbols of a frame are taken in their places, none left out and none
\* twice, however the clock is set: at most two samples late or early after a
\* sync word was found, and one more for every frame since.
SymbolsInPlace ==
    InFrame /\ symbols # SyncwordSymbols => Magnitude(late) <= 2 + missesInARow

\* A sync word that is heard is found, unless its correlation comes to lie on the
\* last place of the ring, which the history of correlations does not have, or
\* the clock was more than a sample late: then the peak is over before the last
\* symbol is taken.
AtRingEnd(ago) == \E i \in -2 .. 1 : (index - ago + i) % BufferSize = HistorySize

FirstNotFound == demodState = "ARMED" /\ FrameEnd /\ (Heard("LSF") \/ Heard("BERT"))
NextNotFound  == missesInARow' > missesInARow /\ nearest \in {"PACKET", "BERT"}

SyncFound ==
    [][/\ FirstNotFound => AtRingEnd(-ahead)
       /\ NextNotFound  => late > 1 \/ AtRingEnd(FrameLength - ahead)]_vars

\* A frame is read before the sync word after it is decided: radio_thread never
\* takes it for the next one's.
ReadInTime == InFrame /\ symbols \in SyncwordSymbols .. FrameSymbols \div 2 => newFrame = 0

\* The calls of update() as M17Demodulator has them.  SYNC_UPDATE is only a sync
\* word being looked for once its frame is complete, which is what the call
\* returns until the word is decided.
Complete == demodState = "SYNC_UPDATE" /\ symbols < FrameSymbols \div 2

Demodulator == INSTANCE M17Demodulator WITH
    demodState <- IF demodState = "SYNC_UPDATE" /\ ~Complete THEN "LOCKED" ELSE demodState,
    returned   <- IF demodState = "INIT" THEN 0
                  ELSE IF lastSyncWord = "EOT" THEN -1 ELSE IF Complete THEN 1 ELSE 0

\* Sample by sample the code does what M17Demodulator says of its calls.
ImplementsM17Demodulator == Demodulator!DemodSpec
=============================================================================
