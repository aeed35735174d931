--------------------------- MODULE M17Demodulator ---------------------------
(***************************************************************************)
(* src/M17Demodulator.cpp: the state machine that finds frames in the      *)
(* demodulated baseband.  A step is one call of update() in which the      *)
(* machine moves.  What the samples contain is the environment's choice: a *)
(* correlation peak whose Hamming distance is small enough (a sync word is *)
(* found), or none.  When none is found where one is due, the machine      *)
(* guesses the most probable one and goes on, up to a point.               *)
(***************************************************************************)
EXTENDS Integers

CONSTANT StaleMisses    \* what missedSyncs, never initialised, may hold

ASSUME StaleMissesAssumption == StaleMisses \subseteq 0 .. 255

VARIABLES demodState,   \* the state of the machine
          locked,       \* what isLocked() tells radio_thread
          lastSyncWord, \* the sync word of the frame being received
          missedSyncs,  \* uint8_t counter
          returned,     \* what the last update() returned: -1, 0 or 1
          missesInARow  \* history: syncs missed since one was recognised

demodVars == <<demodState, locked, lastSyncWord, missedSyncs, returned, missesInARow>>

SyncWords == {"NONE", "LSF", "PACKET", "BERT", "EOT"}
MaxMissed == 4

\* reset() leaves missedSyncs and lastSyncWord as the stack had them.
DemodInit ==
    /\ demodState = "INIT"
    /\ locked = FALSE
    /\ lastSyncWord \in SyncWords
    /\ missedSyncs \in StaleMisses
    /\ returned = 0
    /\ missesInARow = 0

\* update()'s last line, with w the last sync word.
Returns(w, newFrame) == IF w = "EOT" THEN -1 ELSE IF newFrame THEN 1 ELSE 0

\* The 1920 samples of INIT.
Initialise ==
    /\ demodState = "INIT"
    /\ demodState' \in {"INIT", "UNLOCKED"}
    /\ returned' = Returns(lastSyncWord, FALSE)
    /\ UNCHANGED <<locked, lastSyncWord, missedSyncs, missesInARow>>

\* UNLOCKED forgets the last sync word and waits for 2500 quiet samples.
Listen ==
    /\ demodState = "UNLOCKED"
    /\ demodState' \in {"UNLOCKED", "ARMED"}
    /\ lastSyncWord' = "NONE"
    /\ returned' = Returns("NONE", FALSE)
    /\ UNCHANGED <<locked, missedSyncs, missesInARow>>

\* ARMED, and no correlation peak.
NoPeak ==
    /\ demodState = "ARMED"
    /\ returned' = Returns(lastSyncWord, FALSE)
    /\ UNCHANGED <<demodState, locked, lastSyncWord, missedSyncs, missesInARow>>

\* A correlation peak, positive for an LSF or negative for a BERT frame.
FindPeak(w) ==
    /\ demodState = "ARMED"
    /\ w \in {"LSF", "BERT"}
    /\ demodState' = "SYNCED"
    /\ lastSyncWord' = w
    /\ returned' = Returns(w, FALSE)
    /\ UNCHANGED <<locked, missedSyncs, missesInARow>>

\* The Hamming distance confirms the peak ...
Lock ==
    /\ demodState = "SYNCED"
    /\ demodState' = "LOCKED"
    /\ locked' = TRUE
    /\ missesInARow' = 0
    /\ returned' = Returns(lastSyncWord, FALSE)
    /\ UNCHANGED <<lastSyncWord, missedSyncs>>

\* ... or not.
RejectPeak ==
    /\ demodState = "SYNCED"
    /\ demodState' = "UNLOCKED"
    /\ returned' = Returns(lastSyncWord, FALSE)
    /\ UNCHANGED <<locked, lastSyncWord, missedSyncs, missesInARow>>

\* Four symbols before the end of the frame the machine moves to SYNC_UPDATE;
\* the frame then completes, a block before the next sync word is decided.
CompleteFrame ==
    /\ demodState = "LOCKED"
    /\ demodState' = "SYNC_UPDATE"
    /\ returned' = Returns(lastSyncWord, TRUE)
    /\ UNCHANGED <<locked, lastSyncWord, missedSyncs, missesInARow>>

\* The packet or BERT sync word is where it is due.
FindSync(w) ==
    /\ demodState = "SYNC_UPDATE"
    /\ w \in {"PACKET", "BERT"}
    /\ demodState' = "LOCKED"
    /\ lastSyncWord' = w
    /\ missedSyncs' = 0
    /\ missesInARow' = 0
    /\ returned' = Returns(w, FALSE)
    /\ UNCHANGED locked

FindEot ==
    /\ demodState = "SYNC_UPDATE"
    /\ demodState' = "UNLOCKED"
    /\ locked' = FALSE
    /\ lastSyncWord' = "EOT"
    /\ missedSyncs' = 0
    /\ missesInARow' = 0
    /\ returned' = Returns("EOT", FALSE)

\* A variant that counts one miss too many.
TooManyMisses_OffByOne == missedSyncs > MaxMissed

\* The test precedes the increment.
TooManyMisses == missedSyncs >= MaxMissed

\* A variant with a counter wider than uint8_t.
CountMiss_Wide(w) == /\ missedSyncs' = missedSyncs + 1
                     /\ missesInARow' = missesInARow + 1
                     /\ returned' = Returns(w, FALSE)

\* missedSyncs += 1
CountMiss(w) == /\ missedSyncs' = (missedSyncs + 1) % 256
                /\ missesInARow' = missesInARow + 1
                /\ returned' = Returns(w, FALSE)

\* The lock is lost; lastSyncWord is kept, so update() returns 0, not -1.
LoseLock ==
    /\ demodState = "SYNC_UPDATE"
    /\ TooManyMisses
    /\ demodState' = "UNLOCKED"
    /\ locked' = FALSE
    /\ UNCHANGED lastSyncWord
    /\ CountMiss(lastSyncWord)

\* The most probable sync word is taken for granted; an EOT ends the lock.
GuessSync(w) ==
    /\ demodState = "SYNC_UPDATE"
    /\ ~TooManyMisses
    /\ w \in SyncWords \ {"NONE"}
    /\ lastSyncWord' = w
    /\ demodState' = IF w = "EOT" THEN "UNLOCKED" ELSE "LOCKED"
    /\ locked' = (w # "EOT")
    /\ CountMiss(w)

DemodNext ==
    \/ Initialise \/ Listen \/ NoPeak \/ Lock \/ RejectPeak \/ CompleteFrame
    \/ FindEot \/ LoseLock
    \/ \E w \in SyncWords : FindPeak(w) \/ FindSync(w) \/ GuessSync(w)

DemodSpec == DemodInit /\ [][DemodNext]_demodVars

(***************************************************************************)
(* Properties.                                                             *)
(***************************************************************************)
DemodTypeOK ==
    /\ demodState \in {"INIT", "UNLOCKED", "ARMED", "SYNCED", "LOCKED", "SYNC_UPDATE"}
    /\ locked \in BOOLEAN
    /\ lastSyncWord \in SyncWords
    /\ missedSyncs \in 0 .. 255
    /\ returned \in {-1, 0, 1}
    /\ missesInARow \in 0 .. 5

\* isLocked() is right: radio_thread, which stops measuring the channel while
\* it holds, never believes in a lock the machine has left.
LockedIsRight == locked <=> demodState \in {"LOCKED", "SYNC_UPDATE"}

\* A frame handed to radio_thread has the sync word of a frame, and the end of
\* a transmission is reported only by a machine that has left it.
ReturnIsRight ==
    /\ returned = 1  => lastSyncWord \in {"LSF", "PACKET", "BERT"} /\ locked
    /\ returned = -1 => lastSyncWord = "EOT" /\ ~locked

\* A signal that has gone holds the lock for at most four more frames, even
\* from the value missedSyncs happened to have at the start.
DeadSignalBounded == locked => missesInARow <= 4
=============================================================================
