---------------------------- MODULE Synchronizer ----------------------------
(***************************************************************************)
(* inc/Correlator.hpp and inc/Synchronizer.hpp: a ring of samples and the  *)
(* search of a sync word in it.  A correlation is a small number: positive *)
(* above the positive threshold, negative below the negative one, 0 in     *)
(* between.                                                                *)
(***************************************************************************)
EXTENDS Integers, FiniteSets

CONSTANTS SyncwordSymbols,      \* SYNCW_SIZE
          SamplesPerSymbol      \* SAMPLES_PER_SYM

ASSUME SyncwordAssumption == /\ SyncwordSymbols \in Nat \ {0}
                             /\ SamplesPerSymbol \in Nat \ {0}

\* The ring holds a sync word, first to last symbol, and a symbol more: one
\* place more than the history of correlations has.
BufferSize  == (SyncwordSymbols - 1) * SamplesPerSymbol + 1 + SamplesPerSymbol
HistorySize == SyncwordSymbols * SamplesPerSymbol

\* index() after k more samples.
NextIndex(i, k) == (i + k) % BufferSize

\* A variant that does not go around the ring.
Ago_NoWrap(i, p) == IF i < p THEN 0 ELSE i - p

\* How many samples ago place p was written.
Ago(i, p) == (i + BufferSize - p) % BufferSize

Magnitude(c) == IF c < 0 THEN -c ELSE c

\* A synchronizer is [triggered, values, last_corr]; values has the correlations
\* written since it was cleared, and is empty while they have no use.  Its
\* sampIndex is meaningful only in the call that finds it, which returns it here.
NewSynchronizer == [triggered |-> FALSE, values |-> <<>>, last_corr |-> 0]

\* corr is beyond a threshold and still moves away from it.
Triggers(s, corr) == \/ corr > 0 /\ corr >= s.last_corr
                     \/ corr < 0 /\ corr <= s.last_corr

\* values[i] = corr.
Written(values, i, corr) ==
    [j \in DOMAIN values \cup {i} |-> IF j = i THEN corr ELSE values[j]]

\* values[index()] = corr.  The last place of the ring lies behind the array,
\* where triggered is: what that becomes depends on the bits of corr.
Record(s, i, corr) ==
    LET values(t)  == IF s.triggered /\ t THEN s.values ELSE <<>>
        kept(t, v) == [triggered |-> t, values |-> v, last_corr |-> corr]
    IN  IF i < HistorySize THEN {kept(TRUE, Written(values(TRUE), i, corr))}
        ELSE {kept(t, values(t)) : t \in BOOLEAN}

\* The falling edge: the place of the first of the largest correlations, unless
\* the one at hand is as large; then sampIndex stays 0.
Larger(s, corr) == {i \in DOMAIN s.values : Magnitude(s.values[i]) > Magnitude(corr)}

Peak(s, corr) ==
    IF Larger(s, corr) = {} THEN 0
    ELSE CHOOSE i \in Larger(s, corr) : \A j \in Larger(s, corr) \ {i} :
            \/ Magnitude(s.values[j]) < Magnitude(s.values[i])
            \/ Magnitude(s.values[j]) = Magnitude(s.values[i]) /\ i < j

\* A variant that takes the sign of the correlation at hand.
PeakSign_AtHand(s, corr) == IF corr >= 0 THEN 1 ELSE -1

PeakSign(s, corr) ==
    IF (IF Larger(s, corr) = {} THEN corr ELSE s.values[Peak(s, corr)]) >= 0
      THEN 1 ELSE -1

\* What update() may leave and return when the ring is at place i.
Update(s, i, corr) ==
    IF Triggers(s, corr)
      THEN [sync : Record(s, i, corr), status : {0}, peak : {0}]
    ELSE LET quiet == [NewSynchronizer EXCEPT !.last_corr = corr]
         IN  IF s.triggered
               THEN {[sync |-> quiet, status |-> PeakSign(s, corr), peak |-> Peak(s, corr)]}
               ELSE {[sync |-> quiet, status |-> 0, peak |-> 0]}
=============================================================================
