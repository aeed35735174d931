-------------------------- MODULE SymbolClock_proofs --------------------------
(***************************************************************************)
(* Proofs about SymbolClock, for any sync words, frames and samples per    *)
(* symbol that its assumptions allow.                                      *)
(***************************************************************************)
EXTENDS SymbolClock, FiniteSetTheorems, WellFoundedInduction, TLAPS

N == SyncwordSymbols
S == SamplesPerSymbol
F == FrameSymbols

\* A non-empty set of numbers has a least one.
LEMMA LeastNat ==
    ASSUME NEW T \in SUBSET Nat, T # {}
    PROVE  \E x \in T : \A y \in T : x <= y
<1> DEFINE Before == OpToRel(<, Nat)
<1>1. PICK x \in T : \A y \in T : ~(<<y, x>> \in Before)
  <2> HIDE DEF Before
  <2>1. IsWellFoundedOn(Before, Nat)
    BY NatLessThanWellFounded DEF Before
  <2> QED  BY <2>1, WFMin
<1>2. ASSUME NEW y \in T  PROVE x <= y
  <2>1. <<y, x>> \in Nat \X Nat /\ <<y, x>>[1] = y /\ <<y, x>>[2] = x  OBVIOUS
  <2>2. ~(y < x)  BY <1>1, <2>1 DEF OpToRel
  <2> QED  BY <2>2
<1> QED  BY <1>1, <1>2

\* Samples since the last symbol was taken.
phase == IF sampleIndex = 0 THEN S - 1 ELSE sampleIndex - 1

TypeOK ==
    /\ demodState \in {"INIT", "UNLOCKED", "ARMED", "SYNCED", "LOCKED", "SYNC_UPDATE"}
    /\ lastSyncWord \in SyncWords
    /\ missedSyncs \in Nat /\ missesInARow \in Nat
    /\ index \in 0 .. BufferSize - 1
    /\ sampleIndex \in 0 .. S - 1
    /\ symbols \in 0 .. F - 1
    /\ syncCount \in 0 .. Window
    /\ newFrame \in 0 .. block_size
    /\ ahead \in Int /\ late \in Int
    /\ word \in [kind : SyncWords, heard : {"well", "peak", "not", "due"}]

\* The window of a sync word opens here, and Sought symbols were taken since.
SeekFrom == F - N \div 2
Sought   == IF symbols >= SeekFrom THEN symbols - SeekFrom ELSE symbols + N \div 2

WindowInv ==
    demodState = "SYNC_UPDATE" => S * Sought + phase = Window - syncCount
NewFrameInv ==
    newFrame > 0 => InFrame /\ S * symbols + phase = newFrame - 1

ClockInv == TypeOK /\ WindowInv /\ NewFrameInv

LEMMA Numbers ==
    /\ N \in Nat \ {0} /\ S \in Nat \ {0} /\ F \in Nat /\ F > 3 * N + 2
    /\ N \div 2 \in Nat /\ 2 * (N \div 2) <= N /\ N <= 2 * (N \div 2) + 1
    /\ F \div 2 \in Nat /\ 2 * (F \div 2) <= F /\ F <= 2 * (F \div 2) + 1
    /\ SeekFrom \in Nat /\ SeekFrom < F + 1 /\ SeekFrom >= F \div 2 /\ SeekFrom > 2 * N
    /\ 2 * N < F - 2
    /\ BufferSize = N * S + 1 /\ HistorySize = N * S /\ Window = 2 * (N * S)
    /\ N * S \in Nat /\ N * S >= S
<1>1. N \in Nat \ {0} /\ S \in Nat \ {0} /\ F \in Nat /\ F > 3 * N + 2
  BY SyncwordAssumption, FrameAssumption DEF N, S, F
<1>2. \A x \in Nat : x \div 2 \in Nat /\ 2 * (x \div 2) <= x /\ x <= 2 * (x \div 2) + 1
  OBVIOUS
<1>3. N * S \in Nat /\ N * S >= S /\ (N - 1) * S = N * S - S /\ 2 * N * S = 2 * (N * S)
  BY <1>1
<1>4. BufferSize = N * S + 1 /\ HistorySize = N * S /\ Window = 2 * (N * S)
  BY <1>1, <1>3 DEF BufferSize, HistorySize, Window, N, S
<1>5. N \div 2 \in Nat /\ 2 * (N \div 2) <= N /\ N <= 2 * (N \div 2) + 1
  BY <1>1, <1>2
<1>6. F \div 2 \in Nat /\ 2 * (F \div 2) <= F /\ F <= 2 * (F \div 2) + 1
  BY <1>1, <1>2
<1> DEFINE h == N \div 2
           g == F \div 2
<1>7. h \in Nat /\ 2 * h <= N /\ N <= 2 * h + 1 /\ g \in Nat /\ 2 * g <= F /\ F <= 2 * g + 1
  BY <1>5, <1>6
<1>8. SeekFrom = F - h  BY DEF SeekFrom
<1> HIDE DEF h, g
<1>9. SeekFrom \in Nat /\ SeekFrom < F + 1 /\ SeekFrom >= g /\ SeekFrom > 2 * N /\ 2 * N < F - 2
  BY <1>1, <1>7, <1>8
<1> QED  BY <1>1, <1>3, <1>4, <1>5, <1>6, <1>9 DEF g

LEMMA Multiples ==
    \A a, b, c \in Nat : /\ c * (a + 1) = c * a + c
                         /\ c * a \in Nat
                         /\ a < b => c * a + c <= c * b
                         /\ a <= b => c * a <= c * b
<1> TAKE a, b, c \in Nat
<1>1. c * (a + 1) = c * a + c /\ c * a \in Nat /\ c * b \in Nat  OBVIOUS
<1>2. ASSUME NEW d \in Nat, d <= b PROVE c * d <= c * b  BY <1>2
<1>3. ASSUME a < b PROVE c * a + c <= c * b
  <2>1. c * (a + 1) <= c * b  BY <1>2, <1>3
  <2> QED  BY <2>1, <1>1
<1> QED  BY <1>1, <1>2, <1>3

(***************************************************************************)
(* A synchronizer.                                                         *)
(***************************************************************************)
IsSync(s) ==
    /\ s.triggered \in BOOLEAN /\ s.last_corr \in -3 .. 3
    /\ DOMAIN s.values \subseteq 0 .. BufferSize - 1
    /\ \A i \in DOMAIN s.values : s.values[i] \in -3 .. 3

\* The peak is the first of the largest correlations.
LEMMA PeakPlace ==
    ASSUME NEW s, IsSync(s), NEW corr \in -3 .. 3, Larger(s, corr) # {}
    PROVE  /\ Peak(s, corr) \in Larger(s, corr)
           /\ \A j \in Larger(s, corr) \ {Peak(s, corr)} :
                 \/ Magnitude(s.values[j]) < Magnitude(s.values[Peak(s, corr)])
                 \/ /\ Magnitude(s.values[j]) = Magnitude(s.values[Peak(s, corr)])
                    /\ Peak(s, corr) < j
<1> DEFINE L == Larger(s, corr)
           m(j) == Magnitude(s.values[j])
<1>1. L \subseteq DOMAIN s.values /\ L \subseteq Nat  BY Numbers DEF Larger, IsSync
<1>2. \A j \in L : m(j) \in 0 .. 3  BY <1>1 DEF IsSync, Magnitude
<1> HIDE DEF L, m
<1>3. PICK h \in 0 .. 3 : /\ \E j \in L : m(j) = h
                          /\ \A j \in L : m(j) <= h
  <2> DEFINE T == {3 - m(j) : j \in L}
  <2>1. T \in SUBSET Nat /\ T # {}  BY <1>2 DEF L
  <2>2. PICK x \in T : \A y \in T : x <= y  BY <2>1, LeastNat
  <2>3. PICK j \in L : x = 3 - m(j)  BY <2>2
  <2>4. \A k \in L : m(k) <= m(j)
    <3> TAKE k \in L
    <3>1. 3 - m(j) <= 3 - m(k)  BY <2>2, <2>3
    <3> QED  BY <1>2, <3>1
  <2> QED  BY <1>2, <2>3, <2>4
<1>4. PICK i \in L : m(i) = h /\ \A j \in L : m(j) = h => i <= j
  <2> DEFINE T == {j \in L : m(j) = h}
  <2>1. T \in SUBSET Nat /\ T # {}  BY <1>1, <1>3
  <2>2. PICK x \in T : \A y \in T : x <= y  BY <2>1, LeastNat
  <2> QED  BY <2>2
<1> DEFINE First(p) == \A j \in L \ {p} : \/ m(j) < m(p)
                                          \/ m(j) = m(p) /\ p < j
<1>5. First(i)
  <2> SUFFICES ASSUME NEW j \in L, j # i PROVE m(j) < m(i) \/ (m(j) = m(i) /\ i < j)
    OBVIOUS
  <2>1. m(j) \in 0 .. 3 /\ m(j) <= h /\ m(i) = h /\ j \in Nat /\ i \in Nat  BY <1>1, <1>2, <1>3, <1>4
  <2>2. m(j) = h => i <= j  BY <1>4
  <2> QED  BY <2>1, <2>2
<1>6. Peak(s, corr) = CHOOSE p \in L : First(p)
  BY DEF Peak, L, m
<1>7. Peak(s, corr) \in L /\ First(Peak(s, corr))
  <2> HIDE DEF First
  <2> QED  BY <1>4, <1>5, <1>6
<1> QED  BY <1>7 DEF L, m

LEMMA UpdateTyped ==
    ASSUME NEW s, IsSync(s), NEW i \in 0 .. BufferSize - 1, NEW corr \in -3 .. 3,
           NEW u \in Update(s, i, corr)
    PROVE  IsSync(u.sync) /\ u.peak \in 0 .. BufferSize - 1 /\ u.status \in {-1, 0, 1}
<1>0. BufferSize \in Nat /\ BufferSize > 0  BY Numbers
<1>1. CASE Triggers(s, corr)
  <2>1. u.sync \in Record(s, i, corr) /\ u.status = 0 /\ u.peak = 0
    BY <1>1 DEF Update
  <2> DEFINE values(t) == IF s.triggered /\ t THEN s.values ELSE <<>>
             kept(t, v) == [triggered |-> t, values |-> v, last_corr |-> corr]
             new == Written(values(TRUE), i, corr)
  <2>2. DOMAIN (<<>>) = {}  OBVIOUS
  <2>3. \A t \in BOOLEAN : /\ DOMAIN values(t) \subseteq 0 .. BufferSize - 1
                           /\ \A j \in DOMAIN values(t) : values(t)[j] \in -3 .. 3
    BY <2>2 DEF IsSync
  <2>4. /\ DOMAIN new = {i} \cup DOMAIN values(TRUE)
        /\ new[i] = corr
        /\ \A j \in DOMAIN new \ {i} : j \in DOMAIN values(TRUE) /\ new[j] = values(TRUE)[j]
    <3> HIDE DEF values
    <3> QED  BY DEF Written
  <2>5. \A t \in BOOLEAN : IsSync(kept(t, values(t)))
    <3> HIDE DEF values
    <3> QED  BY <2>3 DEF IsSync
  <2>6. IsSync(kept(TRUE, new))
    <3> HIDE DEF values, new
    <3> QED  BY <2>3, <2>4 DEF IsSync
  <2>7. \/ u.sync = kept(TRUE, new)
        \/ \E t \in BOOLEAN : u.sync = kept(t, values(t))
    BY <2>1 DEF Record
  <2>8. IsSync(u.sync)
    <3> HIDE DEF values, kept, new
    <3> QED  BY <2>5, <2>6, <2>7
  <2> QED  BY <2>1, <2>8, <1>0
<1>2. CASE ~Triggers(s, corr)
  <2>1. /\ u.sync = [NewSynchronizer EXCEPT !.last_corr = corr]
        /\ \/ u.status = PeakSign(s, corr) /\ u.peak = Peak(s, corr)
           \/ u.status = 0 /\ u.peak = 0
    BY <1>2 DEF Update
  <2>2. IsSync(u.sync)
    <3>1. DOMAIN (<<>>) = {}  OBVIOUS
    <3> QED  BY <2>1, <3>1 DEF IsSync, NewSynchronizer
  <2>3. PeakSign(s, corr) \in {-1, 1}  BY DEF PeakSign
  <2>4. Peak(s, corr) \in 0 .. BufferSize - 1
    <3>1. CASE Larger(s, corr) = {}  BY <3>1, <1>0 DEF Peak
    <3>2. CASE Larger(s, corr) # {}
      <4>1. Peak(s, corr) \in Larger(s, corr)  BY <3>2, PeakPlace
      <4> QED  BY <4>1 DEF Larger, IsSync
    <3> QED  BY <3>1, <3>2
  <2> QED  BY <2>1, <2>2, <2>3, <2>4, <1>0
<1> QED  BY <1>1, <1>2

(***************************************************************************)
(* Samples go by.                                                          *)
(***************************************************************************)
LEMMA QuietBounds ==
    ASSUME TypeOK
    PROVE  /\ Quiet \in Nat
           /\ InFrame => Quiet <= (S - sampleIndex) % S
           /\ demodState = "SYNC_UPDATE" => Quiet <= syncCount
           /\ newFrame > 0 => Quiet <= block_size - newFrame
           /\ ahead <= 3 /\ ahead > -2 => Quiet = 0
<1> DEFINE place == IF word.heard = "due" THEN 5 ELSE IF ahead > -2 THEN 3 ELSE -(SamplesPerSymbol \div 2)
           A == IF ahead > place THEN ahead - place ELSE 0
           B == IF InFrame THEN {(SamplesPerSymbol - sampleIndex) % SamplesPerSymbol} ELSE {}
           C == IF demodState = "SYNC_UPDATE" THEN {syncCount} ELSE {}
           D == IF newFrame > 0 THEN {block_size - newFrame} ELSE {}
           T == {A} \cup B \cup C \cup D
<1>1. Quiet = Min(T)  BY DEF Quiet
<1>2. A \in Nat
  <2>1. SamplesPerSymbol \div 2 \in Nat  BY Numbers DEF S
  <2> QED  BY <2>1 DEF TypeOK
<1>3. B \in SUBSET Nat
  BY Numbers DEF S, TypeOK
<1>4. C \in SUBSET Nat  BY Numbers DEF TypeOK
<1>5. D \in SUBSET Nat  BY DEF TypeOK, block_size
<1>6. T \in SUBSET Nat /\ A \in T
  <2> HIDE DEF A, B, C, D
  <2> QED  BY <1>2, <1>3, <1>4, <1>5
<1>7. Quiet \in T /\ \A x \in T : Quiet <= x
  <2> HIDE DEF T
  <2>1. \E x \in T : \A y \in T : x <= y  BY <1>6, LeastNat
  <2> QED  BY <2>1, <1>1 DEF Min
<1>8. InFrame => (S - sampleIndex) % S \in T  BY DEF S
<1>9. demodState = "SYNC_UPDATE" => syncCount \in T  OBVIOUS
<1>10. newFrame > 0 => block_size - newFrame \in T  OBVIOUS
<1>11. ASSUME ahead <= 3, ahead > -2 PROVE Quiet = 0
  <2>1. A = 0  BY <1>11 DEF TypeOK
  <2> HIDE DEF T, A
  <2> QED  BY <2>1, <1>6, <1>7
<1> HIDE DEF T
<1> QED  BY <1>6, <1>7, <1>8, <1>9, <1>10, <1>11

LEMMA SampleTaken ==
    ASSUME TypeOK, TakeSymbol
    PROVE  /\ AtSymbol => /\ phase = S - 1
                          /\ symbols' = IF symbols = F - 1 THEN 0 ELSE symbols + 1
                          /\ late' = Due(symbols) - ahead'
           /\ ~AtSymbol => symbols' = symbols /\ late' = late /\ phase = sampleIndex - 1
           /\ Tick => /\ sampleIndex' \in 0 .. S - 1
                      /\ AtSymbol => phase' = 0
                      /\ ~AtSymbol => phase' = phase + 1
           /\ newFrame' = IF AtSymbol /\ symbols' = 0 THEN 1 ELSE Unread(1)
<1>0. S \in Nat \ {0} /\ F \in Nat /\ F > 1 /\ sampleIndex \in 0 .. S - 1 /\ symbols \in 0 .. F - 1
  BY Numbers DEF TypeOK
<1>1. CASE AtSymbol
  <2>1. symbols' = (symbols + 1) % F /\ late' = Due(symbols) - ahead'
        /\ newFrame' = IF symbols' = 0 THEN 1 ELSE Unread(1)
    BY <1>1 DEF TakeSymbol, F
  <2>2. (symbols + 1) % F = IF symbols = F - 1 THEN 0 ELSE symbols + 1  BY <1>0
  <2>3. sampleIndex = 0 /\ phase = S - 1  BY <1>1 DEF AtSymbol, phase
  <2>4. Tick => sampleIndex' = IF S = 1 THEN 0 ELSE 1  BY <2>3, <1>0 DEF Tick, S
  <2>5. Tick => phase' = 0 /\ sampleIndex' \in 0 .. S - 1
    BY <2>4, <1>0 DEF phase, S
  <2> QED  BY <1>1, <2>1, <2>2, <2>3, <2>5
<1>2. CASE ~AtSymbol
  <2>1. symbols' = symbols /\ late' = late /\ newFrame' = Unread(1)  BY <1>2 DEF TakeSymbol
  <2>2. sampleIndex # 0 /\ phase = sampleIndex - 1  BY <1>2 DEF AtSymbol, phase
  <2>3. Tick => sampleIndex' = IF sampleIndex = S - 1 THEN 0 ELSE sampleIndex + 1
    BY <2>2, <1>0 DEF Tick, S
  <2>4. Tick => phase' = phase + 1 /\ sampleIndex' \in 0 .. S - 1
    BY <2>2, <2>3, <1>0 DEF phase, S
  <2> QED  BY <1>2, <2>1, <2>2, <2>4
<1> QED  BY <1>1, <1>2

LEMMA InitClock == Init => ClockInv
<1> SUFFICES ASSUME Init PROVE ClockInv  OBVIOUS
<1>1. missedSyncs \in Nat  BY FrameAssumption DEF Init
<1>2. word \in [kind : SyncWords, heard : {"well", "peak", "not", "due"}]
  BY DEF Init, NoWord, SyncWords
<1> QED  BY <1>1, <1>2, Numbers DEF Init, ClockInv, TypeOK, WindowInv, NewFrameInv, block_size

LEMMA Passed ==
    ASSUME TypeOK, NEW k \in Nat, Pass(k)
    PROVE  /\ index' \in 0 .. BufferSize - 1
           /\ ahead' \in Int /\ ahead' = ahead - k
           /\ word' = word /\ words' = words
           /\ Unread(k) \in 0 .. block_size
           /\ newFrame = 0 => Unread(k) = 0
           /\ newFrame > 0 => Unread(k) = newFrame + k
<1>1. BufferSize \in Nat \ {0}  BY Numbers
<1>2. index' = (index + k) % BufferSize  BY DEF Pass, NextIndex
<1>3. index' \in 0 .. BufferSize - 1
  <2>1. index + k \in Nat  BY DEF TypeOK
  <2> QED  BY <1>1, <1>2, <2>1
<1>4. Unread(k) \in 0 .. block_size  BY DEF Unread, Pass, TypeOK, block_size
<1> QED  BY <1>3, <1>4 DEF Pass, TypeOK, Unread

LEMMA Window1 ==
    ASSUME TypeOK, WindowInv, demodState = "SYNC_UPDATE"
    PROVE  /\ Sought \in Nat /\ Sought <= 2 * N /\ phase \in 0 .. S - 1
           /\ syncCount = 0 => Sought = 2 * N /\ phase = 0
           /\ Sought < F - 2
           /\ symbols < SeekFrom => symbols <= 2 * N - (N \div 2) /\ Sought = symbols + N \div 2
           /\ syncCount = 0 => symbols < SeekFrom /\ symbols = 2 * N - (N \div 2)
<1>1. phase \in 0 .. S - 1  BY Numbers DEF TypeOK, phase
<1>2. Sought \in Nat /\ (symbols < SeekFrom => Sought = symbols + N \div 2)
      /\ (symbols >= SeekFrom => Sought = symbols - SeekFrom)
  BY Numbers DEF Sought, TypeOK
<1>3. S * Sought + phase = 2 * (N * S) - syncCount  BY Numbers DEF WindowInv
<1>4. 2 * (N * S) = S * (2 * N)  BY Numbers
<1>5. Sought <= 2 * N
  <2> SUFFICES ASSUME 2 * N < Sought PROVE FALSE  BY <1>2, Numbers
  <2>1. S * (2 * N) + S <= S * Sought  BY <1>2, Numbers, Multiples, 2 * N \in Nat
  <2> QED  BY <2>1, <1>1, <1>2, <1>3, <1>4, Numbers DEF TypeOK
<1>6. ASSUME syncCount = 0 PROVE Sought = 2 * N /\ phase = 0
  <2>1. ~(Sought < 2 * N)
    <3> SUFFICES ASSUME Sought < 2 * N PROVE FALSE  OBVIOUS
    <3>1. S * Sought + S <= S * (2 * N)  BY <1>2, Numbers, Multiples, 2 * N \in Nat
    <3>2. S * Sought \in Nat /\ S * (2 * N) \in Nat  BY <1>2, Numbers, Multiples, 2 * N \in Nat
    <3> QED  BY <3>1, <3>2, <1>1, <1>3, <1>4, <1>6, Numbers
  <2>2. Sought = 2 * N  BY <2>1, <1>5, <1>2, Numbers
  <2>3. S * Sought \in Nat BY <1>2, Numbers, Multiples
  <2> QED  BY <2>2, <2>3, <1>1, <1>3, <1>4, <1>6, Numbers
<1>7. Sought < F - 2  BY <1>2, <1>5, Numbers
<1>8. symbols < SeekFrom => symbols <= 2 * N - (N \div 2)  BY <1>2, <1>5, Numbers DEF TypeOK
<1>9. ASSUME syncCount = 0  PROVE symbols < SeekFrom /\ symbols = 2 * N - (N \div 2)
  <2> DEFINE h == N \div 2
  <2>1. h \in Nat /\ 2 * h <= N /\ SeekFrom = F - h  BY Numbers DEF SeekFrom
  <2>2. Sought = 2 * N /\ symbols \in 0 .. F - 1  BY <1>6, <1>9 DEF TypeOK
  <2>3. symbols < SeekFrom => Sought = symbols + h  BY <1>2
  <2> HIDE DEF h
  <2>4. symbols < SeekFrom /\ symbols = 2 * N - h
    BY <2>1, <2>2, <2>3, <1>2, Numbers
  <2> QED  BY <2>4 DEF h
<1> QED  BY <1>1, <1>2, <1>5, <1>6, <1>7, <1>8, <1>9

LEMMA NewFrameEarly ==
    ASSUME TypeOK, NewFrameInv, newFrame > 0
    PROVE  symbols < N /\ phase \in 0 .. S - 1 /\ S * symbols + phase + 1 = newFrame
<1>1. phase \in 0 .. S - 1  BY Numbers DEF TypeOK, phase
<1>2. S * symbols + phase = newFrame - 1 /\ symbols \in Nat  BY Numbers DEF NewFrameInv, TypeOK
<1>3. newFrame <= N * S
  <2>1. N * S >= 128  BY CallAssumption DEF N, S
  <2> QED  BY <2>1, Numbers DEF TypeOK, block_size
<1>4. ~(N <= symbols)
  <2> SUFFICES ASSUME N <= symbols PROVE FALSE  OBVIOUS
  <2>1. S * N <= S * symbols  BY <1>2, Numbers, Multiples
  <2>2. S * N = N * S /\ S * symbols \in Nat  BY <1>2, Numbers, Multiples
  <2> QED  BY <2>1, <2>2, <1>1, <1>2, <1>3, Numbers DEF TypeOK
<1>5. S * symbols \in Nat  BY <1>2, Numbers, Multiples
<1> QED  BY <1>1, <1>2, <1>4, <1>5, Numbers DEF TypeOK

LEMMA AfterSample ==
    ASSUME ClockInv, Pass(1), TakeSymbol
    PROVE  /\ symbols' \in 0 .. F - 1 /\ newFrame' \in 0 .. block_size
           /\ symbols' = N => newFrame' = 0
           /\ InFrame /\ Tick => NewFrameInv' \/ ~(InFrame')
<1> USE DEF ClockInv
<1>1. /\ AtSymbol => /\ phase = S - 1
                     /\ symbols' = IF symbols = F - 1 THEN 0 ELSE symbols + 1
      /\ ~AtSymbol => symbols' = symbols /\ phase = sampleIndex - 1
      /\ Tick => /\ AtSymbol => phase' = 0
                 /\ ~AtSymbol => phase' = phase + 1
      /\ newFrame' = IF AtSymbol /\ symbols' = 0 THEN 1 ELSE Unread(1)
  BY SampleTaken
<1>2. /\ Unread(1) \in 0 .. block_size
      /\ newFrame = 0 => Unread(1) = 0
      /\ newFrame > 0 => Unread(1) = newFrame + 1
  BY Passed, 1 \in Nat
<1>3. symbols \in 0 .. F - 1 /\ F > 1 /\ F \in Nat /\ newFrame \in 0 .. block_size
  BY Numbers DEF TypeOK
<1>4. symbols' \in 0 .. F - 1 /\ newFrame' \in 0 .. block_size
  BY <1>1, <1>2, <1>3 DEF block_size
<1>5. symbols' = N => newFrame' = 0
  <2> SUFFICES ASSUME symbols' = N, newFrame > 0 PROVE FALSE
    BY <1>1, <1>2, <1>3, Numbers
  <2>1. symbols < N /\ phase \in 0 .. S - 1 /\ S * symbols + phase + 1 = newFrame
    BY NewFrameEarly
  <2>2. AtSymbol /\ symbols = N - 1 /\ phase = S - 1  BY <2>1, <1>1, <1>3, Numbers
  <2>3. S * (N - 1) + S = N * S  BY Numbers
  <2>4. newFrame = N * S  BY <2>1, <2>2, <2>3, Numbers
  <2>5. N * S >= 128  BY CallAssumption DEF N, S
  <2>6. newFrame + 1 <= 128  BY <1>2 DEF block_size, TypeOK
  <2> QED  BY <2>4, <2>5, <2>6, Numbers
<1>6. ASSUME Tick, newFrame' > 0 PROVE S * symbols' + phase' = newFrame' - 1
  <2>1. CASE AtSymbol /\ symbols' = 0
    <3>1. S * 0 = 0  BY Numbers
    <3> QED  BY <2>1, <3>1, <1>1, <1>6
  <2>2. CASE ~(AtSymbol /\ symbols' = 0)
    <3>1. newFrame > 0 /\ newFrame' = newFrame + 1  BY <2>2, <1>1, <1>2, <1>3, <1>6
    <3>2. S * symbols + phase + 1 = newFrame /\ phase \in 0 .. S - 1  BY <3>1, NewFrameEarly
    <3>3. CASE AtSymbol
      <4>1. symbols' = symbols + 1 /\ phase' = 0 /\ phase = S - 1  BY <3>3, <2>2, <1>1, <1>6
      <4>2. S * (symbols + 1) = S * symbols + S /\ S * symbols \in Nat
        BY Multiples, Numbers, <1>3
      <4> QED  BY <4>1, <4>2, <3>1, <3>2, Numbers
    <3>4. CASE ~AtSymbol
      <4>1. symbols' = symbols /\ phase' = phase + 1  BY <3>4, <1>1, <1>6
      <4>2. S * symbols \in Nat  BY Multiples, Numbers, <1>3
      <4> QED  BY <4>1, <4>2, <3>1, <3>2, Numbers
    <3> QED  BY <3>3, <3>4
  <2> QED  BY <2>1, <2>2
<1>7. InFrame /\ Tick => NewFrameInv' \/ ~(InFrame')
  BY <1>6 DEF NewFrameInv
<1> QED  BY <1>4, <1>5, <1>7

LEMMA SeekWindow ==
    ASSUME ClockInv, demodState = "SYNC_UPDATE", demodState' = "SYNC_UPDATE", Pass(1), TakeSymbol, Tick,
           syncCount > 0, syncCount' = syncCount - 1
    PROVE  WindowInv'
<1> USE DEF ClockInv
<1>1. /\ AtSymbol => /\ phase = S - 1 /\ phase' = 0
                     /\ symbols' = IF symbols = F - 1 THEN 0 ELSE symbols + 1
      /\ ~AtSymbol => symbols' = symbols /\ phase' = phase + 1
  BY SampleTaken
<1>2. Sought \in Nat /\ Sought < F - 2  BY Window1
<1>3. S * Sought + phase = 2 * (N * S) - syncCount /\ phase \in 0 .. S - 1 /\ syncCount \in Nat
  BY Numbers, Window1 DEF WindowInv, TypeOK
<1>4. symbols \in 0 .. F - 1  BY DEF TypeOK
<1>5. CASE AtSymbol
  <2> DEFINE h == N \div 2
  <2>1. h \in Nat /\ SeekFrom = F - h /\ 2 * h <= N  BY Numbers DEF SeekFrom
  <2>2. /\ Sought  = IF symbols >= SeekFrom THEN symbols - SeekFrom ELSE symbols + h
        /\ Sought' = IF symbols' >= SeekFrom THEN symbols' - SeekFrom ELSE symbols' + h
    BY DEF Sought, SeekFrom, F, N
  <2> HIDE DEF h
  <2>3. Sought' = Sought + 1
    <3>1. CASE symbols = F - 1
      <4>1. symbols' = 0  BY <3>1, <1>1, <1>5
      <4>2. symbols >= SeekFrom \/ h = 0  BY <3>1, <2>1, Numbers
      <4>3. h = 0 => Sought = F - 1  BY <3>1, <2>1, <2>2, Numbers
      <4>4. h > 0  BY <4>3, <2>1, <1>2, Numbers
      <4>5. symbols >= SeekFrom /\ ~(0 >= SeekFrom)  BY <4>2, <4>4, Numbers
      <4> QED  BY <4>1, <4>5, <3>1, <2>1, <2>2, Numbers
    <3>2. CASE symbols # F - 1
      <4>1. symbols' = symbols + 1  BY <3>2, <1>1, <1>5
      <4>2. ~(symbols < SeekFrom /\ symbols + 1 >= SeekFrom)
        <5> SUFFICES ASSUME symbols = SeekFrom - 1 PROVE FALSE  BY <1>4, Numbers
        <5>1. Sought = F - 1  BY <2>1, <2>2, Numbers
        <5> QED  BY <5>1, <1>2, Numbers
      <4> QED  BY <4>1, <4>2, <1>4, <2>1, <2>2, Numbers
    <3> QED  BY <3>1, <3>2
  <2>4. S * (Sought + 1) = S * Sought + S /\ S * Sought \in Nat  BY <1>2, Multiples, Numbers
  <2>5. S * Sought' + phase' = 2 * (N * S) - syncCount'
    BY <2>3, <2>4, <1>1, <1>3, <1>5, Numbers
  <2> QED  BY <2>5, Numbers DEF WindowInv, S, N, Window
<1>6. CASE ~AtSymbol
  <2>1. Sought' = Sought  BY <1>1, <1>6 DEF Sought, SeekFrom, F, N
  <2>2. S * Sought \in Nat  BY <1>2, Multiples, Numbers
  <2>3. S * Sought' + phase' = 2 * (N * S) - syncCount'
    BY <2>1, <2>2, <1>1, <1>3, <1>6, Numbers
  <2> QED  BY <2>3, Numbers DEF WindowInv, S, N, Window
<1> QED  BY <1>5, <1>6

LEMMA CountClock == ClockInv /\ Count => ClockInv'
<1> SUFFICES ASSUME ClockInv, Count PROVE ClockInv'  OBVIOUS
<1> USE DEF ClockInv
<1> DEFINE k == Quiet
<1>1. /\ k \in Nat /\ k > 0
      /\ InFrame => k <= (S - sampleIndex) % S
      /\ demodState = "SYNC_UPDATE" => k <= syncCount
      /\ newFrame > 0 => k <= block_size - newFrame
  BY QuietBounds DEF Count
<1>2. /\ Pass(k)
      /\ sampleIndex' = IF InFrame THEN (sampleIndex + k) % S ELSE 0
      /\ syncCount' = IF demodState = "SYNC_UPDATE" THEN syncCount - k ELSE syncCount
      /\ newFrame' = Unread(k)
      /\ UNCHANGED <<demodState, locked, lastSyncWord, missedSyncs, missesInARow>>
      /\ UNCHANGED <<symbols, late>>
  BY DEF Count, machine, frame, S
<1> HIDE DEF k
<1>3. /\ index' \in 0 .. BufferSize - 1 /\ ahead' \in Int /\ word' = word
      /\ Unread(k) \in 0 .. block_size
      /\ newFrame = 0 => Unread(k) = 0
      /\ newFrame > 0 => Unread(k) = newFrame + k
  BY <1>1, <1>2, Passed
<1>4. ASSUME InFrame
      PROVE  sampleIndex' \in 0 .. S - 1 /\ phase' = phase + k /\ phase \in Nat
  <2>1. S \in Nat \ {0} /\ sampleIndex \in 0 .. S - 1  BY Numbers DEF TypeOK
  <2>2. sampleIndex # 0 /\ k <= S - sampleIndex
    <3>1. sampleIndex = 0 => (S - sampleIndex) % S = 0  BY <2>1
    <3>2. sampleIndex # 0 => (S - sampleIndex) % S = S - sampleIndex  BY <2>1
    <3> QED  BY <3>1, <3>2, <1>1, <1>4, <2>1
  <2>3. sampleIndex' = IF sampleIndex + k = S THEN 0 ELSE sampleIndex + k
    BY <2>1, <2>2, <1>1, <1>2, <1>4
  <2>4. phase = sampleIndex - 1  BY <2>2 DEF phase
  <2>5. phase' = IF sampleIndex' = 0 THEN S - 1 ELSE sampleIndex' - 1  BY DEF phase, S
  <2> QED  BY <2>1, <2>2, <2>3, <2>4, <2>5, <1>1
<1>5. sampleIndex' \in 0 .. S - 1
  BY <1>2, <1>4, Numbers
<1>6. syncCount' \in 0 .. Window  BY <1>1, <1>2, Numbers DEF TypeOK
<1>7. TypeOK'
  BY <1>2, <1>3, <1>5, <1>6 DEF TypeOK, S, F, N, Window, BufferSize, block_size
<1>8. WindowInv'
  <2> SUFFICES ASSUME demodState = "SYNC_UPDATE" PROVE S * Sought + phase' = Window - syncCount'
    BY <1>2 DEF WindowInv, Sought, SeekFrom, S, F, N, Window
  <2>1. S * Sought + phase = Window - syncCount  BY DEF WindowInv
  <2>2. S * Sought \in Nat /\ Window \in Nat /\ syncCount \in Nat
    BY Window1, Multiples, Numbers DEF TypeOK
  <2>3. phase' = phase + k /\ phase \in Nat  BY <1>4 DEF InFrame
  <2> QED  BY <2>1, <2>2, <2>3, <1>1, <1>2
<1>9. NewFrameInv'
  <2> SUFFICES ASSUME newFrame > 0 PROVE InFrame /\ S * symbols + phase' = newFrame' - 1
    BY <1>2, <1>3 DEF NewFrameInv, InFrame, S, TypeOK, block_size
  <2>1. InFrame /\ S * symbols + phase = newFrame - 1  BY DEF NewFrameInv
  <2>2. S * symbols \in Nat /\ newFrame \in Nat  BY Multiples, Numbers DEF TypeOK
  <2>3. phase' = phase + k /\ phase \in Nat  BY <2>1, <1>4
  <2> QED  BY <2>1, <2>2, <2>3, <1>1, <1>2, <1>3
<1> QED  BY <1>7, <1>8, <1>9

LEMMA FollowClock == ClockInv /\ Follow => ClockInv'
<1> SUFFICES ASSUME ClockInv, Follow PROVE ClockInv'  OBVIOUS
<1>0. ClockInv /\ TypeOK /\ Pass(1) /\ TakeSymbol /\ Tick /\ demodState = "LOCKED" /\ InFrame
  BY DEF ClockInv, Follow, InFrame
<1>1. /\ index' \in 0 .. BufferSize - 1 /\ ahead' \in Int /\ word' = word
  BY <1>0, Passed
<1>2. symbols' \in 0 .. F - 1 /\ newFrame' \in 0 .. block_size
      /\ (NewFrameInv' \/ ~(InFrame'))
  BY <1>0, AfterSample
<1>3. sampleIndex' \in 0 .. S - 1 /\ (AtSymbol => phase' = 0)
      /\ late' \in Int
  <2>1. Due(symbols) \in Int
    <3>1. symbols \in 0 .. F - 1  BY <1>0 DEF TypeOK
    <3>2. \A x, y \in Int : x * y \in Int  OBVIOUS
    <3>3. N - 1 - symbols + (IF symbols < N THEN 0 ELSE F) \in Int  BY <3>1, Numbers
    <3> QED  BY <3>2, <3>3, Numbers DEF Due, N, F, S
  <2> QED  BY <1>0, <1>1, <2>1, SampleTaken DEF TypeOK
<1>4. UNCHANGED <<lastSyncWord, missedSyncs, missesInARow>>  BY DEF Follow
<1>5. CASE AtSymbol /\ symbols' = F - N \div 2
  <2>1. demodState' = "SYNC_UPDATE" /\ syncCount' = Window  BY <1>5 DEF Follow, F, N
  <2>2. Sought' = 0
    <3>1. symbols' = SeekFrom /\ SeekFrom \in Nat  BY <1>5, Numbers DEF SeekFrom
    <3>2. Sought' = IF symbols' >= SeekFrom THEN symbols' - SeekFrom ELSE symbols' + N \div 2
      BY DEF Sought, SeekFrom, F, N
    <3> QED  BY <3>1, <3>2
  <2>3. WindowInv'
    <3>1. S * 0 + 0 = Window - Window  BY Numbers
    <3>2. Sought' = 0 /\ phase' = 0 /\ syncCount' = Window  BY <1>3, <1>5, <2>1, <2>2
    <3> QED  BY <3>1, <3>2 DEF WindowInv, S, N, Window
  <2>4. TypeOK'
    BY <1>0, <1>1, <1>2, <1>3, <1>4, <2>1, Numbers DEF TypeOK, S, F, N, Window, BufferSize, block_size
  <2> QED  BY <2>1, <2>3, <2>4, <1>2 DEF ClockInv, InFrame
<1>6. CASE ~(AtSymbol /\ symbols' = F - N \div 2)
  <2>1. demodState' = "LOCKED" /\ syncCount' = syncCount  BY <1>0, <1>6 DEF Follow, F, N
  <2>2. TypeOK'
    BY <1>0, <1>1, <1>2, <1>3, <1>4, <2>1 DEF TypeOK, S, F, N, Window, BufferSize, block_size
  <2> QED  BY <2>1, <2>2, <1>2 DEF ClockInv, InFrame, WindowInv
<1> QED  BY <1>5, <1>6

SyncsOK == IsSync(lsfSync) /\ IsSync(packetSync) /\ peak \in 0 .. BufferSize - 1

LEMMA AgoTyped ==
    \A i, p \in 0 .. BufferSize - 1 : /\ Ago(i, p) \in 0 .. BufferSize - 1
                                      /\ (Ago(i, p) + 1) % S \in 0 .. S - 1
<1> TAKE i, p \in 0 .. BufferSize - 1
<1>1. BufferSize \in Nat \ {0} /\ S \in Nat \ {0}  BY Numbers
<1>2. i + BufferSize - p \in Nat  BY <1>1
<1>3. Ago(i, p) \in 0 .. BufferSize - 1
  BY <1>1, <1>2 DEF Ago
<1> QED  BY <1>1, <1>3

LEMMA CorrTyped == LsfCorr \subseteq -3 .. 3 /\ PacketCorr \subseteq -3 .. 3
<1>1. \A d : Shape(d) \subseteq 0 .. 3
  BY DEF Shape
<1>2. \A d : {-c : c \in Shape(d)} \subseteq -3 .. 3
  BY <1>1
<1>3. LsfCorr \subseteq -3 .. 3  BY <1>1 DEF LsfCorr
<1>4. PacketCorr \subseteq -3 .. 3
  <2>1. CASE Heard("PACKET")
    <3>1. PacketCorr = Shape(ahead - 1)  BY <2>1 DEF PacketCorr
    <3> QED  BY <3>1, <1>1
  <2>2. CASE ~Heard("PACKET") /\ Heard("BERT")
    <3>1. PacketCorr = {-c : c \in Shape(ahead - 1)}  BY <2>2 DEF PacketCorr
    <3> QED  BY <3>1, <1>2
  <2>3. CASE ~Heard("PACKET") /\ ~Heard("BERT")
    BY <2>3 DEF PacketCorr
  <2> QED  BY <2>1, <2>2, <2>3
<1> QED  BY <1>3, <1>4

LEMMA NewTyped == IsSync(NewSynchronizer)
<1>1. DOMAIN (<<>>) = {}  OBVIOUS
<1> QED  BY <1>1 DEF IsSync, NewSynchronizer

\* A sample of SYNC_UPDATE.
LEMMA ResultTyped ==
    ASSUME TypeOK, SyncsOK, NEW u \in Results, Seek(u)
    PROVE  /\ packetSync' = u.sync /\ IsSync(u.sync) /\ UNCHANGED <<lsfSync, peak>>
           /\ u.peak \in 0 .. BufferSize - 1 /\ u.status \in {-1, 0, 1}
           /\ index' \in 0 .. BufferSize - 1
<1>1. PICK corr \in PacketCorr : u \in Update(packetSync, NextIndex(index, 1), corr)
  BY DEF Results
<1>2. NextIndex(index, 1) \in 0 .. BufferSize - 1 /\ index' = NextIndex(index, 1)
  <2>1. Pass(1)  BY DEF Seek
  <2> QED  BY <2>1, Numbers DEF NextIndex, TypeOK, Pass
<1>3. corr \in -3 .. 3  BY CorrTyped
<1>4. IsSync(u.sync) /\ u.peak \in 0 .. BufferSize - 1 /\ u.status \in {-1, 0, 1}
  BY <1>1, <1>2, <1>3, UpdateTyped DEF SyncsOK
<1> QED  BY <1>2, <1>4 DEF Seek

LEMMA SyncsKept ==
    ASSUME TypeOK, SyncsOK, [Next]_vars
    PROVE  SyncsOK'
<1>1. ASSUME UNCHANGED syncs PROVE SyncsOK'
  BY <1>1 DEF syncs, SyncsOK, IsSync, BufferSize
<1>2. ASSUME NEW u \in Results, Seek(u) PROVE SyncsOK'
  <2>1. packetSync' = u.sync /\ IsSync(u.sync) /\ UNCHANGED <<lsfSync, peak>>
    BY <1>2, ResultTyped
  <2> QED  BY <2>1 DEF SyncsOK, IsSync, BufferSize
<1>3. CASE Listen
  <2>1. lsfSync' = NewSynchronizer /\ packetSync' = NewSynchronizer /\ peak' = peak  BY <1>3 DEF Listen
  <2> QED  BY <2>1, NewTyped DEF SyncsOK, IsSync, BufferSize
<1>4. CASE Search
  <2>1. PICK lsfCorr \in LsfCorr, packetCorr \in PacketCorr :
          \E l \in Update(lsfSync, index', lsfCorr), p \in Update(packetSync, index', packetCorr) :
             /\ lsfSync' = l.sync /\ packetSync' = p.sync
             /\ peak' \in {l.peak, p.peak, peak}
    BY <1>4 DEF Search
  <2>2. PICK l \in Update(lsfSync, index', lsfCorr), p \in Update(packetSync, index', packetCorr) :
             /\ lsfSync' = l.sync /\ packetSync' = p.sync
             /\ peak' \in {l.peak, p.peak, peak}
    BY <2>1
  <2>3. index' \in 0 .. BufferSize - 1
    <3>1. Pass(1)  BY <1>4 DEF Search
    <3> QED  BY <3>1, Passed
  <2>4. lsfCorr \in -3 .. 3 /\ packetCorr \in -3 .. 3  BY CorrTyped
  <2>5. IsSync(lsfSync) /\ IsSync(packetSync)  BY DEF SyncsOK
  <2>6. IsSync(l.sync) /\ l.peak \in 0 .. BufferSize - 1
    BY <2>3, <2>4, <2>5, UpdateTyped
  <2>7. IsSync(p.sync) /\ p.peak \in 0 .. BufferSize - 1
    BY <2>3, <2>4, <2>5, UpdateTyped
  <2> QED  BY <2>2, <2>6, <2>7 DEF SyncsOK, IsSync, BufferSize
<1>5. CASE Confirm
  <2>1. peak' = 0 /\ UNCHANGED <<lsfSync, packetSync>>  BY <1>5 DEF Confirm
  <2> QED  BY <2>1, Numbers DEF SyncsOK, IsSync, BufferSize
<1>6. CASE Initialise \/ NoPeak \/ Begin \/ NextFrame \/ NextWord \/ Count \/ Follow \/ ReadFrame \/ UNCHANGED vars
  <2>1. UNCHANGED syncs
    <3>1. CASE Initialise BY <3>1 DEF Initialise, syncs
    <3>2. CASE NoPeak \/ UNCHANGED vars BY <3>2 DEF NoPeak, syncs, vars
    <3>3. CASE Begin BY <3>3 DEF Begin, syncs
    <3>4. CASE NextFrame BY <3>4 DEF NextFrame, syncs
    <3>5. CASE NextWord BY <3>5 DEF NextWord, syncs
    <3>6. CASE Count BY <3>6 DEF Count, syncs
    <3>7. CASE Follow BY <3>7 DEF Follow, syncs
    <3>8. CASE ReadFrame BY <3>8 DEF ReadFrame, syncs
    <3> QED  BY <1>6, <3>1, <3>2, <3>3, <3>4, <3>5, <3>6, <3>7, <3>8
  <2> QED  BY <1>1, <2>1
<1>7. CASE FindEot  BY <1>2, <1>7 DEF FindEot
<1>8. CASE Await \/ LoseLock \/ \E w \in SyncWords : GuessSync(w)
  <2>1. NotFound  BY <1>8 DEF Await, LoseLock, GuessSync, Miss
  <2> QED  BY <2>1, <1>2 DEF NotFound
<1>9. CASE \E w \in SyncWords : FindSync(w)
  BY <1>2, <1>9 DEF FindSync
<1> QED  BY <1>3, <1>4, <1>5, <1>6, <1>7, <1>8, <1>9 DEF Next

ClockOK == ClockInv /\ SyncsOK

LEMMA InitClockOK == Init => ClockOK
<1>1. Init => SyncsOK  BY NewTyped, Numbers DEF Init, SyncsOK
<1> QED  BY <1>1, InitClock DEF ClockOK

LEMMA SampleTyped ==
    ASSUME TypeOK, Pass(1), TakeSymbol
    PROVE  /\ index' \in 0 .. BufferSize - 1 /\ ahead' \in Int /\ word' = word
           /\ symbols' \in 0 .. F - 1 /\ late' \in Int
<1>1. /\ index' \in 0 .. BufferSize - 1 /\ ahead' \in Int /\ word' = word
  BY Passed
<1>2. Due(symbols) \in Int
  <2>1. symbols \in 0 .. F - 1  BY DEF TypeOK
  <2>2. \A x, y \in Int : x * y \in Int  OBVIOUS
  <2>3. N - 1 - symbols + (IF symbols < N THEN 0 ELSE F) \in Int  BY <2>1, Numbers
  <2> QED  BY <2>2, <2>3, Numbers DEF Due, N, F, S
<1>3. symbols' \in 0 .. F - 1
  <2>1. symbols \in 0 .. F - 1 /\ F \in Nat /\ F > 1  BY Numbers DEF TypeOK
  <2>2. symbols' = symbols \/ symbols' = (IF symbols = F - 1 THEN 0 ELSE symbols + 1)  BY SampleTaken
  <2> QED  BY <2>1, <2>2
<1> QED  BY <1>1, <1>2, <1>3, SampleTaken DEF TypeOK

\* Outside frames nothing counts, and a frame's counts stay while no sample is taken.
LEMMA OutsideClock ==
    ASSUME ClockOK,
           Initialise \/ Listen \/ NoPeak \/ Begin \/ NextFrame \/ NextWord \/ Search \/ ReadFrame
    PROVE  ClockInv'
<1> USE DEF ClockOK, ClockInv
<1>1. ASSUME UNCHANGED <<demodState, sampleIndex, symbols, syncCount, newFrame>>, TypeOK'
      PROVE  ClockInv'
  BY <1>1 DEF WindowInv, NewFrameInv, InFrame, Sought, SeekFrom, phase, S, F, N, Window
<1>2. ASSUME newFrame' = 0, demodState' # "SYNC_UPDATE", TypeOK'
      PROVE  ClockInv'
  BY <1>2 DEF WindowInv, NewFrameInv
<1>3. CASE NoPeak
  BY <1>3, <1>1 DEF NoPeak, vars, TypeOK, machine, syncs, frame, signal, S, F, BufferSize, Window, block_size
<1>4. CASE Begin
  <2>1. index' \in Places /\ word' \in Words({"LSF", "BERT"}) /\ ahead' = 3  BY <1>4 DEF Begin
  <2>2. UNCHANGED <<machine, syncs, frame, sampleIndex, syncCount, newFrame>>  BY <1>4 DEF Begin
  <2>3. word' \in [kind : SyncWords, heard : {"well", "peak", "not", "due"}]
    BY <2>1 DEF Words, SyncWords
  <2>4. index' \in 0 .. BufferSize - 1  BY <2>1, FrameAssumption
  <2>5. TypeOK'
    BY <2>1, <2>2, <2>3, <2>4 DEF TypeOK, machine, frame, S, F, BufferSize, Window, block_size
  <2> QED  BY <2>2, <2>5, <1>1 DEF machine, frame
<1>5. CASE NextFrame
  <2>1. word' = Awaited(word) /\ ahead' = ahead + FrameLength
        /\ UNCHANGED <<words, machine, syncs, frame, index, sampleIndex, syncCount, newFrame>>
    BY <1>5 DEF NextFrame
  <2>2. word' \in [kind : SyncWords, heard : {"well", "peak", "not", "due"}]
    BY <2>1 DEF Awaited, TypeOK
  <2>3. FrameLength \in Int
    <3>1. \A x, y \in Int : x * y \in Int  OBVIOUS
    <3> QED  BY <3>1, Numbers DEF FrameLength, F, S
  <2>4. ahead' \in Int  BY <2>1, <2>3 DEF TypeOK
  <2>5. TypeOK'
    BY <2>1, <2>2, <2>4 DEF TypeOK, machine, frame, S, F, BufferSize, Window, block_size
  <2> QED  BY <2>1, <2>5, <1>1 DEF machine, frame
<1>6. CASE NextWord
  <2>1. UNCHANGED <<machine, syncs, frame, index, sampleIndex, syncCount, newFrame>>
    BY <1>6 DEF NextWord
  <2>2. word' \in Words(After(word.kind)) \/ word' = NoWord  BY <1>6 DEF NextWord
  <2>3. word' \in [kind : SyncWords, heard : {"well", "peak", "not", "due"}]
    <3>1. After(word.kind) \subseteq SyncWords  BY DEF After, SyncWords
    <3> QED  BY <2>2, <3>1 DEF Words, NoWord, SyncWords
  <2>4. ahead' \in Int
    <3>1. ahead' = ahead \/ \E drift \in Drifts : ahead' = ahead + drift  BY <1>6 DEF NextWord
    <3> QED  BY <3>1, FrameAssumption DEF TypeOK
  <2>5. TypeOK'
    BY <2>1, <2>3, <2>4 DEF TypeOK, machine, frame, S, F, BufferSize, Window, block_size
  <2> QED  BY <2>1, <2>5, <1>1 DEF machine, frame
<1>7. CASE ReadFrame
  <2>1. newFrame' = 0 /\ UNCHANGED <<machine, syncs, frame, signal, index, sampleIndex, syncCount>>
    BY <1>7 DEF ReadFrame
  <2>2. TypeOK'
    BY <2>1 DEF TypeOK, machine, frame, signal, S, F, BufferSize, Window, block_size
  <2>3. WindowInv'
    BY <2>1 DEF machine, frame, WindowInv, Sought, SeekFrom, phase, S, F, N, Window
  <2> QED  BY <2>1, <2>2, <2>3 DEF NewFrameInv
<1>8. ASSUME ~InFrame PROVE newFrame = 0
  BY <1>8 DEF NewFrameInv, TypeOK
<1>9. CASE Initialise
  <2>1. /\ demodState = "INIT" /\ demodState' = "UNLOCKED"
        /\ UNCHANGED <<locked, lastSyncWord, missedSyncs, missesInARow, syncs, frame, signal,
                       index, sampleIndex, syncCount, newFrame>>
    BY <1>9 DEF Initialise
  <2>2. newFrame = 0  BY <2>1, <1>8 DEF InFrame
  <2>3. TypeOK'
    BY <2>1 DEF TypeOK, frame, signal, S, F, BufferSize, Window, block_size
  <2> QED  BY <2>1, <2>2, <2>3, <1>2
<1>10. CASE Listen
  <2>1. /\ demodState = "UNLOCKED" /\ demodState' = "ARMED" /\ lastSyncWord' = "NONE"
        /\ index' = 0 /\ sampleIndex' = 0 /\ syncCount' = 0
        /\ symbols' = 0 /\ late' = 0 /\ word' = NoWord /\ ahead' = 0
        /\ UNCHANGED <<missedSyncs, missesInARow, newFrame>>
    BY <1>10 DEF Listen
  <2>2. newFrame = 0  BY <2>1, <1>8 DEF InFrame
  <2>3. NoWord \in [kind : SyncWords, heard : {"well", "peak", "not", "due"}]
    BY DEF NoWord, SyncWords
  <2>4. 0 \in 0 .. BufferSize - 1 /\ 0 \in 0 .. S - 1 /\ 0 \in 0 .. F - 1 /\ 0 \in 0 .. Window
        /\ "NONE" \in SyncWords
    BY Numbers DEF SyncWords
  <2>5. TypeOK'
    BY <2>1, <2>3, <2>4 DEF TypeOK, S, F, BufferSize, Window, block_size
  <2> QED  BY <2>1, <2>2, <2>5, <1>2
<1>11. CASE Search
  <2>1. /\ demodState = "ARMED" /\ Pass(1)
        /\ demodState' \in {"SYNCED", "ARMED"} /\ lastSyncWord' \in {"LSF", "BERT", lastSyncWord}
        /\ UNCHANGED <<locked, missedSyncs, missesInARow, frame, sampleIndex, syncCount, newFrame>>
    BY <1>11 DEF Search
  <2>2. newFrame = 0  BY <2>1, <1>8 DEF InFrame
  <2>3. index' \in 0 .. BufferSize - 1 /\ ahead' \in Int /\ word' = word  BY <2>1, Passed
  <2>4. lastSyncWord' \in SyncWords  BY <2>1 DEF TypeOK, SyncWords
  <2>5. TypeOK'
    BY <2>1, <2>3, <2>4 DEF TypeOK, frame, S, F, BufferSize, Window, block_size
  <2> QED  BY <2>1, <2>2, <2>5, <1>2
<1> QED  BY <1>3, <1>4, <1>5, <1>6, <1>7, <1>9, <1>10, <1>11

LEMMA ConfirmClock == ClockOK /\ Confirm => ClockInv'
<1> SUFFICES ASSUME ClockOK, Confirm PROVE ClockInv'  OBVIOUS
<1> USE DEF ClockOK, ClockInv
<1>1. /\ demodState = "SYNCED" /\ Pass(1)
      /\ late' = 0 - ahead' - Ago(index', peak) /\ symbols' = N
      /\ demodState' \in {"LOCKED", "UNLOCKED"}
      /\ sampleIndex' \in {(Ago(index', peak) + 1) % S, sampleIndex}
      /\ missesInARow' \in {0, missesInARow}
      /\ UNCHANGED <<lastSyncWord, missedSyncs, syncCount, newFrame>>
  BY DEF Confirm, N, S
<1>2. newFrame = 0  BY <1>1 DEF NewFrameInv, TypeOK, InFrame
<1>3. index' \in 0 .. BufferSize - 1 /\ ahead' \in Int /\ word' = word  BY <1>1, Passed
<1>4. peak \in 0 .. BufferSize - 1  BY DEF SyncsOK
<1>5. Ago(index', peak) \in 0 .. BufferSize - 1 /\ (Ago(index', peak) + 1) % S \in 0 .. S - 1
  BY <1>3, <1>4, AgoTyped
<1>6. late' \in Int /\ sampleIndex' \in 0 .. S - 1 /\ symbols' \in 0 .. F - 1
  BY <1>1, <1>3, <1>5, Numbers DEF TypeOK
<1>7. TypeOK'
  BY <1>1, <1>3, <1>6 DEF TypeOK, S, F, BufferSize, Window, block_size
<1> QED  BY <1>1, <1>2, <1>7 DEF WindowInv, NewFrameInv

\* A sample of SYNC_UPDATE, whatever is found.
LEMMA SeekTyped ==
    ASSUME ClockOK, NEW u \in Results, Seek(u)
    PROVE  /\ demodState = "SYNC_UPDATE" /\ InFrame /\ Pass(1) /\ TakeSymbol
           /\ index' \in 0 .. BufferSize - 1 /\ ahead' \in Int /\ word' = word
           /\ symbols' \in 0 .. F - 1 /\ late' \in Int /\ newFrame' \in 0 .. block_size
           /\ (Ago(index', u.peak) + 1) % S \in 0 .. S - 1
           /\ Tick => sampleIndex' \in 0 .. S - 1
<1> USE DEF ClockOK, ClockInv
<1>1. demodState = "SYNC_UPDATE" /\ InFrame /\ Pass(1) /\ TakeSymbol  BY DEF Seek, InFrame
<1>2. index' \in 0 .. BufferSize - 1 /\ ahead' \in Int /\ word' = word
      /\ symbols' \in 0 .. F - 1 /\ late' \in Int
  BY <1>1, SampleTyped
<1>3. newFrame' \in 0 .. block_size  BY <1>1, AfterSample
<1>4. u.peak \in 0 .. BufferSize - 1  BY ResultTyped
<1>5. (Ago(index', u.peak) + 1) % S \in 0 .. S - 1  BY <1>2, <1>4, AgoTyped
<1> QED  BY <1>1, <1>2, <1>3, <1>5, SampleTaken

LEMMA FindClock == ClockOK /\ (FindEot \/ \E w \in SyncWords : FindSync(w)) => ClockInv'
<1> SUFFICES ASSUME ClockOK, FindEot \/ \E w \in SyncWords : FindSync(w) PROVE ClockInv'  OBVIOUS
<1>1. PICK u \in Results :
         /\ Seek(u) /\ symbols' = N
         /\ Tick \/ sampleIndex' = (Ago(index', u.peak) + 1) % S
         /\ demodState' \in {"LOCKED", "UNLOCKED"} /\ lastSyncWord' \in {"PACKET", "BERT", "EOT"}
         /\ missedSyncs' = 0 /\ missesInARow' = 0 /\ syncCount' = 0
  <2>1. CASE FindEot  BY <2>1 DEF FindEot, InPlace, N
  <2>2. CASE \E w \in SyncWords : FindSync(w)  BY <2>2 DEF FindSync, Found, InPlace, N, S
  <2> QED  BY <2>1, <2>2
<1>2. /\ demodState = "SYNC_UPDATE" /\ InFrame /\ Pass(1) /\ TakeSymbol
      /\ index' \in 0 .. BufferSize - 1 /\ ahead' \in Int /\ word' = word
      /\ symbols' \in 0 .. F - 1 /\ late' \in Int /\ newFrame' \in 0 .. block_size
      /\ sampleIndex' \in 0 .. S - 1
  BY <1>1, SeekTyped
<1>3. newFrame' = 0  BY <1>1, <1>2, AfterSample DEF ClockOK
<1>4. TypeOK'
  <2>1. lastSyncWord' \in SyncWords  BY <1>1 DEF SyncWords
  <2>2. syncCount' \in 0 .. Window  BY <1>1, Numbers
  <2> QED
    BY <1>1, <1>2, <2>1, <2>2 DEF TypeOK, ClockOK, ClockInv, S, F, BufferSize, Window, block_size
<1> QED  BY <1>1, <1>3, <1>4 DEF ClockInv, WindowInv, NewFrameInv

LEMMA AwaitClock == ClockOK /\ Await => ClockInv'
<1> SUFFICES ASSUME ClockOK, Await PROVE ClockInv'  OBVIOUS
<1>1. PICK u \in Results : Seek(u)  BY DEF Await, NotFound
<1>2. /\ Tick /\ syncCount > 0 /\ syncCount' = syncCount - 1
      /\ UNCHANGED <<demodState, lastSyncWord, missedSyncs, missesInARow>>
  BY DEF Await, NotFound, machine
<1>3. /\ demodState = "SYNC_UPDATE" /\ InFrame /\ Pass(1) /\ TakeSymbol
      /\ index' \in 0 .. BufferSize - 1 /\ ahead' \in Int /\ word' = word
      /\ symbols' \in 0 .. F - 1 /\ late' \in Int /\ newFrame' \in 0 .. block_size
      /\ sampleIndex' \in 0 .. S - 1
  BY <1>1, <1>2, SeekTyped
<1>4. WindowInv'  BY <1>2, <1>3, SeekWindow DEF ClockOK
<1>5. NewFrameInv'
  <2>1. NewFrameInv' \/ ~(InFrame')  BY <1>2, <1>3, AfterSample DEF ClockOK
  <2> QED  BY <2>1, <1>2, <1>3 DEF InFrame
<1>6. syncCount' \in 0 .. Window  BY <1>2, Numbers DEF ClockOK, ClockInv, TypeOK
<1>7. TypeOK'
  BY <1>2, <1>3, <1>6 DEF TypeOK, ClockOK, ClockInv, S, F, BufferSize, Window, block_size
<1> QED  BY <1>4, <1>5, <1>7 DEF ClockInv

\* The window closes a frame's worth of calls after the frame was complete.
LEMMA MissClock ==
    ASSUME ClockOK, LoseLock \/ \E w \in SyncWords : GuessSync(w)
    PROVE  ClockInv' /\ symbols >= N /\ symbols = 2 * N - (N \div 2) /\ demodState = "SYNC_UPDATE"
<1> USE DEF ClockOK, ClockInv
<1>1. PICK u \in Results :
         /\ Seek(u) /\ Tick /\ syncCount = 0 /\ syncCount' = 0
         /\ demodState' \in {"LOCKED", "UNLOCKED"} /\ lastSyncWord' \in SyncWords
         /\ missedSyncs' = (missedSyncs + 1) % 256 /\ missesInARow' = missesInARow + 1
  <2>1. Miss  BY DEF LoseLock, GuessSync
  <2>2. lastSyncWord' \in SyncWords /\ demodState' \in {"LOCKED", "UNLOCKED"}
    BY DEF LoseLock, GuessSync, TypeOK
  <2> QED  BY <2>1, <2>2 DEF Miss, NotFound
<1>2. /\ demodState = "SYNC_UPDATE" /\ InFrame /\ Pass(1) /\ TakeSymbol
      /\ index' \in 0 .. BufferSize - 1 /\ ahead' \in Int /\ word' = word
      /\ symbols' \in 0 .. F - 1 /\ late' \in Int /\ newFrame' \in 0 .. block_size
      /\ sampleIndex' \in 0 .. S - 1
  BY <1>1, SeekTyped
<1>3. symbols = 2 * N - (N \div 2)  BY <1>1, <1>2, Window1
<1>4. symbols >= N
  <2> DEFINE h == N \div 2
  <2>1. h \in Nat /\ 2 * h <= N /\ N \in Nat  BY Numbers
  <2>2. symbols = 2 * N - h  BY <1>3
  <2> HIDE DEF h
  <2> QED  BY <2>1, <2>2
<1>5. NewFrameInv'
  <2>1. NewFrameInv' \/ ~(InFrame')  BY <1>1, <1>2, AfterSample
  <2>2. newFrame = 0
    <3> SUFFICES ASSUME newFrame > 0 PROVE FALSE  BY DEF TypeOK, block_size
    <3>1. symbols < N  BY NewFrameEarly
    <3>2. symbols \in Nat /\ N \in Nat  BY Numbers DEF TypeOK
    <3> QED  BY <3>1, <3>2, <1>4
  <2>3. newFrame' = 0
    <3>1. newFrame' = IF AtSymbol /\ symbols' = 0 THEN 1 ELSE Unread(1)  BY <1>2, SampleTaken
    <3>2. Unread(1) = 0  BY <2>2 DEF Unread
    <3>3. AtSymbol => symbols' # 0
      <4>1. AtSymbol => symbols' = IF symbols = F - 1 THEN 0 ELSE symbols + 1  BY <1>2, SampleTaken
      <4>2. symbols # F - 1
        <5> DEFINE h == N \div 2
        <5>1. h \in Nat /\ N \in Nat /\ F \in Nat /\ 2 * N < F - 2  BY Numbers
        <5>2. symbols = 2 * N - h  BY <1>3
        <5> HIDE DEF h
        <5> QED  BY <5>1, <5>2
      <4>3. symbols \in Nat  BY DEF TypeOK
      <4> QED  BY <4>1, <4>2, <4>3
    <3> QED  BY <3>1, <3>2, <3>3
  <2> QED  BY <2>3 DEF NewFrameInv
<1>6. syncCount' \in 0 .. Window  BY <1>1, Numbers
<1>7. missedSyncs' \in Nat /\ missesInARow' \in Nat
  BY <1>1 DEF TypeOK
<1>8. TypeOK'
  BY <1>1, <1>2, <1>6, <1>7 DEF TypeOK, S, F, BufferSize, Window, block_size
<1>9. WindowInv'  BY <1>1 DEF WindowInv
<1> QED  BY <1>2, <1>3, <1>4, <1>5, <1>8, <1>9

LEMMA NextClock ==
    ASSUME ClockOK, [Next]_vars
    PROVE  ClockOK'
<1>1. SyncsOK'  BY SyncsKept DEF ClockOK, ClockInv
<1>2. ClockInv'
  <2>1. CASE UNCHANGED vars
    <3>1. UNCHANGED <<demodState, locked, lastSyncWord, missedSyncs, missesInARow, symbols, nearest, late,
                      word, words, ahead, index, sampleIndex, syncCount, newFrame>>
      BY <2>1 DEF vars, machine, frame, signal
    <3>2. TypeOK'
      BY <3>1 DEF TypeOK, ClockOK, ClockInv, S, F, BufferSize, Window, block_size
    <3>3. WindowInv' /\ NewFrameInv'
      BY <3>1 DEF ClockOK, ClockInv, WindowInv, NewFrameInv, InFrame, Sought, SeekFrom, phase, S, F, N, Window
    <3> QED  BY <3>2, <3>3 DEF ClockInv
  <2>2. CASE Initialise \/ Listen \/ NoPeak \/ Begin \/ NextFrame \/ NextWord \/ Search \/ ReadFrame
    BY <2>2, OutsideClock
  <2>3. CASE Count \/ Follow  BY <2>3, CountClock, FollowClock DEF ClockOK
  <2>4. CASE Confirm  BY <2>4, ConfirmClock
  <2>5. CASE FindEot \/ \E w \in SyncWords : FindSync(w)  BY <2>5, FindClock
  <2>6. CASE Await  BY <2>6, AwaitClock
  <2>7. CASE LoseLock \/ \E w \in SyncWords : GuessSync(w)  BY <2>7, MissClock
  <2> QED  BY <2>1, <2>2, <2>3, <2>4, <2>5, <2>6, <2>7 DEF Next
<1> QED  BY <1>1, <1>2 DEF ClockOK

LEMMA Clock == Spec => []ClockOK
BY InitClockOK, NextClock, PTL DEF Spec

\* radio_thread always reads a frame before the sync word after it is decided:
\* updateFrame() does not write the next frame's symbols over one that is unread.
THEOREM ReadInTimeHolds == Spec => []ReadInTime
<1>1. ClockOK => ReadInTime
  <2> SUFFICES ASSUME ClockOK, symbols >= N, newFrame > 0 PROVE FALSE
    BY DEF ReadInTime, ClockOK, ClockInv, TypeOK, N, F, block_size
  <2>1. symbols < N /\ symbols \in Nat  BY NewFrameEarly DEF ClockOK, ClockInv, TypeOK
  <2> QED  BY <2>1, Numbers
<1> QED  BY <1>1, Clock, PTL

(***************************************************************************)
(* The calls of update().                                                  *)
(***************************************************************************)

\* The sync word is decided with the frame complete, and the window is closed
\* before the next frame is half taken.
LEMMA DecidedComplete ==
    ASSUME ClockOK, demodState = "SYNC_UPDATE"
    PROVE  /\ symbols <= 2 * N - (N \div 2) => Complete
           /\ Pass(1) /\ TakeSymbol /\ symbols' = N => Complete
           /\ Pass(1) /\ TakeSymbol /\ Complete /\ syncCount > 0 => symbols' < F \div 2
<1> USE DEF ClockOK, ClockInv
<1> DEFINE h == N \div 2
           g == F \div 2
<1>1. /\ h \in Nat /\ g \in Nat /\ N \in Nat \ {0} /\ F \in Nat /\ F > 3 * N + 2
      /\ N <= 2 * h + 1 /\ 2 * h <= N /\ F <= 2 * g + 1
  BY Numbers
<1>2. Complete <=> symbols < g  BY DEF Complete, F
<1>3. symbols \in 0 .. F - 1  BY DEF TypeOK
<1>4. Sought = IF symbols >= F - h THEN symbols - (F - h) ELSE symbols + h
  BY DEF Sought, SeekFrom
<1>5. TakeSymbol => symbols' = symbols \/ symbols' = (IF symbols = F - 1 THEN 0 ELSE symbols + 1)
  BY SampleTaken
<1>6. syncCount > 0 => Sought < 2 * N
  <2>1. Sought \in Nat /\ phase \in 0 .. S - 1  BY Window1
  <2>2. S * Sought + phase = 2 * (N * S) - syncCount  BY Numbers DEF WindowInv
  <2>3. Sought >= 2 * N => S * Sought >= S * (2 * N)
    <3>1. 2 * N \in Nat /\ S \in Nat  BY Numbers
    <3> QED  BY <3>1, <2>1, Multiples
  <2>4. S * (2 * N) = 2 * (N * S)  BY Numbers
  <2>5. syncCount \in Nat /\ N * S \in Nat /\ S * Sought \in Nat
    <3>1. syncCount \in Nat  BY Numbers DEF TypeOK
    <3> QED  BY <3>1, <2>1, Numbers, Multiples
  <2> QED  BY <2>1, <2>2, <2>3, <2>4, <2>5, Numbers
<1> HIDE DEF h, g
<1>7. symbols <= 2 * N - h => symbols < g  BY <1>1, <1>3
<1>8. TakeSymbol /\ symbols' = N => symbols < g  BY <1>1, <1>3, <1>5
<1>9. TakeSymbol /\ symbols < g /\ syncCount > 0 => symbols' < g
  <2> SUFFICES ASSUME TakeSymbol, symbols < g, syncCount > 0 PROVE symbols' < g  OBVIOUS
  <2>1. h <= g /\ g <= F - h  BY <1>1, Numbers DEF h, g
  <2>2. symbols + h < 2 * N
    <3>1. symbols < F - h  BY <2>1, <1>1, <1>3
    <3> QED  BY <3>1, <1>4, <1>6, <1>1, <1>3
  <2>3. symbols' <= symbols + 1 /\ symbols' \in Int  BY <1>3, <1>5, <1>1
  <2> QED  BY <2>2, <2>3, <1>1, <1>3
<1> QED  BY <1>2, <1>7, <1>8, <1>9 DEF h, g

LEMMA FoundComplete ==
    ASSUME ClockOK, NEW u \in Results, Seek(u), symbols' = N
    PROVE  Complete /\ demodState = "SYNC_UPDATE"
<1>1. demodState = "SYNC_UPDATE" /\ Pass(1) /\ TakeSymbol  BY DEF Seek
<1> QED  BY <1>1, DecidedComplete

\* A step of a sample is a step of a call or none.
LEMMA CallStep ==
    ASSUME ClockOK, [Next]_vars
    PROVE  [Demodulator!DemodNext]_(Demodulator!demodVars)
<1> USE DEF Demodulator!DemodNext, Demodulator!demodVars
<1>1. ASSUME UNCHANGED <<machine, symbols>> PROVE UNCHANGED Demodulator!demodVars
  BY <1>1 DEF machine, Complete
<1>2. CASE Begin \/ NextFrame \/ NextWord \/ Count \/ NoPeak \/ ReadFrame \/ UNCHANGED vars
  <2>1. CASE Begin  BY <2>1, <1>1 DEF Begin, frame
  <2>2. CASE NextFrame  BY <2>2, <1>1 DEF NextFrame, frame
  <2>3. CASE NextWord  BY <2>3, <1>1 DEF NextWord, frame
  <2>4. CASE Count  BY <2>4, <1>1 DEF Count, frame
  <2>5. CASE NoPeak \/ UNCHANGED vars  BY <2>5, <1>1 DEF NoPeak, vars, frame
  <2>6. CASE ReadFrame  BY <2>6, <1>1 DEF ReadFrame, frame
  <2> QED  BY <1>2, <2>1, <2>2, <2>3, <2>4, <2>5, <2>6
<1>3. CASE Initialise
  <2>1. Demodulator!Initialise
    BY <1>3 DEF Initialise, Demodulator!Initialise, Demodulator!Returns, Complete
  <2> QED  BY <2>1
<1>4. CASE Listen
  <2>1. Demodulator!Listen
    BY <1>4 DEF Listen, Demodulator!Listen, Demodulator!Returns, Complete
  <2> QED  BY <2>1
<1>5. CASE Search
  <2>1. /\ demodState = "ARMED"
        /\ UNCHANGED <<locked, missedSyncs, missesInARow>> /\ symbols' = symbols
        /\ \/ demodState' = "SYNCED" /\ lastSyncWord' \in {"LSF", "BERT"}
           \/ UNCHANGED <<demodState, lastSyncWord>>
    BY <1>5 DEF Search, frame
  <2>2. CASE demodState' = "SYNCED" /\ lastSyncWord' \in {"LSF", "BERT"}
    <3>1. Demodulator!FindPeak(lastSyncWord')
      BY <2>1, <2>2 DEF Demodulator!FindPeak, Demodulator!Returns, Complete
    <3>2. lastSyncWord' \in Demodulator!SyncWords  BY <2>2 DEF Demodulator!SyncWords
    <3> QED  BY <3>1, <3>2
  <2>3. CASE UNCHANGED <<demodState, lastSyncWord>>
    BY <2>1, <2>3, <1>1 DEF machine
  <2> QED  BY <2>1, <2>2, <2>3
<1>6. CASE Confirm
  <2>1. demodState = "SYNCED" /\ UNCHANGED <<lastSyncWord, missedSyncs>>  BY <1>6 DEF Confirm
  <2>2. CASE demodState' = "LOCKED" /\ locked' = TRUE /\ missesInARow' = 0
    <3>1. Demodulator!Lock
      BY <2>1, <2>2 DEF Demodulator!Lock, Demodulator!Returns, Complete
    <3> QED  BY <3>1
  <2>3. CASE demodState' = "UNLOCKED" /\ UNCHANGED <<locked, missesInARow>>
    <3>1. Demodulator!RejectPeak
      BY <2>1, <2>3 DEF Demodulator!RejectPeak, Demodulator!Returns, Complete
    <3> QED  BY <3>1
  <2> QED  BY <1>6, <2>2, <2>3 DEF Confirm
<1>7. CASE Follow
  <2>1. /\ demodState = "LOCKED"
        /\ \/ demodState' = "SYNC_UPDATE" /\ symbols' = F - (N \div 2)
           \/ demodState' = "LOCKED"
        /\ UNCHANGED <<locked, lastSyncWord, missedSyncs, missesInARow>>
    BY <1>7 DEF Follow, F, N
  <2>2. ~Complete  BY <2>1 DEF Complete
  <2>3. ~Complete'
    <3>1. SeekFrom \in Nat /\ SeekFrom >= F \div 2 /\ F \div 2 \in Nat  BY Numbers
    <3> QED  BY <2>1, <3>1 DEF Complete, F, SeekFrom
  <2> QED  BY <2>1, <2>2, <2>3
<1>8. CASE FindEot
  <2>1. PICK u \in Results : Seek(u) /\ symbols' = N  BY <1>8 DEF FindEot, InPlace, N
  <2>2. Complete /\ demodState = "SYNC_UPDATE"  BY <2>1, FoundComplete
  <2>3. Demodulator!FindEot
    BY <1>8, <2>2 DEF FindEot, Demodulator!FindEot, Demodulator!Returns, Complete
  <2> QED  BY <2>3
<1>9. CASE \E w \in SyncWords : FindSync(w)
  <2>1. PICK w \in SyncWords : FindSync(w)  BY <1>9
  <2>2. PICK u \in Results : Seek(u) /\ symbols' = N  BY <2>1 DEF FindSync, Found, InPlace, N
  <2>3. Complete /\ demodState = "SYNC_UPDATE"  BY <2>2, FoundComplete
  <2>4. /\ w \in {"PACKET", "BERT"} /\ demodState' = "LOCKED" /\ lastSyncWord' = w
        /\ missedSyncs' = 0 /\ missesInARow' = 0 /\ locked' = locked
    BY <2>1 DEF FindSync
  <2>5. Demodulator!FindSync(w)
    BY <2>3, <2>4 DEF Demodulator!FindSync, Demodulator!Returns, Complete
  <2>6. w \in Demodulator!SyncWords  BY <2>4 DEF Demodulator!SyncWords
  <2> QED  BY <2>5, <2>6
<1>10. CASE Await
  <2>1. PICK u \in Results : Seek(u)  BY <1>10 DEF Await, NotFound
  <2>2. demodState = "SYNC_UPDATE" /\ Pass(1) /\ TakeSymbol /\ syncCount > 0
        /\ UNCHANGED <<demodState, locked, lastSyncWord, missedSyncs, missesInARow>>
    BY <1>10, <2>1 DEF Await, Seek, machine
  <2>3. Complete => Complete'  BY <2>2, DecidedComplete DEF Complete, F
  <2>4. CASE ~Complete /\ Complete'
    <3>1. Demodulator!CompleteFrame
      BY <2>2, <2>4 DEF Demodulator!CompleteFrame, Demodulator!Returns
    <3> QED  BY <3>1
  <2>5. CASE Complete <=> Complete'  BY <2>2, <2>5
  <2> QED  BY <2>3, <2>4, <2>5
<1>11. CASE LoseLock
  <2>1. demodState = "SYNC_UPDATE" /\ symbols = 2 * N - (N \div 2)  BY <1>11, MissClock
  <2>2. Complete
    <3>1. symbols \in Nat  BY DEF ClockOK, ClockInv, TypeOK
    <3> QED  BY <2>1, <3>1, DecidedComplete
  <2>3. Demodulator!LoseLock
    BY <1>11, <2>1, <2>2 DEF LoseLock, Miss, Demodulator!LoseLock, Demodulator!CountMiss,
       Demodulator!TooManyMisses, Demodulator!MaxMissed, MaxMissed, Demodulator!Returns, Complete
  <2> QED  BY <2>3
<1>12. CASE \E w \in SyncWords : GuessSync(w)
  <2>1. PICK w \in SyncWords : GuessSync(w)  BY <1>12
  <2>2. demodState = "SYNC_UPDATE" /\ symbols = 2 * N - (N \div 2)  BY <1>12, MissClock
  <2>3. Complete
    <3>1. symbols \in Nat  BY DEF ClockOK, ClockInv, TypeOK
    <3> QED  BY <2>2, <3>1, DecidedComplete
  <2>4. missedSyncs \in Nat  BY DEF ClockOK, ClockInv, TypeOK
  <2>5. w \in Demodulator!SyncWords /\ w # "NONE"
    BY <2>1 DEF GuessSync, SyncWords, Demodulator!SyncWords
  <2>6. /\ missedSyncs < 4 /\ lastSyncWord' = w
        /\ demodState' = IF w = "EOT" THEN "UNLOCKED" ELSE "LOCKED"
        /\ locked' = (w # "EOT")
        /\ missedSyncs' = (missedSyncs + 1) % 256 /\ missesInARow' = missesInARow + 1
    BY <2>1 DEF GuessSync, Miss, MaxMissed
  <2>7. Demodulator!GuessSync(w)
    BY <2>2, <2>3, <2>4, <2>5, <2>6 DEF Demodulator!GuessSync, Demodulator!CountMiss,
       Demodulator!TooManyMisses, Demodulator!MaxMissed, Demodulator!Returns, Complete
  <2> QED  BY <2>5, <2>7
<1> QED  BY <1>2, <1>3, <1>4, <1>5, <1>6, <1>7, <1>8, <1>9, <1>10, <1>11, <1>12 DEF Next

\* Sample by sample the demodulator does what M17Demodulator says of its calls:
\* every frame it returns is returned once, and every sync word is decided while
\* the frame before it is the one returned.
THEOREM ImplementsM17DemodulatorHolds == Spec => ImplementsM17Demodulator
<1>1. Init => Demodulator!DemodInit
  BY DEF Init, Demodulator!DemodInit, SyncWords, Demodulator!SyncWords, Complete
<1> QED  BY <1>1, Clock, CallStep, PTL DEF ImplementsM17Demodulator, Spec, Demodulator!DemodSpec

(***************************************************************************)
(* The search of a peak.  The correlation with the sync word due is as     *)
(* high as Height says at these distances from its last symbol, and place  *)
(* i of the ring is a samples before it.                                   *)
(***************************************************************************)
Height(d) == CASE d = 2 -> {1}
               [] d = 1 -> {2}
               [] d = 0 -> {3}
               [] OTHER -> {2, 3}

Place(i, a, d) == IF i >= d - a THEN i - (d - a) ELSE i + BufferSize - (d - a)

Sounds(w, kinds) == w.kind \in kinds /\ w.heard \in {"well", "peak"}
Signed(w, c)     == IF w.kind = "BERT" THEN -c ELSE c

\* What a synchronizer holds on the way up: the correlations since it was
\* triggered, all but the one at the last place of the ring.
Rising(s, w, i, a) ==
    /\ a \in -1 .. 2
    /\ DOMAIN s.values \subseteq {Place(i, a, d) : d \in a .. 2}
    /\ \A d \in a .. 2 : Place(i, a, d) \in DOMAIN s.values =>
          /\ Signed(w, s.values[Place(i, a, d)]) \in Height(d)
          /\ d > a => Place(i, a, d - 1) \in DOMAIN s.values \cup {HistorySize}
    /\ Signed(w, s.last_corr) \in Height(a)
    /\ i \in DOMAIN s.values \cup {HistorySize}
    /\ a = -1 => Place(i, a, 0) \in DOMAIN s.values \cup {HistorySize}

Watch(s, kinds, w, i, a) ==
    /\ s.triggered => Sounds(w, kinds) /\ Rising(s, w, i, a)
    /\ Sounds(w, kinds) /\ a = 0 /\ i # HistorySize => s.triggered

Correlation(w, kinds, a, corr) ==
    IF Sounds(w, kinds) THEN Signed(w, corr) \in Shape(a) ELSE corr = 0

LEMMA Ring ==
    /\ BufferSize \in Nat /\ BufferSize > 8 /\ HistorySize = BufferSize - 1
    /\ \A i \in 0 .. BufferSize - 1 : NextIndex(i, 1) = IF i = BufferSize - 1 THEN 0 ELSE i + 1
    /\ \A i, p \in 0 .. BufferSize - 1 : Ago(i, p) = IF i >= p THEN i - p ELSE i + BufferSize - p
<1>1. BufferSize \in Nat /\ BufferSize > 8 /\ HistorySize = BufferSize - 1
  BY Numbers, LatenessAssumption DEF S, MaxMissed
<1>2. ASSUME NEW i \in 0 .. BufferSize - 1
      PROVE  NextIndex(i, 1) = IF i = BufferSize - 1 THEN 0 ELSE i + 1
  BY <1>1 DEF NextIndex
<1>3. ASSUME NEW i \in 0 .. BufferSize - 1, NEW p \in 0 .. BufferSize - 1
      PROVE  Ago(i, p) = IF i >= p THEN i - p ELSE i + BufferSize - p
  <2> DEFINE x == i + BufferSize - p
  <2>1. x \in Nat /\ x < 2 * BufferSize  BY <1>1
  <2>2. x % BufferSize = IF x < BufferSize THEN x ELSE x - BufferSize
    <3> HIDE DEF x
    <3>1. CASE x < BufferSize  BY <3>1, <2>1, <1>1
    <3>2. CASE x >= BufferSize
      <4>1. x - BufferSize \in 0 .. BufferSize - 1  BY <3>2, <2>1, <1>1
      <4> QED  BY <4>1, <3>2, <2>1, <1>1
    <3> QED  BY <3>1, <3>2, <2>1, <1>1
  <2> QED  BY <2>1, <2>2, <1>1 DEF Ago
<1> QED  BY <1>1, <1>2, <1>3

\* The places of the last correlations, seen a sample later.
LEMMA PlaceLater ==
    ASSUME NEW i \in 0 .. BufferSize - 1, NEW a \in -1 .. 3
    PROVE  /\ NextIndex(i, 1) \in 0 .. BufferSize - 1
           /\ Place(NextIndex(i, 1), a - 1, a - 1) = NextIndex(i, 1)
           /\ a <= 2 => Place(i, a, a) = i
           /\ \A d \in a .. 2 : /\ Place(i, a, d) \in 0 .. BufferSize - 1
                                /\ Place(NextIndex(i, 1), a - 1, d) = Place(i, a, d)
                                /\ Place(i, a, d) # NextIndex(i, 1)
                                /\ Ago(NextIndex(i, 1), Place(i, a, d)) = d - a + 1
                                /\ \A e \in a .. 2 : Place(i, a, d) = Place(i, a, e) => d = e
<1> DEFINE B == BufferSize
           n == NextIndex(i, 1)
<1>1. B \in Nat /\ B > 8 /\ n = IF i = B - 1 THEN 0 ELSE i + 1  BY Ring
<1>2. n \in 0 .. B - 1  BY <1>1
<1>3. \A p \in 0 .. B - 1 : Ago(n, p) = IF n >= p THEN n - p ELSE n + B - p  BY <1>2, Ring
<1> HIDE DEF n
<1>4. Place(n, a - 1, a - 1) = n  BY <1>1, <1>2 DEF Place
<1>5. a <= 2 => Place(i, a, a) = i  BY <1>1 DEF Place
<1>6. ASSUME NEW d \in a .. 2
      PROVE  /\ Place(i, a, d) \in 0 .. B - 1
             /\ Place(n, a - 1, d) = Place(i, a, d)
             /\ Place(i, a, d) # n
             /\ Ago(n, Place(i, a, d)) = d - a + 1
  <2>1. Place(i, a, d) \in 0 .. B - 1  BY <1>1 DEF Place
  <2>2. Place(n, a - 1, d) = Place(i, a, d)  BY <1>1 DEF Place
  <2>3. Place(i, a, d) # n  BY <1>1 DEF Place
  <2>4. Ago(n, Place(i, a, d)) = d - a + 1
    <3> DEFINE p == Place(i, a, d)
    <3>1. p = IF i >= d - a THEN i - (d - a) ELSE i + B - (d - a)  BY DEF Place
    <3>2. Ago(n, p) = IF n >= p THEN n - p ELSE n + B - p  BY <2>1, <1>3
    <3> HIDE DEF p
    <3>3. Ago(n, p) = d - a + 1  BY <3>1, <3>2, <1>1
    <3> QED  BY <3>3 DEF p
  <2> QED  BY <2>1, <2>2, <2>3, <2>4
<1>7. ASSUME NEW d \in a .. 2, NEW e \in a .. 2, Place(i, a, d) = Place(i, a, e) PROVE d = e
  BY <1>1, <1>7 DEF Place
<1> QED  BY <1>2, <1>4, <1>5, <1>6, <1>7 DEF n

\* A correlation triggers when it is beyond the last one, on either side.
LEMMA SignedTriggers ==
    ASSUME NEW s, NEW w, NEW corr \in -3 .. 3, s.last_corr \in -3 .. 3
    PROVE  /\ Signed(w, corr) \in -3 .. 3 /\ Signed(w, s.last_corr) \in -3 .. 3
           /\ Magnitude(corr) = Magnitude(Signed(w, corr))
           /\ Signed(w, corr) > 0 /\ Signed(w, corr) >= Signed(w, s.last_corr) => Triggers(s, corr)
           /\ Signed(w, corr) >= 0 /\ Triggers(s, corr) => Signed(w, corr) > 0
<1>1. CASE w.kind = "BERT"  BY <1>1 DEF Signed, Magnitude, Triggers
<1>2. CASE w.kind # "BERT"  BY <1>2 DEF Signed, Magnitude, Triggers
<1> QED  BY <1>1, <1>2

LEMMA Risen ==
    ASSUME NEW s, IsSync(s), NEW kinds, NEW w, NEW i \in 0 .. BufferSize - 1, NEW a \in Int,
           Watch(s, kinds, w, i, a),
           NEW corr \in -3 .. 3, Correlation(w, kinds, a - 1, corr), Triggers(s, corr),
           NEW t \in Record(s, NextIndex(i, 1), corr)
    PROVE  Watch(t, kinds, w, NextIndex(i, 1), a - 1)
<1> DEFINE n == NextIndex(i, 1)
           b == a - 1
<1>1. Sounds(w, kinds) /\ Signed(w, corr) \in Shape(b)
  BY DEF Correlation, Triggers
<1>2. Signed(w, corr) > 0
  <2>1. Signed(w, corr) >= 0  BY <1>1 DEF Shape
  <2> QED  BY <2>1, SignedTriggers DEF IsSync
<1>3. b \in -1 .. 2 /\ Signed(w, corr) \in Height(b)
  BY <1>1, <1>2 DEF Shape, Height
<1>4. /\ n \in 0 .. BufferSize - 1
      /\ Place(n, b, b) = n
      /\ a <= 2 => Place(i, a, a) = i
      /\ \A d \in a .. 2 : /\ Place(n, b, d) = Place(i, a, d)
                           /\ Place(i, a, d) # n
  <2>1. a \in -1 .. 3  BY <1>3
  <2> QED  BY <2>1, PlaceLater
<1>5. HistorySize = BufferSize - 1 /\ BufferSize \in Nat  BY Ring
<1> DEFINE values(x) == IF s.triggered /\ x THEN s.values ELSE <<>>
           kept(x, v) == [triggered |-> x, values |-> v, last_corr |-> corr]
<1>6. PICK x \in BOOLEAN :
         \/ n < HistorySize /\ x = TRUE /\ t = kept(x, Written(values(x), n, corr))
         \/ ~(n < HistorySize) /\ t = kept(x, values(x))
  <2> HIDE DEF n
  <2>1. CASE n < HistorySize
    <3>1. t = kept(TRUE, Written(values(TRUE), n, corr))  BY <2>1 DEF Record, n
    <3> HIDE DEF kept, values
    <3> QED  BY <2>1, <3>1
  <2>2. CASE ~(n < HistorySize)
    <3>1. \E x \in BOOLEAN : t = kept(x, values(x))  BY <2>2 DEF Record, n
    <3> HIDE DEF kept, values
    <3> QED  BY <2>2, <3>1
  <2> QED  BY <2>1, <2>2
<1> DEFINE V == values(x)
<1>7. t.triggered = x /\ t.last_corr = corr
      /\ \/ n < HistorySize /\ x = TRUE /\ t.values = Written(V, n, corr)
         \/ n = HistorySize /\ t.values = V
  <2>1. n = HistorySize \/ n < HistorySize  BY <1>4, <1>5
  <2>2. \A v : LET q == kept(x, v) IN q.triggered = x /\ q.last_corr = corr /\ q.values = v  OBVIOUS
  <2> HIDE DEF kept, values, n
  <2> QED  BY <2>1, <2>2, <1>5, <1>6
<1> DEFINE D == DOMAIN t.values
           P(d) == Place(n, b, d)
<1> HIDE DEF n, b
<1>8. ASSUME x = TRUE
      PROVE  /\ DOMAIN V \subseteq {Place(i, a, d) : d \in a .. 2}
             /\ \A d \in a .. 2 : Place(i, a, d) \in DOMAIN V =>
                   /\ Signed(w, V[Place(i, a, d)]) \in Height(d)
                   /\ d > a => Place(i, a, d - 1) \in DOMAIN V \cup {HistorySize}
             /\ a = 0 => i \in DOMAIN V \cup {HistorySize}
  <2>1. CASE s.triggered
    <3>1. V = s.values /\ Rising(s, w, i, a)  BY <2>1, <1>8 DEF Watch
    <3> QED  BY <3>1 DEF Rising
  <2>2. CASE ~s.triggered
    <3>1. DOMAIN V = {}
      <4>1. V = <<>>  BY <2>2
      <4> QED  BY <4>1
    <3>2. a = 0 => i = HistorySize  BY <2>2, <1>1 DEF Watch
    <3> QED  BY <3>1, <3>2
  <2> QED  BY <2>1, <2>2
<1> HIDE DEF V
<1>9. /\ IF n = HistorySize THEN D = DOMAIN V ELSE D = DOMAIN V \cup {n}
      /\ n \in D /\ n # HistorySize => t.values[n] = corr
      /\ \A p \in DOMAIN V \ {n} : t.values[p] = V[p]
  BY <1>5, <1>7 DEF Written
<1>10. n = HistorySize \/ n \in D  BY <1>9
<1>11. b + 1 = a  BY DEF b
<1>12. ASSUME x = TRUE PROVE Rising(t, w, n, b)
  <2>0. \A d \in b .. 2 : d = b \/ d \in a .. 2  BY <1>3, <1>11
  <2>1. D \subseteq {P(d) : d \in b .. 2}
    <3> SUFFICES ASSUME NEW p \in D PROVE \E d \in b .. 2 : p = P(d)  OBVIOUS
    <3>1. CASE p = n
      <4>1. b \in b .. 2 /\ p = P(b)  BY <3>1, <1>3, <1>4
      <4> QED  BY <4>1
    <3>2. CASE p # n
      <4>1. p \in DOMAIN V  BY <3>2, <1>9
      <4>2. PICK d \in a .. 2 : p = Place(i, a, d)  BY <4>1, <1>8, <1>12
      <4>3. d \in b .. 2 /\ p = P(d)  BY <4>2, <1>4, <1>11, <1>3
      <4> QED  BY <4>3
    <3> QED  BY <3>1, <3>2
  <2>2. n \in DOMAIN V => FALSE
    <3>1. SUFFICES ASSUME n \in DOMAIN V PROVE FALSE  OBVIOUS
    <3>2. PICK d \in a .. 2 : n = Place(i, a, d)  BY <3>1, <1>8, <1>12
    <3> QED  BY <3>2, <1>4
  <2>3. ASSUME NEW d \in b .. 2, P(d) \in D
        PROVE  /\ Signed(w, t.values[P(d)]) \in Height(d)
               /\ d > b => P(d - 1) \in D \cup {HistorySize}
    <3>1. CASE d = b
      <4>1. P(d) = n  BY <3>1, <1>4
      <4>2. n # HistorySize
        <5>1. n = HistorySize => n \in DOMAIN V  BY <4>1, <2>3, <1>9
        <5> QED  BY <5>1, <2>2
      <4>3. t.values[P(d)] = corr  BY <4>1, <4>2, <2>3, <1>9
      <4> QED  BY <4>3, <3>1, <1>3
    <3>2. CASE d # b
      <4>1. d \in a .. 2 /\ P(d) = Place(i, a, d) /\ P(d) # n  BY <3>2, <2>0, <1>4
      <4>2. P(d) \in DOMAIN V /\ t.values[P(d)] = V[P(d)]  BY <4>1, <2>3, <1>9
      <4>3. Signed(w, t.values[P(d)]) \in Height(d)  BY <4>1, <4>2, <1>8, <1>12
      <4>4. P(d - 1) \in D \cup {HistorySize}
        <5>1. CASE d = a
          <6>1. P(d - 1) = n
            <7>1. d - 1 = b  BY <5>1 DEF b
            <7> QED  BY <7>1, <1>4
          <6> QED  BY <6>1, <1>10
        <5>2. CASE d # a
          <6>1. d > a /\ d - 1 \in a .. 2  BY <5>2, <4>1, <1>3, <1>11
          <6>2. Place(i, a, d - 1) \in DOMAIN V \cup {HistorySize}
            BY <6>1, <4>1, <4>2, <1>8, <1>12
          <6>3. P(d - 1) = Place(i, a, d - 1)  BY <6>1, <1>4
          <6> QED  BY <6>2, <6>3, <1>9
        <5> QED  BY <5>1, <5>2
      <4> QED  BY <4>3, <4>4
    <3> QED  BY <3>1, <3>2
  <2>4. b = -1 => P(0) \in D \cup {HistorySize}
    <3> SUFFICES ASSUME b = -1 PROVE P(0) \in D \cup {HistorySize}  OBVIOUS
    <3>1. a = 0 /\ 0 \in a .. 2  BY <1>11
    <3>2. P(0) = i  BY <3>1, <1>4
    <3> QED  BY <3>1, <3>2, <1>8, <1>9, <1>12
  <2> QED  BY <1>3, <1>7, <1>10, <2>1, <2>3, <2>4 DEF Rising
<1>13. b = 0 /\ n # HistorySize => t.triggered  BY <1>7
<1> QED  BY <1>1, <1>7, <1>12, <1>13 DEF Watch, n, b

\* Off the sync word the correlation is 0, which never triggers.
LEMMA Fallen ==
    ASSUME NEW s, IsSync(s), NEW kinds, NEW w, NEW i, NEW a \in Int,
           NEW corr \in -3 .. 3, Correlation(w, kinds, a - 1, corr), ~Triggers(s, corr),
           NEW t, ~t.triggered, NEW n
    PROVE  Watch(t, kinds, w, n, a - 1)
<1>1. ASSUME Sounds(w, kinds), a - 1 = 0 PROVE FALSE
  <2>1. Signed(w, corr) = 3  BY <1>1 DEF Correlation, Shape
  <2>2. Signed(w, s.last_corr) \in -3 .. 3  BY SignedTriggers DEF IsSync
  <2> QED  BY <2>1, <2>2, SignedTriggers DEF IsSync
<1> QED  BY <1>1 DEF Watch

\* A peak is found by a synchronizer that was triggered, and ends its search.
Found_Peak(s, corr, u) ==
    /\ u.status # 0 => /\ s.triggered /\ ~u.sync.triggered /\ ~Triggers(s, corr)
                       /\ u.peak = Peak(s, corr)
    /\ ~s.triggered /\ ~Triggers(s, corr) => ~u.sync.triggered

LEMMA Watched ==
    ASSUME NEW s, IsSync(s), NEW kinds, NEW w, NEW i \in 0 .. BufferSize - 1, NEW a \in Int,
           Watch(s, kinds, w, i, a),
           NEW corr \in -3 .. 3, Correlation(w, kinds, a - 1, corr),
           NEW u \in Update(s, NextIndex(i, 1), corr)
    PROVE  /\ Watch(u.sync, kinds, w, NextIndex(i, 1), a - 1)
           /\ Found_Peak(s, corr, u)
<1>1. CASE Triggers(s, corr)
  <2>1. u.sync \in Record(s, NextIndex(i, 1), corr) /\ u.status = 0  BY <1>1 DEF Update
  <2>2. Found_Peak(s, corr, u)  BY <1>1, <2>1 DEF Found_Peak
  <2> QED  BY <1>1, <2>1, <2>2, Risen
<1>2. CASE ~Triggers(s, corr)
  <2>1. /\ u.sync = [NewSynchronizer EXCEPT !.last_corr = corr]
        /\ u.status # 0 => s.triggered /\ u.peak = Peak(s, corr)
    BY <1>2 DEF Update
  <2>2. ~u.sync.triggered  BY <2>1 DEF NewSynchronizer
  <2>3. Found_Peak(s, corr, u)  BY <1>2, <2>1, <2>2 DEF Found_Peak
  <2>4. Watch(u.sync, kinds, w, NextIndex(i, 1), a - 1)  BY <1>2, <2>2, Fallen
  <2> QED  BY <2>3, <2>4
<1> QED  BY <1>1, <1>2

\* The peak that is found lies a sample from the last symbol at most.
LEMMA PeakDistance ==
    ASSUME NEW s, IsSync(s), NEW kinds, NEW w, NEW i \in 0 .. BufferSize - 1, NEW a \in Int,
           Watch(s, kinds, w, i, a), s.triggered,
           NEW corr \in -3 .. 3, Correlation(w, kinds, a - 1, corr), ~Triggers(s, corr)
    PROVE  /\ a - 1 \in -2 .. -1
           /\ a - 1 + Ago(NextIndex(i, 1), Peak(s, corr)) \in -1 .. 1
<1> DEFINE n == NextIndex(i, 1)
           D == DOMAIN s.values
           P(d) == Place(i, a, d)
           L == Larger(s, corr)
           v(p) == Signed(w, s.values[p])
           c == Signed(w, corr)
<1>1. Rising(s, w, i, a) /\ Sounds(w, kinds)  BY DEF Watch
<1>2. c \in Shape(a - 1) /\ c \in -3 .. 3  BY <1>1, SignedTriggers DEF Correlation, IsSync
<1>3. a \in -1 .. 2 /\ Signed(w, s.last_corr) \in Height(a)  BY <1>1 DEF Rising
<1>4. ~(c > 0 /\ c >= Signed(w, s.last_corr))  BY SignedTriggers DEF IsSync
<1>5. /\ a \in -1 .. 0
      /\ a = 0 => c \in {0, 2}
      /\ a = -1 => c = 0
  <2>1. a = 2 => FALSE
    <3>1. a = 2 => c = 2 /\ Signed(w, s.last_corr) = 1  BY <1>2, <1>3 DEF Shape, Height
    <3> QED  BY <3>1, <1>4
  <2>2. a = 1 => FALSE
    <3>1. a = 1 => c = 3 /\ Signed(w, s.last_corr) = 2  BY <1>2, <1>3 DEF Shape, Height
    <3> QED  BY <3>1, <1>4
  <2>3. a = 0 => c \in {0, 2}
    <3>1. a = 0 => c \in {0, 2, 3} /\ Signed(w, s.last_corr) = 3  BY <1>2, <1>3 DEF Shape, Height
    <3> QED  BY <3>1, <1>4
  <2>4. a = -1 => c = 0  BY <1>2 DEF Shape
  <2> QED  BY <2>1, <2>2, <2>3, <2>4, <1>3
<1>6. Magnitude(corr) = c
  <2>1. Magnitude(corr) = Magnitude(c)  BY SignedTriggers DEF IsSync
  <2>2. c \in {0, 2}  BY <1>3, <1>5
  <2> HIDE DEF c
  <2> QED  BY <2>1, <2>2 DEF Magnitude
<1>7. /\ \A d \in a .. 2 : P(d) \in D => v(P(d)) \in Height(d)
      /\ D \subseteq {P(d) : d \in a .. 2}
      /\ \A d \in a .. 2 : P(d) \in D /\ d > a => P(d - 1) \in D \cup {HistorySize}
      /\ i \in D \cup {HistorySize}
      /\ a = -1 => P(0) \in D \cup {HistorySize}
  BY <1>1 DEF Rising
<1>8. \A p \in D : Magnitude(s.values[p]) = v(p) /\ v(p) \in 1 .. 3
  <2> TAKE p \in D
  <2>1. s.values[p] \in -3 .. 3  BY DEF IsSync
  <2>2. PICK d \in a .. 2 : p = P(d)  BY <1>7
  <2>3. v(p) \in 1 .. 3  BY <2>2, <1>7 DEF Height
  <2>4. Magnitude(s.values[p]) = Magnitude(v(p))  BY <2>1 DEF Signed, Magnitude
  <2> HIDE DEF v
  <2> QED  BY <2>3, <2>4 DEF Magnitude
<1>9. /\ n \in 0 .. BufferSize - 1 /\ P(a) = i
      /\ \A d \in a .. 2 : /\ Ago(n, P(d)) = d - a + 1
                           /\ \A e \in a .. 2 : P(d) = P(e) => d = e
  <2>1. a \in -1 .. 3 /\ a <= 2  BY <1>5
  <2>2. n \in 0 .. BufferSize - 1 /\ P(a) = i  BY <2>1, PlaceLater
  <2>3. ASSUME NEW d \in a .. 2
        PROVE  Ago(n, P(d)) = d - a + 1 /\ \A e \in a .. 2 : P(d) = P(e) => d = e
    BY <2>1, PlaceLater
  <2> QED  BY <2>2, <2>3
<1>10. HistorySize = BufferSize - 1 /\ BufferSize \in Nat /\ BufferSize > 8
       /\ (i = HistorySize => n = 0 /\ Ago(n, 0) = 0)
  <2>1. n = IF i = BufferSize - 1 THEN 0 ELSE i + 1  BY Ring
  <2>2. 0 \in 0 .. BufferSize - 1 /\ HistorySize = BufferSize - 1  BY Ring
  <2>3. Ago(0, 0) = 0  BY <2>2, Ring
  <2> QED  BY <2>1, <2>2, <2>3, Ring
<1>11. /\ L = {p \in D : v(p) > c}
       /\ \A p \in L : Magnitude(s.values[p]) = v(p)
  BY <1>6, <1>8 DEF Larger
<1>12. /\ L = {} => Peak(s, corr) = 0
       /\ L # {} => /\ Peak(s, corr) \in L
                    /\ \A p \in L : v(p) <= v(Peak(s, corr))
  <2>1. L = {} => Peak(s, corr) = 0  BY DEF Peak
  <2>2. ASSUME L # {} PROVE Peak(s, corr) \in L /\ \A p \in L : v(p) <= v(Peak(s, corr))
    <3>1. /\ Peak(s, corr) \in L
          /\ \A p \in L \ {Peak(s, corr)} :
                \/ Magnitude(s.values[p]) < Magnitude(s.values[Peak(s, corr)])
                \/ Magnitude(s.values[p]) = Magnitude(s.values[Peak(s, corr)])
      BY <2>2, PeakPlace
    <3>2. L \subseteq D  BY <1>11
    <3> HIDE DEF v, L
    <3> QED  BY <3>1, <3>2, <1>8, <1>11
  <2> QED  BY <2>1, <2>2
<1> DEFINE q == Peak(s, corr)
<1>13. ASSUME NEW d \in a .. 2, P(d) \in D
       PROVE  (d # -1 => v(P(d)) = 3 - d) /\ (d = -1 => v(P(d)) >= 2)
  <2>1. v(P(d)) \in Height(d)  BY <1>7, <1>13
  <2>2. d \in {-1, 0, 1, 2}  BY <1>5
  <2> HIDE DEF v, P
  <2> QED  BY <2>1, <2>2 DEF Height
<1> HIDE DEF n, D, P, L, v, c, q
<1>14. ASSUME q = 0, i = HistorySize, a = 0 PROVE a - 1 + Ago(n, q) \in -1 .. 1
  BY <1>14, <1>10
<1>15. ASSUME NEW d \in a .. 1, q = P(d) PROVE a - 1 + Ago(n, q) \in -1 .. 1
  <2>1. Ago(n, P(d)) = d - a + 1 /\ d \in a .. 2  BY <1>5, <1>9
  <2> QED  BY <2>1, <1>15, <1>5
<1>16. ASSUME L # {} PROVE \E d \in a .. 2 : q = P(d) /\ P(d) \in D
  BY <1>7, <1>11, <1>12, <1>16 DEF q
<1>17. ASSUME a = 0 PROVE a - 1 + Ago(n, q) \in -1 .. 1
  <2>1. L = {} => i = HistorySize
    <3> SUFFICES ASSUME L = {}, i \in D PROVE FALSE  BY <1>7
    <3>1. v(i) = 3  BY <1>9, <1>13, <1>17
    <3> QED  BY <3>1, <1>5, <1>11, <1>17
  <2>2. CASE L = {}  BY <2>1, <2>2, <1>12, <1>14, <1>17 DEF q
  <2>3. CASE L # {}
    <3>1. PICK d \in a .. 2 : q = P(d) /\ P(d) \in D  BY <2>3, <1>16
    <3>2. d # 2
      <4> SUFFICES ASSUME d = 2 PROVE FALSE  OBVIOUS
      <4>1. v(q) = 1  BY <3>1, <1>13
      <4>2. q \in L /\ \A p \in L : v(p) <= 1  BY <4>1, <2>3, <1>12 DEF q
      <4>3. c = 0  BY <4>1, <4>2, <1>5, <1>11, <1>17
      <4>4. L = D
        <5>1. \A p \in D : v(p) > 0  BY <1>8
        <5> QED  BY <4>3, <5>1, <1>11
      <4>5. 0 \in a .. 2 /\ 1 \in a .. 2  BY <1>17
      <4>6. P(1) \notin D
        <5>1. P(1) \in D => v(P(1)) = 2  BY <4>5, <1>13
        <5> QED  BY <5>1, <4>2, <4>4
      <4>7. P(0) \notin D
        <5>1. P(0) \in D => v(P(0)) = 3  BY <4>5, <1>13
        <5> QED  BY <5>1, <4>2, <4>4
      <4>8. P(1) = HistorySize
        <5>1. P(2 - 1) \in D \cup {HistorySize}  BY <3>1, <1>7, <1>17
        <5> QED  BY <5>1, <4>6
      <4>9. P(0) = HistorySize  BY <4>7, <1>7, <1>9, <1>17
      <4>10. P(1) = P(0) => 1 = 0  BY <4>5, <1>9
      <4> QED  BY <4>8, <4>9, <4>10
    <3> QED  BY <3>1, <3>2, <1>15, <1>17
  <2> QED  BY <2>2, <2>3
<1>18. ASSUME a = -1 PROVE a - 1 + Ago(n, q) \in -1 .. 1
  <2>1. c = 0 /\ L = D
    <3>1. c = 0  BY <1>5, <1>18
    <3>2. \A p \in D : v(p) > 0  BY <1>8
    <3> QED  BY <3>1, <3>2, <1>11
  <2>2. -1 \in a .. 2 /\ 0 \in a .. 2 /\ 1 \in a .. 2  BY <1>18
  <2>3. P(-1) \in D \/ P(0) \in D
    <3>1. i = P(-1)  BY <1>9, <1>18
    <3>2. P(-1) = P(0) => -1 = 0  BY <2>2, <1>9
    <3> QED  BY <3>1, <3>2, <1>7, <1>18
  <2>4. L # {} /\ v(q) >= 2
    <3>1. CASE P(-1) \in D
      <4>1. v(P(-1)) >= 2  BY <3>1, <2>2, <1>13
      <4>2. P(-1) \in L /\ q \in L /\ v(P(-1)) <= v(q)  BY <3>1, <2>1, <1>12 DEF q
      <4>3. v(P(-1)) \in 1 .. 3 /\ v(q) \in 1 .. 3  BY <4>2, <2>1, <1>8
      <4> QED  BY <4>1, <4>2, <4>3
    <3>2. CASE P(0) \in D
      <4>1. v(P(0)) = 3  BY <3>2, <2>2, <1>13
      <4>2. P(0) \in L /\ q \in L /\ v(P(0)) <= v(q)  BY <3>2, <2>1, <1>12 DEF q
      <4>3. v(q) \in 1 .. 3  BY <4>2, <2>1, <1>8
      <4> QED  BY <4>1, <4>2, <4>3
    <3> QED  BY <2>3, <3>1, <3>2
  <2>5. PICK d \in a .. 2 : q = P(d) /\ P(d) \in D  BY <2>4, <1>16
  <2>6. d # 2
    <3>1. d = 2 => v(q) = 1  BY <2>5, <1>13
    <3> QED  BY <3>1, <2>4
  <2> QED  BY <2>5, <2>6, <1>15, <1>18
<1>19. a - 1 \in -2 .. -1  BY <1>5
<1>20. a - 1 + Ago(n, q) \in -1 .. 1  BY <1>5, <1>17, <1>18
<1> QED  BY <1>19, <1>20 DEF n, q

(***************************************************************************)
(* The clock: samples since the last symbol of a sync word was due, and    *)
(* how much later than that symbol it was.                                 *)
(***************************************************************************)
Elapsed  == S * (IF symbols >= N THEN symbols - N ELSE symbols - N + F) + phase
lateness == (IF Elapsed < S /\ ahead <= S THEN 0 ELSE FrameLength) - Elapsed - ahead

LEMMA Lengths ==
    /\ S \in Nat /\ S >= 15 /\ S \div 2 \in Nat /\ S \div 2 <= S - 8 /\ S \div 2 >= 7
    /\ FrameLength = S * F /\ FrameLength \in Nat /\ FrameLength >= 3 * (S * N) + 3 * S
    /\ S * N \in Nat /\ S * N >= S /\ Window = 2 * (S * N) /\ N * S = S * N
    /\ S * (N \div 2) \in Nat /\ 2 * (S * (N \div 2)) <= S * N
    /\ S * (SeekFrom - N) = FrameLength - S * N - S * (N \div 2)
<1> DEFINE h == N \div 2
           k == S \div 2
<1>1. S \in Nat /\ S > 14  BY Numbers, LatenessAssumption DEF S, MaxMissed
<1>2. \A x \in Nat : x \div 2 \in Nat /\ 2 * (x \div 2) <= x /\ x <= 2 * (x \div 2) + 1  OBVIOUS
<1>3. k \in Nat /\ 2 * k <= S /\ S <= 2 * k + 1  BY <1>1, <1>2
<1>4. k <= S - 8 /\ k >= 7
  <2> HIDE DEF k
  <2> QED  BY <1>1, <1>3
<1>5. N \in Nat \ {0} /\ F \in Nat /\ F >= 3 * N + 3 /\ h \in Nat /\ 2 * h <= N /\ SeekFrom = F - h
  BY Numbers DEF SeekFrom
<1> HIDE DEF h, k
<1>6. S * F \in Nat /\ S * N \in Nat /\ S * h \in Nat /\ N * S = S * N  BY <1>1, <1>5
<1>7. S * F >= S * (3 * N + 3)
  <2>1. 3 * N + 3 \in Nat  BY <1>5
  <2> QED  BY <1>1, <1>5, <2>1, Multiples
<1>8. S * (3 * N + 3) = 3 * (S * N) + 3 * S  BY <1>1, <1>5
<1>9. S * (2 * h) <= S * N /\ S * (2 * h) = 2 * (S * h)
  <2>1. 2 * h \in Nat  BY <1>5
  <2>2. S * (2 * h) <= S * N  BY <1>1, <1>5, <2>1, Multiples
  <2>3. S * (2 * h) = 2 * (S * h)  BY <1>1, <1>5
  <2> QED  BY <2>2, <2>3
<1>10. S * (F - h - N) = S * F - S * N - S * h  BY <1>1, <1>5
<1>11. FrameLength = S * F
  BY <1>1, <1>5 DEF FrameLength, F, S
<1>12. S * N >= S /\ Window = 2 * (S * N)  BY Numbers, <1>6
<1> QED  BY <1>1, <1>4, <1>5, <1>6, <1>7, <1>8, <1>9, <1>10, <1>11, <1>12 DEF h, k

\* Symbols of a frame after its sync word.
After_N(n) == IF n >= N THEN n - N ELSE n - N + F

LEMMA ElapsedRange ==
    ASSUME TypeOK
    PROVE  /\ phase \in 0 .. S - 1
           /\ After_N(symbols) \in 0 .. F - 1 /\ S * After_N(symbols) \in Nat
           /\ Elapsed = S * After_N(symbols) + phase
           /\ Elapsed \in Nat /\ Elapsed < FrameLength
           /\ Elapsed < S <=> symbols = N
           /\ symbols \in N .. SeekFrom - 1 => Elapsed < FrameLength - S * N - S * (N \div 2)
<1> DEFINE x == After_N(symbols)
<1>1. N \in Nat \ {0} /\ S \in Nat \ {0} /\ F \in Nat /\ F > 3 * N + 2 /\ symbols \in 0 .. F - 1
  BY Numbers DEF TypeOK
<1>2. phase \in 0 .. S - 1
  BY <1>1 DEF phase, TypeOK
<1>3. x \in 0 .. F - 1 /\ (x = 0 <=> symbols = N)
  BY <1>1 DEF After_N
<1>4. Elapsed = S * x + phase  BY DEF Elapsed, After_N
<1> HIDE DEF x
<1>5. S * x \in Nat /\ S * x + S <= S * F
  BY <1>1, <1>3, Multiples
<1>6. x > 0 => S * x >= S
  <2>1. x > 0 => S * 0 + S <= S * x  BY <1>1, <1>3, Multiples
  <2> QED  BY <2>1, <1>1
<1>7. x = 0 => S * x = 0  BY <1>1
<1>8. FrameLength = S * F /\ FrameLength \in Nat  BY Lengths
<1>9. symbols \in N .. SeekFrom - 1 => Elapsed < FrameLength - S * N - S * (N \div 2)
  <2> SUFFICES ASSUME symbols \in N .. SeekFrom - 1
               PROVE  Elapsed < FrameLength - S * N - S * (N \div 2)
    OBVIOUS
  <2>1. x = symbols - N /\ x < SeekFrom - N /\ SeekFrom - N \in Nat  BY <1>1, Numbers DEF x, After_N
  <2>2. S * x + S <= S * (SeekFrom - N)  BY <2>1, <1>1, <1>3, Multiples
  <2>3. S * (SeekFrom - N) = FrameLength - S * N - S * (N \div 2)  BY Lengths
  <2>4. S * (SeekFrom - N) \in Nat  BY <2>1, <1>1, Multiples
  <2> QED  BY <1>2, <1>4, <1>5, <2>2, <2>3, <2>4, <1>1
<1> QED  BY <1>1, <1>2, <1>3, <1>4, <1>5, <1>6, <1>7, <1>8, <1>9 DEF x

LEMMA ElapsedLater ==
    ASSUME TypeOK, TakeSymbol, Tick
    PROVE  /\ Elapsed' = IF Elapsed = FrameLength - 1 THEN 0 ELSE Elapsed + 1
           /\ AtSymbol /\ symbols' # N => late' = FrameLength - Elapsed' - ahead'
           /\ AtSymbol => (Elapsed' < S <=> symbols' = N)
<1>1. N \in Nat \ {0} /\ S \in Nat \ {0} /\ F \in Nat /\ F > 3 * N + 2 /\ symbols \in 0 .. F - 1
  BY Numbers DEF TypeOK
<1> DEFINE x == After_N(symbols)
           y == After_N(symbols')
<1>2. /\ Elapsed = S * x + phase /\ x \in 0 .. F - 1 /\ S * x \in Nat /\ phase \in 0 .. S - 1
      /\ Elapsed < FrameLength /\ Elapsed \in Nat
  BY ElapsedRange
<1>3. Elapsed' = S * y + phase'  BY DEF Elapsed, After_N, S, N, F
<1>4. FrameLength = S * F /\ S * F \in Nat  BY Lengths
<1>5. CASE AtSymbol
  <2>1. /\ phase = S - 1 /\ phase' = 0 /\ symbols' = IF symbols = F - 1 THEN 0 ELSE symbols + 1
        /\ late' = Due(symbols) - ahead'
    BY <1>5, SampleTaken
  <2>2. y = IF x = F - 1 THEN 0 ELSE x + 1
    BY <1>1, <2>1 DEF After_N
  <2>3. symbols' = N <=> y = 0
    BY <1>1, <2>1 DEF After_N
  <2>4. Due(symbols) = S * (N - 1 - symbols + IF symbols < N THEN 0 ELSE F)
    BY DEF Due, S, N, F
  <2>5. N - 1 - symbols + (IF symbols < N THEN 0 ELSE F) = F - 1 - x
    BY <1>1 DEF After_N
  <2> HIDE DEF x, y
  <2>6. S * (F - 1 - x) = S * F - S * x - S  BY <1>1, <1>2
  <2>7. S * (x + 1) = S * x + S  BY <1>1, <1>2
  <2>8. y = 0 => Elapsed' = 0 /\ Elapsed = FrameLength - 1
    <3> SUFFICES ASSUME y = 0 PROVE Elapsed' = 0 /\ Elapsed = FrameLength - 1  OBVIOUS
    <3>1. x = F - 1  BY <2>2, <1>2
    <3>2. S * (F - 1 - x) = 0 /\ S * y = 0  BY <3>1, <1>1
    <3> QED  BY <3>2, <2>1, <2>6, <1>1, <1>2, <1>3, <1>4
  <2>9. y # 0 => /\ Elapsed' = Elapsed + 1 /\ Elapsed' >= S /\ Elapsed # FrameLength - 1
                 /\ late' = FrameLength - Elapsed' - ahead'
    <3> SUFFICES ASSUME y # 0
                 PROVE  /\ Elapsed' = Elapsed + 1 /\ Elapsed' >= S /\ Elapsed # FrameLength - 1
                        /\ late' = FrameLength - Elapsed' - ahead'
      OBVIOUS
    <3>1. y = x + 1 /\ x + 1 <= F - 1  BY <2>2, <1>2, <1>1
    <3>2. S * (x + 1) + S <= S * F  BY <3>1, <1>1, <1>2, Multiples
    <3>3. Elapsed' = S * x + S  BY <3>1, <2>1, <2>7, <1>1, <1>2, <1>3
    <3>4. Elapsed' = Elapsed + 1 /\ Elapsed' >= S  BY <3>3, <2>1, <1>1, <1>2
    <3>5. Elapsed # FrameLength - 1  BY <3>2, <2>7, <2>1, <1>1, <1>2, <1>4
    <3>6. Due(symbols) = FrameLength - Elapsed'  BY <2>4, <2>5, <2>6, <3>3, <1>4, <1>1, <1>2
    <3> QED  BY <3>4, <3>5, <3>6, <2>1
  <2>10. CASE y = 0
    BY <2>3, <2>8, <2>10, <1>1, <1>2
  <2>11. CASE y # 0
    BY <2>3, <2>9, <2>11, <1>1, <1>2
  <2> QED  BY <2>10, <2>11
<1>6. CASE ~AtSymbol
  <2>1. phase' = phase + 1 /\ symbols' = symbols /\ phase' \in 0 .. S - 1
    <3>1. phase' = phase + 1 /\ symbols' = symbols /\ phase = sampleIndex - 1  BY <1>6, SampleTaken
    <3> QED  BY <3>1, <1>1, <1>2 DEF TypeOK
  <2>2. Elapsed' = Elapsed + 1  BY <2>1, <1>1, <1>2, <1>3
  <2>3. S * x + S <= S * F
    <3> HIDE DEF x
    <3> QED  BY <1>1, <1>2, Multiples
  <2>4. Elapsed + 1 < FrameLength  BY <2>1, <2>3, <1>1, <1>2, <1>4
  <2> QED  BY <2>2, <2>4, <1>2, <1>4, <1>6
<1> QED  BY <1>5, <1>6

\* The clock set by a peak some samples ago.
LEMMA ElapsedSet ==
    ASSUME NEW a \in 0 .. S - 1, symbols' = N, sampleIndex' = (a + 1) % S
    PROVE  Elapsed' = a
<1>1. N \in Nat \ {0} /\ S \in Nat \ {0}  BY Numbers
<1>2. sampleIndex' = IF a = S - 1 THEN 0 ELSE a + 1  BY <1>1
<1>3. phase' = a  BY <1>1, <1>2 DEF phase, S
<1>4. S * 0 = 0  BY <1>1
<1> QED  BY <1>1, <1>3, <1>4 DEF Elapsed, S, N, F

\* Where in the signal the window of a sync word is.
LEMMA WindowElapsed ==
    ASSUME TypeOK, WindowInv, demodState = "SYNC_UPDATE"
    PROVE  /\ \/ Elapsed >= FrameLength - S * N - S * (N \div 2)
              \/ Elapsed <= S * N - S * (N \div 2)
           /\ syncCount = 0 => Elapsed = S * N - S * (N \div 2)
<1> DEFINE h == N \div 2
           x == After_N(symbols)
<1>1. N \in Nat \ {0} /\ S \in Nat \ {0} /\ F \in Nat /\ F > 3 * N + 2 /\ h \in Nat /\ 2 * h <= N
      /\ SeekFrom = F - h /\ symbols \in 0 .. F - 1
  BY Numbers DEF TypeOK, SeekFrom
<1>2. Elapsed = S * x + phase /\ x \in 0 .. F - 1 /\ phase \in 0 .. S - 1  BY ElapsedRange
<1>3. S * Sought + phase = 2 * (S * N) - syncCount /\ Sought \in Nat /\ syncCount \in Nat
  <2>1. S * Sought + phase = Window - syncCount  BY DEF WindowInv
  <2>2. Sought \in Nat  BY Window1
  <2>3. syncCount \in Nat  BY Numbers DEF TypeOK
  <2> QED  BY <2>1, <2>2, <2>3, Lengths
<1>4. Sought = IF symbols >= SeekFrom THEN symbols - SeekFrom ELSE symbols + h  BY DEF Sought
<1>5. x = Sought + F - N - h \/ x = Sought - N - h
  BY <1>1, <1>4 DEF After_N
<1>6. syncCount = 0 => x = Sought - N - h
  <2>1. syncCount = 0 => symbols = 2 * N - (N \div 2)  BY Window1
  <2>2. h \in Nat /\ symbols = 2 * N - h => symbols >= N /\ ~(symbols >= SeekFrom)  BY <1>1
  <2> QED  BY <2>1, <2>2, <1>1, <1>4 DEF After_N
<1> HIDE DEF x, h
<1>7. FrameLength = S * F /\ S * N \in Nat /\ S * h \in Nat /\ FrameLength \in Nat  BY Lengths DEF h
<1>8. S * (Sought + F - N - h) = S * Sought + S * F - S * N - S * h  BY <1>1, <1>3
<1>9. S * (Sought - N - h) = S * Sought - S * N - S * h  BY <1>1, <1>3
<1>10. S * Sought \in Nat /\ S * x \in Nat  BY <1>1, <1>2, <1>3, Multiples
<1>11. x = Sought + F - N - h => Elapsed >= FrameLength - S * N - S * h
  BY <1>2, <1>3, <1>7, <1>8, <1>10
<1>12. x = Sought - N - h => Elapsed = S * N - S * h - syncCount
  BY <1>2, <1>3, <1>7, <1>9, <1>10
<1>13. Elapsed \in Nat  BY ElapsedRange
<1> QED  BY <1>3, <1>5, <1>6, <1>7, <1>11, <1>12, <1>13 DEF h

\* While samples go by the clock is as late as it was.
LEMMA LatenessKept ==
    ASSUME TypeOK, NEW k \in Nat, Magnitude(lateness) <= 6, ahead >= -(S \div 2),
           ahead' = ahead - k,
           \/ k <= S /\ Elapsed' = Elapsed + k /\ (Elapsed < S => Elapsed' < S)
           \/ k = 1 /\ Elapsed' = IF Elapsed = FrameLength - 1 THEN 0 ELSE Elapsed + 1
    PROVE  lateness' = lateness
<1>1. /\ S \in Nat /\ S >= 15 /\ S \div 2 \in Nat /\ S \div 2 <= S - 8
      /\ FrameLength \in Nat /\ FrameLength >= 6 * S
  BY Lengths
<1>2. Elapsed \in Nat /\ Elapsed < FrameLength /\ ahead \in Int  BY ElapsedRange DEF TypeOK
<1>3. lateness = (IF Elapsed < S /\ ahead <= S THEN 0 ELSE FrameLength) - Elapsed - ahead
  BY DEF lateness
<1>4. lateness' = (IF Elapsed' < S /\ ahead' <= S THEN 0 ELSE FrameLength) - Elapsed' - ahead'
  BY DEF lateness, S, FrameLength
<1>5. lateness \in -6 .. 6
  <2>1. lateness \in Int  BY <1>1, <1>2, <1>3
  <2> QED  BY <2>1 DEF Magnitude
<1> DEFINE H == S \div 2
<1>6. H \in Nat /\ H <= S - 8 /\ ahead >= -H  BY <1>1
<1> HIDE DEF H
<1>7. CASE Elapsed < S /\ ahead <= S
  <2>1. lateness = 0 - Elapsed - ahead  BY <1>3, <1>7
  <2>2. Elapsed # S - 1  BY <2>1, <1>1, <1>2, <1>5, <1>6
  <2>3. Elapsed' = Elapsed + k /\ Elapsed' < S  BY <2>2, <1>1, <1>2, <1>7
  <2> QED  BY <2>1, <2>3, <1>1, <1>2, <1>4, <1>7
<1>8. CASE Elapsed < S /\ ahead > S
  <2>1. lateness = FrameLength - Elapsed - ahead  BY <1>1, <1>2, <1>3, <1>8
  <2>2. ahead - k > S  BY <2>1, <1>1, <1>2, <1>5, <1>8
  <2>3. Elapsed' = Elapsed + k  BY <1>1, <1>2, <1>8
  <2> QED  BY <2>1, <2>2, <2>3, <1>1, <1>2, <1>4
<1>9. CASE Elapsed >= S /\ Elapsed # FrameLength - 1
  <2>1. lateness = FrameLength - Elapsed - ahead  BY <1>1, <1>2, <1>3, <1>9
  <2>2. Elapsed' = Elapsed + k  BY <1>9
  <2> QED  BY <2>1, <2>2, <1>1, <1>2, <1>4, <1>9
<1>10. CASE Elapsed >= S /\ Elapsed = FrameLength - 1
  <2>1. lateness = FrameLength - Elapsed - ahead  BY <1>1, <1>2, <1>3, <1>10
  <2>2. CASE Elapsed' = Elapsed + k
    BY <2>1, <2>2, <1>1, <1>2, <1>4, <1>10
  <2>3. CASE Elapsed' # Elapsed + k
    <3>1. k = 1 /\ Elapsed' = 0  BY <2>3, <1>10
    <3>2. ahead' <= S  BY <2>1, <3>1, <1>1, <1>2, <1>5, <1>10
    <3> QED  BY <2>1, <3>1, <3>2, <1>1, <1>2, <1>4, <1>10
  <2> QED  BY <2>2, <2>3
<1> QED  BY <1>1, <1>2, <1>7, <1>8, <1>9, <1>10

(***************************************************************************)
(* The invariant that keeps the symbols in their places.                   *)
(***************************************************************************)
\* A lock outlives MaxMissed misses at most, and a frame that begins with a sync
\* word found has none.
LockInv ==
    /\ InFrame => missesInARow <= missedSyncs /\ missesInARow <= MaxMissed
    /\ demodState = "LOCKED" => /\ symbols \in N .. SeekFrom - 1
                                /\ symbols = N => missesInARow = 0

\* The next sync word comes up to a sample early or late: in SYNC_UPDATE the clock
\* may be a sample further off than in the frame before it.
Bound == IF demodState = "LOCKED" \/ (word.heard = "due" /\ ahead <= Window)
           THEN 1 + missesInARow ELSE 2 + missesInARow

LatenessInv == InFrame => ahead >= -(S \div 2) /\ Magnitude(lateness) <= Bound

WatchInv ==
    /\ demodState = "ARMED" => Watch(lsfSync, {"LSF"}, word, index, ahead)
    /\ demodState \in {"ARMED", "SYNC_UPDATE"} =>
          Watch(packetSync, {"PACKET", "BERT"}, word, index, ahead)
    /\ demodState \in {"SYNCED", "LOCKED"} => ~packetSync.triggered
    /\ demodState = "SYNCED" => ahead \in -2 .. -1 /\ ahead + Ago(index, peak) \in -1 .. 1

PlaceInv == ClockOK /\ LockInv /\ LatenessInv /\ WatchInv /\ SymbolsInPlace

LEMMA InitPlace == Init => PlaceInv
<1>1. Init => LockInv /\ LatenessInv /\ WatchInv /\ SymbolsInPlace
  BY DEF Init, LockInv, LatenessInv, WatchInv, SymbolsInPlace, InFrame
<1> QED  BY <1>1, InitClockOK DEF PlaceInv

LEMMA QuietSignal ==
    ASSUME TypeOK
    PROVE  /\ ahead >= -(S \div 2) => ahead - Quiet >= -(S \div 2)
           /\ word.heard # "due" /\ ahead > 2 => ahead - Quiet > 2
           /\ InFrame => Quiet < S
           /\ ahead \in -1 .. 2 => Quiet = 0
           /\ Quiet \in Nat
<1> DEFINE place == IF word.heard = "due" THEN 5 ELSE IF ahead > -2 THEN 3 ELSE -(SamplesPerSymbol \div 2)
           A == IF ahead > place THEN ahead - place ELSE 0
           B == IF InFrame THEN {(SamplesPerSymbol - sampleIndex) % SamplesPerSymbol} ELSE {}
           C == IF demodState = "SYNC_UPDATE" THEN {syncCount} ELSE {}
           D == IF newFrame > 0 THEN {block_size - newFrame} ELSE {}
           T == {A} \cup B \cup C \cup D
<1>1. Quiet = Min(T)  BY DEF Quiet
<1>2. S \div 2 \in Nat /\ S \div 2 = SamplesPerSymbol \div 2 /\ S \div 2 >= 7  BY Lengths DEF S
<1>3. A \in Nat  BY <1>2 DEF TypeOK
<1>4. B \in SUBSET Nat
  BY Numbers DEF S, TypeOK
<1>5. C \in SUBSET Nat  BY Numbers DEF TypeOK
<1>6. D \in SUBSET Nat  BY DEF TypeOK, block_size
<1>7. Quiet <= A
  <2>1. T \in SUBSET Nat /\ A \in T
    <3> HIDE DEF A, B, C, D
    <3> QED  BY <1>3, <1>4, <1>5, <1>6
  <2> HIDE DEF T, A
  <2>2. \E x \in T : \A y \in T : x <= y  BY <2>1, LeastNat
  <2> QED  BY <2>1, <2>2, <1>1 DEF Min
<1>8. Quiet \in Nat /\ (InFrame => Quiet <= (S - sampleIndex) % S)
      /\ (ahead <= 3 /\ ahead > -2 => Quiet = 0)
  BY QuietBounds
<1>9. InFrame => Quiet < S
  <2>1. S \in Nat \ {0} /\ sampleIndex \in 0 .. S - 1  BY Numbers DEF TypeOK
  <2>2. (S - sampleIndex) % S \in 0 .. S - 1  BY <2>1
  <2> QED  BY <2>1, <2>2, <1>8
<1>10. ahead \in Int  BY DEF TypeOK
<1>11. A = IF ahead > place THEN ahead - place ELSE 0  OBVIOUS
<1>12. /\ word.heard = "due" => place = 5
       /\ word.heard # "due" => place = IF ahead > -2 THEN 3 ELSE -(S \div 2)
  BY <1>2
<1> DEFINE H == S \div 2
<1>13. H \in Nat /\ H >= 7  BY <1>2
<1>14. word.heard # "due" => place = IF ahead > -2 THEN 3 ELSE -H  BY <1>12
<1> HIDE DEF A, place, H
<1>15. ahead >= -H => ahead - Quiet >= -H
  BY <1>7, <1>8, <1>10, <1>11, <1>12, <1>13, <1>14
<1>16. word.heard # "due" /\ ahead > 2 => ahead - Quiet > 2
  BY <1>7, <1>8, <1>10, <1>11, <1>14
<1> QED  BY <1>8, <1>9, <1>10, <1>15, <1>16 DEF H

LEMMA LatenessBound ==
    ASSUME TypeOK, LockInv, LatenessInv, InFrame
    PROVE  /\ missesInARow \in 0 .. 4 /\ lateness \in Int
           /\ Bound \in {1 + missesInARow, 2 + missesInARow}
           /\ Magnitude(lateness) <= Bound /\ Magnitude(lateness) <= 6 /\ lateness \in -6 .. 6
           /\ ahead >= -(S \div 2)
<1>1. missesInARow \in 0 .. 4  BY DEF LockInv, MaxMissed, TypeOK
<1>2. lateness \in Int
  <2>1. FrameLength \in Nat /\ Elapsed \in Nat /\ ahead \in Int  BY Lengths, ElapsedRange DEF TypeOK
  <2> QED  BY <2>1 DEF lateness
<1>3. Bound \in {1 + missesInARow, 2 + missesInARow}  BY DEF Bound
<1>4. Magnitude(lateness) <= Bound /\ ahead >= -(S \div 2)  BY DEF LatenessInv
<1> QED  BY <1>1, <1>2, <1>3, <1>4 DEF Magnitude

\* Before the window the next sync word is the one the frame begins with.
LEMMA FarAhead ==
    ASSUME TypeOK, WindowInv, LockInv, LatenessInv, demodState = "SYNC_UPDATE", ahead > Window
    PROVE  ahead - S > Window
<1>1. lateness \in -6 .. 6  BY LatenessBound DEF InFrame
<1>2. lateness = (IF Elapsed < S /\ ahead <= S THEN 0 ELSE FrameLength) - Elapsed - ahead
  BY DEF lateness
<1>3. \/ Elapsed >= FrameLength - S * N - S * (N \div 2)
      \/ Elapsed <= S * N - S * (N \div 2)
  BY WindowElapsed
<1> DEFINE sn == S * N
           sh == S * (N \div 2)
<1>4. /\ S \in Nat /\ S >= 15 /\ FrameLength \in Nat /\ FrameLength >= 3 * sn + 3 * S
      /\ sn \in Nat /\ sn >= S /\ Window = 2 * sn /\ sh \in Nat /\ 2 * sh <= sn
  BY Lengths
<1>5. Elapsed \in Nat /\ ahead \in Int  BY ElapsedRange DEF TypeOK
<1>6. Elapsed >= FrameLength - sn - sh \/ Elapsed <= sn - sh  BY <1>3
<1> HIDE DEF sn, sh
<1>7. lateness = FrameLength - Elapsed - ahead  BY <1>2, <1>4, <1>5
<1> QED  BY <1>1, <1>4, <1>5, <1>6, <1>7

LEMMA BoundKept ==
    ASSUME TypeOK, WindowInv, LockInv, LatenessInv, InFrame,
           NEW k \in Nat, k <= S, ahead' = ahead - k, ahead - k >= -(S \div 2),
           lateness' = lateness,
           UNCHANGED <<demodState, missesInARow, word>>
    PROVE  LatenessInv'
<1>1. Magnitude(lateness) <= Bound /\ ahead \in Int /\ missesInARow \in Nat /\ lateness \in Int
  BY LatenessBound DEF TypeOK
<1>2. Bound' >= Bound
  <2>1. ahead > Window /\ demodState = "SYNC_UPDATE" => ahead - S > Window  BY FarAhead
  <2>2. Window \in Nat /\ S \in Nat  BY Lengths
  <2>3. ahead > Window /\ demodState = "SYNC_UPDATE" => ahead' > Window  BY <1>1, <2>1, <2>2
  <2>4. demodState = "LOCKED" \/ demodState = "SYNC_UPDATE"  BY DEF InFrame
  <2>5. Bound' = IF demodState = "LOCKED" \/ (word.heard = "due" /\ ahead' <= Window)
                   THEN 1 + missesInARow ELSE 2 + missesInARow
    BY DEF Bound, Window
  <2> QED  BY <1>1, <2>2, <2>3, <2>4, <2>5 DEF Bound
<1>3. Bound \in Int /\ Bound' \in Int /\ Magnitude(lateness) \in Int  BY <1>1 DEF Bound, Magnitude
<1>4. Magnitude(lateness') <= Bound'  BY <1>1, <1>2, <1>3
<1> QED  BY <1>4 DEF LatenessInv, S

\* A sample of a frame.
LEMMA SampleLate ==
    ASSUME PlaceInv, InFrame, Pass(1), TakeSymbol, Tick
    PROVE  /\ lateness' = lateness /\ ahead' = ahead - 1 /\ ahead - 1 >= -(S \div 2)
           /\ symbols' # N => late' \in Int /\ Magnitude(late') <= 2 + missesInARow
           /\ symbols' # N => late' = IF AtSymbol THEN lateness' ELSE late
<1> USE DEF PlaceInv, ClockOK, ClockInv
<1>1. Magnitude(lateness) <= Bound /\ Magnitude(lateness) <= 6 /\ ahead >= -(S \div 2)
      /\ Bound \in {1 + missesInARow, 2 + missesInARow} /\ lateness \in Int /\ missesInARow \in Nat
  BY LatenessBound
<1>2. ahead' = ahead - 1 /\ ahead # -(S \div 2) /\ ahead \in Int /\ ahead' \in Int
  BY DEF Pass, FrameEnd, S, TypeOK
<1>3. S \div 2 \in Nat  BY Lengths
<1>4. ahead - 1 >= -(S \div 2)
  <2> DEFINE H == S \div 2
  <2>1. H \in Nat /\ ahead >= -H /\ ahead # -H  BY <1>1, <1>2, <1>3
  <2> HIDE DEF H
  <2>2. ahead - 1 >= -H  BY <2>1, <1>2
  <2> QED  BY <2>2 DEF H
<1>5. /\ Elapsed' = IF Elapsed = FrameLength - 1 THEN 0 ELSE Elapsed + 1
      /\ AtSymbol /\ symbols' # N => late' = FrameLength - Elapsed' - ahead'
      /\ AtSymbol => (Elapsed' < S <=> symbols' = N)
  BY ElapsedLater
<1>6. lateness' = lateness  BY <1>1, <1>2, <1>5, LatenessKept
<1>7. symbols' # N => /\ late' \in Int /\ Magnitude(late') <= 2 + missesInARow
                      /\ late' = IF AtSymbol THEN lateness' ELSE late
  <2> SUFFICES ASSUME symbols' # N
               PROVE  /\ late' \in Int /\ Magnitude(late') <= 2 + missesInARow
                      /\ late' = IF AtSymbol THEN lateness' ELSE late
    OBVIOUS
  <2>1. CASE AtSymbol
    <3>1. late' = lateness'
      <4>1. lateness' = (IF Elapsed' < S /\ ahead' <= S THEN 0 ELSE FrameLength) - Elapsed' - ahead'
        BY DEF lateness, S, FrameLength
      <4> QED  BY <4>1, <1>5, <2>1
    <3>2. Magnitude(lateness) <= 2 + missesInARow
      <4>1. Magnitude(lateness) \in Int  BY <1>1 DEF Magnitude
      <4> QED  BY <4>1, <1>1
    <3> QED  BY <3>1, <3>2, <2>1, <1>1, <1>6
  <2>2. CASE ~AtSymbol
    <3>1. symbols' = symbols /\ late' = late  BY <2>2, SampleTaken
    <3> QED  BY <3>1, <2>2 DEF SymbolsInPlace, N, TypeOK
  <2> QED  BY <2>1, <2>2
<1> QED  BY <1>2, <1>4, <1>6, <1>7

LEMMA Correlations ==
    /\ \A c \in LsfCorr : c \in -3 .. 3 /\ Correlation(word, {"LSF"}, ahead - 1, c)
    /\ \A c \in PacketCorr : c \in -3 .. 3 /\ Correlation(word, {"PACKET", "BERT"}, ahead - 1, c)
<1>1. ASSUME NEW c \in LsfCorr PROVE Correlation(word, {"LSF"}, ahead - 1, c)
  BY DEF LsfCorr, Heard, Correlation, Sounds, Signed
<1>2. ASSUME NEW c \in PacketCorr PROVE Correlation(word, {"PACKET", "BERT"}, ahead - 1, c)
  <2>1. CASE Heard("PACKET")
    <3>1. c \in Shape(ahead - 1)  BY <2>1 DEF PacketCorr
    <3> QED  BY <2>1, <3>1 DEF Heard, Correlation, Sounds, Signed
  <2>2. CASE ~Heard("PACKET") /\ Heard("BERT")
    <3>1. PICK d \in Shape(ahead - 1) : c = -d  BY <2>2 DEF PacketCorr
    <3>2. d \in 0 .. 3  BY DEF Shape
    <3>3. -c = d  BY <3>1, <3>2
    <3> QED  BY <2>2, <3>3 DEF Heard, Correlation, Sounds, Signed
  <2>3. CASE ~Heard("PACKET") /\ ~Heard("BERT")
    <3>1. c = 0  BY <2>3 DEF PacketCorr
    <3> QED  BY <2>3, <3>1 DEF Heard, Correlation, Sounds
  <2> QED  BY <2>1, <2>2, <2>3
<1> QED  BY <1>1, <1>2, CorrTyped

\* A sample of the search for packetSync.
LEMMA ResultWatched ==
    ASSUME PlaceInv, NEW u \in Results, Seek(u)
    PROVE  /\ Watch(packetSync', {"PACKET", "BERT"}, word', index', ahead')
           /\ u.status # 0 => /\ ~packetSync'.triggered
                              /\ ahead' \in -2 .. -1 /\ ahead' + Ago(index', u.peak) \in -1 .. 1
           /\ ahead > 3 => ~packetSync'.triggered
<1> USE DEF PlaceInv, ClockOK, ClockInv
<1>1. PICK corr \in PacketCorr : u \in Update(packetSync, NextIndex(index, 1), corr)
  BY DEF Results
<1>2. /\ corr \in -3 .. 3 /\ Correlation(word, {"PACKET", "BERT"}, ahead - 1, corr)
  BY Correlations
<1>3. /\ demodState = "SYNC_UPDATE" /\ packetSync' = u.sync
      /\ index' = NextIndex(index, 1) /\ ahead' = ahead - 1 /\ word' = word
  BY DEF Seek, Pass
<1>4. Watch(packetSync, {"PACKET", "BERT"}, word, index, ahead)  BY <1>3 DEF WatchInv
<1>5. IsSync(packetSync) /\ index \in 0 .. BufferSize - 1 /\ ahead \in Int  BY DEF SyncsOK, TypeOK
<1>6. /\ Watch(u.sync, {"PACKET", "BERT"}, word, NextIndex(index, 1), ahead - 1)
      /\ u.status # 0 => /\ packetSync.triggered /\ ~u.sync.triggered /\ ~Triggers(packetSync, corr)
                         /\ u.peak = Peak(packetSync, corr)
      /\ ~packetSync.triggered /\ ~Triggers(packetSync, corr) => ~u.sync.triggered
  <2>1. /\ Watch(u.sync, {"PACKET", "BERT"}, word, NextIndex(index, 1), ahead - 1)
        /\ Found_Peak(packetSync, corr, u)
    BY <1>1, <1>2, <1>4, <1>5, Watched
  <2> QED  BY <2>1 DEF Found_Peak
<1>7. ASSUME u.status # 0
      PROVE  ahead - 1 \in -2 .. -1 /\ ahead - 1 + Ago(NextIndex(index, 1), u.peak) \in -1 .. 1
  <2>1. packetSync.triggered /\ ~Triggers(packetSync, corr) /\ u.peak = Peak(packetSync, corr)
    BY <1>6, <1>7
  <2> QED  BY <2>1, <1>2, <1>4, <1>5, PeakDistance
<1>8. ASSUME ahead > 3 PROVE ~u.sync.triggered
  <2>1. ~packetSync.triggered  BY <1>4, <1>5, <1>8 DEF Watch, Rising
  <2>2. corr = 0
    <3>1. Shape(ahead - 1) = {0}  BY <1>5, <1>8 DEF Shape
    <3> QED  BY <3>1, <1>2 DEF Correlation, Signed
  <2>3. ~Triggers(packetSync, corr)  BY <2>2 DEF Triggers
  <2> QED  BY <2>1, <2>3, <1>6
<1> QED  BY <1>3, <1>6, <1>7, <1>8

\* A synchronizer that is not triggered, with no sync word at its last symbol.
LEMMA Untriggered ==
    ASSUME NEW s, ~s.triggered, NEW kinds, NEW w, NEW i, NEW a, ~(Sounds(w, kinds) /\ a = 0)
    PROVE  Watch(s, kinds, w, i, a)
BY DEF Watch

LEMMA FreshUntriggered == ~NewSynchronizer.triggered
BY DEF NewSynchronizer

LEMMA OutsidePlace ==
    ASSUME PlaceInv, Initialise \/ Listen \/ Begin \/ Search \/ FindEot \/ LoseLock
    PROVE  LockInv' /\ LatenessInv' /\ WatchInv' /\ SymbolsInPlace'
<1> USE DEF PlaceInv, ClockOK, ClockInv
<1>1. ASSUME demodState' \in {"UNLOCKED", "ARMED", "SYNCED"}
      PROVE  LockInv' /\ LatenessInv' /\ SymbolsInPlace'
  BY <1>1 DEF LockInv, LatenessInv, SymbolsInPlace, InFrame
<1>2. ASSUME demodState' = "UNLOCKED" PROVE WatchInv'
  BY <1>2 DEF WatchInv
<1>3. CASE Initialise  BY <1>1, <1>2, <1>3 DEF Initialise
<1>4. CASE FindEot  BY <1>1, <1>2, <1>4 DEF FindEot
<1>5. CASE LoseLock  BY <1>1, <1>2, <1>5 DEF LoseLock
<1>6. CASE Listen
  <2>1. demodState' = "ARMED" /\ lsfSync' = NewSynchronizer /\ packetSync' = NewSynchronizer
        /\ word' = NoWord
    BY <1>6 DEF Listen
  <2>2. ~lsfSync'.triggered /\ ~packetSync'.triggered /\ ~Sounds(word', {"LSF"})
        /\ ~Sounds(word', {"PACKET", "BERT"})
    BY <2>1, FreshUntriggered DEF Sounds, NoWord
  <2>3. WatchInv'  BY <2>1, <2>2, Untriggered DEF WatchInv
  <2> QED  BY <2>1, <2>3, <1>1
<1>7. CASE Begin
  <2>1. demodState = "ARMED" /\ demodState' = "ARMED" /\ word = NoWord /\ ahead' = 3
        /\ UNCHANGED <<lsfSync, packetSync>>
    BY <1>7 DEF Begin, machine, syncs
  <2>2. ~lsfSync.triggered /\ ~packetSync.triggered
    BY <2>1 DEF WatchInv, Watch, Sounds, NoWord
  <2>3. WatchInv'  BY <2>1, <2>2, Untriggered DEF WatchInv
  <2> QED  BY <2>1, <2>3, <1>1
<1>8. CASE Search
  <2>1. demodState = "ARMED" /\ Pass(1)  BY <1>8 DEF Search
  <2>2. PICK lsfCorr \in LsfCorr, packetCorr \in PacketCorr :
         \E l \in Update(lsfSync, index', lsfCorr), p \in Update(packetSync, index', packetCorr) :
            /\ lsfSync' = l.sync /\ packetSync' = p.sync
            /\ \/ l.status = 1 /\ demodState' = "SYNCED" /\ peak' = l.peak
               \/ p.status = -1 /\ demodState' = "SYNCED" /\ peak' = p.peak
               \/ demodState' = "ARMED"
    BY <1>8, <2>1 DEF Search
  <2>3. PICK l \in Update(lsfSync, index', lsfCorr), p \in Update(packetSync, index', packetCorr) :
            /\ lsfSync' = l.sync /\ packetSync' = p.sync
            /\ \/ l.status = 1 /\ demodState' = "SYNCED" /\ peak' = l.peak
               \/ p.status = -1 /\ demodState' = "SYNCED" /\ peak' = p.peak
               \/ demodState' = "ARMED"
    BY <2>2
  <2>4. index' = NextIndex(index, 1) /\ ahead' = ahead - 1 /\ word' = word  BY <2>1 DEF Pass
  <2>5. /\ lsfCorr \in -3 .. 3 /\ Correlation(word, {"LSF"}, ahead - 1, lsfCorr)
        /\ packetCorr \in -3 .. 3 /\ Correlation(word, {"PACKET", "BERT"}, ahead - 1, packetCorr)
    BY Correlations
  <2>6. IsSync(lsfSync) /\ IsSync(packetSync) /\ index \in 0 .. BufferSize - 1 /\ ahead \in Int
    BY DEF SyncsOK, TypeOK
  <2>7. /\ Watch(lsfSync, {"LSF"}, word, index, ahead)
        /\ Watch(packetSync, {"PACKET", "BERT"}, word, index, ahead)
    BY <2>1 DEF WatchInv
  <2>8. l \in Update(lsfSync, NextIndex(index, 1), lsfCorr)
        /\ p \in Update(packetSync, NextIndex(index, 1), packetCorr)
    BY <2>4
  <2>9. /\ Watch(l.sync, {"LSF"}, word, NextIndex(index, 1), ahead - 1)
        /\ Found_Peak(lsfSync, lsfCorr, l)
    BY <2>5, <2>6, <2>7, <2>8, Watched
  <2>10. /\ Watch(p.sync, {"PACKET", "BERT"}, word, NextIndex(index, 1), ahead - 1)
         /\ Found_Peak(packetSync, packetCorr, p)
    BY <2>5, <2>6, <2>7, <2>8, Watched
  <2>11. CASE demodState' = "ARMED"
    <3>1. WatchInv'  BY <2>3, <2>4, <2>9, <2>10, <2>11 DEF WatchInv
    <3> QED  BY <3>1, <1>1, <2>11
  <2>12. CASE l.status = 1 /\ demodState' = "SYNCED" /\ peak' = l.peak
    <3>1. lsfSync.triggered /\ ~Triggers(lsfSync, lsfCorr) /\ l.peak = Peak(lsfSync, lsfCorr)
      BY <2>9, <2>12 DEF Found_Peak
    <3>2. ahead - 1 \in -2 .. -1 /\ ahead - 1 + Ago(NextIndex(index, 1), l.peak) \in -1 .. 1
      BY <3>1, <2>5, <2>6, <2>7, PeakDistance
    <3>3. ~Sounds(word, {"PACKET", "BERT"})
      <4>1. word.kind = "LSF"  BY <3>1, <2>7 DEF Watch, Sounds
      <4> QED  BY <4>1 DEF Sounds
    <3>4. ~p.sync.triggered
      <4>1. packetCorr = 0 /\ ~packetSync.triggered  BY <3>3, <2>5, <2>7 DEF Correlation, Watch
      <4>2. ~Triggers(packetSync, packetCorr)  BY <4>1 DEF Triggers
      <4> QED  BY <4>1, <4>2, <2>10 DEF Found_Peak
    <3>5. WatchInv'  BY <3>2, <3>4, <2>3, <2>4, <2>12 DEF WatchInv
    <3> QED  BY <3>5, <1>1, <2>12
  <2>13. CASE p.status = -1 /\ demodState' = "SYNCED" /\ peak' = p.peak
    <3>1. packetSync.triggered /\ ~Triggers(packetSync, packetCorr) /\ p.peak = Peak(packetSync, packetCorr)
          /\ ~p.sync.triggered
      BY <2>10, <2>13 DEF Found_Peak
    <3>2. ahead - 1 \in -2 .. -1 /\ ahead - 1 + Ago(NextIndex(index, 1), p.peak) \in -1 .. 1
      BY <3>1, <2>5, <2>6, <2>7, PeakDistance
    <3>3. WatchInv'  BY <3>1, <3>2, <2>3, <2>4, <2>13 DEF WatchInv
    <3> QED  BY <3>3, <1>1, <2>13
  <2> QED  BY <2>3, <2>11, <2>12, <2>13
<1> QED  BY <1>3, <1>4, <1>5, <1>6, <1>7, <1>8

LEMMA SmallSum ==
    \A a \in Nat, z \in -3 .. -1, n \in Nat :
       z + a \in -1 .. 1 /\ n >= 15 => /\ a \in 0 .. n - 1 /\ z <= n /\ a < n
                                     /\ Magnitude(0 - a - z) <= 1
<1> TAKE a \in Nat, z \in -3 .. -1, n \in Nat
<1>1. z + a \in -1 .. 1 => 0 - a - z \in -1 .. 1 /\ a <= 4  OBVIOUS
<1>2. \A x \in -1 .. 1 : Magnitude(x) <= 1  BY DEF Magnitude
<1> QED  BY <1>1, <1>2

\* The peak sets the clock to within a sample.
LEMMA ClockSet ==
    ASSUME NEW a, a \in 0 .. BufferSize - 1, ahead' \in -3 .. -1, ahead' + a \in -1 .. 1,
           symbols' = N, sampleIndex' = (a + 1) % S, missesInARow' = 0, demodState' = "LOCKED"
    PROVE  LatenessInv'
<1>1. S \in Nat /\ S >= 15 /\ S \div 2 >= 7 /\ S \div 2 \in Nat  BY Lengths
<1>0. a \in Nat
  <2>1. BufferSize \in Nat  BY Ring
  <2> QED  BY <2>1
<1>2. a \in 0 .. S - 1 /\ ahead' <= S /\ a < S /\ Magnitude(0 - a - ahead') <= 1
  <2>1. \A z \in -3 .. -1 : z + a \in -1 .. 1 =>
           a \in 0 .. S - 1 /\ z <= S /\ a < S /\ Magnitude(0 - a - z) <= 1
    BY <1>0, <1>1, SmallSum
  <2> QED  BY <2>1, Zenon
<1>3. Elapsed' = a  BY <1>2, ElapsedSet
<1>4. lateness' = (IF Elapsed' < S /\ ahead' <= S THEN 0 ELSE FrameLength) - Elapsed' - ahead'
  BY DEF lateness, S, FrameLength
<1>5. lateness' = 0 - a - ahead'
  BY <1>2, <1>3, <1>4, Zenon
<1>6. Magnitude(lateness') <= 1  BY <1>2, <1>5
<1>7. Bound' = 1  BY DEF Bound
<1>8. ahead' >= -(S \div 2)  BY <1>1
<1> QED  BY <1>6, <1>7, <1>8 DEF LatenessInv, S

LEMMA FoundPlace ==
    ASSUME PlaceInv, Confirm \/ \E w \in SyncWords : FindSync(w)
    PROVE  LockInv' /\ LatenessInv' /\ WatchInv' /\ SymbolsInPlace'
<1> USE DEF PlaceInv, ClockOK, ClockInv
<1>1. ASSUME demodState' = "LOCKED", symbols' = N, missesInARow' = 0, missedSyncs' \in Nat
      PROVE  LockInv' /\ SymbolsInPlace'
  <2>1. N \in N .. SeekFrom - 1 /\ SeekFrom' = SeekFrom  BY Numbers DEF SeekFrom, F, N
  <2> QED  BY <1>1, <2>1 DEF LockInv, SymbolsInPlace, MaxMissed, N
<1>2. CASE Confirm
  <2>1. /\ demodState = "SYNCED" /\ Pass(1) /\ symbols' = N
        /\ UNCHANGED <<missedSyncs, packetSync>>
    BY <1>2 DEF Confirm, N
  <2>2. CASE demodState' = "UNLOCKED"
    BY <2>2 DEF LockInv, LatenessInv, WatchInv, SymbolsInPlace, InFrame
  <2>3. CASE demodState' # "UNLOCKED"
    <3>1. /\ demodState' = "LOCKED" /\ sampleIndex' = (Ago(index', peak) + 1) % S
          /\ missesInARow' = 0
      BY <1>2, <2>3 DEF Confirm, S
    <3>2. /\ ahead \in -2 .. -1 /\ ahead + Ago(index, peak) \in -1 .. 1 /\ ~packetSync.triggered
      BY <2>1 DEF WatchInv
    <3>3. index' = NextIndex(index, 1) /\ ahead' = ahead - 1 /\ index' \in 0 .. BufferSize - 1
      <4>1. index' = NextIndex(index, 1) /\ ahead' = ahead - 1  BY <2>1 DEF Pass
      <4> QED  BY <4>1, <2>1, Passed
    <3>4. index \in 0 .. BufferSize - 1 /\ peak \in 0 .. BufferSize - 1  BY DEF TypeOK, SyncsOK
    <3>5. Ago(index', peak) = Ago(index, peak) + 1
      <4>1. BufferSize \in Nat /\ BufferSize > 8  BY Ring
      <4>2. index' = IF index = BufferSize - 1 THEN 0 ELSE index + 1  BY <3>3, <3>4, Ring
      <4>3. Ago(index, peak) = IF index >= peak THEN index - peak ELSE index + BufferSize - peak
        BY <3>4, Ring
      <4>4. Ago(index', peak) = IF index' >= peak THEN index' - peak ELSE index' + BufferSize - peak
        BY <3>3, <3>4, Ring
      <4> QED  BY <4>1, <4>2, <4>3, <4>4, <3>2, <3>4
    <3>6. Ago(index', peak) \in 0 .. BufferSize - 1  BY <3>3, <3>4, AgoTyped
    <3>7. ahead' \in -3 .. -1 /\ ahead' + Ago(index', peak) \in -1 .. 1
      <4>1. Ago(index, peak) \in Int
        <5>1. BufferSize \in Nat  BY Ring
        <5> QED  BY <3>4, <5>1, AgoTyped
      <4> QED  BY <4>1, <3>2, <3>3, <3>5
    <3>8. LatenessInv'  BY <2>1, <3>1, <3>6, <3>7, ClockSet
    <3>9. WatchInv'  BY <2>1, <3>1, <3>2 DEF WatchInv
    <3>10. LockInv' /\ SymbolsInPlace'  BY <1>1, <2>1, <3>1 DEF TypeOK
    <3> QED  BY <3>8, <3>9, <3>10
  <2> QED  BY <2>2, <2>3
<1>3. CASE \E w \in SyncWords : FindSync(w)
  <2>1. PICK u \in Results :
         /\ Seek(u) /\ symbols' = N /\ u.status # 0
         /\ sampleIndex' = (Ago(index', u.peak) + 1) % S
         /\ demodState' = "LOCKED" /\ missedSyncs' = 0 /\ missesInARow' = 0
    BY <1>3 DEF FindSync, Found, InPlace, N, S
  <2>2. /\ ~packetSync'.triggered
        /\ ahead' \in -2 .. -1 /\ ahead' + Ago(index', u.peak) \in -1 .. 1
    BY <2>1, ResultWatched
  <2>3. Ago(index', u.peak) \in 0 .. BufferSize - 1
    <3>1. index' \in 0 .. BufferSize - 1 /\ u.peak \in 0 .. BufferSize - 1  BY <2>1, ResultTyped
    <3> QED  BY <3>1, AgoTyped
  <2>4. LatenessInv'  BY <2>1, <2>2, <2>3, ClockSet
  <2>5. WatchInv'  BY <2>1, <2>2 DEF WatchInv
  <2>6. LockInv' /\ SymbolsInPlace'  BY <1>1, <2>1
  <2> QED  BY <2>4, <2>5, <2>6
<1> QED  BY <1>2, <1>3

\* Samples on which the code only counts: the clock goes on with the signal.
LEMMA CountLate ==
    ASSUME PlaceInv, Count, InFrame
    PROVE  /\ lateness' = lateness /\ Magnitude(lateness) <= 6 /\ Quiet <= S
           /\ Elapsed < S => Elapsed' < S
<1> USE DEF PlaceInv, ClockOK, ClockInv
<1>1. UNCHANGED symbols /\ Pass(Quiet) /\ Quiet > 0
  BY DEF Count, frame
<1>2. Quiet \in Nat /\ Quiet < S  BY QuietSignal
<1>3. ahead' = ahead - Quiet  BY <1>1, <1>2, Passed
<1>4. Magnitude(lateness) <= 6 /\ ahead >= -(S \div 2)  BY LatenessBound
<1>5. sampleIndex' = (sampleIndex + Quiet) % S /\ Quiet <= (S - sampleIndex) % S
  BY QuietBounds DEF Count, S
<1>6. phase' = phase + Quiet
  <2> DEFINE k == Quiet
  <2>1. S \in Nat \ {0} /\ sampleIndex \in 0 .. S - 1 /\ k \in Nat /\ k > 0
    BY Numbers, <1>1, <1>2 DEF TypeOK
  <2>2. sampleIndex' = (sampleIndex + k) % S /\ k <= (S - sampleIndex) % S  BY <1>5
  <2>3. phase' = IF sampleIndex' = 0 THEN S - 1 ELSE sampleIndex' - 1  BY DEF phase, S
  <2> HIDE DEF k
  <2>4. sampleIndex # 0 /\ k <= S - sampleIndex
    <3>1. sampleIndex = 0 => (S - sampleIndex) % S = 0  BY <2>1
    <3>2. sampleIndex # 0 => (S - sampleIndex) % S = S - sampleIndex  BY <2>1
    <3> QED  BY <3>1, <3>2, <2>1, <2>2
  <2>5. sampleIndex' = IF sampleIndex + k = S THEN 0 ELSE sampleIndex + k
    BY <2>1, <2>2, <2>4
  <2>6. phase' = phase + k  BY <2>1, <2>3, <2>4, <2>5 DEF phase
  <2> QED  BY <2>6 DEF k
<1>7. Elapsed = S * After_N(symbols) + phase /\ S * After_N(symbols) \in Nat /\ phase \in 0 .. S - 1
      /\ (Elapsed < S <=> symbols = N)
  BY ElapsedRange
<1>8. Elapsed' = S * After_N(symbols) + phase'  BY <1>1 DEF Elapsed, After_N, S, N, F
<1>9. Elapsed' = Elapsed + Quiet  BY <1>2, <1>6, <1>7, <1>8
<1>10. phase' <= S - 1
  <2>1. sampleIndex' \in 0 .. S - 1
    <3>1. S \in Nat \ {0} /\ sampleIndex + Quiet \in Nat  BY Numbers, <1>2 DEF TypeOK
    <3> QED  BY <3>1, <1>5
  <2>2. phase' = IF sampleIndex' = 0 THEN S - 1 ELSE sampleIndex' - 1  BY DEF phase, S
  <2>3. \A x \in 0 .. S - 1 : (IF x = 0 THEN S - 1 ELSE x - 1) <= S - 1  BY Numbers
  <2> QED  BY <2>1, <2>2, <2>3
<1>11. Elapsed < S => Elapsed' < S
  <2> SUFFICES ASSUME symbols = N PROVE Elapsed' < S  BY <1>7
  <2>1. After_N(symbols) = 0 /\ S \in Nat /\ S * 0 = 0  BY Numbers DEF After_N
  <2>2. Elapsed' = phase'
    <3>1. Elapsed' = 0 + phase'  BY <2>1, <1>8
    <3> QED  BY <3>1, <1>2, <1>6, <1>7
  <2> QED  BY <2>1, <2>2, <1>6, <1>7, <1>10, <1>2
<1>12. lateness' = lateness
  <2>1. Quiet <= S  BY <1>2, Lengths
  <2> QED  BY <2>1, <1>2, <1>3, <1>4, <1>9, <1>11, LatenessKept
<1> QED  BY <1>2, <1>4, <1>11, <1>12, Lengths

LEMMA CountPlace ==
    ASSUME PlaceInv, Count
    PROVE  LockInv' /\ LatenessInv' /\ WatchInv' /\ SymbolsInPlace'
<1> USE DEF PlaceInv, ClockOK, ClockInv
<1>1. /\ UNCHANGED <<demodState, missedSyncs, missesInARow, lsfSync, packetSync, peak, symbols, late>>
      /\ demodState \in {"ARMED", "LOCKED", "SYNC_UPDATE"} /\ Pass(Quiet) /\ Quiet > 0
  BY DEF Count, machine, syncs, frame
<1>2. Quiet \in Nat /\ (ahead \in -1 .. 2 => Quiet = 0) /\ (InFrame => Quiet < S)
      /\ (ahead >= -(S \div 2) => ahead - Quiet >= -(S \div 2))
      /\ (word.heard # "due" /\ ahead > 2 => ahead - Quiet > 2)
  BY QuietSignal
<1>3. ahead' = ahead - Quiet /\ word' = word /\ ahead \in Int
  BY <1>1, <1>2, Passed DEF TypeOK
<1>4. LockInv'  BY <1>1 DEF LockInv, InFrame, N, SeekFrom, F
<1>5. SymbolsInPlace'  BY <1>1 DEF SymbolsInPlace, InFrame
<1>6. ASSUME NEW s, NEW kinds, NEW i, Watch(s, kinds, word, i, ahead), NEW j
      PROVE  Watch(s, kinds, word, j, ahead')
  <2>1. ~s.triggered  BY <1>1, <1>2, <1>6 DEF Watch, Rising
  <2>2. ~(Sounds(word, kinds) /\ ahead' = 0)
    <3> SUFFICES ASSUME Sounds(word, kinds), ahead' = 0 PROVE FALSE  OBVIOUS
    <3>1. word.heard # "due"  BY DEF Sounds
    <3> QED  BY <3>1, <1>1, <1>2, <1>3
  <2> QED  BY <2>1, <2>2, Untriggered
<1>7. WatchInv'
  <2>1. demodState = "ARMED" => Watch(lsfSync, {"LSF"}, word, index', ahead')
    BY <1>6 DEF WatchInv
  <2>2. demodState \in {"ARMED", "SYNC_UPDATE"} =>
          Watch(packetSync, {"PACKET", "BERT"}, word, index', ahead')
    BY <1>6 DEF WatchInv
  <2> QED  BY <2>1, <2>2, <1>1, <1>3 DEF WatchInv
<1>8. ASSUME InFrame PROVE LatenessInv'
  <2>1. lateness' = lateness /\ Quiet <= S  BY <1>8, CountLate
  <2>2. ahead >= -(S \div 2)  BY <1>8, LatenessBound
  <2> QED  BY <1>1, <1>2, <1>3, <1>8, <2>1, <2>2, BoundKept
<1>9. LatenessInv'
  <2>1. CASE InFrame  BY <1>8, <2>1
  <2>2. CASE ~InFrame  BY <1>1, <2>2 DEF LatenessInv, InFrame
  <2> QED  BY <2>1, <2>2
<1> QED  BY <1>4, <1>5, <1>7, <1>9

\* A step that takes no sample, far from the peak of the sync word heard.
LEMMA StillPlace ==
    ASSUME PlaceInv, UNCHANGED <<machine, syncs, frame, sampleIndex, index>>,
           ahead \notin -2 .. 2, ahead' # 0 \/ word'.heard = "due"
    PROVE  /\ LockInv' /\ WatchInv' /\ SymbolsInPlace'
           /\ Elapsed' = Elapsed /\ demodState' = demodState /\ missesInARow' = missesInARow
           /\ ahead \in Int
<1> USE DEF PlaceInv, ClockOK, ClockInv
<1>1. UNCHANGED <<demodState, missedSyncs, missesInARow, lsfSync, packetSync, peak, symbols, late,
                  sampleIndex, index>>
  BY DEF machine, syncs, frame
<1>2. LockInv'  BY <1>1 DEF LockInv, InFrame, N, SeekFrom, F
<1>3. SymbolsInPlace'  BY <1>1 DEF SymbolsInPlace, InFrame
<1>4. Elapsed' = Elapsed  BY <1>1 DEF Elapsed, phase, S, N, F
<1>5. ASSUME NEW s, NEW kinds, Watch(s, kinds, word, index, ahead)
      PROVE  Watch(s, kinds, word', index', ahead')
  <2>1. ~s.triggered  BY <1>5 DEF Watch, Rising
  <2>2. ~(Sounds(word', kinds) /\ ahead' = 0)  BY DEF Sounds
  <2> QED  BY <2>1, <2>2, Untriggered
<1>6. WatchInv'
  <2>1. demodState # "SYNCED"  BY DEF WatchInv
  <2>2. demodState = "ARMED" => Watch(lsfSync, {"LSF"}, word', index', ahead')
    BY <1>5 DEF WatchInv
  <2>3. demodState \in {"ARMED", "SYNC_UPDATE"} =>
          Watch(packetSync, {"PACKET", "BERT"}, word', index', ahead')
    BY <1>5 DEF WatchInv
  <2> QED  BY <2>1, <2>2, <2>3, <1>1 DEF WatchInv
<1>7. ahead \in Int  BY DEF TypeOK
<1> QED  BY <1>1, <1>2, <1>3, <1>4, <1>6, <1>7

\* Half a symbol after a sync word the next one is due a frame later.
LEMMA FrameEndPlace ==
    ASSUME PlaceInv, NextFrame
    PROVE  /\ LockInv' /\ LatenessInv' /\ WatchInv' /\ SymbolsInPlace'
           /\ InFrame => lateness' = lateness
<1> USE DEF PlaceInv, ClockOK, ClockInv
<1> DEFINE H == S \div 2
           FL == FrameLength
<1>1. /\ H \in Nat /\ H >= 7 /\ H <= S - 8 /\ S \in Nat /\ Window \in Nat /\ FL \in Nat
      /\ FL - H > Window /\ FL - H > S
  <2> DEFINE sn == S * N
  <2>1. /\ H \in Nat /\ H >= 7 /\ H <= S - 8 /\ S \in Nat /\ Window = 2 * sn /\ FL \in Nat
        /\ FL >= 3 * sn + 3 * S /\ sn \in Nat /\ sn >= S
    BY Lengths
  <2> HIDE DEF sn, H, FL
  <2> QED  BY <2>1
<1>2. ahead = -H /\ ahead' = ahead + FL /\ word' = Awaited(word)
      /\ UNCHANGED <<machine, syncs, frame, sampleIndex, index>>
  BY DEF NextFrame, FrameEnd, S
<1> HIDE DEF H, FL
<1>3. ahead \notin -2 .. 2  BY <1>1, <1>2
<1>4. word'.heard = "due"  BY <1>2 DEF Awaited, TypeOK
<1>5. /\ LockInv' /\ WatchInv' /\ SymbolsInPlace'
      /\ Elapsed' = Elapsed /\ demodState' = demodState /\ missesInARow' = missesInARow
  BY <1>2, <1>3, <1>4, StillPlace
<1>6. ASSUME InFrame PROVE LatenessInv' /\ lateness' = lateness
  <2>1. /\ missesInARow \in 0 .. 4 /\ lateness \in -6 .. 6 /\ Magnitude(lateness) <= Bound
        /\ Bound \in {1 + missesInARow, 2 + missesInARow}
    BY <1>6, LatenessBound
  <2>2. Elapsed \in Nat /\ Elapsed < FL  BY ElapsedRange DEF FL
  <2>3. lateness = (IF Elapsed < S /\ ahead <= S THEN 0 ELSE FL) - Elapsed - ahead
    BY DEF lateness, FL
  <2>4. lateness' = (IF Elapsed' < S /\ ahead' <= S THEN 0 ELSE FL) - Elapsed' - ahead'
    BY DEF lateness, S, FL, FrameLength
  <2>5. ahead' = FL - H /\ ahead' > S /\ ahead' > Window  BY <1>1, <1>2
  <2>6. Elapsed < S  BY <1>1, <1>2, <2>1, <2>2, <2>3
  <2>7. lateness' = lateness  BY <1>1, <1>2, <1>5, <2>2, <2>3, <2>4, <2>5, <2>6
  <2>8. Bound' = IF demodState = "LOCKED" THEN 1 + missesInARow ELSE 2 + missesInARow
    <3>1. ~(ahead' <= Window)  BY <1>1, <1>2, <2>5
    <3> QED  BY <3>1, <1>5 DEF Bound, Window
  <2>9. Bound <= Bound'  BY <2>1, <2>8 DEF Bound
  <2>10. Magnitude(lateness') <= Bound'
    <3>1. Magnitude(lateness) \in Int /\ Bound \in Int /\ Bound' \in Int
      BY <2>1, <2>8 DEF Magnitude
    <3> QED  BY <3>1, <2>1, <2>7, <2>9
  <2>11. ahead' >= -H  BY <1>1, <2>5
  <2> QED  BY <2>7, <2>10, <2>11 DEF LatenessInv, H, S
<1>7. LatenessInv'
  <2>1. CASE InFrame  BY <1>6, <2>1
  <2>2. CASE ~InFrame  BY <1>5, <2>2 DEF LatenessInv, InFrame
  <2> QED  BY <2>1, <2>2
<1> QED  BY <1>5, <1>6, <1>7

\* The sync word due is early or late by what the clocks have drifted.
LEMMA WordPlace ==
    ASSUME PlaceInv, NextWord
    PROVE  LockInv' /\ LatenessInv' /\ WatchInv' /\ SymbolsInPlace'
<1> USE DEF PlaceInv, ClockOK, ClockInv
<1>1. PICK drift \in -1 .. 1 :
         /\ ahead = 5 /\ word.heard = "due" /\ ahead' = ahead + drift /\ word'.heard # "due"
         /\ UNCHANGED <<machine, syncs, frame, sampleIndex, index>>
  <2>1. /\ ahead = 5 /\ word.heard = "due"
        /\ UNCHANGED <<machine, syncs, frame, sampleIndex, index>>
    BY DEF NextWord, WordDue
  <2>2. CASE word' = NoWord /\ UNCHANGED <<words, ahead>>
    <3>1. word'.heard # "due" /\ ahead' = ahead + 0 /\ 0 \in -1 .. 1  BY <2>1, <2>2 DEF NoWord
    <3> QED  BY <2>1, <3>1
  <2>3. CASE word' \in Words(After(word.kind)) /\ \E drift \in Drifts : ahead' = ahead + drift
    <3>1. word'.heard # "due"  BY <2>3 DEF Words
    <3>2. Drifts \subseteq -1 .. 1  BY FrameAssumption
    <3> QED  BY <2>1, <2>3, <3>1, <3>2
  <2> QED  BY <2>2, <2>3 DEF NextWord
<1>2. ahead' \in 4 .. 6 /\ ahead \notin -2 .. 2 /\ ahead' # 0  BY <1>1
<1>3. /\ LockInv' /\ WatchInv' /\ SymbolsInPlace'
      /\ Elapsed' = Elapsed /\ demodState' = demodState /\ missesInARow' = missesInARow
  BY <1>1, <1>2, StillPlace
<1>4. ASSUME InFrame PROVE LatenessInv'
  <2> DEFINE sn == S * N
             sh == S * (N \div 2)
             FL == FrameLength
  <2>1. /\ missesInARow \in 0 .. 4 /\ lateness \in -6 .. 6 /\ Magnitude(lateness) <= Bound
        /\ lateness \in Int
    BY <1>4, LatenessBound
  <2>2. /\ S \in Nat /\ S >= 15 /\ FL \in Nat /\ sn \in Nat /\ sn >= S /\ sh \in Nat
        /\ Window = 2 * sn /\ S \div 2 \in Nat
    BY Lengths
  <2>3. /\ Elapsed \in Nat /\ Elapsed < FL /\ (Elapsed < S <=> symbols = N)
        /\ symbols \in N .. SeekFrom - 1 => Elapsed < FL - sn - sh
    BY ElapsedRange
  <2>4. lateness = (IF Elapsed < S /\ ahead <= S THEN 0 ELSE FL) - Elapsed - ahead
    BY DEF lateness
  <2>5. lateness' = (IF Elapsed' < S /\ ahead' <= S THEN 0 ELSE FL) - Elapsed' - ahead'
    BY DEF lateness, S, FrameLength
  <2> HIDE DEF sn, sh, FL
  <2>6. demodState # "LOCKED"
    <3> SUFFICES ASSUME demodState = "LOCKED" PROVE FALSE  OBVIOUS
    <3>1. symbols \in N .. SeekFrom - 1 /\ (symbols = N => missesInARow = 0)  BY DEF LockInv
    <3>2. Bound = 1 + missesInARow  BY DEF Bound
    <3>3. CASE Elapsed < S
      <4>1. Magnitude(lateness) <= 1  BY <3>1, <3>2, <3>3, <2>1, <2>3
      <4>2. lateness = 0 - Elapsed - 5  BY <3>3, <2>2, <2>3, <2>4, <1>1
      <4> QED  BY <4>1, <4>2, <2>1, <2>3 DEF Magnitude
    <3>4. CASE ~(Elapsed < S)
      <4>1. lateness = FL - Elapsed - 5  BY <3>4, <2>2, <2>3, <2>4, <1>1
      <4>2. Elapsed < FL - sn - sh  BY <3>1, <2>3
      <4> QED  BY <4>1, <4>2, <2>1, <2>2, <2>3
    <3> QED  BY <3>3, <3>4
  <2>7. Bound = 1 + missesInARow /\ Bound' = 2 + missesInARow
    <3>1. ahead <= Window  BY <1>1, <2>2
    <3>2. Bound = 1 + missesInARow  BY <3>1, <1>1 DEF Bound
    <3>3. Bound' = 2 + missesInARow  BY <1>1, <1>3, <2>6 DEF Bound
    <3> QED  BY <3>2, <3>3
  <2>8. lateness' = lateness - drift  BY <1>1, <1>2, <1>3, <2>2, <2>3, <2>4, <2>5
  <2>9. \A x \in Int, m \in 0 .. 4 :
           Magnitude(x) <= 1 + m => Magnitude(x - drift) <= 2 + m
    BY DEF Magnitude
  <2>10. Magnitude(lateness') <= Bound'  BY <2>1, <2>7, <2>8, <2>9
  <2>11. ahead' >= -(S \div 2)  BY <1>2, <2>2
  <2> QED  BY <2>10, <2>11 DEF LatenessInv, S
<1>5. LatenessInv'
  <2>1. CASE InFrame  BY <1>4, <2>1
  <2>2. CASE ~InFrame  BY <1>3, <2>2 DEF LatenessInv, InFrame
  <2> QED  BY <2>1, <2>2
<1> QED  BY <1>3, <1>5

\* A sample of LOCKED.
LEMMA FollowPlace ==
    ASSUME PlaceInv, Follow
    PROVE  LockInv' /\ LatenessInv' /\ WatchInv' /\ SymbolsInPlace'
<1> USE DEF PlaceInv, ClockOK, ClockInv
<1>1. /\ demodState = "LOCKED" /\ InFrame /\ Pass(1) /\ TakeSymbol /\ Tick
      /\ UNCHANGED <<missedSyncs, missesInARow, packetSync>>
      /\ IF AtSymbol /\ symbols' = SeekFrom THEN demodState' = "SYNC_UPDATE"
                                            ELSE demodState' = demodState
  BY DEF Follow, InFrame, syncs, SeekFrom, F, N
<1>2. /\ lateness' = lateness /\ ahead' = ahead - 1 /\ ahead - 1 >= -(S \div 2)
      /\ symbols' # N => late' \in Int /\ Magnitude(late') <= 2 + missesInARow
  BY <1>1, SampleLate
<1>3. SymbolsInPlace'  BY <1>1, <1>2 DEF SymbolsInPlace, N
<1>4. /\ symbols \in N .. SeekFrom - 1 /\ (symbols = N => missesInARow = 0)
      /\ missesInARow <= missedSyncs /\ missesInARow <= MaxMissed
  BY <1>1 DEF LockInv
<1>5. N \in Nat /\ F \in Nat /\ SeekFrom \in Nat /\ SeekFrom < F /\ SeekFrom > N
  <2> DEFINE h == N \div 2
  <2>1. N \in Nat /\ N > 1 /\ h \in Nat /\ N <= 2 * h + 1 /\ F \in Nat /\ SeekFrom = F - h
        /\ SeekFrom \in Nat /\ SeekFrom > 2 * N
    BY Numbers, FrameAssumption DEF SeekFrom, N
  <2> HIDE DEF h
  <2> QED  BY <2>1
<1>6. /\ AtSymbol => symbols' = symbols + 1
      /\ ~AtSymbol => symbols' = symbols
  <2>1. /\ AtSymbol => symbols' = IF symbols = F - 1 THEN 0 ELSE symbols + 1
        /\ ~AtSymbol => symbols' = symbols
    BY <1>1, SampleTaken
  <2> QED  BY <2>1, <1>4, <1>5
<1>7. LockInv'
  <2>1. demodState' = "LOCKED" => symbols' \in N .. SeekFrom - 1
    BY <1>1, <1>4, <1>5, <1>6
  <2>2. symbols' = N => missesInARow = 0  BY <1>4, <1>5, <1>6
  <2>3. missesInARow' <= missedSyncs' /\ missesInARow' <= MaxMissed  BY <1>1, <1>4
  <2> QED  BY <2>1, <2>2, <2>3, <1>1 DEF LockInv, MaxMissed, N, SeekFrom, F
<1>8. CASE demodState' = demodState
  <2>1. word' = word  BY <1>1 DEF Pass
  <2>2. S \in Nat /\ 1 <= S  BY Lengths
  <2>3. LatenessInv'  BY <2>1, <2>2, <1>1, <1>2, <1>8, BoundKept
  <2>4. WatchInv'  BY <1>1, <1>8 DEF WatchInv
  <2> QED  BY <2>3, <2>4, <1>3, <1>7
<1>9. CASE demodState' # demodState
  <2>1. AtSymbol /\ symbols' = SeekFrom /\ demodState' = "SYNC_UPDATE"  BY <1>1, <1>9
  <2>2. /\ missesInARow \in 0 .. 4 /\ lateness \in -6 .. 6 /\ Magnitude(lateness) <= Bound
    BY <1>1, LatenessBound
  <2>3. Bound = 1 + missesInARow /\ Bound' \in {1 + missesInARow, 2 + missesInARow}
    BY <1>1 DEF Bound
  <2>4. Magnitude(lateness') <= Bound'
    <3>1. Magnitude(lateness) \in Int  BY <2>2 DEF Magnitude
    <3> QED  BY <3>1, <2>2, <2>3, <1>2
  <2>5. LatenessInv'  BY <2>4, <1>2 DEF LatenessInv, S
  <2>6. ahead' > 0
    <3> DEFINE sn == S * N
               sh == S * (N \div 2)
               FL == FrameLength
    <3>1. S \in Nat /\ S >= 15 /\ FL \in Nat /\ sn \in Nat /\ sn >= S /\ sh \in Nat
          /\ S * (SeekFrom - N) = FL - sn - sh
          /\ FL >= 3 * sn + 3 * S /\ 2 * sh <= sn
      BY Lengths
    <3>2. phase' = 0  BY <2>1, <1>1, SampleTaken
    <3>3. Elapsed' = S * (SeekFrom - N) + phase'
      <4>1. SeekFrom >= N  BY <1>5
      <4> QED  BY <4>1, <2>1 DEF Elapsed, S, N, F
    <3>4. lateness' = (IF Elapsed' < S /\ ahead' <= S THEN 0 ELSE FL) - Elapsed' - ahead'
      BY DEF lateness, S, FrameLength
    <3>5. ahead' \in Int  BY <1>2 DEF TypeOK
    <3> HIDE DEF sn, sh, FL
    <3>6. Elapsed' = FL - sn - sh /\ ~(Elapsed' < S)  BY <3>1, <3>2, <3>3
    <3>7. lateness' = sn + sh - ahead'  BY <3>1, <3>4, <3>5, <3>6
    <3> QED  BY <3>1, <3>5, <3>7, <1>2, <2>2
  <2>7. Watch(packetSync', {"PACKET", "BERT"}, word', index', ahead')
    <3>1. ~packetSync'.triggered  BY <1>1 DEF WatchInv
    <3>2. ahead' # 0  BY <2>6
    <3> QED  BY <3>1, <3>2, Untriggered
  <2>8. WatchInv'  BY <2>1, <2>7 DEF WatchInv
  <2> QED  BY <2>5, <2>8, <1>3, <1>7
<1> QED  BY <1>8, <1>9

\* A sample of SYNC_UPDATE after which the sync word is still awaited.
LEMMA AwaitPlace ==
    ASSUME PlaceInv, Await
    PROVE  LockInv' /\ LatenessInv' /\ WatchInv' /\ SymbolsInPlace'
<1> USE DEF PlaceInv, ClockOK, ClockInv
<1>1. PICK u \in Results : Seek(u)  BY DEF Await, NotFound
<1>2. /\ Tick /\ demodState = "SYNC_UPDATE" /\ InFrame /\ Pass(1) /\ TakeSymbol
      /\ UNCHANGED <<demodState, missedSyncs, missesInARow, word>>
  BY <1>1 DEF Await, NotFound, machine, Seek, InFrame, Pass
<1>3. /\ lateness' = lateness /\ ahead' = ahead - 1 /\ ahead - 1 >= -(S \div 2)
      /\ symbols' # N => late' \in Int /\ Magnitude(late') <= 2 + missesInARow
  BY <1>2, SampleLate
<1>4. SymbolsInPlace'  BY <1>2, <1>3 DEF SymbolsInPlace, N
<1>5. LockInv'  BY <1>2 DEF LockInv, InFrame, MaxMissed
<1>6. LatenessInv'
  <2>1. S \in Nat /\ 1 <= S  BY Lengths
  <2> QED  BY <2>1, <1>2, <1>3, BoundKept
<1>7. WatchInv'
  <2>1. Watch(packetSync', {"PACKET", "BERT"}, word', index', ahead')  BY <1>1, ResultWatched
  <2> QED  BY <2>1, <1>2 DEF WatchInv
<1> QED  BY <1>4, <1>5, <1>6, <1>7

\* A sync word is missed, and the clock left as it is for a frame more.
LEMMA GuessPlace ==
    ASSUME PlaceInv, NEW w \in SyncWords, GuessSync(w)
    PROVE  LockInv' /\ LatenessInv' /\ WatchInv' /\ SymbolsInPlace'
<1> USE DEF PlaceInv, ClockOK, ClockInv
<1>1. PICK u \in Results :
         /\ Seek(u) /\ Tick /\ syncCount = 0
         /\ missedSyncs' = (missedSyncs + 1) % 256 /\ missesInARow' = missesInARow + 1
         /\ missedSyncs < MaxMissed
         /\ demodState' \in {"LOCKED", "UNLOCKED"}
  BY DEF GuessSync, Miss, NotFound
<1>2. demodState = "SYNC_UPDATE" /\ InFrame /\ Pass(1) /\ TakeSymbol
  BY <1>1 DEF Seek, InFrame
<1>3. CASE demodState' = "UNLOCKED"
  BY <1>3 DEF LockInv, LatenessInv, WatchInv, SymbolsInPlace, InFrame
<1>4. CASE demodState' = "LOCKED"
  <2>1. /\ lateness' = lateness /\ ahead' = ahead - 1 /\ ahead - 1 >= -(S \div 2)
        /\ symbols' # N => late' \in Int /\ Magnitude(late') <= 2 + missesInARow
    BY <1>1, <1>2, SampleLate
  <2>2. /\ missesInARow \in 0 .. 4 /\ lateness \in -6 .. 6 /\ Magnitude(lateness) <= Bound
        /\ Bound \in {1 + missesInARow, 2 + missesInARow}
    BY <1>2, LatenessBound
  <2>3. missesInARow' \in 0 .. 5 /\ missesInARow' <= missedSyncs' /\ missesInARow' <= MaxMissed
        /\ missedSyncs' = missedSyncs + 1
    <3>1. missedSyncs \in 0 .. 3  BY <1>1 DEF MaxMissed, TypeOK
    <3>2. missesInARow <= missedSyncs  BY <1>2 DEF LockInv
    <3> QED  BY <3>1, <3>2, <2>2, <1>1 DEF MaxMissed
  <2>4. symbols = 2 * N - (N \div 2) /\ symbols' \in {symbols, symbols + 1}
        /\ symbols' \in N .. SeekFrom - 1 /\ symbols' # N /\ symbols # N
    <3> DEFINE h == N \div 2
    <3>1. N \in Nat /\ N > 1 /\ h \in Nat /\ 2 * h <= N /\ F \in Nat /\ F > 3 * N + 2
          /\ SeekFrom = F - h
      BY Numbers, FrameAssumption DEF SeekFrom, N
    <3>2. symbols = 2 * N - h  BY <1>1, <1>2, Window1
    <3>3. /\ AtSymbol => symbols' = IF symbols = F - 1 THEN 0 ELSE symbols + 1
          /\ ~AtSymbol => symbols' = symbols
      BY <1>2, SampleTaken
    <3> HIDE DEF h
    <3>4. symbols' \in {symbols, symbols + 1}  BY <3>1, <3>2, <3>3
    <3>5. symbols' \in N .. SeekFrom - 1 /\ symbols' # N /\ symbols # N  BY <3>1, <3>2, <3>4
    <3> QED  BY <3>2, <3>4, <3>5 DEF h
  <2>5. LockInv'  BY <2>3, <2>4 DEF LockInv, MaxMissed, N, SeekFrom, F
  <2>6. SymbolsInPlace'
    <3>1. late' \in Int /\ Magnitude(late') <= 2 + missesInARow  BY <2>1, <2>4
    <3>2. Magnitude(late') <= 2 + missesInARow'
      <4>1. Magnitude(late') \in Int  BY <3>1 DEF Magnitude
      <4> QED  BY <4>1, <3>1, <2>2, <1>1
    <3> QED  BY <3>2 DEF SymbolsInPlace
  <2>7. LatenessInv'
    <3>1. Bound' = 1 + missesInARow'  BY <1>4 DEF Bound
    <3>2. Magnitude(lateness') <= Bound'
      <4>1. Magnitude(lateness) \in Int  BY <2>2 DEF Magnitude
      <4> QED  BY <4>1, <3>1, <2>1, <2>2, <1>1
    <3> QED  BY <3>2, <2>1 DEF LatenessInv, S
  <2>8. ahead > 3
    <3> DEFINE sn == S * N
               sh == S * (N \div 2)
               FL == FrameLength
    <3>1. S \in Nat /\ S >= 15 /\ FL \in Nat /\ sn \in Nat /\ sn >= S /\ sh \in Nat
          /\ FL >= 3 * sn + 3 * S
      BY Lengths
    <3>2. Elapsed = sn - sh  BY <1>1, <1>2, WindowElapsed
    <3>3. lateness = (IF Elapsed < S /\ ahead <= S THEN 0 ELSE FL) - Elapsed - ahead
      BY DEF lateness
    <3>4. ~(Elapsed < S)  BY <2>4, ElapsedRange
    <3>5. ahead \in Int  BY DEF TypeOK
    <3> HIDE DEF sn, sh, FL
    <3>6. lateness = FL - Elapsed - ahead  BY <3>3, <3>4
    <3> QED  BY <3>1, <3>2, <3>5, <3>6, <2>2
  <2>9. ~packetSync'.triggered  BY <1>1, <2>8, ResultWatched
  <2>10. WatchInv'  BY <1>4, <2>9 DEF WatchInv
  <2> QED  BY <2>5, <2>6, <2>7, <2>10
<1> QED  BY <1>1, <1>3, <1>4

LEMMA NextPlace ==
    ASSUME PlaceInv, [Next]_vars
    PROVE  PlaceInv'
<1>1. ClockOK'  BY NextClock DEF PlaceInv
<1>2. LockInv' /\ LatenessInv' /\ WatchInv' /\ SymbolsInPlace'
  <2>1. CASE UNCHANGED vars \/ NoPeak \/ ReadFrame
    <3>1. UNCHANGED <<demodState, missedSyncs, missesInARow, lsfSync, packetSync, peak, symbols, late,
                      word, ahead, index, sampleIndex>>
      BY <2>1 DEF NoPeak, ReadFrame, vars, machine, syncs, frame, signal
    <3>2. LockInv' /\ SymbolsInPlace'
      BY <3>1 DEF PlaceInv, LockInv, SymbolsInPlace, InFrame, N, SeekFrom, F
    <3>3. LatenessInv'
      BY <3>1 DEF PlaceInv, LatenessInv, InFrame, Bound, lateness, Elapsed, phase, S, N, F, FrameLength, Window
    <3>4. WatchInv'
      BY <3>1 DEF PlaceInv, WatchInv
    <3> QED  BY <3>2, <3>3, <3>4
  <2>2. CASE Initialise \/ Listen \/ Begin \/ Search \/ FindEot \/ LoseLock
    BY <2>2, OutsidePlace
  <2>3. CASE NextFrame  BY <2>3, FrameEndPlace
  <2>4. CASE NextWord  BY <2>4, WordPlace
  <2>5. CASE Count  BY <2>5, CountPlace
  <2>6. CASE Follow  BY <2>6, FollowPlace
  <2>7. CASE Confirm \/ \E w \in SyncWords : FindSync(w)  BY <2>7, FoundPlace
  <2>8. CASE Await  BY <2>8, AwaitPlace
  <2>9. CASE \E w \in SyncWords : GuessSync(w)  BY <2>9, GuessPlace
  <2> QED  BY <2>1, <2>2, <2>3, <2>4, <2>5, <2>6, <2>7, <2>8, <2>9 DEF Next
<1> QED  BY <1>1, <1>2 DEF PlaceInv

\* However update() sets its clock by the peaks of the sync words, and whatever
\* sync words it misses before it gives up, it takes every symbol of a frame once,
\* and none further from its place than two samples and one for every sync word
\* missed: no symbol is lost or taken twice from one sync word to the next.
THEOREM SymbolsInPlaceHolds == Spec => []SymbolsInPlace
<1>1. PlaceInv => SymbolsInPlace  BY DEF PlaceInv
<1> QED  BY <1>1, InitPlace, NextPlace, PTL DEF Spec

(***************************************************************************)
(* A sync word that is heard: when it is found.                            *)
(***************************************************************************)
\* The place of the ring for the last symbol of a sync word, a samples ahead, or
\* one near it, is the last.
RingEnd(i, a) == \E e \in -2 .. 1 : (i + a + e) % BufferSize = HistorySize

\* A remainder stays when a multiple is added.
LEMMA Remainder ==
    \A b \in Nat \ {0}, x, m \in Int : (x + b * m) % b = x % b
<1>1. \A b \in Nat \ {0}, x \in Int :
         x = b * (x \div b) + (x % b) /\ x % b \in 0 .. b - 1 /\ x \div b \in Int
  OBVIOUS
<1>2. ASSUME NEW b \in Nat \ {0}, NEW c \in Int, b * c > -b, b * c < b PROVE c = 0
  <2>1. c >= 1 => b * c >= b  OBVIOUS
  <2>2. c <= -1 => b * c <= -b  OBVIOUS
  <2> QED  BY <1>2, <2>1, <2>2
<1> TAKE b \in Nat \ {0}, x, m \in Int
<1> DEFINE y == x + b * m
           p == x \div b
           q == y \div b
           r == x % b
           s == y % b
<1>3. b * m \in Int /\ y \in Int /\ y = x + b * m  OBVIOUS
<1>4. x = b * p + r /\ r \in 0 .. b - 1 /\ p \in Int  BY <1>1
<1>5. y = b * q + s /\ s \in 0 .. b - 1 /\ q \in Int
  <2> HIDE DEF y
  <2> QED  BY <1>1, <1>3
<1> HIDE DEF y, p, q, r, s
<1>6. b * (q - p - m) = b * q - b * p - b * m /\ q - p - m \in Int  BY <1>4, <1>5
<1>7. b * p \in Int /\ b * q \in Int  BY <1>4, <1>5
<1>8. b * (q - p - m) = r - s  BY <1>3, <1>4, <1>5, <1>6, <1>7
<1>9. q - p - m = 0  BY <1>2, <1>4, <1>5, <1>6, <1>8
<1>10. b * (q - p - m) = 0  BY <1>9
<1>11. s = r  BY <1>4, <1>5, <1>8, <1>10
<1> QED  BY <1>11 DEF s, r, y

\* That place stays the same while samples go by.
LEMMA RingLater ==
    ASSUME NEW i \in 0 .. BufferSize - 1, NEW a \in Int, NEW k \in Nat, RingEnd(i, a)
    PROVE  RingEnd(NextIndex(i, k), a - k)
<1> DEFINE B == BufferSize
           n == NextIndex(i, k)
           q == (i + k) \div B
<1>1. B \in Nat \ {0} /\ i \in Nat  BY Ring
<1>2. n = (i + k) % B  BY DEF NextIndex
<1>3. q \in Int /\ i + k = B * q + n /\ n \in Int
  <2>1. \A x \in Int, b \in Nat \ {0} : x \div b \in Int /\ x = b * (x \div b) + (x % b) /\ x % b \in Int
    OBVIOUS
  <2> QED  BY <2>1, <1>1, <1>2
<1>4. PICK e \in -2 .. 1 : (i + a + e) % B = HistorySize  BY DEF RingEnd
<1> HIDE DEF n, q
<1>5. i + a + e = (n + (a - k) + e) + B * q
  <2>1. B * q \in Int  BY <1>1, <1>3
  <2> HIDE DEF B
  <2> QED  BY <2>1, <1>1, <1>3
<1>6. (n + (a - k) + e) % B = HistorySize
  <2>1. n + (a - k) + e \in Int  BY <1>3
  <2> HIDE DEF B
  <2> QED  BY <2>1, <1>1, <1>3, <1>4, <1>5, Remainder
<1> QED  BY <1>6 DEF RingEnd, n

\* It is the last when a correlation lies there while the sync word passes.
LEMMA NearRingEnd ==
    ASSUME NEW i \in 0 .. BufferSize - 1, NEW a \in -1 .. 2, i = HistorySize
    PROVE  RingEnd(i, a)
<1>1. BufferSize \in Nat /\ HistorySize = BufferSize - 1 /\ BufferSize > 8  BY Ring
<1>2. -a \in -2 .. 1 /\ i + a + (-a) = i  BY <1>1
<1>3. i % BufferSize = i  BY <1>1
<1> QED  BY <1>2, <1>3 DEF RingEnd

\* The sync word at hand, if heard, is found yet, unless the ring has no place for it.
Past(s, i, a) == RingEnd(i, a) \/ (a >= -1 /\ (a = -1 => s.triggered))

SignOf(w) == IF w.kind = "BERT" THEN -1 ELSE 1

\* The peak of a sync word has its sign.
LEMMA FoundSign ==
    ASSUME NEW s, IsSync(s), NEW kinds, NEW w, NEW i \in 0 .. BufferSize - 1, NEW a \in -1 .. 0,
           Watch(s, kinds, w, i, a), s.triggered, i # HistorySize,
           NEW corr \in -3 .. 3, Correlation(w, kinds, a - 1, corr), ~Triggers(s, corr)
    PROVE  PeakSign(s, corr) = SignOf(w)
<1> DEFINE D == DOMAIN s.values
           L == Larger(s, corr)
           v(p) == Signed(w, s.values[p])
           c == Signed(w, corr)
<1>1. Rising(s, w, i, a) /\ Sounds(w, kinds)  BY DEF Watch
<1>2. /\ i \in D /\ v(i) \in Height(a)
      /\ \A p \in D : \E d \in a .. 2 : v(p) \in Height(d)
      /\ Signed(w, s.last_corr) \in Height(a)
  <2>1. Place(i, a, a) = i  BY PlaceLater
  <2>2. a \in a .. 2  OBVIOUS
  <2> QED  BY <1>1, <2>1, <2>2 DEF Rising
<1>3. \A p \in D : v(p) \in 1 .. 3 /\ s.values[p] \in -3 .. 3
  <2>1. \A d : Height(d) \subseteq 1 .. 3  BY DEF Height
  <2> QED  BY <1>2, <2>1 DEF IsSync
<1>4. c \in {0, 2} /\ c < v(i)
  <2>1. c \in Shape(a - 1)  BY <1>1 DEF Correlation
  <2>2. ~(c > 0 /\ c >= Signed(w, s.last_corr))  BY SignedTriggers DEF IsSync
  <2>3. CASE a = 0
    <3>1. c \in {0, 2, 3} /\ v(i) = 3 /\ Signed(w, s.last_corr) = 3
      BY <2>1, <2>3, <1>2 DEF Shape, Height
    <3> HIDE DEF c, v
    <3> QED  BY <3>1, <2>2
  <2>4. CASE a = -1
    <3>1. c = 0 /\ v(i) \in {2, 3}  BY <2>1, <2>4, <1>2 DEF Shape, Height
    <3> HIDE DEF c, v
    <3> QED  BY <3>1
  <2> QED  BY <2>3, <2>4
<1>5. Magnitude(corr) = c
  <2>1. Magnitude(corr) = Magnitude(c)  BY SignedTriggers DEF IsSync
  <2> HIDE DEF c
  <2> QED  BY <2>1, <1>4 DEF Magnitude
<1>6. Magnitude(s.values[i]) = v(i)
  <2>1. s.values[i] \in -3 .. 3 /\ v(i) \in 1 .. 3  BY <1>2, <1>3
  <2> QED  BY <2>1 DEF Signed, Magnitude
<1>7. i \in L  BY <1>2, <1>4, <1>5, <1>6 DEF Larger
<1>8. Peak(s, corr) \in L /\ L # {}  BY <1>7, PeakPlace
<1>9. Peak(s, corr) \in D  BY <1>8 DEF Larger
<1> DEFINE x == s.values[Peak(s, corr)]
<1>10. x \in -3 .. 3 /\ Signed(w, x) \in 1 .. 3  BY <1>3, <1>9
<1>11. PeakSign(s, corr) = IF x >= 0 THEN 1 ELSE -1  BY <1>8 DEF PeakSign
<1> HIDE DEF x
<1> QED  BY <1>10, <1>11 DEF Signed, SignOf

\* A sample later it still is, when the search has not found it.
LEMMA PastLater ==
    ASSUME NEW s, IsSync(s), NEW kinds, NEW w, NEW i \in 0 .. BufferSize - 1, NEW a \in Int,
           Watch(s, kinds, w, i, a), Sounds(w, kinds), Past(s, i, a),
           NEW corr \in -3 .. 3, Correlation(w, kinds, a - 1, corr),
           NEW u \in Update(s, NextIndex(i, 1), corr), u.status # SignOf(w)
    PROVE  Past(u.sync, NextIndex(i, 1), a - 1)
<1> DEFINE n == NextIndex(i, 1)
<1>1. CASE RingEnd(i, a)
  <2>1. RingEnd(n, a - 1)  BY <1>1, RingLater
  <2> QED  BY <2>1 DEF Past
<1>2. CASE ~RingEnd(i, a) /\ a >= 1
  BY <1>2 DEF Past
<1>3. CASE ~RingEnd(i, a) /\ ~(a >= 1)
  <2>1. a \in -1 .. 0 /\ i # HistorySize
    <3>1. a \in -1 .. 0  BY <1>3 DEF Past
    <3> QED  BY <3>1, <1>3, NearRingEnd
  <2>2. s.triggered  BY <2>1, <1>3 DEF Past, Watch
  <2>3. CASE ~Triggers(s, corr)
    <3>1. PeakSign(s, corr) = SignOf(w)  BY <2>1, <2>2, <2>3, FoundSign
    <3>2. u.status = PeakSign(s, corr)  BY <2>2, <2>3 DEF Update
    <3> QED  BY <3>1, <3>2
  <2>4. CASE Triggers(s, corr)
    <3>1. a = 0
      <4> SUFFICES ASSUME a = -1 PROVE FALSE  BY <2>1
      <4>1. Signed(w, corr) = 0  BY DEF Correlation, Shape
      <4> QED  BY <4>1, <2>4, SignedTriggers DEF IsSync
    <3>2. u.sync \in Record(s, n, corr)  BY <2>4 DEF Update
    <3>3. n \in 0 .. BufferSize - 1 /\ HistorySize = BufferSize - 1 /\ BufferSize \in Nat
      BY <3>1, PlaceLater, Ring
    <3>4. CASE n = HistorySize
      <4>1. RingEnd(n, a - 1)  BY <3>1, <3>3, <3>4, NearRingEnd
      <4> QED  BY <4>1 DEF Past
    <3>5. CASE n # HistorySize
      <4>1. n < HistorySize  BY <3>3, <3>5
      <4>2. u.sync.triggered  BY <3>2, <4>1 DEF Record
      <4> QED  BY <4>2, <3>1 DEF Past
    <3> QED  BY <3>4, <3>5
  <2> QED  BY <2>3, <2>4
<1> QED  BY <1>2, <1>1, <1>3

\* A sync word is on the air before it is a few samples ahead.
HeardInv == word.heard # "due" => ahead <= 6

ArmedInv ==
    demodState = "ARMED" =>
       /\ Sounds(word, {"LSF"})  => Past(lsfSync, index, ahead)
       /\ Sounds(word, {"BERT"}) => Past(packetSync, index, ahead)

\* A sync word that was read and not found yet: it is still passing, or the next
\* one is due.
ReadInv ==
    nearest \in {"PACKET", "BERT"} =>
       /\ demodState = "SYNC_UPDATE" /\ late = lateness
       /\ \/ /\ word.heard = "well" /\ word.kind = nearest
             /\ Elapsed < S /\ ahead <= S
             /\ late > 1 \/ Past(packetSync, index, ahead)
          \/ /\ word.heard = "due" /\ ahead > Window
             /\ late > 1 \/ RingEnd(index, ahead - FrameLength)

FoundInv == PlaceInv /\ HeardInv /\ ArmedInv /\ ReadInv

LEMMA InitFound == Init => FoundInv
<1>1. Init => HeardInv /\ ArmedInv /\ ReadInv
  BY DEF Init, HeardInv, ArmedInv, ReadInv
<1> QED  BY <1>1, InitPlace DEF FoundInv

\* While samples are only counted, nothing is found.
LEMMA PastCount ==
    ASSUME PlaceInv, Count, word.heard # "due", NEW s, Past(s, index, ahead)
    PROVE  Past(s, index', ahead')
<1> USE DEF PlaceInv, ClockOK, ClockInv
<1>1. Pass(Quiet) /\ Quiet > 0  BY DEF Count
<1>2. Quiet \in Nat /\ (ahead \in -1 .. 2 => Quiet = 0) /\ (ahead > 2 => ahead - Quiet > 2)
  BY QuietSignal
<1>3. index' = NextIndex(index, Quiet) /\ ahead' = ahead - Quiet  BY <1>1 DEF Pass
<1>4. index \in 0 .. BufferSize - 1 /\ ahead \in Int  BY DEF TypeOK
<1>5. CASE RingEnd(index, ahead)
  <2>1. RingEnd(index', ahead')  BY <1>2, <1>3, <1>4, <1>5, RingLater
  <2> QED  BY <2>1 DEF Past
<1>6. CASE ~RingEnd(index, ahead)
  <2>1. ahead >= -1  BY <1>6 DEF Past
  <2>2. ahead > 2  BY <2>1, <1>1, <1>2, <1>4
  <2> QED  BY <2>2, <1>2, <1>3, <1>4 DEF Past
<1> QED  BY <1>5, <1>6

LEMMA HeardKept ==
    ASSUME FoundInv, [Next]_vars
    PROVE  HeardInv'
<1> USE DEF FoundInv, PlaceInv, ClockOK, ClockInv
<1>0. ahead \in Int  BY DEF TypeOK
<1>1. ASSUME NEW k \in Nat, Pass(k) PROVE HeardInv'
  <2>1. ahead' = ahead - k /\ word' = word  BY <1>1 DEF Pass
  <2> QED  BY <2>1, <1>0 DEF HeardInv
<1>2. ASSUME UNCHANGED <<word, ahead>> PROVE HeardInv'
  BY <1>2 DEF HeardInv
<1>3. CASE Initialise \/ NoPeak \/ ReadFrame \/ UNCHANGED vars
  <2>1. UNCHANGED <<word, ahead>>  BY <1>3 DEF Initialise, NoPeak, ReadFrame, vars, signal
  <2> QED  BY <2>1, <1>2
<1>4. CASE Listen \/ Begin
  <2>1. ahead' \in {0, 3}  BY <1>4 DEF Listen, Begin
  <2> QED  BY <2>1 DEF HeardInv
<1>5. CASE NextFrame
  <2>1. word'.heard = "due"  BY <1>5 DEF NextFrame, Awaited, TypeOK
  <2> QED  BY <2>1 DEF HeardInv
<1>6. CASE NextWord
  <2>1. ahead = 5 /\ (ahead' = ahead \/ \E drift \in Drifts : ahead' = ahead + drift)
    BY <1>6 DEF NextWord, WordDue
  <2>2. ahead' \in 4 .. 6  BY <2>1, FrameAssumption
  <2> QED  BY <2>2 DEF HeardInv
<1>7. CASE Count
  <2>1. Pass(Quiet) /\ Quiet \in Nat  BY <1>7, QuietSignal DEF Count
  <2> QED  BY <2>1, <1>1
<1>8. CASE Search \/ Confirm \/ Follow
  <2>1. Pass(1)  BY <1>8 DEF Search, Confirm, Follow
  <2> QED  BY <2>1, <1>1
<1>9. CASE FindEot \/ Await \/ LoseLock \/ \E w \in SyncWords : FindSync(w) \/ GuessSync(w)
  <2>1. \E u \in Results : Seek(u)
    BY <1>9 DEF FindEot, Await, LoseLock, FindSync, GuessSync, Miss, NotFound
  <2>2. Pass(1)  BY <2>1 DEF Seek
  <2> QED  BY <2>2, <1>1
<1> QED  BY <1>3, <1>4, <1>5, <1>6, <1>7, <1>8, <1>9 DEF Next

\* The first sync word is found, or its correlation came to lie on the ring's end.
LEMMA SearchArmed ==
    ASSUME FoundInv, Search, demodState' = "ARMED"
    PROVE  ArmedInv'
<1> USE DEF FoundInv, PlaceInv, ClockOK, ClockInv
<1>1. demodState = "ARMED" /\ Pass(1)  BY DEF Search
<1>2. PICK lsfCorr \in LsfCorr, packetCorr \in PacketCorr :
        \E l \in Update(lsfSync, index', lsfCorr), p \in Update(packetSync, index', packetCorr) :
           /\ lsfSync' = l.sync /\ packetSync' = p.sync
           /\ l.status # 1 /\ p.status # -1
  BY <1>1 DEF Search
<1>3. PICK l \in Update(lsfSync, index', lsfCorr), p \in Update(packetSync, index', packetCorr) :
           /\ lsfSync' = l.sync /\ packetSync' = p.sync
           /\ l.status # 1 /\ p.status # -1
  BY <1>2
<1>4. index' = NextIndex(index, 1) /\ ahead' = ahead - 1 /\ word' = word  BY <1>1 DEF Pass
<1>5. /\ lsfCorr \in -3 .. 3 /\ Correlation(word, {"LSF"}, ahead - 1, lsfCorr)
      /\ packetCorr \in -3 .. 3 /\ Correlation(word, {"PACKET", "BERT"}, ahead - 1, packetCorr)
  BY Correlations
<1>6. IsSync(lsfSync) /\ IsSync(packetSync) /\ index \in 0 .. BufferSize - 1 /\ ahead \in Int
  BY DEF SyncsOK, TypeOK
<1>7. /\ Watch(lsfSync, {"LSF"}, word, index, ahead)
      /\ Watch(packetSync, {"PACKET", "BERT"}, word, index, ahead)
  BY <1>1 DEF WatchInv
<1>8. l \in Update(lsfSync, NextIndex(index, 1), lsfCorr)
      /\ p \in Update(packetSync, NextIndex(index, 1), packetCorr)
  BY <1>4
<1>9. ASSUME Sounds(word, {"LSF"}) PROVE Past(lsfSync', index', ahead')
  <2>1. Past(lsfSync, index, ahead)  BY <1>1, <1>9 DEF ArmedInv
  <2>2. l.status # SignOf(word)  BY <1>3, <1>9 DEF Sounds, SignOf
  <2>3. Past(l.sync, NextIndex(index, 1), ahead - 1)
    BY <2>1, <2>2, <1>5, <1>6, <1>7, <1>8, <1>9, PastLater
  <2> QED  BY <2>3, <1>3, <1>4
<1>10. ASSUME Sounds(word, {"BERT"}) PROVE Past(packetSync', index', ahead')
  <2>1. Past(packetSync, index, ahead)  BY <1>1, <1>10 DEF ArmedInv
  <2>2. p.status # SignOf(word) /\ Sounds(word, {"PACKET", "BERT"})  BY <1>3, <1>10 DEF Sounds, SignOf
  <2>3. Past(p.sync, NextIndex(index, 1), ahead - 1)
    BY <2>1, <2>2, <1>5, <1>6, <1>7, <1>8, PastLater
  <2> QED  BY <2>3, <1>3, <1>4
<1> QED  BY <1>4, <1>9, <1>10 DEF ArmedInv

LEMMA ArmedKept ==
    ASSUME FoundInv, [Next]_vars
    PROVE  ArmedInv'
<1> USE DEF FoundInv, PlaceInv, ClockOK, ClockInv
<1>1. ASSUME demodState' # "ARMED" PROVE ArmedInv'
  BY <1>1 DEF ArmedInv
<1>2. ASSUME demodState' = "ARMED", ahead' >= 0, ahead' \in Int PROVE ArmedInv'
  <2>1. \A s : Past(s, index', ahead')  BY <1>2 DEF Past
  <2> QED  BY <2>1 DEF ArmedInv
<1>3. ASSUME word'.heard \in {"due", "not"} PROVE ArmedInv'
  BY <1>3 DEF ArmedInv, Sounds
<1>4. CASE NoPeak \/ ReadFrame \/ UNCHANGED vars
  <2>1. UNCHANGED <<demodState, word, index, ahead, lsfSync, packetSync>>
    BY <1>4 DEF NoPeak, ReadFrame, vars, machine, syncs, signal
  <2> QED  BY <2>1 DEF ArmedInv, RingEnd, Past, BufferSize, HistorySize
<1>5. CASE Listen
  <2>1. word' = NoWord  BY <1>5 DEF Listen
  <2> QED  BY <2>1, <1>3 DEF NoWord
<1>6. CASE Begin
  <2>1. demodState' = "ARMED" /\ ahead' = 3  BY <1>6 DEF Begin, machine
  <2> QED  BY <2>1, <1>2
<1>7. CASE NextFrame
  <2>1. word'.heard = "due"  BY <1>7 DEF NextFrame, Awaited, TypeOK
  <2> QED  BY <2>1, <1>3
<1>8. CASE NextWord
  <2>1. ahead = 5 /\ (ahead' = ahead \/ \E drift \in Drifts : ahead' = ahead + drift)
    BY <1>8 DEF NextWord, WordDue
  <2>2. ahead' \in 4 .. 6  BY <2>1, FrameAssumption
  <2> QED  BY <2>2, <1>1, <1>2
<1>9. CASE Count
  <2>1. UNCHANGED <<demodState, word, lsfSync, packetSync>>  BY <1>9 DEF Count, Pass, machine, syncs
  <2>2. ASSUME NEW kind, Sounds(word, {kind}), NEW s, Past(s, index, ahead)
        PROVE  Past(s, index', ahead')
    <3>1. word.heard # "due"  BY <2>2 DEF Sounds
    <3> QED  BY <3>1, <2>2, <1>9, PastCount
  <2> QED  BY <2>1, <2>2 DEF ArmedInv
<1>10. CASE Search  BY <1>1, <1>10, SearchArmed
<1>11. CASE Initialise \/ Confirm \/ Follow \/ FindEot \/ Await \/ LoseLock
            \/ \E w \in SyncWords : FindSync(w) \/ GuessSync(w)
  <2>1. CASE Initialise  BY <2>1, <1>1 DEF Initialise
  <2>2. CASE Confirm  BY <2>2, <1>1 DEF Confirm
  <2>3. CASE Follow  BY <2>3, <1>1 DEF Follow
  <2>4. CASE FindEot \/ LoseLock  BY <2>4, <1>1 DEF FindEot, LoseLock
  <2>5. CASE Await
    <3>1. demodState' = "SYNC_UPDATE"  BY <2>5 DEF Await, NotFound, Seek, machine
    <3> QED  BY <3>1, <1>1
  <2>6. CASE \E w \in SyncWords : FindSync(w) \/ GuessSync(w)  BY <2>6, <1>1 DEF FindSync, GuessSync
  <2> QED  BY <1>11, <2>1, <2>2, <2>3, <2>4, <2>5, <2>6
<1> QED  BY <1>4, <1>5, <1>6, <1>7, <1>8, <1>9, <1>10, <1>11 DEF Next

\* A sample of SYNC_UPDATE after which the sync word is still awaited.
LEMMA AwaitRead ==
    ASSUME FoundInv, Await
    PROVE  ReadInv'
<1> USE DEF FoundInv, PlaceInv, ClockOK, ClockInv
<1> SUFFICES ASSUME nearest' \in {"PACKET", "BERT"}
             PROVE  /\ demodState' = "SYNC_UPDATE" /\ late' = lateness'
                    /\ \/ /\ word'.heard = "well" /\ word'.kind = nearest'
                          /\ Elapsed' < S /\ ahead' <= S
                          /\ late' > 1 \/ Past(packetSync', index', ahead')
                       \/ /\ word'.heard = "due" /\ ahead' > Window
                          /\ late' > 1 \/ RingEnd(index', ahead' - FrameLength)
  BY DEF ReadInv, S, Past, RingEnd, Window, FrameLength, BufferSize, HistorySize
<1>1. PICK u \in Results : Seek(u) /\ \A w \in {"PACKET", "BERT"} : ~Found(u, w)
  BY DEF Await, NotFound
<1>2. /\ Tick /\ demodState = "SYNC_UPDATE" /\ InFrame /\ Pass(1) /\ TakeSymbol
      /\ demodState' = demodState /\ word' = word /\ nearest' = Begins
      /\ index' = NextIndex(index, 1) /\ packetSync' = u.sync
  BY <1>1 DEF Await, NotFound, machine, Seek, InFrame, Pass
<1>3. /\ lateness' = lateness /\ ahead' = ahead - 1 /\ ahead - 1 >= -(S \div 2)
      /\ symbols' # N => late' = IF AtSymbol THEN lateness' ELSE late
  BY <1>2, SampleLate
<1>4. PICK corr \in PacketCorr : u \in Update(packetSync, NextIndex(index, 1), corr)
  BY DEF Results
<1>5. /\ IsSync(packetSync) /\ index \in 0 .. BufferSize - 1 /\ ahead \in Int
      /\ Watch(packetSync, {"PACKET", "BERT"}, word, index, ahead)
      /\ corr \in -3 .. 3 /\ Correlation(word, {"PACKET", "BERT"}, ahead - 1, corr)
  BY <1>2, Correlations DEF SyncsOK, TypeOK, WatchInv
<1>6. /\ lateness \in -6 .. 6
      /\ S \in Nat /\ S >= 15 /\ S \div 2 \in Nat /\ S \div 2 <= S - 8
      /\ FrameLength \in Nat /\ FrameLength >= 6 * S
  BY <1>2, LatenessBound, Lengths
<1>7. ASSUME InPlace, word.heard = "well", word.kind = nearest', Past(packetSync, index, ahead)
      PROVE  Past(packetSync', index', ahead')
  <2>1. u.status # SignOf(word)
    <3>1. ~Found(u, nearest')  BY <1>1
    <3> QED  BY <3>1, <1>2, <1>7 DEF Found, SignOf
  <2>2. Sounds(word, {"PACKET", "BERT"})  BY <1>7 DEF Sounds
  <2>3. Past(u.sync, NextIndex(index, 1), ahead - 1)
    BY <2>1, <2>2, <1>4, <1>5, <1>7, PastLater
  <2> QED  BY <2>3, <1>2, <1>3
<1>8. /\ Elapsed \in Nat /\ Elapsed < FrameLength /\ (Elapsed < S <=> symbols = N)
      /\ Elapsed' = IF Elapsed = FrameLength - 1 THEN 0 ELSE Elapsed + 1
      /\ AtSymbol => (Elapsed' < S <=> symbols' = N)
      /\ ~AtSymbol => symbols' = symbols /\ late' = late
      /\ AtSymbol => /\ phase' = 0 /\ late' = Due(symbols) - ahead'
                     /\ symbols' = IF symbols = F - 1 THEN 0 ELSE symbols + 1
  BY <1>2, ElapsedRange, ElapsedLater, SampleTaken
<1>9. InPlace <=> symbols' = N  BY DEF InPlace, N
<1>10. lateness' = (IF Elapsed' < S /\ ahead' <= S THEN 0 ELSE FrameLength) - Elapsed' - ahead'
  BY DEF lateness, S, FrameLength
\* The last symbol of the sync word is taken.
<1>11. CASE AtSymbol /\ InPlace
  <2>1. nearest' = SyncRead  BY <1>2, <1>11 DEF Begins
  <2>2. word.heard = "well" /\ word.kind = nearest'  BY <2>1 DEF SyncRead
  <2>3. symbols = N - 1
    <3>1. N \in Nat \ {0} /\ F \in Nat /\ symbols \in 0 .. F - 1  BY Numbers DEF TypeOK
    <3> QED  BY <3>1, <1>8, <1>9, <1>11
  <2>4. late' = 0 - ahead'
    <3>1. Due(symbols) = S * (N - 1 - symbols + IF symbols < N THEN 0 ELSE F)  BY DEF Due, S, N, F
    <3>2. Due(symbols) = S * 0  BY <3>1, <2>3, Numbers
    <3>3. Due(symbols) = 0  BY <3>2, <1>6
    <3> QED  BY <3>3, <1>8, <1>11
  <2>5. Elapsed' = 0
    <3>1. Elapsed' = S * (IF symbols' >= N THEN symbols' - N ELSE symbols' - N + F) + phase'
      BY DEF Elapsed, S, N, F
    <3>2. Elapsed' = S * 0 + 0  BY <3>1, <1>8, <1>9, <1>11, Numbers
    <3> QED  BY <3>2, <1>6
  <2>6. ahead <= 6  BY <2>2 DEF HeardInv
  <2>7. ahead' <= S /\ late' = lateness' /\ Elapsed' < S
    BY <2>4, <2>5, <2>6, <1>3, <1>5, <1>6, <1>10
  <2>8. late' > 1 \/ Past(packetSync', index', ahead')
    <3> SUFFICES ASSUME ~(late' > 1) PROVE Past(packetSync', index', ahead')  OBVIOUS
    <3>1. ahead >= 0  BY <2>4, <1>3, <1>5
    <3>2. Past(packetSync, index, ahead)  BY <3>1, <1>5 DEF Past
    <3> QED  BY <3>2, <2>2, <1>7, <1>11
  <2> QED  BY <2>2, <2>7, <2>8, <1>2
<1>12. CASE ~(AtSymbol /\ InPlace)
  <2>1. nearest' = nearest  BY <1>2, <1>12 DEF Begins
  <2>2. late = lateness /\ late' = late /\ late' = lateness'
    <3>1. late = lateness  BY <2>1 DEF ReadInv
    <3>2. late' = lateness'  BY <3>1, <1>3, <1>8, <1>9, <1>12
    <3> QED  BY <3>1, <3>2, <1>3
  <2>3. CASE /\ word.heard = "well" /\ word.kind = nearest
             /\ Elapsed < S /\ ahead <= S
             /\ late > 1 \/ Past(packetSync, index, ahead)
    <3>1. Elapsed' < S /\ ahead' <= S
      <4>1. lateness = 0 - Elapsed - ahead  BY <2>3 DEF lateness
      <4> DEFINE H == S \div 2
      <4>2. H \in Nat /\ H <= S - 8 /\ ahead - 1 >= -H  BY <1>3, <1>6
      <4> HIDE DEF H
      <4> QED  BY <4>1, <4>2, <2>3, <1>3, <1>5, <1>6, <1>8
    <3>2. InPlace  BY <3>1, <2>3, <1>8, <1>9
    <3>3. late' > 1 \/ Past(packetSync', index', ahead')  BY <3>2, <2>1, <2>2, <2>3, <1>7
    <3> QED  BY <3>1, <3>3, <2>1, <2>2, <2>3, <1>2
  <2>4. CASE /\ word.heard = "due" /\ ahead > Window
             /\ late > 1 \/ RingEnd(index, ahead - FrameLength)
    <3>1. ahead' > Window
      <4>1. ahead - S > Window /\ Window \in Int  BY <2>4, <1>2, FarAhead, Lengths
      <4> QED  BY <4>1, <1>3, <1>5, <1>6
    <3>2. ASSUME RingEnd(index, ahead - FrameLength)
          PROVE  RingEnd(index', ahead' - FrameLength)
      <4>1. ahead - FrameLength \in Int /\ (ahead - FrameLength) - 1 = ahead' - FrameLength
        BY <1>3, <1>5, <1>6
      <4>2. RingEnd(NextIndex(index, 1), (ahead - FrameLength) - 1)  BY <3>2, <4>1, <1>5, RingLater
      <4> QED  BY <4>1, <4>2, <1>2
    <3> QED  BY <3>1, <3>2, <2>2, <2>4, <1>2
  <2> QED  BY <2>1, <2>3, <2>4 DEF ReadInv
<1> QED  BY <1>11, <1>12

\* The sync word has passed, and the next one is a frame ahead.
LEMMA FrameEndRead ==
    ASSUME FoundInv, NextFrame
    PROVE  ReadInv'
<1> USE DEF FoundInv, PlaceInv, ClockOK, ClockInv
<1> DEFINE H == S \div 2
<1>1. /\ H \in Nat /\ H >= 7 /\ FrameLength \in Nat /\ Window \in Nat /\ FrameLength - H > Window
  <2> DEFINE sn == S * N
  <2>1. /\ H \in Nat /\ H >= 7 /\ H <= S - 8 /\ S \in Nat /\ Window = 2 * sn /\ FrameLength \in Nat
        /\ FrameLength >= 3 * sn + 3 * S /\ sn \in Nat /\ sn >= S
    BY Lengths
  <2> HIDE DEF sn, H
  <2> QED  BY <2>1
<1>2. /\ ahead = -H /\ ahead' = ahead + FrameLength /\ word' = Awaited(word)
      /\ UNCHANGED <<demodState, nearest, late, index>>
  BY DEF NextFrame, FrameEnd, S, machine, frame
<1>3. SUFFICES ASSUME nearest \in {"PACKET", "BERT"} PROVE ReadInv'
  BY <1>2 DEF ReadInv
<1>4. demodState = "SYNC_UPDATE" /\ late' = lateness' /\ demodState' = "SYNC_UPDATE"
  <2>1. demodState = "SYNC_UPDATE" /\ late = lateness  BY <1>3 DEF ReadInv
  <2>2. lateness' = lateness  BY <2>1, FrameEndPlace DEF InFrame
  <2> QED  BY <2>1, <2>2, <1>2
<1> HIDE DEF H
<1>5. ahead' > Window /\ word'.heard = "due"
  <2>1. word'.heard = "due"  BY <1>2 DEF Awaited, TypeOK
  <2> QED  BY <2>1, <1>1, <1>2
<1>6. ~(ahead > Window) /\ ~(ahead >= -1) /\ ahead' - FrameLength = ahead
  BY <1>1, <1>2
<1>7. late > 1 \/ RingEnd(index, ahead)
  BY <1>3, <1>6 DEF ReadInv, Past
<1>8. late' > 1 \/ RingEnd(index', ahead' - FrameLength)
  BY <1>2, <1>6, <1>7
<1> QED
  BY <1>4, <1>5, <1>8 DEF ReadInv, RingEnd, Window, FrameLength, BufferSize, HistorySize

LEMMA CountRead ==
    ASSUME FoundInv, Count
    PROVE  ReadInv'
<1> USE DEF FoundInv, PlaceInv, ClockOK, ClockInv
<1>1. /\ UNCHANGED <<demodState, nearest, late, word, packetSync>> /\ Pass(Quiet)
      /\ index' = NextIndex(index, Quiet) /\ ahead' = ahead - Quiet
  BY DEF Count, Pass, machine, frame, syncs
<1>2. SUFFICES ASSUME nearest \in {"PACKET", "BERT"} PROVE ReadInv'
  BY <1>1 DEF ReadInv
<1>3. demodState = "SYNC_UPDATE" /\ late = lateness /\ InFrame  BY <1>2 DEF ReadInv, InFrame
<1>4. lateness' = lateness /\ Quiet <= S /\ (Elapsed < S => Elapsed' < S)
  BY <1>3, CountLate
<1>5. /\ Quiet \in Nat /\ ahead \in Int /\ index \in 0 .. BufferSize - 1
      /\ S \in Nat /\ Window \in Nat /\ FrameLength \in Nat
  BY QuietSignal, Lengths DEF TypeOK
<1>6. CASE /\ word.heard = "well" /\ word.kind = nearest
           /\ Elapsed < S /\ ahead <= S
           /\ late > 1 \/ Past(packetSync, index, ahead)
  <2>1. Past(packetSync, index, ahead) => Past(packetSync, index', ahead')  BY <1>6, PastCount
  <2>2. ahead' <= S  BY <1>1, <1>5, <1>6
  <2> QED
    BY <2>1, <2>2, <1>1, <1>3, <1>4, <1>6
    DEF ReadInv, S, Past, RingEnd, Window, FrameLength, BufferSize, HistorySize
<1>7. CASE /\ word.heard = "due" /\ ahead > Window
           /\ late > 1 \/ RingEnd(index, ahead - FrameLength)
  <2>1. ahead' > Window
    <3>1. ahead - S > Window  BY <1>3, <1>7, FarAhead
    <3> QED  BY <3>1, <1>1, <1>4, <1>5
  <2>2. ASSUME RingEnd(index, ahead - FrameLength)
        PROVE  RingEnd(index', ahead' - FrameLength)
    <3>1. ahead - FrameLength \in Int /\ (ahead - FrameLength) - Quiet = ahead' - FrameLength
      BY <1>1, <1>5
    <3>2. RingEnd(NextIndex(index, Quiet), (ahead - FrameLength) - Quiet)
      BY <2>2, <3>1, <1>5, RingLater
    <3> QED  BY <3>1, <3>2, <1>1
  <2> QED
    BY <2>1, <2>2, <1>1, <1>3, <1>4, <1>7
    DEF ReadInv, RingEnd, Window, FrameLength, BufferSize, HistorySize
<1> QED  BY <1>2, <1>6, <1>7 DEF ReadInv

LEMMA ReadKept ==
    ASSUME FoundInv, [Next]_vars
    PROVE  ReadInv'
<1> USE DEF FoundInv, PlaceInv, ClockOK, ClockInv
<1>1. ASSUME nearest' \notin {"PACKET", "BERT"} PROVE ReadInv'
  BY <1>1 DEF ReadInv
<1>2. ASSUME demodState # "SYNC_UPDATE", nearest' = nearest PROVE ReadInv'
  BY <1>1, <1>2 DEF ReadInv
<1>3. CASE Listen \/ FindEot \/ LoseLock \/ \E w \in SyncWords : FindSync(w) \/ GuessSync(w)
  <2>1. nearest' = "NONE"  BY <1>3 DEF Listen, FindEot, LoseLock, FindSync, GuessSync, Miss
  <2> QED  BY <2>1, <1>1
<1>4. CASE Initialise \/ NoPeak \/ Begin \/ Search \/ Confirm \/ Follow
  <2>1. CASE Initialise  BY <2>1, <1>2 DEF Initialise, frame
  <2>2. CASE NoPeak  BY <2>2, <1>2 DEF NoPeak, vars, frame
  <2>3. CASE Begin  BY <2>3, <1>2 DEF Begin, frame
  <2>4. CASE Search  BY <2>4, <1>2 DEF Search, frame
  <2>5. CASE Confirm  BY <2>5, <1>2 DEF Confirm
  <2>6. CASE Follow  BY <2>6, <1>2 DEF Follow
  <2> QED  BY <1>4, <2>1, <2>2, <2>3, <2>4, <2>5, <2>6
<1>5. CASE ReadFrame \/ UNCHANGED vars
  <2>1. UNCHANGED <<demodState, nearest, late, word, ahead, index, symbols, sampleIndex, packetSync>>
    BY <1>5 DEF ReadFrame, vars, machine, syncs, frame, signal
  <2>2. UNCHANGED <<Elapsed, lateness, S, Window, FrameLength>>
    BY <2>1 DEF lateness, Elapsed, phase, S, N, F, Window, FrameLength
  <2> QED  BY <2>1, <2>2 DEF ReadInv, Past, RingEnd, BufferSize, HistorySize
<1>6. CASE NextFrame  BY <1>6, FrameEndRead
<1>7. CASE NextWord
  <2>1. nearest \notin {"PACKET", "BERT"}
    <3>1. ahead = 5 /\ word.heard = "due" /\ Window \in Nat /\ Window >= 15
      <4>1. S * N \in Nat /\ S * N >= S /\ S >= 15 /\ S \in Nat /\ Window = 2 * (S * N)  BY Lengths
      <4> QED  BY <4>1, <1>7 DEF NextWord, WordDue
    <3> QED  BY <3>1 DEF ReadInv
  <2> QED  BY <2>1, <1>1, <1>7 DEF NextWord, frame
<1>8. CASE Count  BY <1>8, CountRead
<1>9. CASE Await  BY <1>9, AwaitRead
<1> QED  BY <1>3, <1>4, <1>5, <1>6, <1>7, <1>8, <1>9 DEF Next

LEMMA NextFound ==
    ASSUME FoundInv, [Next]_vars
    PROVE  FoundInv'
<1>1. PlaceInv'  BY NextPlace DEF FoundInv
<1> QED  BY <1>1, HeardKept, ArmedKept, ReadKept DEF FoundInv

\* Half a symbol after the first sync word.
LEMMA FirstFound == FoundInv /\ FirstNotFound => AtRingEnd(-ahead)
<1> SUFFICES ASSUME FoundInv, FirstNotFound PROVE AtRingEnd(-ahead)  OBVIOUS
<1>1. ahead = -(S \div 2) /\ S \div 2 \in Nat /\ S \div 2 >= 7
  BY Lengths DEF FirstNotFound, FrameEnd, S
<1>2. ~(ahead >= -1) /\ ahead \in Int  BY <1>1
<1>3. Past(lsfSync, index, ahead) \/ Past(packetSync, index, ahead)
  BY DEF FoundInv, ArmedInv, FirstNotFound, Heard, Sounds
<1>4. RingEnd(index, ahead)  BY <1>2, <1>3 DEF Past
<1>5. PICK e \in -2 .. 1 : (index + ahead + e) % BufferSize = HistorySize  BY <1>4 DEF RingEnd
<1>6. index \in Int  BY Ring DEF FoundInv, PlaceInv, ClockOK, ClockInv, TypeOK
<1>7. index - (-ahead) + e = index + ahead + e  BY <1>2, <1>6
<1> QED  BY <1>5, <1>7 DEF AtRingEnd

\* The end of the window.
LEMMA LaterFound ==
    ASSUME FoundInv, [Next]_vars, NextNotFound
    PROVE  late > 1 \/ AtRingEnd(FrameLength - ahead)
<1> USE DEF FoundInv, PlaceInv, ClockOK, ClockInv
<1>1. missesInARow \in Nat /\ missesInARow' > missesInARow  BY DEF TypeOK, NextNotFound
<1>2. missesInARow' # missesInARow /\ missesInARow' # 0  BY <1>1
<1>3. LoseLock \/ \E w \in SyncWords : GuessSync(w)
  <2>1. ~(UNCHANGED vars)  BY <1>2 DEF vars, machine
  <2>2. ~Initialise /\ ~Listen /\ ~NoPeak /\ ~Begin
    BY <1>2 DEF Initialise, Listen, NoPeak, Begin, vars, machine
  <2>3. ~NextFrame /\ ~NextWord /\ ~Count /\ ~ReadFrame
    BY <1>2 DEF NextFrame, NextWord, Count, ReadFrame, machine
  <2>4. ~Search /\ ~Confirm /\ ~Follow
    BY <1>2 DEF Search, Confirm, Follow
  <2>5. ~FindEot /\ ~Await /\ \A w \in SyncWords : ~FindSync(w)
    BY <1>2 DEF FindEot, Await, FindSync, machine
  <2> QED  BY <2>1, <2>2, <2>3, <2>4, <2>5 DEF Next
<1>4. symbols # N
  <2> DEFINE h == N \div 2
  <2>1. N \in Nat /\ N > 1 /\ h \in Nat /\ 2 * h <= N  BY Numbers, FrameAssumption DEF N
  <2>2. symbols = 2 * N - h  BY <1>3, MissClock
  <2> HIDE DEF h
  <2> QED  BY <2>1, <2>2
<1>5. ~(Elapsed < S)  BY <1>4, ElapsedRange
<1>6. late > 1 \/ RingEnd(index, ahead - FrameLength)
  BY <1>5 DEF NextNotFound, ReadInv
<1>7. ASSUME RingEnd(index, ahead - FrameLength) PROVE AtRingEnd(FrameLength - ahead)
  <2>1. PICK e \in -2 .. 1 : (index + (ahead - FrameLength) + e) % BufferSize = HistorySize
    BY <1>7 DEF RingEnd
  <2>2. index \in Int /\ ahead \in Int /\ FrameLength \in Int  BY Ring, Lengths DEF TypeOK
  <2>3. index - (FrameLength - ahead) + e = index + (ahead - FrameLength) + e  BY <2>2
  <2> QED  BY <2>1, <2>3 DEF AtRingEnd
<1> QED  BY <1>6, <1>7

\* A sync word that is heard is found: the first one of a transmission unless its
\* correlation comes to lie on the last place of the ring, which the history of
\* correlations does not have, and the later ones but for that and for a clock
\* more than a sample late.  There is no third way for the search to miss one.
THEOREM SyncFoundHolds == Spec => SyncFound
<1>1. FoundInv /\ [Next]_vars =>
        [/\ FirstNotFound => AtRingEnd(-ahead)
         /\ NextNotFound  => late > 1 \/ AtRingEnd(FrameLength - ahead)]_vars
  BY FirstFound, LaterFound
<1> QED  BY <1>1, InitFound, NextFound, PTL DEF Spec, SyncFound
===============================================================================
