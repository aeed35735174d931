------------------------------- MODULE BertRx -------------------------------
(***************************************************************************)
(* src/m17rx.cpp, the bit error rate test of an m17rx: add_frame takes the *)
(* bits of a BERT frame with a shift register that either follows them     *)
(* (bert_synccnt # 0) or, once bert_lockcnt bits in a row were right, runs *)
(* freely and tells which are wrong.  The transmitter's generator          *)
(* (src/m17tx.cpp) is the same register.                                   *)
(***************************************************************************)
EXTENDS Integers, FiniteSets

bert_lockcnt == 18
HistoryLen   == 128     \* bits of an unsigned __int128

\* The next bit of a register, and a register with a bit shifted in (16 bits).
Feedback(lfsr)  == ((lfsr \div 256) + (lfsr \div 16)) % 2
Shift(lfsr, bit) == (2 * lfsr + bit) % 65536

\* Bits 0 .. 8 are all that is ever read of a register.
Same(a, b) == a % 512 = b % 512

\* bert_hist is the set of the places of its ones.
BertState(lfsr, errcnt, totcnt, synccnt, hist) ==
    [bert_lfsr |-> lfsr, bert_errcnt |-> errcnt, bert_totcnt |-> totcnt,
     bert_synccnt |-> synccnt, bert_hist |-> hist]

NewBertState == BertState(1, 0, 0, bert_lockcnt, {})

IsBertSynced(r) == r.bert_synccnt = 0

HistoryWith(hist, err) ==
    {a + 1 : a \in hist \ {HistoryLen - 1}} \cup (IF err THEN {0} ELSE {})

\* A variant that shifts the received bit in, as while synchronising.
CountBit_Follows(r, bit) ==
    LET err  == bit # Feedback(r.bert_lfsr)
        hist == HistoryWith(r.bert_hist, err)
        lost == Cardinality(hist) > bert_lockcnt
    IN  BertState(Shift(r.bert_lfsr, bit),
                  r.bert_errcnt + (IF err THEN 1 ELSE 0), r.bert_totcnt + 1,
                  IF lost THEN bert_lockcnt ELSE 0, IF lost THEN {} ELSE hist)

\* A variant that never lets go.
CountBit_Keeps(r, bit) ==
    LET err  == bit # Feedback(r.bert_lfsr)
        hist == HistoryWith(r.bert_hist, err)
    IN  BertState(Shift(r.bert_lfsr, Feedback(r.bert_lfsr)),
                  r.bert_errcnt + (IF err THEN 1 ELSE 0), r.bert_totcnt + 1, 0, hist)

\* A bit in lock; more than bert_lockcnt errors among the last HistoryLen
\* bits end it.
CountBit(r, bit) ==
    LET err  == bit # Feedback(r.bert_lfsr)
        hist == HistoryWith(r.bert_hist, err)
        lost == Cardinality(hist) > bert_lockcnt
    IN  BertState(Shift(r.bert_lfsr, Feedback(r.bert_lfsr)),
                  r.bert_errcnt + (IF err THEN 1 ELSE 0), r.bert_totcnt + 1,
                  IF lost THEN bert_lockcnt ELSE 0, IF lost THEN {} ELSE hist)

\* A bit out of lock: the register takes it, right or wrong.
FollowBit(r, bit) ==
    [r EXCEPT !.bert_lfsr    = Shift(r.bert_lfsr, bit),
              !.bert_synccnt = IF bit = Feedback(r.bert_lfsr) THEN @ - 1 ELSE bert_lockcnt]

AddBit(r, bit) == IF IsBertSynced(r) THEN CountBit(r, bit) ELSE FollowBit(r, bit)
=============================================================================
