------------------------- MODULE RadioThread_proofs -------------------------
(***************************************************************************)
(* Theorems about RadioThread, for any number of packets, blocks and       *)
(* failures: the transmitter never goes on over a channel last measured    *)
(* busy; without failures the parts of the radio agree and packets are     *)
(* sent whole; one failure does not end the process; the thread is to the  *)
(* others what RadioSide says; and its types are right.                    *)
(***************************************************************************)
EXTENDS RadioThread, SequenceTheorems, TLAPS

(***************************************************************************)
(* Listen before talk.  channel_bsy holds the last measurement, and the    *)
(* receive loop is left with it cleared or for a signal, which lets the    *)
(* thread pass through "tx" but no further.                                *)
(***************************************************************************)
MeasuredBusy == measured = "busy" => channel_bsy

LeftFree == /\ pc \in {"leave_rx", "tx"} /\ running => ~channel_bsy
            /\ pc \in {"switch_tx", "consume", "sending"} => ~channel_bsy

ListenInv == MeasuredBusy /\ LeftFree

LEMMA ListenInit == Init => ListenInv
BY DEF Init, ListenInv, MeasuredBusy, LeftFree

LEMMA ListenStep == ListenInv /\ [Next]_vars => ListenInv'
<1> SUFFICES ASSUME ListenInv, [Next]_vars PROVE ListenInv'
  OBVIOUS
<1> USE DEF ListenInv, MeasuredBusy, LeftFree, Goes
<1>1. CASE OuterTest
  BY <1>1 DEF OuterTest
<1>2. CASE ToRx
  BY <1>2 DEF ToRx
<1>3. CASE RxTest
  BY <1>3 DEF RxTest
<1>4. CASE ReceiveSome
  <2>1. PICK lock \in BOOLEAN, energy \in {"busy", "free"} : Receive(lock, energy)
    BY <1>4 DEF ReceiveSome
  <2>2. pc' = "rx"
    BY <2>1 DEF Receive
  <2>3. MeasuredBusy'
    BY <2>1 DEF Receive, Measure
  <2> QED
    BY <2>2, <2>3
<1>5. CASE LeaveRx
  BY <1>5 DEF LeaveRx
<1>6. CASE ToTx
  BY <1>6 DEF ToTx
<1>7. CASE TxTest
  BY <1>7 DEF TxTest
<1>8. CASE Consume
  BY <1>8 DEF Consume
<1>9. CASE SendBlock
  BY <1>9 DEF SendBlock
<1>10. CASE Crash
  BY <1>10 DEF Crash
<1>11. CASE Sigint
  BY <1>11 DEF Sigint
<1>12. CASE Add
  BY <1>12 DEF Add
<1>13. CASE UNCHANGED vars
  BY <1>13 DEF vars
<1>14. CASE Construct
  BY <1>14 DEF Construct
<1>15. CASE FirstReception
  BY <1>15 DEF FirstReception
<1> QED
  BY <1>1, <1>2, <1>3, <1>4, <1>5, <1>6, <1>7, <1>8, <1>9, <1>10, <1>11,
     <1>12, <1>13, <1>14, <1>15 DEF Next, ThreadStep

\* radio_thread leaves reception only for a channel that was last measured
\* free: the transmitter never goes on over one last measured busy, whatever
\* the demodulator, the queue, the signal and the hardware do.
THEOREM ListenTheorem == Spec => []NeverOverBusy
<1>1. ListenInv => NeverOverBusy
  BY DEF ListenInv, MeasuredBusy, LeftFree, NeverOverBusy
<1> QED
  BY <1>1, ListenInit, ListenStep, PTL DEF Spec

(***************************************************************************)
(* The parts of the radio.  Without failures every switch succeeds, and    *)
(* the thread moves between the two modes only through a switch; a signal  *)
(* may lead it to "tx" in reception, but then it returns at once.  The     *)
(* settings are made step by step before the loop and stay.                *)
(***************************************************************************)
RxParts == pcm = "capture" /\ ~tx_nRx /\ chip = "rx" /\ ~pa
TxParts == pcm = "playback" /\ tx_nRx /\ chip = "tx" /\ pa

InMode == /\ pc \in {"rx", "receive", "leave_rx", "switch_tx"} => RxParts
          /\ pc = "tx" /\ running => TxParts
          /\ pc \in {"consume", "sending"} => TxParts

\* Whatever the configuration file has, the gains fit their fields.
LEMMA GainsFit == LnaGain \in 1 .. 6 /\ MixGain \in 0 .. 15
<1>1. LnaGain \in 1 .. 6
  BY DEF LnaGain
<1>2. MixGain \in 0 .. 15
  BY GainAssumption DEF MixGain
<1> QED
  BY <1>1, <1>2

\* What the registers hold at each step of the construction.
BeforeLna == {"set_rx_freq", "set_tx_freq", "set_lna"}
BeforeMix == BeforeLna \cup {"set_mix"}
OwnGains  == {"open", "first_switch", "set_rx_gain"}
Loop      == {"outer", "switch_rx", "rx", "receive", "leave_rx", "switch_tx",
              "tx", "consume", "sending", "end", "crashed"}

SetUp ==
    /\ pc \in {"init"} \cup BeforeMix \cup OwnGains \cup {"set_tx_gain"} \cup Loop
    /\ pc # "init" => bridge
    /\ pc \in BeforeLna => RXFE1 = 63
    /\ pc \in OwnGains \cup {"set_mix"} => RXFE1 = 191
    /\ pc \in BeforeMix => TXFE1 = 46
    /\ pc \in OwnGains \cup {"set_tx_gain"} => TXFE1 = 44
    /\ pc = "set_tx_gain" => RXFE1 = 32 * LnaGain + 31
    /\ pc \notin {"init", "set_rx_freq"} => FRF_RX = CalcFreq(RxFrequency)
    /\ pc \notin {"init", "set_rx_freq", "set_tx_freq"} => FRF_TX = CalcFreq(TxFrequency)
    /\ pc \in Loop => RXFE1 = 32 * LnaGain + 31 /\ TXFE1 = 32 + MixGain

PartsInv == /\ failures \in Nat
            /\ failures = 0 => ~leaked /\ InMode /\ SetUp

\* A switch that does not raise the number of failures succeeds, and none
\* touches the settings.
LEMMA SwitchRxLemma ==
    PartsInv /\ SwitchRx =>
        /\ failures' \in Nat /\ UNCHANGED settings
        /\ failures' = 0 => failures = 0 /\ RxParts' /\ ~leaked'
<1> SUFFICES ASSUME PartsInv, SwitchRx
             PROVE  /\ failures' \in Nat /\ UNCHANGED settings
                    /\ failures' = 0 => failures = 0 /\ RxParts' /\ ~leaked'
  OBVIOUS
<1>1. failures \in Nat /\ (failures = 0 => ~leaked)
  BY DEF PartsInv
<1>2. UNCHANGED settings
  BY DEF SwitchRx, RxOpenFails, RxChipFails, RxSucceeds, SwitchChipFails,
         SwitchChip, KeepsReceiving
<1>3. CASE Fails
  BY <1>1, <1>2, <1>3 DEF Fails
<1>4. CASE RxSucceeds /\ SwitchChip("rx")
  <2>1. failures' = failures
    BY <1>4 DEF SwitchChip
  <2>2. RxParts' /\ leaked' = leaked
    BY <1>4 DEF RxSucceeds, SwitchChip, RxParts
  <2> QED
    BY <1>1, <1>2, <2>1, <2>2
<1>5. CASE leaked /\ UNCHANGED <<leaked, failures>>
  BY <1>1, <1>2, <1>5
<1> QED
  BY <1>3, <1>4, <1>5 DEF SwitchRx, RxOpenFails, RxChipFails, RxSucceeds, OpenFails,
                          SwitchChipFails, KeepsReceiving

LEMMA SwitchTxLemma ==
    PartsInv /\ SwitchTx =>
        /\ failures' \in Nat /\ UNCHANGED settings
        /\ failures' = 0 => failures = 0 /\ TxParts' /\ ~leaked'
<1> SUFFICES ASSUME PartsInv, SwitchTx
             PROVE  /\ failures' \in Nat /\ UNCHANGED settings
                    /\ failures' = 0 => failures = 0 /\ TxParts' /\ ~leaked'
  OBVIOUS
<1>1. failures \in Nat /\ (failures = 0 => ~leaked)
  BY DEF PartsInv
<1>2. UNCHANGED settings
  BY DEF SwitchTx, TxOpenFails, TxChipFails, TxSucceeds, SwitchChipFails, SwitchChip
<1>3. CASE Fails
  BY <1>1, <1>2, <1>3 DEF Fails
<1>4. CASE TxSucceeds
  <2>1. failures' = failures
    BY <1>4 DEF TxSucceeds, SwitchChip
  <2>2. TxParts' /\ leaked' = leaked
    BY <1>4 DEF TxSucceeds, SwitchChip, TxParts
  <2> QED
    BY <1>1, <1>2, <2>1, <2>2
<1>5. CASE leaked /\ UNCHANGED <<leaked, failures>>
  BY <1>1, <1>2, <1>5
<1> QED
  BY <1>3, <1>4, <1>5 DEF SwitchTx, TxOpenFails, TxChipFails, OpenFails, SwitchChipFails

LEMMA PartsInit == Init => PartsInv
<1> SUFFICES ASSUME Init PROVE PartsInv
  OBVIOUS
<1>1. failures \in Nat /\ pc = "init" /\ ~leaked
  BY DEF Init, SdrInit, ChipReset
<1> QED
  BY <1>1 DEF PartsInv, InMode, SetUp, BeforeLna, BeforeMix, OwnGains, Loop

\* Outside the construction and the switches nothing of the radio changes.
LEMMA SetUpStays ==
    ASSUME SetUp, UNCHANGED settings,
           pc' = pc \/ (pc \in Loop /\ pc' \in Loop)
    PROVE  SetUp'
BY DEF SetUp, settings, BeforeLna, BeforeMix, OwnGains, Loop

\* Each step of the construction gives its registers their value.
LEMMA ConstructLemma ==
    ASSUME SetUp, Construct, UNCHANGED failures, failures \in Nat
    PROVE  SetUp'
<1>1. LnaGain \in 1 .. 6 /\ MixGain \in 0 .. 15
  BY GainsFit
<1>2. ~Fails
  BY DEF Fails
<1> USE DEF SetUp, BeforeLna, BeforeMix, OwnGains, Loop, Goes
<1>3. CASE Goes("init", "set_rx_freq") /\ InitChip
  BY <1>2, <1>3 DEF InitChip, DefaultFrontEnds, LnaField, PgaField, DacField,
                    MaxLna, MaxPga, rx_zin, Dac, Mix
<1>4. CASE Goes("set_rx_freq", "set_tx_freq") /\ SetRxFreq(RxFrequency)
  BY <1>2, <1>4 DEF SetRxFreq
<1>5. CASE Goes("set_tx_freq", "set_lna") /\ SetTxFreq(TxFrequency)
  BY <1>2, <1>5 DEF SetTxFreq
<1>6. CASE Goes("set_lna", "set_mix") /\ SetLnaGain(5)
  BY <1>2, <1>6 DEF SetLnaGain, LnaField
<1>7. CASE Goes("set_mix", "open") /\ SetTxMixGain(12)
  BY <1>2, <1>7 DEF SetTxMixGain
<1>8. CASE Goes("set_rx_gain", "set_tx_gain") /\ SetLnaGain(LnaGain)
  BY <1>1, <1>2, <1>8 DEF SetLnaGain, LnaField
<1>9. CASE Goes("set_tx_gain", "outer") /\ SetTxMixGain(MixGain)
  BY <1>1, <1>2, <1>9 DEF SetTxMixGain
<1> QED
  BY <1>3, <1>4, <1>5, <1>6, <1>7, <1>8, <1>9 DEF Construct

LEMMA PartsStep == PartsInv /\ [Next]_vars => PartsInv'
<1> SUFFICES ASSUME PartsInv, [Next]_vars PROVE PartsInv'
  OBVIOUS
<1> USE DEF PartsInv, InMode, RxParts, TxParts, Goes, sdrVars
<1>1. CASE OuterTest
  BY <1>1, SetUpStays DEF OuterTest, Loop
<1>2. CASE ToRx
  <2>1. /\ failures' \in Nat /\ UNCHANGED settings
        /\ failures' = 0 => failures = 0 /\ RxParts' /\ ~leaked'
    BY <1>2, SwitchRxLemma DEF ToRx
  <2>2. pc = "switch_rx" /\ pc' = "rx"
    BY <1>2 DEF ToRx
  <2>3. failures' = 0 => SetUp'
    BY <2>1, <2>2, SetUpStays DEF Loop
  <2> QED
    BY <2>1, <2>2, <2>3
<1>3. CASE RxTest
  BY <1>3, SetUpStays DEF RxTest, Loop
<1>4. CASE ReceiveSome
  BY <1>4, SetUpStays DEF ReceiveSome, Receive, Loop
<1>5. CASE LeaveRx
  BY <1>5, SetUpStays DEF LeaveRx, Loop
<1>6. CASE ToTx
  <2>1. /\ failures' \in Nat /\ UNCHANGED settings
        /\ failures' = 0 => failures = 0 /\ TxParts' /\ ~leaked'
    BY <1>6, SwitchTxLemma DEF ToTx
  <2>2. pc = "switch_tx" /\ pc' = "tx"
    BY <1>6 DEF ToTx
  <2>3. failures' = 0 => SetUp'
    BY <2>1, <2>2, SetUpStays DEF Loop
  <2> QED
    BY <2>1, <2>2, <2>3
<1>7. CASE TxTest
  BY <1>7, SetUpStays DEF TxTest, Loop
<1>8. CASE Consume
  BY <1>8, SetUpStays DEF Consume, Loop
<1>9. CASE SendBlock
  BY <1>9, SetUpStays DEF SendBlock, Loop
<1>10. CASE Crash
  BY <1>10, SetUpStays DEF Crash, Loop
<1>11. CASE Sigint
  BY <1>11, SetUpStays DEF Sigint
<1>12. CASE Add
  BY <1>12, SetUpStays DEF Add
<1>13. CASE UNCHANGED vars
  BY <1>13, SetUpStays DEF vars
<1>14. CASE Construct
  <2>1. leaked' = leaked /\ pc' \in {"set_rx_freq", "set_tx_freq", "set_lna", "set_mix",
                                    "open", "set_tx_gain", "outer"}
    BY <1>14 DEF Construct
  <2>2. failures' = failures \/ failures' = failures + 1
    BY <1>14 DEF Construct, InitChip, SetRxFreq, SetTxFreq, SetLnaGain, SetTxMixGain, Fails
  <2>3. CASE failures' = failures
    BY <2>1, <2>3, <1>14, ConstructLemma
  <2>4. CASE failures' = failures + 1
    BY <2>4
  <2> QED
    BY <2>2, <2>3, <2>4
<1>15. CASE FirstReception
  <2>1. UNCHANGED settings
    BY <1>15 DEF FirstReception, FirstOpen, FirstSwitch, SwitchChip, SwitchChipFails
  <2>2. \/ pc = "open" /\ pc' = "first_switch"
        \/ pc = "first_switch" /\ pc' = "set_rx_gain"
    BY <1>15 DEF FirstReception
  <2>3. \/ failures' = failures + 1
        \/ failures' = failures /\ leaked' = leaked
    BY <1>15 DEF FirstReception, FirstOpen, FirstSwitch, SwitchChip, SwitchChipFails,
                 OpenFails, Fails
  <2>4. SetUp => SetUp'
    BY <2>1, <2>2 DEF SetUp, settings, BeforeLna, BeforeMix, OwnGains, Loop
  <2> QED
    BY <2>2, <2>3, <2>4
<1> QED
  BY <1>1, <1>2, <1>3, <1>4, <1>5, <1>6, <1>7, <1>8, <1>9, <1>10, <1>11,
     <1>12, <1>13, <1>14, <1>15 DEF Next, ThreadStep

\* Without failures samples are read only from a radio wholly in reception and
\* written only to one wholly in transmission, with the registers as configured.
THEOREM PartsTheorem == Spec => []PartsAgree
<1>1. PartsInv => PartsAgree
  <2> SUFFICES ASSUME PartsInv, failures = 0, pc \in {"rx", "receive", "consume", "sending"}
               PROVE  /\ pc \in {"rx", "receive"} => RxParts /\ Configured
                      /\ pc \in {"consume", "sending"} => TxParts /\ Configured
    BY DEF PartsAgree, RxParts, TxParts
  <2>1. LnaGain \in 1 .. 6 /\ MixGain \in 0 .. 15
    BY GainsFit
  <2>2. Configured
    BY <2>1 DEF PartsInv, SetUp, Loop, Configured, LnaField, PgaField, DacField,
                MaxPga, rx_zin, Dac
  <2> QED
    BY <2>2 DEF PartsInv, InMode
<1> QED
  BY <1>1, PartsInit, PartsStep, PTL DEF Spec

(***************************************************************************)
(* What is sent.  The numbers of the packets sent and of those in the      *)
(* queue are 1, 2, ... added; while nothing failed the transmitter is on   *)
(* (PartsInv), so every round of the loop sends its block.                 *)
(***************************************************************************)
SentRecord == [id : Nat, blocks : Nat]

Numbered == /\ to_radio \in Seq(Nat) /\ sent \in Seq(SentRecord)
            /\ added = Len(sent) + Len(to_radio)
            /\ \A i \in DOMAIN sent : sent[i].id = i
            /\ \A j \in DOMAIN to_radio : to_radio[j] = Len(sent) + j
            /\ pc = "consume" => to_radio # <<>>

BlocksSent == /\ pc = "sending" => sent # <<>> /\ left \in 1 .. Blocks
              /\ running /\ failures = 0 =>
                    \A i \in DOMAIN sent :
                        sent[i].blocks = Blocks - (IF pc = "sending" /\ i = Len(sent)
                                                     THEN left ELSE 0)

SentInv == Numbered /\ BlocksSent

LEMMA AppendFacts ==
    ASSUME NEW S, NEW s \in Seq(S), NEW x \in S
    PROVE  /\ Append(s, x) \in Seq(S) /\ Len(Append(s, x)) = Len(s) + 1
           /\ DOMAIN Append(s, x) = 1 .. (Len(s) + 1)
           /\ Append(s, x)[Len(s) + 1] = x
           /\ \A i \in 1 .. Len(s) : Append(s, x)[i] = s[i]
OBVIOUS

LEMMA TailFacts ==
    ASSUME NEW S, NEW s \in Seq(S), s # <<>>
    PROVE  /\ Tail(s) \in Seq(S) /\ Len(Tail(s)) = Len(s) - 1
           /\ DOMAIN Tail(s) = 1 .. (Len(s) - 1)
           /\ \A i \in 1 .. (Len(s) - 1) : Tail(s)[i] = s[i + 1]
OBVIOUS

LEMMA SentInit == Init => SentInv
BY DEF Init, SentInv, Numbered, BlocksSent

\* The number of failures never falls.
LEMMA FailuresKept ==
    ASSUME PartsInv, Next, failures' = 0
    PROVE  failures = 0
<1>1. failures \in Nat
  BY DEF PartsInv
<1>2. CASE ToRx
  BY <1>2, SwitchRxLemma DEF ToRx
<1>3. CASE ToTx
  BY <1>3, SwitchTxLemma DEF ToTx
<1>4. CASE Construct
  BY <1>1, <1>4 DEF Construct, InitChip, SetRxFreq, SetTxFreq, SetLnaGain, SetTxMixGain, Fails
<1>5. CASE FirstReception
  BY <1>1, <1>5 DEF FirstReception, FirstOpen, FirstSwitch, SwitchChip, SwitchChipFails,
                    OpenFails, Fails
<1>6. CASE OuterTest \/ RxTest \/ ReceiveSome \/ LeaveRx \/ TxTest \/ Consume \/ SendBlock
           \/ Crash \/ Sigint \/ Add
  BY <1>6 DEF OuterTest, RxTest, ReceiveSome, Receive, LeaveRx, TxTest, Consume, SendBlock,
              Crash, Sigint, Add, sdrVars
<1> QED
  BY <1>2, <1>3, <1>4, <1>5, <1>6 DEF Next, ThreadStep

LEMMA SentStep == PartsInv /\ SentInv /\ [Next]_vars => SentInv'
<1> SUFFICES ASSUME PartsInv, SentInv, [Next]_vars PROVE SentInv'
  OBVIOUS
<1> USE DEF Goes
<1>0. Blocks \in Nat \ {0}
  BY RadioAssumption
<1>1. CASE UNCHANGED vars
  BY <1>1 DEF vars, sdrVars, SentInv, Numbered, BlocksSent
<1>2. CASE Next
  <2>1. failures' = 0 => failures = 0
    BY <1>2, FailuresKept
  <2>2. CASE /\ UNCHANGED <<to_radio, added, sent, left>>
             /\ pc \notin {"consume", "sending"} /\ pc' \notin {"consume", "sending"}
             /\ running' => running
    BY <2>1, <2>2 DEF SentInv, Numbered, BlocksSent
  <2>3. CASE Sigint
    BY <2>3 DEF Sigint, SentInv, Numbered, BlocksSent
  <2>4. CASE Add
    <3>1. /\ to_radio' = Append(to_radio, added + 1) /\ added' = added + 1
          /\ UNCHANGED <<sent, pc, left, running, failures>>
      BY <2>4 DEF Add, sdrVars
    <3>a. /\ to_radio \in Seq(Nat) /\ sent \in Seq(SentRecord)
          /\ added = Len(sent) + Len(to_radio)
          /\ \A i \in DOMAIN sent : sent[i].id = i
          /\ \A j \in 1 .. Len(to_radio) : to_radio[j] = Len(sent) + j
      BY DEF SentInv, Numbered
    <3>b. Len(sent) \in Nat /\ Len(to_radio) \in Nat /\ added + 1 \in Nat
      BY <3>a
    <3>c. /\ to_radio' \in Seq(Nat) /\ Len(to_radio') = Len(to_radio) + 1
          /\ DOMAIN to_radio' = 1 .. (Len(to_radio) + 1)
          /\ to_radio'[Len(to_radio) + 1] = added + 1
          /\ \A j \in 1 .. Len(to_radio) : to_radio'[j] = to_radio[j]
      BY <3>1, <3>a, <3>b, AppendFacts
    <3>d. \A j \in DOMAIN to_radio' : to_radio'[j] = Len(sent) + j
      <4> TAKE j \in DOMAIN to_radio'
      <4>1. CASE j = Len(to_radio) + 1
        BY <3>a, <3>b, <3>c, <4>1
      <4>2. CASE j \in 1 .. Len(to_radio)
        BY <3>a, <3>c, <4>2
      <4> QED
        BY <3>b, <3>c, <4>1, <4>2
    <3>e. to_radio' # <<>>
      BY <3>b, <3>c
    <3>2. Numbered'
      <4>1. added' = Len(sent') + Len(to_radio')
        BY <3>1, <3>a, <3>b, <3>c
      <4> QED
        BY <3>1, <3>a, <3>c, <3>d, <3>e, <4>1 DEF Numbered
    <3>3. BlocksSent'
      BY <3>1 DEF SentInv, BlocksSent
    <3> QED
      BY <3>2, <3>3 DEF SentInv
  <2>5. CASE TxTest
    BY <2>5 DEF TxTest, SentInv, Numbered, BlocksSent, sdrVars
  <2>6. CASE Consume
    <3> DEFINE new == [id |-> Head(to_radio), blocks |-> 0]
    <3>1. /\ pc = "consume" /\ pc' = "sending" /\ left' = Blocks
          /\ sent' = Append(sent, new) /\ to_radio' = Tail(to_radio)
          /\ UNCHANGED <<added, running, failures>>
      BY <2>6 DEF Consume, sdrVars
    <3>2. /\ to_radio # <<>> /\ to_radio \in Seq(Nat) /\ sent \in Seq(SentRecord)
          /\ Head(to_radio) = Len(sent) + 1
      BY <3>1 DEF SentInv, Numbered
    <3>3. new \in SentRecord
      BY <3>2 DEF SentRecord
    <3>a. /\ added = Len(sent) + Len(to_radio)
          /\ \A i \in 1 .. Len(sent) : sent[i].id = i
          /\ \A j \in 1 .. Len(to_radio) : to_radio[j] = Len(sent) + j
          /\ Len(sent) \in Nat /\ Len(to_radio) \in Nat
      BY <3>2 DEF SentInv, Numbered
    <3>b. /\ to_radio' \in Seq(Nat) /\ Len(to_radio') = Len(to_radio) - 1
          /\ DOMAIN to_radio' = 1 .. (Len(to_radio) - 1)
          /\ \A j \in 1 .. (Len(to_radio) - 1) : to_radio'[j] = to_radio[j + 1]
      BY <3>1, <3>2, TailFacts
    <3>c. /\ sent' \in Seq(SentRecord) /\ Len(sent') = Len(sent) + 1
          /\ DOMAIN sent' = 1 .. (Len(sent) + 1)
          /\ sent'[Len(sent) + 1] = new
          /\ \A i \in 1 .. Len(sent) : sent'[i] = sent[i]
      BY <3>1, <3>2, <3>3, AppendFacts
    <3>4. Numbered'
      <4>1. \A i \in DOMAIN sent' : sent'[i].id = i
        <5> TAKE i \in DOMAIN sent'
        <5>1. CASE i = Len(sent) + 1
          BY <3>2, <3>c, <5>1
        <5>2. CASE i \in 1 .. Len(sent)
          BY <3>a, <3>c, <5>2
        <5> QED
          BY <3>a, <3>c, <5>1, <5>2
      <4>2. \A j \in DOMAIN to_radio' : to_radio'[j] = Len(sent') + j
        <5> TAKE j \in DOMAIN to_radio'
        <5>1. j \in Nat /\ j + 1 \in 1 .. Len(to_radio) /\ to_radio'[j] = to_radio[j + 1]
          BY <3>a, <3>b
        <5>2. to_radio[j + 1] = Len(sent) + (j + 1)
          BY <3>a, <5>1
        <5> QED
          BY <3>a, <3>c, <5>1, <5>2
      <4>3. added' = Len(sent') + Len(to_radio')
        BY <3>1, <3>a, <3>b, <3>c
      <4> QED
        BY <3>1, <3>b, <3>c, <4>1, <4>2, <4>3 DEF Numbered
    <3>5. BlocksSent'
      BY <1>0, <3>1, <3>2, <3>3 DEF SentInv, BlocksSent
    <3> QED
      BY <3>4, <3>5 DEF SentInv
  <2>7. CASE SendBlock
    <3>1. /\ pc = "sending" /\ left' = left - 1
          /\ pc' = IF running /\ left' > 0 THEN "sending" ELSE "tx"
          /\ UNCHANGED <<to_radio, added, running, failures>>
      BY <2>7 DEF SendBlock, sdrVars
    <3>2. sent # <<>> /\ left \in 1 .. Blocks /\ sent \in Seq(SentRecord)
      BY <3>1 DEF SentInv, Numbered, BlocksSent
    <3>3. sent' = IF Transmits THEN [sent EXCEPT ![Len(sent)].blocks = @ + 1] ELSE sent
      BY <2>7 DEF SendBlock
    <3>4. CASE Transmits
      <4> DEFINE n == Len(sent)
                 r == [sent[n] EXCEPT !.blocks = sent[n].blocks + 1]
      <4>1. n \in DOMAIN sent /\ sent[n] \in SentRecord
        BY <3>2
      <4>2. sent' = [sent EXCEPT ![n] = r]
        BY <3>3, <3>4
      <4>3. r \in SentRecord /\ r.id = sent[n].id /\ r.blocks = sent[n].blocks + 1
        BY <4>1 DEF SentRecord
      <4> HIDE DEF r
      <4>4. /\ sent' \in Seq(SentRecord) /\ Len(sent') = n /\ DOMAIN sent' = DOMAIN sent
            /\ sent'[n] = r /\ \A i \in DOMAIN sent : i # n => sent'[i] = sent[i]
        BY <3>2, <4>1, <4>2, <4>3
      <4>6. Numbered'
        BY <3>1, <4>1, <4>3, <4>4 DEF SentInv, Numbered
      <4>7. BlocksSent'
        BY <1>0, <3>1, <3>2, <4>1, <4>3, <4>4 DEF SentInv, BlocksSent, SentRecord
      <4> QED
        BY <4>6, <4>7 DEF SentInv
    <3>5. CASE ~Transmits
      <4>1. failures # 0 /\ sent' = sent
        BY <3>1, <3>3, <3>5 DEF PartsInv, InMode, TxParts, Transmits
      <4>2. Numbered'
        BY <3>1, <4>1 DEF SentInv, Numbered
      <4>3. BlocksSent'
        BY <1>0, <3>1, <3>2, <4>1 DEF BlocksSent
      <4> QED
        BY <4>2, <4>3 DEF SentInv
    <3> QED
      BY <3>4, <3>5
  <2>8. CASE Crash
    BY <2>8 DEF Crash, SentInv, Numbered, BlocksSent, sdrVars, UsesNull,
                PartsInv, InMode, TxParts
  <2>9. CASE OuterTest \/ ToRx \/ RxTest \/ ReceiveSome \/ LeaveRx \/ ToTx \/ Construct
             \/ FirstReception
    <3>1. /\ UNCHANGED <<to_radio, added, sent, left, running>>
          /\ pc \notin {"consume", "sending"} /\ pc' \notin {"consume", "sending"}
      BY <2>9 DEF OuterTest, ToRx, RxTest, ReceiveSome, Receive, LeaveRx, ToTx, Construct,
                  FirstReception
    <3> QED
      BY <2>2, <3>1
  <2> QED
    BY <1>2, <2>3, <2>4, <2>5, <2>6, <2>7, <2>8, <2>9 DEF Next, ThreadStep
<1> QED
  BY <1>1, <1>2

\* Packets are sent in the order they were added, each once, and without a
\* signal or a failure of the radio all of their blocks are.
THEOREM SentTheorem == Spec => []SentWhole
<1>1. SentInv => SentWhole
  BY DEF SentInv, Numbered, BlocksSent, SentWhole
<1> QED
  BY <1>1, PartsInit, PartsStep, SentInit, SentStep, PTL DEF Spec

(***************************************************************************)
(* One failure.  Before it tx_nRx is right, so that a switch that loses    *)
(* the device leaves the flag on the side that does nothing; after it all  *)
(* switches succeed.  Only the first switch_rx() has no such flag to lose: *)
(* then nothing was measured, and without a signal the thread does not     *)
(* leave reception.                                                        *)
(***************************************************************************)
Untried == sent = <<>> /\ channel_bsy

NullIsOff ==
    /\ pc \notin Loop => Untried
    /\ (pc = "switch_rx" \/ (pc = "outer" /\ running)) /\ failures = 0 =>
         tx_nRx \/ Untried
    /\ pc \in {"rx", "receive", "leave_rx"} =>
         /\ failures = 0 => ~tx_nRx
         /\ pcm = "none" /\ ~tx_nRx =>
              measured = "not yet" /\ Untried /\ (pc = "leave_rx" => ~running)
    /\ pc = "switch_tx" /\ failures = 0 => ~tx_nRx
    /\ pc \in {"consume", "sending"} \/ (pc = "tx" /\ running) =>
         /\ failures = 0 => tx_nRx
         /\ pcm = "none" => ~tx_nRx
    /\ pc = "crashed" => measured = "not yet" /\ sent = <<>>

SurviveInv == /\ failures \in Nat
              /\ failures <= 1 /\ ~leaked => NullIsOff

\* What the operations on the hardware count, fail as they may.
LEMMA FailuresCount ==
    ASSUME failures \in Nat, Next
    PROVE  /\ failures' \in Nat /\ failures <= failures'
           /\ ~leaked' => ~leaked
<1>1. CASE Construct
  BY <1>1 DEF Construct, InitChip, SetRxFreq, SetTxFreq, SetLnaGain, SetTxMixGain, Fails
<1>2. CASE FirstReception
  BY <1>2 DEF FirstReception, FirstOpen, FirstSwitch, SwitchChip, SwitchChipFails,
              OpenFails, Fails
<1>3. CASE ToRx
  <2>1. CASE RxOpenFails
    BY <2>1 DEF RxOpenFails, OpenFails, Fails
  <2>2. CASE RxChipFails
    BY <2>2 DEF RxChipFails, SwitchChipFails, Fails
  <2>3. CASE RxSucceeds
    BY <2>3 DEF RxSucceeds, SwitchChip, KeepsReceiving, Fails
  <2> QED
    BY <1>3, <2>1, <2>2, <2>3 DEF ToRx, SwitchRx
<1>4. CASE ToTx
  BY <1>4 DEF ToTx, SwitchTx, TxOpenFails, TxChipFails, TxSucceeds, OpenFails,
              SwitchChipFails, SwitchChip, Fails
<1>5. CASE OuterTest \/ RxTest \/ ReceiveSome \/ LeaveRx \/ TxTest \/ Consume \/ SendBlock
           \/ Crash \/ Sigint \/ Add
  <2>1. failures' = failures /\ leaked' = leaked
    BY <1>5 DEF OuterTest, RxTest, ReceiveSome, Receive, LeaveRx, TxTest, Consume,
                SendBlock, Crash, Sigint, Add, sdrVars
  <2> QED
    BY <2>1
<1> QED
  BY <1>1, <1>2, <1>3, <1>4, <1>5 DEF Next, ThreadStep

LEMMA SurviveInit == Init => SurviveInv
BY DEF Init, SdrInit, ChipReset, SurviveInv, NullIsOff, Untried, Loop

LEMMA SurviveStep == SurviveInv /\ [Next]_vars => SurviveInv'
<1> SUFFICES ASSUME SurviveInv, [Next]_vars PROVE SurviveInv'
  OBVIOUS
<1>1. CASE UNCHANGED vars
  BY <1>1 DEF vars, sdrVars, SurviveInv, NullIsOff, Untried
<1>2. CASE Next
  <2>1. failures \in Nat /\ failures' \in Nat /\ failures <= failures'
    BY <1>2, FailuresCount DEF SurviveInv
  <2> SUFFICES ASSUME failures' <= 1, ~leaked'
               PROVE  NullIsOff'
    BY <2>1 DEF SurviveInv
  <2>2. ~leaked /\ failures <= 1 /\ NullIsOff
    BY <1>2, <2>1, FailuresCount DEF SurviveInv
  <2> USE DEF Goes, Loop, Untried
  <2>3. CASE Construct \/ FirstReception
    <3>1. /\ pc \notin Loop /\ UNCHANGED <<running, channel_bsy, sent, measured>>
          /\ pc' \in {"set_rx_freq", "set_tx_freq", "set_lna", "set_mix", "open",
                      "first_switch", "set_rx_gain", "set_tx_gain", "outer"}
      BY <2>3 DEF Construct, FirstReception
    <3>2. QED
      BY <2>2, <3>1 DEF NullIsOff
  <2>4. CASE ToRx
    <3>1. /\ pc = "switch_rx" /\ pc' = "rx" /\ SwitchRx /\ measured' = "not yet"
          /\ UNCHANGED <<running, channel_bsy, sent>>
      BY <2>4 DEF ToRx
    <3>2. \/ pcm' = "capture" /\ tx_nRx' = FALSE
          \/ failures' = failures + 1 /\ (pcm' = "capture" \/ tx_nRx' = tx_nRx)
      BY <2>2, <3>1 DEF SwitchRx, RxOpenFails, RxChipFails, RxSucceeds, OpenFails,
                        SwitchChipFails, Fails
    <3>3. CASE pcm' = "capture" /\ tx_nRx' = FALSE
      BY <2>2, <3>1, <3>3 DEF NullIsOff
    <3>4. CASE failures' = failures + 1 /\ (pcm' = "capture" \/ tx_nRx' = tx_nRx)
      <4>1. failures = 0 /\ failures' = 1
        BY <2>1, <3>4
      <4>2. tx_nRx \/ Untried
        BY <2>2, <3>1, <4>1 DEF NullIsOff
      <4>3. pcm' = "none" /\ ~tx_nRx' => Untried'
        <5>1. Untried' = Untried
          BY <3>1, Zenon
        <5>2. pcm' = "none" => tx_nRx' = tx_nRx
          BY <3>4
        <5>3. QED
          BY <4>2, <5>1, <5>2, Zenon
      <4>4. /\ pc' = "rx" /\ measured' = "not yet" /\ failures' # 0
        <5>1. failures' # 0
          BY <4>1
        <5>2. QED
          BY <3>1, <5>1, Zenon
      <4> HIDE DEF Untried
      <4>5. QED
        BY <4>3, <4>4 DEF NullIsOff
    <3>5. QED
      BY <3>2, <3>3, <3>4
  <2>5. CASE ToTx
    <3>1. /\ pc = "switch_tx" /\ pc' = "tx" /\ SwitchTx
          /\ UNCHANGED <<running, channel_bsy, sent, measured>>
      BY <2>5 DEF ToTx
    <3>2. \/ pcm' = "playback" /\ tx_nRx' = TRUE
          \/ failures' = failures + 1 /\ (pcm' = "playback" \/ tx_nRx' = tx_nRx)
      BY <2>2, <3>1 DEF SwitchTx, TxOpenFails, TxChipFails, TxSucceeds, OpenFails,
                        SwitchChipFails, Fails
    <3>3. QED
      BY <2>1, <2>2, <3>1, <3>2 DEF NullIsOff
  <2>6. CASE OuterTest
    BY <2>2, <2>6 DEF OuterTest, NullIsOff, sdrVars
  <2>7. CASE RxTest
    BY <2>2, <2>7 DEF RxTest, NullIsOff, sdrVars
  <2>8. CASE ReceiveSome
    <3>1. /\ pc = "receive" /\ pc' = "rx" /\ ~(~tx_nRx /\ pcm = "none")
          /\ UNCHANGED <<pcm, tx_nRx, failures, running, sent>>
      BY <2>8 DEF ReceiveSome, Receive, UsesNull, sdrVars
    <3>2. QED
      BY <2>2, <3>1 DEF NullIsOff
  <2>9. CASE LeaveRx
    BY <2>2, <2>9 DEF LeaveRx, NullIsOff, sdrVars
  <2>10. CASE TxTest
    BY <2>2, <2>10 DEF TxTest, NullIsOff, sdrVars
  <2>11. CASE Consume
    BY <2>2, <2>11 DEF Consume, NullIsOff, sdrVars
  <2>12. CASE SendBlock
    BY <2>2, <2>12 DEF SendBlock, NullIsOff, sdrVars
  <2>13. CASE Crash
    BY <2>2, <2>13 DEF Crash, UsesNull, NullIsOff, sdrVars
  <2>14. CASE Sigint
    <3>1. ~running' /\ UNCHANGED <<pc, pcm, tx_nRx, failures, channel_bsy, sent, measured>>
      BY <2>14 DEF Sigint, sdrVars
    <3>2. running
      BY <2>14 DEF Sigint
    <3>3. QED
      BY <2>2, <3>1, <3>2 DEF NullIsOff
  <2>15. CASE Add
    BY <2>2, <2>15 DEF Add, NullIsOff, sdrVars
  <2> QED
    BY <1>2, <2>3, <2>4, <2>5, <2>6, <2>7, <2>8, <2>9, <2>10, <2>11, <2>12, <2>13,
       <2>14, <2>15 DEF Next, ThreadStep
<1> QED
  BY <1>1, <1>2

\* radio_thread survives any one failure of the hardware that comes after its
\* first reception, at whatever switch it happens: tx_nRx then disables the
\* call that would use the null handle.
THEOREM SurviveTheorem == Spec => []SurvivesOneFailure
<1>1. SurviveInv => SurvivesOneFailure
  <2>1. CASE failures <= 1 /\ ~leaked
    BY <2>1 DEF SurviveInv, NullIsOff, SurvivesOneFailure
  <2>2. CASE leaked
    BY <2>2 DEF SurvivesOneFailure
  <2>3. CASE ~(failures <= 1)
    <3>1. SurviveInv => failures > 1
      BY <2>3 DEF SurviveInv
    <3>2. QED
      BY <3>1, Zenon DEF SurvivesOneFailure
  <2> QED
    BY <2>1, <2>2, <2>3
<1> QED
  BY <1>1, SurviveInit, SurviveStep, PTL DEF Spec

(***************************************************************************)
(* The thread as the others see it.  Everything between two of its calls   *)
(* that the others can tell apart is one control point, and of the history *)
(* only the numbers count.                                                 *)
(***************************************************************************)
SidePc == IF pc \in {"receive", "consume", "sending", "end", "crashed"} THEN pc ELSE "rx"
Fetched == [i \in DOMAIN sent |-> sent[i].id]

\* A step within what the others cannot tell apart is a stutter.
LEMMA SideStutter ==
    ASSUME UNCHANGED <<running, to_radio, left>>, SidePc' = SidePc, Fetched' = Fetched
    PROVE  [Side!Next]_<<running, to_radio, Side!radioVars>>
BY DEF Side!radioVars, SidePc, Fetched

LEMMA SideStep ==
    PartsInv /\ SentInv /\ [Next]_vars => [Side!Next]_<<running, to_radio, Side!radioVars>>
<1> SUFFICES ASSUME PartsInv, SentInv, [Next]_vars
             PROVE  [Side!Next]_<<running, to_radio, Side!radioVars>>
  OBVIOUS
<1> USE DEF Goes, Side!Goes
<1>0. to_radio \in Seq(Nat) /\ sent \in Seq(SentRecord) /\ added \in Nat
  BY DEF SentInv, Numbered
<1>1. CASE UNCHANGED vars
  BY <1>1, SideStutter DEF vars, sdrVars, SidePc, Fetched
<1>2. CASE Sigint
  <2>1. running' = FALSE /\ UNCHANGED <<pc, to_radio, left, sent>>
    BY <1>2 DEF Sigint
  <2> QED
    BY <2>1 DEF Side!Next, Side!OthersStep, Side!radioVars, SidePc, Fetched
<1>3. CASE Add
  <2>1. to_radio' = Append(to_radio, added + 1) /\ UNCHANGED <<pc, running, left, sent>>
    BY <1>3 DEF Add
  <2>2. /\ Len(to_radio) + 1 \in DOMAIN to_radio'
        /\ to_radio'[Len(to_radio) + 1] = added + 1
    BY <1>0, <2>1, AppendFacts
  <2>3. \E i \in DOMAIN to_radio' : to_radio' = Append(to_radio, to_radio'[i])
    BY <2>1, <2>2
  <2> QED
    BY <2>1, <2>3 DEF Side!Next, Side!OthersStep, Side!radioVars, SidePc, Fetched
<1>4. CASE OuterTest
  <2>1. /\ pc = "outer" /\ pc' = IF running THEN "switch_rx" ELSE "end"
        /\ UNCHANGED <<running, to_radio, left, sent>>
    BY <1>4 DEF OuterTest
  <2>2. CASE running
    BY <2>1, <2>2, SideStutter DEF SidePc, Fetched
  <2>3. CASE ~running
    <3>1. Side!Ends
      BY <2>1, <2>3 DEF Side!Ends, SidePc, Fetched
    <3> QED
      BY <3>1 DEF Side!Next, Side!RadioStep
  <2> QED
    BY <2>2, <2>3
<1>5. CASE RxTest
  <2>1. /\ pc = "rx" /\ pc' = IF running /\ (to_radio = <<>> \/ channel_bsy)
                               THEN "receive" ELSE "leave_rx"
        /\ UNCHANGED <<running, to_radio, left, sent>>
    BY <1>5 DEF RxTest
  <2>2. CASE pc' = "leave_rx"
    BY <2>1, <2>2, SideStutter DEF SidePc, Fetched
  <2>3. CASE running /\ pc' = "receive"
    <3>1. Side!Listens
      BY <2>1, <2>3 DEF Side!Listens, SidePc, Fetched
    <3> QED
      BY <3>1 DEF Side!Next, Side!RadioStep
  <2> QED
    BY <2>1, <2>2, <2>3
<1>6. CASE ReceiveSome
  <2>1. pc = "receive" /\ pc' = "rx" /\ UNCHANGED <<running, to_radio, left, sent>>
    BY <1>6 DEF ReceiveSome, Receive
  <2>2. Side!HearsNone
    BY <2>1 DEF Side!HearsNone, SidePc, Fetched
  <2> QED
    BY <2>2 DEF Side!Next, Side!RadioStep
<1>7. CASE TxTest
  <2>1. /\ pc = "tx" /\ pc' = IF running /\ to_radio # <<>> THEN "consume" ELSE "outer"
        /\ UNCHANGED <<running, to_radio, left, sent>>
    BY <1>7 DEF TxTest
  <2>2. CASE pc' = "outer"
    BY <2>1, <2>2, SideStutter DEF SidePc, Fetched
  <2>3. CASE running /\ to_radio # <<>> /\ pc' = "consume"
    <3>1. Side!TxTest
      BY <2>1, <2>3 DEF Side!TxTest, SidePc, Fetched
    <3> QED
      BY <3>1 DEF Side!Next, Side!RadioStep
  <2> QED
    BY <2>1, <2>2, <2>3
<1>8. CASE Consume
  <2> DEFINE new == [id |-> Head(to_radio), blocks |-> 0]
  <2>1. /\ pc = "consume" /\ pc' = "sending" /\ left' = Blocks
        /\ sent' = Append(sent, new) /\ to_radio' = Tail(to_radio) /\ running' = running
    BY <1>8 DEF Consume
  <2>2. new \in SentRecord
    BY <1>0, <2>1 DEF SentInv, Numbered, SentRecord
  <2>a. \A i \in 1 .. Len(sent) : sent[i].id \in Nat
    <3> SUFFICES ASSUME NEW i \in 1 .. Len(sent) PROVE sent[i].id \in Nat
      OBVIOUS
    <3>1. sent[i] \in SentRecord
      BY <1>0, ElementOfSeq
    <3> QED
      BY <3>1 DEF SentRecord
  <2>3. Fetched \in Seq(Nat) /\ Len(Fetched) = Len(sent)
    <3>1. Len(sent) \in Nat /\ DOMAIN sent = 1 .. Len(sent)
      BY <1>0
    <3>2. \A i \in 1 .. Len(sent) : sent[i].id \in Nat
      BY <2>a
    <3>3. Fetched \in [1 .. Len(sent) -> Nat]
      BY <3>1, <3>2 DEF Fetched
    <3> QED
      BY <3>1, <3>3
  <2>4. Fetched' = Append(Fetched, Head(to_radio))
    <3>1. /\ DOMAIN sent' = 1 .. (Len(sent) + 1) /\ sent'[Len(sent) + 1] = new
          /\ \A i \in 1 .. Len(sent) : sent'[i] = sent[i]
      BY <1>0, <2>1, <2>2, AppendFacts
    <3>2. Head(to_radio) \in Nat /\ Len(sent) \in Nat
      BY <1>0, <2>2 DEF SentRecord
    <3>3. /\ DOMAIN Append(Fetched, Head(to_radio)) = 1 .. (Len(sent) + 1)
          /\ Append(Fetched, Head(to_radio))[Len(sent) + 1] = Head(to_radio)
          /\ \A i \in 1 .. Len(sent) : Append(Fetched, Head(to_radio))[i] = Fetched[i]
          /\ Append(Fetched, Head(to_radio)) \in Seq(Nat)
          /\ Len(Append(Fetched, Head(to_radio))) = Len(sent) + 1
      BY <2>3, <3>2, AppendFacts
    <3>4. \A i \in 1 .. Len(sent) : Fetched[i] = sent[i].id
      BY <1>0 DEF Fetched
    <3>5. Fetched' \in [1 .. (Len(sent) + 1) -> Nat]
      <4>1. \A i \in 1 .. (Len(sent) + 1) : sent'[i].id \in Nat
        <5> SUFFICES ASSUME NEW i \in 1 .. (Len(sent) + 1) PROVE sent'[i].id \in Nat
          OBVIOUS
        <5>1. i = Len(sent) + 1 \/ i \in 1 .. Len(sent)
          BY <3>2
        <5> QED
          BY <2>a, <3>1, <3>2, <5>1
      <4> QED
        BY <3>1, <4>1 DEF Fetched
    <3>6. Fetched' \in Seq(Nat) /\ Len(Fetched') = Len(sent) + 1
      BY <3>2, <3>5
    <3>7. \A i \in 1 .. (Len(sent) + 1) : Fetched'[i] = Append(Fetched, Head(to_radio))[i]
      <4>1. \A i \in 1 .. (Len(sent) + 1) : Fetched'[i] = sent'[i].id
        BY <3>1 DEF Fetched
      <4> QED
        BY <3>1, <3>2, <3>3, <3>4, <4>1
    <3> QED
      BY <3>3, <3>6, <3>7, SeqEqual
  <2>5. SidePc = "consume" /\ SidePc' = "sending"
    BY <2>1 DEF SidePc
  <2>6. Side!Consume
    BY <2>1, <2>4, <2>5 DEF Side!Consume, SidePc, Fetched
  <2> QED
    BY <2>6 DEF Side!Next, Side!RadioStep
<1>9. CASE SendBlock
  <2>1. /\ pc = "sending" /\ left' = left - 1 /\ UNCHANGED <<running, to_radio>>
        /\ pc' = IF running /\ left' > 0 THEN "sending" ELSE "tx"
        /\ sent' = IF Transmits THEN [sent EXCEPT ![Len(sent)].blocks = @ + 1] ELSE sent
    BY <1>9 DEF SendBlock
  <2>2. Fetched' = Fetched
    <3>1. sent # <<>>
      BY <2>1 DEF SentInv, BlocksSent
    <3>2. DOMAIN sent' = DOMAIN sent /\ \A i \in DOMAIN sent : sent'[i].id = sent[i].id
      BY <1>0, <2>1, <3>1 DEF SentRecord
    <3> QED
      BY <3>2 DEF Fetched
  <2>3. SidePc = "sending" /\ SidePc' = IF running /\ left' > 0 THEN "sending" ELSE "rx"
    BY <2>1 DEF SidePc
  <2>4. Side!SendBlock
    BY <2>1, <2>2, <2>3 DEF Side!SendBlock, SidePc, Fetched
  <2> QED
    BY <2>4 DEF Side!Next, Side!RadioStep
<1>10. CASE Crash
  <2>1. pc \in {"receive", "sending"} /\ pc' = "crashed" /\ UNCHANGED <<running, to_radio, left, sent>>
    BY <1>10 DEF Crash
  <2>2. Side!Crash
    BY <2>1 DEF Side!Crash, SidePc, Fetched
  <2> QED
    BY <2>2 DEF Side!Next, Side!RadioStep
<1>11. CASE Construct \/ FirstReception \/ ToRx \/ LeaveRx \/ ToTx
  <2>1. /\ UNCHANGED <<running, to_radio, left, sent>>
        /\ pc \notin {"receive", "consume", "sending", "end", "crashed"}
        /\ pc' \notin {"receive", "consume", "sending", "end", "crashed"}
    BY <1>11 DEF Construct, FirstReception, ToRx, LeaveRx, ToTx
  <2> QED
    BY <2>1, SideStutter DEF SidePc, Fetched
<1> QED
  BY <1>1, <1>2, <1>3, <1>4, <1>5, <1>6, <1>7, <1>8, <1>9, <1>10, <1>11 DEF Next, ThreadStep

\* Whatever the hardware and the channel do, the thread is to the rest of the
\* daemon the one that M17Netd composes.
THEOREM SideTheorem == Spec => ImplementsRadioSide
<1>1. Init => Side!Init
  BY DEF Init, Side!Init, Side!RadioInit
<1> QED
  BY <1>1, PartsInit, PartsStep, SentInit, SentStep, SideStep, PTL
     DEF Spec, ImplementsRadioSide, Side!Spec

(***************************************************************************)
(* Types.  The gains fit the fields the masks leave them, so the registers *)
(* stay bytes; the frequencies fit 24 bits; a packet never gets more       *)
(* blocks than it has, because what was sent of it and what is left of it  *)
(* together are at most that.                                              *)
(***************************************************************************)
OfPacket == [id : 1 .. MaxPackets, blocks : 0 .. Blocks]

PlacesOfThread ==
    {"init", "set_rx_freq", "set_tx_freq", "set_lna", "set_mix", "open",
     "first_switch", "set_rx_gain", "set_tx_gain"} \cup Loop

FlagsType == /\ running \in BOOLEAN /\ channel_bsy \in BOOLEAN /\ locked \in BOOLEAN
             /\ measured \in {"never", "not yet", "busy", "free"}
             /\ pc \in PlacesOfThread

QueueType == /\ to_radio \in Seq(1 .. MaxPackets) /\ Len(to_radio) <= QueueSize
             /\ added \in 0 .. MaxPackets
             /\ pc = "consume" => to_radio # <<>>

SendingType == /\ left \in 0 .. Blocks /\ sent \in Seq(OfPacket)
               /\ pc = "sending" => /\ sent # <<>> /\ left \in 1 .. Blocks
                                    /\ sent[Len(sent)].blocks + left <= Blocks

TypeInv == SdrTypeOK /\ FlagsType /\ QueueType /\ SendingType

LEMMA FrequenciesFit ==
    \A f \in {RxFrequency, TxFrequency} : CalcFreq(f) \in Nat /\ CalcFreq(f) < MaxFrf
<1>1. ASSUME NEW f \in Nat, f <= 510000000
      PROVE  CalcFreq(f) \in Nat /\ CalcFreq(f) < MaxFrf
  <2>1. /\ f \div 1125 \in Nat /\ f \div 1125 <= 453334
        /\ f % 1125 \in Nat /\ f % 1125 < 1125
    BY <1>1
  <2>2. /\ (32 * (f % 1125)) \div 1125 \in Nat
        /\ (32 * (f % 1125)) \div 1125 <= 32
    BY <2>1
  <2> QED
    BY <2>1, <2>2 DEF CalcFreq, MaxFrf
<1> QED
  BY <1>1, FrequencyAssumption

\* A gain written into a field of a byte leaves a byte.
LEMMA LnaFits ==
    ASSUME NEW x \in 0 .. 255, NEW lna \in 1 .. 6
    PROVE  (x % 32) + LnaField(lna) \in 0 .. 255
<1>1. x % 32 \in 0 .. 31
  OBVIOUS
<1> QED
  BY <1>1 DEF LnaField

LEMMA MixFits ==
    ASSUME NEW x \in 0 .. 255, NEW mix \in 0 .. 15
    PROVE  16 * (x \div 16) + mix \in 0 .. 255
<1>1. x \div 16 \in 0 .. 15
  OBVIOUS
<1> QED
  BY <1>1

LEMMA FailsType == SdrTypeOK /\ Fails => failures' \in 0 .. MaxFailures
BY MaxFailuresAssumption DEF SdrTypeOK, ChipTypeOK, Fails

LEMMA ConstructType == SdrTypeOK /\ Construct => SdrTypeOK'
<1> SUFFICES ASSUME SdrTypeOK, Construct PROVE SdrTypeOK'
  OBVIOUS
<1>1. UNCHANGED <<pcm, pa, tx_nRx, leaked>>
  BY DEF Construct
<1> SUFFICES ChipTypeOK'
  BY <1>1 DEF SdrTypeOK
<1>2. ChipTypeOK /\ (Fails => failures' \in 0 .. MaxFailures)
  BY FailsType DEF SdrTypeOK
<1>3. LnaGain \in 1 .. 6 /\ MixGain \in 0 .. 15
  BY GainsFit
<1> USE DEF ChipTypeOK
<1>4. CASE InitChip
  <2>1. /\ LnaField(MaxLna) + PgaField(MaxPga) + rx_zin \in 0 .. 255
        /\ DacField(Dac) + Mix \in 0 .. 255
    BY DEF LnaField, PgaField, DacField, MaxLna, MaxPga, rx_zin, Dac, Mix
  <2> QED
    BY <1>2, <1>4, <2>1 DEF InitChip, DefaultFrontEnds
<1>5. CASE SetRxFreq(RxFrequency)
  BY <1>2, <1>5, FrequenciesFit DEF SetRxFreq
<1>6. CASE SetTxFreq(TxFrequency)
  BY <1>2, <1>6, FrequenciesFit DEF SetTxFreq
<1>7. ASSUME NEW lna \in 1 .. 6, SetLnaGain(lna) PROVE ChipTypeOK'
  <2>1. (RXFE1 % 32) + LnaField(lna) \in 0 .. 255
    BY <1>2, LnaFits
  <2> QED
    BY <1>2, <1>7, <2>1 DEF SetLnaGain
<1>8. ASSUME NEW mix \in 0 .. 15, SetTxMixGain(mix) PROVE ChipTypeOK'
  <2>1. 16 * (TXFE1 \div 16) + mix \in 0 .. 255
    BY <1>2, MixFits
  <2> QED
    BY <1>2, <1>8, <2>1 DEF SetTxMixGain
<1>9. CASE SetLnaGain(5)
  BY <1>7, <1>9
<1>10. CASE SetTxMixGain(12)
  BY <1>8, <1>10
<1>11. CASE SetLnaGain(LnaGain)
  BY <1>3, <1>7, <1>11
<1>12. CASE SetTxMixGain(MixGain)
  BY <1>3, <1>8, <1>12
<1> QED
  BY <1>4, <1>5, <1>6, <1>9, <1>10, <1>11, <1>12 DEF Construct

LEMMA SwitchChipType ==
    ASSUME SdrTypeOK, NEW mode \in {"rx", "tx"},
           SwitchChip(mode) \/ SwitchChipFails(mode) \/ KeepsReceiving
    PROVE  ChipTypeOK'
<1>1. chip' \in {chip, mode} /\ UNCHANGED settings
  BY DEF SwitchChip, SwitchChipFails, KeepsReceiving
<1>2. failures' \in 0 .. MaxFailures
  <2>1. failures' = failures \/ Fails
    BY DEF SwitchChip, SwitchChipFails, KeepsReceiving
  <2> QED
    BY <2>1, FailsType DEF SdrTypeOK, ChipTypeOK
<1> QED
  BY <1>1, <1>2 DEF SdrTypeOK, ChipTypeOK, settings

LEMMA OpenFailsType ==
    ASSUME SdrTypeOK, OpenFails, UNCHANGED <<chip, settings>>
    PROVE  ChipTypeOK' /\ pcm' = "none" /\ leaked' \in BOOLEAN
<1>1. failures' = failures \/ Fails
  BY DEF OpenFails
<1>2. failures' \in 0 .. MaxFailures
  BY <1>1, FailsType DEF SdrTypeOK, ChipTypeOK
<1>3. pcm' = "none" /\ leaked' \in BOOLEAN
  BY DEF OpenFails, SdrTypeOK
<1> QED
  BY <1>2, <1>3 DEF SdrTypeOK, ChipTypeOK, settings

LEMMA SwitchType ==
    SdrTypeOK /\ (SwitchRx \/ SwitchTx \/ FirstOpen \/ FirstSwitch) => SdrTypeOK'
<1> SUFFICES ASSUME SdrTypeOK, SwitchRx \/ SwitchTx \/ FirstOpen \/ FirstSwitch
             PROVE  SdrTypeOK'
  OBVIOUS
<1>1. CASE RxOpenFails
  BY <1>1, OpenFailsType DEF RxOpenFails, SdrTypeOK
<1>2. CASE TxOpenFails
  BY <1>2, OpenFailsType DEF TxOpenFails, SdrTypeOK
<1>3. CASE RxChipFails
  <2>1. ChipTypeOK'
    BY <1>3, SwitchChipType DEF RxChipFails
  <2> QED
    BY <1>3, <2>1 DEF RxChipFails, SdrTypeOK
<1>4. CASE RxSucceeds
  <2>1. ChipTypeOK'
    BY <1>4, SwitchChipType DEF RxSucceeds
  <2> QED
    BY <1>4, <2>1 DEF RxSucceeds, SdrTypeOK
<1>5. CASE TxChipFails
  <2>1. ChipTypeOK'
    BY <1>5, SwitchChipType DEF TxChipFails
  <2> QED
    BY <1>5, <2>1 DEF TxChipFails, SdrTypeOK
<1>6. CASE TxSucceeds
  <2>1. ChipTypeOK'
    BY <1>6, SwitchChipType DEF TxSucceeds
  <2> QED
    BY <1>6, <2>1 DEF TxSucceeds, SdrTypeOK
<1>7. CASE FirstOpen
  <2>1. CASE OpenFails
    BY <1>7, <2>1, OpenFailsType DEF FirstOpen, SdrTypeOK
  <2>2. CASE pcm' = "capture" /\ UNCHANGED <<leaked, failures>>
    BY <1>7, <2>2 DEF FirstOpen, SdrTypeOK, ChipTypeOK, settings
  <2> QED
    BY <1>7, <2>1, <2>2 DEF FirstOpen
<1>8. CASE FirstSwitch
  <2>1. ChipTypeOK'
    BY <1>8, SwitchChipType DEF FirstSwitch
  <2> QED
    BY <1>8, <2>1 DEF FirstSwitch, SdrTypeOK
<1> QED
  BY <1>1, <1>2, <1>3, <1>4, <1>5, <1>6, <1>7, <1>8 DEF SwitchRx, SwitchTx

\* The last of a sequence, and its replacement.
LEMMA LastFacts ==
    ASSUME NEW S, NEW s \in Seq(S), s # <<>>
    PROVE  /\ s[Len(s)] \in S
           /\ \A r \in S : /\ [s EXCEPT ![Len(s)] = r] \in Seq(S)
                           /\ Len([s EXCEPT ![Len(s)] = r]) = Len(s)
                           /\ [s EXCEPT ![Len(s)] = r][Len(s)] = r
                           /\ [s EXCEPT ![Len(s)] = r] # <<>>
<1>1. Len(s) \in Nat \ {0} /\ Len(s) \in DOMAIN s /\ s[Len(s)] \in S
  OBVIOUS
<1>2. ASSUME NEW r \in S
      PROVE  /\ [s EXCEPT ![Len(s)] = r] \in Seq(S)
             /\ Len([s EXCEPT ![Len(s)] = r]) = Len(s)
             /\ [s EXCEPT ![Len(s)] = r][Len(s)] = r
  BY <1>1
<1>3. ASSUME NEW t, Len(t) # 0 PROVE t # <<>>
  BY <1>3
<1> QED
  BY <1>1, <1>2, <1>3

LEMMA GrowsFacts ==
    ASSUME NEW S, NEW s \in Seq(S), NEW x \in S
    PROVE  /\ Append(s, x) # <<>>
           /\ Append(s, x)[Len(Append(s, x))] = x
OBVIOUS

LEMMA HeadFact ==
    ASSUME NEW S, NEW s \in Seq(S), s # <<>>
    PROVE  Head(s) \in S
OBVIOUS

LEMMA TypeInit == Init => TypeInv
<1> SUFFICES ASSUME Init PROVE TypeInv
  OBVIOUS
<1>1. SdrTypeOK
  <2>1. 0 < MaxFrf
    BY SMT DEF MaxFrf
  <2>2. ChipTypeOK
    <3>1. /\ chip = "reset" /\ RXFE1 = 0 /\ TXFE1 = 0 /\ FRF_RX = 0 /\ FRF_TX = 0
          /\ failures = 0
      BY DEF Init, SdrInit, ChipReset
    <3>2. bridge \in BOOLEAN
      BY DEF Init, SdrInit, ChipReset
    <3> QED
      BY <2>1, <3>1, <3>2, MaxFailuresAssumption DEF ChipTypeOK
  <2> QED
    BY <2>2 DEF Init, SdrInit, SdrTypeOK
<1>2. FlagsType
  BY DEF Init, FlagsType, PlacesOfThread
<1>3. QueueType
  BY RadioAssumption DEF Init, QueueType
<1>4. SendingType
  BY RadioAssumption DEF Init, SendingType
<1> QED
  BY <1>1, <1>2, <1>3, <1>4 DEF TypeInv

\* A step that leaves the queue and what was sent alone.
LEMMA TypeStays ==
    ASSUME TypeInv, SdrTypeOK', FlagsType', UNCHANGED <<to_radio, added, left, sent>>,
           pc' = "consume" => to_radio # <<>>,
           pc' = "sending" => pc = "sending"
    PROVE  TypeInv'
<1>1. QueueType'
  BY DEF TypeInv, QueueType
<1>2. SendingType'
  BY DEF TypeInv, SendingType
<1> QED
  BY <1>1, <1>2 DEF TypeInv

LEMMA TypeStep == TypeInv /\ [Next]_vars => TypeInv'
<1> SUFFICES ASSUME TypeInv, [Next]_vars PROVE TypeInv'
  OBVIOUS
<1>0. SdrTypeOK /\ FlagsType /\ QueueType /\ SendingType
  BY DEF TypeInv
<1>a. UNCHANGED sdrVars => SdrTypeOK'
  BY <1>0 DEF sdrVars, settings, SdrTypeOK, ChipTypeOK
<1>b. ASSUME UNCHANGED <<running, channel_bsy, locked>>, pc' \in PlacesOfThread,
             measured' \in {"never", "not yet", "busy", "free"}
      PROVE  FlagsType'
  BY <1>0, <1>b DEF FlagsType
<1>c. measured \in {"never", "not yet", "busy", "free"} /\ pc \in PlacesOfThread
  BY <1>0 DEF FlagsType
<1> USE DEF Goes
<1>1. CASE Construct
  <2>1. SdrTypeOK'
    BY <1>0, <1>1, ConstructType
  <2>2. pc' \in PlacesOfThread \ {"consume", "sending"}
    BY <1>1 DEF Construct, PlacesOfThread, Loop
  <2> QED
    BY <1>b, <1>c, <1>1, <2>1, <2>2, TypeStays DEF Construct
<1>2. CASE FirstReception
  <2>1. SdrTypeOK'
    BY <1>0, <1>2, SwitchType DEF FirstReception
  <2>2. pc' \in PlacesOfThread \ {"consume", "sending"}
    BY <1>2 DEF FirstReception, PlacesOfThread
  <2> QED
    BY <1>b, <1>c, <1>2, <2>1, <2>2, TypeStays DEF FirstReception
<1>3. CASE ToRx
  <2>1. SdrTypeOK'
    BY <1>0, <1>3, SwitchType DEF ToRx
  <2>2. pc' \in PlacesOfThread \ {"consume", "sending"}
    BY <1>3 DEF ToRx, PlacesOfThread, Loop
  <2> QED
    BY <1>b, <1>3, <2>1, <2>2, TypeStays DEF ToRx
<1>4. CASE ToTx
  <2>1. SdrTypeOK'
    BY <1>0, <1>4, SwitchType DEF ToTx
  <2>2. pc' \in PlacesOfThread \ {"consume", "sending"}
    BY <1>4 DEF ToTx, PlacesOfThread, Loop
  <2> QED
    BY <1>b, <1>c, <1>4, <2>1, <2>2, TypeStays DEF ToTx
<1>5. CASE OuterTest \/ RxTest \/ LeaveRx \/ Crash
  <2>1. UNCHANGED <<sdrVars, running, channel_bsy, locked, to_radio, added, left, sent, measured>>
    BY <1>5 DEF OuterTest, RxTest, LeaveRx, Crash
  <2>2. pc' \in PlacesOfThread \ {"consume", "sending"}
    BY <1>5 DEF OuterTest, RxTest, LeaveRx, Crash, PlacesOfThread, Loop
  <2> QED
    BY <1>a, <1>b, <1>c, <2>1, <2>2, TypeStays
<1>6. CASE TxTest
  <2>1. UNCHANGED <<sdrVars, running, channel_bsy, locked, to_radio, added, left, sent, measured>>
    BY <1>6 DEF TxTest
  <2>2. /\ pc' \in PlacesOfThread \ {"sending"}
        /\ pc' = "consume" => to_radio # <<>>
    BY <1>6 DEF TxTest, PlacesOfThread, Loop
  <2> QED
    BY <1>a, <1>b, <1>c, <2>1, <2>2, TypeStays
<1>7. CASE ReceiveSome
  <2>1. PICK lock \in BOOLEAN, energy \in {"busy", "free"} : Receive(lock, energy)
    BY <1>7 DEF ReceiveSome
  <2>2. /\ UNCHANGED <<sdrVars, running, to_radio, added, left, sent>>
        /\ pc' = "rx"
    BY <2>1 DEF Receive
  <2>3. locked' \in BOOLEAN
    BY <1>0, <2>1 DEF Receive, FlagsType
  <2>4. measured' \in {"never", "not yet", "busy", "free"}
    BY <1>c, <2>1 DEF Receive, Measure
  <2>5. channel_bsy' \in BOOLEAN
    BY <1>0, <2>1 DEF Receive, Measure, FlagsType
  <2>6. FlagsType'
    BY <1>0, <2>2, <2>3, <2>4, <2>5 DEF FlagsType, PlacesOfThread, Loop
  <2> QED
    BY <1>a, <2>2, <2>6, TypeStays
<1>8. CASE Sigint
  <2>1. /\ UNCHANGED <<sdrVars, pc, channel_bsy, locked, to_radio, added, left, sent, measured>>
        /\ running' = FALSE
    BY <1>8 DEF Sigint
  <2>2. FlagsType'
    BY <1>0, <2>1 DEF FlagsType
  <2>3. pc' = "consume" => to_radio # <<>>
    BY <1>0, <2>1 DEF QueueType
  <2> QED
    BY <1>a, <2>1, <2>2, <2>3, TypeStays
<1>9. CASE UNCHANGED vars
  BY <1>0, <1>a, <1>b, <1>c, <1>9, TypeStays DEF vars, QueueType
<1>10. CASE Add
  <2>1. /\ UNCHANGED <<sdrVars, running, pc, channel_bsy, locked, left, sent, measured>>
        /\ added < MaxPackets /\ Len(to_radio) < QueueSize
        /\ added' = added + 1 /\ to_radio' = Append(to_radio, added + 1)
    BY <1>10 DEF Add
  <2>2. /\ to_radio \in Seq(1 .. MaxPackets) /\ added \in 0 .. MaxPackets
    BY <1>0 DEF QueueType
  <2>3. added + 1 \in 1 .. MaxPackets
    BY <2>1, <2>2, RadioAssumption
  <2>4. /\ to_radio' \in Seq(1 .. MaxPackets) /\ Len(to_radio') = Len(to_radio) + 1
        /\ to_radio' # <<>>
    BY <2>1, <2>2, <2>3, AppendFacts, GrowsFacts
  <2>5. Len(to_radio') <= QueueSize
    BY <2>1, <2>2, <2>4, RadioAssumption
  <2>6. SdrTypeOK'
    BY <1>a, <2>1
  <2>7. FlagsType'
    BY <1>b, <1>c, <2>1
  <2>8. QueueType'
    BY <2>1, <2>3, <2>4, <2>5 DEF QueueType
  <2>9. SendingType'
    BY <1>0, <2>1 DEF SendingType
  <2> QED
    BY <2>6, <2>7, <2>8, <2>9 DEF TypeInv
<1>11. CASE Consume
  <2>1. /\ UNCHANGED <<sdrVars, running, channel_bsy, locked, added, measured>>
        /\ pc = "consume" /\ pc' = "sending" /\ left' = Blocks
        /\ sent' = Append(sent, [id |-> Head(to_radio), blocks |-> 0])
        /\ to_radio' = Tail(to_radio)
    BY <1>11 DEF Consume
  <2>2. /\ to_radio \in Seq(1 .. MaxPackets) /\ to_radio # <<>>
        /\ Len(to_radio) <= QueueSize
        /\ sent \in Seq(OfPacket)
    BY <1>0, <2>1 DEF QueueType, SendingType
  <2>3. [id |-> Head(to_radio), blocks |-> 0] \in OfPacket
    <3>1. Head(to_radio) \in 1 .. MaxPackets
      BY <2>2, HeadFact
    <3> QED
      BY <3>1, RadioAssumption DEF OfPacket
  <2>4. /\ sent' \in Seq(OfPacket)
        /\ Len(sent') = Len(sent) + 1
        /\ sent'[Len(sent')] = [id |-> Head(to_radio), blocks |-> 0]
        /\ sent' # <<>>
    BY <2>1, <2>2, <2>3, AppendFacts, GrowsFacts
  <2>5. /\ to_radio' \in Seq(1 .. MaxPackets) /\ Len(to_radio') <= QueueSize
    BY <2>1, <2>2, TailFacts, RadioAssumption
  <2>6. SdrTypeOK'
    BY <1>a, <2>1
  <2>7. FlagsType'
    BY <1>b, <1>c, <2>1 DEF PlacesOfThread, Loop
  <2>8. QueueType'
    BY <1>0, <2>1, <2>5 DEF QueueType
  <2>9. SendingType'
    BY <2>1, <2>4, RadioAssumption DEF SendingType
  <2> QED
    BY <2>6, <2>7, <2>8, <2>9 DEF TypeInv
<1>12. CASE SendBlock
  <2>1. /\ UNCHANGED <<sdrVars, running, channel_bsy, locked, to_radio, added, measured>>
        /\ pc = "sending" /\ pc' \in {"sending", "tx"}
        /\ pc' = "sending" => left' > 0
        /\ left' = left - 1
        /\ sent' = IF Transmits THEN [sent EXCEPT ![Len(sent)].blocks = @ + 1] ELSE sent
    BY <1>12 DEF SendBlock
  <2>2. /\ sent \in Seq(OfPacket)
        /\ sent # <<>> /\ left \in 1 .. Blocks
        /\ sent[Len(sent)].blocks + left <= Blocks
    BY <1>0, <2>1 DEF SendingType
  <2>3. /\ sent' \in Seq(OfPacket) /\ Len(sent') = Len(sent) /\ sent' # <<>>
        /\ sent'[Len(sent)].blocks + left' <= Blocks
    <3>0. sent[Len(sent)] \in OfPacket
      BY <2>2, LastFacts
    <3>1. /\ sent[Len(sent)] \in OfPacket
          /\ sent[Len(sent)].blocks \in 0 .. Blocks
      BY <3>0 DEF OfPacket
    <3>2. CASE ~Transmits
      BY <2>1, <2>2, <3>1, <3>2, RadioAssumption
    <3>3. CASE Transmits
      <4>1. PICK r : r = [sent[Len(sent)] EXCEPT !.blocks = @ + 1]
        OBVIOUS
      <4>2. sent[Len(sent)].blocks + 1 \in 0 .. Blocks
        BY <2>2, <3>1, RadioAssumption
      <4>3. r \in OfPacket /\ r.blocks = sent[Len(sent)].blocks + 1
        BY <3>1, <4>1, <4>2 DEF OfPacket
      <4>4. sent' = [sent EXCEPT ![Len(sent)] = r]
        BY <2>1, <3>3, <4>1
      <4>5. /\ sent' \in Seq(OfPacket) /\ Len(sent') = Len(sent)
            /\ sent'[Len(sent)] = r /\ sent' # <<>>
        BY <2>2, <4>3, <4>4, LastFacts
      <4> QED
        BY <2>1, <2>2, <3>1, <4>3, <4>5, RadioAssumption
    <3> QED
      BY <3>2, <3>3
  <2>4. SendingType'
    BY <2>1, <2>2, <2>3, RadioAssumption DEF SendingType
  <2>5. SdrTypeOK'
    BY <1>a, <2>1
  <2>6. FlagsType'
    BY <1>b, <1>c, <2>1 DEF PlacesOfThread, Loop
  <2>7. QueueType'
    BY <1>0, <2>1 DEF QueueType
  <2> QED
    BY <2>4, <2>5, <2>6, <2>7 DEF TypeInv
<1> QED
  BY <1>1, <1>2, <1>3, <1>4, <1>5, <1>6, <1>7, <1>8, <1>9, <1>10, <1>11, <1>12
     DEF Next, ThreadStep

\* The registers of the transceiver stay bytes, no packet gets more blocks than
\* it has, and to_radio is never consumed when it is empty.
THEOREM TypeTheorem == Spec => []TypeOK
<1>1. TypeInv => TypeOK
  BY DEF TypeInv, TypeOK, FlagsType, QueueType, SendingType, OfPacket, PlacesOfThread, Loop
<1> QED
  BY <1>1, TypeInit, TypeStep, PTL DEF Spec
=============================================================================
