---------------------------- MODULE RadioThread ----------------------------
(***************************************************************************)
(* src/radio_thread.cpp: the thread that owns the radio.  It sets the      *)
(* radio up, then receives and measures the channel until there is a       *)
(* packet to send and the channel was last seen free; it sends what is in  *)
(* to_radio and returns to reception.  The demodulator appears by          *)
(* isLocked(), the channel by the outcome of each measurement, both chosen *)
(* by the environment; what is received is PacketLink's subject.  to_radio *)
(* is used as BoundedQueue promises: with a single consumer an unlocked    *)
(* isEmpty() that races with a push answers as if it came before or after. *)
(***************************************************************************)
EXTENDS Sdrnode

CONSTANTS MaxPackets,   \* bound: packets m17tx_thread adds
          Blocks,       \* blocks of 128 samples in a packet's baseband
          QueueSize     \* maxSize of to_radio

ASSUME RadioAssumption == /\ MaxPackets \in Nat /\ QueueSize \in Nat
                          /\ Blocks \in Nat \ {0}

VARIABLES running,      \* the flag of main()
          pc,           \* where the thread is
          channel_bsy,
          locked,       \* demodulator.isLocked()
          to_radio,     \* the queue: numbers of packets
          added,        \* how many packets were added
          left,         \* blocks left of the packet being sent
          sent,         \* history: [id, blocks] of every packet consumed
          measured      \* history: last energy measured since the last switch_rx()

vars == <<sdrVars, running, pc, channel_bsy, locked, to_radio, added, left, sent, measured>>

Init == /\ SdrInit
        /\ running = TRUE /\ pc = "init"
        /\ channel_bsy = TRUE /\ locked = FALSE
        /\ to_radio = <<>> /\ added = 0
        /\ left = 0 /\ sent = <<>>
        /\ measured = "never"

(***************************************************************************)
(* The environment.                                                        *)
(***************************************************************************)
Alive == pc # "crashed"

Sigint == /\ Alive /\ running
          /\ running' = FALSE
          /\ UNCHANGED <<sdrVars, pc, channel_bsy, locked, to_radio, added, left, sent, measured>>

\* m17tx_thread's to_radio.add() succeeds.
Add == /\ Alive
       /\ added < MaxPackets
       /\ Len(to_radio) < QueueSize
       /\ added' = added + 1
       /\ to_radio' = Append(to_radio, added + 1)
       /\ UNCHANGED <<sdrVars, running, pc, channel_bsy, locked, left, sent, measured>>

(***************************************************************************)
(* The thread.                                                             *)
(***************************************************************************)
Goes(from, to) == pc = from /\ pc' = to

\* The constructor of sdrnode and the gains of the configuration, with the
\* results ignored.
Construct ==
    /\ \/ Goes("init", "set_rx_freq") /\ InitChip
       \/ Goes("set_rx_freq", "set_tx_freq") /\ SetRxFreq(RxFrequency)
       \/ Goes("set_tx_freq", "set_lna") /\ SetTxFreq(TxFrequency)
       \/ Goes("set_lna", "set_mix") /\ SetLnaGain(5)
       \/ Goes("set_mix", "open") /\ SetTxMixGain(12)
       \/ Goes("set_rx_gain", "set_tx_gain") /\ SetLnaGain(LnaGain)
       \/ Goes("set_tx_gain", "outer") /\ SetTxMixGain(MixGain)
    /\ UNCHANGED <<pcm, pa, tx_nRx, leaked, running, channel_bsy, locked, to_radio, added, left, sent, measured>>

FirstReception ==
    /\ \/ Goes("open", "first_switch") /\ FirstOpen
       \/ Goes("first_switch", "set_rx_gain") /\ FirstSwitch
    /\ UNCHANGED <<running, channel_bsy, locked, to_radio, added, left, sent, measured>>

OuterTest ==
    /\ Goes("outer", IF running THEN "switch_rx" ELSE "end")
    /\ UNCHANGED <<sdrVars, running, channel_bsy, locked, to_radio, added, left, sent, measured>>

\* radio.switch_rx(), its result ignored.
ToRx ==
    /\ Goes("switch_rx", "rx")
    /\ SwitchRx
    /\ measured' = "not yet"
    /\ UNCHANGED <<running, channel_bsy, locked, to_radio, added, left, sent>>

\* A variant that does not look at the channel.
RxTest_Always ==
    /\ Goes("rx", IF running /\ to_radio = <<>> THEN "receive" ELSE "leave_rx")
    /\ UNCHANGED <<sdrVars, running, channel_bsy, locked, to_radio, added, left, sent, measured>>

\* A variant that does not look at the flag.
RxTest_NoRunning ==
    /\ Goes("rx", IF to_radio = <<>> \/ channel_bsy THEN "receive" ELSE "leave_rx")
    /\ UNCHANGED <<sdrVars, running, channel_bsy, locked, to_radio, added, left, sent, measured>>

\* A variant that leaves for a signal only.
RxTest_NeverFree ==
    /\ Goes("rx", IF running THEN "receive" ELSE "leave_rx")
    /\ UNCHANGED <<sdrVars, running, channel_bsy, locked, to_radio, added, left, sent, measured>>

RxTest ==
    /\ Goes("rx", IF running /\ (to_radio = <<>> \/ channel_bsy)
                    THEN "receive" ELSE "leave_rx")
    /\ UNCHANGED <<sdrVars, running, channel_bsy, locked, to_radio, added, left, sent, measured>>

\* The energy is measured only when the demodulator is not locked, even when
\* no sample was read.
Measure(energy) ==
    IF locked' THEN UNCHANGED <<channel_bsy, measured>>
    ELSE /\ measured' = energy
         /\ channel_bsy' = (energy = "busy")

\* One round of the receive loop.
Receive(lock, energy) ==
    /\ ~UsesNull(FALSE)
    /\ Goes("receive", "rx")
    /\ locked' = IF Receives THEN lock ELSE locked
    /\ Measure(energy)
    /\ UNCHANGED <<sdrVars, running, to_radio, added, left, sent>>

\* snd_pcm_readi or snd_pcm_writei on a null handle.
Crash ==
    /\ \/ UsesNull(FALSE) /\ Goes("receive", "crashed")
       \/ UsesNull(TRUE)  /\ Goes("sending", "crashed")
    /\ UNCHANGED <<sdrVars, running, channel_bsy, locked, to_radio, added, left, sent, measured>>

LeaveRx ==
    /\ Goes("leave_rx", IF running THEN "switch_tx" ELSE "tx")
    /\ UNCHANGED <<sdrVars, running, channel_bsy, locked, to_radio, added, left, sent, measured>>

\* radio.switch_tx(), its result ignored.
ToTx ==
    /\ Goes("switch_tx", "tx")
    /\ SwitchTx
    /\ UNCHANGED <<running, channel_bsy, locked, to_radio, added, left, sent, measured>>

\* A variant that takes for granted that there is a packet.
TxTest_IgnoresQueue ==
    /\ Goes("tx", IF running THEN "consume" ELSE "outer")
    /\ UNCHANGED <<sdrVars, running, channel_bsy, locked, to_radio, added, left, sent, measured>>

TxTest ==
    /\ Goes("tx", IF running /\ to_radio # <<>> THEN "consume" ELSE "outer")
    /\ UNCHANGED <<sdrVars, running, channel_bsy, locked, to_radio, added, left, sent, measured>>

\* to_radio.consume(): nobody else empties the queue, so it succeeds.
Consume ==
    /\ Goes("consume", "sending")
    /\ left' = Blocks
    /\ sent' = Append(sent, [id |-> Head(to_radio), blocks |-> 0])
    /\ to_radio' = Tail(to_radio)
    /\ UNCHANGED <<sdrVars, running, channel_bsy, locked, added, measured>>

\* A variant that stops one block early.
SendBlock_StopsEarly ==
    /\ ~UsesNull(TRUE)
    /\ left' = left - 1
    /\ Goes("sending", IF running /\ left' > 1 THEN "sending" ELSE "tx")
    /\ sent' = IF Transmits THEN [sent EXCEPT ![Len(sent)].blocks = @ + 1] ELSE sent
    /\ UNCHANGED <<sdrVars, running, channel_bsy, locked, to_radio, added, measured>>

\* One round of do { ... } while(running && samples_left() > 0).
SendBlock ==
    /\ ~UsesNull(TRUE)
    /\ left' = left - 1
    /\ Goes("sending", IF running /\ left' > 0 THEN "sending" ELSE "tx")
    /\ sent' = IF Transmits THEN [sent EXCEPT ![Len(sent)].blocks = @ + 1] ELSE sent
    /\ UNCHANGED <<sdrVars, running, channel_bsy, locked, to_radio, added, measured>>

ReceiveSome == \E lock \in BOOLEAN, energy \in {"busy", "free"} : Receive(lock, energy)

ThreadStep == \/ Construct \/ FirstReception \/ OuterTest \/ ToRx \/ RxTest \/ ReceiveSome \/ LeaveRx
              \/ ToTx \/ TxTest \/ Consume \/ SendBlock \/ Crash

Next == ThreadStep \/ Sigint \/ Add

Spec == Init /\ [][Next]_vars

(***************************************************************************)
(* Fairness: the scheduler runs the thread and the sound device delivers   *)
(* blocks.  The other stations stop sometimes: while the thread receives   *)
(* there is again and again a block without lock on a free channel (a dead *)
(* signal holds the lock for a few frames only, see DeadSignalBounded).    *)
(***************************************************************************)
FairSpec == /\ Spec
            /\ WF_vars(ThreadStep)
            /\ SF_vars(Receive(FALSE, "free"))

(***************************************************************************)
(* Properties.                                                             *)
(***************************************************************************)
TypeOK ==
    /\ SdrTypeOK
    /\ running \in BOOLEAN /\ channel_bsy \in BOOLEAN /\ locked \in BOOLEAN
    /\ pc \in {"init", "set_rx_freq", "set_tx_freq", "set_lna", "set_mix", "open",
               "first_switch", "set_rx_gain", "set_tx_gain", "outer", "switch_rx", "rx", "receive", "leave_rx", "switch_tx",
               "tx", "consume", "sending", "end", "crashed"}
    /\ to_radio \in Seq(1 .. MaxPackets) /\ Len(to_radio) <= QueueSize
    /\ added \in 0 .. MaxPackets
    /\ left \in 0 .. Blocks
    /\ sent \in Seq([id : 1 .. MaxPackets, blocks : 0 .. Blocks])
    /\ measured \in {"never", "not yet", "busy", "free"}
    /\ pc = "consume" => to_radio # <<>>

\* The thread never turns the transmitter on when the last it measured, in
\* this spell of reception, is a busy channel, however the demodulator locked
\* and unlocked since.
NeverOverBusy == pc \in {"switch_tx", "consume", "sending"} => measured # "busy"

\* As long as the hardware does not fail the parts of the radio agree: samples
\* are read only from a radio wholly in reception, and written only to one
\* wholly in transmission, and the transceiver's registers hold the settings of
\* the configuration and nothing but them.
PartsAgree ==
    failures = 0 =>
        /\ pc \in {"rx", "receive"} => /\ pcm = "capture" /\ ~tx_nRx
                                       /\ chip = "rx" /\ ~pa /\ Configured
        /\ pc \in {"consume", "sending"} => /\ pcm = "playback" /\ tx_nRx
                                            /\ chip = "tx" /\ pa /\ Configured

\* Packets are sent in order, each once and whole; only a signal or a failure
\* of the radio cuts one short.
SentWhole ==
    /\ \A i \in DOMAIN sent : sent[i].id = i
    /\ running /\ failures = 0 =>
          \A i \in DOMAIN sent :
              sent[i].blocks = Blocks - (IF pc = "sending" /\ i = Len(sent)
                                           THEN left ELSE 0)

\* Once the radio has received, the thread survives any one failure: whichever
\* switch failed, the next receive() or transmit() is one that tx_nRx disables.
\* A leaked handle is not one failure but makes others.
SurvivesOneFailure ==
    pc = "crashed" => failures > 1 \/ leaked \/ (measured = "not yet" /\ sent = <<>>)

\* A packet in the queue is sent, if the daemon is neither stopped nor crashed:
\* a switch that failed may lose what is sent but does not stall the queue.
QueueServed == to_radio # <<>> ~> (pc = "consume" \/ ~running \/ ~Alive)

\* SIGINT ends the thread from wherever it is.
LoopEnds == ~running ~> (pc = "end" \/ ~Alive)

\* Whatever the hardware does, the thread is to the others what M17Netd
\* composes them with.
Side == INSTANCE RadioSide WITH
            radio_pc <- IF pc \in {"receive", "consume", "sending", "end", "crashed"}
                          THEN pc ELSE "rx",
            fetched <- [i \in DOMAIN sent |-> sent[i].id]

ImplementsRadioSide == Side!Spec
=============================================================================
