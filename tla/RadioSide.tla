----------------------------- MODULE RadioSide -----------------------------
(***************************************************************************)
(* What the rest of the daemon sees of the radio thread: it looks at       *)
(* to_radio and at running, and pushes packets while it receives.  When    *)
(* the channel is free, what the demodulator hears and how the hardware    *)
(* behaves is left open.  RadioThread, which has all of that, implements   *)
(* this specification; M17Netd composes it with the other threads.         *)
(***************************************************************************)
EXTENDS Integers, Sequences

CONSTANT Blocks         \* blocks of samples in a packet's baseband

VARIABLES running,      \* the atomic flag of main()
          to_radio,     \* queue m17tx_thread -> radio: numbers of packets
          radio_pc,     \* where the thread is; "rx" is all between two of its calls
          left,         \* blocks left of the packet fetched last
          fetched       \* history: the packets consumed

radioVars == <<radio_pc, left, fetched>>

\* A device other than "sdrnode" ends the thread before its loop.
RadioInit == radio_pc \in {"rx", "end"} /\ left = 0 /\ fetched = <<>>

Goes(from, to) == radio_pc = from /\ radio_pc' = to

\* The channel is busy or there is nothing to send: another block.
Listens == /\ running
           /\ Goes("rx", "receive")
           /\ UNCHANGED <<running, to_radio, left, fetched>>

\* A block that completes no packet, or one that does: from_radio.add() is
\* called and returns.
HearsNone == /\ Goes("receive", "rx")
             /\ UNCHANGED <<running, to_radio, left, fetched>>

HearsPacket == /\ Goes("receive", "add")
               /\ UNCHANGED <<running, to_radio, left, fetched>>

AddReturns == /\ Goes("add", "rx")
              /\ UNCHANGED <<running, to_radio, left, fetched>>

\* while(running && !to_radio.isEmpty()), on the way from reception or after
\* a packet: there is one, ...
TxTest == /\ running /\ to_radio # <<>>
          /\ Goes("rx", "consume")
          /\ UNCHANGED <<running, to_radio, left, fetched>>

\* ... and a signal may come before it is taken.
Consume == /\ Goes("consume", "sending")
           /\ left' = Blocks
           /\ fetched' = Append(fetched, Head(to_radio))
           /\ to_radio' = Tail(to_radio)
           /\ UNCHANGED running

\* A variant that does not look at what is left.
SendBlock_NoEnd == /\ left' = left - 1
                   /\ Goes("sending", IF running THEN "sending" ELSE "rx")
                   /\ UNCHANGED <<running, to_radio, fetched>>

SendBlock == /\ left' = left - 1
             /\ Goes("sending", IF running /\ left' > 0 THEN "sending" ELSE "rx")
             /\ UNCHANGED <<running, to_radio, fetched>>

\* Each of the loops ends on the signal.
Ends == /\ ~running
        /\ Goes("rx", "end")
        /\ UNCHANGED <<running, to_radio, left, fetched>>

\* A null handle of the sound device.
Crash == /\ Goes("receive", "crashed") \/ Goes("sending", "crashed")
         /\ UNCHANGED <<running, to_radio, left, fetched>>

RadioStep == \/ Listens \/ HearsNone \/ TxTest \/ Consume \/ SendBlock
             \/ Ends \/ Crash

(***************************************************************************)
(* The thread among others that add packets and may clear running.         *)
(***************************************************************************)
OthersStep == /\ \/ running' = FALSE /\ UNCHANGED to_radio
                 \/ /\ \E i \in DOMAIN to_radio' : to_radio' = Append(to_radio, to_radio'[i])
                    /\ UNCHANGED running
              /\ UNCHANGED radioVars

Init == running = TRUE /\ to_radio = <<>> /\ RadioInit

Next == RadioStep \/ HearsPacket \/ AddReturns \/ OthersStep

Spec == Init /\ [][Next]_<<running, to_radio, radioVars>>
=============================================================================
