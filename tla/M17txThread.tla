---------------------------- MODULE M17txThread ----------------------------
(***************************************************************************)
(* src/m17tx_thread.cpp: the loop that takes the IP packets of from_net,   *)
(* finds the callsign their destination is routed to and adds an M17       *)
(* packet to to_radio.  Both queues are used as BoundedQueue promises.     *)
(* What the look-up finds is RouteTable's subject and any outcome here.    *)
(***************************************************************************)
EXTENDS Integers, Sequences

CONSTANTS TxQueueSize,  \* maxSize of to_radio (the same setting as from_net's)
          Mtu,          \* the MTU of the interface, any value of the configuration
          NoPacket

VARIABLES running,      \* the atomic flag of main()
          from_net,     \* queue tun -> m17tx_thread: numbers of packets
          to_radio,     \* queue m17tx_thread -> radio
          m17_pc,       \* where the thread is
          raw,          \* the local variable of that name, null outside a round
          forgotten     \* history: packets without a route, or refused by to_radio

m17txVars == <<m17_pc, raw, forgotten>>

MaxPayload == 822       \* the most a packet superframe contains

M17txInit == m17_pc = "loop" /\ raw = NoPacket /\ forgotten = {}

Goes(from, to) == m17_pc = from /\ m17_pc' = to

TestRunning ==
    /\ Goes("loop", IF running THEN "consume" ELSE "done")
    /\ UNCHANGED <<running, from_net, to_radio, raw, forgotten>>

\* from_net.consume() returns -1 after a second.
ConsumeTimesOut ==
    /\ from_net = <<>>
    /\ Goes("consume", "loop")
    /\ UNCHANGED <<running, from_net, to_radio, raw, forgotten>>

\* A variant that looks at the packet and leaves it in the queue.
ConsumeRouted_Peeks ==
    /\ from_net # <<>>
    /\ Goes("consume", "add")
    /\ raw' = Head(from_net)
    /\ UNCHANGED <<running, from_net, to_radio, forgotten>>

\* A packet, and callsign_map.find(): a route ...
ConsumeRouted ==
    /\ from_net # <<>>
    /\ Goes("consume", "add")
    /\ raw' = Head(from_net)
    /\ from_net' = Tail(from_net)
    /\ UNCHANGED <<running, to_radio, forgotten>>

\* ... but the constructor of m17tx_pkt throws and nobody catches; ...
ConsumeTooLong ==
    /\ from_net # <<>>
    /\ Mtu > MaxPayload
    /\ Goes("consume", "threw")
    /\ raw' = Head(from_net)
    /\ from_net' = Tail(from_net)
    /\ UNCHANGED <<running, to_radio, forgotten>>

\* ... or no route: a message.
ConsumeNoRoute ==
    /\ from_net # <<>>
    /\ Goes("consume", "loop")
    /\ forgotten' = forgotten \cup {Head(from_net)}
    /\ from_net' = Tail(from_net)
    /\ UNCHANGED <<running, to_radio, raw>>

AddToRadio ==
    /\ Len(to_radio) < TxQueueSize
    /\ Goes("add", "loop")
    /\ to_radio' = Append(to_radio, raw)
    /\ raw' = NoPacket
    /\ UNCHANGED <<running, from_net, forgotten>>

\* A variant that tries again until there is room.
AddTimesOut_Retries ==
    /\ Len(to_radio) >= TxQueueSize
    /\ Goes("add", "add")
    /\ UNCHANGED <<running, from_net, to_radio, raw, forgotten>>

\* A variant that puts the refused packet back for later.
AddTimesOut_Requeues ==
    /\ Len(to_radio) >= TxQueueSize
    /\ Goes("add", "loop")
    /\ from_net' = Append(from_net, raw)
    /\ raw' = NoPacket
    /\ UNCHANGED <<running, to_radio, forgotten>>

\* to_radio.add() gives up after a second; its result is ignored.
AddTimesOut ==
    /\ Len(to_radio) >= TxQueueSize
    /\ Goes("add", "loop")
    /\ forgotten' = forgotten \cup {raw}
    /\ raw' = NoPacket
    /\ UNCHANGED <<running, from_net, to_radio>>

M17txStep == \/ TestRunning
             \/ ConsumeTimesOut \/ ConsumeRouted \/ ConsumeTooLong \/ ConsumeNoRoute
             \/ AddToRadio \/ AddTimesOut
=============================================================================
