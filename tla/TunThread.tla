----------------------------- MODULE TunThread -----------------------------
(***************************************************************************)
(* src/tun_threads.cpp: the thread between the TUN interface and the two   *)
(* queues of the daemon, and to_net_monitor, the helper thread that turns  *)
(* "to_net is not empty" into a readable eventfd so that one pselect can   *)
(* wait for both directions.  The queues are used as BoundedQueue promises *)
(* except for the unlocked isEmpty(), which races with a push or a pop.    *)
(* The radio thread, m17tx_thread and the kernel appear as the thread sees *)
(* them (M17Netd composes it with the first two).  SIGINT clears running   *)
(* at any moment.                                                          *)
(***************************************************************************)
EXTENDS Integers, Sequences, FiniteSets, SequencesExt

CONSTANTS RxPackets,    \* bound: the packets the radio completes, in order, each
                        \* [is_valid, dst, size, specifier, crc_ok]
          Callsign,     \* the station's own callsign
          RxQueueSize,  \* maxSize of to_net
          TxQueueSize,  \* maxSize of from_net
          MaxTun,       \* bound: packets the kernel queues on the interface
          NoPacket      \* a null shared_ptr

ASSUME QueueSizeAssumption == RxQueueSize \in Nat /\ TxQueueSize \in Nat
ASSUME BoundAssumption == /\ RxPackets \in Seq(Range(RxPackets)) /\ MaxTun \in Nat
                          /\ \A body \in Range(RxPackets) : body.size \in Nat

VARIABLES running,      \* the atomic flag of main()
          tun_pc,       \* where tun_thread is
          mon_pc,       \* where to_net_monitor is
          fdset,        \* the descriptors the last pselect found readable
          eventfd,      \* data_avail_fd's counter is not zero
          to_net,       \* queue radio -> tun: packets [id, body]
          push_pc,      \* where the radio thread is in to_net.add()
          pushing,      \* the packet it adds
          to_net_packet,\* the local variable of that name
          tun_in,       \* the kernel's queue on tun_fd: numbers of packets
          from_net_packet,
          from_net,     \* queue tun -> m17tx_thread
          offered,      \* history: packets pushed on to_net
          sent,         \* history: packets written to the interface [id, size]
          lost,         \* history: packets given up before m17tx_thread
          arrived       \* history: number of packets the kernel queued

pushVars == <<to_net, push_pc, pushing, offered>>
netVars  == <<tun_in, from_net, from_net_packet, lost, arrived>>
rxVars   == <<to_net_packet, sent>>
vars == <<running, tun_pc, mon_pc, fdset, eventfd, pushVars, netVars, rxVars>>

RxItem == [id : DOMAIN RxPackets, body : Range(RxPackets)]

Init == /\ running = TRUE
        /\ tun_pc = "loop" /\ mon_pc = "loop"
        /\ fdset = {} /\ eventfd = FALSE
        /\ to_net = <<>> /\ to_net_packet = NoPacket
        /\ push_pc = "idle" /\ pushing = NoPacket
        /\ tun_in = <<>> /\ from_net_packet = NoPacket /\ from_net = <<>>
        /\ offered = <<>> /\ sent = <<>> /\ lost = {}
        /\ arrived = 0

\* The null pointer of get_packet has not ended the process.
Alive == tun_pc # "crashed"

\* to_net's mutex is inside a push of the radio or a pop of this thread.
MutexHeld == push_pc = "push" \/ tun_pc = "pop"

\* What an unlocked to_net.isEmpty() may return.
SeesEmpty == to_net = <<>> \/ MutexHeld

\* A variant that takes the readable eventfd for a proof that there is more.
SeesNonEmpty_Trusts == TRUE

SeesNonEmpty == to_net # <<>> \/ MutexHeld

(***************************************************************************)
(* The environment.                                                        *)
(***************************************************************************)
Sigint == /\ Alive /\ running
          /\ running' = FALSE
          /\ UNCHANGED <<tun_pc, mon_pc, fdset, eventfd, pushVars, netVars, rxVars>>

\* radio_thread calls add() with a complete packet, before or after it could
\* notice the signal; ...
CallAdd ==
    /\ Alive
    /\ push_pc = "idle"
    /\ Len(offered) < Len(RxPackets)
    /\ push_pc' = "lock"
    /\ LET n == Len(offered) + 1 IN pushing' = [id |-> n, body |-> RxPackets[n]]
    /\ UNCHANGED <<running, tun_pc, mon_pc, fdset, eventfd, to_net, offered,
                   netVars, rxVars>>

\* ... takes the mutex and finds room, or gives up after a second; ...
BeginPush ==
    /\ Alive
    /\ push_pc = "lock"
    /\ ~MutexHeld
    /\ push_pc' = IF Len(to_net) < RxQueueSize THEN "push" ELSE "idle"
    /\ UNCHANGED <<running, tun_pc, mon_pc, fdset, eventfd, to_net, pushing,
                   offered, netVars, rxVars>>

\* ... and completes the push.
EndPush ==
    /\ Alive
    /\ push_pc = "push"
    /\ push_pc' = "idle"
    /\ to_net' = Append(to_net, pushing)
    /\ offered' = Append(offered, pushing)
    /\ UNCHANGED <<running, tun_pc, mon_pc, fdset, eventfd, pushing, netVars, rxVars>>

KernelQueues ==
    /\ Alive
    /\ arrived < MaxTun
    /\ arrived' = arrived + 1
    /\ tun_in' = Append(tun_in, arrived + 1)
    /\ UNCHANGED <<running, tun_pc, mon_pc, fdset, eventfd, pushVars, rxVars,
                   from_net, from_net_packet, lost>>

\* m17tx_thread's from_net.consume().
M17txConsumes ==
    /\ Alive
    /\ from_net # <<>>
    /\ from_net' = Tail(from_net)
    /\ UNCHANGED <<running, tun_pc, mon_pc, fdset, eventfd, pushVars, rxVars,
                   tun_in, from_net_packet, lost, arrived>>

(***************************************************************************)
(* tun_thread.                                                             *)
(***************************************************************************)
TunGoes(from, to) == tun_pc = from /\ tun_pc' = to

TestRunning ==
    /\ TunGoes("loop", IF running THEN "select" ELSE "join")
    /\ fdset' = {}
    /\ UNCHANGED <<running, mon_pc, eventfd, pushVars, netVars, rxVars>>

Readable == {fd \in {"tun", "data"} : \/ fd = "tun" /\ tun_in # <<>>
                                      \/ fd = "data" /\ eventfd}

\* pselect returns because a descriptor is readable.
Select ==
    /\ Readable # {}
    /\ fdset' = Readable
    /\ TunGoes("select", IF "tun" \in Readable THEN "get" ELSE "drain")
    /\ UNCHANGED <<running, mon_pc, eventfd, pushVars, netVars, rxVars>>

\* pselect times out after a second, or is interrupted by a signal.
SelectNothing ==
    /\ Readable = {}
    /\ TunGoes("select", "loop")
    /\ fdset' = {}
    /\ UNCHANGED <<running, mon_pc, eventfd, pushVars, netVars, rxVars>>

AfterTun == IF "data" \in fdset THEN "drain" ELSE "loop"

\* get_packet() and the test of the IP version.
GetPacket ==
    /\ tun_pc = "get"
    /\ from_net_packet' = Head(tun_in)
    /\ tun_in' = Tail(tun_in)
    /\ \/ TunGoes("get", "add") /\ UNCHANGED lost
       \/ TunGoes("get", AfterTun) /\ lost' = lost \cup {Head(tun_in)}
    /\ UNCHANGED <<running, mon_pc, fdset, eventfd, pushVars, rxVars,
                   from_net, arrived>>

\* pread fails although the descriptor was readable (EIO once the interface is
\* deleted): get_packet returns a null pointer, which is then dereferenced.
GetPacketFails ==
    /\ TunGoes("get", "crashed")
    /\ from_net_packet' = NoPacket
    /\ UNCHANGED <<running, mon_pc, fdset, eventfd, pushVars, rxVars,
                   tun_in, from_net, lost, arrived>>

\* A variant that puts the packet in front of the queue.
AddToFromNet_Front ==
    /\ Len(from_net) < TxQueueSize
    /\ TunGoes("add", AfterTun)
    /\ from_net' = <<from_net_packet>> \o from_net
    /\ UNCHANGED <<running, mon_pc, fdset, eventfd, pushVars, rxVars,
                   tun_in, from_net_packet, lost, arrived>>

AddToFromNet ==
    /\ Len(from_net) < TxQueueSize
    /\ TunGoes("add", AfterTun)
    /\ from_net' = Append(from_net, from_net_packet)
    /\ UNCHANGED <<running, mon_pc, fdset, eventfd, pushVars, rxVars,
                   tun_in, from_net_packet, lost, arrived>>

\* A variant that waits for room without a deadline.
AddTimesOut_Waits ==
    /\ Len(from_net) > TxQueueSize
    /\ TunGoes("add", AfterTun)
    /\ UNCHANGED <<running, mon_pc, fdset, eventfd, pushVars, rxVars, netVars>>

\* from_net.add() gives up after a second; its result is ignored.
AddTimesOut ==
    /\ Len(from_net) >= TxQueueSize
    /\ TunGoes("add", AfterTun)
    /\ lost' = lost \cup {from_net_packet}
    /\ UNCHANGED <<running, mon_pc, fdset, eventfd, pushVars, rxVars,
                   tun_in, from_net_packet, from_net, arrived>>

\* while(!to_net.isEmpty()), read without the mutex.
DrainMore ==
    /\ SeesNonEmpty
    /\ TunGoes("drain", "consume")
    /\ UNCHANGED <<running, mon_pc, fdset, eventfd, pushVars, netVars, rxVars>>

\* A variant that polls the queue until the daemon stops.
DrainEnds_WhileRunning ==
    /\ SeesEmpty /\ ~running
    /\ TunGoes("drain", "clear")
    /\ UNCHANGED <<running, mon_pc, fdset, eventfd, pushVars, netVars, rxVars>>

DrainEnds ==
    /\ SeesEmpty
    /\ TunGoes("drain", "clear")
    /\ UNCHANGED <<running, mon_pc, fdset, eventfd, pushVars, netVars, rxVars>>

\* to_net.consume(): takes the mutex ...
BeginPop ==
    /\ ~MutexHeld
    /\ TunGoes("consume", "pop")
    /\ UNCHANGED <<running, mon_pc, fdset, eventfd, pushVars, netVars, rxVars>>

\* The chain of tests between consume() and send_packet().
Deliverable(item) ==
    LET p == item.body
    IN  /\ p.is_valid
        /\ p.dst = Callsign
        /\ p.size >= 4 /\ p.specifier = 4
        /\ p.crc_ok

\* The type specifier and the CRC are removed.
Stripped(item) == [id |-> item.id, size |-> item.body.size - 3]

\* ... and pops.  On a timeout the local keeps its previous value, and the
\* result of consume() is ignored: whatever the local holds is examined.
PopAndExamine ==
    /\ TunGoes("pop", "drain")
    /\ to_net_packet' = IF to_net = <<>> THEN to_net_packet ELSE Head(to_net)
    /\ to_net' = IF to_net = <<>> THEN to_net ELSE Tail(to_net)
    /\ sent' = IF Deliverable(to_net_packet')
                 THEN Append(sent, Stripped(to_net_packet')) ELSE sent
    /\ UNCHANGED <<running, mon_pc, fdset, eventfd, push_pc, pushing, offered, netVars>>

\* read(data_avail_fd): resets the counter, whoever raised it and when.
ClearEventfd ==
    /\ TunGoes("clear", "loop")
    /\ eventfd' = FALSE
    /\ UNCHANGED <<running, mon_pc, fdset, pushVars, netVars, rxVars>>

Join ==
    /\ mon_pc = "done"
    /\ TunGoes("join", "done")
    /\ UNCHANGED <<running, mon_pc, fdset, eventfd, pushVars, netVars, rxVars>>

TunStep == \/ TestRunning \/ Select \/ SelectNothing
           \/ GetPacket \/ AddToFromNet \/ AddTimesOut
           \/ DrainMore \/ DrainEnds \/ BeginPop \/ PopAndExamine
           \/ ClearEventfd \/ Join

(***************************************************************************)
(* to_net_monitor.                                                         *)
(***************************************************************************)
MonGoes(from, to) ==
    /\ Alive
    /\ mon_pc = from
    /\ mon_pc' = to
    /\ UNCHANGED <<running, tun_pc, fdset, pushVars, netVars, rxVars>>

MonTestRunning ==
    /\ MonGoes("loop", IF running THEN "wait" ELSE "done")
    /\ UNCHANGED eventfd

\* wait_for_non_empty, which takes the mutex: true, or false after a second.
MonWaits ==
    /\ ~MutexHeld
    /\ MonGoes("wait", IF to_net = <<>> THEN "loop" ELSE "write")
    /\ UNCHANGED eventfd

MonWrites ==
    /\ MonGoes("write", "spin")
    /\ eventfd' = TRUE

\* while(!to_net.isEmpty()) usleep(100): another round changes nothing.
MonStopsSpinning ==
    /\ SeesEmpty
    /\ MonGoes("spin", "loop")
    /\ UNCHANGED eventfd

MonStep == MonTestRunning \/ MonWaits \/ MonWrites \/ MonStopsSpinning

(***************************************************************************)
(* Specification.  Fairness: the scheduler runs both threads, a second     *)
(* always passes, and a push that holds the mutex ends.  A thread that     *)
(* sees a race again and again may lose it for ever, hence weak fairness.  *)
(* Nothing obliges the radio, the kernel or the user to do anything.       *)
(***************************************************************************)
Next == \/ TunStep \/ MonStep \/ GetPacketFails
        \/ Sigint \/ CallAdd \/ BeginPush \/ EndPush \/ KernelQueues \/ M17txConsumes

Spec == Init /\ [][Next]_vars

FairSpec == /\ Spec
            /\ WF_vars(TunStep)
            /\ WF_vars(MonStep)
            /\ WF_vars(BeginPush \/ EndPush)

(***************************************************************************)
(* Properties.                                                             *)
(***************************************************************************)
TypeOK ==
    /\ running \in BOOLEAN /\ eventfd \in BOOLEAN
    /\ tun_pc \in {"loop", "select", "get", "add", "drain", "consume", "pop",
                   "clear", "join", "done", "crashed"}
    /\ mon_pc \in {"loop", "wait", "write", "spin", "done"}
    /\ push_pc \in {"idle", "lock", "push"}
    /\ fdset \subseteq {"tun", "data"}
    /\ to_net \in Seq(RxItem) /\ offered \in Seq(RxItem)
    /\ pushing \in RxItem \cup {NoPacket}
    /\ to_net_packet \in RxItem \cup {NoPacket}
    /\ tun_in \in Seq(1 .. MaxTun) /\ from_net \in Seq(1 .. MaxTun)
    /\ from_net_packet \in (1 .. MaxTun) \cup {NoPacket}
    /\ lost \subseteq 1 .. MaxTun /\ arrived \in 0 .. MaxTun
    /\ sent \in Seq([id : DOMAIN RxPackets, size : Int])

\* Radio to network: to_net is what is left of the packets pushed on it, and
\* of those taken from it exactly the ones that pass the tests were sent to the
\* interface, each once and in order.  It holds although isEmpty() is read
\* without the mutex and the result of consume() is ignored: no stale
\* to_net_packet is ever examined again.
ReceivePathExact ==
    LET taken == Len(offered) - Len(to_net)
    IN  /\ to_net = SubSeq(offered, taken + 1, Len(offered))
        /\ \A i, j \in DOMAIN sent : i < j => sent[i].id < sent[j].id
        /\ Range(sent) = {Stripped(offered[k]) :
                             k \in {i \in 1 .. taken : Deliverable(offered[i])}}

\* "Check if we can either read from tun or if data is available": packets
\* waiting in to_net are eventually consumed while the daemon runs.
ReceiveSideServed ==
    to_net # <<>> ~> (to_net = <<>> \/ ~running \/ ~Alive)

\* "Wait for threads to terminate": after SIGINT both threads end.
ThreadsTerminate == ~running ~> (tun_pc = "done" \/ ~Alive)
=============================================================================
