--------------------------- MODULE M17Netd_proofs ---------------------------
(***************************************************************************)
(* Proofs about the daemon, for all packets, queue sizes, bounds and       *)
(* interleavings: first tun_thread in any environment (TunThread), then    *)
(* that the other threads are such an environment, and what follows for    *)
(* the packets between the interface and the radio.                        *)
(***************************************************************************)
EXTENDS M17Netd, SequenceTheorems, TLAPS

(***************************************************************************)
(* The receive direction of tun_thread.                                    *)
(***************************************************************************)
Outgoing == {Stripped(item) : item \in RxItem}

Taken == Len(offered) - Len(to_net)

(***************************************************************************)
(* The inductive invariant.  Only tun_thread takes from to_net and it goes *)
(* to consume() only after an isEmpty() that was false, or raced with a    *)
(* push that completes before consume() gets the mutex: when it pops there *)
(* is a packet.                                                            *)
(***************************************************************************)
PopFindsPacket ==
    /\ tun_pc = "consume" => to_net # <<>> \/ push_pc = "push"
    /\ tun_pc = "pop" => to_net # <<>> /\ push_pc # "push"

QueueTyped == /\ offered \in Seq(RxItem) /\ to_net \in Seq(RxItem)
              /\ Len(to_net) <= Len(offered)

OfferedInOrder ==
    /\ \A i \in 1 .. Len(offered) : offered[i].id = i
    /\ push_pc # "idle" => pushing \in RxItem /\ pushing.id = Len(offered) + 1

QueueIsRest == \A j \in 1 .. Len(to_net) : to_net[j] = offered[Taken + j]

SentInOrder == \A i, j \in 1 .. Len(sent) : i < j => sent[i].id < sent[j].id

Comes(packet, n) == \E k \in 1 .. n : packet = Stripped(offered[k]) /\ Deliverable(offered[k])

SentFromTaken == \A i \in 1 .. Len(sent) : Comes(sent[i], Taken)

IsSent(packet) == \E i \in 1 .. Len(sent) : sent[i] = packet

TakenAreSent == \A k \in 1 .. Taken : Deliverable(offered[k]) => IsSent(Stripped(offered[k]))

SentMatches == /\ sent \in Seq(Outgoing)
               /\ SentInOrder /\ SentFromTaken /\ TakenAreSent

ReceiveInv == PopFindsPacket /\ QueueTyped /\ OfferedInOrder /\ QueueIsRest /\ SentMatches

LEMMA PacketIds == DOMAIN RxPackets = 1 .. Len(RxPackets) /\ Len(RxPackets) \in Nat
BY BoundAssumption

LEMMA ReceiveInit == Init => ReceiveInv
BY DEF Init, ReceiveInv, PopFindsPacket, QueueTyped, OfferedInOrder, QueueIsRest,
       SentMatches, SentInOrder, SentFromTaken, TakenAreSent, Comes, IsSent, Taken

\* What neither pushes, pops nor sends.
LEMMA QueueUntouched ==
    ASSUME ReceiveInv, UNCHANGED <<to_net, offered, sent, pushing>>, PopFindsPacket',
           push_pc' \in {push_pc, "idle"} \/ (push_pc # "idle" /\ push_pc' = "push")
    PROVE  ReceiveInv'
BY DEF ReceiveInv, QueueTyped, OfferedInOrder, QueueIsRest, SentMatches, SentInOrder,
       SentFromTaken, TakenAreSent, Comes, IsSent, Taken

LEMMA CallAddStep ==
    ASSUME ReceiveInv, CallAdd
    PROVE  ReceiveInv'
<1>1. /\ push_pc = "idle" /\ push_pc' = "lock" /\ Len(offered) < Len(RxPackets)
      /\ pushing' = [id |-> Len(offered) + 1, body |-> RxPackets[Len(offered) + 1]]
      /\ UNCHANGED <<to_net, offered, sent, tun_pc>>
  BY DEF CallAdd, rxVars
<1>2. Len(offered) + 1 \in DOMAIN RxPackets
  BY <1>1, PacketIds DEF ReceiveInv, QueueTyped
<1>3. RxPackets[Len(offered) + 1] \in Range(RxPackets)
  BY <1>2 DEF Range
<1>4. pushing' \in RxItem /\ pushing'.id = Len(offered) + 1
  BY <1>1, <1>2, <1>3 DEF RxItem
<1>5. PopFindsPacket' /\ QueueTyped' /\ QueueIsRest' /\ SentMatches'
  BY <1>1 DEF ReceiveInv, PopFindsPacket, QueueTyped, QueueIsRest, SentMatches, SentInOrder,
               SentFromTaken, TakenAreSent, Comes, IsSent, Taken
<1>6. OfferedInOrder'
  BY <1>1, <1>4 DEF ReceiveInv, OfferedInOrder
<1> QED
  BY <1>5, <1>6 DEF ReceiveInv

LEMMA EndPushStep ==
    ASSUME ReceiveInv, EndPush
    PROVE  ReceiveInv'
<1>1. /\ push_pc = "push" /\ push_pc' = "idle"
      /\ to_net' = Append(to_net, pushing) /\ offered' = Append(offered, pushing)
      /\ UNCHANGED <<sent, tun_pc>>
  BY DEF EndPush, rxVars
<1>2. /\ offered \in Seq(RxItem) /\ to_net \in Seq(RxItem) /\ Len(to_net) <= Len(offered)
      /\ Len(offered) \in Nat /\ Len(to_net) \in Nat
      /\ pushing \in RxItem /\ pushing.id = Len(offered) + 1
  BY <1>1 DEF ReceiveInv, QueueTyped, OfferedInOrder
<1>3. /\ to_net' \in Seq(RxItem) /\ Len(to_net') = Len(to_net) + 1
      /\ to_net'[Len(to_net) + 1] = pushing
      /\ \A j \in 1 .. Len(to_net) : to_net'[j] = to_net[j]
  BY <1>1, <1>2, AppendProperties
<1>4. /\ offered' \in Seq(RxItem) /\ Len(offered') = Len(offered) + 1
      /\ offered'[Len(offered) + 1] = pushing
      /\ \A j \in 1 .. Len(offered) : offered'[j] = offered[j]
  BY <1>1, <1>2, AppendProperties
<1>5. Taken' = Taken /\ Taken \in Nat /\ Taken + Len(to_net) = Len(offered)
  BY <1>2, <1>3, <1>4 DEF Taken
<1>6. PopFindsPacket' /\ QueueTyped'
  BY <1>1, <1>2, <1>3, <1>4 DEF ReceiveInv, PopFindsPacket, QueueTyped
<1>7. OfferedInOrder'
  BY <1>1, <1>2, <1>4 DEF ReceiveInv, OfferedInOrder
<1>8. QueueIsRest'
  <2> SUFFICES ASSUME NEW j \in 1 .. (Len(to_net) + 1)
               PROVE  to_net'[j] = offered'[Taken + j]
    BY <1>3, <1>5 DEF QueueIsRest
  <2>1. CASE j = Len(to_net) + 1
    BY <1>2, <1>3, <1>4, <1>5, <2>1
  <2>2. CASE j \in 1 .. Len(to_net)
    <3>1. Taken + j \in 1 .. Len(offered)
      BY <1>2, <1>5, <2>2
    <3> QED
      BY <1>3, <1>4, <2>2, <3>1 DEF ReceiveInv, QueueIsRest
  <2> QED
    BY <1>2, <2>1, <2>2
<1>9. SentMatches'
  <2>1. \A k \in 1 .. Taken : offered'[k] = offered[k]
    BY <1>2, <1>4, <1>5
  <2>2. sent' = sent /\ Taken' = Taken
    BY <1>1, <1>5
  <2>3. SentFromTaken'
    BY <2>1, <2>2 DEF ReceiveInv, SentMatches, SentFromTaken, Comes
  <2>4. TakenAreSent'
    BY <2>1, <2>2 DEF ReceiveInv, SentMatches, TakenAreSent, IsSent
  <2> QED
    BY <2>2, <2>3, <2>4 DEF ReceiveInv, SentMatches, SentInOrder
<1> QED
  BY <1>6, <1>7, <1>8, <1>9 DEF ReceiveInv

LEMMA PopStep ==
    ASSUME ReceiveInv, PopAndExamine
    PROVE  ReceiveInv'
<1> DEFINE item == Head(to_net)
<1>1. /\ tun_pc = "pop" /\ tun_pc' = "drain" /\ to_net # <<>>
      /\ to_net' = Tail(to_net)
      /\ sent' = IF Deliverable(item) THEN Append(sent, Stripped(item)) ELSE sent
      /\ UNCHANGED <<offered, push_pc, pushing>>
  BY DEF PopAndExamine, TunGoes, ReceiveInv, PopFindsPacket
<1>2. /\ offered \in Seq(RxItem) /\ to_net \in Seq(RxItem) /\ Len(to_net) <= Len(offered)
      /\ Len(offered) \in Nat /\ Len(to_net) \in Nat \ {0}
      /\ Taken \in Nat /\ Taken + Len(to_net) = Len(offered)
  BY <1>1, EmptySeq DEF ReceiveInv, QueueTyped, Taken
<1>3. /\ to_net' \in Seq(RxItem) /\ Len(to_net') = Len(to_net) - 1
      /\ \A j \in 1 .. (Len(to_net) - 1) : to_net'[j] = to_net[j + 1]
  BY <1>1, <1>2, HeadTailProperties
<1>4. Taken' = Taken + 1 /\ Taken + 1 \in 1 .. Len(offered)
  BY <1>1, <1>2, <1>3 DEF Taken
<1>5. item = offered[Taken + 1] /\ item \in RxItem /\ item.id = Taken + 1
  <2>1. item = to_net[1] /\ 1 \in 1 .. Len(to_net)
    BY <1>1, <1>2
  <2>2. item = offered[Taken + 1]
    BY <1>1, <2>1 DEF ReceiveInv, QueueIsRest
  <2>3. item \in RxItem
    BY <1>1, <1>2
  <2> HIDE DEF item
  <2> QED
    BY <1>4, <2>2, <2>3 DEF ReceiveInv, OfferedInOrder
<1> HIDE DEF item
<1>6. PopFindsPacket' /\ QueueTyped' /\ OfferedInOrder'
  BY <1>1, <1>2, <1>3 DEF ReceiveInv, PopFindsPacket, QueueTyped, OfferedInOrder
<1>7. QueueIsRest'
  <2> SUFFICES ASSUME NEW j \in 1 .. (Len(to_net) - 1)
               PROVE  to_net'[j] = offered[(Taken + 1) + j]
    BY <1>1, <1>3, <1>4 DEF QueueIsRest
  <2>1. j + 1 \in 1 .. Len(to_net) /\ Taken + (j + 1) = (Taken + 1) + j
    BY <1>2
  <2> QED
    BY <1>3, <2>1 DEF ReceiveInv, QueueIsRest
<1>a. sent \in Seq(Outgoing) /\ SentInOrder /\ SentFromTaken /\ TakenAreSent
  BY DEF ReceiveInv, SentMatches
<1>b. Len(sent) \in Nat
  BY <1>a
<1>c. \A k \in 1 .. (Taken + 1) : k \in 1 .. Taken \/ k = Taken + 1
  BY <1>2
<1>d. \A packet : Comes(packet, Taken) => Comes(packet, Taken + 1)
  <2>1. \A k \in 1 .. Taken : k \in 1 .. (Taken + 1)
    BY <1>2
  <2> QED
    BY <2>1 DEF Comes
<1>e. UNCHANGED offered
  BY <1>1
<1>8. CASE ~Deliverable(item)
  <2>1. sent' = sent
    BY <1>1, <1>8
  <2>2. SentFromTaken'
    BY <1>4, <1>a, <1>d, <1>e, <2>1 DEF SentFromTaken, Comes
  <2>3. TakenAreSent'
    <3> SUFFICES ASSUME NEW k \in 1 .. (Taken + 1), Deliverable(offered[k])
                 PROVE  IsSent(Stripped(offered[k]))
      BY <1>4, <1>e, <2>1 DEF TakenAreSent, IsSent
    <3> QED
      BY <1>5, <1>8, <1>a, <1>c DEF TakenAreSent
  <2> QED
    BY <1>6, <1>7, <1>a, <2>1, <2>2, <2>3 DEF ReceiveInv, SentMatches, SentInOrder
<1>9. CASE Deliverable(item)
  <2> DEFINE out == Stripped(item)
  <2>1. out \in Outgoing /\ out.id = Taken + 1
    BY <1>5 DEF Outgoing, Stripped
  <2>2. sent' = Append(sent, out)
    BY <1>1, <1>9
  <2> HIDE DEF out
  <2>3. /\ sent' \in Seq(Outgoing) /\ Len(sent') = Len(sent) + 1
        /\ sent'[Len(sent) + 1] = out
        /\ \A i \in 1 .. Len(sent) : sent'[i] = sent[i]
    BY <1>a, <2>1, <2>2, AppendProperties
  <2>4. \A i \in 1 .. (Len(sent) + 1) : i \in 1 .. Len(sent) \/ i = Len(sent) + 1
    BY <1>b
  <2>5. \A i \in 1 .. Len(sent) : sent[i].id \in Nat /\ sent[i].id <= Taken
    <3> SUFFICES ASSUME NEW i \in 1 .. Len(sent) PROVE sent[i].id \in Nat /\ sent[i].id <= Taken
      OBVIOUS
    <3>1. PICK k \in 1 .. Taken : sent[i] = Stripped(offered[k])
      BY <1>a DEF SentFromTaken, Comes
    <3>2. offered[k].id = k
      BY <1>2, <3>1 DEF ReceiveInv, OfferedInOrder
    <3> QED
      BY <1>2, <3>1, <3>2 DEF Stripped
  <2>6. SentInOrder'
    <3> SUFFICES ASSUME NEW i \in 1 .. (Len(sent) + 1), NEW j \in 1 .. (Len(sent) + 1), i < j
                 PROVE  sent'[i].id < sent'[j].id
      BY <2>3 DEF SentInOrder
    <3>1. i \in 1 .. Len(sent)
      BY <1>b
    <3>2. CASE j = Len(sent) + 1
      BY <1>2, <2>1, <2>3, <2>5, <3>1, <3>2
    <3>3. CASE j \in 1 .. Len(sent)
      BY <1>a, <2>3, <3>1, <3>3 DEF SentInOrder
    <3> QED
      BY <2>4, <3>2, <3>3
  <2>7. SentFromTaken'
    <3> SUFFICES ASSUME NEW i \in 1 .. (Len(sent) + 1) PROVE Comes(sent'[i], Taken + 1)
      BY <1>4, <1>e, <2>3 DEF SentFromTaken, Comes
    <3>1. CASE i = Len(sent) + 1
      <4>1. Taken + 1 \in 1 .. (Taken + 1)
        BY <1>2
      <4> QED
        BY <1>5, <1>9, <2>3, <3>1, <4>1 DEF out, Comes
    <3>2. CASE i \in 1 .. Len(sent)
      BY <1>a, <1>d, <2>3, <3>2 DEF SentFromTaken
    <3> QED
      BY <2>4, <3>1, <3>2
  <2>8. TakenAreSent'
    <3> DEFINE Later(packet) == \E i \in 1 .. Len(sent') : sent'[i] = packet
    <3>1. \A packet : IsSent(packet) => Later(packet)
      <4>1. \A i \in 1 .. Len(sent) : i \in 1 .. (Len(sent) + 1)
        BY <1>b
      <4> QED
        BY <2>3, <4>1 DEF IsSent
    <3>2. Later(out)
      <4>1. Len(sent) + 1 \in 1 .. (Len(sent) + 1)
        BY <1>b
      <4> QED
        BY <2>3, <4>1
    <3> SUFFICES ASSUME NEW k \in 1 .. (Taken + 1), Deliverable(offered[k])
                 PROVE  Later(Stripped(offered[k]))
      BY <1>4, <1>e DEF TakenAreSent, IsSent
    <3>3. CASE k = Taken + 1
      BY <1>5, <3>2, <3>3 DEF out
    <3>4. CASE k \in 1 .. Taken
      BY <1>a, <3>1, <3>4 DEF TakenAreSent
    <3> QED
      BY <1>c, <3>3, <3>4
  <2> QED
    BY <1>6, <1>7, <2>3, <2>6, <2>7, <2>8 DEF ReceiveInv, SentMatches
<1> QED
  BY <1>8, <1>9

LEMMA ReceiveStep == ReceiveInv /\ [Next]_vars => ReceiveInv'
<1> SUFFICES ASSUME ReceiveInv, [Next]_vars PROVE ReceiveInv'
  OBVIOUS
<1> USE DEF TunGoes
<1>1. PopFindsPacket
  BY DEF ReceiveInv
<1>2. CASE UNCHANGED vars
  BY <1>1, <1>2, QueueUntouched DEF vars, pushVars, rxVars, PopFindsPacket
<1>3. CASE \/ TestRunning \/ Select \/ SelectNothing \/ GetPacket \/ AddToFromNet
           \/ AddTimesOut \/ DrainEnds \/ ClearEventfd \/ Join \/ GetPacketFails
  <2>1. /\ UNCHANGED <<pushVars, rxVars>> /\ tun_pc' \notin {"consume", "pop"}
    BY <1>3 DEF TestRunning, Select, SelectNothing, GetPacket, AddToFromNet, AddTimesOut,
                AfterTun, DrainEnds, ClearEventfd, Join, GetPacketFails
  <2> QED
    BY <2>1, QueueUntouched DEF pushVars, rxVars, PopFindsPacket
<1>4. CASE DrainMore
  <2>1. /\ tun_pc = "drain" /\ tun_pc' = "consume" /\ UNCHANGED <<pushVars, rxVars>>
        /\ to_net # <<>> \/ push_pc = "push"
    BY <1>4 DEF DrainMore, SeesNonEmpty, MutexHeld
  <2> QED
    BY <2>1, QueueUntouched DEF pushVars, rxVars, PopFindsPacket
<1>5. CASE BeginPop
  <2>1. /\ tun_pc = "consume" /\ tun_pc' = "pop" /\ UNCHANGED <<pushVars, rxVars>>
        /\ push_pc # "push"
    BY <1>5 DEF BeginPop, MutexHeld
  <2> QED
    BY <1>1, <2>1, QueueUntouched DEF pushVars, rxVars, PopFindsPacket
<1>6. CASE PopAndExamine
  BY <1>6, PopStep
<1>7. CASE MonStep \/ Sigint \/ KernelQueues \/ M17txConsumes
  <2>1. UNCHANGED <<tun_pc, pushVars, rxVars>>
    BY <1>7 DEF MonStep, MonTestRunning, MonWaits, MonWrites, MonStopsSpinning, MonGoes,
                Sigint, KernelQueues, M17txConsumes
  <2> QED
    BY <1>1, <2>1, QueueUntouched DEF pushVars, rxVars, PopFindsPacket
<1>8. CASE CallAdd
  BY <1>8, CallAddStep
<1>9. CASE BeginPush
  <2>1. /\ push_pc = "lock" /\ push_pc' \in {"push", "idle"} /\ tun_pc # "pop"
        /\ UNCHANGED <<tun_pc, to_net, pushing, offered, sent>>
    BY <1>9 DEF BeginPush, MutexHeld, rxVars
  <2> QED
    BY <1>1, <2>1, QueueUntouched DEF PopFindsPacket
<1>10. CASE EndPush
  BY <1>10, EndPushStep
<1> QED
  BY <1>2, <1>3, <1>4, <1>5, <1>6, <1>7, <1>8, <1>9, <1>10 DEF Next, TunStep

\* Every packet pushed on to_net is examined once, in order, and sent to the
\* interface exactly when it passes the tests, whatever the races do.
THEOREM ReceiveTheorem == Spec => []ReceivePathExact
<1>1. ReceiveInv => ReceivePathExact
  <2> SUFFICES ASSUME ReceiveInv PROVE ReceivePathExact
    OBVIOUS
  <2>1. /\ offered \in Seq(RxItem) /\ to_net \in Seq(RxItem) /\ sent \in Seq(Outgoing)
        /\ Len(offered) \in Nat /\ Len(to_net) \in Nat /\ Taken \in Nat
        /\ Taken + Len(to_net) = Len(offered) /\ DOMAIN sent = 1 .. Len(sent)
    BY DEF ReceiveInv, QueueTyped, SentMatches, Taken
  <2>2. to_net = SubSeq(offered, Taken + 1, Len(offered))
    <3> DEFINE rest == SubSeq(offered, Taken + 1, Len(offered))
    <3>1. \A i \in (Taken + 1) .. Len(offered) : offered[i] \in RxItem
      <4> SUFFICES ASSUME NEW i \in (Taken + 1) .. Len(offered) PROVE offered[i] \in RxItem
        OBVIOUS
      <4>1. i \in 1 .. Len(offered)
        BY <2>1
      <4> QED
        BY <2>1, <4>1, ElementOfSeq
    <3>2. /\ rest \in Seq(RxItem)
          /\ Len(rest) = IF Taken + 1 <= Len(offered) THEN Len(offered) - (Taken + 1) + 1 ELSE 0
          /\ \A i \in 1 .. (Len(offered) - (Taken + 1) + 1) : rest[i] = offered[(Taken + 1) + i - 1]
      <4>1. Taken + 1 \in Int /\ Len(offered) \in Int
        BY <2>1
      <4> QED
        BY <3>1, <4>1, SubSeqProperties
    <3> HIDE DEF rest
    <3>3. Len(rest) = Len(to_net)
      BY <2>1, <3>2
    <3>4. \A i \in 1 .. Len(to_net) : to_net[i] = rest[i]
      <4> SUFFICES ASSUME NEW i \in 1 .. Len(to_net) PROVE to_net[i] = rest[i]
        OBVIOUS
      <4>1. /\ i \in 1 .. (Len(offered) - (Taken + 1) + 1)
            /\ (Taken + 1) + i - 1 = Taken + i
        BY <2>1
      <4> QED
        BY <3>2, <4>1 DEF ReceiveInv, QueueIsRest
    <3>5. to_net = rest
      BY <2>1, <3>2, <3>3, <3>4, SeqEqual
    <3> QED
      BY <3>5 DEF rest
  <2>3. Range(sent) = {Stripped(offered[k]) :
                          k \in {i \in 1 .. Taken : Deliverable(offered[i])}}
    <3> DEFINE good == {Stripped(offered[k]) :
                           k \in {i \in 1 .. Taken : Deliverable(offered[i])}}
    <3>1. \A packet : packet \in Range(sent) <=> IsSent(packet)
      BY <2>1 DEF Range, IsSent
    <3>2. \A packet : packet \in good <=> Comes(packet, Taken)
      BY DEF Comes
    <3>3. \A packet : IsSent(packet) => Comes(packet, Taken)
      BY DEF ReceiveInv, SentMatches, SentFromTaken, IsSent
    <3>4. \A packet : Comes(packet, Taken) => IsSent(packet)
      BY DEF ReceiveInv, SentMatches, TakenAreSent, Comes
    <3> HIDE DEF good
    <3>5. Range(sent) = good
      BY <3>1, <3>2, <3>3, <3>4
    <3> QED
      BY <3>5 DEF good
  <2> QED
    BY <2>1, <2>2, <2>3 DEF ReceivePathExact, ReceiveInv, SentMatches, SentInOrder, Taken
<1> QED
  BY <1>1, ReceiveInit, ReceiveStep, PTL DEF Spec

(***************************************************************************)
(* Types.  tun_thread reads the interface only when pselect found it       *)
(* readable, and nobody else reads it; what it examines was in to_net      *)
(* (PopFindsPacket), so a null pointer is never examined.                  *)
(***************************************************************************)
PlacesType ==
    /\ running \in BOOLEAN /\ eventfd \in BOOLEAN
    /\ tun_pc \in {"loop", "select", "get", "add", "drain", "consume", "pop",
                   "clear", "join", "done", "crashed"}
    /\ mon_pc \in {"loop", "wait", "write", "spin", "done"}
    /\ push_pc \in {"idle", "lock", "push"}
    /\ fdset \subseteq {"tun", "data"}

RxType == /\ pushing \in RxItem \cup {NoPacket}
          /\ to_net_packet \in RxItem \cup {NoPacket}

TxType ==
    /\ tun_in \in Seq(1 .. MaxTun) /\ from_net \in Seq(1 .. MaxTun)
    /\ from_net_packet \in (1 .. MaxTun) \cup {NoPacket}
    /\ lost \subseteq 1 .. MaxTun /\ arrived \in 0 .. MaxTun
    /\ tun_pc = "get" => tun_in # <<>>
    /\ tun_pc = "add" => from_net_packet \in 1 .. MaxTun

TypeInv == PlacesType /\ RxType /\ TxType

LEMMA TypeInit == Init => TypeInv
<1> SUFFICES ASSUME Init PROVE TypeInv
  OBVIOUS
<1>1. PlacesType
  BY DEF Init, PlacesType
<1>2. RxType
  BY DEF Init, RxType
<1>3. TxType
  BY BoundAssumption DEF Init, TxType
<1> QED
  BY <1>1, <1>2, <1>3 DEF TypeInv

LEMMA PlacesStep == TypeInv /\ [Next]_vars => PlacesType'
<1> SUFFICES ASSUME PlacesType, [Next]_vars PROVE PlacesType'
  BY DEF TypeInv
<1> USE DEF PlacesType, TunGoes
<1>1. CASE TestRunning
  BY <1>1 DEF TestRunning, pushVars
<1>2. CASE Select \/ SelectNothing
  BY <1>2 DEF Select, SelectNothing, Readable, pushVars
<1>3. CASE GetPacket \/ AddToFromNet \/ AddTimesOut \/ GetPacketFails
  BY <1>3 DEF GetPacket, AddToFromNet, AddTimesOut, GetPacketFails, AfterTun, pushVars
<1>4. CASE DrainMore \/ DrainEnds \/ BeginPop \/ PopAndExamine
  BY <1>4 DEF DrainMore, DrainEnds, BeginPop, PopAndExamine, pushVars
<1>5. CASE ClearEventfd \/ Join
  BY <1>5 DEF ClearEventfd, Join, pushVars
<1>6. CASE MonStep
  BY <1>6 DEF MonStep, MonTestRunning, MonWaits, MonWrites, MonStopsSpinning, MonGoes, pushVars
<1>7. CASE Sigint \/ KernelQueues \/ M17txConsumes
  BY <1>7 DEF Sigint, KernelQueues, M17txConsumes, pushVars
<1>8. CASE CallAdd \/ BeginPush \/ EndPush
  BY <1>8 DEF CallAdd, BeginPush, EndPush
<1>9. CASE UNCHANGED vars
  BY <1>9 DEF vars, pushVars
<1> QED
  BY <1>1, <1>2, <1>3, <1>4, <1>5, <1>6, <1>7, <1>8, <1>9 DEF Next, TunStep

LEMMA RxTypeStep == TypeInv /\ ReceiveInv /\ [Next]_vars => RxType'
<1> SUFFICES ASSUME RxType, ReceiveInv, [Next]_vars PROVE RxType'
  BY DEF TypeInv
<1>1. CASE PopAndExamine
  <2>1. /\ to_net # <<>> /\ to_net_packet' = Head(to_net) /\ pushing' = pushing
    BY <1>1 DEF PopAndExamine, TunGoes, ReceiveInv, PopFindsPacket
  <2>2. to_net \in Seq(RxItem)
    BY DEF ReceiveInv, QueueTyped
  <2>3. Head(to_net) \in RxItem
    BY <2>1, <2>2, HeadTailProperties
  <2> QED
    BY <2>1, <2>3 DEF RxType
<1>2. CASE CallAdd
  <2>1. push_pc' # "idle" /\ to_net_packet' = to_net_packet
    BY <1>2 DEF CallAdd, rxVars
  <2>2. ReceiveInv'
    BY <1>2, CallAddStep
  <2> QED
    BY <2>1, <2>2 DEF RxType, ReceiveInv, OfferedInOrder
<1>3. CASE \/ TestRunning \/ Select \/ SelectNothing \/ GetPacket \/ AddToFromNet
           \/ AddTimesOut \/ DrainMore \/ DrainEnds \/ BeginPop \/ ClearEventfd \/ Join
           \/ GetPacketFails
  BY <1>3 DEF TestRunning, Select, SelectNothing, GetPacket, AddToFromNet, AddTimesOut,
              DrainMore, DrainEnds, BeginPop, ClearEventfd, Join, GetPacketFails,
              pushVars, rxVars, RxType
<1>4. CASE MonStep \/ Sigint \/ KernelQueues \/ M17txConsumes \/ BeginPush \/ EndPush
           \/ UNCHANGED vars
  BY <1>4 DEF MonStep, MonTestRunning, MonWaits, MonWrites, MonStopsSpinning, MonGoes,
              Sigint, KernelQueues, M17txConsumes, BeginPush, EndPush, vars, pushVars, rxVars,
              RxType
<1> QED
  BY <1>1, <1>2, <1>3, <1>4 DEF Next, TunStep

LEMMA TxTypeStep == TypeInv /\ [Next]_vars => TxType'
<1> SUFFICES ASSUME TxType, [Next]_vars PROVE TxType'
  BY DEF TypeInv
<1> USE DEF TunGoes
<1>0. MaxTun \in Nat
  BY BoundAssumption
<1>1. CASE \/ TestRunning \/ SelectNothing \/ DrainMore \/ DrainEnds \/ BeginPop \/ PopAndExamine
           \/ ClearEventfd \/ Join
  <2>1. UNCHANGED netVars /\ tun_pc' \notin {"get", "add"}
    BY <1>1 DEF TestRunning, SelectNothing, DrainMore, DrainEnds, BeginPop, PopAndExamine,
                ClearEventfd, Join
  <2> QED
    BY <2>1 DEF TxType, netVars
<1>2. CASE Select
  <2>1. /\ UNCHANGED netVars /\ tun_pc' # "add"
        /\ tun_pc' = "get" => tun_in # <<>>
    BY <1>2 DEF Select, Readable
  <2> QED
    BY <2>1 DEF TxType, netVars
<1>3. CASE GetPacket
  <2>1. /\ tun_in \in Seq(1 .. MaxTun) /\ tun_in # <<>>
        /\ from_net_packet' = Head(tun_in) /\ tun_in' = Tail(tun_in)
        /\ lost' \in {lost, lost \cup {Head(tun_in)}}
        /\ tun_pc' # "get"
        /\ UNCHANGED <<from_net, arrived>>
    BY <1>3 DEF GetPacket, AfterTun, TxType
  <2>2. Head(tun_in) \in 1 .. MaxTun /\ Tail(tun_in) \in Seq(1 .. MaxTun)
    BY <2>1, HeadTailProperties
  <2> QED
    BY <2>1, <2>2 DEF TxType
<1>4. CASE GetPacketFails
  BY <1>4 DEF GetPacketFails, TxType
<1>5. CASE AddToFromNet
  <2>1. /\ from_net' = Append(from_net, from_net_packet) /\ from_net_packet \in 1 .. MaxTun
        /\ tun_pc' \notin {"get", "add"}
        /\ UNCHANGED <<tun_in, from_net_packet, lost, arrived>>
    BY <1>5 DEF AddToFromNet, AfterTun, TxType
  <2>2. from_net' \in Seq(1 .. MaxTun)
    BY <2>1, AppendProperties DEF TxType
  <2> QED
    BY <2>1, <2>2 DEF TxType
<1>6. CASE AddTimesOut
  <2>1. /\ lost' = lost \cup {from_net_packet} /\ from_net_packet \in 1 .. MaxTun
        /\ tun_pc' \notin {"get", "add"}
        /\ UNCHANGED <<tun_in, from_net, from_net_packet, arrived>>
    BY <1>6 DEF AddTimesOut, AfterTun, TxType
  <2> QED
    BY <2>1 DEF TxType
<1>7. CASE KernelQueues
  <2>1. /\ arrived < MaxTun /\ arrived' = arrived + 1 /\ tun_in' = Append(tun_in, arrived + 1)
        /\ arrived \in 0 .. MaxTun /\ tun_in \in Seq(1 .. MaxTun)
        /\ UNCHANGED <<tun_pc, from_net, from_net_packet, lost>>
    BY <1>7 DEF KernelQueues, TxType
  <2>2. arrived + 1 \in 1 .. MaxTun
    BY <1>0, <2>1
  <2>3. tun_in' \in Seq(1 .. MaxTun) /\ tun_in' # <<>>
    BY <2>1, <2>2, AppendProperties, EmptySeq
  <2> QED
    BY <2>1, <2>2, <2>3 DEF TxType
<1>8. CASE M17txConsumes
  <2>1. /\ from_net # <<>> /\ from_net' = Tail(from_net)
        /\ UNCHANGED <<tun_pc, tun_in, from_net_packet, lost, arrived>>
    BY <1>8 DEF M17txConsumes
  <2>2. from_net' \in Seq(1 .. MaxTun)
    BY <2>1, HeadTailProperties DEF TxType
  <2> QED
    BY <2>1, <2>2 DEF TxType
<1>9. CASE MonStep \/ Sigint \/ CallAdd \/ BeginPush \/ EndPush \/ UNCHANGED vars
  <2>1. UNCHANGED netVars /\ tun_pc' = tun_pc
    BY <1>9 DEF MonStep, MonTestRunning, MonWaits, MonWrites, MonStopsSpinning, MonGoes,
                Sigint, CallAdd, BeginPush, EndPush, vars
  <2> QED
    BY <2>1 DEF TxType, netVars
<1> QED
  BY <1>1, <1>2, <1>3, <1>4, <1>5, <1>6, <1>7, <1>8, <1>9 DEF Next, TunStep

LEMMA TypeStep == TypeInv /\ ReceiveInv /\ [Next]_vars => TypeInv'
BY PlacesStep, RxTypeStep, TxTypeStep DEF TypeInv

LEMMA SeqMonotone ==
    ASSUME NEW A, NEW B, A \subseteq B, NEW s \in Seq(A)
    PROVE  s \in Seq(B)
<1>1. Len(s) \in Nat /\ s \in [1 .. Len(s) -> A]
  OBVIOUS
<1>2. s \in [1 .. Len(s) -> B]
  BY <1>1
<1> QED
  BY <1>1, <1>2

\* What is sent to the interface has a size.
LEMMA OutgoingType == Outgoing \subseteq [id : DOMAIN RxPackets, size : Int]
<1> SUFFICES ASSUME NEW item \in RxItem
             PROVE  Stripped(item) \in [id : DOMAIN RxPackets, size : Int]
  BY DEF Outgoing
<1>1. item.id \in DOMAIN RxPackets /\ item.body.size \in Nat
  BY BoundAssumption DEF RxItem
<1> QED
  BY <1>1 DEF Stripped

\* Types; that what was sent has an id and a size is to say that no null pointer
\* was examined, although the results of consume() and get_packet() are ignored.
THEOREM TypeTheorem == Spec => []TypeOK
<1>1. TypeInv /\ ReceiveInv => TypeOK
  <2> SUFFICES ASSUME TypeInv, ReceiveInv PROVE TypeOK
    OBVIOUS
  <2>1. sent \in Seq(Outgoing)
    BY DEF ReceiveInv, SentMatches
  <2>2. sent \in Seq([id : DOMAIN RxPackets, size : Int])
    BY <2>1, OutgoingType, SeqMonotone
  <2> QED
    BY <2>2 DEF TypeInv, PlacesType, RxType, TxType, ReceiveInv, QueueTyped, TypeOK
<1> QED
  BY <1>1, TypeInit, TypeStep, ReceiveInit, ReceiveStep, PTL DEF Spec

(***************************************************************************)
(* The daemon.                                                             *)
(***************************************************************************)
\* A step of m17tx_thread is seen by tun_thread as a consume() or not at all.
LEMMA M17txSeen == NetdM17tx => [Next]_vars
<1> SUFFICES ASSUME NetdM17tx PROVE [Next]_vars
  OBVIOUS
<1> USE DEF M17tx!Goes
<1>1. /\ Alive
      /\ UNCHANGED <<tun_pc, mon_pc, fdset, eventfd, pushVars, rxVars,
                     tun_in, from_net_packet, lost, arrived>>
      /\ M17tx!M17txStep
  BY DEF NetdM17tx, Running
<1>2. CASE M17tx!TestRunning \/ M17tx!ConsumeTimesOut \/ M17tx!AddToRadio \/ M17tx!AddTimesOut
  <2>1. UNCHANGED <<running, from_net>>
    BY <1>2 DEF M17tx!TestRunning, M17tx!ConsumeTimesOut, M17tx!AddToRadio, M17tx!AddTimesOut
  <2> QED
    BY <1>1, <2>1 DEF vars, netVars
<1>3. CASE M17tx!ConsumeRouted \/ M17tx!ConsumeTooLong \/ M17tx!ConsumeNoRoute
  <2>1. running' = running /\ from_net # <<>> /\ from_net' = Tail(from_net)
    BY <1>3 DEF M17tx!ConsumeRouted, M17tx!ConsumeTooLong, M17tx!ConsumeNoRoute
  <2>2. M17txConsumes
    BY <1>1, <2>1 DEF M17txConsumes
  <2> QED
    BY <2>2 DEF Next
<1> QED
  BY <1>1, <1>2, <1>3 DEF M17tx!M17txStep

LEMMA NetdStepSeen == [NetdNext]_netdVars => [Next]_vars
<1>1. NetdTun \/ NetdMon \/ Outside => Next
  BY DEF NetdTun, NetdMon, Outside, Next
<1>2. NetdRadio => [Next]_vars
  BY DEF NetdRadio, Next
<1>3. Main => UNCHANGED vars
  BY DEF Main, Joins
<1>4. UNCHANGED netdVars => UNCHANGED vars
  BY DEF netdVars
<1> QED
  BY <1>1, <1>2, <1>3, <1>4, M17txSeen DEF NetdNext

\* m17tx_thread, the radio thread and main() do nothing that TunThread does not
\* let its environment do: what holds of every TunThread holds in the daemon.
THEOREM TunRefinement == NetdSpec => ImplementsTunThread
<1>1. NetdInit => Init
  BY DEF NetdInit
<1> QED
  BY <1>1, NetdStepSeen, PTL DEF NetdSpec, ImplementsTunThread, Spec

\* In the daemon too the receive direction neither loses, nor repeats, nor
\* reorders a packet.
THEOREM NetdReceiveTheorem == NetdSpec => []ReceivePathExact
BY TunRefinement, ReceiveTheorem, PTL DEF ImplementsTunThread

(***************************************************************************)
(* The transmit direction.  A packet is somewhere on the path from the     *)
(* interface to the radio; a step moves it one place on, which leaves the  *)
(* path as it is, or takes it off the path.                                *)
(***************************************************************************)
Ordered(s) == \A i, j \in DOMAIN s : i < j => s[i] < s[j]

Accounted(path, given, forgot, n) ==
    /\ Ordered(path)
    /\ Range(path) \cup given \cup forgot = 1 .. n
    /\ Range(path) \cap (given \cup forgot) = {} /\ given \cap forgot = {}

Path(a, b, c, d, e, f) == a \o b \o c \o d \o e \o f

InM17tx == Held(m17_pc \in {"add", "threw"}, raw)
InTun   == Held(tun_pc = "add", from_net_packet)

AccountInv ==
    /\ fetched \in Seq(Nat) /\ to_radio \in Seq(Nat)
    /\ from_net \in Seq(Nat) /\ tun_in \in Seq(Nat)
    /\ m17_pc \in {"add", "threw"} => raw \in Nat
    /\ tun_pc = "add" => from_net_packet \in Nat
    /\ tun_pc = "get" => tun_in # <<>>
    /\ radio_pc = "consume" => to_radio # <<>>
    /\ arrived \in Nat
    /\ Accounted(Path(fetched, to_radio, InM17tx, from_net, InTun, tun_in),
                 lost, forgotten, arrived)
    /\ left > 0 => radio_pc \in {"sending", "crashed"} \/ ~running

LEMMA RangeConcat ==
    ASSUME NEW s \in Seq(Nat), NEW t \in Seq(Nat)
    PROVE  Range(s \o t) = Range(s) \cup Range(t)
<1>1. /\ s \o t \in Seq(Nat) /\ Len(s) \in Nat /\ Len(t) \in Nat
      /\ Len(s \o t) = Len(s) + Len(t)
      /\ \A i \in 1 .. (Len(s) + Len(t)) :
            (s \o t)[i] = IF i <= Len(s) THEN s[i] ELSE t[i - Len(s)]
  BY ConcatProperties
<1>2. /\ DOMAIN (s \o t) = 1 .. (Len(s) + Len(t))
      /\ DOMAIN s = 1 .. Len(s) /\ DOMAIN t = 1 .. Len(t)
  BY <1>1
<1>3. ASSUME NEW x \in Range(s \o t) PROVE x \in Range(s) \cup Range(t)
  <2>1. PICK i \in 1 .. (Len(s) + Len(t)) : x = (s \o t)[i]
    BY <1>2, <1>3 DEF Range
  <2>2. CASE i <= Len(s)
    BY <1>1, <1>2, <2>1, <2>2 DEF Range
  <2>3. CASE ~(i <= Len(s))
    <3>1. i - Len(s) \in 1 .. Len(t)
      BY <1>1, <2>3
    <3> QED
      BY <1>1, <1>2, <2>1, <2>3, <3>1 DEF Range
  <2> QED
    BY <2>2, <2>3
<1>4. ASSUME NEW x \in Range(s) PROVE x \in Range(s \o t)
  <2>1. PICK i \in 1 .. Len(s) : x = s[i]
    BY <1>2, <1>4 DEF Range
  <2>2. i \in 1 .. (Len(s) + Len(t)) /\ (s \o t)[i] = s[i]
    BY <1>1
  <2> QED
    BY <1>2, <2>1, <2>2 DEF Range
<1>5. ASSUME NEW x \in Range(t) PROVE x \in Range(s \o t)
  <2>1. PICK i \in 1 .. Len(t) : x = t[i]
    BY <1>2, <1>5 DEF Range
  <2>2. Len(s) + i \in 1 .. (Len(s) + Len(t)) /\ (s \o t)[Len(s) + i] = t[i]
    <3>1. Len(s) + i \in 1 .. (Len(s) + Len(t)) /\ ~(Len(s) + i <= Len(s))
          /\ (Len(s) + i) - Len(s) = i
      BY <1>1
    <3> QED
      BY <1>1, <3>1
  <2> QED
    BY <1>2, <2>1, <2>2 DEF Range
<1> QED
  BY <1>3, <1>4, <1>5

LEMMA OrderedConcat ==
    ASSUME NEW s \in Seq(Nat), NEW t \in Seq(Nat)
    PROVE  Ordered(s \o t) <=> /\ Ordered(s) /\ Ordered(t)
                               /\ \A x \in Range(s), y \in Range(t) : x < y
<1>1. /\ s \o t \in Seq(Nat) /\ Len(s) \in Nat /\ Len(t) \in Nat
      /\ DOMAIN (s \o t) = 1 .. (Len(s) + Len(t))
      /\ DOMAIN s = 1 .. Len(s) /\ DOMAIN t = 1 .. Len(t)
  BY ConcatProperties
<1>2. \A i \in 1 .. Len(s) : i \in 1 .. (Len(s) + Len(t)) /\ (s \o t)[i] = s[i]
  BY <1>1, ConcatProperties
<1>3. \A i \in 1 .. Len(t) : Len(s) + i \in 1 .. (Len(s) + Len(t)) /\ (s \o t)[Len(s) + i] = t[i]
  <2> SUFFICES ASSUME NEW i \in 1 .. Len(t)
               PROVE  /\ Len(s) + i \in 1 .. (Len(s) + Len(t))
                      /\ (s \o t)[Len(s) + i] = t[i]
    OBVIOUS
  <2>1. Len(s) + i \in 1 .. (Len(s) + Len(t)) /\ ~(Len(s) + i <= Len(s))
        /\ (Len(s) + i) - Len(s) = i
    BY <1>1
  <2> QED
    BY <2>1, ConcatProperties
<1>4. ASSUME Ordered(s \o t)
      PROVE  Ordered(s) /\ Ordered(t) /\ \A x \in Range(s), y \in Range(t) : x < y
  <2>1. \A i, j \in 1 .. (Len(s) + Len(t)) : i < j => (s \o t)[i] < (s \o t)[j]
    BY <1>1, <1>4 DEF Ordered
  <2>2. Ordered(s)
    BY <1>1, <1>2, <2>1 DEF Ordered
  <2>3. Ordered(t)
    <3> SUFFICES ASSUME NEW i \in 1 .. Len(t), NEW j \in 1 .. Len(t), i < j
                 PROVE  t[i] < t[j]
      BY <1>1 DEF Ordered
    <3>1. Len(s) + i < Len(s) + j
      BY <1>1
    <3> QED
      BY <1>3, <2>1, <3>1
  <2>4. ASSUME NEW x \in Range(s), NEW y \in Range(t) PROVE x < y
    <3>1. PICK i \in 1 .. Len(s) : x = s[i]
      BY <1>1, <2>4 DEF Range
    <3>2. PICK j \in 1 .. Len(t) : y = t[j]
      BY <1>1, <2>4 DEF Range
    <3>3. i < Len(s) + j
      BY <1>1
    <3> QED
      BY <1>2, <1>3, <2>1, <3>1, <3>2, <3>3
  <2> QED
    BY <2>2, <2>3, <2>4
<1>5. ASSUME Ordered(s), Ordered(t), \A x \in Range(s), y \in Range(t) : x < y
      PROVE  Ordered(s \o t)
  <2> SUFFICES ASSUME NEW i \in 1 .. (Len(s) + Len(t)), NEW j \in 1 .. (Len(s) + Len(t)), i < j
               PROVE  (s \o t)[i] < (s \o t)[j]
    BY <1>1 DEF Ordered
  <2>1. CASE j <= Len(s)
    <3>1. i \in 1 .. Len(s) /\ j \in 1 .. Len(s)
      BY <1>1, <2>1
    <3> QED
      BY <1>1, <1>2, <1>5, <3>1 DEF Ordered
  <2>2. CASE i <= Len(s) /\ ~(j <= Len(s))
    <3>1. i \in 1 .. Len(s) /\ j - Len(s) \in 1 .. Len(t) /\ Len(s) + (j - Len(s)) = j
      BY <1>1, <2>2
    <3>2. (s \o t)[i] = s[i] /\ (s \o t)[j] = t[j - Len(s)]
      BY <1>2, <1>3, <3>1
    <3>3. s[i] \in Range(s) /\ t[j - Len(s)] \in Range(t)
      BY <1>1, <3>1 DEF Range
    <3> QED
      BY <1>5, <3>2, <3>3
  <2>3. CASE ~(i <= Len(s))
    <3>1. /\ i - Len(s) \in 1 .. Len(t) /\ Len(s) + (i - Len(s)) = i
          /\ j - Len(s) \in 1 .. Len(t) /\ Len(s) + (j - Len(s)) = j
          /\ i - Len(s) < j - Len(s)
      BY <1>1, <2>3
    <3>2. (s \o t)[i] = t[i - Len(s)] /\ (s \o t)[j] = t[j - Len(s)]
      BY <1>3, <3>1
    <3> QED
      BY <1>1, <1>5, <3>1, <3>2 DEF Ordered
  <2> QED
    BY <1>1, <2>1, <2>2, <2>3
<1> QED
  BY <1>4, <1>5

\* Taking one packet off the path ...
LEMMA AccountedLost ==
    ASSUME NEW u \in Seq(Nat), NEW v \in Seq(Nat), NEW x \in Nat, NEW given, NEW forgot, NEW n,
           Accounted((u \o <<x>>) \o v, given, forgot, n)
    PROVE  /\ Accounted(u \o v, given \cup {x}, forgot, n)
           /\ Accounted(u \o v, given, forgot \cup {x}, n)
<1>1. <<x>> \in Seq(Nat) /\ u \o <<x>> \in Seq(Nat)
  BY ConcatProperties
<1>2. Range(<<x>>) = {x}
  BY DEF Range
<1>3. Range((u \o <<x>>) \o v) = Range(u) \cup {x} \cup Range(v)
  BY <1>1, <1>2, RangeConcat
<1>4. Range(u \o v) = Range(u) \cup Range(v)
  BY RangeConcat
<1>5. /\ Ordered(u \o <<x>>) /\ Ordered(v)
      /\ \A y \in Range(u) \cup {x}, z \in Range(v) : y < z
  <2>1. Range(u \o <<x>>) = Range(u) \cup {x}
    BY <1>1, <1>2, RangeConcat
  <2> QED
    BY <1>1, <2>1, OrderedConcat DEF Accounted
<1>6. Ordered(u) /\ \A y \in Range(u) : y < x
  BY <1>1, <1>2, <1>5, OrderedConcat
<1>7. Ordered(u \o v)
  BY <1>5, <1>6, OrderedConcat
<1>8. x \notin Range(u) /\ x \notin Range(v)
  BY <1>5, <1>6
<1> QED
  BY <1>3, <1>4, <1>7, <1>8 DEF Accounted

\* ... and one more at its end.
LEMMA AccountedArrives ==
    ASSUME NEW u \in Seq(Nat), NEW given, NEW forgot, NEW n \in Nat,
           Accounted(u, given, forgot, n)
    PROVE  Accounted(u \o <<n + 1>>, given, forgot, n + 1)
<1>1. <<n + 1>> \in Seq(Nat) /\ Range(<<n + 1>>) = {n + 1} /\ Ordered(<<n + 1>>)
  BY DEF Range, Ordered
<1>2. Range(u \o <<n + 1>>) = Range(u) \cup {n + 1}
  BY <1>1, RangeConcat
<1>3. \A x \in Range(u) : x < n + 1
  BY DEF Accounted
<1>4. Ordered(u \o <<n + 1>>)
  BY <1>1, <1>3, OrderedConcat DEF Accounted
<1>5. 1 .. (n + 1) = (1 .. n) \cup {n + 1} /\ n + 1 \notin 1 .. n
  OBVIOUS
<1> QED
  BY <1>2, <1>4, <1>5 DEF Accounted

\* The moves from one place to the next.
LEMMA MoveHead ==
    ASSUME NEW s \in Seq(Nat), NEW t \in Seq(Nat), t # <<>>
    PROVE  /\ (s \o <<Head(t)>>) \o Tail(t) = s \o t
           /\ Append(s, Head(t)) \o Tail(t) = s \o t
           /\ <<Head(t)>> \in Seq(Nat) /\ Tail(t) \in Seq(Nat)
<1>1. Head(t) \in Nat /\ Tail(t) \in Seq(Nat) /\ Len(Tail(t)) = Len(t) - 1
      /\ \A i \in 1 .. Len(Tail(t)) : Tail(t)[i] = t[i + 1]
  BY HeadTailProperties
<1>2. <<Head(t)>> \in Seq(Nat) /\ Len(<<Head(t)>>) = 1
  BY <1>1
<1>3. Append(s, Head(t)) = s \o <<Head(t)>>
  BY <1>1
<1>4. <<Head(t)>> \o Tail(t) = t
  OBVIOUS
<1>5. (s \o <<Head(t)>>) \o Tail(t) = s \o t
  BY <1>1, <1>2, <1>4, ConcatAssociative
<1> QED
  BY <1>1, <1>2, <1>3, <1>5

LEMMA MoveToEnd ==
    ASSUME NEW s \in Seq(Nat), NEW t \in Seq(Nat), NEW x \in Nat
    PROVE  (s \o Append(t, x)) \o <<>> = (s \o t) \o <<x>>
<1>1. <<x>> \in Seq(Nat) /\ Append(t, x) = t \o <<x>> /\ Append(t, x) \in Seq(Nat)
  BY AppendIsConcat, AppendProperties
<1>2. s \o Append(t, x) \in Seq(Nat)
  BY <1>1, ConcatProperties
<1> QED
  BY <1>1, <1>2, ConcatAssociative, ConcatEmptySeq

(***************************************************************************)
(* The steps, for the parts of the state the path is made of.              *)
(***************************************************************************)
LEMMA AccountInit == NetdInit => AccountInv
<1> SUFFICES ASSUME NetdInit PROVE AccountInv
  OBVIOUS
<1>1. /\ fetched = <<>> /\ to_radio = <<>> /\ from_net = <<>> /\ tun_in = <<>>
      /\ tun_pc = "loop" /\ m17_pc = "loop" /\ radio_pc \in {"rx", "end"}
      /\ lost = {} /\ forgotten = {} /\ arrived = 0 /\ left = 0
  BY DEF NetdInit, Init, M17tx!M17txInit, Radio!RadioInit
<1>2. Path(fetched, to_radio, InM17tx, from_net, InTun, tun_in) = <<>>
  BY <1>1 DEF Path, InM17tx, InTun, Held
<1>3. Accounted(<<>>, {}, {}, 0)
  BY DEF Accounted, Ordered, Range
<1> QED
  BY <1>1, <1>2, <1>3 DEF AccountInv

\* A step that moves and loses nothing.
LEMMA PathUntouched ==
    ASSUME AccountInv, UNCHANGED <<tun_in, from_net, lost, arrived, to_radio, raw, forgotten,
                                   fetched, left>>,
           running' \in {running, FALSE},
           InM17tx' = InM17tx, InTun' = InTun,
           m17_pc' \in {"add", "threw"} => m17_pc \in {"add", "threw"},
           tun_pc' = "add" => tun_pc = "add" /\ from_net_packet' = from_net_packet,
           tun_pc' = "get" => tun_in # <<>>,
           radio_pc' = "consume" => to_radio # <<>>,
           left > 0 => radio_pc' \in {"sending", "crashed"} \/ ~running'
    PROVE  AccountInv'
<1>1. Accounted(Path(fetched, to_radio, InM17tx, from_net, InTun, tun_in),
                lost, forgotten, arrived)
  BY DEF AccountInv
<1>2. Path(fetched, to_radio, InM17tx, from_net, InTun, tun_in)' =
         Path(fetched, to_radio, InM17tx, from_net, InTun, tun_in)
  BY DEF Path
<1>3. Accounted(Path(fetched, to_radio, InM17tx, from_net, InTun, tun_in),
                lost, forgotten, arrived)'
  BY <1>1, <1>2 DEF Accounted, Ordered
<1> QED
  BY <1>3 DEF AccountInv

\* The parts of the path, and the sequences between its ends.
LEMMA PathTyped ==
    ASSUME AccountInv
    PROVE  /\ InM17tx \in Seq(Nat) /\ InTun \in Seq(Nat)
           /\ fetched \o to_radio \in Seq(Nat)
           /\ fetched \o to_radio \o InM17tx \in Seq(Nat)
           /\ fetched \o to_radio \o InM17tx \o from_net \in Seq(Nat)
           /\ fetched \o to_radio \o InM17tx \o from_net \o InTun \in Seq(Nat)
           /\ Path(fetched, to_radio, InM17tx, from_net, InTun, tun_in) \in Seq(Nat)
<1>1. InM17tx \in Seq(Nat) /\ InTun \in Seq(Nat)
  BY DEF AccountInv, InM17tx, InTun, Held
<1> QED
  BY <1>1, ConcatProperties DEF AccountInv, Path

LEMMA TunAccount ==
    ASSUME AccountInv, NetdTun
    PROVE  AccountInv'
<1> USE DEF TunGoes
<1> DEFINE x == fetched \o to_radio \o InM17tx
           y == x \o from_net
<1>1. /\ TunStep
      /\ UNCHANGED <<to_radio, m17_pc, raw, forgotten, radio_pc, left, fetched>>
  BY DEF NetdTun, TunRest, m17txVars, radioVars
<1>2. UNCHANGED <<running, arrived>>
  BY <1>1 DEF TunStep, TestRunning, Select, SelectNothing, GetPacket, AddToFromNet, AddTimesOut,
              DrainMore, DrainEnds, BeginPop, PopAndExamine, ClearEventfd, Join, netVars
<1>3. /\ fetched \in Seq(Nat) /\ to_radio \in Seq(Nat) /\ from_net \in Seq(Nat)
      /\ tun_in \in Seq(Nat) /\ InM17tx \in Seq(Nat) /\ x \in Seq(Nat) /\ y \in Seq(Nat)
      /\ Accounted(Path(fetched, to_radio, InM17tx, from_net, InTun, tun_in),
                   lost, forgotten, arrived)
  BY PathTyped DEF AccountInv
<1>4. InM17tx' = InM17tx /\ x' = x
  BY <1>1 DEF InM17tx
<1>5. Path(fetched, to_radio, InM17tx, from_net, InTun, tun_in) = (y \o InTun) \o tun_in
  BY DEF Path
<1>6. Path(fetched, to_radio, InM17tx, from_net, InTun, tun_in)'
         = ((x \o from_net') \o InTun') \o tun_in'
  BY <1>4 DEF Path
<1>7. AfterTun \in {"drain", "loop"}
  BY DEF AfterTun
<1>8. CASE \/ TestRunning \/ SelectNothing \/ DrainMore \/ DrainEnds \/ BeginPop
           \/ PopAndExamine \/ ClearEventfd \/ Join
  <2>1. /\ UNCHANGED netVars
        /\ tun_pc \notin {"get", "add"} /\ tun_pc' \notin {"get", "add"}
    BY <1>8 DEF TestRunning, SelectNothing, DrainMore, DrainEnds, BeginPop, PopAndExamine,
                ClearEventfd, Join
  <2> QED
    BY <1>1, <1>2, <1>4, <2>1, PathUntouched DEF netVars, InTun, AccountInv
<1>9. CASE Select
  <2>1. /\ UNCHANGED netVars /\ tun_pc = "select" /\ tun_pc' \in {"get", "drain"}
        /\ tun_pc' = "get" => tun_in # <<>>
    BY <1>9 DEF Select, Readable
  <2> QED
    BY <1>1, <1>2, <1>4, <2>1, PathUntouched DEF netVars, InTun, AccountInv
<1>10. CASE GetPacket
  <2>1. /\ tun_pc = "get" /\ tun_in # <<>>
        /\ from_net_packet' = Head(tun_in) /\ tun_in' = Tail(tun_in) /\ from_net' = from_net
        /\ \/ tun_pc' = "add" /\ lost' = lost
           \/ tun_pc' = AfterTun /\ lost' = lost \cup {Head(tun_in)}
    BY <1>10 DEF GetPacket, AccountInv
  <2>2. Head(tun_in) \in Nat /\ Tail(tun_in) \in Seq(Nat)
    BY <1>3, <2>1, HeadTailProperties
  <2>3. /\ InTun = <<>>
        /\ (y \o <<>>) \o tun_in = y \o tun_in
        /\ y \o tun_in = (y \o <<Head(tun_in)>>) \o Tail(tun_in)
        /\ (y \o <<>>) \o Tail(tun_in) = y \o Tail(tun_in)
    BY <1>3, <2>1, MoveHead, ConcatEmptySeq DEF InTun, Held
  <2> HIDE DEF x, y
  <2>4. CASE tun_pc' = "add" /\ lost' = lost
    <3>1. InTun' = <<Head(tun_in)>>
      BY <2>1, <2>4 DEF InTun, Held
    <3>2. Path(fetched, to_radio, InM17tx, from_net, InTun, tun_in)'
             = Path(fetched, to_radio, InM17tx, from_net, InTun, tun_in)
      BY <1>5, <1>6, <2>1, <2>3, <3>1 DEF y
    <3>3. Accounted(Path(fetched, to_radio, InM17tx, from_net, InTun, tun_in),
                    lost, forgotten, arrived)'
      BY <1>1, <1>2, <1>3, <2>4, <3>2 DEF Accounted, Ordered
    <3> QED
      BY <1>1, <1>2, <2>1, <2>2, <2>4, <3>3 DEF AccountInv
  <2>5. CASE tun_pc' = AfterTun /\ lost' = lost \cup {Head(tun_in)}
    <3>1. InTun' = <<>>
      BY <1>7, <2>5 DEF InTun, Held
    <3>2. Path(fetched, to_radio, InM17tx, from_net, InTun, tun_in)' = y \o Tail(tun_in)
      BY <1>6, <2>1, <2>3, <3>1 DEF y
    <3>3. Accounted(y \o Tail(tun_in), lost \cup {Head(tun_in)}, forgotten, arrived)
      BY <1>3, <1>5, <2>2, <2>3, AccountedLost
    <3>4. Accounted(Path(fetched, to_radio, InM17tx, from_net, InTun, tun_in),
                    lost, forgotten, arrived)'
      BY <1>1, <1>2, <2>5, <3>2, <3>3 DEF Accounted, Ordered
    <3> QED
      BY <1>1, <1>2, <1>7, <2>1, <2>2, <2>5, <3>4 DEF AccountInv
  <2> QED
    BY <2>1, <2>4, <2>5
<1>11. CASE AddToFromNet
  <2>1. /\ tun_pc = "add" /\ tun_pc' = AfterTun
        /\ from_net' = Append(from_net, from_net_packet) /\ UNCHANGED <<tun_in, lost>>
        /\ from_net_packet \in Nat
    BY <1>11 DEF AddToFromNet, AccountInv
  <2>2. /\ InTun = <<from_net_packet>> /\ InTun' = <<>>
        /\ (x \o Append(from_net, from_net_packet)) \o <<>>
              = (x \o from_net) \o <<from_net_packet>>
        /\ from_net' \in Seq(Nat)
    BY <1>3, <1>7, <2>1, MoveToEnd, AppendProperties DEF InTun, Held
  <2> HIDE DEF x
  <2>3. Path(fetched, to_radio, InM17tx, from_net, InTun, tun_in)'
           = Path(fetched, to_radio, InM17tx, from_net, InTun, tun_in)
    BY <1>5, <1>6, <2>1, <2>2
  <2>4. Accounted(Path(fetched, to_radio, InM17tx, from_net, InTun, tun_in),
                  lost, forgotten, arrived)'
    BY <1>1, <1>2, <1>3, <2>1, <2>3 DEF Accounted, Ordered
  <2> QED
    BY <1>1, <1>2, <1>3, <1>7, <2>1, <2>2, <2>4 DEF AccountInv
<1>12. CASE AddTimesOut
  <2>1. /\ tun_pc = "add" /\ tun_pc' = AfterTun
        /\ lost' = lost \cup {from_net_packet} /\ UNCHANGED <<tun_in, from_net>>
        /\ from_net_packet \in Nat
    BY <1>12 DEF AddTimesOut, AccountInv
  <2>2. InTun = <<from_net_packet>> /\ InTun' = <<>> /\ (y \o <<>>) \o tun_in = y \o tun_in
    BY <1>3, <1>7, <2>1, ConcatEmptySeq DEF InTun, Held
  <2> HIDE DEF x, y
  <2>3. Accounted(y \o tun_in, lost \cup {from_net_packet}, forgotten, arrived)
    BY <1>3, <1>5, <2>1, <2>2, AccountedLost
  <2>4. Path(fetched, to_radio, InM17tx, from_net, InTun, tun_in)' = y \o tun_in
    BY <1>6, <2>1, <2>2 DEF y
  <2>5. Accounted(Path(fetched, to_radio, InM17tx, from_net, InTun, tun_in),
                  lost, forgotten, arrived)'
    BY <1>1, <1>2, <2>1, <2>3, <2>4 DEF Accounted, Ordered
  <2> QED
    BY <1>1, <1>2, <1>7, <2>1, <2>5 DEF AccountInv
<1> QED
  BY <1>1, <1>8, <1>9, <1>10, <1>11, <1>12 DEF TunStep

LEMMA Assoc == \A s, t, u \in Seq(Nat) : (s \o t) \o u = s \o (t \o u)
BY ConcatAssociative

LEMMA Closed == \A s, t \in Seq(Nat) : s \o t \in Seq(Nat)
BY ConcatProperties

\* AccountedLost for a packet with more behind it.
LEMMA AccountedLostInside ==
    ASSUME NEW s \in Seq(Nat), NEW t \in Seq(Nat), NEW u \in Seq(Nat), NEW v \in Seq(Nat),
           NEW x \in Nat, NEW given, NEW forgot, NEW n,
           Accounted((((s \o <<x>>) \o t) \o u) \o v, given, forgot, n)
    PROVE  Accounted(((s \o t) \o u) \o v, given, forgot \cup {x}, n)
<1> DEFINE r == s \o <<x>>
           w == (t \o u) \o v
<1>1. t \o u \in Seq(Nat) /\ <<x>> \in Seq(Nat)
  BY Closed
<1>2. r \in Seq(Nat)
  BY <1>1, Closed
<1>3. w \in Seq(Nat)
  BY <1>1, Closed, Zenon
<1>4. ((s \o t) \o u) \o v = s \o w
  <2>1. (s \o t) \o u = s \o (t \o u)
    BY Assoc, Zenon
  <2>2. (s \o (t \o u)) \o v = s \o w
    BY <1>1, Assoc, Zenon
  <2> QED
    BY <2>1, <2>2, Zenon
<1> HIDE DEF r
<1>5. ((r \o t) \o u) \o v = r \o w
  <2>1. (r \o t) \o u = r \o (t \o u)
    BY <1>2, Assoc, Zenon
  <2>2. (r \o (t \o u)) \o v = r \o w
    BY <1>1, <1>2, Assoc, Zenon
  <2> QED
    BY <2>1, <2>2, Zenon
<1> HIDE DEF w
<1>6. Accounted(r \o w, given, forgot, n)
  BY <1>5 DEF r
<1>7. Accounted((s \o <<x>>) \o w, given, forgot, n)
  BY <1>6 DEF r
<1>8. Accounted(s \o w, given, forgot \cup {x}, n)
  BY <1>3, <1>7, AccountedLost
<1> QED
  BY <1>4, <1>8

LEMMA M17txAccount ==
    ASSUME AccountInv, NetdM17tx
    PROVE  AccountInv'
<1> USE DEF M17tx!Goes
<1> DEFINE z == fetched \o to_radio
           rest(s) == (s \o InTun) \o tun_in
<1>1. /\ M17tx!M17txStep
      /\ UNCHANGED <<tun_pc, tun_in, from_net_packet, lost, arrived, radio_pc, left, fetched>>
  BY DEF NetdM17tx, radioVars
<1>2. UNCHANGED running
  BY <1>1 DEF M17tx!M17txStep, M17tx!TestRunning, M17tx!ConsumeTimesOut, M17tx!ConsumeRouted,
              M17tx!ConsumeTooLong, M17tx!ConsumeNoRoute, M17tx!AddToRadio, M17tx!AddTimesOut
<1>3. /\ fetched \in Seq(Nat) /\ to_radio \in Seq(Nat) /\ from_net \in Seq(Nat)
      /\ tun_in \in Seq(Nat) /\ InTun \in Seq(Nat) /\ z \in Seq(Nat)
      /\ Accounted(Path(fetched, to_radio, InM17tx, from_net, InTun, tun_in),
                   lost, forgotten, arrived)
  BY PathTyped DEF AccountInv
<1>4. InTun' = InTun
  BY <1>1 DEF InTun
<1>5. Path(fetched, to_radio, InM17tx, from_net, InTun, tun_in)
         = rest((z \o InM17tx) \o from_net)
  BY DEF Path
<1>6. Path(fetched, to_radio, InM17tx, from_net, InTun, tun_in)'
         = rest(((fetched \o to_radio') \o InM17tx') \o from_net')
  BY <1>1, <1>4 DEF Path
<1>7. ASSUME Path(fetched, to_radio, InM17tx, from_net, InTun, tun_in)'
                = Path(fetched, to_radio, InM17tx, from_net, InTun, tun_in),
             forgotten' = forgotten
      PROVE  Accounted(Path(fetched, to_radio, InM17tx, from_net, InTun, tun_in),
                       lost, forgotten, arrived)'
  BY <1>1, <1>3, <1>7 DEF Accounted, Ordered
<1>8. CASE M17tx!TestRunning \/ M17tx!ConsumeTimesOut
  <2>1. /\ UNCHANGED <<from_net, to_radio, raw, forgotten>>
        /\ m17_pc \notin {"add", "threw"} /\ m17_pc' \notin {"add", "threw"}
    BY <1>8 DEF M17tx!TestRunning, M17tx!ConsumeTimesOut
  <2> QED
    BY <1>1, <1>2, <1>4, <2>1, PathUntouched DEF InM17tx, AccountInv
<1>9. CASE M17tx!ConsumeRouted \/ M17tx!ConsumeTooLong
  <2>1. /\ m17_pc = "consume" /\ m17_pc' \in {"add", "threw"} /\ from_net # <<>>
        /\ raw' = Head(from_net) /\ from_net' = Tail(from_net)
        /\ UNCHANGED <<to_radio, forgotten>>
    BY <1>9 DEF M17tx!ConsumeRouted, M17tx!ConsumeTooLong
  <2>2. Head(from_net) \in Nat /\ Tail(from_net) \in Seq(Nat)
    BY <1>3, <2>1, HeadTailProperties
  <2>3. /\ InM17tx = <<>> /\ InM17tx' = <<Head(from_net)>>
        /\ z \o <<>> = z
        /\ (z \o <<Head(from_net)>>) \o Tail(from_net) = z \o from_net
    BY <1>3, <2>1, MoveHead, ConcatEmptySeq DEF InM17tx, Held
  <2>4. Accounted(Path(fetched, to_radio, InM17tx, from_net, InTun, tun_in),
                  lost, forgotten, arrived)'
    <3>1. ((fetched \o to_radio') \o InM17tx') \o from_net' = (z \o InM17tx) \o from_net
      BY <2>1, <2>3
    <3> QED
      BY <1>5, <1>6, <1>7, <2>1, <3>1
  <2> QED
    BY <1>1, <1>2, <2>1, <2>2, <2>4 DEF AccountInv
<1>10. CASE M17tx!ConsumeNoRoute
  <2>1. /\ m17_pc = "consume" /\ m17_pc' = "loop" /\ from_net # <<>>
        /\ forgotten' = forgotten \cup {Head(from_net)} /\ from_net' = Tail(from_net)
        /\ UNCHANGED <<to_radio, raw>>
    BY <1>10 DEF M17tx!ConsumeNoRoute
  <2>2. Head(from_net) \in Nat /\ Tail(from_net) \in Seq(Nat) /\ <<Head(from_net)>> \in Seq(Nat)
    BY <1>3, <2>1, HeadTailProperties
  <2>3. /\ InM17tx = <<>> /\ InM17tx' = <<>> /\ z \o <<>> = z
        /\ (z \o <<Head(from_net)>>) \o Tail(from_net) = z \o from_net
    BY <1>3, <2>1, <2>2, MoveHead, ConcatEmptySeq DEF InM17tx, Held
  <2>4. Path(fetched, to_radio, InM17tx, from_net, InTun, tun_in)
           = rest((z \o <<Head(from_net)>>) \o Tail(from_net))
    BY <1>5, <2>3
  <2>5. Path(fetched, to_radio, InM17tx, from_net, InTun, tun_in)' = rest(z \o Tail(from_net))
    <3>1. ((fetched \o to_radio') \o InM17tx') \o from_net' = z \o Tail(from_net)
      BY <2>1, <2>3
    <3> QED
      BY <1>6, <3>1
  <2> HIDE DEF z
  <2>6. Accounted(rest(z \o Tail(from_net)), lost, forgotten \cup {Head(from_net)}, arrived)
    BY <1>3, <2>2, <2>4, AccountedLostInside
  <2>7. Accounted(Path(fetched, to_radio, InM17tx, from_net, InTun, tun_in),
                  lost, forgotten, arrived)'
    BY <1>1, <2>1, <2>5, <2>6 DEF Accounted, Ordered
  <2> QED
    BY <1>1, <1>2, <2>1, <2>2, <2>7 DEF AccountInv
<1>11. CASE M17tx!AddToRadio
  <2>1. /\ m17_pc = "add" /\ m17_pc' = "loop" /\ raw \in Nat
        /\ to_radio' = Append(to_radio, raw) /\ UNCHANGED <<from_net, forgotten>>
    BY <1>11 DEF M17tx!AddToRadio, AccountInv
  <2>2. /\ InM17tx = <<raw>> /\ InM17tx' = <<>>
        /\ (fetched \o Append(to_radio, raw)) \o <<>> = z \o <<raw>>
        /\ to_radio' \in Seq(Nat) /\ Len(to_radio') = Len(to_radio) + 1
    BY <1>3, <2>1, MoveToEnd, AppendProperties DEF InM17tx, Held
  <2>3. Accounted(Path(fetched, to_radio, InM17tx, from_net, InTun, tun_in),
                  lost, forgotten, arrived)'
    <3>1. ((fetched \o to_radio') \o InM17tx') \o from_net' = (z \o InM17tx) \o from_net
      BY <2>1, <2>2
    <3> QED
      BY <1>5, <1>6, <1>7, <2>1, <3>1
  <2>4. to_radio' # <<>>
    BY <1>3, <2>2, EmptySeq
  <2> QED
    BY <1>1, <1>2, <2>1, <2>2, <2>3, <2>4 DEF AccountInv
<1>12. CASE M17tx!AddTimesOut
  <2>1. /\ m17_pc = "add" /\ m17_pc' = "loop" /\ raw \in Nat
        /\ forgotten' = forgotten \cup {raw} /\ UNCHANGED <<from_net, to_radio>>
    BY <1>12 DEF M17tx!AddTimesOut, AccountInv
  <2>2. InM17tx = <<raw>> /\ InM17tx' = <<>> /\ z \o <<>> = z
    BY <1>3, <2>1, ConcatEmptySeq DEF InM17tx, Held
  <2>3. Path(fetched, to_radio, InM17tx, from_net, InTun, tun_in) = rest((z \o <<raw>>) \o from_net)
    BY <1>5, <2>2
  <2>4. Path(fetched, to_radio, InM17tx, from_net, InTun, tun_in)' = rest(z \o from_net)
    <3>1. ((fetched \o to_radio') \o InM17tx') \o from_net' = z \o from_net
      BY <2>1, <2>2
    <3> QED
      BY <1>6, <3>1
  <2> HIDE DEF z
  <2>5. Accounted(rest(z \o from_net), lost, forgotten \cup {raw}, arrived)
    BY <1>3, <2>1, <2>3, AccountedLostInside
  <2>6. Accounted(Path(fetched, to_radio, InM17tx, from_net, InTun, tun_in),
                  lost, forgotten, arrived)'
    BY <1>1, <2>1, <2>4, <2>5 DEF Accounted, Ordered
  <2> QED
    BY <1>1, <1>2, <2>1, <2>6 DEF AccountInv
<1> QED
  BY <1>1, <1>8, <1>9, <1>10, <1>11, <1>12 DEF M17tx!M17txStep

LEMMA RadioAccount ==
    ASSUME AccountInv, NetdRadio
    PROVE  AccountInv'
<1> USE DEF Radio!Goes
<1>1. UNCHANGED <<tun_pc, from_net_packet, from_net, tun_in, lost, arrived, m17_pc, raw, forgotten>>
  BY DEF NetdRadio, vars, netVars, m17txVars, CallAdd, BeginPush, EndPush
<1>2. InM17tx' = InM17tx /\ InTun' = InTun
  BY <1>1 DEF InM17tx, InTun
<1>3. CASE \/ Radio!Listens \/ Radio!HearsNone \/ Radio!HearsPacket \/ Radio!AddReturns
           \/ Radio!Ends \/ Radio!Crash
  <2>1. /\ UNCHANGED <<running, to_radio, left, fetched>>
        /\ radio_pc' \notin {"consume", "sending"}
        /\ radio_pc = "sending" => radio_pc' = "crashed"
        /\ radio_pc # "crashed"
    BY <1>3 DEF Radio!Listens, Radio!HearsNone, Radio!HearsPacket, Radio!AddReturns,
                Radio!Ends, Radio!Crash
  <2> QED
    BY <1>1, <1>2, <2>1, PathUntouched DEF AccountInv
<1>4. CASE Radio!TxTest
  <2>1. /\ UNCHANGED <<running, to_radio, left, fetched>>
        /\ radio_pc = "rx" /\ to_radio # <<>>
    BY <1>4 DEF Radio!TxTest
  <2> QED
    BY <1>1, <1>2, <1>4, <2>1, PathUntouched DEF AccountInv, Radio!TxTest
<1>5. CASE Radio!SendBlock
  <2>1. /\ UNCHANGED <<running, to_radio, fetched>> /\ radio_pc = "sending"
        /\ radio_pc' = IF running /\ left' > 0 THEN "sending" ELSE "rx"
    BY <1>5 DEF Radio!SendBlock
  <2>2. Accounted(Path(fetched, to_radio, InM17tx, from_net, InTun, tun_in),
                  lost, forgotten, arrived)'
    <3>1. Path(fetched, to_radio, InM17tx, from_net, InTun, tun_in)' =
             Path(fetched, to_radio, InM17tx, from_net, InTun, tun_in)
      BY <1>1, <1>2, <2>1 DEF Path
    <3> QED
      BY <1>1, <3>1 DEF AccountInv, Accounted, Ordered
  <2> QED
    BY <1>1, <2>1, <2>2 DEF AccountInv
<1>6. CASE Radio!Consume
  <2>1. /\ radio_pc = "consume" /\ radio_pc' = "sending" /\ to_radio # <<>>
        /\ fetched' = Append(fetched, Head(to_radio)) /\ to_radio' = Tail(to_radio)
        /\ running' = running
    BY <1>6 DEF Radio!Consume, AccountInv
  <2>2. /\ fetched' \in Seq(Nat) /\ to_radio' \in Seq(Nat)
        /\ fetched' \o to_radio' = fetched \o to_radio
    BY <2>1, MoveHead, HeadTailProperties, AppendProperties DEF AccountInv
  <2>3. Accounted(Path(fetched, to_radio, InM17tx, from_net, InTun, tun_in),
                  lost, forgotten, arrived)'
    <3>1. Path(fetched, to_radio, InM17tx, from_net, InTun, tun_in)' =
             Path(fetched, to_radio, InM17tx, from_net, InTun, tun_in)
      BY <1>1, <1>2, <2>2 DEF Path
    <3> QED
      BY <1>1, <3>1 DEF AccountInv, Accounted, Ordered
  <2> QED
    BY <1>1, <2>1, <2>2, <2>3 DEF AccountInv
<1>7. CASE BeginPush /\ UNCHANGED <<radioVars, to_radio>>
  BY <1>1, <1>2, <1>7, PathUntouched DEF AccountInv, BeginPush, radioVars
<1> QED
  BY <1>3, <1>4, <1>5, <1>6, <1>7 DEF NetdRadio, Radio!RadioStep

LEMMA RestAccount ==
    ASSUME AccountInv, NetdMon \/ Main \/ Outside \/ UNCHANGED netdVars
    PROVE  AccountInv'
<1>1. CASE NetdMon \/ Main \/ UNCHANGED netdVars \/ (Sigint /\ TunRest)
           \/ (GetPacketFails /\ TunRest)
  <2>1. /\ UNCHANGED <<tun_in, from_net, lost, arrived>>
        /\ UNCHANGED <<to_radio, m17_pc, raw, forgotten, radio_pc, left, fetched>>
        /\ running' = running \/ running' = FALSE
        /\ \/ UNCHANGED <<tun_pc, from_net_packet>>
           \/ tun_pc = "get" /\ tun_pc' = "crashed"
    <3>1. CASE NetdMon
      BY <3>1 DEF NetdMon, MonStep, MonTestRunning, MonWaits, MonWrites, MonStopsSpinning,
                  MonGoes, TunRest, m17txVars, radioVars, netVars
    <3>2. CASE Main \/ UNCHANGED netdVars
      BY <3>2 DEF Main, Joins, netdVars, vars, m17txVars, radioVars, netVars
    <3>3. CASE Sigint /\ TunRest
      BY <3>3 DEF Sigint, TunRest, m17txVars, radioVars, netVars
    <3>4. CASE GetPacketFails /\ TunRest
      BY <3>4 DEF GetPacketFails, TunGoes, TunRest, m17txVars, radioVars
    <3> QED
      BY <1>1, <3>1, <3>2, <3>3, <3>4
  <2>2. InM17tx' = InM17tx /\ InTun' = InTun
    BY <2>1 DEF InM17tx, InTun, Held
  <2>3. /\ tun_pc' = "add" => tun_pc = "add" /\ from_net_packet' = from_net_packet
        /\ tun_pc' = "get" => tun_in # <<>>
        /\ radio_pc' = "consume" => to_radio # <<>>
        /\ left > 0 => radio_pc' \in {"sending", "crashed"} \/ ~running'
    BY <2>1 DEF AccountInv
  <2> QED
    BY <2>1, <2>2, <2>3, PathUntouched
<1>2. CASE KernelQueues /\ TunRest
  <2> DEFINE w == fetched \o to_radio \o InM17tx \o from_net \o InTun
  <2>1. /\ UNCHANGED <<running, tun_pc, from_net, from_net_packet, lost, to_radio, m17_pc, raw,
                       forgotten, radio_pc, left, fetched>>
        /\ arrived' = arrived + 1 /\ tun_in' = Append(tun_in, arrived + 1)
    BY <1>2 DEF KernelQueues, TunRest, m17txVars, radioVars
  <2>2. /\ w \in Seq(Nat) /\ tun_in \in Seq(Nat) /\ arrived \in Nat /\ arrived + 1 \in Nat
        /\ w \o tun_in \in Seq(Nat)
        /\ Accounted(w \o tun_in, lost, forgotten, arrived)
    BY PathTyped DEF AccountInv, Path
  <2>3. InM17tx' = InM17tx /\ InTun' = InTun
    BY <2>1 DEF InM17tx, InTun
  <2>4. Path(fetched, to_radio, InM17tx, from_net, InTun, tun_in)' = w \o Append(tun_in, arrived + 1)
    BY <2>1, <2>3 DEF Path
  <2> HIDE DEF w
  <2>5. w \o Append(tun_in, arrived + 1) = (w \o tun_in) \o <<arrived + 1>>
    <3>1. w \o Append(tun_in, arrived + 1) \in Seq(Nat)
      BY <2>2, AppendProperties, ConcatProperties
    <3> QED
      BY <2>2, <3>1, MoveToEnd, ConcatEmptySeq
  <2>6. Accounted((w \o tun_in) \o <<arrived + 1>>, lost, forgotten, arrived + 1)
    BY <2>2, AccountedArrives
  <2>7. Accounted(Path(fetched, to_radio, InM17tx, from_net, InTun, tun_in),
                  lost, forgotten, arrived)'
    BY <2>1, <2>4, <2>5, <2>6 DEF Accounted, Ordered
  <2>8. tun_in' \in Seq(Nat) /\ tun_in' # <<>>
    BY <2>1, <2>2, AppendProperties, EmptySeq
  <2> QED
    BY <2>1, <2>2, <2>7, <2>8 DEF AccountInv
<1> QED
  BY <1>1, <1>2 DEF Outside

\* Every packet of the interface is at exactly one place, in the order of the
\* kernel, for any number of packets, blocks and any size of the queues.
THEOREM AccountTheorem == NetdSpec => []PacketsAccounted
<1>1. AccountInv => PacketsAccounted
  BY DEF AccountInv, Accounted, Ordered, Path, InM17tx, InTun, PacketsAccounted
<1>2. AccountInv /\ [NetdNext]_netdVars => AccountInv'
  BY TunAccount, M17txAccount, RadioAccount, RestAccount DEF NetdNext
<1> QED
  BY <1>1, <1>2, AccountInit, PTL DEF NetdSpec

(***************************************************************************)
(* Types.  The radio thread is in from_radio.add() exactly while a push of *)
(* to_net is under way, and m17tx_thread adds only a packet it has.        *)
(***************************************************************************)
M17txType == /\ m17_pc \in {"loop", "consume", "add", "done", "threw"}
             /\ raw \in (1 .. MaxTun) \cup {NoPacket}
             /\ m17_pc = "add" => raw \in 1 .. MaxTun
             /\ forgotten \subseteq 1 .. MaxTun
             /\ to_radio \in Seq(1 .. MaxTun)

RadioType == /\ fetched \in Seq(1 .. MaxTun)
             /\ radio_pc \in {"rx", "receive", "add", "consume", "sending", "end", "crashed"}
             /\ radio_pc = "consume" => to_radio # <<>>
             /\ left \in 0 .. Blocks
             /\ radio_pc = "sending" => left \in 1 .. Blocks

PushType == push_pc = "idle" <=> radio_pc # "add"

MainType == main_pc \in {"join tun", "join radio", "join m17tx", "returned"}

NetdTypeInv == M17txType /\ RadioType /\ PushType /\ MainType

LEMMA NetdTypeInit == NetdInit => NetdTypeInv
<1> SUFFICES ASSUME NetdInit PROVE NetdTypeInv
  OBVIOUS
<1>1. M17txType
  <2>1. <<>> \in Seq(1 .. MaxTun)
    BY EmptySeq
  <2> QED
    BY <2>1 DEF NetdInit, M17tx!M17txInit, M17txType
<1>2. RadioType
  <2>1. <<>> \in Seq(1 .. MaxTun) /\ 0 \in 0 .. Blocks
    BY EmptySeq, BlocksAssumption
  <2> QED
    BY <2>1 DEF NetdInit, Radio!RadioInit, RadioType
<1>3. PushType /\ MainType
  BY DEF NetdInit, Init, Radio!RadioInit, PushType, MainType
<1> QED
  BY <1>1, <1>2, <1>3 DEF NetdTypeInv

LEMMA M17txTypeStep ==
    ASSUME TypeInv, NetdTypeInv, NetdM17tx
    PROVE  NetdTypeInv'
<1> USE DEF M17tx!Goes
<1>1. /\ UNCHANGED <<push_pc, radio_pc, left, fetched, main_pc>>
      /\ M17tx!M17txStep
  BY DEF NetdM17tx, pushVars, radioVars
<1>2. M17txType /\ RadioType /\ from_net \in Seq(1 .. MaxTun)
  BY DEF NetdTypeInv, TypeInv, TxType
<1>3. PushType' /\ MainType'
  BY <1>1 DEF NetdTypeInv, PushType, MainType
<1>4. M17txType' /\ (to_radio # <<>> => to_radio' # <<>>)
  <2>1. CASE M17tx!TestRunning \/ M17tx!ConsumeTimesOut
    BY <1>2, <2>1 DEF M17tx!TestRunning, M17tx!ConsumeTimesOut, M17txType
  <2>2. CASE M17tx!ConsumeRouted \/ M17tx!ConsumeTooLong \/ M17tx!ConsumeNoRoute
    <3>1. from_net # <<>> /\ to_radio' = to_radio
      BY <2>2 DEF M17tx!ConsumeRouted, M17tx!ConsumeTooLong, M17tx!ConsumeNoRoute
    <3>2. Head(from_net) \in 1 .. MaxTun
      BY <1>2, <3>1, HeadTailProperties
    <3> QED
      BY <1>2, <2>2, <3>1, <3>2
         DEF M17tx!ConsumeRouted, M17tx!ConsumeTooLong, M17tx!ConsumeNoRoute, M17txType
  <2>3. CASE M17tx!AddToRadio
    <3>1. /\ m17_pc = "add" /\ m17_pc' = "loop" /\ raw' = NoPacket /\ forgotten' = forgotten
          /\ to_radio' = Append(to_radio, raw)
      BY <2>3 DEF M17tx!AddToRadio
    <3>2. to_radio' \in Seq(1 .. MaxTun) /\ to_radio' # <<>>
      BY <1>2, <3>1, AppendProperties, EmptySeq DEF M17txType
    <3> QED
      BY <1>2, <3>1, <3>2 DEF M17txType
  <2>4. CASE M17tx!AddTimesOut
    BY <1>2, <2>4 DEF M17tx!AddTimesOut, M17txType
  <2> QED
    BY <1>1, <2>1, <2>2, <2>3, <2>4 DEF M17tx!M17txStep
<1>5. RadioType'
  BY <1>1, <1>2, <1>4 DEF RadioType
<1> QED
  BY <1>3, <1>4, <1>5 DEF NetdTypeInv

LEMMA RadioTypeStep ==
    ASSUME NetdTypeInv, NetdRadio
    PROVE  NetdTypeInv'
<1> USE DEF Radio!Goes
<1>1. UNCHANGED <<m17_pc, raw, forgotten, main_pc>>
  BY DEF NetdRadio, m17txVars
<1>2. M17txType /\ RadioType /\ PushType /\ MainType'
  BY <1>1 DEF NetdTypeInv, MainType
<1>3. CASE Radio!RadioStep /\ UNCHANGED vars
  <2>1. push_pc' = push_pc
    BY <1>3 DEF vars, pushVars
  <2>2. CASE Radio!Consume
    <3>1. /\ radio_pc = "consume" /\ radio_pc' = "sending" /\ left' = Blocks
          /\ fetched' = Append(fetched, Head(to_radio)) /\ to_radio' = Tail(to_radio)
      BY <2>2 DEF Radio!Consume
    <3>2. to_radio \in Seq(1 .. MaxTun) /\ to_radio # <<>>
      BY <1>2, <3>1 DEF M17txType, RadioType
    <3>3. Head(to_radio) \in 1 .. MaxTun /\ to_radio' \in Seq(1 .. MaxTun)
      BY <3>1, <3>2, HeadTailProperties
    <3>4. fetched' \in Seq(1 .. MaxTun)
      BY <1>2, <3>1, <3>3, AppendProperties DEF RadioType
    <3>5. left' \in 1 .. Blocks /\ left' \in 0 .. Blocks
      BY <3>1, BlocksAssumption
    <3>6. M17txType' /\ RadioType'
      BY <1>1, <1>2, <3>1, <3>3, <3>4, <3>5 DEF M17txType, RadioType
    <3>7. PushType'
      BY <1>2, <2>1, <3>1 DEF PushType
    <3> QED
      BY <1>2, <3>6, <3>7 DEF NetdTypeInv
  <2>3. CASE Radio!SendBlock
    <3>1. /\ radio_pc = "sending" /\ radio_pc' \in {"sending", "rx"} /\ left' = left - 1
          /\ radio_pc' = "sending" => left' > 0
          /\ UNCHANGED <<to_radio, fetched>>
      BY <2>3 DEF Radio!SendBlock
    <3>2. left' \in 0 .. Blocks /\ (radio_pc' = "sending" => left' \in 1 .. Blocks)
      BY <1>2, <3>1, BlocksAssumption DEF RadioType
    <3>3. M17txType' /\ RadioType'
      BY <1>1, <1>2, <3>1, <3>2 DEF M17txType, RadioType
    <3>4. PushType'
      BY <1>2, <2>1, <3>1 DEF PushType
    <3> QED
      BY <1>2, <3>3, <3>4 DEF NetdTypeInv
  <2>4. CASE Radio!Listens \/ Radio!HearsNone \/ Radio!TxTest \/ Radio!Ends \/ Radio!Crash
    <3>1. /\ UNCHANGED <<to_radio, left, fetched>>
          /\ radio_pc # "add" /\ radio_pc' \in {"receive", "rx", "consume", "end", "crashed"}
          /\ radio_pc' = "consume" => to_radio # <<>>
      BY <2>4 DEF Radio!Listens, Radio!HearsNone, Radio!TxTest, Radio!Ends, Radio!Crash
    <3>2. M17txType' /\ RadioType'
      BY <1>1, <1>2, <3>1 DEF M17txType, RadioType
    <3>3. PushType'
      BY <1>2, <2>1, <3>1 DEF PushType
    <3> QED
      BY <1>2, <3>2, <3>3 DEF NetdTypeInv
  <2> QED
    BY <1>3, <2>2, <2>3, <2>4 DEF Radio!RadioStep
<1>4. CASE \/ Radio!HearsPacket /\ CallAdd
           \/ BeginPush /\ push_pc' = "push" /\ UNCHANGED <<radioVars, to_radio>>
           \/ BeginPush /\ push_pc' = "idle" /\ Radio!AddReturns
           \/ EndPush /\ Radio!AddReturns
  <2>1. /\ UNCHANGED <<to_radio, left, fetched>>
        /\ radio_pc' \in {radio_pc, "add", "rx"}
    BY <1>4 DEF Radio!HearsPacket, Radio!AddReturns, radioVars
  <2>2. M17txType' /\ RadioType'
    BY <1>1, <1>2, <2>1 DEF M17txType, RadioType
  <2>3. PushType'
    BY <1>2, <1>4 DEF PushType, Radio!HearsPacket, Radio!AddReturns, radioVars, CallAdd,
                      BeginPush, EndPush
  <2> QED
    BY <1>2, <2>2, <2>3 DEF NetdTypeInv
<1> QED
  BY <1>3, <1>4 DEF NetdRadio

LEMMA OthersTypeStep ==
    ASSUME NetdTypeInv, NetdTun \/ NetdMon \/ Main \/ Outside \/ UNCHANGED netdVars
    PROVE  NetdTypeInv'
<1>1. UNCHANGED <<to_radio, m17_pc, raw, forgotten, radio_pc, left, fetched, push_pc>>
  <2>1. CASE NetdTun
    BY <2>1 DEF NetdTun, TunRest, TunStep, TestRunning, Select, SelectNothing, GetPacket,
                AddToFromNet, AddTimesOut, DrainMore, DrainEnds, BeginPop, PopAndExamine,
                ClearEventfd, Join, m17txVars, radioVars, pushVars
  <2>2. CASE NetdMon
    BY <2>2 DEF NetdMon, TunRest, MonStep, MonTestRunning, MonWaits, MonWrites,
                MonStopsSpinning, MonGoes, m17txVars, radioVars, pushVars
  <2>3. CASE Main \/ UNCHANGED netdVars
    BY <2>3 DEF Main, Joins, netdVars, vars, m17txVars, radioVars, pushVars
  <2>4. CASE Outside
    BY <2>4 DEF Outside, TunRest, Sigint, KernelQueues, GetPacketFails, m17txVars, radioVars,
                pushVars
  <2> QED
    BY <2>1, <2>2, <2>3, <2>4
<1>2. MainType'
  BY DEF NetdTypeInv, MainType, NetdTun, NetdMon, Outside, TunRest, Main, Joins, netdVars
<1> QED
  BY <1>1, <1>2 DEF NetdTypeInv, M17txType, RadioType, PushType

\* Types of the daemon's variables; the radio thread is in from_radio.add()
\* exactly while a push of to_net is under way.
THEOREM NetdTypeTheorem == NetdSpec => []NetdTypeOK
<1>1. NetdInit => Init
  BY DEF NetdInit
<1>2. TypeInv /\ NetdTypeInv /\ [NetdNext]_netdVars => NetdTypeInv'
  BY M17txTypeStep, RadioTypeStep, OthersTypeStep DEF NetdNext
<1>3. TypeInv /\ ReceiveInv /\ [NetdNext]_netdVars => TypeInv' /\ ReceiveInv'
  BY NetdStepSeen, TypeStep, ReceiveStep
<1>4. TypeOK /\ NetdTypeInv => NetdTypeOK
  <2> SUFFICES ASSUME TypeOK, NetdTypeInv PROVE NetdTypeOK
    OBVIOUS
  <2>1. (push_pc = "idle") = (radio_pc # "add")
    BY DEF NetdTypeInv, PushType
  <2> QED
    BY <2>1 DEF NetdTypeInv, M17txType, RadioType, MainType, NetdTypeOK
<1>5. NetdSpec => []TypeOK
  BY TunRefinement, TypeTheorem, PTL DEF ImplementsTunThread
<1> QED
  BY <1>1, <1>2, <1>3, <1>4, <1>5, NetdTypeInit, TypeInit, ReceiveInit, PTL DEF NetdSpec
=============================================================================
