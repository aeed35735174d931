-------------------- MODULE ConsumerProducerQueue_proofs --------------------
(***************************************************************************)
(* Theorems about ConsumerProducerQueue, for every set of threads, every   *)
(* set of items and every capacity.                                        *)
(***************************************************************************)
EXTENDS ConsumerProducerQueue, TLAPS

\* Which operations can be at which point: clear() never tests or waits,
\* wait_for_non_empty never changes the queue, isEmpty() never locks.
OperationAt == \A t \in Threads :
    /\ pc[t] \in {"test", "waiting", "relock"} =>
          call[t].op \in {"add", "consume", "wait_for_non_empty"}
    /\ pc[t] = "lock" =>
          call[t].op \in {"add", "consume", "wait_for_non_empty", "clear"}
    /\ pc[t] = "mutate" => call[t].op \in {"add", "consume", "clear"}
    /\ pc[t] = "look" => call[t].op = "isEmpty"

\* The inductive invariant.  A pop is type correct only because the queue is
\* not empty, which needs CriticalSection, which needs OperationAt.
IndInv == TypeOK /\ OperationAt /\ CriticalSection /\ Capacity

LEMMA InitInv == Init => IndInv
<1>1. SUFFICES ASSUME Init PROVE IndInv
  OBVIOUS
<1>2. TypeOK
  BY <1>1 DEF Init, TypeOK, Calls, Results, Nothing, Stages
<1>3. OperationAt /\ CriticalSection
  BY <1>1, NoThreadAssumption DEF Init, OperationAt, CriticalSection, InCriticalSection
<1>4. Capacity
  BY <1>1, MaxSizeAssumption DEF Init, Capacity
<1>5. QED
  BY <1>2, <1>3, <1>4 DEF IndInv

LEMMA StepInv == IndInv /\ [Next]_vars => IndInv'
<1> SUFFICES ASSUME IndInv, [Next]_vars PROVE IndInv'
  OBVIOUS
<1> USE DEF IndInv
<1>0. CASE UNCHANGED vars
  BY <1>0 DEF vars, TypeOK, OperationAt, CriticalSection, InCriticalSection, Capacity,
              Ready, isFull, isEmpty
<1>a. CASE Next
  <2> SUFFICES ASSUME NEW t \in Threads,
                      Call(t) \/ Lock(t) \/ Step(t) \/ Deadline(t) \/ SpuriousWakeup(t)
               PROVE IndInv'
    BY <1>a DEF Next
  <2>1. CASE Call(t)
    <3>1. PICK c \in Calls : call' = [call EXCEPT ![t] = c]
                          /\ pc' = [pc EXCEPT ![t] = IF c.op = "isEmpty" THEN "look" ELSE "lock"]
      BY <2>1 DEF Call
    <3>2. TypeOK'
      BY <2>1, <3>1 DEF Call, TypeOK, Stages
    <3>3. OperationAt'
      BY <3>1, <3>2 DEF TypeOK, OperationAt, Calls
    <3>4. CriticalSection' /\ Capacity'
      BY <2>1, <3>1, <3>2 DEF Call, TypeOK, CriticalSection, InCriticalSection, Capacity,
                         Ready, isFull, isEmpty
    <3>5. QED
      BY <3>2, <3>3, <3>4
  <2>2. CASE Lock(t)
    BY <2>2, NoThreadAssumption DEF Lock, TypeOK, Stages, OperationAt, CriticalSection,
            InCriticalSection, Capacity, Ready, isFull, isEmpty
  <2>3. CASE Proceed(t)
    <3>1. TypeOK'
      <4>1. pc' \in [Threads -> Stages] /\ mutex' \in Threads \cup {NoThread}
        BY <2>3 DEF Proceed, TypeOK, Stages
      <4>2. [ret |-> 1, item |-> NoItem] \in Results
        BY DEF Results
      <4>3. result' \in [Threads -> Results]
        BY <2>3, <4>2 DEF Proceed, TypeOK
      <4>4. QED
        BY <2>3, <4>1, <4>3 DEF Proceed, TypeOK
    <3>2. OperationAt'
      BY <2>3 DEF Proceed, TypeOK, Stages, OperationAt
    <3>3. CriticalSection' /\ Capacity'
      BY <2>3, NoThreadAssumption DEF Proceed, TypeOK, Stages, OperationAt, CriticalSection, 
            InCriticalSection, Capacity, Ready, isFull, isEmpty
    <3>4. QED
      BY <3>1, <3>2, <3>3
  <2>4. CASE Wait(t)
    BY <2>4, NoThreadAssumption DEF Wait, TypeOK, Stages, OperationAt, CriticalSection,
            InCriticalSection, Capacity, Ready, isFull, isEmpty
  <2>5. CASE GiveUp(t)
    <3>1. TypeOK'
      BY <2>5 DEF GiveUp, TypeOK, Stages, Results, Failed
    <3>2. OperationAt' /\ CriticalSection' /\ Capacity'
      BY <2>5, NoThreadAssumption DEF GiveUp, TypeOK, Stages, OperationAt, CriticalSection,
            InCriticalSection, Capacity, Ready, isFull, isEmpty
    <3>3. QED
      BY <3>1, <3>2
  <2>6. ASSUME NEW newq, NEW r, Unlock(t, newq, r),
               newq \in Seq(Items), Len(newq) <= MaxSize, r \in Results
        PROVE IndInv'
    <3>1. TypeOK'
      BY <2>6 DEF Unlock, TypeOK, Stages
    <3>2. OperationAt' /\ CriticalSection' /\ Capacity'
      BY <2>6, NoThreadAssumption DEF Unlock, TypeOK, Stages, OperationAt, CriticalSection,
            InCriticalSection, Capacity, Ready, isFull, isEmpty
    <3>3. QED
      BY <3>1, <3>2
  <2>7. CASE Push(t)
    <3>1. pc[t] = "mutate" /\ call[t] \in Calls /\ call[t].op = "add" /\ ~isFull
      BY <2>7 DEF Push, Unlock, TypeOK, CriticalSection, Ready
    <3>2. call[t].item \in Items
      BY <3>1 DEF Calls
    <3>3. /\ Append(cpq, call[t].item) \in Seq(Items)
          /\ Len(Append(cpq, call[t].item)) <= MaxSize
      BY <3>1, <3>2, MaxSizeAssumption DEF TypeOK, isFull
    <3>4. [ret |-> Len(cpq) + 1, item |-> NoItem] \in Results
      BY DEF TypeOK, Results
    <3>5. QED
      BY <2>6, <2>7, <3>3, <3>4 DEF Push
  <2>8. CASE Pop(t)
    <3>1. ~isEmpty
      BY <2>8 DEF Pop, Unlock, CriticalSection, Ready
    <3>2. /\ Tail(cpq) \in Seq(Items)
          /\ Len(Tail(cpq)) <= MaxSize
          /\ [ret |-> Len(cpq) - 1, item |-> Head(cpq)] \in Results
      BY <3>1, MaxSizeAssumption DEF TypeOK, isEmpty, Results, Capacity
    <3>3. QED
      BY <2>6, <2>8, <3>2 DEF Pop
  <2>9. CASE Clear(t)
    <3>1. <<>> \in Seq(Items) /\ Len(<<>>) <= MaxSize /\ Nothing \in Results
      BY MaxSizeAssumption DEF Nothing, Results
    <3>2. QED
      BY <2>6, <2>9, <3>1 DEF Clear
  <2>10. CASE NotifyAll(t)
    BY <2>10 DEF NotifyAll, Waiters, TypeOK, Stages, OperationAt, CriticalSection,
            InCriticalSection, Capacity, Ready, isFull, isEmpty
  <2>11. CASE Return(t)
    BY <2>11 DEF Return, TypeOK, Stages, OperationAt, CriticalSection,
            InCriticalSection, Capacity, Ready, isFull, isEmpty
  <2>12. CASE Look(t)
    <3>1. TypeOK'
      BY <2>12 DEF Look, TypeOK, Stages, Results
    <3>2. OperationAt' /\ CriticalSection' /\ Capacity'
      BY <2>12 DEF Look, TypeOK, Stages, OperationAt, CriticalSection,
            InCriticalSection, Capacity, Ready, isFull, isEmpty
    <3>3. QED
      BY <3>1, <3>2
  <2>13. CASE Deadline(t)
    BY <2>13 DEF Deadline, TypeOK, Stages, OperationAt, CriticalSection,
            InCriticalSection, Capacity, Ready, isFull, isEmpty
  <2>14. CASE SpuriousWakeup(t)
    BY <2>14 DEF SpuriousWakeup, TypeOK, Stages, OperationAt, CriticalSection,
            InCriticalSection, Capacity, Ready, isFull, isEmpty
  <2>15. QED
    BY <2>1, <2>2, <2>3, <2>4, <2>5, <2>7, <2>8, <2>9, <2>10, <2>11, <2>12, <2>13, <2>14
       DEF Step
<1>b. QED
  BY <1>0, <1>a

\* The inductive invariant always holds: in particular the variables keep
\* their types, the owner of the mutex is alone in the critical section and
\* acts on a predicate that is still true, and maxSize is never exceeded.
THEOREM Invariance == Spec => []IndInv
<1>1. Init => IndInv
  BY InitInv
<1>2. IndInv /\ [Next]_vars => IndInv'
  BY StepInv
<1>3. QED
  BY <1>1, <1>2, PTL DEF Spec

\* Every variable keeps its type; a pop never runs on an empty queue.
THEOREM TypeCorrect == Spec => []TypeOK
<1>1. IndInv => TypeOK
  BY DEF IndInv
<1>2. QED
  BY <1>1, Invariance, PTL

\* The critical section is exclusive and its owner acts on a true predicate.
THEOREM MutualExclusion == Spec => []CriticalSection
<1>1. IndInv => CriticalSection
  BY DEF IndInv
<1>2. QED
  BY <1>1, Invariance, PTL

\* The queue never exceeds the size it was built with.
THEOREM CapacityRespected == Spec => []Capacity
<1>1. IndInv => Capacity
  BY DEF IndInv
<1>2. QED
  BY <1>1, Invariance, PTL

\* Every change of the queue leaves its author on the way to notify_all, and
\* a thread goes to sleep only on a false predicate.
LEMMA NoLostWakeupStep ==
    TypeOK /\ NoLostWakeup /\ [Next]_vars => NoLostWakeup'
<1> SUFFICES ASSUME TypeOK, NoLostWakeup, [Next]_vars PROVE NoLostWakeup'
  OBVIOUS
<1> USE DEF NoLostWakeup, Ready, isFull, isEmpty
<1>0. CASE UNCHANGED vars
  BY <1>0 DEF vars
<1>a. CASE Next
  <2> SUFFICES ASSUME NEW t \in Threads,
                      Call(t) \/ Lock(t) \/ Step(t) \/ Deadline(t) \/ SpuriousWakeup(t)
               PROVE NoLostWakeup'
    BY <1>a DEF Next
  <2>1. CASE Call(t)
    BY <2>1 DEF Call, TypeOK
  <2>2. CASE Lock(t)
    BY <2>2 DEF Lock, TypeOK
  <2>3. CASE Proceed(t)
    BY <2>3 DEF Proceed, TypeOK
  <2>4. CASE Wait(t)
    BY <2>4 DEF Wait, TypeOK
  <2>5. CASE GiveUp(t)
    BY <2>5 DEF GiveUp, TypeOK
  <2>6. ASSUME NEW newq, NEW r, Unlock(t, newq, r) PROVE NoLostWakeup'
    BY <2>6 DEF Unlock, TypeOK
  <2>7. CASE Push(t) \/ Pop(t) \/ Clear(t)
    BY <2>6, <2>7 DEF Push, Pop, Clear
  <2>8. CASE NotifyAll(t)
    BY <2>8 DEF NotifyAll, Waiters, TypeOK
  <2>9. CASE Return(t)
    BY <2>9 DEF Return, TypeOK
  <2>10. CASE Look(t)
    BY <2>10 DEF Look, TypeOK
  <2>11. CASE Deadline(t)
    BY <2>11 DEF Deadline, TypeOK
  <2>12. CASE SpuriousWakeup(t)
    BY <2>12 DEF SpuriousWakeup, TypeOK
  <2>13. QED
    BY <2>1, <2>2, <2>3, <2>4, <2>5, <2>7, <2>8, <2>9, <2>10, <2>11, <2>12 DEF Step
<1>b. QED
  BY <1>0, <1>a

\* No wakeup is ever lost, although producers and consumers share one
\* condition variable and notify after unlocking.
THEOREM WakeupsNotLost == Spec => []NoLostWakeup
<1>1. Init => NoLostWakeup
  BY DEF Init, NoLostWakeup
<1>2. IndInv => TypeOK
  BY DEF IndInv
<1>3. QED
  BY <1>1, <1>2, NoLostWakeupStep, Invariance, PTL DEF Spec

(***************************************************************************)
(* Refinement: every step of the monitor is a step of BoundedQueue or      *)
(* leaves its variables unchanged.                                         *)
(***************************************************************************)
AbsStages == [t \in Threads |-> AbsStage(t)]

\* A step that moves t inside its call and changes nothing else is invisible.
LEMMA InvisibleStep ==
    ASSUME NEW t \in Threads, TypeOK, TypeOK',
           pc[t] \in {"lock", "test", "waiting", "relock", "mutate", "look"},
           pc'[t] \in {"lock", "test", "waiting", "relock", "mutate", "look"},
           \A u \in Threads \ {t} : pc'[u] = pc[u],
           UNCHANGED <<cpq, call, result>>
    PROVE  UNCHANGED Abs!vars
<1>1. \A u \in Threads : AbsStage(u)' = AbsStage(u)
  BY DEF AbsStage
<1>2. AbsStages' = AbsStages
  BY <1>1 DEF AbsStages
<1>3. QED
  BY <1>2 DEF Abs!vars, AbsStages

\* A step by which t gets the answer of its operation moves its abstract stage
\* from pending to done.
LEMMA EffectStep ==
    ASSUME NEW t \in Threads, TypeOK, TypeOK',
           pc[t] \in {"lock", "test", "waiting", "relock", "mutate", "look"},
           pc'[t] \in {"notify", "return"},
           \A u \in Threads \ {t} : pc'[u] = pc[u]
    PROVE  /\ AbsStages[t] = "pending"
           /\ AbsStages' = [AbsStages EXCEPT ![t] = "done"]
<1>1. AbsStage(t) = "pending" /\ AbsStage(t)' = "done"
  BY DEF AbsStage
<1>2. \A u \in Threads \ {t} : AbsStage(u)' = AbsStage(u)
  BY DEF AbsStage
<1>3. QED
  BY <1>1, <1>2 DEF AbsStages

LEMMA RefinementInit == Init => Abs!Init
<1> SUFFICES ASSUME Init PROVE Abs!Init
  OBVIOUS
<1>1. \A t \in Threads : AbsStage(t) = "idle"
  BY DEF Init, AbsStage
<1>2. QED
  BY <1>1 DEF Init, Abs!Init, Nothing, Abs!Nothing

LEMMA RefinementStep ==
    IndInv /\ IndInv' /\ [Next]_vars => [Abs!Next]_(Abs!vars)
<1> SUFFICES ASSUME IndInv, IndInv', [Next]_vars
             PROVE  Abs!Next \/ UNCHANGED Abs!vars
  OBVIOUS
<1> USE DEF IndInv
<1>0. CASE UNCHANGED vars
  BY <1>0 DEF vars, Abs!vars, AbsStage
<1>a. CASE Next
  <2> SUFFICES ASSUME NEW t \in Threads,
                      Call(t) \/ Lock(t) \/ Step(t) \/ Deadline(t) \/ SpuriousWakeup(t)
               PROVE  Abs!Next \/ UNCHANGED Abs!vars
    BY <1>a DEF Next
  <2>1. CASE Call(t)
    <3>1. PICK c \in Calls : call' = [call EXCEPT ![t] = c]
                          /\ pc' = [pc EXCEPT ![t] = IF c.op = "isEmpty" THEN "look" ELSE "lock"]
      BY <2>1 DEF Call
    <3>2. /\ AbsStage(t) = "idle" /\ AbsStage(t)' = "pending"
          /\ \A u \in Threads \ {t} : AbsStage(u)' = AbsStage(u)
      BY <2>1, <3>1 DEF Call, AbsStage, TypeOK
    <3>3. AbsStages' = [AbsStages EXCEPT ![t] = "pending"] /\ AbsStages[t] = "idle"
      BY <3>2 DEF AbsStages
    <3>4. Abs!Invoke(t)
      BY <2>1, <3>1, <3>3 DEF Call, Abs!Invoke, AbsStages, Calls, Abs!Calls
    <3>5. QED
      BY <3>4 DEF Abs!Next
  <2>2. CASE Lock(t)
    BY <2>2, InvisibleStep DEF Lock, TypeOK
  <2>3. CASE Wait(t)
    BY <2>3, InvisibleStep DEF Wait, TypeOK
  <2>4. CASE Deadline(t)
    BY <2>4, InvisibleStep DEF Deadline, TypeOK
  <2>5. CASE SpuriousWakeup(t)
    BY <2>5, InvisibleStep DEF SpuriousWakeup, TypeOK
  <2>6. CASE Proceed(t)
    <3>1. CASE call[t].op = "wait_for_non_empty"
      <4>1. Abs!TakeEffect(t, "wait_for_non_empty", cpq, [ret |-> 1, item |-> NoItem])
        <5>1. /\ AbsStages[t] = "pending"
              /\ AbsStages' = [AbsStages EXCEPT ![t] = "done"]
          BY <2>6, <3>1, EffectStep DEF Proceed, TypeOK
        <5>2. QED
          BY <2>6, <3>1, <5>1 DEF Proceed, Abs!TakeEffect, AbsStages
      <4>2. cpq # <<>>
        BY <2>6, <3>1 DEF Proceed, Ready, isEmpty
      <4>3. QED
        BY <4>1, <4>2 DEF Abs!Waited, Abs!Next
    <3>2. CASE call[t].op # "wait_for_non_empty"
      BY <2>6, <3>2, InvisibleStep DEF Proceed, TypeOK
    <3>3. QED
      BY <3>1, <3>2
  <2>7. CASE GiveUp(t)
    <3>1. Abs!TakeEffect(t, call[t].op, cpq, Failed(call[t].op))
      <4>1. /\ AbsStages[t] = "pending"
            /\ AbsStages' = [AbsStages EXCEPT ![t] = "done"]
        BY <2>7, EffectStep DEF GiveUp, TypeOK
      <4>2. QED
        BY <2>7, <4>1 DEF GiveUp, TypeOK, Abs!TakeEffect, AbsStages
    <3>2. CASE call[t].op = "add"
      <4>1. Len(cpq) >= MaxSize
        BY <2>7, <3>2, MaxSizeAssumption DEF GiveUp, Ready, isFull
      <4>2. QED
        BY <3>1, <3>2, <4>1 DEF Failed, Abs!NotAdded, Abs!Next
    <3>3. CASE call[t].op # "add"
      <4>1. cpq = <<>>
        BY <2>7, <3>3 DEF GiveUp, Ready, isEmpty, TypeOK
      <4>2. call[t].op \in {"consume", "wait_for_non_empty"}
        BY <2>7, <3>3 DEF GiveUp, OperationAt
      <4>3. QED
        BY <3>1, <4>1, <4>2 DEF Failed, Abs!NotConsumed, Abs!Waited, Abs!Next
    <3>4. QED
      BY <3>2, <3>3
  <2>8. CASE Push(t)
    <3>1. Abs!TakeEffect(t, "add", Append(cpq, call[t].item),
                         [ret |-> Len(cpq) + 1, item |-> NoItem])
      <4>1. /\ AbsStages[t] = "pending"
            /\ AbsStages' = [AbsStages EXCEPT ![t] = "done"]
        BY <2>8, EffectStep DEF Push, Unlock, TypeOK
      <4>2. QED
        BY <2>8, <4>1 DEF Push, Unlock, TypeOK, Abs!TakeEffect, AbsStages
    <3>2. Len(cpq) < MaxSize
      BY <2>8, MaxSizeAssumption DEF Push, Unlock, CriticalSection, Ready, isFull, TypeOK
    <3>3. QED
      BY <3>1, <3>2 DEF Abs!Added, Abs!Next
  <2>9. CASE Pop(t)
    <3>1. Abs!TakeEffect(t, "consume", Tail(cpq),
                         [ret |-> Len(cpq) - 1, item |-> Head(cpq)])
      <4>1. /\ AbsStages[t] = "pending"
            /\ AbsStages' = [AbsStages EXCEPT ![t] = "done"]
        BY <2>9, EffectStep DEF Pop, Unlock, TypeOK
      <4>2. QED
        BY <2>9, <4>1 DEF Pop, Unlock, TypeOK, Abs!TakeEffect, AbsStages
    <3>2. cpq # <<>>
      BY <2>9 DEF Pop, Unlock, CriticalSection, Ready, isEmpty
    <3>3. QED
      BY <3>1, <3>2 DEF Abs!Consumed, Abs!Next
  <2>10. CASE Clear(t)
    <3>1. Abs!TakeEffect(t, "clear", <<>>, Nothing)
      <4>1. /\ AbsStages[t] = "pending"
            /\ AbsStages' = [AbsStages EXCEPT ![t] = "done"]
        BY <2>10, EffectStep DEF Clear, Unlock, TypeOK
      <4>2. QED
        BY <2>10, <4>1 DEF Clear, Unlock, TypeOK, Abs!TakeEffect, AbsStages
    <3>2. QED
      BY <3>1 DEF Nothing, Abs!Nothing, Abs!Cleared, Abs!Next
  <2>11. CASE NotifyAll(t)
    <3>1. \A u \in Threads : AbsStage(u)' = AbsStage(u)
      BY <2>11 DEF NotifyAll, Waiters, AbsStage, TypeOK
    <3>2. AbsStages' = AbsStages
      BY <3>1 DEF AbsStages
    <3>3. QED
      BY <2>11, <3>2 DEF NotifyAll, Abs!vars, AbsStages
  <2>12. CASE Return(t)
    <3>1. /\ AbsStage(t) = "done" /\ AbsStage(t)' = "idle"
          /\ \A u \in Threads \ {t} : AbsStage(u)' = AbsStage(u)
      BY <2>12 DEF Return, AbsStage, TypeOK
    <3>2. AbsStages' = [AbsStages EXCEPT ![t] = "idle"] /\ AbsStages[t] = "done"
      BY <3>1 DEF AbsStages
    <3>3. Abs!Return(t)
      BY <2>12, <3>2 DEF Return, Abs!Return, AbsStages
    <3>4. QED
      BY <3>3 DEF Abs!Next
  <2>13. CASE Look(t)
    <3>1. PICK b \in 0 .. 1 :
             /\ (b = 1) = isEmpty \/ \E u \in Threads : pc[u] = "mutate"
             /\ result' = [result EXCEPT ![t] = [ret |-> b, item |-> NoItem]]
      BY <2>13 DEF Look
    <3>2. Abs!TakeEffect(t, "isEmpty", cpq, [ret |-> b, item |-> NoItem])
      <4>1. /\ AbsStages[t] = "pending"
            /\ AbsStages' = [AbsStages EXCEPT ![t] = "done"]
        BY <2>13, <3>1, EffectStep DEF Look, OperationAt, TypeOK
      <4>2. QED
        BY <2>13, <3>1, <4>1 DEF Look, OperationAt, TypeOK, Abs!TakeEffect, AbsStages
    <3>3. (b = 1) = (cpq = <<>>) \/ \E u \in Threads \ {t} : AbsStages[u] = "pending"
      BY <2>13, <3>1 DEF Look, isEmpty, TypeOK, AbsStages, AbsStage
    <3>4. QED
      BY <3>2, <3>3 DEF Abs!Looked, Abs!Next, AbsStages
  <2>14. QED
    BY <2>1, <2>2, <2>3, <2>4, <2>5, <2>6, <2>7, <2>8, <2>9, <2>10, <2>11, <2>12, <2>13
       DEF Step
<1>b. QED
  BY <1>0, <1>a

\* The monitor implements the abstract FIFO: what a caller can observe is a
\* bounded queue whose operations each take effect at one instant.
THEOREM Refinement == Spec => ImplementsBoundedQueue
<1>1. Init => Abs!Init
  BY RefinementInit
<1>2. IndInv /\ IndInv' /\ [Next]_vars => [Abs!Next]_(Abs!vars)
  BY RefinementStep
<1>3. QED
  BY <1>1, <1>2, Invariance, PTL DEF Spec, ImplementsBoundedQueue, Abs!Spec
=============================================================================
