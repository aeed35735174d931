----------------------- MODULE ConsumerProducerQueue -----------------------
(***************************************************************************)
(* inc/ConsumerProducer.h: the monitor (one mutex, one condition variable, *)
(* a std::queue) every pair of M17Netd's threads talks through.  A step is *)
(* what a thread does between two points where another may interleave.     *)
(* Producers and consumers wait on the SAME condition variable, waits are  *)
(* bounded by a deadline and may end spuriously, and the size is also read *)
(* without the mutex (isEmpty in radio_thread.cpp and tun_threads.cpp).    *)
(***************************************************************************)
EXTENDS Integers, Sequences, FiniteSets

CONSTANTS Threads,      \* the threads that share the queue
          Items,        \* what is queued
          MaxSize,      \* the constructor's mxsz
          NoItem,       \* a call or a result that carries no item
          NoThread      \* owner of the free mutex

ASSUME MaxSizeAssumption  == MaxSize \in Nat
ASSUME NoItemAssumption   == NoItem \notin Items
ASSUME NoThreadAssumption == NoThread \notin Threads

VARIABLES cpq,          \* std::queue<T>, front first
          mutex,        \* the thread that holds it, or NoThread
          pc,           \* pc[t]: where thread t is
          expired,      \* expired[t]: the deadline of t's wait_for has passed
          call,         \* call[t]: the member function called, its argument
          result        \* result[t]: what it returned, what consume() got

vars == <<cpq, mutex, pc, expired, call, result>>

Calls   == [op : {"add"}, item : Items]
             \cup [op : {"consume", "wait_for_non_empty", "clear", "isEmpty"},
                   item : {NoItem}]
Results == [ret : Int, item : Items \cup {NoItem}]
Nothing == [ret |-> 0, item |-> NoItem]

\* A variant whose item was never initialised.
Failed_Uninitialised(op) ==
    [ret |-> IF op = "wait_for_non_empty" THEN 0 ELSE -1, item |-> NoThread]

Failed(op) == [ret |-> IF op = "wait_for_non_empty" THEN 0 ELSE -1,
               item |-> NoItem]

isFull  == Len(cpq) >= MaxSize
isEmpty == Len(cpq) = 0

\* The predicate a thread in operation op waits for.
Ready(op) == IF op = "add" THEN ~isFull ELSE ~isEmpty

Waiters == {t \in Threads : pc[t] = "waiting"}

Init == /\ cpq = <<>>
        /\ mutex   = NoThread
        /\ pc      = [t \in Threads |-> "idle"]
        /\ expired = [t \in Threads |-> FALSE]
        /\ call    = [t \in Threads |-> [op |-> "clear", item |-> NoItem]]
        /\ result  = [t \in Threads |-> Nothing]

(***************************************************************************)
(* The common shape of add, consume, wait_for_non_empty and clear.         *)
(***************************************************************************)
Call(t) ==
    /\ pc[t] = "idle"
    /\ \E c \in Calls :
          /\ call' = [call EXCEPT ![t] = c]
          /\ pc' = [pc EXCEPT ![t] = IF c.op = "isEmpty" THEN "look" ELSE "lock"]
    /\ expired' = [expired EXCEPT ![t] = FALSE]
    /\ UNCHANGED <<cpq, mutex, result>>

\* A variant that trusts the wakeup: "if" where wait_for has "while".
Lock_NoRetest(t) ==
    /\ pc[t] \in {"lock", "relock"}
    /\ mutex = NoThread
    /\ mutex' = t
    /\ pc' = [pc EXCEPT ![t] =
                IF pc[t] = "relock" \/ call[t].op = "clear" THEN "mutate" ELSE "test"]
    /\ UNCHANGED <<cpq, expired, call, result>>

\* std::unique_lock at the entry, or the re-acquisition when the wait ends.
\* clear() goes straight to its loop, the others test their predicate.
Lock(t) ==
    /\ pc[t] \in {"lock", "relock"}
    /\ mutex = NoThread
    /\ mutex' = t
    /\ pc' = [pc EXCEPT ![t] = IF call[t].op = "clear" THEN "mutate" ELSE "test"]
    /\ UNCHANGED <<cpq, expired, call, result>>

\* wait_for finds its predicate true.  wait_for_non_empty has nothing more to
\* do: it returns and the unique_lock's destructor releases the mutex.
Proceed(t) ==
    /\ pc[t] = "test"
    /\ Ready(call[t].op)
    /\ IF call[t].op = "wait_for_non_empty"
         THEN /\ mutex' = NoThread
              /\ pc' = [pc EXCEPT ![t] = "return"]
              /\ result' = [result EXCEPT ![t] = [ret |-> 1, item |-> NoItem]]
         ELSE /\ pc' = [pc EXCEPT ![t] = "mutate"]
              /\ UNCHANGED <<mutex, result>>
    /\ UNCHANGED <<cpq, expired, call>>

\* A variant that goes back to sleep after the deadline.
Wait_Forever(t) ==
    /\ pc[t] = "test"
    /\ ~Ready(call[t].op)
    /\ mutex' = NoThread
    /\ pc' = [pc EXCEPT ![t] = "waiting"]
    /\ UNCHANGED <<cpq, expired, call, result>>

\* The predicate is false and the deadline is ahead: release and sleep.
Wait(t) ==
    /\ pc[t] = "test"
    /\ ~Ready(call[t].op)
    /\ ~expired[t]
    /\ mutex' = NoThread
    /\ pc' = [pc EXCEPT ![t] = "waiting"]
    /\ UNCHANGED <<cpq, expired, call, result>>

\* The predicate is still false after the deadline: return -1 (or false).
GiveUp(t) ==
    /\ pc[t] = "test"
    /\ ~Ready(call[t].op)
    /\ expired[t]
    /\ mutex' = NoThread
    /\ pc' = [pc EXCEPT ![t] = "return"]
    /\ result' = [result EXCEPT ![t] = Failed(call[t].op)]
    /\ UNCHANGED <<cpq, expired, call>>

\* The one-second deadline passes; a sleeping thread wakes.
Deadline(t) ==
    /\ pc[t] \in {"test", "waiting", "relock"}
    /\ ~expired[t]
    /\ expired' = [expired EXCEPT ![t] = TRUE]
    /\ pc' = [pc EXCEPT ![t] = IF @ = "waiting" THEN "relock" ELSE @]
    /\ UNCHANGED <<cpq, mutex, call, result>>

SpuriousWakeup(t) ==
    /\ pc[t] = "waiting"
    /\ pc' = [pc EXCEPT ![t] = "relock"]
    /\ UNCHANGED <<cpq, mutex, expired, call, result>>

(***************************************************************************)
(* The critical sections.  Each changes the queue, takes the new size and  *)
(* unlocks; the notification comes after the unlock.                       *)
(***************************************************************************)
Unlock(t, newq, r) ==
    /\ pc[t] = "mutate"
    /\ cpq' = newq
    /\ mutex' = NoThread
    /\ pc' = [pc EXCEPT ![t] = "notify"]
    /\ result' = [result EXCEPT ![t] = r]
    /\ UNCHANGED <<expired, call>>

Push(t) == /\ call[t].op = "add"
           /\ Unlock(t, Append(cpq, call[t].item),
                     [ret |-> Len(cpq) + 1, item |-> NoItem])

\* A variant that takes the newest item.
Pop_Back(t) == /\ call[t].op = "consume"
               /\ Unlock(t, SubSeq(cpq, 1, Len(cpq) - 1),
                         [ret |-> Len(cpq) - 1, item |-> cpq[Len(cpq)]])

Pop(t) == /\ call[t].op = "consume"
          /\ Unlock(t, Tail(cpq), [ret |-> Len(cpq) - 1, item |-> Head(cpq)])

Clear(t) == /\ call[t].op = "clear"
            /\ Unlock(t, <<>>, Nothing)

\* A variant that announces what was added, and not the room that was made.
NotifyAll_Added(t) ==
    /\ pc[t] = "notify"
    /\ pc' = [u \in Threads |-> IF u = t THEN "return"
                               ELSE IF u \in Waiters /\ call[t].op = "add" THEN "relock"
                               ELSE pc[u]]
    /\ UNCHANGED <<cpq, mutex, expired, call, result>>

\* cond.notify_all(): producers and consumers alike wake and test again.
NotifyAll(t) ==
    /\ pc[t] = "notify"
    /\ pc' = [u \in Threads |-> IF u = t THEN "return"
                               ELSE IF u \in Waiters THEN "relock" ELSE pc[u]]
    /\ UNCHANGED <<cpq, mutex, expired, call, result>>

Return(t) ==
    /\ pc[t] = "return"
    /\ pc' = [pc EXCEPT ![t] = "idle"]
    /\ UNCHANGED <<cpq, mutex, expired, call, result>>

\* isEmpty() as callers use it, without the mutex: a data race with a push or
\* a pop in progress, whose outcome may be either answer.
Look(t) ==
    /\ pc[t] = "look"
    /\ \E b \in 0 .. 1 :
          /\ (b = 1) = isEmpty \/ \E u \in Threads : pc[u] = "mutate"
          /\ result' = [result EXCEPT ![t] = [ret |-> b, item |-> NoItem]]
    /\ pc' = [pc EXCEPT ![t] = "return"]
    /\ UNCHANGED <<cpq, mutex, expired, call>>

(***************************************************************************)
(* Specification.  The scheduler runs every thread and deadlines pass.     *)
(* Lock needs strong fairness: the mutex is free again and again, and the  *)
(* kernel's futex queue lets a thread that keeps trying get it.  Nothing   *)
(* makes a thread call, and nothing makes spurious wakeups happen.         *)
(***************************************************************************)
Step(t) == \/ Proceed(t) \/ Wait(t) \/ GiveUp(t) \/ Push(t) \/ Pop(t)
           \/ Clear(t) \/ NotifyAll(t) \/ Return(t) \/ Look(t)

Next == \E t \in Threads :
            Call(t) \/ Lock(t) \/ Step(t) \/ Deadline(t) \/ SpuriousWakeup(t)

Spec == Init /\ [][Next]_vars

Fairness == \A t \in Threads : /\ WF_vars(Step(t))
                               /\ WF_vars(Deadline(t))
                               /\ SF_vars(Lock(t))

FairSpec == Spec /\ Fairness

(***************************************************************************)
(* Properties.                                                             *)
(***************************************************************************)
Stages == {"idle", "lock", "test", "waiting", "relock", "mutate", "notify",
           "return", "look"}

\* Every variable has the type of the C++ object it stands for.
TypeOK == /\ cpq \in Seq(Items)
          /\ mutex \in Threads \cup {NoThread}
          /\ pc \in [Threads -> Stages]
          /\ expired \in [Threads -> BOOLEAN]
          /\ call \in [Threads -> Calls]
          /\ result \in [Threads -> Results]

\* The threads inside a critical section are exactly the mutex's owner, and
\* the predicate wait_for found true still holds when the owner acts on it: a
\* push never finds the queue full, a pop never finds it empty, whatever
\* happened between the wakeup and the re-acquisition of the mutex.
InCriticalSection(t) == pc[t] \in {"test", "mutate"}

CriticalSection ==
    /\ \A t \in Threads : InCriticalSection(t) <=> mutex = t
    /\ \A t \in Threads :
          pc[t] = "mutate" => call[t].op = "clear" \/ Ready(call[t].op)

\* The queue never holds more than maxSize items.
Capacity == Len(cpq) <= MaxSize

\* No lost wakeup although producers and consumers share the condition
\* variable and the notification follows the unlock: a thread sleeping on a
\* predicate that is true is about to be woken by some notify_all.
NoLostWakeup == \A t \in Threads :
    pc[t] = "waiting" /\ Ready(call[t].op) => \E u \in Threads : pc[u] = "notify"

\* The monitor implements the promise: FIFO, each operation at one instant.
AbsStage(t) == CASE pc[t] = "idle"                 -> "idle"
                 [] pc[t] \in {"notify", "return"} -> "done"
                 [] OTHER                          -> "pending"

Abs == INSTANCE BoundedQueue WITH
           q <- cpq, stage <- [t \in Threads |-> AbsStage(t)]

ImplementsBoundedQueue == Abs!Spec

\* Every call returns, with a timeout if need be: no thread of the daemon can
\* be blocked for ever by a full or an empty queue.
EveryCallReturns == \A t \in Threads : pc[t] # "idle" ~> pc[t] = "idle"
=============================================================================
