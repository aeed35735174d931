---------------------------- MODULE BoundedQueue ----------------------------
(***************************************************************************)
(* What class ConsumerProducerQueue promises to its callers: a FIFO of at  *)
(* most MaxSize items on which every operation takes effect at one instant *)
(* between its call and its return.  A call that gives up (-1, or false)   *)
(* found the queue full, or empty, at that instant.  isEmpty() takes no    *)
(* lock: its answer is only meaningful while no other call is in progress. *)
(***************************************************************************)
EXTENDS Integers, Sequences

CONSTANTS Threads,      \* the threads that share the queue
          Items,        \* what is queued (shared_ptr<m17tx>, ...)
          MaxSize,      \* the constructor's mxsz
          NoItem        \* "no item": a call or a result that carries none


VARIABLES q,            \* the queued items, oldest first
          stage,        \* stage[t]: where thread t is in its current call
          call,         \* call[t]: the operation thread t called last
          result        \* result[t]: what that operation returned

vars == <<q, stage, call, result>>

Calls   == [op : {"add"}, item : Items]
             \cup [op : {"consume", "wait_for_non_empty", "clear", "isEmpty"},
                   item : {NoItem}]
Results == [ret : Int, item : Items \cup {NoItem}]
Nothing == [ret |-> 0, item |-> NoItem]

Init == /\ q = <<>>
        /\ stage  = [t \in Threads |-> "idle"]
        /\ call   = [t \in Threads |-> [op |-> "clear", item |-> NoItem]]
        /\ result = [t \in Threads |-> Nothing]

Invoke(t) ==
    /\ stage[t] = "idle"
    /\ stage' = [stage EXCEPT ![t] = "pending"]
    /\ \E c \in Calls : call' = [call EXCEPT ![t] = c]
    /\ UNCHANGED <<q, result>>

\* Thread t, inside operation op, gets the answer r and leaves the queue newq.
TakeEffect(t, op, newq, r) ==
    /\ stage[t] = "pending"
    /\ call[t].op = op
    /\ q' = newq
    /\ stage'  = [stage EXCEPT ![t] = "done"]
    /\ result' = [result EXCEPT ![t] = r]
    /\ UNCHANGED call

Added(t) ==
    /\ Len(q) < MaxSize
    /\ TakeEffect(t, "add", Append(q, call[t].item),
                  [ret |-> Len(q) + 1, item |-> NoItem])

NotAdded(t) ==
    /\ Len(q) >= MaxSize
    /\ TakeEffect(t, "add", q, [ret |-> -1, item |-> NoItem])

Consumed(t) ==
    /\ q # <<>>
    /\ TakeEffect(t, "consume", Tail(q), [ret |-> Len(q) - 1, item |-> Head(q)])

NotConsumed(t) ==
    /\ q = <<>>
    /\ TakeEffect(t, "consume", q, [ret |-> -1, item |-> NoItem])

Waited(t) ==
    TakeEffect(t, "wait_for_non_empty", q,
               [ret |-> IF q = <<>> THEN 0 ELSE 1, item |-> NoItem])

Cleared(t) == TakeEffect(t, "clear", <<>>, Nothing)

\* Unsynchronised: any answer while another call is between its invocation
\* and its effect, the truth otherwise.
Looked(t) ==
    \E b \in 0 .. 1 :
        /\ \/ (b = 1) = (q = <<>>)
           \/ \E u \in Threads \ {t} : stage[u] = "pending"
        /\ TakeEffect(t, "isEmpty", q, [ret |-> b, item |-> NoItem])

Return(t) ==
    /\ stage[t] = "done"
    /\ stage' = [stage EXCEPT ![t] = "idle"]
    /\ UNCHANGED <<q, call, result>>

Next == \E t \in Threads :
            \/ Invoke(t) \/ Return(t)
            \/ Added(t) \/ NotAdded(t) \/ Consumed(t) \/ NotConsumed(t)
            \/ Waited(t) \/ Cleared(t) \/ Looked(t)

Spec == Init /\ [][Next]_vars
=============================================================================
