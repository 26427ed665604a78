----------------------------- MODULE AtomicQueue -----------------------------
(***************************************************************************)
(* What a WorkQueue promises to the stages that share it: a FIFO queue     *)
(* whose two operations are atomic.  The pipeline modules use queues at    *)
(* this level; WorkQueue.tla is the mutex-and-condition-variable code      *)
(* that is shown to implement it.                                          *)
(***************************************************************************)
EXTENDS Sequences

CONSTANTS Consumers,   \* threads that call wait_and_pop
          Items,       \* one element per call of push_work
          NoItem       \* "no item in hand"

VARIABLES queue,       \* the items pushed and not yet popped, oldest first
          todo,        \* the items not pushed yet
          held         \* the item each consumer is handling, or NoItem

vars == <<queue, todo, held>>

Init ==
    /\ queue = <<>>
    /\ todo = Items
    /\ held = [c \in Consumers |-> NoItem]

Put(i) ==
    /\ i \in todo
    /\ todo' = todo \ {i}
    /\ queue' = Append(queue, i)
    /\ UNCHANGED held

Get(c) ==
    /\ held[c] = NoItem
    /\ queue # <<>>
    /\ held' = [held EXCEPT ![c] = Head(queue)]
    /\ queue' = Tail(queue)
    /\ UNCHANGED todo

Done(c) ==
    /\ held[c] # NoItem
    /\ held' = [held EXCEPT ![c] = NoItem]
    /\ UNCHANGED <<queue, todo>>

Next ==
    \/ \E i \in Items : Put(i)
    \/ \E c \in Consumers : Get(c) \/ Done(c)

Spec == Init /\ [][Next]_vars

(* A queued item is taken whenever some consumer stays free to take it.    *)
FairSpec == Spec /\ WF_vars(\E c \in Consumers : Get(c))
=============================================================================
