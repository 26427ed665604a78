------------------------------ MODULE WorkQueue ------------------------------
(***************************************************************************)
(* include/internal_queue.h: the queue between every two stages of the     *)
(* worker module.  Any thread may call push_work; one or two worker        *)
(* threads (main.cc) sit in a loop around wait_and_pop.                    *)
(*                                                                         *)
(* push_work unlocks the mutex before it notifies, and notifies only when  *)
(* the queue was empty, so a wake-up can be late, wasted on a queue        *)
(* another consumer has emptied, or missing for the second of two items.   *)
(***************************************************************************)
EXTENDS Naturals, Sequences

CONSTANTS Producers,   \* threads that call push_work
          Consumers,   \* threads that call wait_and_pop
          Items,       \* one element per call of push_work (bounds the run)
          NoItem,      \* "no item in hand"
          NoThread     \* "the mutex is free"

Threads == Producers \cup Consumers

ASSUME WorkQueueAssumption ==
    /\ Producers \cap Consumers = {}
    /\ Consumers # {}
    /\ NoThread \notin Threads
    /\ NoItem \notin Items

VARIABLES work,        \* std::queue<T> work
          work_mutex,  \* the thread that holds work_mutex, or NoThread
          pc,          \* where each thread is in push_work or wait_and_pop
          item,        \* the item a thread pushes, or has popped
          was_empty,   \* the local was_empty of each push_work
          todo         \* items whose push_work has not been called yet

vars == <<work, work_mutex, pc, item, was_empty, todo>>

(* The consumers blocked in work_available.wait.                           *)
Waiting == {c \in Consumers : pc[c] = "wait"}

Init ==
    /\ work = <<>>
    /\ work_mutex = NoThread
    /\ pc = [t \in Threads |-> IF t \in Producers THEN "idle" ELSE "pop_lock"]
    /\ item = [t \in Threads |-> NoItem]
    /\ was_empty = [p \in Producers |-> FALSE]
    /\ todo = Items
-----------------------------------------------------------------------------
(* push_work *)

CallPush(p) ==
    /\ pc[p] = "idle"
    /\ \E i \in todo :
          /\ item' = [item EXCEPT ![p] = i]
          /\ todo' = todo \ {i}
    /\ pc' = [pc EXCEPT ![p] = "push_lock"]
    /\ UNCHANGED <<work, work_mutex, was_empty>>

PushLock(p) ==
    /\ pc[p] = "push_lock"
    /\ work_mutex = NoThread
    /\ work_mutex' = p
    /\ pc' = [pc EXCEPT ![p] = "push"]
    /\ UNCHANGED <<work, item, was_empty, todo>>

(* Mutant: was_empty is read after the push, so it is never true.          *)
PushItem_ReadsEmptyAfterPush(p) ==
    /\ pc[p] = "push"
    /\ work' = Append(work, item[p])
    /\ was_empty' = [was_empty EXCEPT ![p] = (work' = <<>>)]
    /\ item' = [item EXCEPT ![p] = NoItem]
    /\ pc' = [pc EXCEPT ![p] = "push_unlock"]
    /\ UNCHANGED <<work_mutex, todo>>

(* Mutant: the new item goes to the front of the queue.                    *)
PushItem_AtFront(p) ==
    /\ pc[p] = "push"
    /\ was_empty' = [was_empty EXCEPT ![p] = (work = <<>>)]
    /\ work' = <<item[p]>> \o work
    /\ item' = [item EXCEPT ![p] = NoItem]
    /\ pc' = [pc EXCEPT ![p] = "push_unlock"]
    /\ UNCHANGED <<work_mutex, todo>>

PushItem(p) ==
    /\ pc[p] = "push"
    /\ was_empty' = [was_empty EXCEPT ![p] = (work = <<>>)]
    /\ work' = Append(work, item[p])
    /\ item' = [item EXCEPT ![p] = NoItem]
    /\ pc' = [pc EXCEPT ![p] = "push_unlock"]
    /\ UNCHANGED <<work_mutex, todo>>

PushUnlock(p) ==
    /\ pc[p] = "push_unlock"
    /\ work_mutex' = NoThread
    /\ pc' = [pc EXCEPT ![p] = "notify"]
    /\ UNCHANGED <<work, item, was_empty, todo>>

(* work_available.notify_one() wakes some waiting consumer, if any; the    *)
(* woken one has to take the mutex again before wait returns.              *)
PushNotify(p) ==
    /\ pc[p] = "notify"
    /\ IF was_empty[p] /\ Waiting # {}
       THEN \E c \in Waiting : pc' = [pc EXCEPT ![p] = "idle", ![c] = "pop_lock"]
       ELSE pc' = [pc EXCEPT ![p] = "idle"]
    /\ UNCHANGED <<work, work_mutex, item, was_empty, todo>>
-----------------------------------------------------------------------------
(* wait_and_pop *)

PopLock(c) ==
    /\ pc[c] = "pop_lock"
    /\ work_mutex = NoThread
    /\ work_mutex' = c
    /\ pc' = [pc EXCEPT ![c] = "pop"]
    /\ UNCHANGED <<work, item, was_empty, todo>>

(* while (work.empty()) work_available.wait(lock): releases the mutex and  *)
(* starts to wait in one step.                                             *)
PopWait(c) ==
    /\ pc[c] = "pop"
    /\ work = <<>>
    /\ work_mutex' = NoThread
    /\ pc' = [pc EXCEPT ![c] = "wait"]
    /\ UNCHANGED <<work, item, was_empty, todo>>

(* wait may return without a notification.                                 *)
SpuriousWakeup(c) ==
    /\ pc[c] = "wait"
    /\ pc' = [pc EXCEPT ![c] = "pop_lock"]
    /\ UNCHANGED <<work, work_mutex, item, was_empty, todo>>

PopItem(c) ==
    /\ pc[c] = "pop"
    /\ work # <<>>
    /\ item' = [item EXCEPT ![c] = Head(work)]
    /\ work' = Tail(work)
    /\ work_mutex' = NoThread
    /\ pc' = [pc EXCEPT ![c] = "busy"]
    /\ UNCHANGED <<was_empty, todo>>

(* The stage has handled its item and calls wait_and_pop again.            *)
Handled(c) ==
    /\ pc[c] = "busy"
    /\ item' = [item EXCEPT ![c] = NoItem]
    /\ pc' = [pc EXCEPT ![c] = "pop_lock"]
    /\ UNCHANGED <<work, work_mutex, was_empty, todo>>
-----------------------------------------------------------------------------
PushStep(p) == PushLock(p) \/ PushItem(p) \/ PushUnlock(p) \/ PushNotify(p)

PopStep(c) == PopLock(c) \/ PopWait(c) \/ PopItem(c)

Next ==
    \/ \E p \in Producers : CallPush(p) \/ PushStep(p)
    \/ \E c \in Consumers : PopStep(c) \/ SpuriousWakeup(c) \/ Handled(c)

Spec == Init /\ [][Next]_vars

(* Every thread inside push_work or wait_and_pop that can move is run by   *)
(* the scheduler.  Nothing is assumed of the callers (CallPush) or of      *)
(* spurious wake-ups.                                                      *)
QueueFairness ==
    /\ \A p \in Producers : WF_vars(PushStep(p))
    /\ \A c \in Consumers : WF_vars(PopStep(c))

(* Moreover each stage returns from handling an item.                      *)
FairSpec ==
    Spec /\ QueueFairness /\ \A c \in Consumers : WF_vars(Handled(c))

(* One consumer may be busy for ever with its item.                        *)
StuckStageSpec == Spec /\ QueueFairness
-----------------------------------------------------------------------------
(* Types of the queue, of its mutex and of each thread's locals.           *)
TypeOK ==
    /\ work \in Seq(Items)
    /\ work_mutex \in Threads \cup {NoThread}
    /\ pc \in [Threads -> {"idle", "push_lock", "push", "push_unlock", "notify",
                           "pop_lock", "pop", "wait", "busy"}]
    /\ item \in [Threads -> Items \cup {NoItem}]
    /\ was_empty \in [Producers -> BOOLEAN]
    /\ todo \in SUBSET Items

(* No wake-up is lost: while items are queued and every consumer sleeps,   *)
(* some push_work still owes a notify_one.  Hence notifying only when the  *)
(* queue was empty, and after the unlock, never strands an item.           *)
NoLostWakeup ==
    (work # <<>> /\ Waiting = Consumers)
        => \E p \in Producers : pc[p] \in {"push_unlock", "notify"} /\ was_empty[p]

(* A thread has an item in hand exactly where the code has one.            *)
ItemInHand ==
    /\ \A p \in Producers :
          /\ pc[p] \in {"idle", "push_lock", "push", "push_unlock", "notify"}
          /\ pc[p] \in {"push_lock", "push"} <=> item[p] \in Items
    /\ \A c \in Consumers :
          /\ pc[c] \in {"pop_lock", "pop", "wait", "busy"}
          /\ pc[c] = "busy" <=> item[c] \in Items

(* No two push_work calls under way have the same item.                    *)
PushesDiffer ==
    \A p \in Producers :
        pc[p] \in {"push_lock", "push"} =>
            /\ item[p] \notin todo
            /\ \A q \in Producers \ {p} :
                  pc[q] \in {"push_lock", "push"} => item[q] # item[p]

(* Inductive: the types, what the threads hold, and the wake-up owed for a *)
(* queue nobody attends to.  TypeOK alone does not say that what PushItem  *)
(* pushes is an item.                                                      *)
QueueInv == TypeOK /\ ItemInHand /\ PushesDiffer /\ NoLostWakeup

(* The queue code is an atomic FIFO queue: an item is pushed when          *)
(* work.push runs and popped when work.pop runs, each once and in order.   *)
Atomic == INSTANCE AtomicQueue
    WITH queue <- work,
         todo  <- todo \cup {item[p] : p \in {q \in Producers : pc[q] \in {"push_lock", "push"}}},
         held  <- [c \in Consumers |-> item[c]]

ImplementsAtomicQueue == Atomic!Spec

(* As long as every stage returns from its items, an item in the queue is  *)
(* taken, although push_work does not notify for it when the queue was     *)
(* not empty.                                                              *)
EveryItemIsTaken ==
    \A i \in Items : (\E n \in DOMAIN work : work[n] = i) ~> (\E c \in Consumers : item[c] = i)

(* Two threads per stage work in parallel: an item in the queue does not   *)
(* wait for ever beside a consumer that sleeps in wait_and_pop, even when  *)
(* the other consumer never returns from its own item.                     *)
IdleConsumerTakesItem ==
    ~ <>[](work # <<>> /\ Waiting # {})
=============================================================================
