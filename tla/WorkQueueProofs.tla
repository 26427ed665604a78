--------------------------- MODULE WorkQueueProofs ----------------------------
(***************************************************************************)
(* WorkQueue for any number of threads and items: its types, the absence   *)
(* of lost wake-ups, and that it implements the atomic FIFO queue the      *)
(* stages rely on.                                                         *)
(***************************************************************************)
EXTENDS WorkQueue, TLAPS

(* The initial state: empty queue, nobody inside push_work.                *)
LEMMA InitInv == Init => QueueInv
  BY WorkQueueAssumption DEF Init, QueueInv, TypeOK, ItemInHand, PushesDiffer, NoLostWakeup,
     Waiting, Threads

(* Every step of push_work and wait_and_pop keeps the types and what the   *)
(* threads hold.                                                           *)
LEMMA HoldStep ==
    TypeOK /\ ItemInHand /\ PushesDiffer /\ [Next]_vars => (TypeOK /\ ItemInHand /\ PushesDiffer)'
<1> DEFINE Hold == TypeOK /\ ItemInHand /\ PushesDiffer
<1> SUFFICES ASSUME Hold, [Next]_vars PROVE Hold'
  OBVIOUS
<1> USE WorkQueueAssumption DEF TypeOK, ItemInHand, PushesDiffer, Threads
<1>1. CASE UNCHANGED vars
  BY <1>1 DEF vars
<1>2. ASSUME NEW p \in Producers, CallPush(p) PROVE Hold'
  BY <1>2 DEF CallPush
<1>3. ASSUME NEW p \in Producers, PushLock(p) PROVE Hold'
  BY <1>3 DEF PushLock
<1>4. ASSUME NEW p \in Producers, PushItem(p) PROVE Hold'
  BY <1>4 DEF PushItem
<1>5. ASSUME NEW p \in Producers, PushUnlock(p) PROVE Hold'
  BY <1>5 DEF PushUnlock
<1>6. ASSUME NEW p \in Producers, PushNotify(p) PROVE Hold'
  <2>1. CASE pc' = [pc EXCEPT ![p] = "idle"]
    BY <1>6, <2>1 DEF PushNotify
  <2>2. ASSUME NEW c \in Waiting, pc' = [pc EXCEPT ![p] = "idle", ![c] = "pop_lock"]
        PROVE  Hold'
    BY <1>6, <2>2 DEF PushNotify, Waiting
  <2> QED
    BY <1>6, <2>1, <2>2 DEF PushNotify
<1>7. ASSUME NEW c \in Consumers, PopLock(c) PROVE Hold'
  BY <1>7 DEF PopLock
<1>8. ASSUME NEW c \in Consumers, PopWait(c) PROVE Hold'
  BY <1>8 DEF PopWait
<1>9. ASSUME NEW c \in Consumers, PopItem(c) PROVE Hold'
  <2>1. Head(work) \in Items /\ Tail(work) \in Seq(Items)
    BY <1>9 DEF PopItem
  <2> QED
    BY <1>9, <2>1 DEF PopItem
<1>10. ASSUME NEW c \in Consumers, SpuriousWakeup(c) PROVE Hold'
  BY <1>10 DEF SpuriousWakeup
<1>11. ASSUME NEW c \in Consumers, Handled(c) PROVE Hold'
  BY <1>11 DEF Handled
<1> QED
  BY <1>1, <1>2, <1>3, <1>4, <1>5, <1>6, <1>7, <1>8, <1>9, <1>10, <1>11
     DEF Next, PushStep, PopStep

(* A step loses no wake-up.  Three kinds of step matter: the push into an  *)
(* empty queue makes its thread owe a notification; a notification leaves  *)
(* some consumer awake; a consumer goes to sleep only on an empty queue.   *)
LEMMA WakeupStep == QueueInv /\ [Next]_vars => NoLostWakeup'
<1> SUFFICES ASSUME QueueInv, [Next]_vars PROVE NoLostWakeup'
  OBVIOUS
<1> USE WorkQueueAssumption DEF QueueInv, TypeOK, ItemInHand, Threads, NoLostWakeup, Waiting
<1>1. CASE UNCHANGED vars
  BY <1>1 DEF vars
<1>2. ASSUME NEW p \in Producers, CallPush(p) PROVE NoLostWakeup'
  BY <1>2 DEF CallPush
<1>3. ASSUME NEW p \in Producers, PushLock(p) PROVE NoLostWakeup'
  BY <1>3 DEF PushLock
<1>4. ASSUME NEW p \in Producers, PushItem(p) PROVE NoLostWakeup'
  BY <1>4 DEF PushItem
<1>5. ASSUME NEW p \in Producers, PushUnlock(p) PROVE NoLostWakeup'
  BY <1>5 DEF PushUnlock
<1>6. ASSUME NEW p \in Producers, PushNotify(p) PROVE NoLostWakeup'
  BY <1>6 DEF PushNotify
<1>7. ASSUME NEW c \in Consumers, PopLock(c) PROVE NoLostWakeup'
  BY <1>7 DEF PopLock
<1>8. ASSUME NEW c \in Consumers, PopWait(c) PROVE NoLostWakeup'
  BY <1>8 DEF PopWait
<1>9. ASSUME NEW c \in Consumers, PopItem(c) PROVE NoLostWakeup'
  BY <1>9 DEF PopItem
<1>10. ASSUME NEW c \in Consumers, SpuriousWakeup(c) PROVE NoLostWakeup'
  BY <1>10 DEF SpuriousWakeup
<1>11. ASSUME NEW c \in Consumers, Handled(c) PROVE NoLostWakeup'
  BY <1>11 DEF Handled
<1> QED
  BY <1>1, <1>2, <1>3, <1>4, <1>5, <1>6, <1>7, <1>8, <1>9, <1>10, <1>11
     DEF Next, PushStep, PopStep

(* The inductive invariant holds in every reachable state.                 *)
THEOREM QueueInvariant == Spec => []QueueInv
<1>1. QueueInv /\ [Next]_vars => QueueInv'
  BY HoldStep, WakeupStep DEF QueueInv
<1> QED
  BY InitInv, <1>1, PTL DEF Spec

(* push_work, wait_and_pop and the threads' locals are well typed.         *)
THEOREM TypeCorrect == Spec => []TypeOK
<1>1. QueueInv => TypeOK
  BY DEF QueueInv
<1> QED
  BY QueueInvariant, <1>1, PTL

(* Notifying only on an empty queue, and after the unlock, never leaves    *)
(* items to consumers that all sleep with no notification on its way.      *)
THEOREM WakeupsAreNotLost == Spec => []NoLostWakeup
<1>1. QueueInv => NoLostWakeup
  BY DEF QueueInv
<1> QED
  BY QueueInvariant, <1>1, PTL

(* A step of the queue code is a Put where work.push runs, a Get where     *)
(* work.pop runs, a Done where a stage comes back for more, and stutters   *)
(* in the atomic queue everywhere else.                                    *)
LEMMA RefinementStep == QueueInv /\ [Next]_vars => [Atomic!Next]_(Atomic!vars)
<1> DEFINE Pushing == {q \in Producers : pc[q] \in {"push_lock", "push"}}
           Todo    == todo \cup {item[p] : p \in Pushing}
           Held    == [c \in Consumers |-> item[c]]
<1> SUFFICES ASSUME QueueInv, [Next]_vars
             PROVE  Atomic!Next \/ (work' = work /\ Todo' = Todo /\ Held' = Held)
  BY DEF Atomic!vars
<1> USE WorkQueueAssumption DEF QueueInv, TypeOK, ItemInHand, PushesDiffer, Threads
<1> DEFINE Stutter == work' = work /\ Todo' = Todo /\ Held' = Held
<1>1. ASSUME UNCHANGED vars PROVE Stutter
  BY <1>1 DEF vars
<1>2. ASSUME NEW p \in Producers, CallPush(p) PROVE Stutter
  <2>1. Held' = Held
    BY <1>2 DEF CallPush
  <2>2. PICK i \in todo : item' = [item EXCEPT ![p] = i] /\ todo' = todo \ {i}
    BY <1>2, Zenon DEF CallPush
  <2>3. Pushing' = Pushing \cup {p} /\ p \notin Pushing
    BY <1>2 DEF CallPush
  <2>4. {item[q] : q \in Pushing}' = {item[q] : q \in Pushing} \cup {i}
    BY <1>2, <2>2, <2>3 DEF CallPush
  <2> QED
    BY <1>2, <2>1, <2>2, <2>4 DEF CallPush
<1>3. ASSUME NEW p \in Producers, PushLock(p) PROVE Stutter
  <2>1. Pushing' = Pushing
    BY <1>3 DEF PushLock
  <2> QED
    BY <1>3, <2>1 DEF PushLock
<1>4. ASSUME NEW p \in Producers, NEW i \in Items, item[p] = i, PushItem(p) PROVE Atomic!Put(i)
  <2>1. Held' = Held
    BY <1>4 DEF PushItem
  <2>2. Pushing' = Pushing \ {p} /\ p \in Pushing
    BY <1>4 DEF PushItem
  <2>3. \A q \in Pushing' : item'[q] = item[q] /\ item[q] # i
    BY <1>4, <2>2 DEF PushItem
  <2>4. {item[q] : q \in Pushing}' = {item[q] : q \in Pushing} \ {i}
    BY <1>4, <2>2, <2>3
  <2>5. Todo' = Todo \ {i} /\ i \in Todo
    <3>1. todo' = todo
      BY <1>4 DEF PushItem
    <3>2. i \notin todo /\ i \in {item[q] : q \in Pushing}
      BY <1>4, <2>2
    <3> HIDE DEF Pushing, QueueInv, TypeOK, ItemInHand, PushesDiffer, Threads
    <3> QED
      BY <2>4, <3>1, <3>2
  <2> QED
    BY <1>4, <2>1, <2>5 DEF PushItem, Atomic!Put
<1>5. ASSUME NEW p \in Producers, PushUnlock(p) PROVE Stutter
  <2>1. Pushing' = Pushing
    BY <1>5 DEF PushUnlock
  <2> QED
    BY <1>5, <2>1 DEF PushUnlock
<1>6. ASSUME NEW p \in Producers, PushNotify(p) PROVE Stutter
  <2>1. Pushing' = Pushing
    BY <1>6 DEF PushNotify, Waiting
  <2> QED
    BY <1>6, <2>1 DEF PushNotify
<1>7. ASSUME NEW c \in Consumers, PopLock(c) PROVE Stutter
  <2>1. Pushing' = Pushing
    BY <1>7 DEF PopLock
  <2> QED
    BY <1>7, <2>1 DEF PopLock
<1>8. ASSUME NEW c \in Consumers, PopWait(c) PROVE Stutter
  <2>1. Pushing' = Pushing
    BY <1>8 DEF PopWait
  <2> QED
    BY <1>8, <2>1 DEF PopWait
<1>9. ASSUME NEW c \in Consumers, PopItem(c) PROVE Atomic!Get(c)
  <2>1. Pushing' = Pushing /\ \A q \in Pushing : item'[q] = item[q]
    BY <1>9 DEF PopItem
  <2>2. {item[q] : q \in Pushing}' = {item[q] : q \in Pushing}
    BY <2>1
  <2>3. Todo' = Todo
    BY <1>9, <2>2 DEF PopItem
  <2>4. Held[c] = NoItem
    BY <1>9 DEF PopItem
  <2>5. Held' = [Held EXCEPT ![c] = Head(work)]
    BY <1>9 DEF PopItem
  <2> QED
    BY <1>9, <2>3, <2>4, <2>5 DEF PopItem, Atomic!Get
<1>10. ASSUME NEW c \in Consumers, SpuriousWakeup(c) PROVE Stutter
  <2>1. Pushing' = Pushing
    BY <1>10 DEF SpuriousWakeup
  <2> QED
    BY <1>10, <2>1 DEF SpuriousWakeup
<1>11. ASSUME NEW c \in Consumers, Handled(c) PROVE Atomic!Done(c)
  <2>1. Pushing' = Pushing /\ \A q \in Pushing : item'[q] = item[q]
    BY <1>11 DEF Handled
  <2>2. {item[q] : q \in Pushing}' = {item[q] : q \in Pushing}
    BY <2>1
  <2>3. Todo' = Todo
    BY <1>11, <2>2 DEF Handled
  <2>4. Held[c] # NoItem /\ Held' = [Held EXCEPT ![c] = NoItem]
    BY <1>11 DEF Handled
  <2> QED
    BY <1>11, <2>3, <2>4 DEF Handled, Atomic!Done
<1> QED
  <2>1. ASSUME NEW p \in Producers, PushItem(p) PROVE Atomic!Next
    <3>1. item[p] \in Items
      BY <2>1 DEF PushItem
    <3> QED
      BY <2>1, <3>1, <1>4 DEF Atomic!Next
  <2>2. ASSUME NEW c \in Consumers, PopItem(c) PROVE Atomic!Next
    BY <2>2, <1>9 DEF Atomic!Next
  <2>3. ASSUME NEW c \in Consumers, Handled(c) PROVE Atomic!Next
    BY <2>3, <1>11 DEF Atomic!Next
  <2> HIDE DEF Stutter, Todo, Held, Pushing, QueueInv, TypeOK, ItemInHand, PushesDiffer
  <2>4. Atomic!Next \/ Stutter
    BY <2>1, <2>2, <2>3, <1>1, <1>2, <1>3, <1>5, <1>6, <1>7, <1>8, <1>10
       DEF Next, PushStep, PopStep
  <2> QED
    BY <2>4 DEF Stutter

(* The mutex-and-condition-variable code implements the atomic FIFO queue. *)
THEOREM QueueIsAtomic == Spec => ImplementsAtomicQueue
<1>1. Init => Atomic!Init
  BY WorkQueueAssumption DEF Init, Atomic!Init, Threads
<1> QED
  BY <1>1, QueueInvariant, RefinementStep, PTL DEF Spec, ImplementsAtomicQueue, Atomic!Spec
=============================================================================
