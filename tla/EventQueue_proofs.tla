-------------------------- MODULE EventQueue_proofs --------------------------
(***************************************************************************)
(* Theorems about the event queue, for any finite set of executors, any    *)
(* events (each may queue another), any predicate that waits for some of   *)
(* them, and any batch size.                                               *)
(***************************************************************************)
EXTENDS EventQueue, FiniteSetTheorems, TLAPS

\* Executors about to look at the queue.
Awake == {x \in Executors : pc[x] \in {"locking", "testing"}}

InLoop == {"locking", "testing", "asleep"}
InHandler == {"invoking", "returning", "counting"}

Taken(e) == \E y \in Executors : pc[y] \in {"invoking", "returning"} /\ ev[y] = e

\* What was queued is in the queue, taken or has run, and is never queued
\* again; whoever has returned from executeAll owes nothing in the queue.
OwedAccounted ==
    /\ InQueue \subseteq queued
    /\ \A x \in Executors : owed[x] \subseteq queued
    /\ \A e \in queued : e \in InQueue \/ e \in ran \/ Taken(e)
    /\ \A x \in Executors : pc[x] = "out" /\ mode[x] = "all" => owed[x] \cap InQueue = {}

\* A batch in which the predicate becomes true is the last one, so what is
\* begun with it true belongs to one batch.
BatchAccounted ==
    BatchSize # 0 =>
        \A x \in Executors : mode[x] = "until" =>
            /\ ~AwaitedRan => overrun[x] = 0
            /\ pc[x] \in InLoop => overrun[x] <= batch[x] /\ batch[x] < BatchSize
            /\ pc[x] \in InHandler => overrun[x] <= batch[x] + 1 /\ batch[x] < BatchSize
            /\ overrun[x] <= BatchSize

EqInv == TypeOK /\ WakeupCovered /\ OwedAccounted /\ BatchAccounted

-----------------------------------------------------------------------------
(* The queue. *)

LEMMA QueueAppend ==
    ASSUME queue \in Seq(Events), NEW e \in Events, queue' = Append(queue, e)
    PROVE  /\ queue' \in Seq(Events)
           /\ Len(queue) \in Nat /\ Len(queue') = Len(queue) + 1
           /\ InQueue' = InQueue \cup {e}
<1>1. /\ queue' \in Seq(Events) /\ Len(queue) \in Nat /\ Len(queue') = Len(queue) + 1
      /\ DOMAIN queue = 1 .. Len(queue) /\ DOMAIN queue' = 1 .. Len(queue) + 1
      /\ queue'[Len(queue) + 1] = e
      /\ \A i \in 1 .. Len(queue) : queue'[i] = queue[i]
  OBVIOUS
<1>2. InQueue' \subseteq InQueue \cup {e}
  <2>1. ASSUME NEW i \in 1 .. Len(queue) + 1 PROVE queue'[i] \in InQueue \cup {e}
    <3>1. CASE i = Len(queue) + 1
      BY <1>1, <3>1
    <3>2. CASE i # Len(queue) + 1
      <4>1. i \in 1 .. Len(queue)
        BY <1>1, <2>1, <3>2
      <4> QED
        BY <1>1, <4>1 DEF InQueue
    <3> QED
      BY <3>1, <3>2
  <2> QED
    BY <1>1, <2>1 DEF InQueue
<1>3. InQueue \subseteq InQueue'
  <2>1. \A i \in 1 .. Len(queue) : i \in 1 .. Len(queue) + 1
    BY <1>1
  <2> QED
    BY <1>1, <2>1 DEF InQueue
<1>4. e \in InQueue'
  <2>1. Len(queue) + 1 \in 1 .. Len(queue) + 1
    BY <1>1
  <2> QED
    BY <1>1, <2>1 DEF InQueue
<1> QED
  BY <1>1, <1>2, <1>3, <1>4

LEMMA QueueTake ==
    ASSUME queue \in Seq(Events), queue # <<>>, queue' = Tail(queue)
    PROVE  /\ queue' \in Seq(Events) /\ Head(queue) \in Events
           /\ Len(queue) \in Nat /\ Len(queue') = Len(queue) - 1
           /\ InQueue' \subseteq InQueue
           /\ InQueue \subseteq InQueue' \cup {Head(queue)}
<1>1. /\ queue' \in Seq(Events) /\ Len(queue) \in Nat /\ Len(queue) >= 1
      /\ Len(queue') = Len(queue) - 1 /\ Head(queue) = queue[1] /\ Head(queue) \in Events
      /\ DOMAIN queue = 1 .. Len(queue) /\ DOMAIN queue' = 1 .. Len(queue) - 1
      /\ \A i \in 1 .. Len(queue) - 1 : queue'[i] = queue[i + 1]
  OBVIOUS
<1>2. InQueue' \subseteq InQueue
  <2>1. \A i \in 1 .. Len(queue) - 1 : i + 1 \in 1 .. Len(queue)
    BY <1>1
  <2> QED
    BY <1>1, <2>1 DEF InQueue
<1>3. ASSUME NEW i \in 1 .. Len(queue), i # 1 PROVE queue[i] \in InQueue'
  <2>1. i - 1 \in 1 .. Len(queue) - 1 /\ (i - 1) + 1 = i
    BY <1>1, <1>3
  <2>2. queue'[i - 1] = queue[i]
    BY <1>1, <2>1
  <2> QED
    BY <1>1, <2>1, <2>2 DEF InQueue
<1>4. InQueue \subseteq InQueue' \cup {Head(queue)}
  BY <1>1, <1>3 DEF InQueue
<1> QED
  BY <1>1, <1>2, <1>4

-----------------------------------------------------------------------------
(* Executors that wake and fall asleep. *)

LEMMA AwakeFinite ==
    IsFiniteSet(Awake) /\ Cardinality(Awake) \in Nat
  BY ExecutorsFinite, FS_Subset, FS_CardinalityType DEF Awake

LEMMA AwakeMore ==
    ASSUME Awake \subseteq Awake'
    PROVE  Cardinality(Awake') \in Nat /\ Cardinality(Awake') >= Cardinality(Awake)
<1>1. IsFiniteSet(Awake')
  BY ExecutorsFinite, FS_Subset DEF Awake
<1> QED
  BY <1>1, FS_Subset, FS_CardinalityType

LEMMA AwakeOneMore ==
    ASSUME NEW x, x \notin Awake, Awake' = Awake \cup {x}
    PROVE  Cardinality(Awake') = Cardinality(Awake) + 1
  BY AwakeFinite, FS_AddElement

LEMMA AwakeOneLess ==
    ASSUME NEW x \in Awake, Awake' = Awake \ {x}
    PROVE  Cardinality(Awake') = Cardinality(Awake) - 1
  BY AwakeFinite, FS_RemoveElement

\* WakeupCovered, with the set named.
LEMMA Covered ==
    WakeupCovered <=>
        ((\E x \in Executors : pc[x] = "asleep") => Len(queue) <= Cardinality(Awake))
  BY DEF WakeupCovered, Awake

\* An event is queued: where the executors are afterwards.
LEMMA Enqueued ==
    ASSUME TypeOK, NEW e \in Events, NEW moved \in [Executors -> Places],
           \A y \in Executors :
               moved[y] = pc[y] \/ (pc[y] = "invoking" /\ moved[y] = "returning"),
           Enqueue(e, moved)
    PROVE  /\ pc' \in [Executors -> Places]
           /\ \A y \in Executors :
                  \/ pc'[y] = moved[y]
                  \/ pc[y] = "asleep" /\ pc'[y] = "locking"
           /\ \/ /\ \A y \in Executors : pc[y] # "asleep" /\ pc'[y] # "asleep"
              \/ \E s \in Executors : s \notin Awake /\ Awake' = Awake \cup {s}
<1>1. CASE {x \in Executors : pc[x] = "asleep"} = {} /\ pc' = moved
  BY <1>1
<1>2. CASE \E s \in Executors : pc[s] = "asleep" /\ pc' = [moved EXCEPT ![s] = "locking"]
  <2>1. PICK s \in Executors : pc[s] = "asleep" /\ pc' = [moved EXCEPT ![s] = "locking"]
    BY <1>2
  <2>2. pc'[s] = "locking" /\ \A y \in Executors \ {s} : pc'[y] = moved[y]
    BY <2>1
  <2>3. s \notin Awake /\ Awake' = Awake \cup {s}
    BY <2>1, <2>2 DEF Awake
  <2>4. pc' \in [Executors -> Places]
    BY <2>1 DEF Places
  <2> QED
    BY <2>1, <2>2, <2>3, <2>4
<1> QED
  BY <1>1, <1>2 DEF Enqueue, NotifyOne

\* The two ways to queue an event have this in common.
LEMMA SomeoneQueues ==
    ASSUME TypeOK,
           \/ \E e \in Events : QueueEvent(e)
           \/ \E x \in Executors : QueueChild(x)
    PROVE  \E e \in Events :
               /\ e \notin queued /\ queue' = Append(queue, e) /\ queued' = queued \cup {e}
               /\ UNCHANGED <<mutex, ev, mode, batch, ran, owed, overrun>>
               /\ pc' \in [Executors -> Places]
               /\ \A y \in Executors :
                      \/ pc'[y] = pc[y]
                      \/ pc[y] = "invoking" /\ pc'[y] = "returning"
                      \/ pc[y] = "asleep" /\ pc'[y] = "locking"
               /\ \/ \A y \in Executors : pc[y] # "asleep" /\ pc'[y] # "asleep"
                  \/ \E s \in Executors : s \notin Awake /\ Awake' = Awake \cup {s}
<1>1. ASSUME NEW e \in Events, QueueEvent(e)
      PROVE  /\ pc' \in [Executors -> Places]
             /\ \A y \in Executors : pc'[y] = pc[y] \/ (pc[y] = "asleep" /\ pc'[y] = "locking")
             /\ \/ \A y \in Executors : pc[y] # "asleep" /\ pc'[y] # "asleep"
                \/ \E s \in Executors : s \notin Awake /\ Awake' = Awake \cup {s}
  <2>1. pc \in [Executors -> Places] /\ Enqueue(e, pc)
    BY <1>1 DEF QueueEvent, TypeOK
  <2> QED
    BY <2>1, Enqueued
<1>2. ASSUME NEW x \in Executors, QueueChild(x)
      PROVE  /\ Child[ev[x]] \in Events
             /\ pc' \in [Executors -> Places]
             /\ \A y \in Executors :
                    \/ pc'[y] = pc[y]
                    \/ pc[y] = "invoking" /\ pc'[y] = "returning"
                    \/ pc[y] = "asleep" /\ pc'[y] = "locking"
             /\ \/ \A y \in Executors : pc[y] # "asleep" /\ pc'[y] # "asleep"
                \/ \E s \in Executors : s \notin Awake /\ Awake' = Awake \cup {s}
  <2> DEFINE moved == [pc EXCEPT ![x] = "returning"]
  <2>1. Child[ev[x]] \in Events
    BY <1>2, ChildType DEF QueueChild, TypeOK
  <2>2. /\ moved \in [Executors -> Places]
        /\ \A y \in Executors :
               moved[y] = pc[y] \/ (pc[y] = "invoking" /\ moved[y] = "returning")
    BY <1>2 DEF QueueChild, TypeOK, Places
  <2>3. Enqueue(Child[ev[x]], moved)
    BY <1>2 DEF QueueChild
  <2>4. /\ pc' \in [Executors -> Places]
        /\ \A y \in Executors : pc'[y] = moved[y] \/ (pc[y] = "asleep" /\ pc'[y] = "locking")
        /\ \/ \A y \in Executors : pc[y] # "asleep" /\ pc'[y] # "asleep"
           \/ \E s \in Executors : s \notin Awake /\ Awake' = Awake \cup {s}
    <3> HIDE DEF moved
    <3> QED
      BY <2>1, <2>2, <2>3, Enqueued
  <2>5. \A y \in Executors :
            \/ pc'[y] = pc[y]
            \/ pc[y] = "invoking" /\ pc'[y] = "returning"
            \/ pc[y] = "asleep" /\ pc'[y] = "locking"
    <3> HIDE DEF moved
    <3> QED
      BY <2>2, <2>4
  <2> QED
    BY <2>1, <2>4, <2>5
<1>3. ASSUME NEW e \in Events, QueueEvent(e)
      PROVE  /\ e \notin queued /\ queue' = Append(queue, e) /\ queued' = queued \cup {e}
             /\ UNCHANGED <<mutex, ev, mode, batch, ran, owed, overrun>>
  BY <1>3 DEF QueueEvent, Enqueue
<1>4. ASSUME NEW x \in Executors, QueueChild(x)
      PROVE  /\ Child[ev[x]] \notin queued /\ queue' = Append(queue, Child[ev[x]])
             /\ queued' = queued \cup {Child[ev[x]]}
             /\ UNCHANGED <<mutex, ev, mode, batch, ran, owed, overrun>>
  BY <1>4 DEF QueueChild, Enqueue
<1>5. CASE \E e \in Events : QueueEvent(e)
  BY <1>1, <1>3, <1>5
<1>6. CASE \E x \in Executors : QueueChild(x)
  BY <1>2, <1>4, <1>6
<1> QED
  BY <1>5, <1>6

LEMMA InitInv == Init => EqInv
<1> SUFFICES ASSUME Init PROVE EqInv
  OBVIOUS
<1>1. TypeOK
  BY FreeIsNoExecutor DEF Init, TypeOK, Places
<1>2. WakeupCovered
  BY DEF Init, WakeupCovered
<1>3. OwedAccounted
  BY DEF Init, OwedAccounted, InQueue
<1>4. BatchAccounted
  BY BatchSizeNat DEF Init, BatchAccounted, InLoop, InHandler
<1> QED
  BY <1>1, <1>2, <1>3, <1>4 DEF EqInv

LEMMA StepType == TypeOK /\ [Next]_vars => TypeOK'
<1> SUFFICES ASSUME TypeOK, [Next]_vars PROVE TypeOK'
  OBVIOUS
<1> USE DEF TypeOK, Places, Goto
<1>1. CASE (\E e \in Events : QueueEvent(e)) \/ (\E x \in Executors : QueueChild(x))
  <2>1. PICK e \in Events :
            /\ e \notin queued /\ queue' = Append(queue, e) /\ queued' = queued \cup {e}
            /\ UNCHANGED <<mutex, ev, mode, batch, ran, owed, overrun>>
            /\ pc' \in [Executors -> Places]
            /\ \A y \in Executors :
                   \/ pc'[y] = pc[y]
                   \/ pc[y] = "invoking" /\ pc'[y] = "returning"
                   \/ pc[y] = "asleep" /\ pc'[y] = "locking"
    BY <1>1, SomeoneQueues
  <2>2. queue' \in Seq(Events)
    BY <2>1, QueueAppend
  <2>3. \A y \in Executors : mutex' = y <=> pc'[y] = "testing"
    BY <2>1
  <2>4. \A y \in Executors :
            pc'[y] \in {"invoking", "returning", "counting"} => ev'[y] \in Events
    BY <2>1
  <2> QED
    BY <2>1, <2>2, <2>3, <2>4
<1>2. ASSUME NEW x \in Executors, Call(x, "all") \/ Call(x, "until") PROVE TypeOK'
  <2>1. InQueue \subseteq Events
    BY DEF InQueue
  <2>2. PICK m \in {"all", "until"} : Call(x, m)
    BY <1>2
  <2>3. /\ pc[x] = "out" /\ pc' = [pc EXCEPT ![x] = "locking"]
        /\ UNCHANGED <<queue, mutex, ev, queued, ran>>
    BY <2>2 DEF Call
  <2>4. mode' \in [Executors -> {"all", "until"}]
    BY <2>2 DEF Call
  <2>5. owed' \in [Executors -> SUBSET Events]
    BY <2>1, <2>2 DEF Call
  <2>6. batch' \in [Executors -> Nat] /\ overrun' \in [Executors -> Nat]
    BY <2>2 DEF Call
  <2> QED
    BY <2>3, <2>4, <2>5, <2>6
<1>3. ASSUME NEW x \in Executors, Lock(x) PROVE TypeOK'
  BY <1>3, FreeIsNoExecutor DEF Lock
<1>4. ASSUME NEW x \in Executors, ReturnOnEmpty(x) PROVE TypeOK'
  BY <1>4, FreeIsNoExecutor DEF ReturnOnEmpty
<1>5. ASSUME NEW x \in Executors, Sleep(x) PROVE TypeOK'
  BY <1>5, FreeIsNoExecutor DEF Sleep
<1>6. ASSUME NEW x \in Executors, Dequeue(x) PROVE TypeOK'
  <2>1. queue' \in Seq(Events) /\ Head(queue) \in Events
    BY <1>6, QueueTake DEF Dequeue
  <2>2. overrun' \in [Executors -> Nat]
    BY <1>6 DEF Dequeue
  <2> QED
    BY <1>6, <2>1, <2>2, FreeIsNoExecutor DEF Dequeue
<1>7. ASSUME NEW x \in Executors, HandlerReturns(x) PROVE TypeOK'
  BY <1>7 DEF HandlerReturns
<1>8. ASSUME NEW x \in Executors, Count(x) PROVE TypeOK'
  <2>1. batch' \in [Executors -> Nat]
    BY <1>8 DEF Count
  <2>2. pc' = [pc EXCEPT ![x] = "out"] \/ pc' = [pc EXCEPT ![x] = "locking"]
    BY <1>8 DEF Count
  <2>3. /\ pc[x] = "counting"
        /\ UNCHANGED <<queue, mutex, ev, mode, queued, ran, owed, overrun>>
    BY <1>8 DEF Count
  <2> QED
    BY <2>1, <2>2, <2>3
<1>9. ASSUME NEW x \in Executors, SpuriousWakeup(x) PROVE TypeOK'
  BY <1>9 DEF SpuriousWakeup
<1>10. CASE UNCHANGED vars
  BY <1>10 DEF vars
<1> QED
  BY <1>1, <1>2, <1>3, <1>4, <1>5, <1>6, <1>7, <1>8, <1>9, <1>10 DEF Next, LoopStep

LEMMA StepCovered == TypeOK /\ WakeupCovered /\ [Next]_vars => WakeupCovered'
<1> SUFFICES ASSUME TypeOK, WakeupCovered, [Next]_vars, NEW z \in Executors, pc'[z] = "asleep"
             PROVE  Len(queue') <= Cardinality(Awake')
  BY DEF WakeupCovered, Awake
<1>0. /\ queue \in Seq(Events) /\ Len(queue) \in Nat
      /\ pc \in [Executors -> Places] /\ Cardinality(Awake) \in Nat
      /\ pc[z] = "asleep" => Len(queue) <= Cardinality(Awake)
  BY AwakeFinite, Covered DEF TypeOK
<1>a. ASSUME queue' = queue, pc[z] = "asleep", Awake \subseteq Awake'
      PROVE  Len(queue') <= Cardinality(Awake')
  BY <1>0, <1>a, AwakeMore
<1>1. CASE (\E e \in Events : QueueEvent(e)) \/ (\E x \in Executors : QueueChild(x))
  <2>1. PICK e \in Events :
            /\ queue' = Append(queue, e)
            /\ \A y \in Executors :
                   \/ pc'[y] = pc[y]
                   \/ pc[y] = "invoking" /\ pc'[y] = "returning"
                   \/ pc[y] = "asleep" /\ pc'[y] = "locking"
            /\ \/ \A y \in Executors : pc[y] # "asleep" /\ pc'[y] # "asleep"
               \/ \E s \in Executors : s \notin Awake /\ Awake' = Awake \cup {s}
    BY <1>1, SomeoneQueues
  <2>2. pc[z] = "asleep" /\ Len(queue') = Len(queue) + 1
    BY <1>0, <2>1, QueueAppend
  <2>3. PICK s \in Executors : s \notin Awake /\ Awake' = Awake \cup {s}
    BY <2>1, <2>2
  <2>4. Cardinality(Awake') = Cardinality(Awake) + 1
    BY <2>3, AwakeOneMore
  <2> QED
    BY <1>0, <2>2, <2>4
<1>2. ASSUME NEW x \in Executors, Call(x, "all") \/ Call(x, "until")
      PROVE  Len(queue') <= Cardinality(Awake')
  BY <1>0, <1>2, <1>a DEF Call, Goto, Awake
<1>3. ASSUME NEW x \in Executors, Lock(x) PROVE Len(queue') <= Cardinality(Awake')
  BY <1>0, <1>3, <1>a DEF Lock, Goto, Awake
<1>4. ASSUME NEW x \in Executors, ReturnOnEmpty(x) \/ Sleep(x)
      PROVE  Len(queue') <= Cardinality(Awake')
  <2>1. queue' = <<>>
    BY <1>4 DEF ReturnOnEmpty, Sleep
  <2>2. Cardinality(Awake') \in Nat
    <3>1. IsFiniteSet(Awake')
      BY ExecutorsFinite, FS_Subset DEF Awake
    <3> QED
      BY <3>1, FS_CardinalityType
  <2> QED
    BY <2>1, <2>2
<1>5. ASSUME NEW x \in Executors, Dequeue(x) PROVE Len(queue') <= Cardinality(Awake')
  <2>1. queue # <<>> /\ queue' = Tail(queue)
    BY <1>5 DEF Dequeue
  <2>2. Len(queue') = Len(queue) - 1
    BY <1>0, <2>1, QueueTake
  <2>3. x \in Awake /\ Awake' = Awake \ {x} /\ pc[z] = "asleep"
    BY <1>0, <1>5 DEF Dequeue, Goto, Awake
  <2>4. Cardinality(Awake') = Cardinality(Awake) - 1
    BY <2>3, AwakeOneLess
  <2> QED
    BY <1>0, <2>2, <2>3, <2>4
<1>6. ASSUME NEW x \in Executors, HandlerReturns(x) PROVE Len(queue') <= Cardinality(Awake')
  BY <1>0, <1>6, <1>a DEF HandlerReturns, Goto, Awake
<1>7. ASSUME NEW x \in Executors, Count(x) PROVE Len(queue') <= Cardinality(Awake')
  <2>1. /\ pc' = [pc EXCEPT ![x] = "out"] \/ pc' = [pc EXCEPT ![x] = "locking"]
        /\ pc[x] = "counting" /\ queue' = queue
    BY <1>7 DEF Count, Goto
  <2> QED
    BY <1>0, <1>a, <2>1 DEF Awake
<1>8. ASSUME NEW x \in Executors, SpuriousWakeup(x) PROVE Len(queue') <= Cardinality(Awake')
  BY <1>0, <1>8, <1>a DEF SpuriousWakeup, Goto, Awake
<1>9. CASE UNCHANGED vars
  BY <1>0, <1>9, <1>a DEF vars, Awake
<1> QED
  BY <1>1, <1>2, <1>3, <1>4, <1>5, <1>6, <1>7, <1>8, <1>9 DEF Next, LoopStep

-----------------------------------------------------------------------------
(* What was queued is accounted for. *)

LEMMA StepOwed == TypeOK /\ OwedAccounted /\ [Next]_vars => OwedAccounted'
<1> SUFFICES ASSUME TypeOK, OwedAccounted, [Next]_vars PROVE OwedAccounted'
  OBVIOUS
<1>0. /\ queue \in Seq(Events) /\ ev \in [Executors -> Events \cup {NoEvent}]
      /\ pc \in [Executors -> Places] /\ mode \in [Executors -> {"all", "until"}]
      /\ owed \in [Executors -> SUBSET Events]
      /\ InQueue \subseteq queued
      /\ \A x \in Executors : owed[x] \subseteq queued
      /\ \A e \in queued : e \in InQueue \/ e \in ran \/ Taken(e)
      /\ \A x \in Executors : pc[x] = "out" /\ mode[x] = "all" => owed[x] \cap InQueue = {}
  BY DEF TypeOK, OwedAccounted
\* A step that takes nothing and makes nobody return.
<1>a. ASSUME UNCHANGED <<queue, ev, queued, ran, owed, mode>>,
             \A y \in Executors :
                 /\ pc'[y] = "out" => pc[y] = "out"
                 /\ pc[y] \in {"invoking", "returning"} => pc'[y] \in {"invoking", "returning"}
      PROVE  OwedAccounted'
  BY <1>0, <1>a DEF OwedAccounted, InQueue, Taken
<1>1. CASE (\E e \in Events : QueueEvent(e)) \/ (\E x \in Executors : QueueChild(x))
  <2>1. PICK e \in Events :
            /\ e \notin queued /\ queue' = Append(queue, e) /\ queued' = queued \cup {e}
            /\ UNCHANGED <<mutex, ev, mode, batch, ran, owed, overrun>>
            /\ \A y \in Executors :
                   \/ pc'[y] = pc[y]
                   \/ pc[y] = "invoking" /\ pc'[y] = "returning"
                   \/ pc[y] = "asleep" /\ pc'[y] = "locking"
    BY <1>1, SomeoneQueues
  <2>2. InQueue' = InQueue \cup {e}
    BY <1>0, <2>1, QueueAppend
  <2>3. \A d \in queued' : d \in InQueue' \/ d \in ran' \/ Taken(d)'
    <3>1. \A d : Taken(d) => Taken(d)'
      BY <2>1 DEF Taken
    <3> QED
      BY <1>0, <2>1, <2>2, <3>1
  <2>4. ASSUME NEW x \in Executors, pc'[x] = "out", mode'[x] = "all"
        PROVE  owed'[x] \cap InQueue' = {}
    BY <1>0, <2>1, <2>2, <2>4
  <2>5. InQueue' \subseteq queued' /\ \A x \in Executors : owed'[x] \subseteq queued'
    BY <1>0, <2>1, <2>2
  <2> QED
    BY <2>3, <2>4, <2>5 DEF OwedAccounted
<1>2. ASSUME NEW x \in Executors, Call(x, "all") \/ Call(x, "until") PROVE OwedAccounted'
  <2>1. PICK m \in {"all", "until"} : Call(x, m)
    BY <1>2
  <2>2. /\ UNCHANGED <<queue, ev, queued, ran>>
        /\ pc[x] = "out" /\ pc' = [pc EXCEPT ![x] = "locking"]
        /\ \A y \in Executors \ {x} : owed'[y] = owed[y] /\ mode'[y] = mode[y]
        /\ owed'[x] = InQueue
    BY <1>0, <2>1 DEF Call, Goto
  <2>3. InQueue' = InQueue
    BY <2>2 DEF InQueue
  <2>4. \A d : Taken(d) => Taken(d)'
    BY <1>0, <2>2 DEF Taken
  <2>5. \A d \in queued' : d \in InQueue' \/ d \in ran' \/ Taken(d)'
    BY <1>0, <2>2, <2>3, <2>4
  <2>6. \A y \in Executors : owed'[y] \subseteq queued'
    BY <1>0, <2>2
  <2>7. ASSUME NEW y \in Executors, pc'[y] = "out", mode'[y] = "all"
        PROVE  owed'[y] \cap InQueue' = {}
    <3>1. y # x /\ pc[y] = "out"
      BY <1>0, <2>2, <2>7
    <3> QED
      BY <1>0, <2>2, <2>3, <2>7, <3>1
  <2> QED
    BY <1>0, <2>2, <2>3, <2>5, <2>6, <2>7 DEF OwedAccounted
<1>3. ASSUME NEW x \in Executors, Lock(x) \/ Sleep(x) \/ SpuriousWakeup(x)
      PROVE  OwedAccounted'
  BY <1>0, <1>3, <1>a DEF Lock, Sleep, SpuriousWakeup, Goto
<1>4. ASSUME NEW x \in Executors, ReturnOnEmpty(x) PROVE OwedAccounted'
  <2>1. /\ queue = <<>> /\ UNCHANGED <<queue, ev, queued, ran, owed, mode>>
        /\ pc[x] = "testing" /\ pc' = [pc EXCEPT ![x] = "out"]
    BY <1>4 DEF ReturnOnEmpty, Goto
  <2>2. InQueue = {} /\ InQueue' = {}
    BY <2>1 DEF InQueue
  <2>3. \A d : Taken(d) => Taken(d)'
    BY <1>0, <2>1 DEF Taken
  <2> QED
    BY <1>0, <2>1, <2>2, <2>3 DEF OwedAccounted
<1>5. ASSUME NEW x \in Executors, Dequeue(x) PROVE OwedAccounted'
  <2>1. /\ queue # <<>> /\ queue' = Tail(queue) /\ pc[x] = "testing"
        /\ ev' = [ev EXCEPT ![x] = Head(queue)] /\ pc' = [pc EXCEPT ![x] = "invoking"]
        /\ UNCHANGED <<queued, ran, owed, mode>>
    BY <1>5 DEF Dequeue, Goto
  <2>h. PICK h : h = Head(queue)
    OBVIOUS
  <2>2. InQueue' \subseteq InQueue /\ InQueue \subseteq InQueue' \cup {h}
    BY <1>0, <2>1, <2>h, QueueTake
  <2>3. Taken(h)'
    BY <1>0, <2>1, <2>h DEF Taken
  <2>4. \A d : Taken(d) => Taken(d)'
    BY <1>0, <2>1 DEF Taken
  <2>5. \A d \in queued' : d \in InQueue' \/ d \in ran' \/ Taken(d)'
    BY <1>0, <2>1, <2>2, <2>3, <2>4
  <2>6. ASSUME NEW y \in Executors, pc'[y] = "out", mode'[y] = "all"
        PROVE  owed'[y] \cap InQueue' = {}
    <3>1. pc[y] = "out" /\ mode[y] = "all" /\ owed'[y] = owed[y]
      BY <1>0, <2>1, <2>6
    <3> QED
      BY <1>0, <2>2, <3>1
  <2> QED
    BY <1>0, <2>1, <2>2, <2>5, <2>6 DEF OwedAccounted
<1>6. ASSUME NEW x \in Executors, HandlerReturns(x) PROVE OwedAccounted'
  <2>1. /\ ran' = ran \cup {ev[x]} /\ pc' = [pc EXCEPT ![x] = "counting"]
        /\ UNCHANGED <<queue, ev, queued, owed, mode>>
    BY <1>6 DEF HandlerReturns, Goto
  <2>2. InQueue' = InQueue
    BY <2>1 DEF InQueue
  <2>3. ASSUME NEW d, Taken(d) PROVE d \in ran' \/ Taken(d)'
    <3>1. PICK y \in Executors : pc[y] \in {"invoking", "returning"} /\ ev[y] = d
      BY <2>3 DEF Taken
    <3>2. CASE y = x
      BY <2>1, <3>1, <3>2
    <3>3. CASE y # x
      BY <1>0, <2>1, <3>1, <3>3 DEF Taken
    <3> QED
      BY <3>2, <3>3
  <2>4. \A d \in queued' : d \in InQueue' \/ d \in ran' \/ Taken(d)'
    BY <1>0, <2>1, <2>2, <2>3
  <2>5. ASSUME NEW y \in Executors, pc'[y] = "out", mode'[y] = "all"
        PROVE  owed'[y] \cap InQueue' = {}
    <3>1. pc[y] = "out"
      BY <1>0, <2>1, <2>5
    <3> QED
      BY <1>0, <2>1, <2>2, <2>5, <3>1
  <2> QED
    BY <1>0, <2>1, <2>2, <2>4, <2>5 DEF OwedAccounted
\* Only executeUntil returns from Count.
<1>7. ASSUME NEW x \in Executors, Count(x) PROVE OwedAccounted'
  <2>1. /\ pc[x] = "counting" /\ UNCHANGED <<queue, ev, queued, ran, owed, mode>>
        /\ \/ pc' = [pc EXCEPT ![x] = "out"] /\ mode[x] = "until"
           \/ pc' = [pc EXCEPT ![x] = "locking"]
    BY <1>7 DEF Count, Goto
  <2>2. InQueue' = InQueue
    BY <2>1 DEF InQueue
  <2>3. \A d : Taken(d) => Taken(d)'
    BY <1>0, <2>1 DEF Taken
  <2>4. ASSUME NEW y \in Executors, pc'[y] = "out", mode'[y] = "all"
        PROVE  owed'[y] \cap InQueue' = {}
    <3>1. pc[y] = "out" /\ mode[y] = "all"
      BY <1>0, <2>1, <2>4
    <3> QED
      BY <1>0, <2>1, <2>2, <3>1
  <2> QED
    BY <1>0, <2>1, <2>2, <2>3, <2>4 DEF OwedAccounted
<1>8. CASE UNCHANGED vars
  BY <1>0, <1>8, <1>a DEF vars
<1> QED
  BY <1>1, <1>2, <1>3, <1>4, <1>5, <1>6, <1>7, <1>8 DEF Next, LoopStep

(* A batch ends soon enough. *)

LEMMA StepBatch == TypeOK /\ BatchAccounted /\ [Next]_vars => BatchAccounted'
<1> DEFINE Accounted(x) ==
        /\ ~AwaitedRan => overrun[x] = 0
        /\ pc[x] \in InLoop => overrun[x] <= batch[x] /\ batch[x] < BatchSize
        /\ pc[x] \in InHandler => overrun[x] <= batch[x] + 1 /\ batch[x] < BatchSize
        /\ overrun[x] <= BatchSize
<1> SUFFICES ASSUME TypeOK, BatchAccounted, [Next]_vars, BatchSize # 0,
                    NEW z \in Executors, mode'[z] = "until"
             PROVE  Accounted(z)'
  BY DEF BatchAccounted
<1>0. /\ pc \in [Executors -> Places] /\ mode \in [Executors -> {"all", "until"}]
      /\ batch \in [Executors -> Nat] /\ overrun \in [Executors -> Nat]
      /\ BatchSize \in Nat /\ BatchSize >= 1
      /\ mode[z] = "until" => Accounted(z)
  BY BatchSizeNat DEF TypeOK, BatchAccounted
\* z goes nowhere, or stays in its part of the loop.
<1>a. ASSUME batch'[z] = batch[z], overrun'[z] = overrun[z], mode'[z] = mode[z],
             AwaitedRan => AwaitedRan',
             pc'[z] \in InLoop => pc[z] \in InLoop,
             pc'[z] \in InHandler => pc[z] \in InHandler
      PROVE  Accounted(z)'
  BY <1>0, <1>a
<1>1. CASE (\E e \in Events : QueueEvent(e)) \/ (\E x \in Executors : QueueChild(x))
  <2>1. /\ UNCHANGED <<mode, batch, ran, overrun>>
        /\ \A y \in Executors :
               \/ pc'[y] = pc[y]
               \/ pc[y] = "invoking" /\ pc'[y] = "returning"
               \/ pc[y] = "asleep" /\ pc'[y] = "locking"
    BY <1>1, SomeoneQueues
  <2> QED
    BY <1>a, <2>1 DEF InLoop, InHandler, AwaitedRan
<1>2. ASSUME NEW x \in Executors, Call(x, "all") \/ Call(x, "until") PROVE Accounted(z)'
  <2>1. PICK m \in {"all", "until"} : Call(x, m)
    BY <1>2
  <2>2. CASE x = z
    <3>1. overrun'[z] = 0 /\ batch'[z] = 0 /\ pc'[z] = "locking"
      BY <1>0, <2>1, <2>2 DEF Call, Goto
    <3> QED
      BY <1>0, <3>1 DEF InLoop, InHandler
  <2>3. CASE x # z
    <3>1. /\ overrun'[z] = overrun[z] /\ batch'[z] = batch[z] /\ pc'[z] = pc[z]
          /\ mode'[z] = mode[z] /\ ran' = ran
      BY <1>0, <2>1, <2>3 DEF Call, Goto
    <3> QED
      BY <1>a, <3>1 DEF AwaitedRan
  <2> QED
    BY <2>2, <2>3
<1>3. ASSUME NEW x \in Executors, Lock(x) \/ Sleep(x) \/ SpuriousWakeup(x) \/ ReturnOnEmpty(x)
      PROVE  Accounted(z)'
  <2>1. /\ UNCHANGED <<mode, batch, ran, overrun>>
        /\ pc[x] \in InLoop
        /\ \E to \in InLoop \cup {"out"} : pc' = [pc EXCEPT ![x] = to]
    BY <1>3 DEF Lock, Sleep, SpuriousWakeup, ReturnOnEmpty, Goto, InLoop
  <2> QED
    BY <1>0, <1>a, <2>1 DEF InLoop, InHandler, AwaitedRan
<1>4. ASSUME NEW x \in Executors, Dequeue(x) PROVE Accounted(z)'
  <2>1. /\ UNCHANGED <<mode, batch, ran>> /\ pc[x] = "testing"
        /\ pc' = [pc EXCEPT ![x] = "invoking"]
        /\ overrun' = [overrun EXCEPT ![x] = IF AwaitedRan THEN @ + 1 ELSE @]
        /\ AwaitedRan' <=> AwaitedRan
    BY <1>4 DEF Dequeue, Goto, AwaitedRan
  <2>2. CASE x = z
    <3>1. /\ overrun'[z] = IF AwaitedRan THEN overrun[z] + 1 ELSE overrun[z]
          /\ pc'[z] = "invoking" /\ pc[z] \in InLoop /\ batch'[z] = batch[z]
          /\ mode[z] = "until" /\ overrun[z] \in Nat /\ batch[z] \in Nat
      BY <1>0, <2>1, <2>2 DEF InLoop
    <3>2. overrun[z] <= batch[z] /\ batch[z] < BatchSize /\ (~AwaitedRan => overrun[z] = 0)
      BY <1>0, <3>1
    <3>3. overrun'[z] <= batch'[z] + 1 /\ batch'[z] < BatchSize /\ overrun'[z] <= BatchSize
      BY <1>0, <3>1, <3>2
    <3>4. ~AwaitedRan' => overrun'[z] = 0
      BY <2>1, <3>1, <3>2
    <3> QED
      BY <3>1, <3>3, <3>4 DEF InLoop
  <2>3. CASE x # z
    BY <1>0, <1>a, <2>1, <2>3
  <2> QED
    BY <2>2, <2>3
<1>5. ASSUME NEW x \in Executors, HandlerReturns(x) PROVE Accounted(z)'
  <2>1. /\ UNCHANGED <<mode, batch, overrun>> /\ pc[x] \in InHandler
        /\ pc' = [pc EXCEPT ![x] = "counting"]
        /\ AwaitedRan => AwaitedRan'
    BY <1>5 DEF HandlerReturns, Goto, AwaitedRan, InHandler
  <2> QED
    BY <1>0, <1>a, <2>1 DEF InLoop, InHandler
\* At the end of a batch the predicate is looked at: true, and x is out;
\* false, and nothing has been overrun.
<1>6. ASSUME NEW x \in Executors, Count(x) PROVE Accounted(z)'
  <2>1. /\ UNCHANGED <<mode, ran, overrun>> /\ pc[x] = "counting"
        /\ AwaitedRan' <=> AwaitedRan
    BY <1>6 DEF Count, AwaitedRan
  <2>2. CASE x = z
    <3>1. /\ overrun[z] <= batch[z] + 1 /\ batch[z] < BatchSize /\ overrun[z] <= BatchSize
          /\ ~AwaitedRan => overrun[z] = 0
          /\ mode[z] = "until" /\ overrun'[z] = overrun[z]
          /\ batch[z] \in Nat /\ overrun[z] \in Nat
      BY <1>0, <2>1, <2>2 DEF InHandler
    <3>2. CASE batch[z] + 1 >= BatchSize /\ AwaitedRan
      <4>1. pc'[z] = "out"
        BY <1>0, <1>6, <2>2, <3>1, <3>2 DEF Count, Goto, Predicate
      <4> QED
        BY <2>1, <3>1, <4>1 DEF InLoop, InHandler
    <3>3. CASE batch[z] + 1 >= BatchSize /\ ~AwaitedRan
      <4>1. pc'[z] = "locking" /\ batch'[z] = 0
        BY <1>0, <1>6, <2>2, <3>1, <3>3 DEF Count, Goto, Predicate
      <4>2. overrun'[z] = 0
        BY <3>1, <3>3
      <4> QED
        BY <1>0, <4>1, <4>2 DEF InLoop, InHandler
    <3>4. CASE ~(batch[z] + 1 >= BatchSize)
      <4>1. pc'[z] = "locking" /\ batch'[z] = batch[z] + 1
        BY <1>0, <1>6, <2>2, <3>1, <3>4 DEF Count, Goto
      <4>2. overrun'[z] <= batch'[z] /\ batch'[z] < BatchSize
        BY <1>0, <3>1, <3>4, <4>1
      <4> QED
        BY <2>1, <3>1, <4>1, <4>2 DEF InHandler
    <3> QED
      BY <3>2, <3>3, <3>4
  <2>3. CASE x # z
    <3>1. pc'[z] = pc[z] /\ batch'[z] = batch[z]
      BY <1>0, <1>6, <2>3 DEF Count, Goto
    <3> QED
      BY <1>a, <2>1, <3>1
  <2> QED
    BY <2>2, <2>3
<1>7. CASE UNCHANGED vars
  BY <1>7, <1>a DEF vars, AwaitedRan
<1> QED
  BY <1>1, <1>2, <1>3, <1>4, <1>5, <1>6, <1>7 DEF Next, LoopStep

-----------------------------------------------------------------------------
(***************************************************************************)
(* The invariant of the loop: types, an awake executor for every queued    *)
(* event while somebody sleeps, what was queued accounted for, and the     *)
(* arithmetic of the batches.                                              *)
(***************************************************************************)
THEOREM EventQueueInvariant == Spec => []EqInv
<1>1. EqInv /\ [Next]_vars => EqInv'
  BY StepType, StepCovered, StepOwed, StepBatch DEF EqInv
<1> QED
  BY InitInv, <1>1, PTL DEF Spec, Safety

(***************************************************************************)
(* queueEvent wakes one sleeper under the mutex, and an executor tests the *)
(* queue and goes to sleep in one critical section: no wake-up is lost,    *)
(* whatever the number of executors.                                       *)
(***************************************************************************)
THEOREM NoLostWakeup == Spec => []WakeupCovered
<1>1. EqInv => WakeupCovered
  BY DEF EqInv
<1> QED
  BY EventQueueInvariant, <1>1, PTL

(***************************************************************************)
(* executeAll returns with nothing of what it found in the queue left: it  *)
(* has run, or another executor is running it.                             *)
(***************************************************************************)
THEOREM DrainsOnReturn == Spec => []DrainedOnReturn
<1>1. EqInv => DrainedOnReturn
  <2> SUFFICES ASSUME EqInv, NEW x \in Executors, pc[x] = "out", mode[x] = "all",
                      NEW e \in owed[x]
               PROVE  \/ e \in ran
                      \/ \E y \in Executors \ {x} :
                             pc[y] \in {"invoking", "returning"} /\ ev[y] = e
    BY DEF DrainedOnReturn
  <2>1. e \in queued /\ e \notin InQueue
    BY DEF EqInv, OwedAccounted
  <2>2. e \in ran \/ Taken(e)
    BY <2>1 DEF EqInv, OwedAccounted
  <2> QED
    BY <2>2 DEF Taken
<1> QED
  BY EventQueueInvariant, <1>1, PTL

(***************************************************************************)
(* executeUntil begins at most one batch of handlers once its predicate is *)
(* true, for any batch size.                                               *)
(***************************************************************************)
THEOREM OverrunBounded == Spec => []BatchBoundsOverrun
<1>1. EqInv => BatchBoundsOverrun
  BY DEF EqInv, BatchAccounted, BatchBoundsOverrun
<1> QED
  BY EventQueueInvariant, <1>1, PTL
=============================================================================
