------------------------ MODULE BlockingQueue_proofs ------------------------
(***************************************************************************)
(* Proofs about BlockingQueue, for any finite sets of threads and any      *)
(* items and bound: type correctness, that no wake-up is lost, and that    *)
(* the queue implements the safety part of FifoChannel.                    *)
(***************************************************************************)
EXTENDS BlockingQueue, FiniteSetTheorems, SequenceTheorems, TLAPS

(***************************************************************************)
(* The queue, the thread sets and the returned items keep their types; in  *)
(* particular no thread is both asleep and testing.                        *)
(***************************************************************************)
THEOREM TypeCorrect == Safety => []TypeOK
<1>1. Init => TypeOK
  BY MaxLenNat DEF Init, TypeOK
<1>2. TypeOK /\ [Next]_vars => TypeOK'
  <2> SUFFICES ASSUME TypeOK, [Next]_vars PROVE TypeOK'
    OBVIOUS
  <2> USE MaxLenNat DEF TypeOK
  <2>1. ASSUME NEW c \in Poppers, CallPop(c) PROVE TypeOK'
    BY <2>1 DEF CallPop
  <2>2. ASSUME NEW c \in Poppers, Take(c) PROVE TypeOK'
    <3>1. /\ Head(queue) \in Items
          /\ Tail(queue) \in Seq(Items)
          /\ Len(Tail(queue)) = Len(queue) - 1
          /\ Len(queue) \in Nat
      BY <2>2, HeadTailProperties, LenProperties DEF Take
    <3> QED BY <2>2, <3>1 DEF Take
  <2>3. ASSUME NEW c \in Poppers, Wait(c) PROVE TypeOK'
    BY <2>3 DEF Wait
  <2>4. ASSUME NEW c \in Poppers, SpuriousWakeup(c) PROVE TypeOK'
    BY <2>4 DEF SpuriousWakeup
  <2>5. ASSUME NEW p \in Pushers, NEW i \in Items, Push(p, i) PROVE TypeOK'
    <3>1. /\ Append(queue, i) \in Seq(Items)
          /\ Len(Append(queue, i)) = Len(queue) + 1
          /\ Len(queue) \in Nat
      BY AppendProperties, LenProperties
    <3> QED BY <2>5, <3>1 DEF Push
  <2>6. ASSUME NEW p \in Pushers, NotifyOne(p) PROVE TypeOK'
    BY <2>6 DEF NotifyOne
  <2>7. CASE Clear
    BY <2>7 DEF Clear
  <2>8. CASE UNCHANGED vars
    BY <2>8 DEF vars
  <2> QED
    BY <2>1, <2>2, <2>3, <2>4, <2>5, <2>6, <2>7, <2>8 DEF Next, PopStep
<1> QED
  BY <1>1, <1>2, PTL DEF Safety

-----------------------------------------------------------------------------
(* WakeupCovered and TypeOK together are inductive: each disjunct of Next  *)
(* moves Len(queue) and the sizes of the two sets by at most one, and      *)
(* never the left side of the inequality up or the right side down alone   *)
(* while somebody sleeps.                                                  *)

\* The sizes the invariant compares are those of finite sets.
LEMMA ThreadSetsFinite ==
    ASSUME TypeOK
    PROVE  /\ IsFiniteSet(testing) /\ Cardinality(testing) \in Nat
           /\ IsFiniteSet(waiting) /\ Cardinality(waiting) \in Nat
           /\ IsFiniteSet(unnotified) /\ Cardinality(unnotified) \in Nat
           /\ Len(queue) \in Nat
<1>1. IsFiniteSet(testing) /\ IsFiniteSet(waiting) /\ IsFiniteSet(unnotified)
  BY PoppersFinite, PushersFinite, FS_Subset DEF TypeOK
<1> QED
  BY <1>1, FS_CardinalityType, LenProperties DEF TypeOK

\* Moving a thread into or out of a finite set moves the set's size by one.
LEMMA SizeAfterMove ==
    ASSUME NEW S, IsFiniteSet(S), NEW x
    PROVE  /\ x \notin S => Cardinality(S \cup {x}) = Cardinality(S) + 1
           /\ x \in S => Cardinality(S \ {x}) = Cardinality(S) - 1
  BY FS_AddElement, FS_RemoveElement

(***************************************************************************)
(* One step of any thread keeps every queued item covered.                 *)
(***************************************************************************)
LEMMA WakeupCoveredStep ==
    ASSUME TypeOK, WakeupCovered, [Next]_vars
    PROVE  WakeupCovered'
<1> USE ThreadSetsFinite, SizeAfterMove DEF WakeupCovered
<1>1. ASSUME NEW c \in Poppers, CallPop(c) PROVE WakeupCovered'
  BY <1>1 DEF CallPop
<1>2. ASSUME NEW c \in Poppers, Take(c) PROVE WakeupCovered'
  <2>1. Len(Tail(queue)) = Len(queue) - 1
    BY <1>2, HeadTailProperties DEF Take, TypeOK
  <2> QED BY <1>2, <2>1 DEF Take
<1>3. ASSUME NEW c \in Poppers, Wait(c) PROVE WakeupCovered'
  <2>1. Len(queue') = 0
    BY <1>3 DEF Wait
  <2>2. Cardinality(testing') \in Nat /\ Cardinality(unnotified') \in Nat
    BY <1>3, FS_RemoveElement, FS_CardinalityType DEF Wait
  <2> QED BY <2>1, <2>2
<1>4. ASSUME NEW c \in Poppers, SpuriousWakeup(c) PROVE WakeupCovered'
  BY <1>4 DEF SpuriousWakeup, TypeOK
<1>5. ASSUME NEW p \in Pushers, NEW i \in Items, Push(p, i) PROVE WakeupCovered'
  <2>1. Len(Append(queue, i)) = Len(queue) + 1
    BY AppendProperties DEF TypeOK
  <2> QED BY <1>5, <2>1 DEF Push
<1>6. ASSUME NEW p \in Pushers, NotifyOne(p) PROVE WakeupCovered'
  <2>1. CASE waiting = {}
    BY <1>6, <2>1 DEF NotifyOne
  <2>2. ASSUME NEW c \in waiting,
               waiting' = waiting \ {c}, testing' = testing \cup {c}
        PROVE  WakeupCovered'
    <3>1. c \notin testing
      BY DEF TypeOK
    <3>2. Cardinality(testing') = Cardinality(testing) + 1
      BY <2>2, <3>1
    <3>3. Cardinality(unnotified') = Cardinality(unnotified) - 1 /\ queue' = queue
      BY <1>6 DEF NotifyOne
    <3> QED BY <3>2, <3>3
  <2> QED BY <1>6, <2>1, <2>2 DEF NotifyOne
<1>7. CASE Clear
  BY <1>7 DEF Clear
<1>8. CASE UNCHANGED vars
  BY <1>8 DEF vars
<1> QED
  BY <1>1, <1>2, <1>3, <1>4, <1>5, <1>6, <1>7, <1>8 DEF Next, PopStep

(***************************************************************************)
(* No wake-up is lost, however many threads push and pop.                  *)
(***************************************************************************)
THEOREM NoLostWakeup == Safety => []WakeupCovered
<1>1. Init => WakeupCovered
  BY DEF Init, WakeupCovered
<1>2. TypeOK /\ WakeupCovered /\ [Next]_vars => WakeupCovered'
  BY WakeupCoveredStep
<1> QED
  BY <1>1, <1>2, TypeCorrect, PTL DEF Safety

-----------------------------------------------------------------------------
(***************************************************************************)
(* Every behaviour of the queue is one of the FIFO channel: push puts,     *)
(* the take of pop() gets, clear() discards, and sleeping, waking and      *)
(* notifying are invisible.                                                *)
(***************************************************************************)
THEOREM QueueImplementsChannel == Safety => ImplementsChannelSafety
<1>1. Init => Channel!ChInit
  BY DEF Init, Channel!ChInit
<1>2. TypeOK /\ [Next]_vars => [Channel!ChNext]_(Channel!chVars)
  <2> SUFFICES ASSUME TypeOK, [Next]_vars
               PROVE  Channel!ChNext \/ UNCHANGED Channel!chVars
    OBVIOUS
  <2> USE DEF TypeOK, Channel!ChNext, Channel!chVars
  <2>1. ASSUME NEW c \in Poppers, CallPop(c) PROVE Channel!BeginGet(c)
    BY <2>1 DEF CallPop, Channel!BeginGet
  <2>2. ASSUME NEW c \in Poppers, Take(c) PROVE Channel!Get(c)
    BY <2>2 DEF Take, Channel!Get
  <2>3. ASSUME NEW c \in Poppers, Wait(c) PROVE UNCHANGED Channel!chVars
    BY <2>3 DEF Wait
  <2>4. ASSUME NEW c \in Poppers, SpuriousWakeup(c)
        PROVE  UNCHANGED Channel!chVars
    BY <2>4 DEF SpuriousWakeup
  <2>5. ASSUME NEW p \in Pushers, NEW i \in Items, Push(p, i)
        PROVE  Channel!Put(i)
    BY <2>5 DEF Push, Channel!Put
  <2>6. ASSUME NEW p \in Pushers, NotifyOne(p) PROVE UNCHANGED Channel!chVars
    BY <2>6 DEF NotifyOne
  <2>7. CASE Clear
    BY <2>7 DEF Clear, Channel!Discard
  <2>8. CASE UNCHANGED vars
    BY <2>8 DEF vars
  <2> QED
    BY <2>1, <2>2, <2>3, <2>4, <2>5, <2>6, <2>7, <2>8 DEF Next, PopStep
<1> QED
  BY <1>1, <1>2, TypeCorrect, PTL
  DEF Safety, ImplementsChannelSafety, Channel!ChSafety
=============================================================================
