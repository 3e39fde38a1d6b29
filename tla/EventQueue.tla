----------------------------- MODULE EventQueue -----------------------------
(***************************************************************************)
(* slt::concur::EventQueue (include/slt/concur/event_queue.h and           *)
(* src/slt/concur/event_queue.cpp): a FIFO of handlers that any thread may *)
(* queue and that executeAll or executeUntil run on the calling thread.    *)
(*                                                                         *)
(* The mutex is a variable because executeUntil holds it while it calls    *)
(* the predicate, and because the whole point of its order "Dequeue ->     *)
(* Unlock -> Invoke" is that the mutex is free while a handler runs.       *)
(*                                                                         *)
(* The predicate of executeUntil is the one both tools pass, "nothing      *)
(* awaited is still pending", which only handlers make true.               *)
(***************************************************************************)
EXTENDS Sequences, Naturals, FiniteSets

CONSTANTS
    Executors,  \* threads that call executeAll and executeUntil
    Events,     \* the handlers, each queued at most once
    NoEvent,
    Child,      \* Child[e]: the handler that e queues while it runs, or NoEvent
    Awaited,    \* the handlers the predicate of executeUntil waits for
    BatchSize,  \* batch_size of executeUntil; 0 is "no batches"
    Free        \* the mutex when nobody holds it

ASSUME ExecutorsFinite == IsFiniteSet(Executors)
ASSUME FreeIsNoExecutor == Free \notin Executors
ASSUME NoEventIsNoEvent == NoEvent \notin Events
ASSUME ChildType == Child \in [Events -> Events \cup {NoEvent}]
ASSUME AwaitedAreEvents == Awaited \subseteq Events
ASSUME BatchSizeNat == BatchSize \in Nat

VARIABLES
    queue,    \* queue_
    mutex,    \* the executor that holds mutex_ between two steps, or Free
    pc,       \* pc[x]: where x is in executeUntil
    ev,       \* ev[x]: cb, the handler x dequeued last
    mode,     \* mode[x]: "all" for executeAll, "until" for executeUntil
    batch,    \* batch[x]: current_batch_count
    queued,   \* handlers that have been queued
    ran,      \* handlers that have returned
    owed,     \* owed[x]: what was in the queue when x made its call
    overrun   \* overrun[x]: handlers x began, in its call, with the predicate true

vars == <<queue, mutex, pc, ev, mode, batch, queued, ran, owed, overrun>>

Places == {"out", "locking", "testing", "asleep", "invoking", "returning", "counting"}

TypeOK ==
    /\ queue \in Seq(Events)
    /\ mutex \in Executors \cup {Free}
    /\ pc \in [Executors -> Places]
    /\ \A x \in Executors : mutex = x <=> pc[x] = "testing"
    /\ ev \in [Executors -> Events \cup {NoEvent}]
    /\ \A x \in Executors :
           pc[x] \in {"invoking", "returning", "counting"} => ev[x] \in Events
    /\ mode \in [Executors -> {"all", "until"}]
    /\ batch \in [Executors -> Nat]
    /\ queued \subseteq Events
    /\ ran \subseteq Events
    /\ owed \in [Executors -> SUBSET Events]
    /\ overrun \in [Executors -> Nat]

Init ==
    /\ queue = <<>>
    /\ mutex = Free
    /\ pc = [x \in Executors |-> "out"]
    /\ ev = [x \in Executors |-> NoEvent]
    /\ mode = [x \in Executors |-> "all"]
    /\ batch = [x \in Executors |-> 0]
    /\ queued = {}
    /\ ran = {}
    /\ owed = [x \in Executors |-> {}]
    /\ overrun = [x \in Executors |-> 0]

-----------------------------------------------------------------------------
\* What x's predicate answers; that of executeAll is always true.
AwaitedRan == Awaited \subseteq ran
Predicate(x) == mode[x] = "all" \/ AwaitedRan

InQueue == {queue[i] : i \in DOMAIN queue}

\* An executor goes to `to`.
Goto(x, to) == pc' = [pc EXCEPT ![x] = to]

\* condition_.notify_one(), by a thread that itself moves as `moved` says:
\* wakes one sleeper, which has the mutex to lock, and nobody if none sleeps.
NotifyOne(moved) ==
    LET sleepers == {x \in Executors : pc[x] = "asleep"} IN
    \/ sleepers = {} /\ pc' = moved
    \/ \E s \in sleepers : pc' = [moved EXCEPT ![s] = "locking"]

\* A plausible bug: queueEvent notifies only when the queue was empty.
NotifyIfEmpty(e, moved) ==
    /\ mutex = Free
    /\ e \notin queued
    /\ queue' = Append(queue, e)
    /\ queued' = queued \cup {e}
    /\ IF queue = <<>> THEN NotifyOne(moved) ELSE pc' = moved

\* queueEvent(e): one critical section, the notification included.
Enqueue(e, moved) ==
    /\ mutex = Free
    /\ e \notin queued
    /\ queue' = Append(queue, e)
    /\ queued' = queued \cup {e}
    /\ NotifyOne(moved)

\* A thread that is in no handler queues an event.
QueueEvent(e) ==
    /\ Enqueue(e, pc)
    /\ UNCHANGED <<mutex, ev, mode, batch, ran, owed, overrun>>

\* executeAll() or executeUntil() is called.
Call(x, m) ==
    /\ pc[x] = "out"
    /\ Goto(x, "locking")
    /\ mode' = [mode EXCEPT ![x] = m]
    /\ owed' = [owed EXCEPT ![x] = InQueue]
    /\ batch' = [batch EXCEPT ![x] = 0]
    /\ overrun' = [overrun EXCEPT ![x] = 0]
    /\ UNCHANGED <<queue, mutex, ev, queued, ran>>

\* The top of the loop: lock(mutex_).
Lock(x) ==
    /\ pc[x] = "locking"
    /\ mutex = Free
    /\ mutex' = x
    /\ Goto(x, "testing")
    /\ UNCHANGED <<queue, ev, mode, batch, queued, ran, owed, overrun>>

\* Empty queue, true predicate: break, and return.
ReturnOnEmpty(x) ==
    /\ pc[x] = "testing"
    /\ queue = <<>>
    /\ Predicate(x)
    /\ mutex' = Free
    /\ Goto(x, "out")
    /\ UNCHANGED <<queue, ev, mode, batch, queued, ran, owed, overrun>>

\* Empty queue, false predicate: condition_.wait releases the mutex.
Sleep(x) ==
    /\ pc[x] = "testing"
    /\ queue = <<>>
    /\ ~Predicate(x)
    /\ mutex' = Free
    /\ Goto(x, "asleep")
    /\ UNCHANGED <<queue, ev, mode, batch, queued, ran, owed, overrun>>

SpuriousWakeup(x) ==
    /\ pc[x] = "asleep"
    /\ Goto(x, "locking")
    /\ UNCHANGED <<queue, mutex, ev, mode, batch, queued, ran, owed, overrun>>

\* A plausible bug: the predicate is looked at before every dequeue.
DequeueUnlessTrue(x) ==
    /\ pc[x] = "testing"
    /\ queue # <<>>
    /\ mutex' = Free
    /\ IF Predicate(x)
       THEN Goto(x, "out") /\ UNCHANGED <<queue, ev, overrun>>
       ELSE /\ ev' = [ev EXCEPT ![x] = Head(queue)]
            /\ queue' = Tail(queue)
            /\ overrun' = [overrun EXCEPT ![x] = IF AwaitedRan THEN @ + 1 ELSE @]
            /\ Goto(x, "invoking")
    /\ UNCHANGED <<mode, batch, queued, ran, owed>>

\* A plausible bug: the handler is invoked with the mutex still locked.
DequeueKeepingLock(x) ==
    /\ pc[x] = "testing"
    /\ queue # <<>>
    /\ ev' = [ev EXCEPT ![x] = Head(queue)]
    /\ queue' = Tail(queue)
    /\ overrun' = [overrun EXCEPT ![x] = IF AwaitedRan THEN @ + 1 ELSE @]
    /\ Goto(x, "invoking")
    /\ UNCHANGED <<mutex, mode, batch, queued, ran, owed>>

\* Dequeue -> Unlock -> Invoke.
Dequeue(x) ==
    /\ pc[x] = "testing"
    /\ queue # <<>>
    /\ ev' = [ev EXCEPT ![x] = Head(queue)]
    /\ queue' = Tail(queue)
    /\ overrun' = [overrun EXCEPT ![x] = IF AwaitedRan THEN @ + 1 ELSE @]
    /\ mutex' = Free
    /\ Goto(x, "invoking")
    /\ UNCHANGED <<mode, batch, queued, ran, owed>>

\* "an event can enqueue a new event": the handler calls queueEvent.
QueueChild(x) ==
    /\ pc[x] = "invoking"
    /\ Child[ev[x]] # NoEvent
    /\ Enqueue(Child[ev[x]], [pc EXCEPT ![x] = "returning"])
    /\ UNCHANGED <<mutex, ev, mode, batch, ran, owed, overrun>>

\* The handler returns; one with a child that has been queued already (by
\* somebody else) has nothing to queue.
HandlerReturns(x) ==
    /\ \/ pc[x] = "returning"
       \/ pc[x] = "invoking" /\ Child[ev[x]] \in queued \cup {NoEvent}
    /\ ran' = ran \cup {ev[x]}
    /\ Goto(x, "counting")
    /\ UNCHANGED <<queue, mutex, ev, mode, batch, queued, owed, overrun>>

\* A plausible bug: one handler too many before the batch is over.
CountOffByOne(x) ==
    /\ pc[x] = "counting"
    /\ IF mode[x] = "until" /\ BatchSize # 0 /\ batch[x] + 1 > BatchSize
       THEN IF Predicate(x)
            THEN Goto(x, "out") /\ UNCHANGED batch
            ELSE Goto(x, "locking") /\ batch' = [batch EXCEPT ![x] = 0]
       ELSE Goto(x, "locking") /\ batch' = [batch EXCEPT ![x] = @ + 1]
    /\ UNCHANGED <<queue, mutex, ev, mode, queued, ran, owed, overrun>>

\* After the handler: the batch count and, at the end of a batch, the
\* predicate, this time without the mutex. executeAll has no batches.
Count(x) ==
    /\ pc[x] = "counting"
    /\ IF mode[x] = "until" /\ BatchSize # 0 /\ batch[x] + 1 >= BatchSize
       THEN IF Predicate(x)
            THEN Goto(x, "out") /\ UNCHANGED batch
            ELSE Goto(x, "locking") /\ batch' = [batch EXCEPT ![x] = 0]
       ELSE Goto(x, "locking") /\ batch' = [batch EXCEPT ![x] = @ + 1]
    /\ UNCHANGED <<queue, mutex, ev, mode, queued, ran, owed, overrun>>

LoopStep(x) ==
    \/ Lock(x) \/ ReturnOnEmpty(x) \/ Sleep(x) \/ Dequeue(x)
    \/ QueueChild(x) \/ HandlerReturns(x) \/ Count(x)

Next ==
    \/ \E e \in Events : QueueEvent(e)
    \/ \E x \in Executors :
           \/ Call(x, "all") \/ Call(x, "until")
           \/ LoopStep(x)
           \/ SpuriousWakeup(x)

\* A thread inside the loop runs on. FrameLoop is the caller's doing:
\* Runtime::sync calls executeAll every frame.
Fairness == \A x \in Executors : WF_vars(LoopStep(x))
FrameLoop == \A x \in Executors : WF_vars(Call(x, "all"))

Safety == Init /\ [][Next]_vars
Spec == Safety /\ Fairness
FrameLoopSpec == Spec /\ FrameLoop

-----------------------------------------------------------------------------
(***************************************************************************)
(* No wake-up is lost: while an executor sleeps, every queued event has an *)
(* executor of its own that is about to look at the queue.                 *)
(***************************************************************************)
WakeupCovered ==
    (\E x \in Executors : pc[x] = "asleep") =>
        Len(queue) <= Cardinality({x \in Executors : pc[x] \in {"locking", "testing"}})

(***************************************************************************)
(* "Executes all queued events" (event_queue.h:21): when executeAll has    *)
(* returned, everything that was queued at the call has run, or has been   *)
(* taken and is being run by another executor.                             *)
(***************************************************************************)
DrainedOnReturn ==
    \A x \in Executors :
        pc[x] = "out" /\ mode[x] = "all" =>
            \A e \in owed[x] :
                \/ e \in ran
                \/ \E y \in Executors \ {x} :
                       pc[y] \in {"invoking", "returning"} /\ ev[y] = e

(***************************************************************************)
(* "Check the predicate after this many events have been processed"        *)
(* (event_queue.h:36): with batches, executeUntil starts at most one batch *)
(* of events with its predicate already true.                              *)
(***************************************************************************)
BatchBoundsOverrun ==
    BatchSize # 0 =>
        \A x \in Executors : mode[x] = "until" => overrun[x] <= BatchSize

(***************************************************************************)
(* executeUntil returns once what it waits for has run, provided that one  *)
(* thread runs the queue: nothing but an event wakes a second one.         *)
(***************************************************************************)
UntilReturns ==
    \A x \in Executors :
        (pc[x] # "out" /\ mode[x] = "until" /\ AwaitedRan) ~> (pc[x] = "out")

(***************************************************************************)
(* Under the frame loop every queued event runs, also the ones that are    *)
(* queued by events and the ones queued while the executor goes to sleep.  *)
(***************************************************************************)
QueuedEventsRun == \A e \in Events : (e \in queued) ~> (e \in ran)
=============================================================================
