--------------------------- MODULE BlockingQueue ---------------------------
(***************************************************************************)
(* slt::concur::BlockingQueue<T> (include/slt/concur/blocking_queue.h).    *)
(*                                                                         *)
(* Everything done between locking and unlocking mutex_ is one step; the   *)
(* two points where the code acts without the mutex are steps of their     *)
(* own: the sleep inside cond_.wait, and the gap of push() between         *)
(* lock.unlock() and cond_.notify_one().                                   *)
(***************************************************************************)
EXTENDS Sequences, Naturals, FiniteSets

CONSTANTS
    Poppers,   \* threads that call pop()
    Pushers,   \* threads that call push() and clear()
    Items,     \* values that may be pushed
    Nothing,   \* what a popper holds before its first pop() returns
    MaxLen     \* bound on the length of queue_ (the code has none)

ASSUME PoppersFinite == IsFiniteSet(Poppers)
ASSUME PushersFinite == IsFiniteSet(Pushers)
ASSUME MaxLenNat == MaxLen \in Nat
ASSUME NothingIsNoItem == Nothing \notin Items

VARIABLES
    queue,       \* queue_
    testing,     \* poppers about to lock mutex_ and evaluate queue_.empty()
    waiting,     \* poppers asleep in cond_.wait
    unnotified,  \* pushers that released mutex_ and have yet to notify_one
    popped       \* popped[c]: the item returned by c's last pop()

vars == <<queue, testing, waiting, unnotified, popped>>

TypeOK ==
    /\ queue \in Seq(Items)
    /\ Len(queue) <= MaxLen
    /\ testing \subseteq Poppers
    /\ waiting \subseteq Poppers
    /\ testing \cap waiting = {}
    /\ unnotified \subseteq Pushers
    /\ popped \in [Poppers -> Items \cup {Nothing}]

Init ==
    /\ queue = <<>>
    /\ testing = {}
    /\ waiting = {}
    /\ unnotified = {}
    /\ popped = [c \in Poppers |-> Nothing]

-----------------------------------------------------------------------------
\* pop() is called: the thread heads for the mutex.
CallPop(c) ==
    /\ c \notin testing \cup waiting
    /\ testing' = testing \cup {c}
    /\ UNCHANGED <<queue, waiting, unnotified, popped>>

\* The loop test fails to find the queue empty: take the front and return it.
Take(c) ==
    /\ c \in testing
    /\ queue # <<>>
    /\ popped' = [popped EXCEPT ![c] = Head(queue)]
    /\ queue' = Tail(queue)
    /\ testing' = testing \ {c}
    /\ UNCHANGED <<waiting, unnotified>>

\* The queue is empty: cond_.wait releases the mutex and sleeps, in one step.
Wait(c) ==
    /\ c \in testing
    /\ queue = <<>>
    /\ testing' = testing \ {c}
    /\ waiting' = waiting \cup {c}
    /\ UNCHANGED <<queue, unnotified, popped>>

\* std::condition_variable may wake a thread nobody notified.
SpuriousWakeup(c) ==
    /\ c \in waiting
    /\ waiting' = waiting \ {c}
    /\ testing' = testing \cup {c}
    /\ UNCHANGED <<queue, unnotified, popped>>

\* A plausible bug: notifies only the push that makes the queue non-empty: two pushes before
\* the first woken popper runs leave the second sleeper asleep.
PushNotifyingIfEmpty(p, i) ==
    /\ p \notin unnotified
    /\ Len(queue) < MaxLen
    /\ queue' = Append(queue, i)
    /\ unnotified' = IF queue = <<>> THEN unnotified \cup {p} ELSE unnotified
    /\ UNCHANGED <<testing, waiting, popped>>

\* push(), up to and including lock.unlock().
Push(p, i) ==
    /\ p \notin unnotified
    /\ Len(queue) < MaxLen
    /\ queue' = Append(queue, i)
    /\ unnotified' = unnotified \cup {p}
    /\ UNCHANGED <<testing, waiting, popped>>

\* push(), cond_.notify_one(): wakes one sleeper, and nobody if none sleeps.
NotifyOne(p) ==
    /\ p \in unnotified
    /\ unnotified' = unnotified \ {p}
    /\ \/ \E c \in waiting :
            /\ waiting' = waiting \ {c}
            /\ testing' = testing \cup {c}
       \/ waiting = {} /\ UNCHANGED <<testing, waiting>>
    /\ UNCHANGED <<queue, popped>>

\* clear() replaces queue_ and notifies nobody.
Clear ==
    /\ queue' = <<>>
    /\ UNCHANGED <<testing, waiting, unnotified, popped>>

PopStep(c) == Take(c) \/ Wait(c)

Next ==
    \/ \E c \in Poppers : CallPop(c) \/ PopStep(c) \/ SpuriousWakeup(c)
    \/ \E p \in Pushers : (\E i \in Items : Push(p, i)) \/ NotifyOne(p)
    \/ Clear

\* While poppers want the mutex one of them eventually gets it (std::mutex
\* does not say which), and a thread between unlock() and notify_one()
\* eventually runs. Nobody has to call pop() or push(), and no spurious
\* wake-up ever has to come.
Fairness ==
    /\ WF_vars(\E c \in Poppers : PopStep(c))
    /\ \A p \in Pushers : WF_vars(NotifyOne(p))

Safety == Init /\ [][Next]_vars
Spec == Safety /\ Fairness

-----------------------------------------------------------------------------
(***************************************************************************)
(* No wake-up is lost: while somebody sleeps, every queued item has a      *)
(* thread of its own on its way to it, a popper that will test the queue   *)
(* or a pusher that still owes a notification. push() notifies outside     *)
(* the mutex (blocking_queue.h:31-32), so this is not immediate.           *)
(***************************************************************************)
WakeupCovered ==
    waiting # {} =>
        Len(queue) <= Cardinality(unnotified) + Cardinality(testing)

(***************************************************************************)
(* The queue implements a FIFO channel (the sleepers and the testers are   *)
(* the abstract getters), liveness included: an item and a popper never    *)
(* stay in pop() together for ever.                                        *)
(***************************************************************************)
Channel == INSTANCE FifoChannel WITH
    Getters <- Poppers,
    channel <- queue,
    getting <- testing \cup waiting,
    got <- popped

ImplementsChannel == Channel!ChSpec
ImplementsChannelSafety == Channel!ChSafety
=============================================================================
