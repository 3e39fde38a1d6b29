-------------------------- MODULE OnDemandRegistry --------------------------
(***************************************************************************)
(* One ResourceRegistry with an OnDemandTypedRegistry                      *)
(* (include/slt_runtime/resources.h): a cache of weak references, the      *)
(* lists of callbacks that wait for a load, and the loads themselves, from *)
(* the factory call to the end of the event that delivers the resource.    *)
(*                                                                         *)
(* Everything but the read itself happens on the thread that runs the main *)
(* queue. A load's completion closure holds a reference to the registry;   *)
(* file::asyncRead's operation is a const lambda, so its move(cb) copies   *)
(* the closure: one copy is destroyed by the filesystem thread with the    *)
(* operation and one by the main thread with the event.                    *)
(***************************************************************************)
EXTENDS Sequences, Naturals

CONSTANTS
    Names,      \* resource names
    Gets,       \* the calls of get, each with its callback
    Loads,      \* the calls of the factory, each making one resource
    None

ASSUME NoneIsNoLoad == None \notin Loads

VARIABLES
    linked,    \* whether registries_ of resources.cpp still holds the registry
    refs,      \* the shared_ptr count of the registry
    loaded,    \* loaded_[n]: the load whose resource is cached, weakly
    pending,   \* pending_[n], with <<>> for "no entry"
    name,      \* name[l]: the name that load l was started for
    stage,     \* stage[l]: how far load l is
    opHeld,    \* loads whose operation the filesystem still owns
    left,      \* the callbacks the delivery in progress has still to call
    asked,     \* gets made so far
    calls,     \* calls[g]: how often g's callback was called
    got,       \* got[g]: the load whose resource it was called with
    held       \* gets whose caller still keeps the resource

regVars == <<linked, refs>>
loadVars == <<name, stage, opHeld>>
userVars == <<calls, got, held>>
vars == <<regVars, loaded, pending, loadVars, left, asked, userVars>>

Stages == {"unused", "reading", "event", "delivering", "done", "failed"}

TypeOK ==
    /\ linked \in BOOLEAN
    /\ refs \in Nat
    /\ loaded \in [Names -> Loads \cup {None}]
    /\ pending \in [Names -> Seq(Gets)]
    /\ name \in [Loads -> Names]
    /\ stage \in [Loads -> Stages]
    /\ opHeld \subseteq Loads
    /\ left \in Seq(Gets)
    /\ asked \subseteq Gets
    /\ calls \in [Gets -> Nat]
    /\ got \in [Gets -> Loads \cup {None}]
    /\ held \subseteq Gets

Init ==
    /\ linked = TRUE
    /\ refs = 1
    /\ loaded = [n \in Names |-> None]
    /\ pending = [n \in Names |-> <<>>]
    /\ name \in {[l \in Loads |-> n] : n \in Names}
    /\ stage = [l \in Loads |-> "unused"]
    /\ opHeld = {}
    /\ left = <<>>
    /\ asked = {}
    /\ calls = [g \in Gets |-> 0]
    /\ got = [g \in Gets |-> None]
    /\ held = {}

-----------------------------------------------------------------------------
At(s) == {l \in Loads : stage[l] = s}

\* The resource of l exists: somebody keeps it, or it is being delivered.
Live(l) == stage[l] = "delivering" \/ \E g \in held : got[g] = l

\* loaded_[n].lock() succeeds.
Cached(n) == loaded[n] # None /\ Live(loaded[n])

\* g's callback is called with l's resource, and keeps it or not.
Invoke(g, l) ==
    /\ calls' = [calls EXCEPT ![g] = @ + 1]
    /\ got' = [got EXCEPT ![g] = l]
    /\ held' \in {held, held \cup {g}}

\* A plausible bug: the closure does not keep the registry alive.
StartLoadUnowned(n, g) ==
    /\ pending' = [pending EXCEPT ![n] = <<g>>]
    /\ \E l \in At("unused") :
           /\ stage' = [stage EXCEPT ![l] = "reading"]
           /\ name' = [name EXCEPT ![l] = n]
           /\ opHeld' = opHeld \cup {l}
    /\ UNCHANGED refs

\* The factory is called with a closure that holds a reference to the owner.
StartLoad(n, g) ==
    /\ pending' = [pending EXCEPT ![n] = <<g>>]
    /\ \E l \in At("unused") :
           /\ stage' = [stage EXCEPT ![l] = "reading"]
           /\ name' = [name EXCEPT ![l] = n]
           /\ opHeld' = opHeld \cup {l}
    /\ refs' = refs + 1

\* A plausible bug: no return after the callback of a cached resource.
GetCachedAndLoad(n, g) ==
    /\ linked /\ g \notin asked
    /\ Cached(n)
    /\ Invoke(g, loaded[n])
    /\ IF pending[n] = <<>> THEN StartLoad(n, g) ELSE UNCHANGED <<pending, refs, loadVars>>
    /\ asked' = asked \cup {g}
    /\ UNCHANGED <<linked, loaded, left>>

\* get<T>(n, g), on a registry that getRegistry finds, from the main loop or
\* from inside a callback of a delivery.
GetCached(n, g) ==
    /\ linked /\ g \notin asked
    /\ Cached(n)
    /\ Invoke(g, loaded[n])
    /\ asked' = asked \cup {g}
    /\ UNCHANGED <<regVars, loaded, pending, loadVars, left>>

\* A plausible bug: a second load for a name that is being loaded.
GetWithoutPending(n, g) ==
    /\ linked /\ g \notin asked
    /\ ~Cached(n)
    /\ StartLoad(n, g)
    /\ asked' = asked \cup {g}
    /\ UNCHANGED <<linked, loaded, left, userVars>>

GetPending(n, g) ==
    /\ linked /\ g \notin asked
    /\ ~Cached(n)
    /\ pending[n] # <<>>
    /\ pending' = [pending EXCEPT ![n] = Append(@, g)]
    /\ asked' = asked \cup {g}
    /\ UNCHANGED <<regVars, loaded, loadVars, left, userVars>>

GetMissing(n, g) ==
    /\ linked /\ g \notin asked
    /\ ~Cached(n)
    /\ pending[n] = <<>>
    /\ StartLoad(n, g)
    /\ asked' = asked \cup {g}
    /\ UNCHANGED <<linked, loaded, left, userVars>>

-----------------------------------------------------------------------------
\* The read succeeds: an event with a copy of the closure is queued.
ReadSucceeds(l) ==
    /\ stage[l] = "reading"
    /\ stage' = [stage EXCEPT ![l] = "event"]
    /\ refs' = refs + 1
    /\ UNCHANGED <<linked, loaded, pending, name, opHeld, left, asked, userVars>>

\* The read fails: no factory passes an err_cb, so all that is queued is an
\* event that logs the error.
ReadFails(l) ==
    /\ stage[l] = "reading"
    /\ stage' = [stage EXCEPT ![l] = "failed"]
    /\ UNCHANGED <<regVars, loaded, pending, name, opHeld, left, asked, userVars>>

\* The filesystem thread destroys the operation, and the closure in it.
DestroyOp(l) ==
    /\ l \in opHeld
    /\ stage[l] # "reading"
    /\ opHeld' = opHeld \ {l}
    /\ refs' = refs - 1
    /\ UNCHANGED <<linked, loaded, pending, name, stage, left, asked, userVars>>

\* The event makes the resource and enters the closure.
BeginDelivery(l) ==
    /\ stage[l] = "event"
    /\ At("delivering") = {}
    /\ stage' = [stage EXCEPT ![l] = "delivering"]
    /\ loaded' = [loaded EXCEPT ![name[l]] = l]
    /\ left' = pending[name[l]]
    /\ UNCHANGED <<regVars, pending, name, opHeld, asked, userVars>>

\* The resource's constructor throws out of the event, which is destroyed.
ConstructionFails(l) ==
    /\ stage[l] = "event"
    /\ At("delivering") = {}
    /\ stage' = [stage EXCEPT ![l] = "failed"]
    /\ refs' = refs - 1
    /\ UNCHANGED <<linked, loaded, pending, name, opHeld, left, asked, userVars>>

\* One round of the closure's loop over pending_[name].
CallBack(l) ==
    /\ stage[l] = "delivering"
    /\ left # <<>>
    /\ Invoke(Head(left), l)
    /\ left' = Tail(left)
    /\ UNCHANGED <<regVars, loaded, pending, loadVars, asked>>

\* A plausible bug: the list of callbacks is not erased.
EndDeliveryKeepingList(l) ==
    /\ stage[l] = "delivering"
    /\ left = <<>>
    /\ stage' = [stage EXCEPT ![l] = "done"]
    /\ refs' = refs - 1
    /\ UNCHANGED <<linked, loaded, pending, name, opHeld, left, asked, userVars>>

\* pending_.erase(name); the event and its closure are destroyed.
EndDelivery(l) ==
    /\ stage[l] = "delivering"
    /\ left = <<>>
    /\ pending' = [pending EXCEPT ![name[l]] = <<>>]
    /\ stage' = [stage EXCEPT ![l] = "done"]
    /\ refs' = refs - 1
    /\ UNCHANGED <<linked, loaded, name, opHeld, left, asked, userVars>>

\* A caller drops the resource it got.
Release(g) ==
    /\ g \in held
    /\ held' = held \ {g}
    /\ UNCHANGED <<regVars, loaded, pending, loadVars, left, asked, calls, got>>

\* removeRegistry
Remove ==
    /\ linked
    /\ linked' = FALSE
    /\ refs' = refs - 1
    /\ UNCHANGED <<loaded, pending, loadVars, left, asked, userVars>>

LoadStep(l) ==
    \/ ReadSucceeds(l) \/ ReadFails(l) \/ DestroyOp(l)
    \/ BeginDelivery(l) \/ ConstructionFails(l) \/ CallBack(l) \/ EndDelivery(l)

Next ==
    \/ \E n \in Names, g \in Gets :
           GetCached(n, g) \/ GetPending(n, g) \/ GetMissing(n, g)
    \/ \E l \in Loads : LoadStep(l)
    \/ \E g \in Gets : Release(g)
    \/ Remove

\* The filesystem thread and the main loop go on; nobody has to get anything,
\* to release it, or to remove the registry.
Fairness == \A l \in Loads : WF_vars(LoadStep(l))

Safety == Init /\ [][Next]_vars
Spec == Safety /\ Fairness

-----------------------------------------------------------------------------
(***************************************************************************)
(* At most one instance of a resource exists: weak cache and pending lists *)
(* together never let two loads of one name be alive at the same time,     *)
(* even when callers release and ask again while a delivery goes on.       *)
(***************************************************************************)
OneInstance ==
    \A l, m \in Loads : Live(l) /\ Live(m) /\ name[l] = name[m] => l = m

(***************************************************************************)
(* No callback is called twice, also when its load is long over and others *)
(* of the same name follow.                                                *)
(***************************************************************************)
CalledOnce == \A g \in Gets : calls[g] <= 1

(***************************************************************************)
(* "it will only be actually removed when all pending loads on it have     *)
(* been completed" (resources.h:93): the registry that the closure uses    *)
(* through a raw `this` exists as long as the closure may run.             *)
(***************************************************************************)
RegistryOutlivesLoads ==
    At("reading") \cup At("event") \cup At("delivering") # {} => refs > 0

(***************************************************************************)
(* Every callback is eventually called, whatever happens to the registry   *)
(* in the meantime, unless it waits in the list of a name whose load has   *)
(* failed: the closure is the only code that empties the list.             *)
(***************************************************************************)
StuckBehindFailure(g) ==
    \E l \in At("failed") : \E i \in DOMAIN pending[name[l]] : pending[name[l]][i] = g

AnsweredUnlessFailed ==
    \A g \in Gets : (g \in asked) ~> (calls[g] > 0 \/ StuckBehindFailure(g))

(***************************************************************************)
(* "If the load fails, or the object fails to be initialized, cb will be   *)
(* invoked with a default constructed ResourceRef" (resources.h:45-47).    *)
(***************************************************************************)
GetsAnswered == \A g \in Gets : (g \in asked) ~> (calls[g] > 0)
=============================================================================
