-------------------------- MODULE PreloadRegistry --------------------------
(***************************************************************************)
(* One ResourceRegistry in PRELOAD mode (include/slt_runtime/resources.h,  *)
(* src/slt_runtime/resources.cpp): it reads its index, reg.cap, then loads *)
(* every entry of it, and counts what is pending so that the program can   *)
(* wait before it calls getPreloaded, which throws for what is not there.  *)
(* The count goes up when a load is begun and down when its callback runs. *)
(***************************************************************************)
EXTENDS Integers, FiniteSets

CONSTANTS
    Entries,  \* the entries of the index
    Resource, \* what each entry names: a type and a name in one value
    Nothing

ASSUME EntriesFinite == IsFiniteSet(Entries)
ASSUME NothingIsNoEntry == Nothing \notin Entries

VARIABLES
    known,       \* whether registries_ holds the registry
    index,       \* how far the load of reg.cap is, see IndexProgress
    entry,       \* entry[e]: how far the load of e is
    pendingLoads,\* pending_loads_
    preloaded    \* loaded_: the entry whose resource is kept, or Nothing

plVars == <<known, index, entry, pendingLoads, preloaded>>

Progress == {"unbegun", "reading", "event", "done", "failed"}
IndexProgress == Progress \cup {"broken"}  \* threw in the middle of its entries
Resources == {Resource[e] : e \in Entries}

PlTypeOK ==
    /\ known \in BOOLEAN
    /\ index \in IndexProgress
    /\ entry \in [Entries -> Progress]
    /\ pendingLoads \in Int
    /\ preloaded \in [Resources -> Entries \cup {Nothing}]

PlInit ==
    /\ known = FALSE
    /\ index = "unbegun"
    /\ entry = [e \in Entries |-> "unbegun"]
    /\ pendingLoads = 0
    /\ preloaded = [r \in Resources |-> Nothing]

-----------------------------------------------------------------------------
\* addRegistry with PRELOAD: the registry can be found, and is counting, before
\* anything is read. A name that is taken throws.
AddPreload ==
    /\ ~known /\ index = "unbegun"
    /\ known' = TRUE
    /\ index' = "reading"
    /\ pendingLoads' = pendingLoads + 1
    /\ UNCHANGED <<entry, preloaded>>

\* removeRegistry delinks it; its loads go on.
RemovePreload ==
    /\ known
    /\ known' = FALSE
    /\ UNCHANGED <<index, entry, pendingLoads, preloaded>>

\* The filesystem thread has read reg.cap and queued its callback, or has
\* failed to, and calls nobody.
IndexRead ==
    /\ index = "reading"
    /\ index' \in {"event", "failed"}
    /\ UNCHANGED <<known, entry, pendingLoads, preloaded>>

\* The callback throws before clearPendingLoad: the data is no message, or has
\* no root.
IndexUnreadable ==
    /\ index = "event"
    /\ index' = "failed"
    /\ UNCHANGED <<known, entry, pendingLoads, preloaded>>

\* A plausible bug: the entries are not counted.
PopulateUncounted ==
    /\ index = "event"
    /\ index' = "done"
    /\ entry' = [e \in Entries |-> "reading"]
    /\ pendingLoads' = pendingLoads - 1
    /\ UNCHANGED <<known, preloaded>>

\* The callback of reg.cap: clearPendingLoad, then add for every entry, which
\* counts one more load and begins it.
Populate ==
    /\ index = "event"
    /\ index' = "done"
    /\ entry' = [e \in Entries |-> "reading"]
    /\ pendingLoads' = pendingLoads - 1 + Cardinality(Entries)
    /\ UNCHANGED <<known, preloaded>>

\* The callback throws after clearPendingLoad, in one of the accessors, which
\* check what they read only then: no entry, or some, have been begun, and
\* nothing tells that there are more.
PopulatePartly ==
    /\ index = "event"
    /\ index' = "broken"
    /\ \E begun \in SUBSET Entries :
           /\ begun # Entries
           /\ entry' = [e \in Entries |-> IF e \in begun THEN "reading" ELSE "unbegun"]
           /\ pendingLoads' = pendingLoads - 1 + Cardinality(begun)
    /\ UNCHANGED <<known, preloaded>>

\* The factory's load ends in an event on the main queue, or without one: the
\* read failed, or a sound hangs in its decoder.
EntryRead(e) ==
    /\ entry[e] = "reading"
    /\ \E s \in {"event", "failed"} : entry' = [entry EXCEPT ![e] = s]
    /\ UNCHANGED <<known, index, pendingLoads, preloaded>>

\* The resource's constructor throws out of the event.
EntryUnusable(e) ==
    /\ entry[e] = "event"
    /\ entry' = [entry EXCEPT ![e] = "failed"]
    /\ UNCHANGED <<known, index, pendingLoads, preloaded>>

\* A plausible bug: the load is not counted down.
EntryLoadedUncounted(e) ==
    /\ entry[e] = "event"
    /\ entry' = [entry EXCEPT ![e] = "done"]
    /\ preloaded' = [preloaded EXCEPT ![Resource[e]] = e]
    /\ UNCHANGED <<known, index, pendingLoads>>

\* The closure of add: of two entries with one name the later load stays.
EntryLoaded(e) ==
    /\ entry[e] = "event"
    /\ entry' = [entry EXCEPT ![e] = "done"]
    /\ preloaded' = [preloaded EXCEPT ![Resource[e]] = e]
    /\ pendingLoads' = pendingLoads - 1
    /\ UNCHANGED <<known, index>>

PlLoadStep ==
    \/ IndexRead \/ IndexUnreadable \/ Populate \/ PopulatePartly
    \/ \E e \in Entries : EntryRead(e) \/ EntryUnusable(e) \/ EntryLoaded(e)

PlNext == AddPreload \/ RemovePreload \/ PlLoadStep

\* The filesystem thread, the workers and the main loop go on.
PlFairness == WF_plVars(PlLoadStep)

PlSafety == PlInit /\ [][PlNext]_plVars
PlSpec == PlSafety /\ PlFairness

-----------------------------------------------------------------------------
(***************************************************************************)
(* hasPendingLoads: once a registry that was added has none, every         *)
(* resource of its index can be had from getPreloaded, which would throw   *)
(* (loaded_.at) for one that is missing. An index that threw in the middle *)
(* of its entries (resources.cpp:38-61) is excepted, as its count was      *)
(* cleared at line 36: then this holds of the entries before the throw.    *)
(***************************************************************************)
ReadyMeansLoaded ==
    index # "unbegun" /\ pendingLoads = 0 =>
        /\ index \in {"done", "broken"}
        /\ \A e \in Entries :
               \/ preloaded[Resource[e]] # Nothing
               \/ index = "broken" /\ entry[e] = "unbegun"

(***************************************************************************)
(* A preloaded registry becomes ready, whether it is removed meanwhile or  *)
(* not, unless the load of its index or of an entry that was begun ends    *)
(* without being counted down; it then stays pending for ever. An index    *)
(* that throws once it is counted down is no such load: such a registry    *)
(* becomes ready, with a part of what its index names.                     *)
(***************************************************************************)
LeftPending == index = "failed" \/ \E e \in Entries : entry[e] = "failed"
ReadyUnlessFailed ==
    /\ (index = "reading") ~> (pendingLoads = 0 \/ LeftPending)
    /\ [](LeftPending => [](pendingLoads # 0))

(***************************************************************************)
(* The count is that of the loads begun and not delivered, those that will *)
(* never be included; the load of an index that broke is not among them.   *)
(***************************************************************************)
Outstanding == {e \in Entries : entry[e] \in {"reading", "event", "failed"}}
PendingCounted ==
    /\ index \in {"unbegun"} => pendingLoads = 0
    /\ index \in {"reading", "event", "failed"} => pendingLoads = 1
    /\ index \in {"done", "broken"} => pendingLoads = Cardinality(Outstanding)
=============================================================================
