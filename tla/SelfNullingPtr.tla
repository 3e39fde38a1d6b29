--------------------------- MODULE SelfNullingPtr ---------------------------
(***************************************************************************)
(* slt::self_nulling_ptr and enable_self_nulling_ptr                       *)
(* (include/slt/self_nulling_ptr.h): pointers that read null once their    *)
(* object is destroyed, through a shared, counted storage block. One       *)
(* object and a few pointer variables, which are constructed, assigned and *)
(* destroyed in any order (GUI widgets capture such pointers in callbacks  *)
(* that are copied between queues).                                        *)
(***************************************************************************)
EXTENDS Integers, FiniteSets

CONSTANTS
    Ptrs,     \* pointer variables
    MaxCount  \* bound on the count, which assignments only ever increase

ASSUME PtrsFinite == IsFiniteSet(Ptrs)
ASSUME MaxCountNat == MaxCount \in Nat

VARIABLES
    ptr,      \* ptr[p]: "unborn", or its storage_: "storage" or "null"
    alive,    \* whether the object exists
    storage,  \* the object's storage block: "none", "allocated" or "deleted"
    target,   \* whether storage->ptr points to the object
    count,    \* storage->count
    found     \* what the last step read: "nothing", the "object", "null", what is
              \* deleted ("garbage"), or storage_ that is null ("crash")

vars == <<ptr, alive, storage, target, count, found>>

TypeOK ==
    /\ ptr \in [Ptrs -> {"unborn", "storage", "null"}]
    /\ alive \in BOOLEAN
    /\ storage \in {"none", "allocated", "deleted"}
    /\ target \in BOOLEAN
    /\ count \in Nat
    /\ found \in {"nothing", "object", "null", "garbage", "crash"}

Init ==
    /\ ptr = [p \in Ptrs |-> "unborn"]
    /\ alive = TRUE
    /\ storage = "none"
    /\ target = FALSE
    /\ count = 0
    /\ found = "nothing"

-----------------------------------------------------------------------------
\* operator bool, ->, * and get(), which look into the storage, whatever
\* storage_ is: the null of a pointer that was moved from ends the process.
Dereference(p) ==
    /\ found # "crash"
    /\ ptr[p] # "unborn"
    /\ found' = IF ptr[p] = "null" THEN "crash"
                ELSE IF storage = "deleted" THEN "garbage"
                ELSE IF ~target THEN "null"
                ELSE IF alive THEN "object" ELSE "garbage"
    /\ UNCHANGED <<ptr, alive, storage, target, count>>

\* The other operations read nothing, in a process that lives.
ReadsNothing == found # "crash" /\ found' = "nothing"

\* get_self_nulling_ptr(): makes the storage, counting the object, if this is
\* the first call, and a pointer to it.
Get(p) ==
    /\ ReadsNothing
    /\ alive
    /\ ptr[p] = "unborn"
    /\ IF storage = "none"
       THEN storage' = "allocated" /\ target' = TRUE /\ count' = 2
       ELSE count' = count + 1 /\ UNCHANGED <<storage, target>>
    /\ count' <= MaxCount
    /\ ptr' = [ptr EXCEPT ![p] = "storage"]
    /\ UNCHANGED alive

\* The count goes up if the copied pointer has a storage.
Counted(q) ==
    /\ count' = IF ptr[q] = "storage" THEN count + 1 ELSE count
    /\ count' <= MaxCount

\* A plausible bug: the copy is not counted.
CopyUncounted(p, q) ==
    /\ ReadsNothing
    /\ ptr[p] = "unborn"
    /\ ptr[q] # "unborn"
    /\ ptr' = [ptr EXCEPT ![p] = ptr[q]]
    /\ UNCHANGED <<alive, storage, target, count>>

CopyConstruct(p, q) ==
    /\ ReadsNothing
    /\ ptr[p] = "unborn"
    /\ ptr[q] # "unborn"
    /\ ptr' = [ptr EXCEPT ![p] = ptr[q]]
    /\ Counted(q)
    /\ UNCHANGED <<alive, storage, target>>

MoveConstruct(p, q) ==
    /\ ReadsNothing
    /\ ptr[p] = "unborn"
    /\ ptr[q] # "unborn"
    /\ ptr' = [ptr EXCEPT ![p] = ptr[q], ![q] = "null"]
    /\ UNCHANGED <<alive, storage, target, count>>

\* The storage that p had is not released. (Both assignments end without the
\* return that they declare, which is undefined: they work, as here, or the
\* process ends, which adds no step.)
CopyAssign(p, q) ==
    /\ ReadsNothing
    /\ ptr[p] # "unborn"
    /\ ptr[q] # "unborn"
    /\ ptr' = [ptr EXCEPT ![p] = ptr[q]]
    /\ Counted(q)
    /\ UNCHANGED <<alive, storage, target>>

\* Neither here; moving a pointer onto itself nulls it.
MoveAssign(p, q) ==
    /\ ReadsNothing
    /\ ptr[p] # "unborn"
    /\ ptr[q] # "unborn"
    /\ ptr' = [[ptr EXCEPT ![p] = ptr[q]] EXCEPT ![q] = "null"]
    /\ UNCHANGED <<alive, storage, target, count>>

\* `count-- == 0`: the old value is compared, and the block deleted at zero.
Release ==
    /\ count' = count - 1
    /\ storage' = IF count = 0 THEN "deleted" ELSE storage

\* ~self_nulling_ptr
Destroy(p) ==
    /\ ReadsNothing
    /\ ptr[p] # "unborn"
    /\ ptr' = [ptr EXCEPT ![p] = "unborn"]
    /\ IF ptr[p] = "storage" THEN Release ELSE UNCHANGED <<count, storage>>
    /\ UNCHANGED <<alive, target>>

\* A plausible bug: the pointers left behind are not nulled.
DestroyObjectNotNulling ==
    /\ ReadsNothing
    /\ alive
    /\ alive' = FALSE
    /\ IF storage # "none" THEN Release ELSE UNCHANGED <<count, storage>>
    /\ UNCHANGED <<ptr, target>>

\* ~enable_self_nulling_ptr
DestroyObject ==
    /\ ReadsNothing
    /\ alive
    /\ alive' = FALSE
    /\ IF storage # "none"
       THEN Release /\ target' = FALSE
       ELSE UNCHANGED <<count, storage, target>>
    /\ UNCHANGED ptr

Next ==
    \/ \E p \in Ptrs : Get(p) \/ Dereference(p) \/ Destroy(p)
    \/ \E p, q \in Ptrs :
           CopyConstruct(p, q) \/ MoveConstruct(p, q)
           \/ CopyAssign(p, q) \/ MoveAssign(p, q)
    \/ DestroyObject

Spec == Init /\ [][Next]_vars

-----------------------------------------------------------------------------
Users == {p \in Ptrs : ptr[p] = "storage"}

(***************************************************************************)
(* No pointer and no object ever uses a block that has been deleted: the   *)
(* count may run ahead of its users (assignments never release) but never  *)
(* behind.                                                                 *)
(***************************************************************************)
NeverUsedAfterDelete == Users # {} \/ alive => storage # "deleted"

(***************************************************************************)
(* What is read through a pointer, by any of its operators and at any time *)
(* of any sequence of copies, moves and destructions, is the object while  *)
(* it lives and null from its destruction on. A pointer without a storage  *)
(* is excepted, that is one that was moved from, and what was copied or    *)
(* moved from that one: reading it dereferences null.                      *)
(***************************************************************************)
ReadsRight ==
    /\ found # "garbage"
    /\ found = "object" => alive
    /\ found = "null" => ~alive

PointersSound == NeverUsedAfterDelete /\ ReadsRight

(***************************************************************************)
(* "If there are nullable pointers in existence, set the storage to null.  *)
(* Otherwise delete the storage." (self_nulling_ptr.h:88-89)               *)
(***************************************************************************)
StorageIsFreed == ~alive /\ Users = {} => storage # "allocated"
=============================================================================
