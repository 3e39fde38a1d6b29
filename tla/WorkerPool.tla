----------------------------- MODULE WorkerPool -----------------------------
(***************************************************************************)
(* The general purpose workers of slt::Core: the task queue tasks_, the    *)
(* threads of general_purpose_workers_ (src/slt/concur/worker.cpp), and    *)
(* the part of Core's constructor and destructor (src/slt/core.cpp) that   *)
(* starts them and joins them.                                             *)
(*                                                                         *)
(* tasks_ is a BlockingQueue, used here as the FifoChannel it implements:  *)
(* a push takes effect at once and a pop is a step that is not enabled     *)
(* while the queue is empty. The destructor stops the workers with one     *)
(* empty std::function per worker, the Pill.                               *)
(***************************************************************************)
EXTENDS Sequences, Naturals, FiniteSets

CONSTANTS
    Workers,  \* the worker threads, settings::workers_count of them
    Tasks,    \* the calls of queueTask, each with its own task
    Pill      \* the empty std::function

ASSUME WorkersFinite == IsFiniteSet(Workers)
ASSUME PillIsNoTask == Pill \notin Tasks

VARIABLES
    tasks,   \* Core::tasks_
    wpc,     \* wpc[w]: where Worker::main of w is
    op,      \* op[w]: what w popped last
    core,    \* where the thread that owns the Core is
    pills,   \* how many pills the destructor has pushed
    early,   \* tasks queued before the destructor was entered
    late,    \* tasks queued since
    ran      \* tasks whose op() has returned

vars == <<tasks, wpc, op, core, pills, early, late, ran>>

TypeOK ==
    /\ tasks \in Seq(Tasks \cup {Pill})
    /\ wpc \in [Workers -> {"unborn", "popping", "running", "exited"}]
    /\ op \in [Workers -> Tasks \cup {Pill}]
    /\ \A w \in Workers : wpc[w] = "running" => op[w] # Pill
    /\ core \in {"starting", "up", "stopping", "joined"}
    /\ pills \in Nat
    /\ early \subseteq Tasks
    /\ late \subseteq Tasks
    /\ ran \subseteq Tasks

Init ==
    /\ tasks = <<>>
    /\ wpc = [w \in Workers |-> "unborn"]
    /\ op = [w \in Workers |-> Pill]
    /\ core = "starting"
    /\ pills = 0
    /\ early = {}
    /\ late = {}
    /\ ran = {}

-----------------------------------------------------------------------------
\* One round of the constructor's loop: a Worker is made, its thread starts.
StartWorker(w) ==
    /\ core = "starting"
    /\ wpc[w] = "unborn"
    /\ wpc' = [wpc EXCEPT ![w] = "popping"]
    /\ UNCHANGED <<tasks, op, core, pills, early, late, ran>>

ConstructorReturns ==
    /\ core = "starting"
    /\ \A w \in Workers : wpc[w] # "unborn"
    /\ core' = "up"
    /\ UNCHANGED <<tasks, wpc, op, pills, early, late, ran>>

\* Core::queueTask, which asks nothing about the state of the Core. Its
\* callers are the owner of the Core, tasks, and the filesystem thread, which
\* is alive throughout the construction and the joining of the workers.
QueueTask(t) ==
    /\ t \notin early \cup late
    /\ tasks' = Append(tasks, t)
    /\ IF core \in {"starting", "up"}
       THEN early' = early \cup {t} /\ UNCHANGED late
       ELSE late' = late \cup {t} /\ UNCHANGED early
    /\ UNCHANGED <<wpc, op, core, pills, ran>>

\* Worker::main pops a task and enters it.
TakeTask(w) ==
    /\ wpc[w] = "popping"
    /\ tasks # <<>>
    /\ Head(tasks) # Pill
    /\ op' = [op EXCEPT ![w] = Head(tasks)]
    /\ tasks' = Tail(tasks)
    /\ wpc' = [wpc EXCEPT ![w] = "running"]
    /\ UNCHANGED <<core, pills, early, late, ran>>

\* Worker::main, op() returns.
FinishTask(w) ==
    /\ wpc[w] = "running"
    /\ ran' = ran \cup {op[w]}
    /\ wpc' = [wpc EXCEPT ![w] = "popping"]
    /\ UNCHANGED <<tasks, op, core, pills, early, late>>

\* A plausible bug: the pill is put back for the next worker, as a pool that
\* stops on a single pill does.
TakePillAndPassItOn(w) ==
    /\ wpc[w] = "popping"
    /\ tasks # <<>>
    /\ Head(tasks) = Pill
    /\ op' = [op EXCEPT ![w] = Pill]
    /\ tasks' = Append(Tail(tasks), Pill)
    /\ wpc' = [wpc EXCEPT ![w] = "exited"]
    /\ UNCHANGED <<core, pills, early, late, ran>>

\* Worker::main pops an empty function: it breaks out of its loop.
TakePill(w) ==
    /\ wpc[w] = "popping"
    /\ tasks # <<>>
    /\ Head(tasks) = Pill
    /\ op' = [op EXCEPT ![w] = Pill]
    /\ tasks' = Tail(tasks)
    /\ wpc' = [wpc EXCEPT ![w] = "exited"]
    /\ UNCHANGED <<core, pills, early, late, ran>>

EnterDestructor ==
    /\ core = "up"
    /\ core' = "stopping"
    /\ UNCHANGED <<tasks, wpc, op, pills, early, late, ran>>

\* A plausible bug: the pills overtake the tasks that are still queued.
PushPillInFront ==
    /\ core = "stopping"
    /\ pills < Cardinality(Workers)
    /\ tasks' = <<Pill>> \o tasks
    /\ pills' = pills + 1
    /\ UNCHANGED <<wpc, op, core, early, late, ran>>

\* A plausible bug: a single pill for all workers.
PushOnePill ==
    /\ core = "stopping"
    /\ pills = 0
    /\ tasks' = Append(tasks, Pill)
    /\ pills' = Cardinality(Workers)
    /\ UNCHANGED <<wpc, op, core, early, late, ran>>

\* One round of the destructor's loop over the workers.
PushPill ==
    /\ core = "stopping"
    /\ pills < Cardinality(Workers)
    /\ tasks' = Append(tasks, Pill)
    /\ pills' = pills + 1
    /\ UNCHANGED <<wpc, op, core, early, late, ran>>

\* general_purpose_workers_.clear(): every ~Worker joins its thread.
JoinWorkers ==
    /\ core = "stopping"
    /\ pills = Cardinality(Workers)
    /\ \A w \in Workers : wpc[w] = "exited"
    /\ core' = "joined"
    /\ UNCHANGED <<tasks, wpc, op, pills, early, late, ran>>

\* The rest of the shutdown is not this module's; it stops here.
Joined == core = "joined" /\ UNCHANGED vars

WorkerStep(w) == StartWorker(w) \/ TakeTask(w) \/ TakePill(w) \/ FinishTask(w)
OwnerStep == ConstructorReturns \/ EnterDestructor \/ PushPill \/ JoinWorkers

Next ==
    \/ \E w \in Workers : WorkerStep(w)
    \/ \E t \in Tasks : QueueTask(t)
    \/ OwnerStep
    \/ Joined

\* The constructor and the destructor run on, a task that is running returns,
\* and tasks_ serves its poppers as FifoChannel promises. Nobody has to queue
\* a task or to destroy the Core.
Fairness ==
    /\ WF_vars(ConstructorReturns \/ PushPill \/ JoinWorkers)
    /\ WF_vars(\E w \in Workers : TakeTask(w) \/ TakePill(w))
    /\ \A w \in Workers : WF_vars(StartWorker(w)) /\ WF_vars(FinishTask(w))

Safety == Init /\ [][Next]_vars
Spec == Safety /\ Fairness

-----------------------------------------------------------------------------
exited == {w \in Workers : wpc[w] = "exited"}
Positions(s, e) == {i \in DOMAIN s : s[i] = e}
pillsQueued == Positions(tasks, Pill)

(***************************************************************************)
(* Every pill is in the queue or has stopped exactly one worker, so that   *)
(* the joins of ~Core wait for pills that are really there (core.cpp:46-50 *)
(* and the empty-function test of Worker::main).                           *)
(***************************************************************************)
PillPerWorker == Cardinality(pillsQueued) + Cardinality(exited) = pills

(***************************************************************************)
(* "Block on all workers before proceeding with the rest of the shutdown"  *)
(* (core.cpp:49): by then every task that was queued before the destructor *)
(* was entered has run to its end, although workers stop one by one, on    *)
(* pills, while others are still inside tasks.                             *)
(***************************************************************************)
DrainedWhenJoined == core = "joined" => early \subseteq ran

\* What makes DrainedWhenJoined inductive: an early task that has not run is
\* inside a worker or in the queue, and pills are behind all early tasks.
EarlyAccountedFor ==
    \A t \in early :
        \/ t \in ran
        \/ \E w \in Workers : wpc[w] = "running" /\ op[w] = t
        \/ Positions(tasks, t) # {}

NoEarlyBehindPill ==
    \A i, j \in DOMAIN tasks : i < j /\ tasks[i] = Pill => tasks[j] \notin early

NoEarlyOnceExited ==
    exited # {} => \A i \in DOMAIN tasks : tasks[i] \notin early

NoPillBeforeShutdown ==
    core \in {"starting", "up"} => pillsQueued = {} /\ exited = {}

JoinedMeansExited == core = "joined" => exited = Workers

DrainInv ==
    /\ EarlyAccountedFor
    /\ NoEarlyBehindPill
    /\ NoEarlyOnceExited
    /\ NoPillBeforeShutdown
    /\ JoinedMeansExited

(***************************************************************************)
(* The destructor gets past its joins, whatever else is queued meanwhile.  *)
(***************************************************************************)
ShutdownEnds == (core = "stopping") ~> (core = "joined")
=============================================================================
