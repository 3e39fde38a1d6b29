------------------------------- MODULE Engine -------------------------------
(***************************************************************************)
(* The threads of a running engine put together: the owner, which makes    *)
(* the Core and the Runtime, syncs once a frame and destroys them in       *)
(* reverse order; the filesystem thread (FileService); and the general     *)
(* purpose workers (WorkerPool). They meet in the main queue of the        *)
(* Runtime, an EventQueue that the owner alone executes.                   *)
(*                                                                         *)
(* A request is a call of asyncRead with the main queue (textures, fonts,  *)
(* programs, registries) or a call of asyncReadtoWorker whose callback     *)
(* queues on the main queue (sounds, src/slt_runtime/audio/sound.cpp).     *)
(***************************************************************************)
EXTENDS Sequences, Naturals, FiniteSets

CONSTANTS
    Workers,      \* the general purpose workers
    ByQueue,      \* requests made with asyncRead
    ByWorker,     \* requests made with asyncReadtoWorker, by loadSound
    Pill          \* the empty std::function

Requests == ByQueue \cup ByWorker

ASSUME WorkersFinite == IsFiniteSet(Workers)
ASSUME KindsDisjoint == ByQueue \cap ByWorker = {}
ASSUME PillIsNoRequest == Pill \notin Requests

VARIABLES
    tasks, wpc, op, core, pills, early, late, ran,  \* WorkerPool
    loads, fs, req, posted, result,                 \* FileService
    owner,     \* where the thread that owns Core and Runtime is, or that
               \* the whole process has "crashed"
    instance,  \* whether Core::instance is set
    mainq,     \* Runtime::main_queue, as requests to be answered
    settled,   \* requests whose callback (or error log) ran on the owner
    dropped,   \* requests whose event was destroyed with the main queue
    strayed    \* requests whose event was queued on a destroyed Runtime

poolVars == <<tasks, wpc, op, core, pills, early, late, ran>>
fileVars == <<loads, fs, req, posted, result>>
ownVars == <<owner, instance, mainq, settled, dropped, strayed>>
vars == <<poolVars, fileVars, ownVars>>

Pool == INSTANCE WorkerPool WITH Tasks <- ByWorker
Files == INSTANCE FileService

TypeOK ==
    /\ Pool!TypeOK
    /\ Files!FileTypeOK
    /\ owner \in {"constructing", "frame", "syncing", "noRuntime",
                  "stoppingFiles", "filesJoined", "down", "crashed"}
    /\ instance \in BOOLEAN
    /\ mainq \in Seq(Requests)
    /\ settled \cup dropped \cup strayed \subseteq Requests

Init ==
    /\ Pool!Init
    /\ Files!FileInit
    /\ owner = "constructing"
    /\ instance = TRUE
    /\ mainq = <<>>
    /\ settled = {}
    /\ dropped = {}
    /\ strayed = {}

RuntimeAlive == owner \in {"frame", "syncing"}

\* Every thread ends with the process; the owner's steps ask for its place.
Alive == owner # "crashed"

-----------------------------------------------------------------------------
(* The owner: construction and frames. *)

\* Core::Core: the filesystem thread first, then the workers.
StartFiles ==
    /\ owner = "constructing"
    /\ Files!StartThread
    /\ UNCHANGED <<poolVars, ownVars>>

StartWorker(w) ==
    /\ Alive
    /\ fs # "none"
    /\ Pool!StartWorker(w)
    /\ UNCHANGED <<fileVars, ownVars>>

\* Core::Core returns and the Runtime is made.
Constructed ==
    /\ owner = "constructing"
    /\ fs # "none"
    /\ Pool!ConstructorReturns
    /\ owner' = "frame"
    /\ UNCHANGED <<fileVars, instance, mainq, settled, dropped, strayed>>

\* A load is requested: by the owner, in a frame or in a callback, or by a
\* callback that runs on a worker.
Request(r) ==
    /\ Alive
    /\ RuntimeAlive \/ \E w \in Workers : wpc[w] = "running"
    /\ Files!Post(r)
    /\ UNCHANGED <<poolVars, ownVars>>

\* Runtime::sync calls main_queue.executeAll().
BeginSync ==
    /\ owner = "frame"
    /\ owner' = "syncing"
    /\ UNCHANGED <<poolVars, fileVars, instance, mainq, settled, dropped, strayed>>

\* One event: the request's cb or err_cb or, failing both, the error log.
RunEvent ==
    /\ owner = "syncing"
    /\ mainq # <<>>
    /\ settled' = settled \cup {Head(mainq)}
    /\ mainq' = Tail(mainq)
    /\ UNCHANGED <<poolVars, fileVars, owner, instance, dropped, strayed>>

EndSync ==
    /\ owner = "syncing"
    /\ mainq = <<>>
    /\ owner' = "frame"
    /\ UNCHANGED <<poolVars, fileVars, instance, mainq, settled, dropped, strayed>>

-----------------------------------------------------------------------------
(* The filesystem thread and the workers. *)

FilesStep ==
    /\ Alive
    /\ Files!TakeRequest \/ Files!ReadReturns \/ Files!TakeStop
    /\ UNCHANGED <<poolVars, ownVars>>

\* r's outcome is queued on the main queue. Once the Runtime is destroyed the
\* queue of asyncRead's captured pointer and Runtime::instance are both dead
\* and the call is undefined; the model records it and loses the event.
QueueOutcome(r) ==
    IF RuntimeAlive
    THEN mainq' = Append(mainq, r) /\ UNCHANGED strayed
    ELSE strayed' = strayed \cup {r} /\ UNCHANGED mainq

\* A plausible bug: the success path of asyncRead falls into its error path.
EmitTwice ==
    /\ Alive
    /\ req \in ByQueue
    /\ Files!Emitted
    /\ IF RuntimeAlive
       THEN mainq' = mainq \o <<req, req>> /\ UNCHANGED strayed
       ELSE strayed' = strayed \cup {req} /\ UNCHANGED mainq
    /\ UNCHANGED <<poolVars, owner, instance, settled, dropped>>

\* A plausible bug: nothing is queued for a failure.
EmitOnlyData ==
    /\ Alive
    /\ req \in ByQueue
    /\ Files!Emitted
    /\ IF result[req] = "data" THEN QueueOutcome(req) ELSE UNCHANGED <<mainq, strayed>>
    /\ UNCHANGED <<poolVars, owner, instance, settled, dropped>>

\* asyncRead's operation queues an event, for success and for failure alike.
EmitToQueue ==
    /\ Alive
    /\ req \in ByQueue
    /\ Files!Emitted
    /\ QueueOutcome(req)
    /\ UNCHANGED <<poolVars, owner, instance, settled, dropped>>

\* asyncReadtoWorker's operation queues a task with Core::instance->queueTask,
\* with an empty block if the read failed.
EmitToWorker ==
    /\ Alive
    /\ req \in ByWorker
    /\ Files!Emitted
    /\ Pool!QueueTask(req)
    /\ UNCHANGED ownVars

TakeFromPool(w) ==
    /\ Alive
    /\ Pool!TakeTask(w) \/ Pool!TakePill(w)
    /\ UNCHANGED <<fileVars, ownVars>>

\* The task decodes a sound that is what it should be and queues an event on
\* the main queue.
FinishSound(w) ==
    /\ Alive
    /\ Pool!FinishTask(w)
    /\ result[op[w]] = "data"
    /\ QueueOutcome(op[w])
    /\ UNCHANGED <<fileVars, owner, instance, settled, dropped>>

\* The block is empty, or holds no Ogg Vorbis: the constructor of Sound does not
\* ask whether ov_open_callbacks failed and dereferences the null pointer that
\* ov_info then returns.
CrashSound(w) ==
    /\ Alive
    /\ wpc[w] = "running"
    /\ result[op[w]] = "error"
    /\ owner' = "crashed"
    /\ UNCHANGED <<poolVars, fileVars, instance, mainq, settled, dropped, strayed>>

\* The constructor of Sound adds up what ov_read returns until all samples are
\* there; on a damaged file ov_read returns 0 before that, for ever.
Spin(w) ==
    /\ Alive
    /\ wpc[w] = "running"
    /\ result[op[w]] = "damaged"
    /\ UNCHANGED vars

-----------------------------------------------------------------------------
(* The owner: destruction, in the order of ~Runtime and ~Core. *)

\* The main queue goes with the Runtime, and the events in it.
DestroyRuntime ==
    /\ owner = "frame"
    /\ owner' = "noRuntime"
    /\ dropped' = dropped \cup {mainq[i] : i \in DOMAIN mainq}
    /\ mainq' = <<>>
    /\ UNCHANGED <<poolVars, fileVars, instance, settled, strayed>>

\* ~Core is entered, pushes its pills, and joins the workers.
StopWorkers ==
    /\ owner = "noRuntime"
    /\ Pool!EnterDestructor \/ Pool!PushPill \/ Pool!JoinWorkers
    /\ UNCHANGED <<fileVars, ownVars>>

\* A plausible bug: Core::instance is reset before the filesystem thread is
\* joined.
StopFilesClearingInstance ==
    /\ owner = "noRuntime"
    /\ core = "joined"
    /\ Files!PushStop
    /\ owner' = "stoppingFiles"
    /\ instance' = FALSE
    /\ UNCHANGED <<poolVars, mainq, settled, dropped, strayed>>

StopFiles ==
    /\ owner = "noRuntime"
    /\ core = "joined"
    /\ Files!PushStop
    /\ owner' = "stoppingFiles"
    /\ UNCHANGED <<poolVars, instance, mainq, settled, dropped, strayed>>

\* A plausible bug: the filesystem thread is detached instead of joined.
DetachFiles ==
    /\ owner = "stoppingFiles"
    /\ owner' = "filesJoined"
    /\ UNCHANGED <<poolVars, fileVars, instance, mainq, settled, dropped, strayed>>

JoinFiles ==
    /\ owner = "stoppingFiles"
    /\ Files!JoinThread
    /\ owner' = "filesJoined"
    /\ UNCHANGED <<poolVars, instance, mainq, settled, dropped, strayed>>

\* instance = nullptr, and the end of ~Core.
ClearInstance ==
    /\ owner = "filesJoined"
    /\ instance' = FALSE
    /\ owner' = "down"
    /\ UNCHANGED <<poolVars, fileVars, mainq, settled, dropped, strayed>>

Down == owner \in {"down", "crashed"} /\ UNCHANGED vars

-----------------------------------------------------------------------------
Destruction == StopWorkers \/ StopFiles \/ JoinFiles \/ ClearInstance
Frame == BeginSync \/ RunEvent \/ EndSync
FilesThread == FilesStep \/ EmitToQueue \/ EmitToWorker

Next ==
    \/ StartFiles \/ Constructed
    \/ \E r \in Requests : Request(r)
    \/ Frame
    \/ FilesThread
    \/ \E w \in Workers : StartWorker(w) \/ TakeFromPool(w)
    \/ \E w \in Workers : FinishSound(w) \/ CrashSound(w) \/ Spin(w)
    \/ DestroyRuntime
    \/ Destruction
    \/ Down

\* Every thread runs on; the owner loops over its frames until it leaves, and
\* nobody has to request anything or to leave. A worker in a damaged sound runs
\* on too, and gets nowhere.
Fairness ==
    /\ WF_vars(StartFiles \/ Constructed)
    /\ WF_vars(Frame)
    /\ WF_vars(Destruction)
    /\ WF_vars(FilesThread)
    /\ WF_vars(\E w \in Workers : TakeFromPool(w))
    /\ \A w \in Workers :
           WF_vars(StartWorker(w)) /\ WF_vars(FinishSound(w) \/ CrashSound(w))

Safety == Init /\ [][Next]_vars
Spec == Safety /\ Fairness

-----------------------------------------------------------------------------
Positions(s, r) == {i \in DOMAIN s : s[i] = r}
CountIn(s, r) == Cardinality(Positions(s, r))
One(b) == IF b THEN 1 ELSE 0

\* In how many places request r is: in queues, in the hands of threads, and
\* over.
Queued(r) == CountIn(loads, r) + CountIn(tasks, r) + CountIn(mainq, r)
Held(r) ==
    One(fs \in {"reading", "emitting"} /\ req = r)
    + Cardinality({w \in Workers : wpc[w] = "running" /\ op[w] = r})
Over(r) == One(r \in settled) + One(r \in dropped) + One(r \in strayed)
Places(r) == Queued(r) + Held(r) + Over(r)

(***************************************************************************)
(* A request that has been made is in exactly one place: it is never       *)
(* answered twice, and it is never lost but by the destruction of the main *)
(* queue, across three queues and as many kinds of threads.                *)
(***************************************************************************)
InOnePlace == \A r \in Requests : Places(r) = One(r \in posted)

(***************************************************************************)
(* Core::instance is set whenever the filesystem thread is about to use it *)
(* (file.cpp:99), right through the shutdown: ~Core clears it only after   *)
(* that thread is joined (core.cpp:52-53).                                 *)
(***************************************************************************)
InstanceWhenUsed == fs \in {"reading", "emitting"} => instance

(***************************************************************************)
(* When ~Core is over, no thread of the engine is left and no read is      *)
(* left over for the thread of a later Core to pick up.                    *)
(***************************************************************************)
QuietWhenDown ==
    owner = "down" =>
        /\ fs = "none" /\ loads = <<>>
        /\ \A w \in Workers : wpc[w] = "exited"

(***************************************************************************)
(* "cb or err_cb will be put into queue upon completion" (read.h:24): the  *)
(* filesystem thread, or a worker, never queues an outcome on a main queue *)
(* that has been destroyed.                                                *)
(***************************************************************************)
OutcomesReachQueue == strayed = {}

\* The sounds that some worker will never be done with.
Hung == {r \in ByWorker : \E w \in Workers :
            wpc[w] = "running" /\ op[w] = r /\ result[r] = "damaged"}

(***************************************************************************)
(* Once the owner leaves, the destruction ends, whatever is in flight,     *)
(* but for the two ends that the constructor of Sound can come to on files *)
(* that cannot be decoded: the process crashes, or a worker never returns  *)
(* from its task and the join of ~Core (core.cpp:50) waits for it.         *)
(***************************************************************************)
DestructionEnds ==
    (owner = "noRuntime") ~>
        \/ owner \in {"down", "crashed"}
        \/ Hung # {}

(***************************************************************************)
(* The engine implements AsyncLoads: every request is answered while the   *)
(* owner keeps syncing, at most once and on the owner's thread, whichever  *)
(* of the two ways it takes; none is answered after the Runtime is gone.   *)
(* Excepted are what the constructor of Sound makes of files that cannot   *)
(* be decoded: a crash ends everything, a sound that hangs is not answered *)
(* and keeps its worker, and the last worker those that wait for one. Any  *)
(* other request is answered although sounds hang.                         *)
(***************************************************************************)
Loads == INSTANCE AsyncLoads WITH
    Decoded <- ByWorker,
    Decoders <- Cardinality(Workers),
    open <- owner \in {"constructing", "frame", "syncing"},
    pending <- posted \ (settled \cup dropped \cup strayed),
    hung <- Hung,
    answered <- settled,
    lost <- dropped \cup strayed

ImplementsAsyncLoads == Loads!AsyncSpec
=============================================================================
