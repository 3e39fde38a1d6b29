--------------------------- MODULE CoreLifecycle ---------------------------
(***************************************************************************)
(* The construction and destruction of slt::Core as seen by the thread     *)
(* that does them (src/slt/core.cpp), one Core after another as in a       *)
(* program that makes several or in a series of tests. What matters here   *)
(* is what outlives a Core or a failed constructor: Core::instance, the    *)
(* settings (module Settings), the loggers and spdlog's registry of them   *)
(* (src/slt/log/log.cpp), and the threads.                                 *)
(*                                                                         *)
(* The constructor can fail at several points; the exception then destroys *)
(* the members made so far but not what the body has done.                 *)
(***************************************************************************)
EXTENDS Settings

CONSTANTS
    MaxCores, \* bound on the number of constructions attempted
    Asserts   \* SLT_ASSERT: "off", "terminate" or, SLT_ASSERT_THROWS, "throw"

ASSUME MaxCoresNat == MaxCores \in Nat
ASSUME AssertsKnown == Asserts \in {"off", "terminate", "throw"}

VARIABLES
    pc,        \* where the owner is
    attempts,  \* constructions attempted
    instance,  \* Core::instance: "null", "core", or "stale" for a failed one
    initLog,   \* whether logging::init_log is set
    log,       \* whether slt::log is set
    loggers,   \* names in spdlog's registry
    badQueue,  \* whether spdlog is in async mode with a queue size it refuses
    files,     \* whether filesystem_thread runs
    workers,   \* general purpose workers running
    failed     \* whether some constructor has thrown

logVars == <<initLog, log, loggers, badQueue>>
threadVars == <<files, workers>>
coreVars == <<pc, attempts, instance, logVars, threadVars, failed>>
vars == <<coreVars, settingVars>>

Constructing == {"preInit", "settings", "logging", "files", "workers"}
Destroying == {"stopWorkers", "stopFiles", "clear", "reset", "shutdown"}

TypeOK ==
    /\ pc \in {"out", "up", "blocked", "terminated"} \cup Constructing \cup Destroying
    /\ attempts \in 0 .. MaxCores
    /\ instance \in {"null", "core", "stale"}
    /\ initLog \in BOOLEAN
    /\ log \in BOOLEAN
    /\ loggers \subseteq {"SLT_init", "SLT"}
    /\ badQueue \in BOOLEAN
    /\ {value, default} \subseteq [Names -> Ints]
    /\ files \in BOOLEAN
    /\ workers \in Nat
    /\ failed \in BOOLEAN

Init ==
    /\ pc = "out"
    /\ attempts = 0
    /\ instance = "null"
    /\ initLog = FALSE
    /\ log = FALSE
    /\ loggers = {}
    /\ badQueue = FALSE
    /\ SettingsInit
    /\ files = FALSE
    /\ workers = 0
    /\ failed = FALSE

-----------------------------------------------------------------------------
(* The constructor. *)

\* SLT_ASSERT(instance == nullptr); instance = this.
Enter ==
    /\ pc = "out"
    /\ attempts < MaxCores
    /\ attempts' = attempts + 1
    /\ \/ /\ Asserts # "off" /\ instance # "null"
          /\ pc' = IF Asserts = "throw" THEN "out" ELSE "terminated"
          /\ UNCHANGED <<instance, failed>>
       \/ /\ Asserts = "off" \/ instance = "null"
          /\ pc' = "preInit"
          /\ instance' = "core"
    /\ UNCHANGED <<logVars, settingVars, threadVars, failed>>

\* An exception leaves the constructor. general_purpose_workers_ is destroyed
\* with the other members: if it has workers their joins never return, since
\* only the destructor's body would have stopped them.
Fail ==
    /\ instance' = "stale"
    /\ failed' = TRUE
    /\ pc' = IF workers > 0 THEN "blocked" ELSE "out"

\* logging::preInit: spdlog refuses a second logger of the same name, and
\* any logger at all while it is in async mode with a bad queue size.
PreInit ==
    /\ pc = "preInit"
    /\ \/ /\ "SLT_init" \in loggers \/ badQueue
          /\ Fail
          /\ UNCHANGED logVars
       \/ /\ "SLT_init" \notin loggers /\ ~badQueue
          /\ initLog' = TRUE
          /\ loggers' = loggers \cup {"SLT_init"}
          /\ pc' = "settings"
          /\ UNCHANGED <<instance, failed, log, badQueue>>
    /\ UNCHANGED <<attempts, settingVars, threadVars>>

\* settings::init, one argument; the exception it may throw is SettingsError,
\* or out_of_range for a lone "-".
ParseArgument(arg) ==
    /\ pc = "settings"
    /\ \/ AssignArgument(arg) /\ UNCHANGED <<pc, instance, failed>>
       \/ RefusedArgument(arg) /\ Fail
    /\ UNCHANGED <<attempts, logVars, threadVars>>

ArgumentsParsed ==
    /\ pc = "settings"
    /\ pc' = "logging"
    /\ UNCHANGED <<attempts, instance, failed, logVars, settingVars, threadVars>>

\* logging::init drops the first logger, switches to async mode if log_async
\* says so (the validator of async_log_queue lets 0 and 1 pass, which spdlog
\* does not; not being async does not undo an earlier mode), and makes the
\* second logger.
InitLogging ==
    /\ pc = "logging"
    /\ initLog' = FALSE
    /\ badQueue' = IF value["log_async"] = 1 THEN value["async_log_queue"] < 2 ELSE badQueue
    /\ \/ /\ "SLT" \in loggers \/ badQueue'
          /\ loggers' = loggers \ {"SLT_init"}
          /\ Fail
          /\ UNCHANGED log
       \/ /\ "SLT" \notin loggers /\ ~badQueue'
          /\ loggers' = (loggers \ {"SLT_init"}) \cup {"SLT"}
          /\ log' = TRUE
          /\ pc' = "files"
          /\ UNCHANGED <<instance, failed>>
    /\ UNCHANGED <<attempts, settingVars, threadVars>>

\* startFilesystemThread, unless the thread cannot be made. The new Worker
\* replaces a left-over one, whose join would wait for ever.
StartFiles ==
    /\ pc = "files"
    /\ \/ Fail /\ UNCHANGED files
       \/ files' = TRUE /\ pc' = (IF files THEN "blocked" ELSE "workers")
          /\ UNCHANGED <<instance, failed>>
    /\ UNCHANGED <<attempts, logVars, settingVars, workers>>

\* reserve() of a negative number throws.
RefuseWorkers ==
    /\ pc = "workers"
    /\ value["workers"] < 0
    /\ Fail
    /\ UNCHANGED <<attempts, logVars, settingVars, threadVars>>

\* One round of the constructor's loop, unless the thread cannot be made.
StartWorker ==
    /\ pc = "workers"
    /\ workers < value["workers"]
    /\ \/ Fail /\ UNCHANGED workers
       \/ workers' = workers + 1 /\ UNCHANGED <<pc, instance, failed>>
    /\ UNCHANGED <<attempts, logVars, settingVars, files>>

ConstructorReturns ==
    /\ pc = "workers"
    /\ workers = value["workers"]
    /\ pc' = "up"
    /\ UNCHANGED <<attempts, instance, failed, logVars, settingVars, threadVars>>

\* The program changes a setting, or its default, while the Core is up; for
\* an invalid value it gets a SettingsError and nothing changes.
ChangeSetting(s, v) ==
    /\ pc = "up"
    /\ Assign(s, v) \/ SetDefault(s, v)
    /\ UNCHANGED <<pc, attempts, instance, failed, logVars, threadVars>>

-----------------------------------------------------------------------------
(* The destructor. *)

EnterDestructor ==
    /\ pc = "up"
    /\ pc' = "stopWorkers"
    /\ UNCHANGED <<attempts, instance, failed, logVars, settingVars, threadVars>>

\* The pills and the joins; module WorkerPool has them in detail.
StopWorkers ==
    /\ pc = "stopWorkers"
    /\ workers' = 0
    /\ pc' = "stopFiles"
    /\ UNCHANGED <<attempts, instance, failed, logVars, settingVars, files>>

\* A plausible bug: the thread is told to stop and not joined.
StopFilesNoJoin ==
    /\ pc = "stopFiles"
    /\ pc' = "clear"
    /\ UNCHANGED <<attempts, instance, failed, logVars, settingVars, threadVars>>

StopFiles ==
    /\ pc = "stopFiles"
    /\ files' = FALSE
    /\ pc' = "clear"
    /\ UNCHANGED <<attempts, instance, failed, logVars, settingVars, workers>>

ClearInstance ==
    /\ pc = "clear"
    /\ instance' = "null"
    /\ pc' = "reset"
    /\ UNCHANGED <<attempts, logVars, settingVars, threadVars, failed>>

\* settings::resetAll
ResetSettings ==
    /\ pc = "reset"
    /\ ResetAll
    /\ pc' = "shutdown"
    /\ UNCHANGED <<attempts, instance, failed, logVars, threadVars>>

\* A plausible bug: the logger is released but stays registered.
ShutdownKeepingName ==
    /\ pc = "shutdown"
    /\ log' = FALSE
    /\ pc' = "out"
    /\ badQueue' = FALSE
    /\ UNCHANGED <<attempts, instance, failed, initLog, loggers, settingVars, threadVars>>

\* logging::shutdown: back to sync mode, and no more log.
ShutdownLogging ==
    /\ pc = "shutdown"
    /\ loggers' = loggers \ {"SLT"}
    /\ log' = FALSE
    /\ pc' = "out"
    /\ badQueue' = FALSE
    /\ UNCHANGED <<attempts, instance, failed, initLog, settingVars, threadVars>>

Construction ==
    \/ PreInit \/ ArgumentsParsed \/ InitLogging
    \/ StartFiles \/ RefuseWorkers \/ StartWorker \/ ConstructorReturns
Destruction ==
    StopWorkers \/ StopFiles \/ ClearInstance \/ ResetSettings \/ ShutdownLogging

Next ==
    \/ Enter
    \/ Construction
    \/ \E arg \in Arguments : ParseArgument(arg)
    \/ \E s \in Names, v \in Ints : ChangeSetting(s, v)
    \/ EnterDestructor
    \/ Destruction

\* The owner finishes what it has begun.
Fairness == WF_vars(Construction) /\ WF_vars(Destruction)

Safety == Init /\ [][Next]_vars
Spec == Safety /\ Fairness

-----------------------------------------------------------------------------
(***************************************************************************)
(* A thread of the engine always has the log to write to (worker.cpp logs  *)
(* at its start and its end, file.cpp at every read): logging starts       *)
(* before and stops after all threads, failed constructors included.       *)
(***************************************************************************)
ThreadsHaveLog == files \/ workers > 0 => log /\ "SLT" \in loggers

(***************************************************************************)
(* Unless a constructor failed, the destructor undoes all it did before,   *)
(* so that the next Core starts from where the first one did ("Settings    *)
(* are reset to default values on destruction", core.h:19).                *)
(***************************************************************************)
CleanBetweenCores ==
    pc = "out" /\ ~failed =>
        /\ instance = "null"
        /\ ~initLog /\ ~log /\ loggers = {}
        /\ value = default
        /\ ~files /\ workers = 0

(***************************************************************************)
(* A construction that has begun ends with a usable Core, however many     *)
(* Cores came before it, unless it or an earlier one has thrown.           *)
(***************************************************************************)
ConstructionEnds == (pc \in Constructing) ~> (pc = "up" \/ failed)
=============================================================================
