--------------------------- MODULE Lifecycle_proofs ---------------------------
(***************************************************************************)
(* Theorems about Cores in a row, for any number of them, any arguments,    *)
(* any settings and each meaning of SLT_ASSERT; and about Runtimes in a     *)
(* row, whichever of the steps of their constructors throw.                 *)
(***************************************************************************)
EXTENDS CoreLifecycle, RuntimeLifecycle, TLAPS

WithLog == {"files", "workers", "up"} \cup Destroying

\* Where threads may run, and that there is a log there. A filesystem thread
\* that a failed constructor left behind has a log as well, whose name keeps
\* the next constructor from going past InitLogging.
ThreadsPlaced ==
    /\ files \/ workers > 0 \/ pc \in WithLog => log /\ "SLT" \in loggers
    /\ workers > 0 => pc \in {"workers", "up", "stopWorkers", "blocked"}
    /\ pc \in {"files", "clear", "reset", "shutdown"} => ~files

\* What a Core has set up and not yet undone, place by place, while no
\* constructor has failed.
Undone ==
    ~failed =>
        /\ pc \in {"out", "preInit", "settings", "logging", "files"} => ~files /\ workers = 0
        /\ pc \in {"out", "preInit"} => loggers = {} /\ ~initLog
        /\ pc \in {"out", "preInit", "settings", "logging"} => ~log
        /\ pc \in {"settings", "logging"} => loggers = {"SLT_init"}
        /\ pc \in WithLog => loggers = {"SLT"} /\ ~initLog
        /\ pc \in {"out", "reset", "shutdown"} => instance = "null"
        /\ pc \in {"out", "shutdown"} => value = default
        /\ pc # "blocked"

LifeInv == TypeOK /\ ThreadsPlaced /\ Undone

-----------------------------------------------------------------------------
LEMMA ExtractedInts ==
    ASSUME NEW s \in Names, NEW text \in Texts
    PROVE  Extracted(s, text) \subseteq Ints
<1>1. text.number \in Ints
  BY IntsKnown DEF Texts
<1> QED
  BY <1>1, IntsKnown DEF Extracted

LEMMA AssignType ==
    ASSUME TypeOK, NEW s \in Names, NEW v \in Ints, Assign(s, v) \/ SetDefault(s, v)
    PROVE  {value', default'} \subseteq [Names -> Ints]
  BY DEF TypeOK, Assign, SetDefault

LEMMA ArgumentType ==
    ASSUME TypeOK, NEW arg \in Arguments, AssignArgument(arg)
    PROVE  {value', default'} \subseteq [Names -> Ints]
<1>1. arg.name \in Names /\ arg.text \in Texts
  BY DEF AssignArgument, Arguments
<1>2. PICK v \in Ints : Assign(arg.name, v)
  BY <1>1, ExtractedInts DEF AssignArgument
<1> QED
  BY <1>1, <1>2, AssignType

-----------------------------------------------------------------------------
LEMMA InitInv == Init => LifeInv
<1> SUFFICES ASSUME Init PROVE LifeInv
  OBVIOUS
<1>1. TypeOK
  <2>1. {value, default} \subseteq [Names -> Ints]
    BY DefaultsValid DEF Init, SettingsInit
  <2>2. attempts \in 0 .. MaxCores /\ workers \in Nat
    BY MaxCoresNat DEF Init
  <2>3. /\ initLog \in BOOLEAN /\ log \in BOOLEAN /\ badQueue \in BOOLEAN
        /\ files \in BOOLEAN /\ failed \in BOOLEAN
    BY Zenon DEF Init
  <2> QED
    BY <2>1, <2>2, <2>3 DEF Init, TypeOK
<1>2. ThreadsPlaced
  BY DEF Init, ThreadsPlaced, WithLog, Destroying
<1>3. Undone
  BY DEF Init, SettingsInit, Undone, WithLog, Destroying
<1> QED
  BY <1>1, <1>2, <1>3 DEF LifeInv

LEMMA StepType == TypeOK /\ [Next]_vars => TypeOK'
<1> SUFFICES ASSUME TypeOK, [Next]_vars PROVE TypeOK'
  OBVIOUS
<1> USE DEF TypeOK, Constructing, Destroying, logVars, settingVars, threadVars
<1>1. CASE Enter
  BY <1>1, MaxCoresNat DEF Enter
<1>2. CASE PreInit
  BY <1>2 DEF PreInit, Fail
<1>3. CASE ArgumentsParsed
  BY <1>3 DEF ArgumentsParsed
<1>4. CASE InitLogging
  <2>1. /\ pc' \in {"out", "files", "blocked"} /\ instance' \in {"null", "core", "stale"}
        /\ loggers' \subseteq {"SLT_init", "SLT"}
    BY <1>4 DEF InitLogging, Fail
  <2>2. initLog' \in BOOLEAN /\ log' \in BOOLEAN /\ failed' \in BOOLEAN
    BY <1>4, Zenon DEF InitLogging, Fail
  <2>3. badQueue' \in BOOLEAN
    <3>1. CASE value["log_async"] = 1
      BY <1>4, <3>1 DEF InitLogging
    <3>2. CASE value["log_async"] # 1
      BY <1>4, <3>2 DEF InitLogging
    <3> QED
      BY <3>1, <3>2
  <2> QED
    BY <1>4, <2>1, <2>2, <2>3 DEF InitLogging
<1>5. CASE StartFiles
  BY <1>5 DEF StartFiles, Fail
<1>6. CASE RefuseWorkers
  BY <1>6 DEF RefuseWorkers, Fail
<1>7. CASE StartWorker
  <2>1. /\ workers' \in Nat /\ pc' \in {"out", "workers", "blocked"}
        /\ instance' \in {"null", "core", "stale"}
    BY <1>7 DEF StartWorker, Fail
  <2>2. failed' \in BOOLEAN
    BY <1>7, Zenon DEF StartWorker, Fail
  <2> QED
    BY <1>7, <2>1, <2>2 DEF StartWorker
<1>8. CASE ConstructorReturns
  BY <1>8 DEF ConstructorReturns
<1>9. ASSUME NEW arg \in Arguments, ParseArgument(arg) PROVE TypeOK'
  <2>1. CASE AssignArgument(arg) /\ UNCHANGED <<pc, instance, failed>>
    BY <1>9, <2>1, ArgumentType DEF ParseArgument
  <2>2. CASE RefusedArgument(arg) /\ Fail
    BY <1>9, <2>2 DEF ParseArgument, RefusedArgument, Fail
  <2> QED
    BY <1>9, <2>1, <2>2 DEF ParseArgument
<1>10. ASSUME NEW s \in Names, NEW v \in Ints, ChangeSetting(s, v) PROVE TypeOK'
  BY <1>10, AssignType DEF ChangeSetting
<1>11. CASE EnterDestructor
  BY <1>11 DEF EnterDestructor
<1>12. CASE StopWorkers \/ StopFiles \/ ClearInstance
  <2>1. CASE StopWorkers
    BY <2>1 DEF StopWorkers
  <2>2. CASE StopFiles
    BY <2>2 DEF StopFiles
  <2>3. CASE ClearInstance
    BY <2>3 DEF ClearInstance
  <2> QED
    BY <1>12, <2>1, <2>2, <2>3
<1>13. CASE ResetSettings \/ ShutdownLogging
  BY <1>13 DEF ResetSettings, ResetAll, ShutdownLogging
<1>14. CASE UNCHANGED vars
  BY <1>14 DEF vars, coreVars
<1> QED
  BY <1>1, <1>2, <1>3, <1>4, <1>5, <1>6, <1>7, <1>8, <1>9, <1>10, <1>11, <1>12, <1>13, <1>14
  DEF Next, Construction, Destruction

LEMMA StepPlaced == LifeInv /\ [Next]_vars => ThreadsPlaced' /\ Undone'
<1> SUFFICES ASSUME LifeInv, [Next]_vars PROVE ThreadsPlaced' /\ Undone'
  OBVIOUS
<1>0. ThreadsPlaced /\ Undone /\ workers \in Nat
  BY DEF LifeInv, TypeOK
<1> USE <1>0 DEF ThreadsPlaced, Undone, WithLog, Destroying, logVars, settingVars, threadVars
<1>1. CASE Enter
  BY <1>1 DEF Enter
<1>2. CASE PreInit
  BY <1>2 DEF PreInit, Fail
<1>3. CASE ArgumentsParsed
  BY <1>3 DEF ArgumentsParsed
<1>4. CASE InitLogging
  <2>1. CASE "SLT" \in loggers \/ badQueue'
    BY <1>4, <2>1 DEF InitLogging, Fail
  <2>2. CASE "SLT" \notin loggers /\ ~badQueue'
    BY <1>4, <2>2 DEF InitLogging
  <2> QED
    BY <2>1, <2>2
<1>5. CASE StartFiles
  <2>1. pc = "files" /\ ~files /\ workers = 0 /\ UNCHANGED <<logVars, settingVars, workers>>
    BY <1>5 DEF StartFiles
  <2>2. CASE Fail /\ UNCHANGED files
    BY <2>1, <2>2 DEF Fail
  <2>3. CASE files' = TRUE /\ pc' = "workers" /\ UNCHANGED <<instance, failed>>
    <3>1. log /\ "SLT" \in loggers
      BY <2>1
    <3> QED
      BY <2>1, <2>3, <3>1
  <2> QED
    BY <1>5, <2>1, <2>2, <2>3 DEF StartFiles
<1>6. CASE RefuseWorkers
  BY <1>6 DEF RefuseWorkers, Fail
<1>7. CASE StartWorker
  BY <1>7 DEF StartWorker, Fail
<1>8. CASE ConstructorReturns
  BY <1>8 DEF ConstructorReturns
<1>9. ASSUME NEW arg \in Arguments, ParseArgument(arg) PROVE ThreadsPlaced' /\ Undone'
  BY <1>9 DEF ParseArgument, RefusedArgument, Fail
<1>10. ASSUME NEW s \in Names, NEW v \in Ints, ChangeSetting(s, v)
       PROVE  ThreadsPlaced' /\ Undone'
  BY <1>10 DEF ChangeSetting
<1>11. CASE EnterDestructor
  BY <1>11 DEF EnterDestructor
<1>12. CASE StopWorkers
  BY <1>12 DEF StopWorkers
<1>13. CASE StopFiles
  BY <1>13 DEF StopFiles
<1>14. CASE ClearInstance
  BY <1>14 DEF ClearInstance
<1>15. CASE ResetSettings
  BY <1>15 DEF ResetSettings, ResetAll
<1>16. CASE ShutdownLogging
  BY <1>16 DEF ShutdownLogging
<1>17. CASE UNCHANGED vars
  BY <1>17 DEF vars, coreVars
<1> QED
  BY <1>1, <1>2, <1>3, <1>4, <1>5, <1>6, <1>7, <1>8, <1>9, <1>10, <1>11, <1>12, <1>13, <1>14,
     <1>15, <1>16, <1>17
  DEF Next, Construction, Destruction

-----------------------------------------------------------------------------
(***************************************************************************)
(* The invariant: types, and what is set up in which place of constructor  *)
(* and destructor.                                                         *)
(***************************************************************************)
THEOREM LifecycleInvariant == Spec => []LifeInv
<1>1. Init => LifeInv
  BY InitInv
<1>2. LifeInv /\ [Next]_vars => LifeInv'
  BY StepType, StepPlaced DEF LifeInv
<1> QED
  BY <1>1, <1>2, PTL DEF Spec, Safety

(***************************************************************************)
(* A thread of the engine always has the log, whatever fails, for any      *)
(* number of Cores and any arguments.                                      *)
(***************************************************************************)
THEOREM AlwaysALog == Spec => []ThreadsHaveLog
<1>1. LifeInv => ThreadsHaveLog
  BY DEF LifeInv, ThreadsPlaced, ThreadsHaveLog
<1> QED
  BY <1>1, LifecycleInvariant, PTL

(***************************************************************************)
(* However many Cores came before, if none has failed the next one starts  *)
(* from what the first one did.                                            *)
(***************************************************************************)
THEOREM StartsClean == Spec => []CleanBetweenCores
<1>1. LifeInv => CleanBetweenCores
  BY DEF LifeInv, Undone, CleanBetweenCores
<1> QED
  BY <1>1, LifecycleInvariant, PTL

-----------------------------------------------------------------------------
(***************************************************************************)
(* Runtimes: what is held at each step of a constructor or a destructor.    *)
(***************************************************************************)

Opening == {"glfw", "window", "gl", "audio"}

\* What is held at each step of a Runtime. Only while no system has thrown does
\* it follow from the step alone what is left of the Runtimes before.
RtTypes ==
    /\ rt \in Opening \cup {"out", "gui", "up", "terminate"}
    /\ windows \in Nat /\ devices \in Nat
    /\ thrown \subseteq {"RuntimeInitError", "system", "assertion"}
Flags == glfw \in BOOLEAN /\ current \in BOOLEAN /\ audio \in BOOLEAN /\ gui \in BOOLEAN
InstanceInv ==
    /\ rt # "out" => rtInstance = "runtime"
    /\ rt = "out" => rtInstance = "null" \/ thrown # {}
WindowInv ==
    /\ rt \notin {"out", "glfw"} => glfw = TRUE
    /\ rt \in {"gl", "audio", "gui", "up"} => windows >= 1
    /\ "system" \notin thrown =>
        /\ rt \in {"out", "glfw"} => glfw = FALSE
        /\ rt \in {"out", "glfw", "window"} => windows = 0
        /\ rt \in {"gl", "audio", "gui", "up"} => windows = 1
SystemsInv ==
    /\ audio = TRUE => devices = 1
    /\ audio = FALSE => devices = 0
    /\ rt \in {"gui", "up"} => audio = TRUE
    /\ rt = "terminate" => audio = FALSE
    /\ gui = TRUE => rt = "up"
    /\ "system" \notin thrown =>
        /\ rt \in Opening \cup {"out"} => audio = FALSE
        /\ rt \in {"gui", "up"} => current = TRUE
RtInv == RtTypes /\ Flags /\ InstanceInv /\ WindowInv /\ SystemsInv

LEMMA RtSteps == RtInv /\ [RtNext]_rtVars => RtInv'
<1> SUFFICES ASSUME RtInv, [RtNext]_rtVars PROVE RtInv'
  OBVIOUS
<1> USE DEF RtInv, RtTypes, Flags, Opening, InstanceInv, WindowInv, SystemsInv,
            Throw, Terminate, platform, systems
<1>1. CASE EnterRuntime
  BY <1>1 DEF EnterRuntime
<1>2. CASE InitGlfw
  BY <1>2 DEF InitGlfw
<1>3. CASE CreateWindow
  <2>1. CASE rt' = "gl"
    <3>0. windows' = windows + 1 /\ devices' = devices /\ thrown' = thrown
      BY <2>1, <1>3, Zenon DEF CreateWindow
    <3>1. RtTypes'
      BY <3>0, <2>1
    <3>2. InstanceInv'
      BY <2>1, <1>3 DEF CreateWindow
    <3>3. WindowInv'
      BY <2>1, <1>3 DEF CreateWindow
    <3>4. SystemsInv'
      BY <2>1, <1>3 DEF CreateWindow
    <3>5. Flags'
      BY <2>1, <1>3, Zenon DEF CreateWindow
    <3> QED
      BY <3>1, <3>2, <3>3, <3>4, <3>5
  <2>2. CASE rt' = "out"
    <3>0. windows' = 0 /\ devices' = devices /\ thrown' = thrown \cup {"RuntimeInitError"}
      BY <2>2, <1>3, Zenon DEF CreateWindow
    <3>1. RtTypes'
      BY <3>0, <2>2
    <3>2. InstanceInv'
      BY <2>2, <1>3 DEF CreateWindow
    <3>3. WindowInv'
      BY <2>2, <1>3 DEF CreateWindow
    <3>4. SystemsInv'
      BY <2>2, <1>3 DEF CreateWindow
    <3>5. Flags'
      BY <2>2, <1>3, Zenon DEF CreateWindow
    <3> QED
      BY <3>1, <3>2, <3>3, <3>4, <3>5
  <2> QED
    BY <1>3, <2>1, <2>2 DEF CreateWindow
<1>4. CASE LoadGl
  <2>1. CASE rt' = "audio"
    <3>1. RtTypes'
      BY <2>1, <1>4 DEF LoadGl
    <3>2. InstanceInv'
      BY <2>1, <1>4 DEF LoadGl
    <3>3. WindowInv'
      BY <2>1, <1>4 DEF LoadGl
    <3>4. SystemsInv'
      BY <2>1, <1>4 DEF LoadGl
    <3>5. Flags'
      BY <2>1, <1>4, Zenon DEF LoadGl
    <3> QED
      BY <3>1, <3>2, <3>3, <3>4, <3>5
  <2>2. CASE rt' = "out"
    <3>0. windows' = 0 /\ devices' = devices /\ thrown' = thrown \cup {"RuntimeInitError"}
      BY <2>2, <1>4, Zenon DEF LoadGl
    <3>1. RtTypes'
      BY <3>0, <2>2
    <3>2. InstanceInv'
      BY <2>2, <1>4 DEF LoadGl
    <3>3. WindowInv'
      BY <2>2, <1>4 DEF LoadGl
    <3>4. SystemsInv'
      BY <2>2, <1>4 DEF LoadGl
    <3>5. Flags'
      BY <2>2, <1>4, Zenon DEF LoadGl
    <3> QED
      BY <3>1, <3>2, <3>3, <3>4, <3>5
  <2> QED
    BY <1>4, <2>1, <2>2 DEF LoadGl
<1>5. CASE StartAudio
  <2>1. CASE rt' = "gui"
    <3>0. /\ windows' = windows /\ thrown' = thrown /\ audio' = TRUE /\ gui' = gui
          /\ devices' = (IF audio THEN devices ELSE devices + 1) /\ current' = ~audio
      BY <2>1, <1>5, Zenon DEF StartAudio
    <3>d. devices' = 1
      <4>1. CASE audio = TRUE
        BY <3>0, <4>1
      <4>2. CASE audio = FALSE
        BY <3>0, <4>2
      <4> QED
        BY <4>1, <4>2
    <3>c. "system" \notin thrown => current' = TRUE
      <4>1. "system" \notin thrown => audio = FALSE
        BY <1>5 DEF StartAudio
      <4> QED
        BY <3>0, <4>1
    <3>1. RtTypes'
      BY <3>0, <3>d, <2>1
    <3>2. InstanceInv'
      BY <2>1, <1>5 DEF StartAudio
    <3>3. WindowInv'
      BY <2>1, <1>5 DEF StartAudio
    <3>4. SystemsInv'
      <4>1. gui' # TRUE
        BY <3>0, <1>5 DEF StartAudio
      <4> QED
        BY <3>0, <3>d, <3>c, <4>1, <2>1
    <3>5. Flags'
      BY <2>1, <1>5, Zenon DEF StartAudio
    <3> QED
      BY <3>1, <3>2, <3>3, <3>4, <3>5
  <2>2. CASE rt' = "out"
    <3>1. RtTypes'
      BY <2>2, <1>5 DEF StartAudio
    <3>2. InstanceInv'
      BY <2>2, <1>5 DEF StartAudio
    <3>3. WindowInv'
      BY <2>2, <1>5 DEF StartAudio
    <3>4. SystemsInv'
      BY <2>2, <1>5 DEF StartAudio
    <3>5. Flags'
      BY <2>2, <1>5, Zenon DEF StartAudio
    <3> QED
      BY <3>1, <3>2, <3>3, <3>4, <3>5
  <2> QED
    BY <1>5, <2>1, <2>2 DEF StartAudio
<1>6. CASE StartGui
  BY <1>6 DEF StartGui
<1>7. CASE ShutdownSystems
  <2>1. RtTypes'
    BY <1>7 DEF ShutdownSystems
  <2>2. InstanceInv'
    BY <1>7 DEF ShutdownSystems
  <2>3. WindowInv'
    BY <1>7 DEF ShutdownSystems
  <2>4. SystemsInv'
    BY <1>7 DEF ShutdownSystems
  <2>5. Flags'
    BY <1>7, Zenon DEF ShutdownSystems
  <2> QED
    BY <2>1, <2>2, <2>3, <2>4, <2>5
<1>8. CASE TearDown
  BY <1>8 DEF TearDown
<1>9. CASE UNCHANGED rtVars
  BY <1>9 DEF rtVars
<1> QED
  BY <1>1, <1>2, <1>3, <1>4, <1>5, <1>6, <1>7, <1>8, <1>9 DEF RtNext

(***************************************************************************)
(* No Runtime can tell what became of the ones before it: nothing is held  *)
(* between two, and one that is up has its window, its audio device and    *)
(* the current context, unless starting the systems has thrown.            *)
(***************************************************************************)
THEOREM RuntimesAreIndependent == RtSpec => []RuntimesIndependent
<1>1. RtInit => RtInv
  <2> SUFFICES ASSUME RtInit PROVE RtInv
    OBVIOUS
  <2>1. RtTypes
    BY DEF RtInit, RtTypes
  <2>2. InstanceInv
    BY DEF RtInit, InstanceInv
  <2>3. WindowInv
    BY DEF RtInit, WindowInv
  <2>4. SystemsInv
    BY DEF RtInit, SystemsInv
  <2>5. Flags
    BY DEF RtInit, Flags
  <2> QED
    BY <2>1, <2>2, <2>3, <2>4, <2>5 DEF RtInv
<1>2. RtInv => RuntimesIndependent
  BY DEF RuntimesIndependent, CleanBetweenRuntimes, RuntimeUsable,
         RtInv, RtTypes, Flags, Opening, InstanceInv, WindowInv, SystemsInv
<1> QED
  BY <1>1, <1>2, RtSteps, PTL DEF RtSpec
=============================================================================
