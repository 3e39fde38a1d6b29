-------------------------- MODULE RuntimeLifecycle --------------------------
(***************************************************************************)
(* The construction and destruction of slt::Runtime on GLFW (runtime_impl. *)
(* cpp, runtime.cpp), one Runtime after another in one process, by one     *)
(* thread and while a Core is up. What matters is what is left in GLFW, in *)
(* OpenAL (audio/system.cpp) and in the statics when a constructor throws, *)
(* and what the next constructor makes of it.                              *)
(***************************************************************************)
EXTENDS Naturals

CONSTANTS
    MaxRuntimes,    \* bound on the constructions attempted
    RuntimeAsserts, \* whether SLT_ASSERT throws (as in tests) or does nothing
    UniformBindings \* GL_MAX_UNIFORM_BUFFER_BINDINGS

VARIABLES
    rt,         \* where the owner of the Runtime is
    tries,      \* constructions attempted
    rtInstance, \* Runtime::instance: "null", "runtime" or "stale"
    glfw,       \* whether GLFW is initialised
    windows,    \* windows that exist
    devices,    \* audio devices open, each with its context
    current,    \* whether the newest of these contexts is OpenAL's current one
    audio,      \* whether audio::System::instance is set
    gui,        \* whether gui::System::instance is set
    blocks,     \* next_uniform_block_location, which is never reset
    thrown      \* what has been thrown: {"RuntimeInitError", "system", "assertion"}

platform == <<glfw, windows>>
systems == <<devices, current, audio, gui, blocks>>
rtVars == <<rt, tries, rtInstance, platform, systems, thrown>>

RtInit ==
    /\ rt = "out" /\ tries = 0 /\ rtInstance = "null"
    /\ glfw = FALSE /\ windows = 0
    /\ devices = 0 /\ current = FALSE /\ audio = FALSE /\ gui = FALSE
    /\ blocks = 0
    /\ thrown = {}

\* An exception leaves the constructor: ~Runtime does not run.
Throw(what) ==
    /\ rt' = "out"
    /\ rtInstance' = "stale"
    /\ thrown' = thrown \cup {what}

-----------------------------------------------------------------------------
EnterRuntime ==
    /\ rt = "out" /\ tries < MaxRuntimes
    /\ tries' = tries + 1
    /\ IF RuntimeAsserts /\ rtInstance # "null"
       THEN thrown' = thrown \cup {"assertion"} /\ UNCHANGED <<rt, rtInstance>>
       ELSE rt' = "glfw" /\ rtInstance' = "runtime" /\ UNCHANGED thrown
    /\ UNCHANGED <<platform, systems>>

InitGlfw ==
    /\ rt = "glfw"
    /\ \/ glfw' = TRUE /\ rt' = "window" /\ UNCHANGED <<rtInstance, thrown>>
       \/ ~glfw /\ Throw("RuntimeInitError") /\ UNCHANGED glfw
    /\ UNCHANGED <<tries, windows, systems>>

\* glfwTerminate destroys every window there is.
Terminate == glfw' = FALSE /\ windows' = 0

\* A plausible bug: GLFW is left initialised.
CreateWindowNoTerminate ==
    /\ rt = "window"
    /\ \/ windows' = windows + 1 /\ rt' = "gl" /\ UNCHANGED <<glfw, rtInstance, thrown>>
       \/ Throw("RuntimeInitError") /\ UNCHANGED platform
    /\ UNCHANGED <<tries, systems>>

CreateWindow ==
    /\ rt = "window"
    /\ \/ windows' = windows + 1 /\ rt' = "gl" /\ UNCHANGED <<glfw, rtInstance, thrown>>
       \/ Throw("RuntimeInitError") /\ Terminate
    /\ UNCHANGED <<tries, systems>>

\* gladLoadGL
LoadGl ==
    /\ rt = "gl"
    /\ \/ rt' = "audio" /\ UNCHANGED <<platform, rtInstance, thrown>>
       \/ Throw("RuntimeInitError") /\ Terminate
    /\ UNCHANGED <<tries, systems>>

\* audio::System::instance = std::make_unique<System>() makes the new one, and
\* its context current, before it destroys one left from an earlier Runtime,
\* which makes no context current. A failing System closes what it opened.
StartAudio ==
    /\ rt = "audio"
    /\ \/ /\ devices' = IF audio THEN devices ELSE devices + 1
          /\ current' = ~audio
          /\ audio' = TRUE
          /\ rt' = "gui"
          /\ UNCHANGED <<rtInstance, thrown>>
       \/ Throw("system") /\ UNCHANGED <<devices, current, audio>>
    /\ UNCHANGED <<tries, platform, gui, blocks>>

\* gui::System registers its uniform block, once per Runtime, until the
\* locations have run out.
StartGui ==
    /\ rt = "gui"
    /\ \/ blocks < UniformBindings /\ blocks' = blocks + 1 /\ gui' = TRUE /\ rt' = "up"
          /\ UNCHANGED <<rtInstance, thrown>>
       \/ blocks = UniformBindings /\ Throw("system") /\ UNCHANGED <<blocks, gui>>
    /\ UNCHANGED <<tries, platform, devices, current, audio>>

-----------------------------------------------------------------------------
\* A plausible bug: the audio system is forgotten.
ShutdownGuiOnly ==
    /\ rt = "up"
    /\ gui' = FALSE
    /\ rt' = "terminate"
    /\ UNCHANGED <<tries, rtInstance, platform, devices, current, audio, blocks, thrown>>

\* ~Runtime: commonShutdown
ShutdownSystems ==
    /\ rt = "up"
    /\ gui' = FALSE
    /\ audio' = FALSE /\ devices' = devices - 1 /\ current' = FALSE
    /\ rt' = "terminate"
    /\ UNCHANGED <<tries, rtInstance, platform, blocks, thrown>>

\* the window and GLFW, and then the instance
TearDown ==
    /\ rt = "terminate"
    /\ Terminate
    /\ rtInstance' = "null"
    /\ rt' = "out"
    /\ UNCHANGED <<tries, systems, thrown>>

RtNext ==
    \/ EnterRuntime \/ InitGlfw \/ CreateWindow \/ LoadGl \/ StartAudio \/ StartGui
    \/ ShutdownSystems \/ TearDown

RtSpec == RtInit /\ [][RtNext]_rtVars

-----------------------------------------------------------------------------
(***************************************************************************)
(* Between two Runtimes nothing is held, unless starting the systems has   *)
(* thrown: then the window and GLFW, and an audio device, are left. The    *)
(* failures that RuntimeInitError reports leave only a stale instance.     *)
(***************************************************************************)
CleanBetweenRuntimes ==
    rt = "out" /\ "system" \notin thrown =>
        /\ ~glfw /\ windows = 0
        /\ devices = 0 /\ ~audio /\ ~gui
        /\ rtInstance = "null" \/ thrown # {}

(***************************************************************************)
(* A Runtime that is up has one window, one audio device and OpenAL's      *)
(* current context, whatever failed before it, unless starting the systems *)
(* did (the left over audio system then takes the context with it).        *)
(***************************************************************************)
RuntimeUsable ==
    rt = "up" =>
        /\ glfw /\ windows >= 1 /\ devices = 1 /\ rtInstance = "runtime"
        /\ "system" \notin thrown => windows = 1 /\ current

(***************************************************************************)
(* No Runtime can tell what became of the ones before it.                  *)
(***************************************************************************)
RuntimesIndependent == CleanBetweenRuntimes /\ RuntimeUsable
=============================================================================
