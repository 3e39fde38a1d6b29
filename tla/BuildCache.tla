----------------------------- MODULE BuildCache -----------------------------
(***************************************************************************)
(* The asset build: slt_build.py runs a tool (the shader and registry      *)
(* compilers, or a copy) for each asset and remembers, in one cache file   *)
(* for each distinct command line, when it ran, whether it succeeded, and  *)
(* which files it read and wrote, learned from the tool's log. The user    *)
(* edits, deletes and restores inputs, edits the registry, and may kill    *)
(* the build, at any time.                                                 *)
(*                                                                         *)
(* One asset, thus one output, for which the registry names one of several *)
(* commands. Its directory's other files and caches do not matter to it.   *)
(***************************************************************************)
EXTENDS Naturals

CONSTANTS
    Commands,   \* command lines that write the output
    Files,      \* input files
    Config,     \* Config[c]: the file named by the command line of c
    Parts,      \* Parts[c]: the files that its config names
    FineTimes,  \* whether modification times are finer than a second
    MaxSeconds, \* bound on the time
    MaxEdits,   \* bound on the edits
    NoFile,
    Truncated   \* a cache file that was cut short

ASSUME CommandsReadFiles == Config \in [Commands -> Files] /\ Parts \in [Commands -> SUBSET Files]

VARIABLES
    second,     \* time.time(), without its fraction
    version,    \* version[f]: the contents of f, a count of its edits
    mtime,      \* mtime[f]
    missing,    \* the files that are not there
    output,     \* NoFile, or the command and the versions it was made from
    outputTime, \* its modification time
    wanted,     \* the command that the registry names
    cache,      \* cache[c]: NoFile, Truncated, or what json.load returns
    build,      \* where the build is
    stamp,      \* cache['timestamp'] of the command that is running, or 0
    seen,       \* what the running tool has read: file |-> version
    toRead      \* its reads that are pending

filesystem == <<second, version, mtime, missing, wanted>>
product == <<output, outputTime>>
tool == <<stamp, seen, toRead>>
bldVars == <<filesystem, product, cache, build, tool>>

\* Twice the seconds, so that there is an instant between two of them.
Timestamp == 2 * second
FileTime == IF FineTimes THEN 2 * second + 1 ELSE 2 * second

BldInit ==
    /\ second = 1
    /\ version = [f \in Files |-> 0]
    /\ mtime = [f \in Files |-> 0]
    /\ missing = {}
    /\ output = NoFile /\ outputTime = 0
    /\ wanted \in Commands
    /\ cache = [c \in Commands |-> NoFile]
    /\ build = "idle"
    /\ stamp = 0 /\ seen = <<>> /\ toRead = {}

-----------------------------------------------------------------------------
Inputs(c) == {Config[c]} \cup Parts[c]

\* Whether Exec has to run a command whose cache holds r.
MustRun(r) ==
    \/ ~r.success
    \/ \E f \in r.inputs : f \in missing \/ mtime[f] > r.timestamp
    \/ output = NoFile \/ outputTime < r.timestamp

\* Exec up to the first command. A cache file that was cut short is not JSON,
\* and json.load throws.
Check ==
    /\ build \in {"idle", "skipped", "built", "raised"}
    /\ build' = CASE cache[wanted] = NoFile -> "config"
                [] cache[wanted] = Truncated -> "raised"
                [] OTHER -> IF MustRun(cache[wanted]) THEN "config" ELSE "skipped"
    /\ stamp' = IF build' = "config" THEN Timestamp ELSE 0
    /\ seen' = <<>> /\ toRead' = {}
    /\ UNCHANGED <<filesystem, product, cache>>

\* The tool, on behalf of the command Exec was called for.
Running == {"config", "parts", "failed", "written"}

\* Of a tool that has ended nothing is left.
NoTool == stamp' = 0 /\ seen' = <<>> /\ toRead' = {}

See(f) ==
    /\ f \notin missing
    /\ seen' = [g \in {f} \cup DOMAIN seen |-> IF g = f THEN version[f] ELSE seen[g]]

\* The config is read; its parts are asked for at once.
ReadConfig ==
    /\ build = "config"
    /\ See(Config[wanted])
    /\ toRead' = Parts[wanted]
    /\ build' = "parts"
    /\ UNCHANGED <<filesystem, product, cache, stamp>>

\* The callbacks of the parts, in any order, each counting pending_op down.
ReadPart(f) ==
    /\ build = "parts" /\ f \in toRead
    /\ See(f)
    /\ toRead' = toRead \ {f}
    /\ UNCHANGED <<filesystem, product, cache, build, stamp>>

\* A read fails, and the error's callback throws: the tool is terminated. Or it
\* cannot start, or fails for a reason of its own.
ToolFails ==
    /\ build \in {"config", "parts"}
    /\ build' = "failed"
    /\ UNCHANGED <<filesystem, product, cache, tool>>

\* A plausible bug: the tool does not wait for its reads.
WriteEarly ==
    /\ build = "parts"
    /\ output' = [command |-> wanted, from |-> seen]
    /\ outputTime' = FileTime
    /\ build' = "written"
    /\ UNCHANGED <<filesystem, cache, tool>>

\* executeUntil has returned, with nothing pending.
WriteOutput ==
    /\ build = "parts" /\ toRead = {}
    /\ output' = [command |-> wanted, from |-> seen]
    /\ outputTime' = FileTime
    /\ build' = "written"
    /\ UNCHANGED <<filesystem, cache, tool>>

\* A plausible bug: the time is taken when the commands have run.
SaveCacheAsOfNow ==
    /\ build \in {"failed", "written"}
    /\ cache' = [cache EXCEPT ![wanted] =
           [timestamp |-> Timestamp, success |-> build = "written", inputs |-> DOMAIN seen]]
    /\ build' = "built" /\ NoTool
    /\ UNCHANGED <<filesystem, product>>

\* The rest of Exec: the files read are those the tool logged.
SaveCache ==
    /\ build \in {"failed", "written"}
    /\ cache' = [cache EXCEPT ![wanted] =
           [timestamp |-> stamp, success |-> build = "written", inputs |-> DOMAIN seen]]
    /\ build' = "built" /\ NoTool
    /\ UNCHANGED <<filesystem, product>>

\* The build is killed, perhaps while the output is being written, or after
\* open(cache_file, 'w') has emptied the cache file.
CutShort == [command |-> wanted, from |-> <<>>]
Killed ==
    /\ build \in Running
    /\ \/ UNCHANGED <<product, cache>>
       \/ /\ build = "parts" /\ toRead = {}
          /\ output' = CutShort /\ outputTime' = FileTime
          /\ UNCHANGED cache
       \/ /\ build \in {"failed", "written"}
          /\ cache' = [cache EXCEPT ![wanted] = Truncated]
          /\ UNCHANGED product
    /\ build' = "idle" /\ NoTool
    /\ UNCHANGED filesystem

-----------------------------------------------------------------------------
\* The user, whose changes the build that has ended does not know of.
NoVerdict == build' = IF build \in Running THEN build ELSE "idle"

Edit(f) ==
    /\ version[f] < MaxEdits
    /\ version' = [version EXCEPT ![f] = @ + 1]
    /\ mtime' = [mtime EXCEPT ![f] = FileTime]
    /\ missing' = missing \ {f}
    /\ NoVerdict
    /\ UNCHANGED <<second, wanted, product, cache, tool>>

\* An input is deleted, or moved away, and may come back as it was.
DeleteInput(f) ==
    /\ missing' \in {missing \cup {f}, missing \ {f}}
    /\ NoVerdict
    /\ UNCHANGED <<second, version, mtime, wanted, product, cache, tool>>

\* The registry is read once, at the start of a build.
EditRegistry(c) ==
    /\ build \notin Running
    /\ wanted' = c
    /\ NoVerdict
    /\ UNCHANGED <<second, version, mtime, missing, product, cache, tool>>

DeleteOutput ==
    /\ build \notin Running
    /\ output' = NoFile
    /\ NoVerdict
    /\ UNCHANGED <<filesystem, outputTime, cache, tool>>

Tick ==
    /\ second < MaxSeconds
    /\ second' = second + 1
    /\ UNCHANGED <<version, mtime, missing, wanted, product, cache, build, tool>>

BldNext ==
    \/ Check \/ ReadConfig \/ ToolFails \/ WriteOutput \/ SaveCache \/ Killed
    \/ \E f \in Files : ReadPart(f) \/ Edit(f) \/ DeleteInput(f)
    \/ \E c \in Commands : EditRegistry(c)
    \/ DeleteOutput \/ Tick

BldSpec == BldInit /\ [][BldNext]_bldVars

-----------------------------------------------------------------------------
(***************************************************************************)
(* What the build skips is up to date: whatever was edited or deleted      *)
(* while a tool ran, and whatever failed or was killed, no input is        *)
(* missing, and the output was made from the inputs as they are. The       *)
(* exceptions: the output of another command, which the registry named in  *)
(* the meantime, and one cut short by a kill are as new as any. The file   *)
(* system's times have to be finer than the second to which the build cuts *)
(* its own.                                                                *)
(***************************************************************************)
SkippedIsFresh ==
    build = "skipped" =>
        /\ Inputs(wanted) \cap missing = {}
        /\ \/ output.from = [f \in Inputs(wanted) |-> version[f]]
           \/ output.command # wanted
           \/ output = CutShort
=============================================================================
