----------------------------- MODULE Parts_proofs -----------------------------
(***************************************************************************)
(* Theorems about the parts that one thread at a time uses and that share   *)
(* no state (the ones that MCParts runs together): the build script's       *)
(* cache, self_nulling_ptr, sounds and emmiters, drawing, shader programs,  *)
(* splitting and joining. Each is proved by itself, for any values of its   *)
(* constants.                                                               *)
(***************************************************************************)
EXTENDS BuildCache, SelfNullingPtr, Audio, Drawing, Programs, SplitJoin, FiniteSetTheorems,
        SequenceTheorems, TLAPS

-----------------------------------------------------------------------------
(***************************************************************************)
(* The build script. What keeps a skipped build fresh is OutputKnown: the   *)
(* output was made from versions of the inputs that are still current or    *)
(* that were edited after the stamp of the cache, so that the next check    *)
(* sees the edit. ToolReads says the same of the versions that a running    *)
(* tool has read so far.                                                    *)
(***************************************************************************)

IsEntry(r) == r \notin {NoFile, Truncated}

\* The versions in `read` that are out of date are of files edited after t.
Current(read, t) == \A f \in DOMAIN read : read[f] = version[f] \/ mtime[f] > t

BldTypes ==
    /\ second \in Nat /\ stamp \in Nat /\ stamp <= Timestamp
    /\ version \in [Files -> Nat] /\ mtime \in [Files -> Nat]
    /\ wanted \in Commands
    /\ DOMAIN cache = Commands
    /\ build \in {"idle", "skipped", "built", "raised"} \cup Running

\* What is in the cache files was true when they were written, which is not
\* after the build that is running began.
CachePast ==
    \A c \in Commands : IsEntry(cache[c]) =>
        /\ cache[c].timestamp \in Nat /\ cache[c].timestamp <= Timestamp
        /\ build \in Running => cache[c].timestamp <= stamp
        /\ cache[c].success => cache[c].inputs = Inputs(c)

\* What the tool has read, or will.
ToolReads ==
    /\ DOMAIN seen \subseteq Files /\ seen \in [DOMAIN seen -> Nat]
    /\ build \in Running => Current(seen, stamp)
    /\ build = "config" => seen = <<>>
    /\ build = "parts" => DOMAIN seen \cup toRead = Inputs(wanted)
    /\ build = "written" =>
          /\ DOMAIN seen = Inputs(wanted)
          /\ output.command = wanted /\ output.from = seen

\* An output that a command made, and not only began, was made from its inputs
\* as they are, but for those edited after each of its successes.
OutputKnown ==
    output # NoFile =>
        /\ output = [command |-> output.command, from |-> output.from]
        /\ output.command \in Commands
        /\ output.from # <<>> =>
              /\ output.from \in [Inputs(output.command) -> Nat]
              /\ LET r == cache[output.command]
                 IN  IsEntry(r) /\ r.success => Current(output.from, r.timestamp)

\* Why the build was skipped.
SkippedWhy ==
    build = "skipped" => IsEntry(cache[wanted]) /\ ~MustRun(cache[wanted])

BldInv == BldTypes /\ CachePast /\ ToolReads /\ OutputKnown /\ SkippedWhy

-----------------------------------------------------------------------------
LEMMA InputsFacts == \A c \in Commands : Inputs(c) \subseteq Files /\ Inputs(c) # {}
  BY CommandsReadFiles DEF Inputs

LEMMA BldInitInv == BldInit => BldInv
<1> SUFFICES ASSUME BldInit PROVE BldInv
  OBVIOUS
<1>1. BldTypes
  BY DEF BldInit, BldTypes, Timestamp
<1>2. ToolReads
  BY DEF BldInit, ToolReads, Running
<1>3. CachePast /\ OutputKnown /\ SkippedWhy
  BY DEF BldInit, CachePast, OutputKnown, SkippedWhy, IsEntry
<1> QED
  BY <1>1, <1>2, <1>3 DEF BldInv

\* A read is added to those of the tool.
LEMMA Seeing ==
    ASSUME BldInv, build \in Running, NEW f \in Files, See(f),
           UNCHANGED <<second, version, mtime, stamp>>
    PROVE  /\ DOMAIN seen' = {f} \cup DOMAIN seen
           /\ seen' \in [DOMAIN seen' -> Nat]
           /\ Current(seen, stamp)' 
<1> USE DEF BldInv, BldTypes, ToolReads, See, Current
<1>1. DOMAIN seen' = {f} \cup DOMAIN seen /\ seen' \in [DOMAIN seen' -> Nat]
  OBVIOUS
<1>2. \A g \in DOMAIN seen' : seen'[g] = version[g] \/ mtime[g] > stamp
  OBVIOUS
<1> QED
  BY <1>1, <1>2

LEMMA CheckInv == BldInv /\ Check => BldInv'
<1> SUFFICES ASSUME BldInv, Check PROVE BldInv'
  OBVIOUS
<1> USE DEF Check, filesystem, product
<1>1. BldTypes'
  BY DEF BldInv, BldTypes, Timestamp, Running
<1>2. CachePast'
  <2>1. Timestamp' = Timestamp /\ (build' \in Running => stamp' = Timestamp)
    BY DEF Timestamp, Running
  <2> QED
    BY <2>1 DEF BldInv, CachePast
<1>3. ToolReads'
  BY DEF ToolReads, Current, Running
<1>4. OutputKnown'
  BY DEF BldInv, OutputKnown, Current
<1>5. SkippedWhy'
  BY DEF SkippedWhy, IsEntry, MustRun
<1> QED
  BY <1>1, <1>2, <1>3, <1>4, <1>5 DEF BldInv

\* Steps of the tool that write neither its output nor the cache.
LEMMA ReadInv ==
    ASSUME BldInv, ReadConfig \/ (\E f \in Files : ReadPart(f)) \/ ToolFails
    PROVE  BldInv'
<1> USE DEF filesystem, product, tool
<1>1. /\ build \in {"config", "parts"} /\ build' \in {"parts", "failed"}
      /\ UNCHANGED <<second, version, mtime, wanted, output, outputTime, cache, stamp>>
  BY DEF ReadConfig, ReadPart, ToolFails
<1>2. BldTypes' /\ CachePast' /\ OutputKnown' /\ SkippedWhy'
  BY <1>1 DEF BldInv, BldTypes, CachePast, OutputKnown, SkippedWhy, Timestamp, Running, Current
<1>3. ASSUME ReadConfig PROVE ToolReads'
  <2>1. Config[wanted] \in Files /\ Parts[wanted] \subseteq Files /\ See(Config[wanted])
    BY <1>3, CommandsReadFiles DEF BldInv, BldTypes, ReadConfig
  <2>2. /\ DOMAIN seen' = {Config[wanted]} \cup DOMAIN seen
        /\ seen' \in [DOMAIN seen' -> Nat] /\ Current(seen, stamp)'
    BY <1>1, <2>1, Seeing DEF Running
  <2>3. seen = <<>>
    BY <1>3 DEF BldInv, ToolReads, ReadConfig
  <2> QED
    BY <1>1, <1>3, <2>1, <2>2, <2>3 DEF ToolReads, ReadConfig, Inputs
<1>4. ASSUME NEW f \in Files, ReadPart(f) PROVE ToolReads'
  <2>1. /\ DOMAIN seen' = {f} \cup DOMAIN seen
        /\ seen' \in [DOMAIN seen' -> Nat] /\ Current(seen, stamp)'
    BY <1>1, <1>4, Seeing DEF Running, ReadPart
  <2> QED
    BY <1>1, <1>4, <2>1 DEF BldInv, ToolReads, ReadPart
<1>5. ASSUME ToolFails PROVE ToolReads'
  BY <1>1, <1>5 DEF BldInv, ToolReads, ToolFails, Current, Running
<1> QED
  BY <1>2, <1>3, <1>4, <1>5 DEF BldInv

LEMMA WriteInv == BldInv /\ WriteOutput => BldInv'
<1> SUFFICES ASSUME BldInv, WriteOutput PROVE BldInv'
  OBVIOUS
<1> USE DEF WriteOutput, filesystem, tool
<1>1. BldTypes' /\ CachePast' /\ SkippedWhy'
  BY DEF BldInv, BldTypes, CachePast, SkippedWhy, Timestamp, Running
<1>2. DOMAIN seen = Inputs(wanted) /\ Current(seen, stamp) /\ seen \in [DOMAIN seen -> Nat]
  BY DEF BldInv, ToolReads, Running
<1>3. ToolReads'
  BY <1>2 DEF BldInv, ToolReads, Current, Running
<1>4. OutputKnown'
  <2>1. IsEntry(cache[wanted]) => cache[wanted].timestamp \in Nat /\ cache[wanted].timestamp <= stamp
    BY DEF BldInv, BldTypes, CachePast, Running
  <2>2. IsEntry(cache[wanted]) => Current(seen, cache[wanted].timestamp)
    BY <1>2, <2>1 DEF BldInv, BldTypes, ToolReads, Current
  <2> QED
    BY <1>2, <2>2 DEF BldInv, BldTypes, OutputKnown, Current
<1> QED
  BY <1>1, <1>3, <1>4 DEF BldInv

LEMMA SaveInv == BldInv /\ SaveCache => BldInv'
<1> SUFFICES ASSUME BldInv, SaveCache PROVE BldInv'
  OBVIOUS
<1> USE DEF SaveCache, NoTool, filesystem, product
<1> DEFINE r == [timestamp |-> stamp, success |-> build = "written", inputs |-> DOMAIN seen]
<1>1. /\ wanted \in Commands /\ DOMAIN cache = Commands
      /\ cache' = [cache EXCEPT ![wanted] = r]
  BY DEF BldInv, BldTypes
<1>2. r.timestamp = stamp /\ (r.success <=> build = "written") /\ r.inputs = DOMAIN seen
  OBVIOUS
<1> HIDE DEF r
<1>3. \A c \in Commands : cache'[c] = IF c = wanted THEN r ELSE cache[c]
  BY <1>1
<1>4. BldTypes'
  BY <1>1 DEF BldInv, BldTypes, Timestamp, Running
<1>5. CachePast'
  BY <1>2, <1>3 DEF BldInv, BldTypes, CachePast, ToolReads, Timestamp, Running
<1>6. ToolReads' /\ SkippedWhy'
  BY DEF BldInv, ToolReads, SkippedWhy, Running
<1>7. OutputKnown'
  BY <1>2, <1>3 DEF BldInv, OutputKnown, ToolReads, Current, Running
<1> QED
  BY <1>4, <1>5, <1>6, <1>7 DEF BldInv

LEMMA KilledInv == BldInv /\ Killed => BldInv'
<1> SUFFICES ASSUME BldInv, Killed PROVE BldInv'
  OBVIOUS
<1> USE DEF NoTool, filesystem, product
<1>1. /\ build' = "idle" /\ UNCHANGED <<second, version, mtime, wanted>>
      /\ stamp' = 0 /\ seen' = <<>> /\ toRead' = {}
      /\ output' = output \/ output' = CutShort
      /\ cache' = cache \/ cache' = [cache EXCEPT ![wanted] = Truncated]
  BY DEF Killed
<1>2. \A c \in Commands : cache'[c] = cache[c] \/ ~IsEntry(cache'[c])
  BY <1>1 DEF BldInv, BldTypes, IsEntry
<1>3. BldTypes'
  BY <1>1 DEF BldInv, BldTypes, Timestamp
<1>4. CachePast'
  BY <1>1, <1>2 DEF BldInv, CachePast, Timestamp, Running
<1>5. ToolReads' /\ SkippedWhy'
  BY <1>1 DEF BldInv, ToolReads, SkippedWhy, Running
<1>6. ASSUME output' = output PROVE OutputKnown'
  BY <1>1, <1>2, <1>6 DEF BldInv, OutputKnown, Current
<1>7. ASSUME output' = CutShort PROVE OutputKnown'
  BY <1>1, <1>7 DEF BldInv, BldTypes, OutputKnown, CutShort
<1> QED
  BY <1>1, <1>3, <1>4, <1>5, <1>6, <1>7 DEF BldInv

\* What is edited bears a time after all that the caches know of.
LEMMA EditInv == ASSUME FineTimes, BldInv, NEW f \in Files, Edit(f) PROVE BldInv'
<1> USE DEF Edit, NoVerdict, product, tool
<1>1. /\ version' \in [Files -> Nat] /\ mtime' \in [Files -> Nat]
      /\ \A g \in Files : g # f => version'[g] = version[g] /\ mtime'[g] = mtime[g]
      /\ mtime'[f] = Timestamp + 1
  BY DEF BldInv, BldTypes, FileTime, Timestamp
<1>2. BldTypes'
  BY <1>1 DEF BldInv, BldTypes, Timestamp, Running
<1>3. ASSUME NEW read, DOMAIN read \subseteq Files, NEW t \in Nat, t <= Timestamp, Current(read, t)
      PROVE  \A g \in DOMAIN read : read[g] = version'[g] \/ mtime'[g] > t
  BY <1>1, <1>3 DEF BldInv, BldTypes, Current, Timestamp
<1>4. CachePast' /\ SkippedWhy'
  BY DEF BldInv, CachePast, SkippedWhy, Timestamp, Running
<1>5. ToolReads'
  <2>1. build \in Running => \A g \in DOMAIN seen : seen[g] = version'[g] \/ mtime'[g] > stamp
    BY <1>3 DEF BldInv, BldTypes, ToolReads
  <2> QED
    BY <2>1 DEF BldInv, ToolReads, Current, Running
<1>6. OutputKnown'
  <2> SUFFICES ASSUME output # NoFile, output.from # <<>>,
                      IsEntry(cache[output.command]), cache[output.command].success
               PROVE  Current(output.from, cache[output.command].timestamp)'
    BY DEF BldInv, OutputKnown
  <2>1. DOMAIN output.from \subseteq Files /\ output.command \in Commands
    BY InputsFacts DEF BldInv, OutputKnown
  <2>2. /\ Current(output.from, cache[output.command].timestamp)
        /\ cache[output.command].timestamp \in Nat /\ cache[output.command].timestamp <= Timestamp
    BY <2>1 DEF BldInv, OutputKnown, CachePast
  <2>3. \A g \in DOMAIN output.from :
           output.from[g] = version'[g] \/ mtime'[g] > cache[output.command].timestamp
    BY <1>3, <2>1, <2>2
  <2> QED
    BY <2>3 DEF Current
<1> QED
  BY <1>2, <1>4, <1>5, <1>6 DEF BldInv

\* The other things a user does, and time.
LEMMA UserInv ==
    ASSUME BldInv,
           (\E f \in Files : DeleteInput(f)) \/ (\E c \in Commands : EditRegistry(c))
           \/ DeleteOutput \/ Tick
    PROVE  BldInv'
<1> DEFINE Changes ==
             /\ UNCHANGED <<version, mtime, outputTime, cache, stamp, seen, toRead>>
             /\ second' \in Nat /\ second' >= second /\ wanted' \in Commands
             /\ output' \in {output, NoFile}
             /\ \/ UNCHANGED <<build, wanted, output>> /\ (build \in Running \/ missing' = missing)
                \/ build \notin Running /\ build' = "idle"
<1>1. Changes
  <2> USE DEF NoVerdict, filesystem, product, tool
  <2>1. ASSUME NEW c \in Commands, EditRegistry(c) PROVE Changes
    BY <2>1 DEF BldInv, BldTypes, EditRegistry
  <2>2. ASSUME DeleteOutput PROVE Changes
    BY <2>2 DEF BldInv, BldTypes, DeleteOutput
  <2>3. ASSUME Tick PROVE Changes
    BY <2>3 DEF BldInv, BldTypes, Tick
  <2>4. ASSUME NEW f \in Files, DeleteInput(f) PROVE Changes
    BY <2>4 DEF BldInv, BldTypes, DeleteInput
  <2> QED
    BY <2>1, <2>2, <2>3, <2>4
<1>2. Timestamp \in Nat /\ Timestamp' \in Nat /\ Timestamp' >= Timestamp
  <2>1. \A a, b \in Nat : a >= b => 2 * a \in Nat /\ 2 * b \in Nat /\ 2 * a >= 2 * b
    OBVIOUS
  <2> QED
    BY <1>1, <2>1 DEF BldInv, BldTypes, Timestamp
<1>3. BldTypes'
  <2>1. stamp' \in Nat /\ stamp' <= Timestamp'
    BY <1>1, <1>2 DEF BldInv, BldTypes
  <2> QED
    BY <1>1, <2>1 DEF BldInv, BldTypes
<1>4. CachePast'
  BY <1>1, <1>2 DEF BldInv, BldTypes, CachePast, Running
<1>5. ToolReads'
  BY <1>1 DEF BldInv, ToolReads, Running, Current
<1>6. SkippedWhy'
  BY <1>1 DEF BldInv, SkippedWhy, MustRun, Running
<1>7. OutputKnown'
  BY <1>1 DEF BldInv, OutputKnown, Current
<1> QED
  BY <1>3, <1>4, <1>5, <1>6, <1>7 DEF BldInv

LEMMA BldStep == ASSUME FineTimes, BldInv, [BldNext]_bldVars PROVE BldInv'
<1>1. CASE UNCHANGED bldVars
  BY <1>1 DEF bldVars, filesystem, product, tool, BldInv, BldTypes, CachePast, ToolReads,
              OutputKnown, SkippedWhy, Current, Timestamp, MustRun
<1>2. CASE BldNext
  BY <1>2, CheckInv, ReadInv, WriteInv, SaveInv, KilledInv, EditInv, UserInv DEF BldNext
<1> QED
  BY <1>1, <1>2

LEMMA BldInvFresh == BldInv => SkippedIsFresh
<1> SUFFICES ASSUME BldInv, build = "skipped" PROVE SkippedIsFresh
  BY DEF SkippedIsFresh
<1> DEFINE r == cache[wanted]
<1>1. /\ IsEntry(r) /\ r.success /\ output # NoFile /\ wanted \in Commands
      /\ \A f \in r.inputs : f \notin missing /\ ~(mtime[f] > r.timestamp)
  BY DEF BldInv, BldTypes, SkippedWhy, MustRun
<1>2. r.inputs = Inputs(wanted)
  BY <1>1 DEF BldInv, CachePast
<1>3. ASSUME output.command = wanted, output # CutShort
      PROVE  output.from = [f \in Inputs(wanted) |-> version[f]]
  <2>1. output.from # <<>>
    BY <1>1, <1>3 DEF BldInv, OutputKnown, CutShort
  <2>2. output.from \in [Inputs(wanted) -> Nat] /\ Current(output.from, r.timestamp)
    BY <1>1, <1>3, <2>1 DEF BldInv, OutputKnown
  <2>3. \A f \in Inputs(wanted) : output.from[f] = version[f]
    BY <1>1, <1>2, <2>2 DEF Current
  <2> QED
    BY <2>2, <2>3
<1> QED
  BY <1>1, <1>2, <1>3 DEF SkippedIsFresh

(***************************************************************************)
(* Whatever the build skips is fresh, for any commands and files, if the   *)
(* file system's times are finer than the second to which slt_build.py     *)
(* cuts its own (slt_build.py:96): an edit made while a tool was running  *)
(* is then newer than the stamp of its cache.                              *)
(***************************************************************************)
THEOREM SkipsOnlyFresh == ASSUME FineTimes PROVE BldSpec => []SkippedIsFresh
<1>1. BldInit => BldInv
  BY BldInitInv
<1>2. BldInv /\ [BldNext]_bldVars => BldInv'
  BY BldStep
<1>3. BldInv => SkippedIsFresh
  BY BldInvFresh
<1> QED
  BY <1>1, <1>2, <1>3, PTL DEF BldSpec

-----------------------------------------------------------------------------
(***************************************************************************)
(* self_nulling_ptr, for any finite set of pointers and any bound on the    *)
(* count.                                                                   *)
(***************************************************************************)

\* The object's own share of the count.
Own == IF alive /\ storage # "none" THEN 1 ELSE 0

\* The count covers its users. Every decrement takes the share of a user or
\* of the object, so the count is positive at each, and the block stays.
CountCovers ==
    /\ count >= Cardinality(Users) + Own
    /\ storage = "none" => Users = {}
    /\ storage # "deleted"

TargetFollows == target <=> (alive /\ storage # "none")

SnpInv == TypeOK /\ CountCovers /\ TargetFollows /\ ReadsRight

-----------------------------------------------------------------------------
LEMMA UsersFinite ==
    /\ IsFiniteSet(Users)
    /\ Cardinality(Users) \in Nat
    /\ \A p \in Ptrs : p \in Users => Cardinality(Users) >= 1
<1>1. IsFiniteSet(Users)
  BY PtrsFinite, FS_Subset DEF Users
<1>2. Cardinality(Users) \in Nat
  BY <1>1, FS_CardinalityType
<1>3. ASSUME NEW p \in Users PROVE Cardinality(Users) >= 1
  BY <1>1, <1>2, <1>3, FS_EmptySet
<1> QED
  BY <1>1, <1>2, <1>3

\* One more user, at most, counts for one more.
LEMMA OneMore ==
    ASSUME NEW S, IsFiniteSet(S), NEW p, NEW T, T \subseteq S \cup {p}
    PROVE  /\ Cardinality(T) \in Nat /\ Cardinality(S) \in Nat
           /\ Cardinality(T) <= Cardinality(S) + 1
<1>1. IsFiniteSet(S \cup {p}) /\ Cardinality(S \cup {p}) <= Cardinality(S) + 1
         /\ Cardinality(S) \in Nat
  BY FS_AddElement, FS_CardinalityType
<1>2. IsFiniteSet(T) /\ Cardinality(T) <= Cardinality(S \cup {p})
  BY <1>1, FS_Subset
<1>3. Cardinality(T) \in Nat /\ Cardinality(S \cup {p}) \in Nat
  BY <1>1, <1>2, FS_CardinalityType
<1> QED
  BY <1>1, <1>2, <1>3

\* One user less counts for one less.
LEMMA OneLess ==
    ASSUME NEW S, IsFiniteSet(S), NEW q \in S, NEW T, T \subseteq S \ {q}
    PROVE  /\ Cardinality(T) \in Nat /\ Cardinality(S) \in Nat
           /\ Cardinality(T) <= Cardinality(S) - 1
<1>1. IsFiniteSet(S \ {q}) /\ Cardinality(S \ {q}) = Cardinality(S) - 1
         /\ Cardinality(S) \in Nat
  BY FS_RemoveElement, FS_CardinalityType
<1>2. IsFiniteSet(T) /\ Cardinality(T) <= Cardinality(S \ {q})
  BY <1>1, FS_Subset
<1>3. Cardinality(T) \in Nat
  BY <1>2, FS_CardinalityType
<1> QED
  BY <1>1, <1>2, <1>3

\* A user in the place of another, at most, leaves the count.
LEMMA Moved ==
    ASSUME NEW S, IsFiniteSet(S), NEW q \in S, NEW p, NEW T, T \subseteq (S \ {q}) \cup {p}
    PROVE  /\ Cardinality(T) \in Nat /\ Cardinality(S) \in Nat
           /\ Cardinality(T) <= Cardinality(S)
<1>1. /\ Cardinality(S \ {q}) \in Nat /\ Cardinality(S) \in Nat
      /\ Cardinality(S \ {q}) <= Cardinality(S) - 1
  BY OneLess
<1>2. IsFiniteSet(S \ {q})
  BY FS_RemoveElement
<1>3. Cardinality(T) \in Nat /\ Cardinality(T) <= Cardinality(S \ {q}) + 1
  BY <1>2, OneMore
<1> QED
  BY <1>1, <1>3

\* A subset counts for no more.
LEMMA NoMore ==
    ASSUME NEW S, IsFiniteSet(S), NEW T, T \subseteq S
    PROVE  /\ Cardinality(T) \in Nat /\ Cardinality(S) \in Nat
           /\ Cardinality(T) <= Cardinality(S)
  BY FS_Subset, FS_CardinalityType

-----------------------------------------------------------------------------
LEMMA InitInv == Init => SnpInv
<1> SUFFICES ASSUME Init PROVE SnpInv
  OBVIOUS
<1>1. TypeOK
  BY DEF Init, TypeOK
<1>2. Users = {}
  BY DEF Init, Users
<1>3. CountCovers
  BY <1>2, FS_EmptySet DEF Init, CountCovers, Own
<1>4. TargetFollows /\ ReadsRight
  BY DEF Init, TargetFollows, ReadsRight
<1> QED
  BY <1>1, <1>3, <1>4 DEF SnpInv

\* Steps that make no and end no object and no block: what the count and the
\* users have to do.
LEMMA PointerStep ==
    ASSUME SnpInv, ptr' \in [Ptrs -> {"unborn", "storage", "null"}],
           UNCHANGED <<alive, storage, target>>, found' = "nothing",
           count' \in Nat, Cardinality(Users') \in Nat,
           count' - Cardinality(Users') >= count - Cardinality(Users),
           Users = {} => Users' = {}
    PROVE  SnpInv'
<1>1. Cardinality(Users) \in Nat
  BY UsersFinite
<1>2. Own' = Own /\ Own \in {0, 1}
  BY DEF Own
<1>3. CountCovers'
  BY <1>1, <1>2 DEF SnpInv, CountCovers, TypeOK
<1> QED
  BY <1>3 DEF SnpInv, TypeOK, TargetFollows, ReadsRight

LEMMA PointerRead ==
    ASSUME SnpInv, NEW p \in Ptrs, Dereference(p)
    PROVE  SnpInv'
<1>1. UNCHANGED <<ptr, alive, storage, target, count>>
  BY DEF Dereference
<1>2. /\ ptr[p] \in {"storage", "null"} /\ storage # "deleted"
      /\ ptr[p] = "storage" => (target <=> alive)
  BY DEF SnpInv, TypeOK, Dereference, CountCovers, TargetFollows, Users
<1>3. CASE ptr[p] = "null"
  <2>1. found' = "crash"
    BY <1>3 DEF Dereference
  <2> QED
    BY <1>1, <2>1 DEF SnpInv, TypeOK, CountCovers, TargetFollows, ReadsRight, Users, Own
<1>4. CASE ptr[p] = "storage"
  <2>1. found' = IF target THEN "object" ELSE "null"
    BY <1>2, <1>4 DEF Dereference
  <2>2. found' \in {"object", "null"} /\ ReadsRight'
    BY <1>1, <1>2, <1>4, <2>1 DEF ReadsRight
  <2> QED
    BY <1>1, <2>2 DEF SnpInv, TypeOK, CountCovers, TargetFollows, Users, Own
<1> QED
  BY <1>2, <1>3, <1>4

LEMMA StepInv == SnpInv /\ [Next]_vars => SnpInv'
<1> SUFFICES ASSUME SnpInv, [Next]_vars PROVE SnpInv'
  OBVIOUS
<1> USE UsersFinite DEF ReadsNothing, ReadsRight
<1>0. TypeOK /\ CountCovers /\ TargetFollows /\ ReadsRight
  BY DEF SnpInv
<1>1. ASSUME NEW p \in Ptrs, Get(p) PROVE SnpInv'
  <2>0. target' \in BOOLEAN /\ alive' \in BOOLEAN
    BY <1>0, <1>1, Zenon DEF Get, TypeOK
  <2>1. TypeOK'
    BY <1>0, <1>1, <2>0 DEF Get, TypeOK
  <2>2. Users' \subseteq Users \cup {p}
    BY <1>0, <1>1 DEF Get, Users, TypeOK
  <2>3. Cardinality(Users') \in Nat /\ Cardinality(Users') <= Cardinality(Users) + 1
    BY <2>2, OneMore
  <2>4. CASE storage = "none"
    <3>1. Cardinality(Users) = 0
      BY <1>0, <2>4, FS_EmptySet DEF CountCovers
    <3>2. CountCovers' /\ TargetFollows' /\ ReadsRight'
      BY <1>0, <1>1, <2>3, <2>4, <3>1 DEF Get, CountCovers, TargetFollows, Own
    <3> QED
      BY <2>1, <3>2 DEF SnpInv
  <2>5. CASE storage # "none"
    <3>1. CountCovers' /\ TargetFollows' /\ ReadsRight'
      BY <1>0, <1>1, <2>3, <2>5 DEF Get, CountCovers, TargetFollows, Own, TypeOK
    <3> QED
      BY <2>1, <3>1 DEF SnpInv
  <2> QED
    BY <2>4, <2>5
<1>2. ASSUME NEW p \in Ptrs, Destroy(p) PROVE SnpInv'
  <2>1. ptr' \in [Ptrs -> {"unborn", "storage", "null"}]
    BY <1>0, <1>2 DEF Destroy, TypeOK
  <2>2. CASE ptr[p] = "storage"
    <3>1. p \in Users /\ Users' \subseteq Users \ {p}
      BY <1>0, <1>2, <2>2 DEF Destroy, Users, TypeOK
    <3>2. Cardinality(Users') \in Nat /\ Cardinality(Users') <= Cardinality(Users) - 1
      BY <3>1, OneLess
    <3>3. count >= 1 /\ count' = count - 1 /\ storage' = storage
      BY <1>0, <1>2, <2>2, <3>1 DEF Destroy, Release, CountCovers, Own, TypeOK
    <3> QED
      BY <1>0, <1>2, <2>1, <3>1, <3>2, <3>3, PointerStep DEF Destroy, TypeOK
  <2>3. CASE ptr[p] # "storage"
    <3>1. Users' \subseteq Users
      BY <1>0, <1>2, <2>3 DEF Destroy, Users, TypeOK
    <3>2. Cardinality(Users') \in Nat /\ Cardinality(Users') <= Cardinality(Users)
      BY <3>1, NoMore
    <3> QED
      BY <1>0, <1>2, <2>1, <2>3, <3>1, <3>2, PointerStep DEF Destroy, TypeOK
  <2> QED
    BY <2>2, <2>3
<1>3. ASSUME NEW p \in Ptrs, NEW q \in Ptrs, CopyConstruct(p, q) \/ CopyAssign(p, q)
      PROVE SnpInv'
  <2>1. /\ ptr' = [ptr EXCEPT ![p] = ptr[q]]
        /\ Counted(q)
        /\ UNCHANGED <<alive, storage, target>> /\ found' = "nothing"
    BY <1>3 DEF CopyConstruct, CopyAssign
  <2>2. ptr' \in [Ptrs -> {"unborn", "storage", "null"}] /\ count' \in Nat
    BY <1>0, <2>1 DEF Counted, TypeOK
  <2>3. CASE ptr[q] = "storage"
    <3>1. Users' \subseteq Users \cup {p} /\ q \in Users
      BY <1>0, <2>1, <2>3 DEF Users, TypeOK
    <3>2. Cardinality(Users') \in Nat /\ Cardinality(Users') <= Cardinality(Users) + 1
      BY <3>1, OneMore
    <3> QED
      BY <1>0, <2>1, <2>2, <2>3, <3>1, <3>2, PointerStep DEF Counted, TypeOK
  <2>4. CASE ptr[q] # "storage"
    <3>1. Users' \subseteq Users
      BY <1>0, <2>1, <2>4 DEF Users, TypeOK
    <3>2. Cardinality(Users') \in Nat /\ Cardinality(Users') <= Cardinality(Users)
      BY <3>1, NoMore
    <3> QED
      BY <1>0, <2>1, <2>2, <2>4, <3>1, <3>2, PointerStep DEF Counted, TypeOK
  <2> QED
    BY <2>3, <2>4
<1>4. ASSUME NEW p \in Ptrs, NEW q \in Ptrs, MoveConstruct(p, q) \/ MoveAssign(p, q)
      PROVE SnpInv'
  <2>1. /\ ptr' \in [Ptrs -> {"unborn", "storage", "null"}]
        /\ ptr'[q] = "null"
        /\ \A r \in Ptrs \ {q} : ptr'[r] = IF r = p THEN ptr[q] ELSE ptr[r]
        /\ UNCHANGED <<alive, storage, target, count>> /\ found' = "nothing"
    BY <1>0, <1>4 DEF MoveConstruct, MoveAssign, TypeOK
  <2>2. CASE ptr[q] = "storage"
    <3>1. q \in Users /\ Users' \subseteq (Users \ {q}) \cup {p}
      BY <1>0, <2>1, <2>2 DEF Users, TypeOK
    <3>2. Cardinality(Users') \in Nat /\ Cardinality(Users') <= Cardinality(Users)
      BY <3>1, Moved
    <3> QED
      BY <1>0, <2>1, <3>1, <3>2, PointerStep DEF TypeOK
  <2>3. CASE ptr[q] # "storage"
    <3>1. Users' \subseteq Users
      BY <1>0, <2>1, <2>3 DEF Users, TypeOK
    <3>2. Cardinality(Users') \in Nat /\ Cardinality(Users') <= Cardinality(Users)
      BY <3>1, NoMore
    <3> QED
      BY <1>0, <2>1, <3>1, <3>2, PointerStep DEF TypeOK
  <2> QED
    BY <2>2, <2>3
<1>5. ASSUME DestroyObject PROVE SnpInv'
  <2>1. Users' = Users
    BY <1>5 DEF DestroyObject, Users
  <2>2. CASE storage = "none"
    <3>1. UNCHANGED <<count, storage, target, ptr>> /\ ~alive' /\ found' = "nothing"
      BY <1>5, <2>2 DEF DestroyObject
    <3>2. TypeOK' /\ ReadsRight'
      <4>1. target' \in BOOLEAN /\ alive' \in BOOLEAN
        BY <1>0, <1>5, <3>1, Zenon DEF DestroyObject, TypeOK
      <4> QED
        BY <1>0, <3>1, <4>1 DEF TypeOK
    <3>3. CountCovers' /\ TargetFollows'
      BY <1>0, <2>1, <2>2, <3>1 DEF CountCovers, TargetFollows, Own, TypeOK
    <3> QED
      BY <3>2, <3>3 DEF SnpInv
  <2>3. CASE storage # "none"
    <3>1. count >= 1 /\ count' = count - 1 /\ storage' = storage /\ ~target' /\ ~alive'
      BY <1>0, <1>5, <2>3 DEF DestroyObject, Release, CountCovers, Own, TypeOK
    <3>2. TypeOK'
      <4>1. target' \in BOOLEAN /\ alive' \in BOOLEAN
        BY <1>5, <2>3, Zenon DEF DestroyObject
      <4> QED
        BY <1>0, <1>5, <3>1, <4>1 DEF DestroyObject, TypeOK
    <3>3. CountCovers'
      BY <1>0, <1>5, <2>1, <2>3, <3>1 DEF DestroyObject, CountCovers, Own, TypeOK
    <3>4. ReadsRight'
      BY <1>5 DEF DestroyObject
    <3> QED
      BY <3>1, <3>2, <3>3, <3>4 DEF SnpInv, TargetFollows
  <2> QED
    BY <2>2, <2>3
<1>6. CASE UNCHANGED vars
  BY <1>0, <1>6 DEF vars, SnpInv, TypeOK, CountCovers, TargetFollows, Own, Users
<1> QED
  BY <1>1, <1>2, <1>3, <1>4, <1>5, <1>6, PointerRead DEF Next

-----------------------------------------------------------------------------
(***************************************************************************)
(* The count never falls behind its users, whatever sequence of copies,    *)
(* moves and destructions: the type invariant, the count and the target of *)
(* the block are right in every reachable state. In particular the block   *)
(* is never deleted, by anybody (self_nulling_ptr.h:38, 92).               *)
(***************************************************************************)
THEOREM CountSound == Spec => []SnpInv
<1>1. Init => SnpInv
  BY InitInv
<1>2. SnpInv /\ [Next]_vars => SnpInv'
  BY StepInv
<1> QED
  BY <1>1, <1>2, PTL DEF Spec

(***************************************************************************)
(* For any number of pointers: what is read through one that has a storage *)
(* is the object while it lives and null from its destruction on, and the  *)
(* storage exists as long as a pointer or the object refers to it.         *)
(***************************************************************************)
THEOREM PointersAreSound == Spec => []PointersSound
<1>1. SnpInv => PointersSound
  BY DEF SnpInv, CountCovers, TargetFollows, PointersSound, NeverUsedAfterDelete
<1> QED
  BY <1>1, CountSound, PTL

-----------------------------------------------------------------------------
(***************************************************************************)
(* Sounds and emmiters. Decoding and the buffers are proved apart, for      *)
(* neither needs the other.                                                 *)
(***************************************************************************)

(* The decoder stays in its file, unless it is sent away, and in its samples. *)

LEMMA MinOfTwo == ASSUME NEW a \in Int, NEW b \in Int PROVE Min({a, b}) = IF a <= b THEN a ELSE b
  BY DEF Min

LEMMA Remainder == \A n \in Int, d \in Nat : d > 0 => n % d \in 0 .. d - 1
  OBVIOUS

LEMMA NoRemainder == \A n \in Nat, d \in Nat : n < d => n % d = n
  OBVIOUS

DecodeTypes ==
    /\ sound \in [Sounds -> {"unborn", "opening", "decoding", "ready", "dead", "crashed"}]
    /\ cursor \in [Sounds -> Int]
    /\ written \in [Sounds -> 0 .. SizeRange - 1]
    /\ faults \in [Sounds -> SUBSET {"file", "error", "bytes", "samples"}]

\* What is wrong with a decoder has been recorded.
Recorded(s) ==
    /\ cursor[s] \in 0 .. RawSize \/ "file" \in faults[s]
    /\ "bytes" \in faults[s] => "file" \in faults[s]
    /\ "samples" \notin faults[s]
    /\ written[s] <= PcmSize \/ "error" \in faults[s]
    /\ sound[s] = "ready" => written[s] = PcmSize \/ "error" \in faults[s]

DecodeInv == DecodeTypes /\ \A s \in Sounds : Recorded(s)

LEMMA DecodeInitInv == AudInit => DecodeInv
<1> SUFFICES ASSUME AudInit PROVE DecodeInv
  OBVIOUS
<1>1. DecodeTypes
  BY AudioSizes DEF AudInit, DecodeTypes
<1>2. \A s \in Sounds : Recorded(s)
  BY AudioSizes DEF AudInit, Recorded
<1> QED
  BY <1>1, <1>2 DEF DecodeInv

LEMMA ReadRawInv ==
    ASSUME DecodeInv, NEW s \in Sounds, DecodeRead(s)
    PROVE  DecodeInv'
<1>1. PICK asked \in 1 .. RawSize + 1 : Copies(s, Min({asked, (RawSize - cursor[s]) % SizeRange}))
  BY DEF DecodeRead
<1> DEFINE left == (RawSize - cursor[s]) % SizeRange
           n == Min({asked, left})
           f == IF n > 0 /\ ~(0 <= cursor[s] /\ cursor[s] + n <= RawSize) THEN {"bytes"} ELSE {}
<1>2. cursor[s] \in Int /\ asked \in Int /\ RawSize \in Nat /\ SizeRange \in Nat /\ SizeRange > RawSize
  BY AudioSizes DEF DecodeInv, DecodeTypes
<1>3. left \in Nat
  BY <1>2, Remainder
<1>4. cursor[s] \in 0 .. RawSize => left = RawSize - cursor[s]
  BY <1>2, NoRemainder
<1> HIDE DEF left
<1>5. n = IF asked <= left THEN asked ELSE left
  BY <1>2, <1>3, MinOfTwo
<1>6. n \in Nat /\ n <= left
  BY <1>2, <1>3, <1>5
<1>7. /\ cursor' = [cursor EXCEPT ![s] = cursor[s] + n]
      /\ faults' = [faults EXCEPT ![s] = @ \cup f]
      /\ UNCHANGED <<sound, written>> /\ sound[s] # "ready"
  BY <1>1 DEF Copies, DecodeRead, InLibrary, left
<1> HIDE DEF n
<1>8. CASE cursor[s] \in 0 .. RawSize
  <2>1. cursor[s] + n \in 0 .. RawSize /\ f = {}
    BY <1>2, <1>3, <1>4, <1>6, <1>8
  <2> QED
    BY <1>7, <2>1 DEF DecodeInv, DecodeTypes, Recorded
<1>9. CASE cursor[s] \notin 0 .. RawSize
  <2>1. "file" \in faults[s] /\ f \subseteq {"bytes"}
    BY <1>9 DEF DecodeInv, Recorded
  <2> QED
    BY <1>2, <1>6, <1>7, <2>1 DEF DecodeInv, DecodeTypes, Recorded
<1> QED
  BY <1>8, <1>9

LEMMA SeekInv ==
    ASSUME DecodeInv, NEW s \in Sounds, DecodeSeek(s)
    PROVE  DecodeInv'
<1>1. PICK to \in -MaxCursor .. MaxCursor :
         /\ cursor' = [cursor EXCEPT ![s] = to]
         /\ faults' = [faults EXCEPT ![s] = @ \cup IF to \in 0 .. RawSize THEN {} ELSE {"file"}]
  BY DEF DecodeSeek
<1>2. UNCHANGED <<sound, written>> /\ sound[s] # "ready"
  BY DEF DecodeSeek, InLibrary
<1>3. to \in Int
  BY AudioSizes
<1> QED
  BY <1>1, <1>2, <1>3 DEF DecodeInv, DecodeTypes, Recorded

LEMMA OvReadInv ==
    ASSUME DecodeInv, NEW s \in Sounds, OvRead(s)
    PROVE  DecodeInv'
<1>1. /\ UNCHANGED <<sound, cursor>> /\ sound[s] # "ready" /\ written[s] < PcmSize
      /\ written[s] \in Nat /\ PcmSize \in Nat /\ SizeRange \in Nat /\ SizeRange > PcmSize
  BY AudioSizes DEF OvRead, DecodeInv, DecodeTypes
<1>2. ASSUME NEW n \in 0 .. (PcmSize - written[s]) % SizeRange,
             written' = [written EXCEPT ![s] = (@ + n) % SizeRange],
             faults' = [faults EXCEPT ![s] = @ \cup IF written[s] + n > PcmSize THEN {"samples"} ELSE {}]
      PROVE  DecodeInv'
  <2>1. (PcmSize - written[s]) % SizeRange = PcmSize - written[s]
    BY <1>1, NoRemainder
  <2>2. written[s] + n \in Nat /\ written[s] + n <= PcmSize
    <3>1. n \in 0 .. PcmSize - written[s]
      BY <2>1, Zenon
    <3> QED
      BY <1>1, <3>1
  <2>3. (written[s] + n) % SizeRange = written[s] + n
    BY <1>1, <2>2, NoRemainder
  <2> QED
    BY <1>1, <1>2, <2>2, <2>3 DEF DecodeInv, DecodeTypes, Recorded
<1>3. ASSUME NEW e \in OvErrors,
             written' = [written EXCEPT ![s] = (@ - e) % SizeRange],
             faults' = [faults EXCEPT ![s] = @ \cup {"error"}]
      PROVE  DecodeInv'
  <2> DEFINE w == (written[s] - e) % SizeRange
  <2>1. w \in 0 .. SizeRange - 1
    <3>1. written[s] - e \in Int /\ SizeRange > 0
      BY <1>1, AudioSizes
    <3> QED
      BY <1>1, <3>1, Remainder
  <2>2. written' = [written EXCEPT ![s] = w]
    BY <1>3
  <2> HIDE DEF w
  <2> QED
    BY <1>1, <1>3, <2>1, <2>2 DEF DecodeInv, DecodeTypes, Recorded
<1> QED
  BY <1>2, <1>3 DEF OvRead

\* The steps around the decoding.
LEMMA OpenInv ==
    ASSUME DecodeInv, NEW s \in Sounds, BeginDecode(s) \/ Opens(s) \/ OpenFails(s) \/ EndDecode(s)
    PROVE  DecodeInv'
<1> USE DEF decodeVars, playVars
<1>1. UNCHANGED decodeVars /\ \A r \in Sounds : r # s => sound'[r] = sound[r]
  BY DEF BeginDecode, Opens, OpenFails, EndDecode, DecodeInv, DecodeTypes
<1>2. sound' \in [Sounds -> {"unborn", "opening", "decoding", "ready", "dead", "crashed"}]
  BY DEF BeginDecode, Opens, OpenFails, EndDecode, DecodeInv, DecodeTypes
<1>3. sound'[s] = "ready" => written[s] >= PcmSize
  BY DEF BeginDecode, Opens, OpenFails, EndDecode, DecodeInv, DecodeTypes
<1>4. written[s] \in Nat /\ PcmSize \in Nat
  BY AudioSizes DEF DecodeInv, DecodeTypes
<1> QED
  BY <1>1, <1>2, <1>3, <1>4 DEF DecodeInv, DecodeTypes, Recorded

LEMMA LetGoDecodes ==
    ASSUME DecodeInv, NEW s, NEW sources, LetGo(s, sources), UNCHANGED <<written, faults>>
    PROVE  DecodeInv'
  BY AudioSizes DEF LetGo, DecodeInv, DecodeTypes, Recorded

LEMMA DecodeStep == DecodeInv /\ [AudNext]_audVars => DecodeInv'
<1> SUFFICES ASSUME DecodeInv, [AudNext]_audVars PROVE DecodeInv'
  OBVIOUS
<1> USE DEF decodeVars, playVars
<1>1. ASSUME NEW s \in Sounds, Drop(s) PROVE DecodeInv'
  BY <1>1, LetGoDecodes DEF Drop
<1>2. ASSUME NEW m \in Emmiters, NEW s \in Sounds, Play(m, s) PROVE DecodeInv'
  BY <1>2, LetGoDecodes DEF Play
<1>3. ASSUME NEW m \in Emmiters, DestroyEmmiter(m) PROVE DecodeInv'
  <2>1. PICK sources : sources = sourceBuffer'
    OBVIOUS
  <2>2. LetGo(currentSound[m], sources)
    BY <1>3, <2>1 DEF DestroyEmmiter, LetGo
  <2> QED
    BY <1>3, <2>2, LetGoDecodes DEF DestroyEmmiter
<1>4. ASSUME NEW m \in Emmiters, Finish(m) PROVE DecodeInv'
  BY <1>4 DEF Finish, DecodeInv, DecodeTypes, Recorded
<1>5. CASE UNCHANGED audVars
  BY <1>5 DEF audVars, DecodeInv, DecodeTypes, Recorded
<1> QED
  BY <1>1, <1>2, <1>3, <1>4, <1>5, OpenInv, ReadRawInv, SeekInv, OvReadInv DEF AudNext

(***************************************************************************)
(* The decoder's callbacks and the loop around ov_read stay in the file,   *)
(* unless libvorbisfile sends the cursor outside it, and in the samples,   *)
(* all of which are there at the end, unless ov_read reported an error;    *)
(* for any sizes of both and any errors.                                   *)
(***************************************************************************)
THEOREM DecoderInBounds == AudSpec => []DecodesInBounds
<1>1. DecodeInv => DecodesInBounds
  BY DEF DecodeInv, Recorded, DecodesInBounds
<1> QED
  BY <1>1, DecodeInitInv, DecodeStep, PTL DEF AudSpec

-----------------------------------------------------------------------------
(* The buffers. *)

\* Who refers to whom: what is kept or played is ready, what is ready has a
\* buffer, and a source has the buffer of its emmiter's sound or of a displaced
\* one.
BufferInv ==
    /\ sound \in [Sounds -> {"unborn", "opening", "decoding", "ready", "dead", "crashed"}]
    /\ kept \subseteq Sounds
    /\ \A s \in kept : sound[s] = "ready"
    /\ {currentSound, sourceBuffer} \subseteq [Emmiters -> Sounds \cup {NoSound}]
    /\ \A m \in Emmiters : currentSound[m] # NoSound => sound[currentSound[m]] = "ready"
    /\ \A s \in Sounds : sound[s] \in {"opening", "decoding", "ready"} => s \in alBuffers
    /\ \A m \in Emmiters :
          sourceBuffer[m] \notin {NoSound, currentSound[m]} => sourceBuffer[m] \in displaced

BuffersInv == BufferInv /\ BuffersReleased

LEMMA BuffersInit == AudInit => BuffersInv
<1> SUFFICES ASSUME AudInit PROVE BuffersInv
  OBVIOUS
<1>1. BufferInv
  BY DEF AudInit, BufferInv
<1>2. BuffersReleased
  BY DEF AudInit, BuffersReleased
<1> QED
  BY <1>1, <1>2 DEF BuffersInv

\* What letting go of a sound does, once the fields of the emmiters are known.
LEMMA LetGoBuffers ==
    ASSUME BuffersInv, NEW s \in Sounds \cup {NoSound}, NEW sources, LetGo(s, sources),
           kept' \subseteq kept,
           s # NoSound => sound[s] = "ready",
           {currentSound', sourceBuffer'} \subseteq [Emmiters -> Sounds \cup {NoSound}],
           \A m \in Emmiters : currentSound'[m] # NoSound => sound[currentSound'[m]] = "ready",
           displaced \subseteq displaced',
           \A m \in Emmiters :
              /\ sourceBuffer'[m] \notin {NoSound, currentSound'[m]} => sourceBuffer'[m] \in displaced'
              /\ sourceBuffer'[m] # NoSound => sourceBuffer'[m] \in alBuffers
              /\ sources[m] = s /\ ~StillHeld(s) => s \in displaced'
              /\ sourceBuffer'[m] = s /\ ~StillHeld(s) => \E k \in Emmiters : sources[k] = s
    PROVE  BuffersInv'
<1> USE DEF BuffersInv
<1>1. CASE s = NoSound \/ StillHeld(s)
  <2>1. UNCHANGED <<sound, alBuffers>>
    BY <1>1 DEF LetGo
  <2>2. BufferInv'
    BY <2>1 DEF BufferInv
  <2>3. BuffersReleased'
    BY <2>1 DEF BuffersReleased
  <2> QED
    BY <2>2, <2>3
<1>2. CASE s # NoSound /\ ~StillHeld(s)
  <2>1. /\ s \in Sounds
        /\ sound' = [sound EXCEPT ![s] = "dead"]
        /\ alBuffers' = IF \E m \in Emmiters : sources[m] = s
                        THEN alBuffers ELSE alBuffers \ {s}
    BY <1>2 DEF LetGo
  <2>2. s \notin kept' /\ \A m \in Emmiters : currentSound'[m] # s
    BY <1>2 DEF StillHeld
  <2>3. BufferInv'
    BY <2>1, <2>2 DEF BufferInv
  <2>4. ASSUME NEW t \in Sounds, sound'[t] = "dead", t \in alBuffers' PROVE t \in displaced'
    BY <1>2, <2>1, <2>4 DEF BufferInv, BuffersReleased
  <2>5. ASSUME NEW m \in Emmiters PROVE sourceBuffer'[m] \in alBuffers' \cup {NoSound}
    BY <1>2, <2>1, <2>5
  <2> QED
    BY <2>3, <2>4, <2>5 DEF BuffersReleased
<1> QED
  BY <1>1, <1>2

LEMMA DropInv == ASSUME BuffersInv, NEW s \in Sounds, Drop(s) PROVE BuffersInv'
<1> USE DEF Drop
<1>1. LetGo(s, sourceBuffer) /\ sound[s] = "ready" /\ kept' \subseteq kept
  BY DEF BuffersInv, BufferInv
<1>2. \A m \in Emmiters :
         /\ sourceBuffer'[m] \notin {NoSound, currentSound'[m]} => sourceBuffer'[m] \in displaced'
         /\ sourceBuffer'[m] # NoSound => sourceBuffer'[m] \in alBuffers
  BY DEF BuffersInv, BufferInv, BuffersReleased
<1>3. \A m \in Emmiters : sourceBuffer[m] = s /\ ~StillHeld(s) => s \in displaced'
  BY NoSoundIsNone, <1>2 DEF StillHeld
<1>4. \A m \in Emmiters : currentSound'[m] # NoSound => sound[currentSound'[m]] = "ready"
  BY DEF BuffersInv, BufferInv
<1>5. {currentSound', sourceBuffer'} \subseteq [Emmiters -> Sounds \cup {NoSound}]
  BY DEF BuffersInv, BufferInv
<1> QED
  BY <1>1, <1>2, <1>3, <1>4, <1>5, LetGoBuffers

LEMMA PlayInv ==
    ASSUME BuffersInv, NEW m \in Emmiters, NEW s \in Sounds, Play(m, s)
    PROVE  BuffersInv'
<1> DEFINE old == currentSound[m]
<1>1. /\ s \in kept /\ sound[s] = "ready" /\ s \in alBuffers
      /\ kept' \subseteq kept
      /\ currentSound' = [currentSound EXCEPT ![m] = s]
      /\ LetGo(old, sourceBuffer)
      /\ old \in Sounds \cup {NoSound} /\ (old # NoSound => sound[old] = "ready")
      /\ sourceBuffer' = IF m \in playing THEN sourceBuffer ELSE [sourceBuffer EXCEPT ![m] = s]
  BY DEF Play, BuffersInv, BufferInv
<1>2. /\ displaced \subseteq displaced'
      /\ old \notin {NoSound, s} /\ (m \in playing \/ ~StillHeld(old)) => old \in displaced'
  BY DEF Play
<1>3. currentSound'[m] = s /\ \A k \in Emmiters : k # m => currentSound'[k] = currentSound[k]
  BY <1>1 DEF BuffersInv, BufferInv
<1>4. {currentSound', sourceBuffer'} \subseteq [Emmiters -> Sounds \cup {NoSound}]
  BY <1>1 DEF BuffersInv, BufferInv
<1>5. \A k \in Emmiters : currentSound'[k] # NoSound => sound[currentSound'[k]] = "ready"
  BY <1>1, <1>3 DEF BuffersInv, BufferInv
<1>6. ~StillHeld(old) => old # s
  BY <1>3 DEF StillHeld
<1>7. ASSUME NEW k \in Emmiters
      PROVE  /\ sourceBuffer'[k] \notin {NoSound, currentSound'[k]} => sourceBuffer'[k] \in displaced'
             /\ sourceBuffer'[k] # NoSound => sourceBuffer'[k] \in alBuffers
             /\ sourceBuffer'[k] \in {sourceBuffer[k], s}
  BY <1>1, <1>2, <1>3 DEF BuffersInv, BufferInv, BuffersReleased
<1>8. ASSUME NEW k \in Emmiters, old # NoSound, ~StillHeld(old)
      PROVE  /\ old \in displaced'
             /\ sourceBuffer'[k] = old => \E j \in Emmiters : sourceBuffer[j] = old
  BY <1>2, <1>6, <1>7, <1>8
<1>9. CASE old = NoSound
  \* nothing is let go of
  <2>1. UNCHANGED <<sound, alBuffers>>
    BY <1>1, <1>9 DEF LetGo
  <2>2. BufferInv'
    BY <1>1, <1>4, <1>5, <1>7, <2>1 DEF BuffersInv, BufferInv
  <2>3. BuffersReleased'
    BY <1>2, <1>7, <2>1 DEF BuffersInv, BuffersReleased
  <2> QED
    BY <2>2, <2>3 DEF BuffersInv
<1>10. CASE old # NoSound
  BY <1>1, <1>2, <1>4, <1>5, <1>7, <1>8, <1>10, LetGoBuffers
<1> QED
  BY <1>9, <1>10

LEMMA DestroyInv ==
    ASSUME BuffersInv, NEW m \in Emmiters, DestroyEmmiter(m)
    PROVE  BuffersInv'
<1> DEFINE old == currentSound[m]
<1>1. /\ old \in Sounds /\ sound[old] = "ready" /\ UNCHANGED <<kept, displaced>>
      /\ currentSound' = [currentSound EXCEPT ![m] = NoSound]
      /\ sourceBuffer' = [sourceBuffer EXCEPT ![m] = NoSound]
      /\ LetGo(old, sourceBuffer')
  BY DEF DestroyEmmiter, BuffersInv, BufferInv
<1>2. \A k \in Emmiters :
         /\ currentSound'[k] = IF k = m THEN NoSound ELSE currentSound[k]
         /\ sourceBuffer'[k] = IF k = m THEN NoSound ELSE sourceBuffer[k]
  BY <1>1 DEF BuffersInv, BufferInv
<1>3. {currentSound', sourceBuffer'} \subseteq [Emmiters -> Sounds \cup {NoSound}]
  BY <1>1 DEF BuffersInv, BufferInv
<1>4. \A k \in Emmiters : currentSound'[k] # NoSound => sound[currentSound'[k]] = "ready"
  BY <1>2 DEF BuffersInv, BufferInv
<1>5. ASSUME NEW k \in Emmiters
      PROVE  /\ sourceBuffer'[k] \notin {NoSound, currentSound'[k]} => sourceBuffer'[k] \in displaced'
             /\ sourceBuffer'[k] # NoSound => sourceBuffer'[k] \in alBuffers
  BY <1>1, <1>2 DEF BuffersInv, BufferInv, BuffersReleased
<1>6. ASSUME NEW k \in Emmiters, sourceBuffer'[k] = old, ~StillHeld(old)
      PROVE  old \in displaced'
  BY <1>1, <1>5, <1>6, NoSoundIsNone DEF StillHeld
<1>7. kept' \subseteq kept /\ displaced \subseteq displaced'
  BY <1>1
<1>8. PICK sources : sources = sourceBuffer'
  OBVIOUS
<1>9. LetGo(old, sources)
  BY <1>1, <1>8 DEF LetGo
<1>10. \A k \in Emmiters : sources[k] = sourceBuffer'[k]
  BY <1>8
<1> QED
  BY <1>1, <1>3, <1>4, <1>5, <1>6, <1>7, <1>9, <1>10, LetGoBuffers

LEMMA BuffersStep == BuffersInv /\ [AudNext]_audVars => BuffersInv'
<1> SUFFICES ASSUME BuffersInv, [AudNext]_audVars PROVE BuffersInv'
  OBVIOUS
<1> USE DEF decodeVars, playVars
<1>1. ASSUME NEW s \in Sounds, BeginDecode(s) PROVE BuffersInv'
  BY <1>1 DEF BeginDecode, BuffersInv, BufferInv, BuffersReleased
<1>2. ASSUME NEW s \in Sounds, Opens(s) \/ OpenFails(s) \/ EndDecode(s) PROVE BuffersInv'
  BY <1>2 DEF Opens, OpenFails, EndDecode, BuffersInv, BufferInv, BuffersReleased
<1>3. ASSUME NEW s \in Sounds, DecodeRead(s) \/ DecodeSeek(s) \/ OvRead(s) PROVE BuffersInv'
  <2>1. UNCHANGED <<sound, alBuffers, playVars>>
    BY <1>3 DEF DecodeRead, Copies, DecodeSeek, OvRead
  <2> QED
    BY <2>1 DEF BuffersInv, BufferInv, BuffersReleased
<1>4. ASSUME NEW m \in Emmiters, Finish(m) PROVE BuffersInv'
  BY <1>4 DEF Finish, BuffersInv, BufferInv, BuffersReleased
<1>5. CASE UNCHANGED audVars
  BY <1>5 DEF audVars, BuffersInv, BufferInv, BuffersReleased
<1> QED
  BY <1>1, <1>2, <1>3, <1>4, <1>5, DropInv, PlayInv, DestroyInv DEF AudNext

(***************************************************************************)
(* A Sound leaves no buffer behind but where Emmiter::play displaced it,   *)
(* for any sounds and emmiters and every order of playing, dropping and    *)
(* destroying; and no source has a buffer that is gone.                    *)
(***************************************************************************)
THEOREM NoBufferLeaks == AudSpec => []BuffersReleased
<1>1. BuffersInv => BuffersReleased
  BY DEF BuffersInv
<1> QED
  BY <1>1, BuffersInit, BuffersStep, PTL DEF AudSpec

-----------------------------------------------------------------------------
(***************************************************************************)
(* Drawing. DrawsWhatWasGiven is kept because quads never lose their        *)
(* indices (QuadsKeepIndices), UploadsLand because no upload leaves behind  *)
(* a row length that is longer than an atlas is wide (Contexts).            *)
(***************************************************************************)

Contexts ==
    [active : {0, 1}, units : [{0, 1} -> AllTextures \cup {None}], rowLength : 0 .. AtlasSize,
     vertexArray : Models \cup {None}, arrayBuffer : Models \cup {None},
     texels : [AllTextures -> AllTextures \cup {None, "zeroes"}],
     vertices : [Models -> Data \cup {None}], indices : [Models -> Data \cup {None}],
     overread : BOOLEAN]

\* A quad keeps its indices, which are part of its vertex array.
QuadsKeepIndices == \A m \in live \cap Quads : gl.indices[m] = given[m]

DrwInv ==
    /\ gl \in Contexts
    /\ given \in [Models -> Data \cup {None}]
    /\ QuadsKeepIndices
    /\ UploadsLand
    /\ DrawsWhatWasGiven

-----------------------------------------------------------------------------
(* What the functions of the renderer do to a context. *)

LEMMA RowLengthFits == \A w \in GlyphWidths : RowLength(w) \in 0 .. AtlasSize
<1> SUFFICES ASSUME NEW w \in GlyphWidths PROVE RowLength(w) \in 0 .. AtlasSize
  OBVIOUS
<1>1. w \in Nat /\ w + 1 <= AtlasSize /\ AtlasSize \in Nat /\ AtlasSize % 4 = 0
  BY GlyphsFitAtlas
<1>2. RowLength(w) \in Nat /\ RowLength(w) <= w + 3 /\ RowLength(w) % 4 = 0
  BY <1>1 DEF RowLength
<1> QED
  BY <1>1, <1>2

LEMMA BindFacts ==
    ASSUME NEW g \in Contexts, NEW t \in AllTextures, NEW u \in {0, 1}
    PROVE  /\ Bind(g, t, u) \in Contexts
           /\ Bind(g, t, u).active = u /\ Bind(g, t, u).units = [g.units EXCEPT ![u] = t]
           /\ Bind(g, t, u).texels = g.texels /\ Bind(g, t, u).indices = g.indices
           /\ Bind(g, t, u).vertices = g.vertices /\ Bind(g, t, u).overread = g.overread
           /\ Bind(g, t, u).arrayBuffer = g.arrayBuffer
  BY DEF Bind, Contexts

\* An upload changes the texture it is meant for.
LEMMA UpdateFacts ==
    ASSUME NEW g \in Contexts, NEW t \in AllTextures, NEW len \in 0 .. AtlasSize
    PROVE  /\ UpdateTexture(g, t, len) \in Contexts
           /\ UpdateTexture(g, t, len).texels = [g.texels EXCEPT ![t] = t]
           /\ UpdateTexture(g, t, len).indices = g.indices
           /\ UpdateTexture(g, t, len).overread = g.overread
<1> DEFINE b == [Bind(g, t, 0) EXCEPT !.rowLength = len]
<1>1. /\ b \in Contexts /\ b.active = 0 /\ b.units[0] = t
      /\ b.texels = g.texels /\ b.indices = g.indices /\ b.overread = g.overread
  BY DEF Bind, Contexts
<1>2. t # None
  BY NamesApart
<1>3. UpdateTexture(g, t, len) = [b EXCEPT !.texels = [b.texels EXCEPT ![t] = t]]
  BY <1>1, <1>2 DEF UpdateTexture, TexSubImage
<1> HIDE DEF b
<1> QED
  BY <1>1, <1>3 DEF Contexts

\* The zeroes of a new texture are read past their end only if it is smaller
\* than the rows of the last upload.
ZeroesSuffice(g, w, h) == (h - 1) * g.rowLength + w <= w * h

LEMMA CreateFacts ==
    ASSUME NEW g \in Contexts, NEW t \in AllTextures, NEW w \in Nat, NEW h \in Nat,
           ZeroesSuffice(g, w, h)
    PROVE  /\ CreateTexture(g, t, w, h) \in Contexts
           /\ CreateTexture(g, t, w, h).texels = [g.texels EXCEPT ![t] = "zeroes"]
           /\ CreateTexture(g, t, w, h).indices = g.indices
           /\ CreateTexture(g, t, w, h).overread = g.overread
<1> DEFINE b == [g EXCEPT !.units[g.active] = t]
           c == [b EXCEPT !.texels = [b.texels EXCEPT ![t] = "zeroes"]]
<1>1. /\ b \in Contexts /\ b.active \in {0, 1} /\ b.units[b.active] = t
      /\ b.texels = g.texels /\ b.indices = g.indices /\ b.overread = g.overread
  BY DEF Contexts
<1>2. t # None
  BY NamesApart
<1>3. TexSubImage(b, "zeroes") = c
  BY <1>1, <1>2 DEF TexSubImage
<1> HIDE DEF b
<1>4. /\ c \in Contexts /\ c.texels = [g.texels EXCEPT ![t] = "zeroes"]
      /\ c.indices = g.indices /\ c.overread = g.overread
  BY <1>1 DEF Contexts
<1> HIDE DEF c
<1>5. ~((h - 1) * g.rowLength + w > w * h)
  <2>1. g.rowLength \in Int
    BY GlyphsFitAtlas DEF Contexts
  <2>2. (h - 1) * g.rowLength \in Int /\ w * h \in Int
    BY <2>1
  <2> QED
    BY <2>2 DEF ZeroesSuffice
<1>6. CreateTexture(g, t, w, h) = [c EXCEPT !.overread = c.overread \/ (h - 1) * g.rowLength + w > w * h]
  BY <1>3 DEF CreateTexture, b
<1>7. CreateTexture(g, t, w, h) = [c EXCEPT !.overread = c.overread]
  <2>1. c.overread \in BOOLEAN
    BY <1>4 DEF Contexts
  <2> DEFINE far == (h - 1) * g.rowLength + w > w * h
  <2>2. ~far
    BY <1>5
  <2> HIDE DEF far
  <2>3. (c.overread \/ far) = c.overread
    BY <2>1, <2>2
  <2> QED
    BY <1>6, <2>3, Zenon DEF far
<1> QED
  BY <1>4, <1>7 DEF Contexts

LEMMA BuildFacts ==
    ASSUME NEW g \in Contexts, NEW m \in Models, NEW d \in Data \cup {None}
    PROVE  /\ BuildModel(g, m, d) \in Contexts
           /\ BuildModel(g, m, d).texels = g.texels
           /\ BuildModel(g, m, d).rowLength = g.rowLength
           /\ BuildModel(g, m, d).indices = [g.indices EXCEPT ![m] = d]
           /\ BuildModel(g, m, d).overread = g.overread
  BY DEF BuildModel, Contexts

LEMMA UpdateModelFacts ==
    ASSUME NEW g \in Contexts, NEW m \in Models, NEW d \in Data
    PROVE  /\ UpdateModel(g, m, d) \in Contexts
           /\ UpdateModel(g, m, d).texels = g.texels /\ UpdateModel(g, m, d).units = g.units
           /\ UpdateModel(g, m, d).indices = [g.indices EXCEPT ![m] = d]
           /\ UpdateModel(g, m, d).overread = g.overread
           /\ UpdateModel(g, m, d).arrayBuffer = g.arrayBuffer
           /\ g.arrayBuffer = m => UpdateModel(g, m, d).vertices[m] = d
  BY NamesApart DEF UpdateModel, Contexts

LEMMA DeleteTextureFacts ==
    ASSUME NEW g \in Contexts, NEW t \in AllTextures
    PROVE  /\ DeleteTexture(g, t) \in Contexts
           /\ DeleteTexture(g, t).texels = [g.texels EXCEPT ![t] = None]
           /\ DeleteTexture(g, t).indices = g.indices
           /\ DeleteTexture(g, t).overread = g.overread
  BY DEF DeleteTexture, Contexts

LEMMA DeleteModelFacts ==
    ASSUME NEW g \in Contexts, NEW m \in Models
    PROVE  /\ DeleteModel(g, m) \in Contexts
           /\ DeleteModel(g, m).texels = g.texels
           /\ DeleteModel(g, m).indices = [g.indices EXCEPT ![m] = None]
           /\ DeleteModel(g, m).overread = g.overread
  BY DEF DeleteModel, Contexts

-----------------------------------------------------------------------------
(* The actions. All but the draws forget the last draw. *)

LEMMA DrwStarts == DrwInit => DrwInv
  BY GlyphsFitAtlas DEF DrwInit, DrwInv, Contexts, QuadsKeepIndices, UploadsLand, DrawsWhatWasGiven

LEMMA TextureSteps ==
    ASSUME DrwInv,
           \/ \E t \in Atlases : NewAtlas(t) \/ (\E w \in GlyphWidths : AddGlyph(t, w))
           \/ \E t \in Textures : NewTexture(t)
           \/ \E t \in Textures \cup Atlases : DropTexture(t)
    PROVE  DrwInv'
<1> USE DEF DrwInv
<1>1. PICK t \in Textures \cup Atlases :
        /\ \/ NewAtlas(t)
           \/ \E w \in GlyphWidths : AddGlyph(t, w)
           \/ NewTexture(t)
           \/ DropTexture(t)
  OBVIOUS
<1>2. t \in AllTextures /\ t \notin Quads /\ given' = given /\ frame' = None
  BY <1>1, NamesApart DEF AllTextures, NewAtlas, AddGlyph, NewTexture, DropTexture
<1>3. /\ gl' \in Contexts /\ gl'.indices = gl.indices /\ gl'.overread = gl.overread
      /\ live' \ {t} = live \ {t}
      /\ \/ t \in live' /\ \E p \in {t, "zeroes"} : gl'.texels = [gl.texels EXCEPT ![t] = p]
         \/ t \notin live' /\ gl'.texels = [gl.texels EXCEPT ![t] = None]
  <2>1. CASE NewAtlas(t)
    <3>1. gl.rowLength \in 0 .. AtlasSize /\ AtlasSize \in Nat
      BY GlyphsFitAtlas DEF Contexts
    <3>2. \A a \in Nat \ {0} : \A n \in 0 .. a : (a - 1) * n + a <= a * a
      <4> SUFFICES ASSUME NEW a \in Nat \ {0}, NEW n \in 0 .. a
                   PROVE (a - 1) * n + a <= a * a
        OBVIOUS
      <4>1. PICK k \in Nat : a = n + k
        <5>1. a - n \in Nat /\ a = n + (a - n)
          OBVIOUS
        <5> QED BY <5>1
      <4>2. a * a = (a - 1) * a + a
        OBVIOUS
      <4>3. (a - 1) * a = (a - 1) * n + (a - 1) * k
        BY <4>1
      <4>4. (a - 1) * k \in Nat
        OBVIOUS
      <4>5. (a - 1) * n \in Int /\ (a - 1) * a \in Int
        OBVIOUS
      <4> QED
        BY <4>2, <4>3, <4>4, <4>5
    <3>3. ZeroesSuffice(gl, AtlasSize, AtlasSize)
      BY <3>1, <3>2, GlyphsFitAtlas DEF ZeroesSuffice
    <3>4. gl' = CreateTexture(gl, t, AtlasSize, AtlasSize) /\ live' = live \cup {t}
      BY <2>1 DEF NewAtlas
    <3>5. /\ gl' \in Contexts /\ gl'.indices = gl.indices /\ gl'.overread = gl.overread
          /\ gl'.texels = [gl.texels EXCEPT ![t] = "zeroes"]
      <4> DEFINE c == CreateTexture(gl, t, AtlasSize, AtlasSize)
      <4>1. gl \in Contexts
        OBVIOUS
      <4>2. /\ c \in Contexts /\ c.indices = gl.indices /\ c.overread = gl.overread
            /\ c.texels = [gl.texels EXCEPT ![t] = "zeroes"]
        <5>1. AtlasSize \in Nat /\ t \in AllTextures
          BY <1>2, GlyphsFitAtlas
        <5> QED
          BY <4>1, <5>1, <3>3, CreateFacts, SMT
      <4> HIDE DEF c
      <4>3. gl' = c
        BY <3>4 DEF c
      <4> QED
        BY <4>2, <4>3
    <3> QED
      BY <3>4, <3>5
  <2>2. ASSUME NEW w \in GlyphWidths, AddGlyph(t, w)
        PROVE  <1>3
    <3>1. gl' = UpdateTexture(gl, t, RowLength(w)) /\ live' = live /\ t \in live
      BY <2>2 DEF AddGlyph
    <3> QED
      BY <3>1, <1>2, RowLengthFits, UpdateFacts
  <2>3. CASE NewTexture(t)
    <3>1. gl' = UpdateTexture(gl, t, 0) /\ live' = live \cup {t} /\ 0 \in 0 .. AtlasSize
      BY <2>3, GlyphsFitAtlas DEF NewTexture, DecodeTexture
    <3> QED
      BY <3>1, <1>2, UpdateFacts
  <2>4. CASE DropTexture(t)
    <3>1. gl' = DeleteTexture(gl, t) /\ live' = live \ {t}
      BY <2>4 DEF DropTexture
    <3> QED
      BY <3>1, <1>2, DeleteTextureFacts
  <2> QED
    BY <1>1, <2>1, <2>2, <2>3, <2>4
<1>4. QuadsKeepIndices'
  BY <1>2, <1>3 DEF QuadsKeepIndices
<1>5. UploadsLand'
  BY <1>2, <1>3 DEF UploadsLand, Contexts
<1> QED
  BY <1>2, <1>3, <1>4, <1>5 DEF DrawsWhatWasGiven

LEMMA QuadSteps ==
    ASSUME DrwInv,
           \/ \E m \in Quads, d \in Data : NewQuad(m, d) \/ QuadFails(m, d)
           \/ \E m \in Quads : DropQuad(m)
    PROVE  DrwInv'
<1> USE DEF DrwInv
<1>1. PICK m \in Quads : (\E d \in Data : NewQuad(m, d) \/ QuadFails(m, d)) \/ DropQuad(m)
  OBVIOUS
<1>2. m \in Models /\ m \notin AllTextures /\ frame' = None
  BY <1>1, NamesApart DEF Models, AllTextures, NewQuad, QuadFails, DropQuad
<1>3. /\ gl' \in Contexts /\ gl'.texels = gl.texels /\ gl'.overread = gl.overread
      /\ live' \ {m} = live \ {m}
      /\ \E d, e \in Data \cup {None} :
            /\ gl'.indices = [gl.indices EXCEPT ![m] = d]
            /\ given' = [given EXCEPT ![m] = e]
            /\ m \in live' => d = e
  <2>1. ASSUME NEW d \in Data, NewQuad(m, d) PROVE <1>3
    <3>1. /\ gl' = BuildModel(gl, m, d) /\ live' = live \cup {m}
          /\ given' = [given EXCEPT ![m] = d]
      BY <2>1 DEF NewQuad
    <3>2. d \in Data \cup {None}
      OBVIOUS
    <3>3. /\ gl' \in Contexts /\ gl'.texels = gl.texels /\ gl'.overread = gl.overread
          /\ gl'.indices = [gl.indices EXCEPT ![m] = d]
      BY <3>1, <3>2, <1>2, BuildFacts, Zenon
    <3>4. live' \ {m} = live \ {m}
      BY <3>1
    <3> QED
      BY <3>1, <3>2, <3>3, <3>4, Zenon
  <2>2. ASSUME NEW d \in Data, QuadFails(m, d) PROVE <1>3
    <3>1. gl' = DeleteModel(BuildModel(gl, m, d), m) /\ m \notin live'
          /\ live' = live /\ given' = given
      BY <2>2 DEF QuadFails
    <3>2. /\ BuildModel(gl, m, d) \in Contexts /\ BuildModel(gl, m, d).texels = gl.texels
          /\ BuildModel(gl, m, d).indices = [gl.indices EXCEPT ![m] = d]
          /\ BuildModel(gl, m, d).overread = gl.overread
      BY <1>2, BuildFacts
    <3>3. /\ gl' \in Contexts /\ gl'.texels = gl.texels /\ gl'.overread = gl.overread
          /\ gl'.indices = [[gl.indices EXCEPT ![m] = d] EXCEPT ![m] = None]
      BY <3>1, <3>2, <1>2, DeleteModelFacts
    <3>4. /\ gl'.indices = [gl.indices EXCEPT ![m] = None]
          /\ given' = [given EXCEPT ![m] = given[m]] /\ given[m] \in Data \cup {None}
      BY <3>1, <3>3, <1>2 DEF Contexts
    <3> QED
      BY <3>1, <3>3, <3>4
  <2>3. CASE DropQuad(m)
    <3>1. /\ gl' = DeleteModel(gl, m) /\ live' = live \ {m}
          /\ given' = [given EXCEPT ![m] = None]
      BY <2>3 DEF DropQuad
    <3> QED
      BY <3>1, <1>2, DeleteModelFacts
  <2> QED
    BY <1>1, <2>1, <2>2, <2>3
<1>4. QuadsKeepIndices'
  BY <1>2, <1>3 DEF QuadsKeepIndices, Models, Contexts
<1>5. UploadsLand'
  BY <1>2, <1>3 DEF UploadsLand
<1> QED
  BY <1>2, <1>3, <1>4, <1>5 DEF DrawsWhatWasGiven

LEMMA RendererSteps ==
    ASSUME DrwInv, \E r \in Renderers : NewRenderer(r) \/ DropRenderer(r)
    PROVE  DrwInv'
<1> USE DEF DrwInv
<1>1. PICK r \in Renderers : NewRenderer(r) \/ DropRenderer(r)
  OBVIOUS
<1>2. r \in Models /\ r \in AllTextures /\ r \notin Quads /\ frame' = None
  BY <1>1, NamesApart DEF Models, AllTextures, NewRenderer, DropRenderer
<1>3. /\ gl' \in Contexts /\ gl'.overread = gl.overread
      /\ live' \ {r} = live \ {r}
      /\ \E d \in {r, None} :
            /\ gl'.texels = [gl.texels EXCEPT ![r] = d]
            /\ r \in live' => d = r
      /\ gl'.indices = [gl.indices EXCEPT ![r] = None]
      /\ \E e \in Data \cup {None} : given' = [given EXCEPT ![r] = e]
  <2>1. CASE NewRenderer(r)
    <3> DEFINE b == BuildModel(gl, r, None)
               c == CreateTexture(b, r, 1, 1)
    <3>1. gl' = UpdateTexture(c, r, 0) /\ live' = live \cup {r} /\ given' = given
      BY <2>1 DEF NewRenderer
    <3>2. /\ b \in Contexts /\ b.texels = gl.texels /\ b.overread = gl.overread
          /\ b.indices = [gl.indices EXCEPT ![r] = None]
      <4>1. None \in Data \cup {None}
        OBVIOUS
      <4> QED
        BY <4>1, <1>2, BuildFacts, Zenon
    <3> HIDE DEF b
    <3>3. ZeroesSuffice(b, 1, 1)
      <4>1. b.rowLength \in Int
        BY <3>2, GlyphsFitAtlas DEF Contexts
      <4> QED
        BY <4>1 DEF ZeroesSuffice
    <3>4. /\ c \in Contexts /\ c.texels = [gl.texels EXCEPT ![r] = "zeroes"]
          /\ c.overread = gl.overread /\ c.indices = [gl.indices EXCEPT ![r] = None]
      BY <3>2, <3>3, <1>2, CreateFacts
    <3> HIDE DEF c
    <3>5. /\ gl' \in Contexts /\ gl'.overread = gl.overread
          /\ gl'.texels = [[gl.texels EXCEPT ![r] = "zeroes"] EXCEPT ![r] = r]
          /\ gl'.indices = [gl.indices EXCEPT ![r] = None]
      <4>1. 0 \in 0 .. AtlasSize
        BY GlyphsFitAtlas
      <4>2. c \in Contexts /\ r \in AllTextures
        BY <3>4, <1>2
      <4>3. PICK q : q = UpdateTexture(c, r, 0)
        OBVIOUS
      <4>4. /\ q \in Contexts /\ q.overread = c.overread
            /\ q.texels = [c.texels EXCEPT ![r] = r] /\ q.indices = c.indices
        BY <4>1, <4>2, <4>3, UpdateFacts
      <4> QED
        BY <3>1, <3>4, <4>3, <4>4
    <3>6. given' = [given EXCEPT ![r] = given[r]] /\ given[r] \in Data \cup {None}
      BY <3>1, <1>2
    <3>7. gl'.texels = [gl.texels EXCEPT ![r] = r]
      BY <3>5, <1>2 DEF Contexts
    <3> QED
      BY <3>1, <3>5, <3>6, <3>7
  <2>2. CASE DropRenderer(r)
    <3> DEFINE b == DeleteTexture(gl, r)
    <3>1. /\ gl' = DeleteModel(b, r) /\ live' = live \ {r}
          /\ given' = [given EXCEPT ![r] = None]
      BY <2>2 DEF DropRenderer
    <3>2. /\ b \in Contexts /\ b.texels = [gl.texels EXCEPT ![r] = None]
          /\ b.overread = gl.overread /\ b.indices = gl.indices
      BY <1>2, DeleteTextureFacts
    <3> HIDE DEF b
    <3>3. /\ gl' \in Contexts /\ gl'.texels = b.texels /\ gl'.overread = b.overread
          /\ gl'.indices = [b.indices EXCEPT ![r] = None]
      BY <3>1, <3>2, <1>2, DeleteModelFacts, Zenon
    <3> QED
      BY <3>1, <3>2, <3>3
  <2> QED
    BY <1>1, <2>1, <2>2
<1>4. QuadsKeepIndices'
  BY <1>2, <1>3 DEF QuadsKeepIndices, Models, Contexts
<1>5. UploadsLand'
  BY <1>2, <1>3 DEF UploadsLand, Contexts
<1> QED
  BY <1>2, <1>3, <1>4, <1>5 DEF DrawsWhatWasGiven

LEMMA DrawQuadStep == ASSUME DrwInv, NEW m \in Quads, DrawQuad(m) PROVE DrwInv'
<1> USE DEF DrwInv
<1>1. m \in Models /\ m \notin Renderers /\ m \in live
  BY NamesApart DEF DrawQuad, Models
<1>2. /\ gl' = [gl EXCEPT !.vertexArray = m] /\ live' = live /\ given' = given
      /\ frame' = [by |-> m,
                   asked |-> [Read(gl, m) EXCEPT !.vertices = given[m], !.indices = given[m]],
                   read |-> Read(gl', m)]
  BY DEF DrawQuad
<1>3. /\ gl' \in Contexts /\ gl'.texels = gl.texels /\ gl'.overread = gl.overread
      /\ gl'.indices = gl.indices /\ gl'.units = gl.units /\ gl'.vertices = gl.vertices
  BY <1>1, <1>2 DEF Contexts
<1>4. QuadsKeepIndices' /\ UploadsLand'
  BY <1>2, <1>3 DEF QuadsKeepIndices, UploadsLand
<1>5. gl.indices[m] = given[m]
  BY <1>1 DEF QuadsKeepIndices
<1>6. DrawsWhatWasGiven'
  <2>1. frame'.read = [vertices |-> gl.vertices[m], indices |-> given[m],
                       color |-> gl.units[0], mask |-> gl.units[1]]
    BY <1>2, <1>3, <1>5 DEF Read
  <2>2. frame'.asked = [vertices |-> given[m], indices |-> given[m],
                        color |-> gl.units[0], mask |-> gl.units[1]]
    BY <1>2 DEF Read
  <2>3. [frame'.read EXCEPT !.vertices = None] = [frame'.asked EXCEPT !.vertices = None]
    BY <2>1, <2>2
  <2>4. frame'.by = m
    BY <1>2
  <2> QED
    BY <1>1, <2>3, <2>4 DEF DrawsWhatWasGiven
<1> QED
  BY <1>2, <1>3, <1>4, <1>6

LEMMA DrawStep ==
    ASSUME DrwInv, NEW r \in Renderers, NEW d \in Data,
           NEW color \in AllTextures, NEW mask \in AllTextures, Draw(r, d, color, mask)
    PROVE  DrwInv'
<1> USE DEF DrwInv
<1> DEFINE b == Bind(gl, color, 0)
           c == Bind(b, mask, 1)
<1>1. r \in Models /\ r \notin Quads
  BY NamesApart DEF Models
<1>2. /\ gl' = UpdateModel(c, r, d) /\ live' = live /\ given' = [given EXCEPT ![r] = d]
      /\ frame' = [by |-> r, asked |-> [vertices |-> d, indices |-> d, color |-> color, mask |-> mask],
                   read |-> Read(gl', r)]
  BY DEF Draw
<1>3. /\ b \in Contexts /\ b.texels = gl.texels /\ b.overread = gl.overread
      /\ b.indices = gl.indices /\ b.units = [gl.units EXCEPT ![0] = color]
  BY BindFacts
<1> HIDE DEF b
<1>4. /\ c \in Contexts /\ c.texels = gl.texels /\ c.overread = gl.overread
      /\ c.indices = gl.indices /\ c.units = [[gl.units EXCEPT ![0] = color] EXCEPT ![1] = mask]
  <2>1. /\ c \in Contexts /\ c.texels = b.texels /\ c.overread = b.overread
        /\ c.indices = b.indices /\ c.units = [b.units EXCEPT ![1] = mask]
    BY <1>3, BindFacts, Zenon
  <2> QED
    BY <1>3, <2>1, Zenon
<1> HIDE DEF c
<1>5. /\ gl' \in Contexts /\ gl'.texels = gl.texels /\ gl'.overread = gl.overread
      /\ gl'.indices = [gl.indices EXCEPT ![r] = d] /\ gl'.units = c.units
      /\ gl'.arrayBuffer = c.arrayBuffer
      /\ c.arrayBuffer = r => gl'.vertices[r] = d
  BY <1>1, <1>2, <1>4, UpdateModelFacts
<1>6. gl'.units[0] = color /\ gl'.units[1] = mask /\ gl'.indices[r] = d
  BY <1>1, <1>4, <1>5 DEF Contexts
<1>7. QuadsKeepIndices' /\ UploadsLand'
  BY <1>1, <1>2, <1>5 DEF QuadsKeepIndices, UploadsLand, Models, Contexts
<1>8. DrawsWhatWasGiven'
  BY <1>2, <1>5, <1>6 DEF DrawsWhatWasGiven, Read
<1> QED
  BY <1>1, <1>2, <1>5, <1>7, <1>8

LEMMA DrwSteps == DrwInv /\ [DrwNext]_drwVars => DrwInv'
<1>1. ASSUME DrwInv, UNCHANGED drwVars PROVE DrwInv'
  BY <1>1 DEF DrwInv, drwVars, QuadsKeepIndices, UploadsLand, DrawsWhatWasGiven
<1> QED
  BY <1>1, TextureSteps, QuadSteps, RendererSteps, DrawQuadStep, DrawStep DEF DrwNext

(***************************************************************************)
(* A texture only ever gets its own pixels, and the upload of zeroes never *)
(* reads past their end: the row length left behind is at most that of an  *)
(* atlas.                                                                  *)
(***************************************************************************)
THEOREM UploadsAlwaysLand == DrwSpec => []UploadsLand
<1>1. DrwInv => UploadsLand
  BY DEF DrwInv
<1> QED
  BY <1>1, DrwStarts, DrwSteps, PTL DEF DrwSpec

(***************************************************************************)
(* Every draw reads the textures and the indices it was given, and the     *)
(* vertices too while the renderer's model is the last that was built.     *)
(***************************************************************************)
THEOREM DrawsAreRight == DrwSpec => []DrawsWhatWasGiven
<1>1. DrwInv => DrawsWhatWasGiven
  BY DEF DrwInv
<1> QED
  BY <1>1, DrwStarts, DrwSteps, PTL DEF DrwSpec

-----------------------------------------------------------------------------
(***************************************************************************)
(* Shader programs. A program's locations are right from its last linking   *)
(* on (ProgramInv), the buffers' entries from the moment a name is first    *)
(* seen (RegistryInv), and the shader objects alive are those of the        *)
(* construction that is running and the ones that were forgotten            *)
(* (ShaderInv).                                                             *)
(***************************************************************************)

(* A finite set of numbers has a greatest one: the sets of those above a   *)
(* member are finite, and strict inclusion is well founded on them.        *)

LEMMA GreatestBelow ==
    ASSUME NEW n \in Nat, NEW T, T \subseteq 0 .. n, T # {}
    PROVE  \E g \in T : \A k \in T : k <= g
<1> DEFINE Above(g) == {k \in 0 .. n : k > g}
           F == {Above(g) : g \in T}
<1>1. IsFiniteSet(0 .. n)
  BY FS_Interval
<1>2. F \subseteq FiniteSubsetsOf(0 .. n) /\ F # {}
  <2>1. ASSUME NEW g \in T PROVE Above(g) \in FiniteSubsetsOf(0 .. n)
    <3>1. Above(g) \subseteq 0 .. n
      OBVIOUS
    <3>2. IsFiniteSet(Above(g))
      BY <1>1, <3>1, FS_Subset, Zenon
    <3> QED
      BY <3>1, <3>2, Zenon DEF FiniteSubsetsOf
  <2> QED
    BY <2>1
<1>3. IsWellFoundedOn(StrictSubsetOrdering(0 .. n), FiniteSubsetsOf(0 .. n))
  BY FS_StrictSubsetOrderingWellFounded
<1>4. \E x \in F : \A y \in F : ~ (<<y, x>> \in StrictSubsetOrdering(0 .. n))
  BY <1>2, <1>3, WFMin, Zenon
<1>5. PICK g \in T : \A h \in T : ~ (<<Above(h), Above(g)>> \in StrictSubsetOrdering(0 .. n))
  BY <1>4
<1>6. SUFFICES ASSUME NEW k \in T, ~(k <= g) PROVE FALSE
  BY <1>5
<1>7. k > g /\ k \in 0 .. n /\ g \in 0 .. n
  BY <1>6
<1>8. Above(k) \subseteq Above(g) /\ k \in Above(g) /\ k \notin Above(k)
  BY <1>7
<1>9. Above(k) \in SUBSET (0 .. n) /\ Above(g) \in SUBSET (0 .. n)
  OBVIOUS
<1> QED
  BY <1>5, <1>8, <1>9 DEF StrictSubsetOrdering

\* The location of the last registration of a known name.
LEMMA LatestFacts ==
    ASSUME registered \in Seq(Blocks), NEW b, Latest(b) # Unset
    PROVE  /\ Latest(b) \in 0 .. Len(registered) - 1 /\ registered[Latest(b) + 1] = b
           /\ \A i \in Latest(b) + 2 .. Len(registered) : registered[i] # b
<1> DEFINE ls == {l \in 0 .. Len(registered) - 1 : registered[l + 1] = b}
<1>1. Latest(b) = (CHOOSE l \in ls : \A k \in ls : k <= l) /\ ls # {}
  BY DEF Latest
<1>2. Len(registered) \in Nat /\ ls \subseteq 0 .. Len(registered)
  OBVIOUS
<1>3. \E l \in ls : \A k \in ls : k <= l
  BY <1>1, <1>2, GreatestBelow, Zenon
<1>4. Latest(b) \in ls /\ \A k \in ls : k <= Latest(b)
  BY <1>1, <1>3
<1>5. ASSUME NEW i \in Latest(b) + 2 .. Len(registered), registered[i] = b PROVE FALSE
  <2>1. Latest(b) \in Int /\ i \in Int /\ (i - 1) + 1 = i
    BY <1>4
  <2>2. i - 1 \in ls /\ ~(i - 1 <= Latest(b))
    BY <1>2, <1>4, <1>5, <2>1
  <2> QED
    BY <1>4, <2>2
<1> QED
  BY <1>4, <1>5

-----------------------------------------------------------------------------
(* The registries and the buffers. *)

Stages == {"idle", "vertex", "fragment", "geometry", "attach", "link",
           "attributes", "relink", "blocks", "detach"}

\* A buffer is bound, if anywhere, at the location of its block.
RegistryInv ==
    /\ stage \in Stages
    /\ attributes \in [Attributes -> Locations \cup {Unset}]
    /\ registered \in Seq(Blocks) /\ Len(registered) <= MaxBindings
    /\ owned \subseteq 0 .. Len(registered) - 1
    /\ buffers \in [Buffers -> (0 .. Len(registered) - 1) \cup {Unset}]
    /\ bound \in [0 .. MaxBindings - 1 -> Buffers \cup {Unset}]
    /\ \A l \in 0 .. MaxBindings - 1 : bound[l] # Unset => buffers[bound[l]] = l

LEMMA RegistrySteps == RegistryInv /\ [PrgNext]_prgVars => RegistryInv'
<1> SUFFICES ASSUME RegistryInv, [PrgNext]_prgVars PROVE RegistryInv'
  OBVIOUS
<1> USE DEF RegistryInv
<1>m. MaxBindings \in Nat \ {0} /\ Len(registered) \in Nat
  BY UnsetIsNothing
<1>1. ASSUME NEW a \in Attributes, NEW l \in Locations, RegisterAttribute(a, l)
      PROVE  RegistryInv'
  BY <1>1 DEF RegisterAttribute, bufferVars, buildVars
<1>2. ASSUME NEW b \in Blocks, RegisterBlock(b) PROVE RegistryInv'
  <2>1. /\ registered' = Append(registered, b) /\ Len(registered') = Len(registered) + 1
        /\ Len(registered) < MaxBindings
        /\ registered' \in Seq(Blocks) /\ owned' = owned \cup {Len(registered)}
        /\ UNCHANGED <<stage, attributes, buffers, bound>>
    BY <1>2 DEF RegisterBlock, bufferVars, buildVars
  <2>2. 0 .. Len(registered) - 1 \subseteq 0 .. Len(registered') - 1
    BY <2>1, <1>m
  <2>3. owned' \subseteq 0 .. Len(registered') - 1
    <3>1. Len(registered) \in 0 .. Len(registered') - 1
      BY <2>1, <1>m
    <3> QED
      BY <2>1, <2>2, <3>1
  <2> QED
    BY <2>1, <2>2, <2>3, <1>m
<1>3. ASSUME NEW l, ReleaseBlock(l) PROVE RegistryInv'
  BY <1>3 DEF ReleaseBlock, bufferVars, buildVars
<1>4. ASSUME NEW u \in Buffers, NEW l, GetUbo(u, l) PROVE RegistryInv'
  <2>1. l \in 0 .. Len(registered) - 1 /\ buffers[u] = Unset
        /\ buffers' = [buffers EXCEPT ![u] = l]
        /\ UNCHANGED <<stage, attributes, registered, owned, bound>>
    BY <1>4 DEF GetUbo, registryVars, buildVars
  <2>2. \A k \in 0 .. MaxBindings - 1 : bound[k] # u
    BY <2>1, UnsetIsNothing
  <2> QED
    BY <2>1, <2>2
<1>5. ASSUME NEW u \in Buffers, DeleteUbo(u) PROVE RegistryInv'
  BY <1>5, UnsetIsNothing DEF DeleteUbo, registryVars, buildVars
<1>6. ASSUME NEW u \in Buffers, UseBuffer(u) PROVE RegistryInv'
  <2>1. buffers[u] \in 0 .. MaxBindings - 1
    BY <1>6, <1>m DEF UseBuffer
  <2> QED
    BY <1>6, <2>1 DEF UseBuffer, registryVars, buildVars
<1>7. ASSUME (\E s \in Sources : Begin(s)) \/ Construct \/ (\E p \in programs : DeleteProgram(p))
      PROVE  RegistryInv'
  <2>1. UNCHANGED <<registryVars, bufferVars>> /\ stage' \in Stages
    BY <1>7 DEF Begin, Construct, Compile, CompileFails, After, Kinds, Attach, Link, Linked,
       GiveUp, ResolveAttributes, ResolveBlocks, Detach, DeleteProgram, Stages
  <2> QED
    BY <2>1 DEF registryVars, bufferVars
<1>8. CASE UNCHANGED prgVars
  BY <1>8 DEF prgVars, registryVars, bufferVars, buildVars
<1> QED
  BY <1>1, <1>2, <1>3, <1>4, <1>5, <1>6, <1>7, <1>8 DEF PrgNext

-----------------------------------------------------------------------------
(* The programs. *)

Fields == {"source", "asked", "linked", "binding", "since"}
IsProgram(p) == DOMAIN p = Fields /\ p = [f \in Fields |-> p[f]]

\* Linked, each attribute at its registered location.
Built(p) ==
    /\ p.source \in Sources
    /\ \A a \in p.source.attribs : attributes[a] # Unset /\ p.linked[a] = attributes[a]

\* Each block is bound at its last registration up to p.since.
Sound(p) ==
    /\ p.since \in 0 .. Len(registered)
    /\ \A b \in p.source.blocks :
        /\ p.binding[b] \in 0 .. p.since - 1 /\ registered[p.binding[b] + 1] = b
        /\ \A i \in p.binding[b] + 2 .. p.since : registered[i] # b

ProgramInv ==
    /\ IsProgram(program)
    /\ stage # "idle" => program.source \in Sources
    /\ stage = "relink" => \A a \in program.source.attribs :
            attributes[a] # Unset /\ program.asked[a] = attributes[a]
    /\ stage \in {"blocks", "detach"} => Built(program)
    /\ stage = "detach" => Sound(program)
    /\ \A p \in programs : Built(p) /\ Sound(p)

Asking(p, x) == [p EXCEPT !.asked = x]
Linking(p, x, y) == [p EXCEPT !.linked = x, !.binding = y]
Binding(p, x, y) == [p EXCEPT !.binding = x, !.since = y]

LEMMA ProgramFields ==
    ASSUME NEW p, IsProgram(p), NEW x, NEW y
    PROVE  /\ LET q == Asking(p, x) IN
                IsProgram(q) /\ q.source = p.source /\ q.asked = x
           /\ LET q == Linking(p, x, y) IN
                IsProgram(q) /\ q.source = p.source /\ q.linked = x
           /\ LET q == Binding(p, x, y) IN
                /\ IsProgram(q) /\ q.source = p.source /\ q.linked = p.linked
                /\ q.binding = x /\ q.since = y
  BY DEF Asking, Linking, Binding, IsProgram, Fields

\* Nothing a program relies on changes when a name is registered.
LEMMA ProgramsStay ==
    ASSUME RegistryInv, NEW p,
           \/ \E a \in Attributes, l \in Locations : RegisterAttribute(a, l)
           \/ \E b \in Blocks : RegisterBlock(b)
           \/ UNCHANGED <<attributes, registered>>
    PROVE  (Built(p) => Built(p)') /\ (Sound(p) => Sound(p)')
<1>1. \A a \in Attributes : attributes[a] # Unset => attributes'[a] = attributes[a]
  BY DEF RegistryInv, RegisterAttribute, RegisterBlock
<1>2. Len(registered) \in Nat /\ Len(registered') \in Nat /\ Len(registered) <= Len(registered')
      /\ \A i \in 1 .. Len(registered) : registered'[i] = registered[i]
  BY DEF RegistryInv, RegisterAttribute, RegisterBlock, bufferVars, buildVars
<1>3. Built(p) => Built(p)'
  <2> SUFFICES ASSUME Built(p) PROVE Built(p)'
    OBVIOUS
  <2>1. p.source \in Sources /\ p.source.attribs \subseteq Attributes
    BY DEF Built, Sources
  <2> QED
    BY <1>1, <2>1 DEF Built
<1>4. ASSUME Sound(p) PROVE Sound(p)'
  <2>1. p.since \in 0 .. Len(registered) /\ p.since \in 0 .. Len(registered')
    BY <1>2, <1>4 DEF Sound
  <2>2. ASSUME NEW b \in p.source.blocks
        PROVE  /\ p.binding[b] \in 0 .. p.since - 1 /\ registered'[p.binding[b] + 1] = b
               /\ \A i \in p.binding[b] + 2 .. p.since : registered'[i] # b
    <3>1. /\ p.binding[b] \in 0 .. p.since - 1 /\ registered[p.binding[b] + 1] = b
          /\ \A i \in p.binding[b] + 2 .. p.since : registered[i] # b
      BY <1>4, <2>2 DEF Sound
    <3>2. p.binding[b] + 1 \in 1 .. Len(registered)
      BY <1>2, <2>1, <3>1
    <3>3. \A i \in p.binding[b] + 2 .. p.since : i \in 1 .. Len(registered)
      BY <1>2, <2>1, <3>1
    <3> QED
      BY <1>2, <3>1, <3>2, <3>3
  <2> QED
    BY <2>1, <2>2 DEF Sound
<1> QED
  BY <1>3, <1>4

LEMMA GiveUpKeeps == ASSUME ProgramInv, GiveUp PROVE ProgramInv'
<1>1. /\ UNCHANGED <<attributes, registered, programs>> /\ stage' = "idle"
      /\ program' = ProgramUnbuilt
  BY DEF GiveUp, registryVars
<1>2. IsProgram(ProgramUnbuilt)
  BY DEF IsProgram, Fields, ProgramUnbuilt
<1> QED
  BY <1>1, <1>2 DEF ProgramInv, Built, Sound

LEMMA IdleSteps ==
    ASSUME RegistryInv, ProgramInv,
           \/ \E a \in Attributes, l \in Locations : RegisterAttribute(a, l)
           \/ \E b \in Blocks : RegisterBlock(b)
           \/ \E l \in 0 .. MaxBindings - 1 : ReleaseBlock(l) \/ (\E u \in Buffers : GetUbo(u, l))
           \/ \E u \in Buffers : DeleteUbo(u) \/ UseBuffer(u)
           \/ \E p \in programs : DeleteProgram(p)
           \/ UNCHANGED prgVars /\ stage = "idle"
    PROVE  ProgramInv'
<1>1. stage = "idle" /\ UNCHANGED <<stage, program>> /\ programs' \subseteq programs
  BY DEF RegisterAttribute, RegisterBlock, ReleaseBlock, GetUbo, DeleteUbo, UseBuffer, DeleteProgram,
         prgVars, buildVars
<1>2. \/ \E a \in Attributes, l \in Locations : RegisterAttribute(a, l)
      \/ \E b \in Blocks : RegisterBlock(b)
      \/ UNCHANGED <<attributes, registered>>
  BY DEF ReleaseBlock, GetUbo, DeleteUbo, UseBuffer, DeleteProgram, prgVars, registryVars
<1>3. \A p \in programs : Built(p)' /\ Sound(p)'
  BY <1>2, ProgramsStay DEF ProgramInv
<1> QED
  BY <1>1, <1>3 DEF ProgramInv

LEMMA ConstructSteps ==
    ASSUME RegistryInv, ProgramInv, Construct \/ \E s \in Sources : Begin(s)
    PROVE  ProgramInv'
<1>1. UNCHANGED <<attributes, registered>>
  BY DEF Begin, Construct, Compile, CompileFails, Attach, Link, Linked, GiveUp, ResolveAttributes,
         ResolveBlocks, Detach, registryVars
<1>2. \A p : Built(p)' <=> Built(p)
  BY <1>1 DEF Built
<1>3. \A p : Sound(p)' <=> Sound(p)
  BY <1>1 DEF Sound
<1>4. ASSUME UNCHANGED programs, IsProgram(program'), stage' # "idle" => program'.source \in Sources,
             stage' \in {"idle", "vertex", "fragment", "geometry", "attach", "link", "attributes"}
      PROVE  ProgramInv'
  BY <1>2, <1>3, <1>4 DEF ProgramInv
<1>5. ASSUME NEW s \in Sources, Begin(s) PROVE ProgramInv'
  <2>1. IsProgram(program') /\ program'.source = s
    BY <1>5 DEF Begin, ProgramUnbuilt, IsProgram, Fields
  <2> QED
    BY <1>4, <1>5, <2>1 DEF Begin
<1>6. ASSUME NEW k \in Kinds, Compile(k) PROVE ProgramInv'
  <2>1. stage' \in {"fragment", "geometry", "attach"} /\ UNCHANGED <<program, programs>>
    BY <1>6 DEF Compile, After, Kinds
  <2>2. stage # "idle"
    BY <1>6 DEF Compile, Kinds
  <2> QED
    BY <1>4, <2>1, <2>2 DEF ProgramInv
<1>7. ASSUME NEW k \in Kinds, CompileFails(k) PROVE ProgramInv'
  <2>1. IsProgram(program') /\ stage' = "idle" /\ UNCHANGED programs
    BY <1>7 DEF CompileFails, ProgramUnbuilt, IsProgram, Fields
  <2> QED
    BY <1>4, <2>1
<1>8. CASE Attach
  <2>1. PICK f : program' = Asking(program, f)
    BY <1>8, Zenon DEF Attach, Asking
  <2>2. IsProgram(program') /\ program'.source = program.source
    BY <2>1, ProgramFields DEF ProgramInv
  <2> QED
    BY <1>4, <1>8, <2>2 DEF Attach, ProgramInv
<1>9. ASSUME NEW to \in {"attributes", "blocks"}, NEW from,
             from = IF to = "blocks" THEN "relink" ELSE "link", Link(from, to), ~GiveUp
      PROVE  ProgramInv'
  <2>1. PICK f : /\ \A a \in program.source.attribs : program.asked[a] # Unset => f[a] = program.asked[a]
                 /\ \E g : program' = Linking(program, f, g)
    BY <1>9, Zenon DEF Link, Linked, Linking
  <2>2. IsProgram(program') /\ program'.source = program.source /\ program'.linked = f
    BY <2>1, ProgramFields DEF ProgramInv
  <2>3. stage = from /\ stage' = to /\ UNCHANGED programs
    BY <1>9 DEF Link
  <2>4. CASE to = "attributes"
    BY <1>4, <1>9, <2>2, <2>3, <2>4 DEF ProgramInv
  <2>5. CASE to = "blocks"
    <3>1. stage = "relink" /\ stage' = "blocks"
      BY <1>9, <2>3, <2>5
    <3>2. Built(program')
      BY <2>1, <2>2, <3>1 DEF ProgramInv, Built
    <3> QED
      BY <1>2, <1>3, <2>2, <2>3, <3>1, <3>2 DEF ProgramInv, Built
  <2> QED
    BY <2>4, <2>5
<1>10. ASSUME ResolveAttributes, ~GiveUp PROVE ProgramInv'
  <2> DEFINE f == [a \in program.source.attribs |-> attributes[a]]
  <2>1. /\ stage = "attributes" /\ stage' = "relink" /\ UNCHANGED programs
        /\ \A a \in program.source.attribs : attributes[a] # Unset
        /\ program' = Asking(program, f)
    BY <1>10 DEF ResolveAttributes, Asking
  <2>2. IsProgram(program') /\ program'.source = program.source /\ program'.asked = f
    BY <2>1, ProgramFields DEF ProgramInv
  <2> QED
    BY <1>1, <1>2, <1>3, <2>1, <2>2 DEF ProgramInv
<1>11. ASSUME ResolveBlocks, ~GiveUp PROVE ProgramInv'
  <2> DEFINE f == [b \in program.source.blocks |-> Latest(b)]
  <2>1. /\ stage = "blocks" /\ stage' = "detach" /\ UNCHANGED programs
        /\ \A b \in program.source.blocks : Latest(b) # Unset
        /\ program' = Binding(program, f, Len(registered))
    BY <1>11 DEF ResolveBlocks, Binding
  <2>2. /\ IsProgram(program') /\ program'.source = program.source /\ program'.binding = f
        /\ program'.linked = program.linked /\ program'.since = Len(registered)
    BY <2>1, ProgramFields DEF ProgramInv
  <2>3. Built(program')
    BY <2>1, <2>2 DEF ProgramInv, Built
  <2>4. Len(registered) \in Nat /\ registered \in Seq(Blocks)
    BY DEF RegistryInv
  <2>5. Sound(program')
    <3>1. \A b \in program.source.blocks :
            /\ f[b] = Latest(b) /\ Latest(b) \in 0 .. Len(registered) - 1
            /\ registered[Latest(b) + 1] = b
            /\ \A i \in Latest(b) + 2 .. Len(registered) : registered[i] # b
      BY <2>1, <2>4, LatestFacts
    <3> HIDE DEF f
    <3> QED
      BY <2>2, <2>4, <3>1 DEF Sound
  <2> QED
    BY <1>2, <1>3, <2>1, <2>2, <2>3, <2>5 DEF ProgramInv, Built
<1>12. CASE Detach
  <2>1. IsProgram(program') /\ stage' = "idle" /\ programs' = programs \cup {program} /\ stage = "detach"
    BY <1>12 DEF Detach, ProgramUnbuilt, IsProgram, Fields
  <2> QED
    BY <1>2, <1>3, <2>1 DEF ProgramInv
<1> QED
  BY <1>5, <1>6, <1>7, <1>8, <1>9, <1>10, <1>11, <1>12, GiveUpKeeps DEF Construct

LEMMA ProgramsAgree == ASSUME RegistryInv, ProgramInv PROVE LocationsAgree
<1> SUFFICES ASSUME NEW p \in programs PROVE
        /\ \A a \in p.source.attribs : p.linked[a] = attributes[a]
        /\ \A b \in p.source.blocks :
             LET u == bound[p.binding[b]] IN
             /\ u # Unset => registered[buffers[u] + 1] = b
             /\ (\A i \in p.since + 1 .. Len(registered) : registered[i] # b)
                   => p.binding[b] = Latest(b)
  BY DEF LocationsAgree, AttributesAgree, BlocksAgree
<1>1. Built(p) /\ Sound(p)
  BY DEF ProgramInv
<1> SUFFICES ASSUME NEW b \in p.source.blocks PROVE
        /\ bound[p.binding[b]] # Unset => registered[buffers[bound[p.binding[b]]] + 1] = b
        /\ (\A i \in p.since + 1 .. Len(registered) : registered[i] # b)
              => p.binding[b] = Latest(b)
  BY <1>1 DEF Built
<1> DEFINE l == p.binding[b]
           ls == {k \in 0 .. Len(registered) - 1 : registered[k + 1] = b}
<1>2. /\ p.since \in 0 .. Len(registered) /\ l \in 0 .. p.since - 1 /\ registered[l + 1] = b
      /\ \A i \in l + 2 .. p.since : registered[i] # b
  BY <1>1 DEF Sound
<1>3. Len(registered) \in Nat /\ Len(registered) <= MaxBindings /\ MaxBindings \in Nat
  BY UnsetIsNothing DEF RegistryInv
<1> HIDE DEF l
<1>4. l \in ls /\ l \in 0 .. MaxBindings - 1
  BY <1>2, <1>3
<1>5. bound[l] # Unset => registered[buffers[bound[l]] + 1] = b
  BY <1>2, <1>4 DEF RegistryInv
<1>6. ASSUME \A i \in p.since + 1 .. Len(registered) : registered[i] # b PROVE l = Latest(b)
  <2>1. ASSUME NEW k \in ls, k > l PROVE FALSE
    <3>1. /\ k \in 0 .. Len(registered) - 1 /\ registered[k + 1] = b
          /\ k + 1 \in (l + 2 .. p.since) \cup (p.since + 1 .. Len(registered))
      BY <1>2, <1>3, <2>1
    <3> QED
      BY <1>2, <1>6, <3>1
  <2>2. \A k \in ls : k <= l
    <3>1. ASSUME NEW k \in ls PROVE k <= l
      <4>1. k \in Int /\ l \in Int
        BY <1>2, <1>3
      <4> QED
        BY <2>1, <3>1, <4>1
    <3> QED
      BY <3>1
  <2>3. Latest(b) = CHOOSE g \in ls : \A k \in ls : k <= g
    BY <1>4 DEF Latest
  <2>4. Latest(b) \in ls /\ \A k \in ls : k <= Latest(b)
    BY <1>4, <2>2, <2>3
  <2>5. l <= Latest(b) /\ Latest(b) <= l
    BY <1>4, <2>2, <2>4
  <2>6. l \in Int /\ Latest(b) \in Int
    BY <1>4, <2>4
  <2> QED
    BY <2>5, <2>6
<1> QED
  BY <1>5, <1>6 DEF l

-----------------------------------------------------------------------------
(* The shader objects. *)

HalfBuilt == {"link", "attributes", "relink", "blocks", "detach"}
AllShaders == {"vertex", "fragment"} \cup (IF program.source.geometry THEN {"geometry"} ELSE {})
Made ==
    CASE stage \in {"idle", "vertex"} -> {}
      [] stage = "fragment" -> {"vertex"}
      [] stage = "geometry" -> {"vertex", "fragment"}
      [] OTHER -> AllShaders

\* What a construction holds is what it has made, over what failed ones left.
ShaderInv ==
    /\ failures \in [Kinds -> Nat]
    /\ shaders \in [Kinds -> Nat]
    /\ \A k \in Kinds : shaders[k] = (IF k = "fragment" THEN failures["geometry"] ELSE 0)
                                     + (IF k \in Made THEN 1 ELSE 0)
    /\ stage = "geometry" => program.source.geometry
    /\ attached = IF stage \in HalfBuilt THEN AllShaders ELSE {}

LEMMA ShadersLetGo ==
    ASSUME RegistryInv, ShaderInv, stage \in HalfBuilt, UNCHANGED failures,
           shaders' = Detached, attached' = {}, stage' = "idle"
    PROVE  ShaderInv'
<1>1. Made = AllShaders /\ attached = AllShaders /\ Made' = {}
  BY DEF ShaderInv, Made, HalfBuilt
<1>2. \A k \in Kinds : shaders'[k] = (IF k = "fragment" THEN failures["geometry"] ELSE 0)
  BY <1>1 DEF ShaderInv, Detached, Kinds
<1>3. shaders' \in [Kinds -> Nat]
  BY <1>2 DEF Detached, ShaderInv, Kinds
<1> QED
  BY <1>1, <1>2, <1>3 DEF ShaderInv, HalfBuilt, Kinds

LEMMA ShaderSteps == RegistryInv /\ ProgramInv /\ ShaderInv /\ [PrgNext]_prgVars => ShaderInv'
<1> SUFFICES ASSUME RegistryInv, ProgramInv, ShaderInv, [PrgNext]_prgVars PROVE ShaderInv'
  OBVIOUS
<1>1. ASSUME UNCHANGED <<failures, shaders, attached>>, stage = "idle", stage' \in {"idle", "vertex"}
      PROVE  ShaderInv'
  BY <1>1 DEF ShaderInv, Made, HalfBuilt
<1>2. ASSUME UNCHANGED <<failures, shaders, attached>>, stage \in HalfBuilt, stage' \in HalfBuilt,
             program'.source = program.source
      PROVE  ShaderInv'
  BY <1>2 DEF ShaderInv, Made, HalfBuilt, AllShaders
<1>3. \/ \E a \in Attributes, l \in Locations : RegisterAttribute(a, l)
      \/ \E b \in Blocks : RegisterBlock(b)
      \/ \E l \in 0 .. MaxBindings - 1 : ReleaseBlock(l) \/ (\E u \in Buffers : GetUbo(u, l))
      \/ \E u \in Buffers : DeleteUbo(u) \/ UseBuffer(u)
      \/ \E s \in Sources : Begin(s)
      \/ \E p \in programs : DeleteProgram(p)
      => ShaderInv'
  BY <1>1 DEF RegisterAttribute, RegisterBlock, ReleaseBlock, GetUbo, DeleteUbo, UseBuffer, Begin,
     DeleteProgram, buildVars
<1>4. ASSUME NEW k \in Kinds, Compile(k) PROVE ShaderInv'
  <2>1. /\ stage = k /\ stage' = After(k) /\ shaders' = [shaders EXCEPT ![k] = @ + 1]
        /\ UNCHANGED <<program, attached, failures>>
    BY <1>4 DEF Compile
  <2> USE DEF ShaderInv, Made, HalfBuilt, AllShaders, After, Kinds
  <2>2. CASE k = "vertex"
    BY <2>1, <2>2
  <2>3. CASE k = "fragment"
    BY <2>1, <2>3
  <2>4. CASE k = "geometry"
    BY <2>1, <2>4
  <2> QED
    BY <2>2, <2>3, <2>4
<1>5. ASSUME NEW k \in Kinds, CompileFails(k) PROVE ShaderInv'
  <2>1. /\ stage = k /\ stage' = "idle" /\ failures' = [failures EXCEPT ![k] = @ + 1]
        /\ shaders' = IF Before[k] = {} THEN shaders ELSE [shaders EXCEPT !["vertex"] = @ - 1]
        /\ UNCHANGED attached
    BY <1>5 DEF CompileFails
  <2> USE DEF ShaderInv, Made, HalfBuilt, AllShaders, Kinds
  <2>2. CASE k = "vertex"
    BY <2>1, <2>2 DEF Before
  <2>3. CASE k = "fragment"
    BY <2>1, <2>3 DEF Before
  <2>4. CASE k = "geometry"
    BY <2>1, <2>4 DEF Before
  <2> QED
    BY <2>2, <2>3, <2>4
<1>6. CASE Attach
  <2>1. PICK f : program' = Asking(program, f)
    BY <1>6, Zenon DEF Attach, Asking
  <2>2. program'.source = program.source
    BY <2>1, ProgramFields DEF ProgramInv
  <2> QED
    BY <1>6, <2>2 DEF Attach, ShaderInv, Made, HalfBuilt, AllShaders, Before
<1>7. ASSUME NEW to \in {"attributes", "blocks"}, NEW from \in {"link", "relink"},
             Link(from, to), ~GiveUp
      PROVE  ShaderInv'
  <2>1. PICK f, g : program' = Linking(program, f, g)
    BY <1>7, Zenon DEF Link, Linked, Linking
  <2>2. program'.source = program.source
    BY <2>1, ProgramFields DEF ProgramInv
  <2> QED
    BY <1>2, <1>7, <2>2 DEF Link, HalfBuilt
<1>8. ASSUME ResolveAttributes, ~GiveUp PROVE ShaderInv'
  <2>1. PICK f : program' = Asking(program, f)
    BY <1>8, Zenon DEF ResolveAttributes, Asking
  <2>2. program'.source = program.source
    BY <2>1, ProgramFields DEF ProgramInv
  <2> QED
    BY <1>2, <1>8, <2>2 DEF ResolveAttributes, HalfBuilt
<1>9. ASSUME ResolveBlocks, ~GiveUp PROVE ShaderInv'
  <2>1. PICK f, g : program' = Binding(program, f, g)
    BY <1>9, Zenon DEF ResolveBlocks, Binding
  <2>2. program'.source = program.source
    BY <2>1, ProgramFields DEF ProgramInv
  <2> QED
    BY <1>2, <1>9, <2>2 DEF ResolveBlocks, HalfBuilt
<1>10. CASE Detach
  BY <1>10, ShadersLetGo DEF Detach, HalfBuilt
<1>11. ASSUME GiveUp, stage \in HalfBuilt PROVE ShaderInv'
  BY <1>11, ShadersLetGo DEF GiveUp
<1>12. CASE Construct
  <2>1. ASSUME Link("link", "attributes") \/ Link("relink", "blocks") \/ ResolveAttributes \/ ResolveBlocks
        PROVE  stage \in HalfBuilt
    BY <2>1 DEF Link, ResolveAttributes, ResolveBlocks, HalfBuilt
  <2> QED
    BY <1>4, <1>5, <1>6, <1>7, <1>8, <1>9, <1>10, <1>11, <1>12, <2>1 DEF Construct
<1>13. CASE UNCHANGED prgVars
  BY <1>13 DEF prgVars, buildVars, ShaderInv, Made, AllShaders
<1> QED
  BY <1>3, <1>12, <1>13 DEF PrgNext

-----------------------------------------------------------------------------
PrgInv == RegistryInv /\ ProgramInv /\ ShaderInv

LEMMA PrgStarts == PrgInit => PrgInv
<1> SUFFICES ASSUME PrgInit PROVE PrgInv
  OBVIOUS
<1>1. RegistryInv
  BY UnsetIsNothing DEF PrgInit, RegistryInv, Stages
<1>2. ProgramInv
  BY DEF PrgInit, ProgramInv, ProgramUnbuilt, IsProgram, Fields
<1>3. ShaderInv
  BY DEF PrgInit, ShaderInv, Made, HalfBuilt, Kinds
<1> QED
  BY <1>1, <1>2, <1>3 DEF PrgInv

LEMMA PrgSteps == PrgInv /\ [PrgNext]_prgVars => PrgInv'
<1> SUFFICES ASSUME PrgInv, [PrgNext]_prgVars PROVE PrgInv'
  OBVIOUS
<1>1. RegistryInv' /\ ShaderInv'
  BY RegistrySteps, ShaderSteps DEF PrgInv
<1>2. ProgramInv'
  <2>1. CASE UNCHANGED prgVars
    BY <2>1 DEF PrgInv, ProgramInv, Built, Sound, prgVars, registryVars, buildVars
  <2> QED
    BY <2>1, IdleSteps, ConstructSteps DEF PrgInv, PrgNext
<1> QED
  BY <1>1, <1>2 DEF PrgInv

(***************************************************************************)
(* Every usable program reads each attribute at its registered location,   *)
(* and through its blocks only buffers made for blocks of their names.     *)
(***************************************************************************)
THEOREM RegistriesAgree == PrgSpec => []LocationsAgree
<1>1. PrgInv => LocationsAgree
  BY ProgramsAgree DEF PrgInv
<1> QED
  BY <1>1, PrgStarts, PrgSteps, PTL DEF PrgSpec

(***************************************************************************)
(* Constructions, finished or given up, leave no shader object behind but  *)
(* one fragment shader for every geometry shader that did not compile.     *)
(***************************************************************************)
THEOREM ShadersAreReleased == PrgSpec => []ShadersReleased
<1>1. PrgInv => ShadersReleased
  BY DEF PrgInv, ShaderInv, ShadersReleased, Made, Kinds
<1> QED
  BY <1>1, PrgStarts, PrgSteps, PTL DEF PrgSpec

-----------------------------------------------------------------------------
(***************************************************************************)
(* Splitting and joining. The joiner has read, at each of its places, what  *)
(* is joined before that place (HasRead); Joined, what FlattenSeq has       *)
(* flattened up to a payload, is given by the payload before (JoinedIs).    *)
(* The splitter's piece goes up to the first delimiter from its start, and  *)
(* what is before it is the pieces so far, joined (SplittingAt).            *)
(***************************************************************************)

LEMMA InductionTo ==
    ASSUME NEW n \in Nat, NEW T, 0 \in T, \A k \in 0 .. n - 1 : k \in T => k + 1 \in T
    PROVE  n \in T
<1> DEFINE U == {k \in 0 .. n : \A j \in 0 .. k : j \in T}
<1>1. U \subseteq 0 .. n /\ 0 \in U
  OBVIOUS
<1> HIDE DEF U
<1>2. PICK g \in U : \A k \in U : k <= g
  BY <1>1, GreatestBelow
<1>3. g \in 0 .. n /\ \A j \in 0 .. g : j \in T
  BY <1>2 DEF U
<1>4. ASSUME g # n PROVE FALSE
  <2>1. g + 1 \in 0 .. n /\ g \in 0 .. n - 1
    BY <1>3, <1>4
  <2>2. g + 1 \in T
    BY <1>3, <2>1
  <2>3. \A j \in 0 .. g + 1 : j \in 0 .. g \/ j = g + 1
    BY <1>3
  <2>4. g + 1 \in U
    BY <1>3, <2>1, <2>2, <2>3 DEF U
  <2> QED
    BY <1>2, <1>3, <2>4
<1> QED
  BY <1>3, <1>4

\* FlattenSeq is a recursive function on the positions; it exists.
LEMMA FlattenExists ==
    ASSUME NEW x, NEW m \in Nat
    PROVE  \E f : f = [i \in 1 .. m |-> IF i = 1 THEN x[i] ELSE f[i - 1] \o x[i]]
<1> DEFINE Flat(f, k) == f = [i \in 1 .. k |-> IF i = 1 THEN x[i] ELSE f[i - 1] \o x[i]]
           T == {k \in 0 .. m : \E f : Flat(f, k)}
<1>1. 0 \in T
  <2> DEFINE e == [i \in 1 .. 0 |-> x[i]]
  <2>1. Flat(e, 0)
    OBVIOUS
  <2>2. 0 \in 0 .. m
    OBVIOUS
  <2> QED
    BY <2>1, <2>2
<1>2. ASSUME NEW k \in 0 .. m - 1, k \in T PROVE k + 1 \in T
  <2>1. PICK f : Flat(f, k)
    BY <1>2
  <2> DEFINE last == IF k + 1 = 1 THEN x[k + 1] ELSE f[k] \o x[k + 1]
             g == [i \in 1 .. k + 1 |-> IF i = k + 1 THEN last ELSE f[i]]
  <2>2. ASSUME NEW i \in 1 .. k + 1
        PROVE  g[i] = IF i = 1 THEN x[i] ELSE g[i - 1] \o x[i]
    <3>1. CASE i = k + 1
      <4>1. i # 1 => i - 1 \in 1 .. k + 1 /\ i - 1 # k + 1 /\ i - 1 = k
        BY <3>1
      <4>2. i # 1 => g[i - 1] = f[k]
        BY <4>1
      <4>3. g[i] = last
        BY <3>1
      <4> HIDE DEF g
      <4> QED
        BY <3>1, <4>1, <4>2, <4>3
    <3>2. CASE i # k + 1
      <4>1. i \in 1 .. k /\ (i # 1 => i - 1 \in 1 .. k + 1 /\ i - 1 # k + 1)
        BY <3>2
      <4>2. g[i] = f[i] /\ (i # 1 => g[i - 1] = f[i - 1])
        BY <3>2, <4>1
      <4>3. f[i] = IF i = 1 THEN x[i] ELSE f[i - 1] \o x[i]
        BY <2>1, <4>1
      <4> HIDE DEF g
      <4> QED
        BY <4>2, <4>3
    <3> QED
      BY <3>1, <3>2
  <2>3. g = [i \in 1 .. k + 1 |-> g[i]]
    OBVIOUS
  <2> HIDE DEF g
  <2>4. Flat(g, k + 1)
    BY <2>2, <2>3
  <2>5. k + 1 \in 0 .. m
    OBVIOUS
  <2> QED
    BY <2>4, <2>5
<1> HIDE DEF T
<1>3. m \in T
  BY <1>1, <1>2, InductionTo
<1> QED
  BY <1>3 DEF T

-----------------------------------------------------------------------------
\* What Interspersed flattens, and what it has flattened up to the k-th payload.
Woven(ps, d) == [i \in 1 .. 2 * Len(ps) - 1 |->
                    IF i % 2 = 1 THEN ps[(i + 1) \div 2] ELSE d]
IsFlat(f, x, m) == f = [i \in 1 .. m |-> IF i = 1 THEN x[i] ELSE f[i - 1] \o x[i]]
Flat(ps, d) == CHOOSE f : IsFlat(f, Woven(ps, d), 2 * Len(ps) - 1)
Joined(ps, d, k) == Flat(ps, d)[2 * k - 1]

LEMMA InterspersedIs ==
    ASSUME payloads \in Seq(Seq(Chars))
    PROVE  Interspersed = IF payloads = <<>> THEN <<>>
                          ELSE Joined(payloads, delim, Len(payloads))
<1>1. PICK n \in Nat : n = Len(payloads)
  OBVIOUS
<1>2. CASE payloads = <<>>
  <2>1. 2 * Len(payloads) - 1 = -1
    BY <1>2
  <2>2. Woven(payloads, delim) = <<>>
    BY <2>1 DEF Woven
  <2>3. Interspersed = FlattenSeq(Woven(payloads, delim))
    BY DEF Interspersed, Woven
  <2>4. FlattenSeq(<<>>) = <<>>
    BY DEF FlattenSeq
  <2> QED
    BY <1>2, <2>2, <2>3, <2>4
<1>3. CASE payloads # <<>>
  <2>1. n > 0 /\ 2 * n - 1 \in Nat /\ 2 * n - 1 # 0
    BY <1>1, <1>3
  <2> DEFINE x == Woven(payloads, delim)
  <2>2. Len(x) = 2 * n - 1
    BY <1>1, <2>1 DEF Woven
  <2>3. Interspersed = FlattenSeq(x)
    BY DEF Interspersed, Woven
  <2>4. FlattenSeq(x) = (CHOOSE f : IsFlat(f, x, Len(x)))[Len(x)]
    BY <2>1, <2>2 DEF FlattenSeq, IsFlat
  <2> HIDE DEF x
  <2> QED
    BY <1>1, <1>3, <2>2, <2>3, <2>4 DEF Joined, Flat, x
<1> QED
  BY <1>2, <1>3

LEMMA JoinedIs ==
    ASSUME NEW ps, ps \in Seq(Seq(Chars)), ps # <<>>, NEW d \in Seq(Chars)
    PROVE  /\ Joined(ps, d, 1) = ps[1]
           /\ \A k \in 1 .. Len(ps) - 1 :
                Joined(ps, d, k + 1) = (Joined(ps, d, k) \o d) \o ps[k + 1]
<1>1. PICK n \in Nat : n = Len(ps) /\ n > 0
  OBVIOUS
<1> DEFINE x == Woven(ps, d)
           m == 2 * n - 1
<1>2. m \in Nat /\ m > 0
  BY <1>1
<1>3. PICK f : f = Flat(ps, d)
  OBVIOUS
<1>4. IsFlat(f, x, m)
  <2>1. \E h : IsFlat(h, x, m)
    BY <1>2, FlattenExists DEF IsFlat
  <2>2. f = CHOOSE h : IsFlat(h, x, m)
    BY <1>1, <1>3 DEF Flat
  <2> QED
    BY <2>1, <2>2
<1>5. x = [i \in 1 .. m |-> IF i % 2 = 1 THEN ps[(i + 1) \div 2] ELSE d]
  BY <1>1 DEF Woven
<1> HIDE DEF x
<1>6. f[1] = ps[1]
  <2>1. 1 \in 1 .. m /\ 1 % 2 = 1 /\ (1 + 1) \div 2 = 1
    BY <1>2
  <2>2. f[1] = x[1]
    BY <1>4, <2>1 DEF IsFlat
  <2> QED
    BY <1>5, <2>1, <2>2
<1>7. ASSUME NEW k \in 1 .. n - 1
      PROVE  f[2 * (k + 1) - 1] = (f[2 * k - 1] \o d) \o ps[k + 1]
  <2>1. PICK i \in Nat, j \in Nat : i = 2 * k /\ j = 2 * k + 1
    BY <1>1
  <2>2. /\ i \in 1 .. m /\ j \in 1 .. m /\ i # 1 /\ j # 1 /\ j - 1 = i
        /\ i - 1 = 2 * k - 1 /\ j = 2 * (k + 1) - 1
        /\ i % 2 = 0 /\ j % 2 = 1 /\ (j + 1) \div 2 = k + 1
    BY <1>1, <2>1
  <2>3. f[i] = f[i - 1] \o x[i] /\ f[j] = f[j - 1] \o x[j]
    BY <1>4, <2>2 DEF IsFlat
  <2>4. x[i] = d /\ x[j] = ps[k + 1]
    BY <1>5, <2>2
  <2> QED
    BY <2>2, <2>3, <2>4
<1>8. Joined(ps, d, 1) = ps[1]
  <2>1. 2 * 1 - 1 = 1
    OBVIOUS
  <2> QED
    BY <1>3, <1>6, <2>1 DEF Joined
<1>9. \A k \in 1 .. n - 1 : Joined(ps, d, k + 1) = (Joined(ps, d, k) \o d) \o ps[k + 1]
  BY <1>3, <1>7 DEF Joined
<1> QED
  BY <1>1, <1>8, <1>9

LEMMA JoinedType ==
    ASSUME NEW ps, ps \in Seq(Seq(Chars)), ps # <<>>, NEW d \in Seq(Chars),
           NEW n \in 1 .. Len(ps)
    PROVE  Joined(ps, d, n) \in Seq(Chars)
<1> DEFINE T == {k \in 0 .. n - 1 : Joined(ps, d, k + 1) \in Seq(Chars)}
<1>1. n \in Nat /\ n - 1 \in Nat /\ 0 \in 0 .. n - 1 /\ ps[1] \in Seq(Chars) /\ 0 + 1 = 1
  OBVIOUS
<1>2. 0 \in T
  BY <1>1, JoinedIs
<1>3. ASSUME NEW k \in 0 .. (n - 1) - 1, k \in T PROVE k + 1 \in T
  <2>1. /\ k + 1 \in 1 .. Len(ps) - 1 /\ k + 1 \in 0 .. n - 1
        /\ ps[(k + 1) + 1] \in Seq(Chars) /\ Joined(ps, d, k + 1) \in Seq(Chars)
    BY <1>3
  <2>2. Joined(ps, d, (k + 1) + 1) = (Joined(ps, d, k + 1) \o d) \o ps[(k + 1) + 1]
    BY <2>1, JoinedIs
  <2>3. Joined(ps, d, k + 1) \o d \in Seq(Chars)
    BY <2>1, ConcatProperties
  <2>4. (Joined(ps, d, k + 1) \o d) \o ps[(k + 1) + 1] \in Seq(Chars)
    BY <2>1, <2>3, ConcatProperties
  <2> QED
    BY <2>1, <2>2, <2>4
<1> HIDE DEF T
<1>4. n - 1 \in T
  BY <1>1, <1>2, <1>3, InductionTo
<1>5. (n - 1) + 1 = n
  BY <1>1
<1> QED
  BY <1>4, <1>5 DEF T

\* What Append does, as the growing sequence of pieces needs it.
LEMMA Appended ==
    ASSUME NEW S, NEW s \in Seq(S), NEW e \in S
    PROVE  /\ Append(s, e) \in Seq(S) /\ Append(s, e) # <<>>
           /\ Len(Append(s, e)) = Len(s) + 1
           /\ \A i \in 1 .. Len(s) : Append(s, e)[i] = s[i]
  BY AppendProperties

\* What has been flattened stays when another payload is appended.
LEMMA JoinedGrows ==
    ASSUME NEW ps, ps \in Seq(Seq(Chars)), ps # <<>>, NEW d \in Seq(Chars),
           NEW p \in Seq(Chars), NEW n \in 1 .. Len(ps)
    PROVE  Joined(Append(ps, p), d, n) = Joined(ps, d, n)
<1>1. PICK qs : qs = Append(ps, p)
  OBVIOUS
<1>2. /\ qs \in Seq(Seq(Chars)) /\ qs # <<>> /\ Len(qs) = Len(ps) + 1
      /\ \A i \in 1 .. Len(ps) : qs[i] = ps[i]
  BY <1>1, Appended
<1> DEFINE T == {k \in 0 .. n - 1 : Joined(qs, d, k + 1) = Joined(ps, d, k + 1)}
<1>3. n \in Nat /\ n - 1 \in Nat /\ 0 \in 0 .. n - 1 /\ 0 + 1 = 1 /\ 1 \in 1 .. Len(ps)
  OBVIOUS
<1>4. 0 \in T
  BY <1>2, <1>3, JoinedIs
<1>5. ASSUME NEW k \in 0 .. (n - 1) - 1, k \in T PROVE k + 1 \in T
  <2>1. /\ k + 1 \in 1 .. Len(ps) - 1 /\ k + 1 \in 1 .. Len(qs) - 1 /\ k + 1 \in 0 .. n - 1
        /\ qs[(k + 1) + 1] = ps[(k + 1) + 1]
    BY <1>2
  <2>2. Joined(ps, d, (k + 1) + 1) = (Joined(ps, d, k + 1) \o d) \o ps[(k + 1) + 1]
    BY <2>1, JoinedIs
  <2>3. Joined(qs, d, (k + 1) + 1) = (Joined(qs, d, k + 1) \o d) \o qs[(k + 1) + 1]
    BY <1>2, <2>1, JoinedIs
  <2> QED
    BY <1>5, <2>1, <2>2, <2>3
<1> HIDE DEF T
<1>6. n - 1 \in T
  BY <1>3, <1>4, <1>5, InductionTo
<1>7. (n - 1) + 1 = n
  BY <1>3
<1> QED
  BY <1>1, <1>6, <1>7 DEF T

\* Empty payloads with an empty delimiter add nothing.
LEMMA JoinedSkips ==
    ASSUME NEW ps, ps \in Seq(Seq(Chars)), NEW p \in 1 .. Len(ps), NEW q \in p .. Len(ps),
           \A i \in p + 1 .. q : ps[i] = <<>>
    PROVE  Joined(ps, <<>>, q) = Joined(ps, <<>>, p)
<1> DEFINE T == {k \in 0 .. q - p : Joined(ps, <<>>, p + k) = Joined(ps, <<>>, p)}
<1>1. /\ q - p \in Nat /\ 0 \in 0 .. q - p /\ p + 0 = p /\ p + (q - p) = q
      /\ ps # <<>> /\ <<>> \in Seq(Chars)
  OBVIOUS
<1>2. 0 \in T
  BY <1>1
<1>3. ASSUME NEW k \in 0 .. (q - p) - 1, k \in T PROVE k + 1 \in T
  <2>1. /\ p + k \in 1 .. Len(ps) - 1 /\ p + k \in 1 .. Len(ps) /\ k + 1 \in 0 .. q - p
        /\ p + (k + 1) = (p + k) + 1 /\ ps[(p + k) + 1] = <<>>
    BY <1>1, <1>3
  <2>2. Joined(ps, <<>>, (p + k) + 1) = (Joined(ps, <<>>, p + k) \o <<>>) \o <<>>
    BY <1>1, <2>1, JoinedIs
  <2>3. Joined(ps, <<>>, p + k) \in Seq(Chars)
    BY <1>1, <2>1, JoinedType
  <2>4. Joined(ps, <<>>, (p + k) + 1) = Joined(ps, <<>>, p + k)
    BY <2>2, <2>3, ConcatEmptySeq
  <2> QED
    BY <1>3, <2>1, <2>4
<1> HIDE DEF T
<1>4. q - p \in T
  BY <1>1, <1>2, <1>3, InductionTo
<1> QED
  BY <1>1, <1>4 DEF T

LEMMA MinBelow ==
    ASSUME NEW n \in Nat, NEW T, T \subseteq 0 .. n, T # {}
    PROVE  Min(T) \in T /\ \A k \in T : Min(T) <= k
<1> DEFINE U == {n - k : k \in T}
<1>1. U \subseteq 0 .. n
  OBVIOUS
<1>0. PICK t \in T : TRUE
  OBVIOUS
<1>5. n - t \in U
  OBVIOUS
<1> HIDE DEF U
<1>2. PICK u \in U : \A v \in U : v <= u
  BY <1>1, <1>5, GreatestBelow
<1>3. PICK g \in T : u = n - g
  BY <1>2 DEF U
<1>4. ASSUME NEW k \in T PROVE g <= k
  <2>1. n - k \in U
    BY DEF U
  <2>2. n - k <= n - g
    BY <1>2, <1>3, <2>1
  <2> QED
    BY <1>3, <2>2
<1> QED
  BY <1>4 DEF Min

-----------------------------------------------------------------------------
\* The joiner: what it has been read before it is in payload k, and in the end.
StrTypes == source \in Seq(Chars) /\ delim \in Seq(Chars) /\ payloads \in Seq(Seq(Chars))

ReadBefore(k) == IF k = 1 THEN <<>> ELSE Joined(payloads, delim, k - 1) \o delim
Whole == IF payloads = <<>> THEN <<>> ELSE Joined(payloads, delim, Len(payloads))

AtEnd(p, n, j) == p = Len(payloads) + 1 /\ n = DefaultNext /\ j = Whole
InPayload(p, n, j) ==
    \E pos \in 1 .. Len(payloads[p]) :
        /\ p \in 1 .. Len(payloads) /\ n = In("payload", pos)
        /\ j = ReadBefore(p) \o SubSeq(payloads[p], 1, pos - 1)
InDelimiter(p, n, j) ==
    \E pos \in 1 .. Len(delim) :
        /\ p \in 2 .. Len(payloads) /\ n = In("delimiter", pos)
        /\ j = Joined(payloads, delim, p - 1) \o SubSeq(delim, 1, pos - 1)
HasRead(p, n, j) == AtEnd(p, n, j) \/ InPayload(p, n, j) \/ InDelimiter(p, n, j)

\* A payload that has been read to its end is part of what is joined.
LEMMA PayloadDone ==
    ASSUME StrTypes, NEW p \in 1 .. Len(payloads)
    PROVE  ReadBefore(p) \o payloads[p] = Joined(payloads, delim, p)
<1>1. payloads # <<>> /\ payloads[p] \in Seq(Chars)
  BY DEF StrTypes
<1>2. CASE p = 1
  <2>1. ReadBefore(p) = <<>> /\ Joined(payloads, delim, p) = payloads[p]
    BY <1>1, <1>2, JoinedIs DEF ReadBefore, StrTypes
  <2> QED
    BY <1>1, <2>1, ConcatEmptySeq
<1>3. CASE p # 1
  <2>1. p - 1 \in 1 .. Len(payloads) - 1 /\ (p - 1) + 1 = p
    BY <1>3
  <2>2. Joined(payloads, delim, (p - 1) + 1)
            = (Joined(payloads, delim, p - 1) \o delim) \o payloads[(p - 1) + 1]
    BY <1>1, <2>1, JoinedIs DEF StrTypes
  <2> QED
    BY <1>3, <2>1, <2>2 DEF ReadBefore
<1> QED
  BY <1>2, <1>3

LEMMA ReadingPayload ==
    ASSUME NEW p \in 1 .. Len(payloads), NEW pos \in 1 .. Len(payloads[p])
    PROVE  HasRead(p, In("payload", pos), ReadBefore(p) \o SubSeq(payloads[p], 1, pos - 1))
<1>1. InPayload(p, In("payload", pos), ReadBefore(p) \o SubSeq(payloads[p], 1, pos - 1))
  BY DEF InPayload
<1> QED
  BY <1>1 DEF HasRead

LEMMA ReadingDelimiter ==
    ASSUME NEW p \in 2 .. Len(payloads), NEW pos \in 1 .. Len(delim)
    PROVE  HasRead(p, In("delimiter", pos),
                   Joined(payloads, delim, p - 1) \o SubSeq(delim, 1, pos - 1))
<1>1. InDelimiter(p, In("delimiter", pos),
                  Joined(payloads, delim, p - 1) \o SubSeq(delim, 1, pos - 1))
  BY DEF InDelimiter
<1> QED
  BY <1>1 DEF HasRead

LEMMA Sanitizes ==
    ASSUME StrTypes, NEW p \in 1 .. Len(payloads), NEW pos \in 1 .. Len(payloads[p]) + 1,
           NEW j, j = ReadBefore(p) \o SubSeq(payloads[p], 1, pos - 1)
    PROVE  HasRead(Sanitize(p, pos).payload, Sanitize(p, pos).next, j)
<1>1. PICK n \in Nat : n = Len(payloads)
  BY DEF StrTypes
<1>2. payloads # <<>> /\ payloads[p] \in Seq(Chars) /\ Len(payloads[p]) \in Nat
  BY DEF StrTypes
<1>3. CASE pos <= Len(payloads[p])
  <2>1. Sanitize(p, pos) = [payload |-> p, next |-> In("payload", pos)]
    BY <1>3 DEF Sanitize
  <2>2. pos \in 1 .. Len(payloads[p])
    BY <1>2, <1>3
  <2>3. Sanitize(p, pos).payload = p /\ Sanitize(p, pos).next = In("payload", pos)
    BY <2>1
  <2> QED
    BY <2>2, <2>3, ReadingPayload
<1>4. CASE ~(pos <= Len(payloads[p]))
  <2>1. pos - 1 = Len(payloads[p])
    BY <1>2, <1>4
  <2>2. j = Joined(payloads, delim, p)
    BY <1>2, <2>1, PayloadDone, SubSeqFull
  <2> DEFINE q == IF delim = <<>> THEN SkipEmpty(p + 1) ELSE p + 1
  <2>3. Sanitize(p, pos) =
          [payload |-> q,
           next |-> IF q > Len(payloads) THEN DefaultNext
                    ELSE IF delim = <<>> THEN In("payload", 1) ELSE In("delimiter", 1)]
    BY <1>4 DEF Sanitize
  <2>4. CASE delim = <<>>
    <3> DEFINE E == {i \in p + 1 .. Len(payloads) : payloads[i] # <<>>} \cup {Len(payloads) + 1}
    <3>1. E \subseteq 0 .. n + 1 /\ E # {} /\ n + 1 \in Nat
      BY <1>1
    <3>2. q = Min(E)
      BY <2>4 DEF SkipEmpty
    <3>3. \A i \in p + 1 .. n : payloads[i] # <<>> => i \in E
      BY <1>1
    <3>4. E \subseteq p + 1 .. n + 1
      BY <1>1
    <3>5. \A i \in E : i = n + 1 \/ payloads[i] # <<>>
      BY <1>1
    <3> HIDE DEF E, q
    <3>6. q \in E /\ \A i \in E : q <= i
      BY <3>1, <3>2, MinBelow
    <3>7. q \in p + 1 .. n + 1 /\ q - 1 \in p .. n
      BY <1>1, <3>4, <3>6
    <3>8. \A i \in p + 1 .. q - 1 : payloads[i] = <<>>
      BY <1>1, <3>3, <3>6, <3>7
    <3>9. j = Joined(payloads, delim, q - 1)
      BY <1>1, <2>2, <2>4, <3>7, <3>8, JoinedSkips DEF StrTypes
    <3>10. CASE q = n + 1
      <4>1. q > Len(payloads) /\ q - 1 = Len(payloads)
        BY <1>1, <3>10
      <4>2. j = Whole
        BY <1>2, <3>9, <4>1 DEF Whole
      <4> QED
        BY <1>1, <2>3, <3>10, <4>1, <4>2 DEF HasRead, AtEnd
    <3>11. CASE q # n + 1
      <4>0. payloads[q] # <<>>
        BY <3>5, <3>6, <3>11
      <4>1. /\ q \in 2 .. n /\ ~(q > Len(payloads)) /\ q # 1 /\ payloads[q] # <<>>
            /\ q \in 1 .. Len(payloads)
        BY <1>1, <3>7, <3>11, <4>0
      <4>2. payloads[q] \in Seq(Chars) /\ 1 \in 1 .. Len(payloads[q])
        BY <1>1, <4>1 DEF StrTypes
      <4>3. Joined(payloads, delim, q - 1) \in Seq(Chars)
        BY <1>1, <1>2, <3>7, JoinedType DEF StrTypes
      <4>4. ReadBefore(q) = j
        BY <2>4, <3>9, <4>1, <4>3, ConcatEmptySeq DEF ReadBefore
      <4>5. SubSeq(payloads[q], 1, 1 - 1) = <<>>
        BY SubSeqEmpty
      <4>6. j = ReadBefore(q) \o SubSeq(payloads[q], 1, 1 - 1)
        BY <3>9, <4>3, <4>4, <4>5, ConcatEmptySeq
      <4>7. Sanitize(p, pos) = [payload |-> q, next |-> In("payload", 1)]
        BY <2>3, <2>4, <4>1
      <4>8. Sanitize(p, pos).payload = q /\ Sanitize(p, pos).next = In("payload", 1)
        BY <4>7
      <4>9. HasRead(q, In("payload", 1), j)
        BY <4>1, <4>2, <4>6, ReadingPayload
      <4> QED
        BY <4>8, <4>9
    <3> QED
      BY <3>10, <3>11
  <2>5. CASE delim # <<>>
    <3>1. q = p + 1
      BY <2>5
    <3> HIDE DEF q
    <3>2. CASE p = n
      <4>1. q > Len(payloads) /\ q = Len(payloads) + 1
        BY <1>1, <3>1, <3>2
      <4>2. j = Whole
        BY <1>1, <1>2, <2>2, <3>2 DEF Whole
      <4> QED
        BY <2>3, <4>1, <4>2 DEF HasRead, AtEnd
    <3>3. CASE p # n
      <4>1. q \in 2 .. n /\ ~(q > Len(payloads)) /\ q - 1 = p
        BY <1>1, <3>1, <3>3
      <4>2. 1 \in 1 .. Len(delim)
        BY <2>5 DEF StrTypes
      <4>3. SubSeq(delim, 1, 1 - 1) = <<>> /\ Joined(payloads, delim, p) \in Seq(Chars)
        BY <1>1, <1>2, SubSeqEmpty, JoinedType DEF StrTypes
      <4>4. j = Joined(payloads, delim, q - 1) \o SubSeq(delim, 1, 1 - 1)
        BY <2>2, <4>1, <4>3, ConcatEmptySeq
      <4>5. Sanitize(p, pos) = [payload |-> q, next |-> In("delimiter", 1)]
        BY <2>3, <2>5, <4>1
      <4>6. Sanitize(p, pos).payload = q /\ Sanitize(p, pos).next = In("delimiter", 1)
        BY <4>5
      <4>7. HasRead(q, In("delimiter", 1), j)
        BY <1>1, <4>1, <4>2, <4>4, ReadingDelimiter
      <4> QED
        BY <4>6, <4>7
    <3> QED
      BY <3>2, <3>3
  <2> QED
    BY <2>4, <2>5
<1> QED
  BY <1>3, <1>4
LEMMA EndsWhole ==
    ASSUME StrTypes, NEW p, NEW n, NEW j, HasRead(p, n, j), p = Len(payloads) + 1
    PROVE  j = Whole
<1>1. ~(p \in 1 .. Len(payloads)) /\ ~(p \in 2 .. Len(payloads))
  BY DEF StrTypes
<1> QED
  BY <1>1 DEF HasRead, AtEnd, InPayload, InDelimiter

\* What the joiner has been read at each place of its job.
JoinInv ==
    /\ job \in {"none", "split", "splitting", "begin_join"} =>
          payload = 1 /\ next = DefaultNext /\ joined = <<>>
    /\ job = "joining" => HasRead(payload, next, joined)
    /\ job = "done" => joined = Whole

LEMMA BeginJoinReads ==
    ASSUME StrTypes, JoinInv, BeginJoin
    PROVE  HasRead(payload', next', joined')
<1>1. payload = 1 /\ next = DefaultNext /\ joined' = <<>>
  BY DEF BeginJoin, JoinInv
<1>2. CASE payloads = <<>>
  <2>1. payload' = 1 /\ next' = DefaultNext /\ Len(payloads) = 0
    BY <1>1, <1>2 DEF BeginJoin
  <2>2. AtEnd(payload', next', joined')
    BY <1>1, <1>2, <2>1 DEF AtEnd, Whole
  <2> QED
    BY <2>2 DEF HasRead
<1>3. CASE payloads # <<>>
  <2>1. 1 \in 1 .. Len(payloads) /\ 1 \in 1 .. Len(payloads[1]) + 1
    BY <1>3 DEF StrTypes
  <2>2. SubSeq(payloads[1], 1, 1 - 1) = <<>> /\ ReadBefore(1) = <<>>
    BY SubSeqEmpty DEF ReadBefore
  <2>3. <<>> = ReadBefore(1) \o SubSeq(payloads[1], 1, 1 - 1)
    BY <2>2
  <2>4. HasRead(Sanitize(1, 1).payload, Sanitize(1, 1).next, <<>>)
    BY <2>1, <2>3, Sanitizes
  <2>5. payload' = Sanitize(1, 1).payload /\ next' = Sanitize(1, 1).next
    BY <1>3 DEF BeginJoin, GoTo
  <2> QED
    BY <1>1, <2>4, <2>5
<1> QED
  BY <1>2, <1>3

LEMMA BeforeType ==
    ASSUME StrTypes, NEW p \in 1 .. Len(payloads) PROVE ReadBefore(p) \in Seq(Chars)
<1>1. CASE p = 1
  BY <1>1 DEF ReadBefore
<1>2. CASE p # 1
  <2>1. p - 1 \in 1 .. Len(payloads) /\ payloads # <<>>
    BY <1>2 DEF StrTypes
  <2>2. Joined(payloads, delim, p - 1) \in Seq(Chars)
    BY <2>1, JoinedType DEF StrTypes
  <2> QED
    BY <1>2, <2>2, ConcatProperties DEF ReadBefore, StrTypes
<1> QED
  BY <1>1, <1>2

\* One more character of s is read.
LEMMA OneMoreChar ==
    ASSUME NEW b \in Seq(Chars), NEW s \in Seq(Chars), NEW pos \in 1 .. Len(s)
    PROVE  Append(b \o SubSeq(s, 1, pos - 1), s[pos]) = b \o SubSeq(s, 1, pos)
<1>1. SubSeq(s, 1, pos - 1) \in Seq(Chars) /\ s[pos] \in Chars
  <2>1. \A i \in 1 .. pos - 1 : s[i] \in Chars
    BY ElementOfSeq
  <2> QED
    BY <2>1, SubSeqProperties, ElementOfSeq
<1>2. <<s[pos]>> \in Seq(Chars)
  BY <1>1
<1>3. b \o SubSeq(s, 1, pos - 1) \in Seq(Chars)
  BY <1>1, ConcatProperties
<1>4. Append(b \o SubSeq(s, 1, pos - 1), s[pos]) = (b \o SubSeq(s, 1, pos - 1)) \o <<s[pos]>>
  BY <1>1, <1>3, AppendIsConcat
<1>5. (b \o SubSeq(s, 1, pos - 1)) \o <<s[pos]>> = b \o (SubSeq(s, 1, pos - 1) \o <<s[pos]>>)
  <2>1. PICK t \in Seq(Chars), u \in Seq(Chars) : t = SubSeq(s, 1, pos - 1) /\ u = <<s[pos]>>
    BY <1>1, <1>2
  <2>2. (b \o t) \o u = b \o (t \o u)
    BY ConcatAssociative, SMTT(60)
  <2> QED
    BY <2>1, <2>2
<1>6. SubSeq(s, 1, pos) = SubSeq(s, 1, pos - 1) \o <<s[pos]>>
  <2>1. 1 \in 1 .. Len(s) /\ pos \in 1 .. Len(s)
    OBVIOUS
  <2> QED
    BY <2>1, SubSeqRecursiveSecond
<1> QED
  BY <1>4, <1>5, <1>6

LEMMA PayloadCharReads ==
    ASSUME StrTypes, JoinInv, PayloadChar
    PROVE  HasRead(payload', next', joined')
<1>1. HasRead(payload, next, joined) /\ ~AtEnd(payload, next, joined)
  BY DEF PayloadChar, JoinInv, JoinEnd, AtEnd
<1>2. ~InDelimiter(payload, next, joined)
  BY DEF PayloadChar, InDelimiter, In
<1>3. InPayload(payload, next, joined)
  BY <1>1, <1>2 DEF HasRead
<1>4. PICK pos \in 1 .. Len(payloads[payload]) :
        /\ payload \in 1 .. Len(payloads) /\ next = In("payload", pos)
        /\ joined = ReadBefore(payload) \o SubSeq(payloads[payload], 1, pos - 1)
  BY <1>3 DEF InPayload
<1>5. next.pos = pos /\ payloads[payload] \in Seq(Chars) /\ ReadBefore(payload) \in Seq(Chars)
  BY <1>4, BeforeType DEF In, StrTypes
<1>6. joined' = ReadBefore(payload) \o SubSeq(payloads[payload], 1, pos)
  <2>1. joined' = Append(joined, payloads[payload][pos])
    BY <1>5 DEF PayloadChar
  <2> QED
    BY <1>4, <1>5, <2>1, OneMoreChar
<1>7. pos + 1 \in 1 .. Len(payloads[payload]) + 1 /\ (pos + 1) - 1 = pos
  BY <1>4, <1>5
<1>8. HasRead(Sanitize(payload, pos + 1).payload, Sanitize(payload, pos + 1).next, joined')
  BY <1>4, <1>6, <1>7, Sanitizes
<1>9. payload' = Sanitize(payload, pos + 1).payload /\ next' = Sanitize(payload, pos + 1).next
  BY <1>5 DEF PayloadChar, GoTo
<1> QED
  BY <1>8, <1>9

LEMMA DelimCharReads ==
    ASSUME StrTypes, JoinInv, DelimChar
    PROVE  HasRead(payload', next', joined')
<1>1. HasRead(payload, next, joined) /\ ~AtEnd(payload, next, joined)
  BY DEF DelimChar, JoinInv, JoinEnd, AtEnd
<1>2. ~InPayload(payload, next, joined)
  BY DEF DelimChar, InPayload, In
<1>3. InDelimiter(payload, next, joined)
  BY <1>1, <1>2 DEF HasRead
<1>4. PICK pos \in 1 .. Len(delim) :
        /\ payload \in 2 .. Len(payloads) /\ next = In("delimiter", pos)
        /\ joined = Joined(payloads, delim, payload - 1) \o SubSeq(delim, 1, pos - 1)
  BY <1>3 DEF InDelimiter
<1>5. PICK b : b = Joined(payloads, delim, payload - 1)
  OBVIOUS
<1>6. /\ next.pos = pos /\ payload \in 1 .. Len(payloads) /\ payload # 1
      /\ payload - 1 \in 1 .. Len(payloads) /\ payloads # <<>>
      /\ Len(delim) \in Nat /\ delim \in Seq(Chars)
  BY <1>4 DEF In, StrTypes
<1>7. b \in Seq(Chars)
  BY <1>5, <1>6, JoinedType DEF StrTypes
<1>8. joined' = b \o SubSeq(delim, 1, pos)
  <2>1. joined' = Append(joined, delim[pos])
    BY <1>6 DEF DelimChar
  <2> QED
    BY <1>4, <1>5, <1>6, <1>7, <2>1, OneMoreChar
<1>9. CASE pos < Len(delim)
  <2>1. pos + 1 \in 1 .. Len(delim) /\ (pos + 1) - 1 = pos
    BY <1>4, <1>6, <1>9
  <2>2. HasRead(payload, In("delimiter", pos + 1), joined')
    BY <1>4, <1>5, <1>8, <2>1, ReadingDelimiter
  <2>3. payload' = payload /\ next' = In("delimiter", pos + 1)
    BY <1>6, <1>9 DEF DelimChar, GoTo
  <2> QED
    BY <2>2, <2>3
<1>10. CASE ~(pos < Len(delim))
  <2>1. pos = Len(delim)
    BY <1>4, <1>6, <1>10
  <2>2. joined' = ReadBefore(payload)
    BY <1>5, <1>6, <1>8, <2>1, SubSeqFull DEF ReadBefore
  <2>3. SubSeq(payloads[payload], 1, 1 - 1) = <<>> /\ 1 \in 1 .. Len(payloads[payload]) + 1
    BY <1>6, SubSeqEmpty DEF StrTypes
  <2>4. joined' = ReadBefore(payload) \o SubSeq(payloads[payload], 1, 1 - 1)
    BY <1>6, <2>2, <2>3, BeforeType, ConcatEmptySeq
  <2>5. HasRead(Sanitize(payload, 1).payload, Sanitize(payload, 1).next, joined')
    BY <1>6, <2>3, <2>4, Sanitizes
  <2>6. payload' = Sanitize(payload, 1).payload /\ next' = Sanitize(payload, 1).next
    BY <1>6, <1>10 DEF DelimChar, GoTo
  <2> QED
    BY <2>5, <2>6
<1> QED
  BY <1>9, <1>10

\* Nothing that has been read changes while the payloads stay.
LEMMA ReadStays ==
    ASSUME UNCHANGED <<payloads, delim>>, HasRead(payload', next', joined')
    PROVE  HasRead(payload, next, joined)'
  BY DEF HasRead, AtEnd, InPayload, InDelimiter, ReadBefore, Whole

LEMMA JoinSteps ==
    ASSUME StrTypes, JoinInv, [StrNext]_strVars
    PROVE  JoinInv'
<1>1. CASE UNCHANGED strVars
  BY <1>1 DEF strVars, joinVars, splitVars, JoinInv, HasRead, AtEnd, InPayload, InDelimiter,
              ReadBefore, Whole
<1>2. CASE \E d \in Strings(MaxLength) :
               \/ \E s \in Strings(MaxLength + 1) : CallSplit(s, d)
               \/ \E ps \in BoundedSeq(Strings(MaxLength), MaxPayloads) : CallJoin(ps, d)
  BY <1>2 DEF CallSplit, CallJoin, JoinInv, joinVars, DefaultNext, In
<1>3. CASE BeginSplit \/ NextPiece \/ EndSplit
  BY <1>3 DEF BeginSplit, NextPiece, EndSplit, JoinInv, joinVars, DefaultNext, In
<1>4. CASE BeginJoin
  <2>1. HasRead(payload, next, joined)'
    BY <1>4, BeginJoinReads, ReadStays DEF BeginJoin
  <2> QED
    BY <1>4, <2>1 DEF BeginJoin, JoinInv
<1>5. CASE PayloadChar
  <2>1. HasRead(payload, next, joined)'
    BY <1>5, PayloadCharReads, ReadStays DEF PayloadChar
  <2> QED
    BY <1>5, <2>1 DEF PayloadChar, JoinInv
<1>6. CASE DelimChar
  <2>1. HasRead(payload, next, joined)'
    BY <1>6, DelimCharReads, ReadStays DEF DelimChar
  <2> QED
    BY <1>6, <2>1 DEF DelimChar, JoinInv
<1>7. CASE EndJoin
  <2>1. joined = Whole
    BY <1>7, EndsWhole DEF EndJoin, JoinInv, JoinEnd
  <2>2. joined' = Whole'
    BY <1>7, <2>1 DEF EndJoin, joinVars, Whole
  <2> QED
    BY <1>7, <2>2 DEF EndJoin, JoinInv
<1> QED
  BY <1>1, <1>2, <1>3, <1>4, <1>5, <1>6, <1>7 DEF StrNext

-----------------------------------------------------------------------------
(* The splitter: where the delimiter is. *)

Occurs(s, i) == SubSeq(s, i, i + Len(delim) - 1) = delim
ViewFrom(p) == [data |-> p, len |-> Len(source) + 1 - p]

\* A piece that begins at p and goes up to the first delimiter, which is followed
\* by the remainder; or up to the end of the source.
UpToDelim(p, pc, rs) ==
    \E q \in 0 .. Len(source) :
        /\ p + q + Len(delim) <= Len(source) + 1
        /\ pc = [data |-> p, len |-> q] /\ rs = ViewFrom(p + q + Len(delim))
        /\ Occurs(source, p + q)
        /\ \A i \in p .. p + q - 1 : ~Occurs(source, i)
UpToEnd(p, pc, rs) ==
    /\ pc = ViewFrom(p) /\ rs = NullView /\ delim # <<>>
    /\ \A i \in p .. Len(source) + 1 - Len(delim) : ~Occurs(source, i)

LEMMA FoundAre ==
    ASSUME StrTypes, NEW p \in 1 .. Len(source) + 1, NEW i \in 0 .. Len(source) + 1 - p
    PROVE  i \in Found(ViewFrom(p)) <=>
              p + i + Len(delim) <= Len(source) + 1 /\ Occurs(source, p + i)
<1>1. Len(source) \in Nat /\ Len(delim) \in Nat
  BY DEF StrTypes
<1>2. ViewFrom(p).data = p /\ ViewFrom(p).len = Len(source) + 1 - p
  BY DEF ViewFrom
<1>3. i + Len(delim) <= Len(source) + 1 - p <=> p + i + Len(delim) <= Len(source) + 1
  BY <1>1
<1> QED
  BY <1>2, <1>3 DEF Found, Occurs

LEMMA Advances ==
    ASSUME StrTypes, NEW p \in 1 .. Len(source) + 1
    PROVE  \/ UpToDelim(p, Advance(ViewFrom(p)).piece, Advance(ViewFrom(p)).rest)
           \/ UpToEnd(p, Advance(ViewFrom(p)).piece, Advance(ViewFrom(p)).rest)
<1> DEFINE v == ViewFrom(p)
           F == Found(v)
           n == Len(source) + 1 - p
<1>1. Len(source) \in Nat /\ Len(delim) \in Nat /\ n \in Nat /\ p \in Nat
  BY DEF StrTypes
<1>2. v.data = p /\ v.len = n
  BY DEF ViewFrom
<1>3. F \subseteq 0 .. n
  BY <1>2 DEF Found
<1>4. \A i \in 0 .. n : i \in F <=> p + i + Len(delim) <= Len(source) + 1 /\ Occurs(source, p + i)
  BY FoundAre
<1>5. Advance(v) = IF F = {}
                   THEN [piece |-> v, rest |-> NullView]
                   ELSE [piece |-> [data |-> v.data, len |-> Min(F)],
                         rest |-> [data |-> v.data + Min(F) + Len(delim),
                                   len |-> v.len - Min(F) - Len(delim)]]
  BY DEF Advance
<1>6. v = ViewFrom(p)
  OBVIOUS
<1> HIDE DEF v, F
<1>7. CASE F = {}
  <2>1. Advance(v).piece = ViewFrom(p) /\ Advance(v).rest = NullView
    BY <1>5, <1>6, <1>7
  <2>2. delim # <<>>
    <3> SUFFICES ASSUME delim = <<>> PROVE FALSE
      OBVIOUS
    <3>1. Len(delim) = 0 /\ 0 \in 0 .. n
      BY <1>1
    <3>2. Occurs(source, p + 0)
      BY <1>1, <3>1, SubSeqEmpty DEF Occurs
    <3>3. 0 \in F
      BY <1>1, <1>4, <3>1, <3>2
    <3> QED
      BY <1>7, <3>3
  <2>3. ASSUME NEW i \in p .. Len(source) + 1 - Len(delim) PROVE ~Occurs(source, i)
    <3>1. i - p \in 0 .. n /\ p + (i - p) = i
      BY <1>1
    <3>2. p + (i - p) + Len(delim) <= Len(source) + 1
      BY <1>1
    <3> QED
      BY <1>4, <1>7, <3>1, <3>2
  <2>4. UpToEnd(p, Advance(v).piece, Advance(v).rest)
    BY <2>1, <2>2, <2>3 DEF UpToEnd
  <2> QED
    BY <1>6, <2>4
<1>8. CASE F # {}
  <2>1. PICK q : q = Min(F)
    OBVIOUS
  <2>2. q \in F /\ \A i \in F : q <= i
    BY <1>1, <1>3, <1>8, <2>1, MinBelow
  <2>3. q \in 0 .. n /\ q \in 0 .. Len(source)
    BY <1>1, <1>3, <2>2
  <2>4. p + q + Len(delim) <= Len(source) + 1 /\ Occurs(source, p + q)
    BY <1>4, <2>2, <2>3
  <2>5. Advance(v).piece = [data |-> p, len |-> q]
    BY <1>2, <1>5, <1>8, <2>1
  <2>6. Advance(v).rest = [data |-> p + q + Len(delim), len |-> n - q - Len(delim)]
    BY <1>2, <1>5, <1>8, <2>1
  <2>7. n - q - Len(delim) = Len(source) + 1 - (p + q + Len(delim))
    BY <1>1, <2>3
  <2>8. Advance(v).rest = ViewFrom(p + q + Len(delim))
    BY <2>6, <2>7 DEF ViewFrom
  <2>9. ASSUME NEW i \in p .. p + q - 1 PROVE ~Occurs(source, i)
    <3>1. i - p \in 0 .. n /\ p + (i - p) = i /\ ~(q <= i - p)
      BY <1>1, <2>3
    <3>2. p + (i - p) + Len(delim) <= Len(source) + 1
      BY <1>1, <2>3, <2>4
    <3> QED
      BY <1>4, <2>2, <3>1, <3>2
  <2>10. UpToDelim(p, Advance(v).piece, Advance(v).rest)
    BY <2>3, <2>4, <2>5, <2>8, <2>9 DEF UpToDelim
  <2> QED
    BY <1>6, <2>10
<1> QED
  BY <1>7, <1>8

\* The empty view that the last remainder is.
LEMMA AdvancesNull ==
    ASSUME StrTypes, delim # <<>>
    PROVE  Advance(NullView) = [piece |-> NullView, rest |-> NullView]
<1>1. Len(delim) \in Nat \ {0} /\ NullView.len = 0
  BY DEF StrTypes, NullView
<1>2. Found(NullView) = {}
  BY <1>1 DEF Found
<1> QED
  BY <1>2 DEF Advance

LEMMA FirstAtIs ==
    ASSUME StrTypes, NEW s \in Seq(Chars), NEW m \in 1 .. Len(s) + 1,
           m = Len(s) + 1 \/ (m + Len(delim) <= Len(s) + 1 /\ Occurs(s, m)),
           \A i \in 1 .. m - 1 : i + Len(delim) <= Len(s) + 1 => ~Occurs(s, i)
    PROVE  FirstAt(s) = m
<1> DEFINE E == {i \in 1 .. Len(s) + 1 - Len(delim) :
                    SubSeq(s, i, i + Len(delim) - 1) = delim} \cup {Len(s) + 1}
<1>1. Len(s) \in Nat /\ Len(delim) \in Nat
  BY DEF StrTypes
<1>2. FirstAt(s) = Min(E)
  BY DEF FirstAt
<1>3. E \subseteq 0 .. Len(s) + 1 /\ Len(s) + 1 \in E
  BY <1>1
<1>4. \A i \in 1 .. Len(s) + 1 : i + Len(delim) <= Len(s) + 1 /\ Occurs(s, i) => i \in E
  BY <1>1 DEF Occurs
<1>5. \A i \in E : i = Len(s) + 1 \/ (i \in 1 .. Len(s) + 1 /\ i + Len(delim) <= Len(s) + 1 /\ Occurs(s, i))
  BY <1>1 DEF Occurs
<1> HIDE DEF E
<1>6. m \in E
  BY <1>3, <1>4
<1>7. ASSUME NEW i \in E PROVE m <= i
  <2>1. CASE i = Len(s) + 1
    BY <1>1, <2>1
  <2>2. CASE i \in 1 .. Len(s) + 1 /\ i + Len(delim) <= Len(s) + 1 /\ Occurs(s, i)
    <3>1. ~(i \in 1 .. m - 1)
      BY <2>2
    <3> QED
      BY <1>1, <2>2, <3>1
  <2> QED
    BY <1>5, <2>1, <2>2
<1>8. PICK k : k = Min(E)
  OBVIOUS
<1>9. k \in E /\ \A i \in E : k <= i
  <2>1. Len(s) + 1 \in Nat /\ E # {}
    BY <1>1, <1>3
  <2> QED
    BY <1>3, <1>8, <2>1, MinBelow
<1>10. k <= m /\ m <= k /\ k \in Int
  BY <1>3, <1>6, <1>7, <1>9
<1> QED
  BY <1>2, <1>8, <1>10

\* What is cut out of a cut.
LEMMA CutOfCut ==
    ASSUME NEW s \in Seq(Chars), NEW a \in 1 .. Len(s) + 1, NEW b \in a - 1 .. Len(s),
           NEW i \in 1 .. b - a + 2, NEW k \in i - 1 .. b - a + 1
    PROVE  SubSeq(SubSeq(s, a, b), i, k) = SubSeq(s, a + i - 1, a + k - 1)
<1>1. Len(s) \in Nat
  OBVIOUS
<1>2. CASE k = i - 1
  <2>1. k < i /\ a + k - 1 < a + i - 1 /\ k \in Int /\ i \in Int
        /\ a + k - 1 \in Int /\ a + i - 1 \in Int
    BY <1>1, <1>2
  <2>2. SubSeq(SubSeq(s, a, b), i, k) = <<>>
    BY <2>1, SubSeqEmpty
  <2>3. SubSeq(s, a + i - 1, a + k - 1) = <<>>
    BY <2>1, SubSeqEmpty
  <2> QED
    BY <2>2, <2>3
<1>3. CASE k # i - 1
  <2>1. a \in 1 .. Len(s) /\ b \in 1 .. Len(s) /\ i \in 1 .. b - a + 1 /\ k \in 1 .. b - a + 1
    BY <1>1, <1>3
  <2> QED
    BY <2>1, SubSeqOfSubSeq
<1> QED
  BY <1>2, <1>3

LEMMA CutType ==
    ASSUME NEW s \in Seq(Chars), NEW a \in 1 .. Len(s) + 1, NEW b \in a - 1 .. Len(s)
    PROVE  SubSeq(s, a, b) \in Seq(Chars) /\ Len(SubSeq(s, a, b)) = b - a + 1
<1>1. Len(s) \in Nat /\ a \in Int /\ b \in Int
  OBVIOUS
<1>2. \A i \in a .. b : s[i] \in Chars
  <2> TAKE i \in a .. b
  <2>1. i \in 1 .. Len(s)
    BY <1>1
  <2> QED
    BY <2>1, ElementOfSeq
<1>3. /\ SubSeq(s, a, b) \in Seq(Chars)
      /\ Len(SubSeq(s, a, b)) = IF a <= b THEN b - a + 1 ELSE 0
  BY <1>1, <1>2, SubSeqProperties
<1> QED
  BY <1>1, <1>3

\* A piece that is followed by the first delimiter after its start.
LEMMA PieceFollowed ==
    ASSUME StrTypes, NEW p \in 1 .. Len(source) + 1, NEW q \in 0 .. Len(source),
           p + q + Len(delim) <= Len(source) + 1, Occurs(source, p + q),
           \A i \in p .. p + q - 1 : ~Occurs(source, i)
    PROVE  FirstAt(SubSeq(source, p, p + q - 1) \o delim) = Len(SubSeq(source, p, p + q - 1)) + 1
<1>1. PICK L \in Nat, D \in Nat : L = Len(source) /\ D = Len(delim)
  BY DEF StrTypes
<1>2. PICK s : s = SubSeq(source, p, p + q + D - 1)
  OBVIOUS
<1>3. SubSeq(source, p, p + q - 1) \o delim = s
  <2>1. /\ p + q - 1 \in p - 1 .. Len(source) /\ p + q + D - 1 \in p + q - 1 .. Len(source)
        /\ (p + q - 1) + 1 = p + q /\ source \in Seq(Chars)
    BY <1>1 DEF StrTypes
  <2>2. SubSeq(source, p, p + q - 1) \o SubSeq(source, (p + q - 1) + 1, p + q + D - 1) = s
    BY <1>2, <2>1, ConcatAdjacentSubSeq
  <2> QED
    BY <1>1, <2>1, <2>2 DEF Occurs
<1>4. s \in Seq(Chars) /\ Len(s) = q + D
  <2>1. p + q + D - 1 \in p - 1 .. Len(source) /\ (p + q + D - 1) - p + 1 = q + D
    BY <1>1
  <2> QED
    BY <1>2, <2>1, CutType DEF StrTypes
<1>5. Len(SubSeq(source, p, p + q - 1)) = q
  <2>1. p + q - 1 \in p - 1 .. Len(source) /\ (p + q - 1) - p + 1 = q
    BY <1>1
  <2> QED
    BY <2>1, CutType DEF StrTypes
<1>6. ASSUME NEW i \in 1 .. q + 1 PROVE Occurs(s, i) <=> Occurs(source, p + i - 1)
  <2>0. p + q + D - 1 \in Int /\ i + D - 1 \in Int
    BY <1>1
  <2>1. PICK b \in Int, k \in Int : b = p + q + D - 1 /\ k = i + D - 1
    BY <2>0
  <2>2. /\ b \in p - 1 .. Len(source) /\ i \in 1 .. b - p + 2 /\ k \in i - 1 .. b - p + 1
        /\ p + k - 1 = (p + i - 1) + D - 1 /\ source \in Seq(Chars)
    BY <1>1, <2>1 DEF StrTypes
  <2>3. SubSeq(SubSeq(source, p, b), i, k) = SubSeq(source, p + i - 1, p + k - 1)
    BY <2>2, CutOfCut
  <2> QED
    BY <1>1, <1>2, <2>1, <2>2, <2>3 DEF Occurs
<1>7. q + 1 \in 1 .. Len(s) + 1 /\ q + 1 + Len(delim) <= Len(s) + 1 /\ Occurs(s, q + 1)
  <2>1. q + 1 \in 1 .. q + 1 /\ p + (q + 1) - 1 = p + q
    BY <1>1
  <2> QED
    BY <1>1, <1>4, <1>6, <2>1
<1>8. ASSUME NEW i \in 1 .. (q + 1) - 1 PROVE ~Occurs(s, i)
  <2>1. i \in 1 .. q + 1 /\ p + i - 1 \in p .. p + q - 1
    BY <1>1
  <2> QED
    BY <1>6, <2>1
<1>9. FirstAt(s) = q + 1
  BY <1>4, <1>7, <1>8, FirstAtIs
<1> QED
  BY <1>3, <1>5, <1>9

\* The last piece holds no delimiter.
LEMMA LastHoldsNone ==
    ASSUME StrTypes, NEW p \in 1 .. Len(source) + 1,
           \A i \in p .. Len(source) + 1 - Len(delim) : ~Occurs(source, i)
    PROVE  FirstAt(SubSeq(source, p, Len(source))) > Len(SubSeq(source, p, Len(source)))
<1>1. PICK L \in Nat, D \in Nat : L = Len(source) /\ D = Len(delim)
  BY DEF StrTypes
<1>2. PICK s : s = SubSeq(source, p, L)
  OBVIOUS
<1>3. s \in Seq(Chars) /\ Len(s) = L - p + 1
  <2>1. L \in p - 1 .. Len(source)
    BY <1>1
  <2> QED
    BY <1>2, <2>1, CutType DEF StrTypes
<1>4. ASSUME NEW i \in 1 .. Len(s), i + D <= Len(s) + 1 PROVE ~Occurs(s, i)
  <2>0. i + D - 1 \in Int
    BY <1>1
  <2>1. PICK k \in Int : k = i + D - 1
    BY <2>0
  <2>2. /\ L \in p - 1 .. Len(source) /\ i \in 1 .. L - p + 2 /\ k \in i - 1 .. L - p + 1
        /\ p + k - 1 = (p + i - 1) + D - 1 /\ source \in Seq(Chars)
        /\ p + i - 1 \in p .. Len(source) + 1 - Len(delim)
    BY <1>1, <1>3, <1>4, <2>1 DEF StrTypes
  <2>3. SubSeq(SubSeq(source, p, L), i, k) = SubSeq(source, p + i - 1, p + k - 1)
    BY <2>2, CutOfCut
  <2>4. Occurs(s, i) <=> Occurs(source, p + i - 1)
    BY <1>1, <1>2, <2>1, <2>2, <2>3 DEF Occurs
  <2> QED
    BY <2>2, <2>4
<1>5. Len(s) + 1 \in 1 .. Len(s) + 1 /\ (Len(s) + 1) - 1 = Len(s)
  BY <1>1, <1>3
<1>6. FirstAt(s) = Len(s) + 1
  BY <1>1, <1>3, <1>4, <1>5, FirstAtIs
<1> QED
  BY <1>1, <1>2, <1>3, <1>6

-----------------------------------------------------------------------------
\* The part of the source before the current piece, in terms of the pieces so far.
PrefixOf(ps, d) == IF ps = <<>> THEN <<>> ELSE Joined(ps, d, Len(ps)) \o d

LEMMA PrefixGrows ==
    ASSUME NEW ps \in Seq(Seq(Chars)), NEW d \in Seq(Chars), NEW w \in Seq(Chars)
    PROVE  /\ Joined(Append(ps, w), d, Len(ps) + 1) = PrefixOf(ps, d) \o w
           /\ PrefixOf(Append(ps, w), d) = (PrefixOf(ps, d) \o w) \o d
<1>1. PICK qs : qs = Append(ps, w)
  OBVIOUS
<1>2. /\ qs \in Seq(Seq(Chars)) /\ qs # <<>> /\ Len(qs) = Len(ps) + 1 /\ Len(ps) \in Nat
      /\ qs[Len(ps) + 1] = w
  BY <1>1, AppendProperties
<1>3. Joined(qs, d, Len(ps) + 1) = PrefixOf(ps, d) \o w
  <2>1. CASE ps = <<>>
    <3>1. Len(ps) + 1 = 1 /\ qs[1] = w
      BY <1>2, <2>1
    <3>2. Joined(qs, d, 1) = qs[1]
      BY <1>2, JoinedIs
    <3> QED
      BY <2>1, <3>1, <3>2, ConcatEmptySeq DEF PrefixOf
  <2>2. CASE ps # <<>>
    <3>1. Len(ps) \in 1 .. Len(qs) - 1 /\ Len(ps) \in 1 .. Len(ps)
      BY <1>2, <2>2
    <3>2. Joined(qs, d, Len(ps) + 1) = (Joined(qs, d, Len(ps)) \o d) \o qs[Len(ps) + 1]
      BY <1>2, <3>1, JoinedIs
    <3>3. Joined(qs, d, Len(ps)) = Joined(ps, d, Len(ps))
      BY <1>1, <2>2, <3>1, JoinedGrows
    <3> QED
      BY <1>2, <2>2, <3>2, <3>3 DEF PrefixOf
  <2> QED
    BY <2>1, <2>2
<1>4. PrefixOf(qs, d) = (PrefixOf(ps, d) \o w) \o d
  BY <1>2, <1>3 DEF PrefixOf
<1> QED
  BY <1>1, <1>3, <1>4

Followed(ps, n) == \A i \in 1 .. n : FirstAt(ps[i] \o delim) = Len(ps[i]) + 1

\* The source has been split, or is being split at p.
WasSplit ==
    /\ payloads # <<>> /\ delim # <<>>
    /\ source = Joined(payloads, delim, Len(payloads))
    /\ Followed(payloads, Len(payloads) - 1)
    /\ FirstAt(Last(payloads)) > Len(Last(payloads))
SplittingAt(p) ==
    /\ UpToDelim(p, piece, rest) \/ UpToEnd(p, piece, rest)
    /\ SubSeq(source, 1, p - 1) = PrefixOf(payloads, delim)
    /\ Followed(payloads, Len(payloads))

SplitInv ==
    /\ job \in {"none", "split"} => payloads = <<>> /\ SplitEnd
    /\ job = "none" => source = <<>>
    /\ job = "splitting" =>
          IF SplitEnd THEN source # <<>> => WasSplit
          ELSE \E p \in 1 .. Len(source) + 1 : SplittingAt(p)
    /\ job \in {"begin_join", "joining", "done"} /\ source # <<>> => WasSplit

StrInv == StrTypes /\ JoinInv /\ SplitInv

LEMMA BeginSplits == ASSUME StrInv, BeginSplit PROVE StrTypes' /\ SplitInv'
<1>1. /\ job = "split" /\ payloads = <<>> /\ SplitEnd /\ job' = "splitting"
      /\ UNCHANGED <<source, delim, payloads>>
  BY DEF BeginSplit, StrInv, SplitInv, splitVars
<1>2. StrTypes'
  BY <1>1 DEF StrInv, StrTypes
<1>3. CASE source = <<>>
  <2>1. SplitEnd'
    BY <1>1, <1>3 DEF BeginSplit, splitVars, SplitEnd, NullView
  <2> QED
    BY <1>1, <1>2, <1>3, <2>1 DEF SplitInv
<1>4. CASE source # <<>>
  <2>1. [data |-> 1, len |-> Len(source)] = ViewFrom(1) /\ 1 \in 1 .. Len(source) + 1
    BY DEF ViewFrom, StrInv, StrTypes
  <2>2. piece' = Advance(ViewFrom(1)).piece /\ rest' = Advance(ViewFrom(1)).rest
    BY <1>4, <2>1 DEF BeginSplit, MoveTo
  <2>3. UpToDelim(1, piece', rest') \/ UpToEnd(1, piece', rest')
    BY <2>1, <2>2, Advances DEF StrInv
  <2>4. (UpToDelim(1, piece, rest) \/ UpToEnd(1, piece, rest))'
    BY <1>1, <2>3 DEF UpToDelim, UpToEnd, ViewFrom, Occurs, NullView
  <2>5. piece'.data = 1
    BY <2>3 DEF UpToDelim, UpToEnd, ViewFrom
  <2>6. ~SplitEnd'
    BY <2>5 DEF SplitEnd, NullView
  <2>7. SubSeq(source, 1, 1 - 1) = PrefixOf(payloads, delim)
    BY <1>1, SubSeqEmpty DEF PrefixOf
  <2>8. (SubSeq(source, 1, 1 - 1) = PrefixOf(payloads, delim))'
    BY <1>1, <2>7 DEF PrefixOf
  <2>9. Followed(payloads, Len(payloads))'
    BY <1>1 DEF Followed
  <2>10. SplittingAt(1)'
    BY <2>4, <2>8, <2>9 DEF SplittingAt
  <2>11. (\E p \in 1 .. Len(source) + 1 : SplittingAt(p))'
    BY <1>1, <2>1, <2>10
  <2> QED
    BY <1>1, <1>2, <2>6, <2>11 DEF SplitInv
<1> QED
  BY <1>3, <1>4

LEMMA NextSplits == ASSUME StrInv, NextPiece PROVE StrTypes' /\ SplitInv'
<1>1. /\ job = "splitting" /\ job' = "splitting" /\ ~SplitEnd /\ UNCHANGED <<source, delim>>
      /\ payloads' = Append(payloads, Chars_(piece))
      /\ piece' = Advance(rest).piece /\ rest' = Advance(rest).rest
  BY DEF NextPiece, MoveTo
<1>2. PICK p \in 1 .. Len(source) + 1 : SplittingAt(p)
  BY <1>1 DEF StrInv, SplitInv
<1>3. PICK L \in Nat, D \in Nat : L = Len(source) /\ D = Len(delim)
  BY DEF StrInv, StrTypes
<1>4. source \in Seq(Chars) /\ delim \in Seq(Chars) /\ payloads \in Seq(Seq(Chars)) /\ StrTypes
  BY DEF StrInv, StrTypes
<1>5. PICK w : w = Chars_(piece)
  OBVIOUS
<1>6. PICK N \in Nat : N = Len(payloads)
  BY <1>4
<1>7. ASSUME w \in Seq(Chars)
      PROVE  /\ payloads' \in Seq(Seq(Chars)) /\ payloads' # <<>> /\ Len(payloads') = N + 1
             /\ payloads'[N + 1] = w /\ StrTypes'
             /\ \A i \in 1 .. N : payloads'[i] = payloads[i]
  BY <1>1, <1>4, <1>5, <1>6, <1>7, AppendProperties DEF StrTypes
<1>8. \A i \in 1 .. N : FirstAt(payloads[i] \o delim) = Len(payloads[i]) + 1
  BY <1>2, <1>6 DEF SplittingAt, Followed
<1>9. PICK before : before = PrefixOf(payloads, delim)
  OBVIOUS
<1>10. SubSeq(source, 1, p - 1) = before
  BY <1>2, <1>9 DEF SplittingAt
<1>11. CASE UpToDelim(p, piece, rest)
  <2>1. PICK q \in 0 .. Len(source) :
          /\ p + q + Len(delim) <= Len(source) + 1
          /\ piece = [data |-> p, len |-> q] /\ rest = ViewFrom(p + q + Len(delim))
          /\ Occurs(source, p + q)
          /\ \A i \in p .. p + q - 1 : ~Occurs(source, i)
    BY <1>11 DEF UpToDelim
  <2>2. PICK r \in Nat : r = p + q + D
    <3>1. p + q + D \in Nat
      BY <1>3
    <3> QED
      BY <3>1
  <2>3. w = SubSeq(source, p, p + q - 1)
    BY <1>5, <2>1 DEF Chars_
  <2>4. w \in Seq(Chars)
    <3>1. p + q - 1 \in p - 1 .. Len(source)
      BY <1>3, <2>1
    <3> QED
      BY <1>4, <2>3, <3>1, CutType
  <2>5. r \in 1 .. Len(source) + 1
    BY <1>3, <2>1, <2>2
  <2>6. UpToDelim(r, piece', rest') \/ UpToEnd(r, piece', rest')
    BY <1>1, <1>3, <1>4, <2>1, <2>2, <2>5, Advances
  <2>7. (UpToDelim(r, piece, rest) \/ UpToEnd(r, piece, rest))'
    BY <1>1, <2>6 DEF UpToDelim, UpToEnd, ViewFrom, Occurs, NullView
  <2>8. ~SplitEnd'
    <3>1. piece'.data = r
      BY <2>6 DEF UpToDelim, UpToEnd, ViewFrom
    <3> QED
      BY <2>5, <3>1 DEF SplitEnd, NullView
  <2>9. SubSeq(source, 1, r - 1) = (before \o w) \o delim
    <3>1. SubSeq(source, p + q, r - 1) = delim
      BY <1>3, <2>1, <2>2 DEF Occurs
    <3>2. /\ 1 \in 1 .. Len(source) + 1 /\ p - 1 \in 1 - 1 .. Len(source)
          /\ p + q - 1 \in p - 1 .. Len(source) /\ (p - 1) + 1 = p
          /\ p + q - 1 \in 1 - 1 .. Len(source) /\ r - 1 \in p + q - 1 .. Len(source)
          /\ (p + q - 1) + 1 = p + q
      BY <1>3, <2>1, <2>2
    <3>3. SubSeq(source, 1, p - 1) \o SubSeq(source, (p - 1) + 1, p + q - 1)
            = SubSeq(source, 1, p + q - 1)
      BY <1>4, <3>2, ConcatAdjacentSubSeq
    <3>4. SubSeq(source, 1, p + q - 1) \o SubSeq(source, (p + q - 1) + 1, r - 1)
            = SubSeq(source, 1, r - 1)
      BY <1>4, <3>2, ConcatAdjacentSubSeq
    <3> QED
      BY <1>10, <2>3, <3>1, <3>2, <3>3, <3>4
  <2>10. PrefixOf(payloads', delim) = (before \o w) \o delim
    BY <1>1, <1>4, <1>5, <1>9, <2>4, PrefixGrows
  <2>11. (SubSeq(source, 1, r - 1) = PrefixOf(payloads, delim))'
    BY <1>1, <2>9, <2>10 DEF PrefixOf
  <2>12. FirstAt(w \o delim) = Len(w) + 1
    BY <1>4, <2>1, <2>3, PieceFollowed
  <2>13. \A i \in 1 .. N + 1 : FirstAt(payloads'[i] \o delim) = Len(payloads'[i]) + 1
    <3> TAKE i \in 1 .. N + 1
    <3>1. CASE i = N + 1
      BY <1>7, <2>4, <2>12, <3>1
    <3>2. CASE i # N + 1
      <4>1. i \in 1 .. N
        BY <3>2
      <4> QED
        BY <1>7, <1>8, <2>4, <4>1
    <3> QED
      BY <3>1, <3>2
  <2>14. Followed(payloads, Len(payloads))'
    BY <1>1, <1>7, <2>4, <2>13 DEF Followed, FirstAt
  <2>15. SplittingAt(r)'
    BY <2>7, <2>11, <2>14 DEF SplittingAt
  <2>16. (\E k \in 1 .. Len(source) + 1 : SplittingAt(k))'
    BY <1>1, <2>5, <2>15
  <2> QED
    BY <1>1, <1>7, <2>4, <2>8, <2>16 DEF SplitInv
<1>12. CASE UpToEnd(p, piece, rest)
  <2>1. /\ piece = ViewFrom(p) /\ rest = NullView /\ delim # <<>>
        /\ \A i \in p .. Len(source) + 1 - Len(delim) : ~Occurs(source, i)
    BY <1>12 DEF UpToEnd
  <2>2. w = SubSeq(source, p, L)
    <3>1. p + (L + 1 - p) - 1 = L
      BY <1>3
    <3> QED
      BY <1>3, <1>5, <2>1, <3>1 DEF Chars_, ViewFrom
  <2>3. L \in p - 1 .. Len(source)
    BY <1>3
  <2>4. w \in Seq(Chars)
    BY <1>3, <1>4, <2>2, <2>3, CutType
  <2>5. SplitEnd'
    <3>1. piece' = NullView /\ rest' = NullView
      BY <1>1, <1>4, <2>1, AdvancesNull
    <3> QED
      BY <3>1 DEF SplitEnd, NullView
  <2>6. source = before \o w
    <3>1. /\ 1 \in 1 .. Len(source) + 1 /\ p - 1 \in 1 - 1 .. Len(source)
          /\ L \in p - 1 .. Len(source) /\ (p - 1) + 1 = p
      BY <1>3
    <3>2. SubSeq(source, 1, p - 1) \o SubSeq(source, (p - 1) + 1, L) = SubSeq(source, 1, L)
      BY <1>4, <3>1, ConcatAdjacentSubSeq
    <3>3. SubSeq(source, 1, L) = source
      BY <1>3, <1>4, SubSeqFull
    <3> QED
      BY <1>10, <2>2, <3>1, <3>2, <3>3
  <2>7. Joined(payloads', delim, N + 1) = before \o w
    BY <1>1, <1>4, <1>5, <1>6, <1>9, <2>4, PrefixGrows
  <2>8. FirstAt(w) > Len(w)
    BY <1>3, <1>4, <2>1, <2>2, LastHoldsNone
  <2>9. (FirstAt(Last(payloads)) > Len(Last(payloads)))'
    <3>1. Last(payloads') = w
      BY <1>7, <2>4 DEF Last
    <3> QED
      BY <1>1, <2>8, <3>1 DEF FirstAt, Last
  <2>10. Followed(payloads, Len(payloads) - 1)'
    <3>1. Len(payloads') - 1 = N
      BY <1>7, <2>4
    <3>2. \A i \in 1 .. N : FirstAt(payloads'[i] \o delim) = Len(payloads'[i]) + 1
      BY <1>7, <1>8, <2>4
    <3> QED
      BY <1>1, <3>1, <3>2 DEF Followed, FirstAt
  <2>11. (source = Joined(payloads, delim, Len(payloads)))'
    BY <1>1, <1>7, <2>4, <2>6, <2>7
  <2>12. WasSplit'
    BY <1>1, <1>7, <2>1, <2>4, <2>9, <2>10, <2>11 DEF WasSplit
  <2> QED
    BY <1>1, <1>7, <2>4, <2>5, <2>12 DEF SplitInv
<1> QED
  BY <1>2, <1>11, <1>12 DEF SplittingAt

LEMMA SplitSteps ==
    ASSUME StrInv, [StrNext]_strVars
    PROVE  StrTypes' /\ SplitInv'
<1>1. CASE UNCHANGED <<delim, payloads, splitVars>>
             /\ (job' = job \/ (job' \in {"joining", "done"} /\ job \in {"begin_join", "joining"}))
  <2>1. StrTypes' /\ UNCHANGED <<source, delim, payloads, piece, rest>>
    BY <1>1 DEF StrInv, StrTypes, splitVars
  <2>2. (WasSplit <=> WasSplit') /\ (SplitEnd <=> SplitEnd')
    BY <2>1 DEF WasSplit, SplitEnd, Followed, FirstAt, Last, NullView
  <2>3. \A p : SplittingAt(p) <=> SplittingAt(p)'
    BY <2>1 DEF SplittingAt, UpToDelim, UpToEnd, ViewFrom, Occurs, NullView, PrefixOf,
                Followed, FirstAt
  <2> QED
    BY <1>1, <2>1, <2>2, <2>3 DEF StrInv, SplitInv
<1>2. CASE UNCHANGED strVars
  BY <1>1, <1>2 DEF strVars
<1>3. ASSUME NEW d \in Strings(MaxLength), NEW s \in Strings(MaxLength + 1), CallSplit(s, d)
      PROVE  StrTypes' /\ SplitInv'
  <2>1. d \in Seq(Chars) /\ s \in Seq(Chars)
    BY DEF Strings, BoundedSeq, SeqOf
  <2>2. StrTypes'
    BY <1>3, <2>1 DEF CallSplit, StrInv, StrTypes
  <2> QED
    BY <1>3, <2>2 DEF CallSplit, StrInv, SplitInv, SplitEnd, NullView
<1>4. ASSUME NEW d \in Strings(MaxLength),
             NEW ps \in BoundedSeq(Strings(MaxLength), MaxPayloads), CallJoin(ps, d)
      PROVE  StrTypes' /\ SplitInv'
  <2>1. d \in Seq(Chars) /\ Strings(MaxLength) \subseteq Seq(Chars)
    BY DEF Strings, BoundedSeq, SeqOf
  <2>2. ps \in Seq(Seq(Chars))
    <3>1. ps \in Seq(Strings(MaxLength))
      BY DEF BoundedSeq, SeqOf
    <3> QED
      BY <2>1, <3>1
  <2>3. StrTypes' /\ source' = <<>>
    BY <1>4, <2>1, <2>2 DEF CallJoin, StrInv, StrTypes, SplitInv, splitVars
  <2> QED
    BY <1>4, <2>3 DEF CallJoin, SplitInv
<1>5. CASE BeginSplit
  BY <1>5, BeginSplits
<1>6. CASE NextPiece
  BY <1>6, NextSplits
<1>7. CASE EndSplit
  <2>1. /\ job = "splitting" /\ SplitEnd /\ job' = "begin_join"
        /\ UNCHANGED <<source, delim, payloads, piece, rest>>
    BY <1>7 DEF EndSplit, splitVars
  <2>2. StrTypes'
    BY <2>1 DEF StrInv, StrTypes
  <2>3. source # <<>> => WasSplit
    BY <2>1 DEF StrInv, SplitInv
  <2>4. WasSplit <=> WasSplit'
    BY <2>1 DEF WasSplit, Followed, FirstAt, Last
  <2> QED
    BY <2>1, <2>2, <2>3, <2>4 DEF SplitInv
<1>8. CASE BeginJoin \/ PayloadChar \/ DelimChar \/ EndJoin
  BY <1>1, <1>8 DEF BeginJoin, PayloadChar, DelimChar, EndJoin
<1> QED
  BY <1>2, <1>3, <1>4, <1>5, <1>6, <1>7, <1>8 DEF StrNext

LEMMA StrStarts == StrInit => StrInv
  BY DEF StrInit, StrInv, StrTypes, JoinInv, SplitInv, SplitEnd

LEMMA RightFromInv == StrInv => SplitJoinRight
<1> SUFFICES ASSUME StrInv PROVE SplitJoinRight
  OBVIOUS
<1>1. Interspersed = Whole
  BY InterspersedIs DEF StrInv, StrTypes, Whole
<1>2. job = "done" => joined = Interspersed /\ (source # <<>> => joined = source)
  <2>1. job = "done" => joined = Whole /\ (source # <<>> => WasSplit)
    BY DEF StrInv, JoinInv, SplitInv
  <2> QED
    BY <1>1, <2>1 DEF WasSplit, Whole
<1>3. SplitsLeftmost
  BY DEF StrInv, SplitInv, WasSplit, Followed, SplitsLeftmost
<1> QED
  BY <1>2, <1>3 DEF SplitJoinRight, JoinsBack

(***************************************************************************)
(* split and join do what their names say: the pieces of a string lie      *)
(* between its leftmost delimiters, and join gives the payloads with the   *)
(* delimiter between each two, at every edge; for any alphabet and any     *)
(* lengths. So joining what split returned gives the string back.          *)
(***************************************************************************)
THEOREM SplitJoinIsRight == StrSpec => []SplitJoinRight
<1>1. StrInv /\ [StrNext]_strVars => StrInv'
  BY JoinSteps, SplitSteps DEF StrInv
<1> QED
  BY <1>1, StrStarts, RightFromInv, PTL DEF StrSpec

=============================================================================
