---------------------------- MODULE Engine_proofs ----------------------------
(***************************************************************************)
(* Theorems about the engine, for any finite set of workers and any        *)
(* requests: a request is in exactly one place, the shutdown leaves        *)
(* nothing running, and every step is one that AsyncLoads allows.          *)
(***************************************************************************)
EXTENDS Engine, FiniteSetTheorems, FunctionTheorems, SequenceTheorems, TLAPS

Runners(r) == {w \in Workers : wpc[w] = "running" /\ op[w] = r}
AtFiles(r) == fs \in {"reading", "emitting"} /\ req = r

Closing == {"stoppingFiles", "filesJoined", "down"}

\* Where the owner is tells what is left of the Core.
OwnerAndCore ==
    /\ owner = "constructing" => core = "starting" /\ posted = {}
    /\ RuntimeAlive => core = "up"
    /\ owner = "noRuntime" => core # "starting"
    /\ owner \in Closing => core = "joined"
    /\ core = "joined" => \A w \in Workers : wpc[w] = "exited"
    /\ owner # "down" => instance

\* The pill of the filesystem thread is the last that its queue ever gets.
StopLast ==
    /\ \A i \in DOMAIN loads : loads[i] = Pill => i = Len(loads) /\ owner = "stoppingFiles"
    /\ fs = "exited" => owner = "stoppingFiles" /\ loads = <<>>
    /\ owner \in {"filesJoined", "down"} => fs = "none" /\ loads = <<>>

EngInv == TypeOK /\ OwnerAndCore /\ StopLast /\ InOnePlace

-----------------------------------------------------------------------------
(* Counting in queues. *)

LEMMA CountNat ==
    ASSUME NEW S, NEW s \in Seq(S), NEW r
    PROVE  /\ IsFiniteSet(Positions(s, r)) /\ Cardinality(Positions(s, r)) \in Nat
           /\ CountIn(s, r) \in Nat
           /\ CountIn(s, r) = 0 <=> r \notin {s[i] : i \in DOMAIN s}
<1>1. IsFiniteSet(1 .. Len(s))
  BY LenProperties, FS_Interval
<1>2. Positions(s, r) \subseteq 1 .. Len(s)
  BY LenProperties DEF Positions
<1>3. IsFiniteSet(Positions(s, r))
  BY <1>1, <1>2, FS_Subset
<1>4. CountIn(s, r) = 0 <=> Positions(s, r) = {}
  BY <1>3, FS_EmptySet DEF CountIn
<1>5. Positions(s, r) = {} <=> r \notin {s[i] : i \in DOMAIN s}
  BY DEF Positions
<1> QED
  BY <1>3, <1>4, <1>5, FS_CardinalityType DEF CountIn

LEMMA CountEmpty == \A r : CountIn(<<>>, r) = 0
<1> SUFFICES ASSUME NEW r PROVE CountIn(<<>>, r) = 0
  OBVIOUS
<1>1. Positions(<<>>, r) = {}
  BY DEF Positions
<1> QED
  BY <1>1, FS_EmptySet DEF CountIn

LEMMA CountAppend ==
    ASSUME NEW S, NEW s \in Seq(S), NEW e \in S, NEW r
    PROVE  CountIn(Append(s, e), r) = CountIn(s, r) + One(e = r)
<1>1. /\ Len(s) \in Nat /\ DOMAIN s = 1 .. Len(s) /\ DOMAIN Append(s, e) = 1 .. Len(s) + 1
      /\ Append(s, e)[Len(s) + 1] = e /\ \A i \in 1 .. Len(s) : Append(s, e)[i] = s[i]
  BY AppendProperties, LenProperties
<1>2. CASE e = r
  <2>1. Positions(Append(s, e), r) = Positions(s, r) \cup {Len(s) + 1}
    BY <1>1, <1>2 DEF Positions
  <2>2. Len(s) + 1 \notin Positions(s, r)
    BY <1>1 DEF Positions
  <2> QED
    BY <1>2, <2>1, <2>2, CountNat, FS_AddElement DEF CountIn, One
<1>3. CASE e # r
  <2>1. Positions(Append(s, e), r) = Positions(s, r)
    BY <1>1, <1>3 DEF Positions
  <2> QED
    BY <1>3, <2>1, CountNat DEF CountIn, One
<1> QED
  BY <1>2, <1>3

LEMMA CountTail ==
    ASSUME NEW S, NEW s \in Seq(S), s # <<>>, NEW r
    PROVE  CountIn(s, r) = CountIn(Tail(s), r) + One(Head(s) = r)
<1> DEFINE P == Positions(s, r)
           Q == Positions(Tail(s), r)
<1>1. /\ Len(s) \in Nat /\ Len(s) > 0 /\ DOMAIN s = 1 .. Len(s) /\ Head(s) = s[1]
      /\ Tail(s) \in Seq(S) /\ DOMAIN Tail(s) = 1 .. Len(s) - 1
      /\ \A i \in 1 .. Len(s) - 1 : Tail(s)[i] = s[i + 1]
  BY HeadTailProperties, LenProperties, EmptySeq
<1>2. /\ IsFiniteSet(P) /\ Cardinality(P) \in Nat
      /\ IsFiniteSet(Q) /\ Cardinality(Q) \in Nat
  BY <1>1, CountNat
<1>3. IsFiniteSet(P \ {1})
  BY <1>2, FS_Subset
<1>4. Cardinality(Q) = Cardinality(P \ {1})
  <2> DEFINE Next1 == [i \in Q |-> i + 1]
  <2>1. \A i \in Q : i \in Int /\ i + 1 \in P \ {1}
    BY <1>1 DEF Positions
  <2>2. \A j \in P \ {1} : j \in Int /\ j - 1 \in Q
    BY <1>1 DEF Positions
  <2>3. Next1 \in [Q -> P \ {1}] /\ \A i, j \in Q : Next1[i] = Next1[j] => i = j
    BY <2>1
  <2>4. \A j \in P \ {1} : \E i \in Q : Next1[i] = j
    <3> SUFFICES ASSUME NEW j \in P \ {1} PROVE j - 1 \in Q /\ Next1[j - 1] = j
      OBVIOUS
    <3> QED
      BY <2>2
  <2>5. Next1 \in Bijection(Q, P \ {1})
    BY <2>3, <2>4, Fun_IsBij
  <2> QED
    BY <1>2, <1>3, <2>5, FS_Bijection DEF ExistsBijection
<1>5. CASE Head(s) = r
  <2>1. 1 \in P
    BY <1>1, <1>5 DEF Positions
  <2>2. Cardinality(P \ {1}) = Cardinality(P) - 1
    BY <1>2, <2>1, FS_RemoveElement
  <2> QED
    BY <1>2, <1>4, <1>5, <2>2 DEF CountIn, One
<1>6. CASE Head(s) # r
  <2>1. P \ {1} = P
    BY <1>1, <1>6 DEF Positions
  <2>2. Cardinality(P \ {1}) = Cardinality(P)
    BY <2>1
  <2> QED
    BY <1>2, <1>4, <1>6, <2>2 DEF CountIn, One
<1> QED
  BY <1>5, <1>6

LEMMA RunnersFinite ==
    ASSUME NEW r PROVE IsFiniteSet(Runners(r)) /\ Cardinality(Runners(r)) \in Nat
  BY WorkersFinite, FS_Subset, FS_CardinalityType DEF Runners

\* Held and Over, with their terms named.
Has(S, r) == IF r \in S THEN 1 ELSE 0
FilesHave(r) == IF AtFiles(r) THEN 1 ELSE 0
RunBy(r) == Cardinality(Runners(r))

LEMMA PlacesNat ==
    ASSUME TypeOK, NEW r
    PROVE  /\ Queued(r) \in Nat /\ (Queued(r) = 0 <=>
                  CountIn(loads, r) = 0 /\ CountIn(tasks, r) = 0 /\ CountIn(mainq, r) = 0)
           /\ Held(r) \in Nat /\ (Held(r) = 0 <=> ~AtFiles(r) /\ Runners(r) = {})
           /\ Over(r) \in Nat /\ (Over(r) = 0 <=> r \notin settled \cup dropped \cup strayed)
<1>1. CountIn(loads, r) \in Nat /\ CountIn(tasks, r) \in Nat /\ CountIn(mainq, r) \in Nat
  BY CountNat DEF TypeOK, Pool!TypeOK, Files!FileTypeOK
<1>2. Queued(r) \in Nat /\ (Queued(r) = 0 <=>
            CountIn(loads, r) = 0 /\ CountIn(tasks, r) = 0 /\ CountIn(mainq, r) = 0)
  BY <1>1 DEF Queued
<1>3. Held(r) = FilesHave(r) + RunBy(r)
  BY DEF Held, One, FilesHave, AtFiles, RunBy, Runners
<1>4. RunBy(r) \in Nat /\ (RunBy(r) = 0 <=> Runners(r) = {})
  BY RunnersFinite, FS_EmptySet DEF RunBy
<1>5. FilesHave(r) \in {0, 1} /\ (FilesHave(r) = 0 <=> ~AtFiles(r))
  BY DEF FilesHave
<1>6. Held(r) \in Nat /\ (Held(r) = 0 <=> ~AtFiles(r) /\ Runners(r) = {})
  BY <1>3, <1>4, <1>5
<1>7. Over(r) = Has(settled, r) + Has(dropped, r) + Has(strayed, r)
  BY DEF Over, One, Has
<1>8. Over(r) \in Nat /\ (Over(r) = 0 <=> r \notin settled \cup dropped \cup strayed)
  BY <1>7 DEF Has
<1> QED
  BY <1>2, <1>6, <1>8

LEMMA PlacesNatNext ==
    ASSUME TypeOK', NEW r
    PROVE  Queued(r)' \in Nat /\ Held(r)' \in Nat /\ Over(r)' \in Nat
<1>1. /\ loads' \in Seq(Requests \cup {Pill}) /\ tasks' \in Seq(ByWorker \cup {Pill})
      /\ mainq' \in Seq(Requests)
  BY DEF TypeOK, Pool!TypeOK, Files!FileTypeOK
<1>2. CountIn(loads', r) \in Nat /\ CountIn(tasks', r) \in Nat /\ CountIn(mainq', r) \in Nat
  BY <1>1, CountNat
<1>3. Queued(r)' \in Nat
  BY <1>2 DEF Queued
<1>4. Runners(r)' \subseteq Workers
  BY DEF Runners
<1>5. Cardinality(Runners(r)') \in Nat
  BY <1>4, WorkersFinite, FS_Subset, FS_CardinalityType
<1>6. /\ Held(r)' = FilesHave(r)' + RunBy(r)'
      /\ FilesHave(r)' \in {0, 1} /\ RunBy(r)' \in Nat
  BY <1>5 DEF Held, One, FilesHave, AtFiles, RunBy, Runners
<1>7. Held(r)' \in Nat
  BY <1>6
<1>8. Over(r)' \in Nat
  BY DEF Over, One
<1> QED
  BY <1>3, <1>7, <1>8

\* InOnePlace of one request: one that is on its way to an answer has been made
\* and is nowhere else; one that is over has been made; one that has not been
\* made is nowhere.
LEMMA OnItsWay ==
    ASSUME TypeOK, InOnePlace, NEW r \in Requests
    PROVE  /\ Queued(r) + Held(r) + Over(r) = IF r \in posted THEN 1 ELSE 0
           /\ CountIn(mainq, r) # 0 \/ AtFiles(r) \/ Runners(r) # {} =>
                  r \in posted /\ r \notin settled \cup dropped \cup strayed
           /\ r \in settled \cup dropped \cup strayed => r \in posted
           /\ r \notin posted => Queued(r) = 0 /\ Held(r) = 0 /\ Over(r) = 0
<1>1. Queued(r) + Held(r) + Over(r) = IF r \in posted THEN 1 ELSE 0
  BY DEF InOnePlace, One, Places
<1>2. Queued(r) \in Nat /\ Held(r) \in Nat /\ Over(r) \in Nat
  BY PlacesNat
<1>3. CountIn(mainq, r) # 0 \/ AtFiles(r) \/ Runners(r) # {} => Queued(r) # 0 \/ Held(r) # 0
  BY PlacesNat
<1>4. Queued(r) # 0 \/ Held(r) # 0 => r \in posted /\ Over(r) = 0
  BY <1>1, <1>2
<1>5. Over(r) # 0 => r \in posted
  BY <1>1, <1>2
<1>6. r \notin posted => Queued(r) = 0 /\ Held(r) = 0 /\ Over(r) = 0
  BY <1>1, <1>2
<1> QED
  BY <1>1, <1>3, <1>4, <1>5, <1>6, PlacesNat

-----------------------------------------------------------------------------
(* Types. *)

LEMMA PoolStep ==
    ASSUME Pool!TypeOK,
           \/ \E w \in Workers :
                  Pool!StartWorker(w) \/ Pool!TakeTask(w) \/ Pool!TakePill(w) \/ Pool!FinishTask(w)
           \/ \E t \in ByWorker : Pool!QueueTask(t)
           \/ Pool!ConstructorReturns \/ Pool!EnterDestructor \/ Pool!PushPill \/ Pool!JoinWorkers
           \/ UNCHANGED poolVars
    PROVE  Pool!TypeOK'
<1> USE DEF Pool!TypeOK
<1>1. ASSUME NEW w \in Workers, Pool!StartWorker(w) PROVE Pool!TypeOK'
  BY <1>1 DEF Pool!StartWorker
<1>2. ASSUME NEW w \in Workers, Pool!TakeTask(w) \/ Pool!TakePill(w) PROVE Pool!TypeOK'
  <2>1. /\ tasks # <<>> /\ tasks' = Tail(tasks)
        /\ op' = [op EXCEPT ![w] = Head(tasks)]
        /\ \/ Head(tasks) # Pill /\ wpc' = [wpc EXCEPT ![w] = "running"]
           \/ Head(tasks) = Pill /\ wpc' = [wpc EXCEPT ![w] = "exited"]
        /\ UNCHANGED <<core, pills, early, late, ran>>
    BY <1>2 DEF Pool!TakeTask, Pool!TakePill
  <2>2. Head(tasks) \in ByWorker \cup {Pill} /\ Tail(tasks) \in Seq(ByWorker \cup {Pill})
    BY <2>1, HeadTailProperties
  <2> QED
    BY <2>1, <2>2
<1>3. ASSUME NEW w \in Workers, Pool!FinishTask(w) PROVE Pool!TypeOK'
  BY <1>3 DEF Pool!FinishTask
<1>4. ASSUME NEW t \in ByWorker, Pool!QueueTask(t) PROVE Pool!TypeOK'
  <2>1. Append(tasks, t) \in Seq(ByWorker \cup {Pill})
    BY AppendProperties
  <2> QED
    BY <1>4, <2>1 DEF Pool!QueueTask
<1>5. CASE Pool!PushPill
  <2>1. Append(tasks, Pill) \in Seq(ByWorker \cup {Pill})
    BY AppendProperties
  <2> QED
    BY <1>5, <2>1 DEF Pool!PushPill
<1>6. CASE Pool!ConstructorReturns \/ Pool!EnterDestructor \/ Pool!JoinWorkers
  BY <1>6 DEF Pool!ConstructorReturns, Pool!EnterDestructor, Pool!JoinWorkers
<1>7. CASE UNCHANGED poolVars
  BY <1>7 DEF poolVars
<1> QED
  BY <1>1, <1>2, <1>3, <1>4, <1>5, <1>6, <1>7

LEMMA FileStep ==
    ASSUME Files!FileTypeOK,
           \/ \E r \in Requests : Files!Post(r)
           \/ Files!StartThread \/ Files!TakeRequest \/ Files!ReadReturns \/ Files!Emitted
           \/ Files!TakeStop \/ Files!PushStop \/ Files!JoinThread
           \/ UNCHANGED fileVars
    PROVE  Files!FileTypeOK'
<1> USE DEF Files!FileTypeOK
<1>1. ASSUME NEW r \in Requests, Files!Post(r) PROVE Files!FileTypeOK'
  <2>1. Append(loads, r) \in Seq(Requests \cup {Pill})
    BY AppendProperties
  <2> QED
    BY <1>1, <2>1 DEF Files!Post
<1>2. CASE Files!TakeRequest \/ Files!TakeStop
  <2>1. loads # <<>> => /\ Head(loads) \in Requests \cup {Pill}
                       /\ Tail(loads) \in Seq(Requests \cup {Pill})
    BY HeadTailProperties
  <2> QED
    BY <1>2, <2>1 DEF Files!TakeRequest, Files!TakeStop
<1>3. CASE Files!ReadReturns
  BY <1>3 DEF Files!ReadReturns
<1>4. CASE Files!PushStop
  <2>1. Append(loads, Pill) \in Seq(Requests \cup {Pill})
    BY AppendProperties
  <2> QED
    BY <1>4, <2>1 DEF Files!PushStop
<1>5. CASE Files!StartThread \/ Files!Emitted \/ Files!JoinThread
  BY <1>5 DEF Files!StartThread, Files!Emitted, Files!JoinThread
<1>6. CASE UNCHANGED fileVars
  BY <1>6 DEF fileVars
<1> QED
  BY <1>1, <1>2, <1>3, <1>4, <1>5, <1>6

LEMMA InitType == Init => TypeOK
  BY DEF Init, TypeOK, Pool!Init, Pool!TypeOK, Files!FileInit, Files!FileTypeOK

LEMMA StepType == TypeOK /\ [Next]_vars => TypeOK'
<1> SUFFICES ASSUME TypeOK, [Next]_vars PROVE TypeOK'
  OBVIOUS
<1> DEFINE OwnTypes ==
        /\ owner' \in {"constructing", "frame", "syncing", "noRuntime",
                       "stoppingFiles", "filesJoined", "down", "crashed"}
        /\ instance' \in BOOLEAN
        /\ mainq' \in Seq(Requests)
        /\ settled' \cup dropped' \cup strayed' \subseteq Requests
<1>0. ASSUME Pool!TypeOK', Files!FileTypeOK', OwnTypes PROVE TypeOK'
  BY <1>0 DEF TypeOK
<1>a. Pool!TypeOK /\ Files!FileTypeOK
  BY DEF TypeOK
<1>b. UNCHANGED ownVars => OwnTypes
  BY DEF TypeOK, ownVars
<1>c. ASSUME NEW r \in Requests, QueueOutcome(r)
      PROVE  mainq' \in Seq(Requests) /\ strayed' \subseteq Requests
  <2>1. mainq \in Seq(Requests) /\ strayed \subseteq Requests
    BY DEF TypeOK
  <2>2. Append(mainq, r) \in Seq(Requests)
    BY <2>1, AppendProperties
  <2> QED
    BY <1>c, <2>1, <2>2 DEF QueueOutcome
<1>1. CASE StartFiles
  BY <1>0, <1>1, <1>a, <1>b, PoolStep, FileStep DEF StartFiles
<1>2. CASE Constructed
  <2>1. OwnTypes
    BY <1>2 DEF Constructed, TypeOK
  <2> QED
    BY <1>0, <1>2, <1>a, <2>1, PoolStep, FileStep DEF Constructed
<1>3. ASSUME NEW r \in Requests, Request(r) PROVE TypeOK'
  BY <1>0, <1>3, <1>a, <1>b, PoolStep, FileStep DEF Request
<1>4. CASE Frame
  <2>1. UNCHANGED poolVars /\ UNCHANGED fileVars
    BY <1>4 DEF Frame, BeginSync, RunEvent, EndSync
  <2>2. mainq \in Seq(Requests) /\ (mainq # <<>> =>
            Tail(mainq) \in Seq(Requests) /\ Head(mainq) \in Requests)
    BY HeadTailProperties DEF TypeOK
  <2>3. OwnTypes
    BY <1>4, <2>2 DEF Frame, BeginSync, RunEvent, EndSync, TypeOK
  <2> QED
    BY <1>0, <1>a, <2>1, <2>3, PoolStep, FileStep
<1>5. CASE FilesStep
  BY <1>0, <1>5, <1>a, <1>b, PoolStep, FileStep DEF FilesStep
<1>6. CASE EmitToQueue
  <2>1. req \in Requests
    BY <1>6 DEF EmitToQueue, Requests
  <2>2. mainq' \in Seq(Requests) /\ strayed' \subseteq Requests
    BY <1>6, <1>c, <2>1 DEF EmitToQueue
  <2>3. OwnTypes
    BY <1>6, <2>2 DEF EmitToQueue, TypeOK
  <2> QED
    BY <1>0, <1>6, <1>a, <2>3, PoolStep, FileStep DEF EmitToQueue
<1>7. CASE EmitToWorker
  BY <1>0, <1>7, <1>a, <1>b, PoolStep, FileStep DEF EmitToWorker
<1>8. ASSUME NEW w \in Workers, StartWorker(w) PROVE TypeOK'
  BY <1>0, <1>8, <1>a, <1>b, PoolStep, FileStep DEF StartWorker
<1>9. ASSUME NEW w \in Workers, TakeFromPool(w) PROVE TypeOK'
  BY <1>0, <1>9, <1>a, <1>b, PoolStep, FileStep DEF TakeFromPool
<1>10. ASSUME NEW w \in Workers, FinishSound(w) PROVE TypeOK'
  <2>1. op[w] \in Requests
    BY <1>10, <1>a DEF FinishSound, Pool!FinishTask, Pool!TypeOK, Requests
  <2>2. mainq' \in Seq(Requests) /\ strayed' \subseteq Requests
    BY <1>10, <1>c, <2>1 DEF FinishSound
  <2>3. OwnTypes
    BY <1>10, <2>2 DEF FinishSound, TypeOK
  <2> QED
    BY <1>0, <1>10, <1>a, <2>3, PoolStep, FileStep DEF FinishSound
<1>11. CASE DestroyRuntime
  <2>1. {mainq[i] : i \in DOMAIN mainq} \subseteq Requests
    BY DEF TypeOK
  <2>2. OwnTypes
    BY <1>11, <2>1 DEF DestroyRuntime, TypeOK
  <2> QED
    BY <1>0, <1>11, <1>a, <2>2, PoolStep, FileStep DEF DestroyRuntime
<1>12. CASE StopWorkers
  BY <1>0, <1>12, <1>a, <1>b, PoolStep, FileStep DEF StopWorkers
<1>13. CASE StopFiles
  <2>1. OwnTypes
    BY <1>13 DEF StopFiles, TypeOK
  <2> QED
    BY <1>0, <1>13, <1>a, <2>1, PoolStep, FileStep DEF StopFiles
<1>14. CASE JoinFiles
  <2>1. OwnTypes
    BY <1>14 DEF JoinFiles, TypeOK
  <2> QED
    BY <1>0, <1>14, <1>a, <2>1, PoolStep, FileStep DEF JoinFiles
<1>15. CASE ClearInstance
  <2>1. OwnTypes
    BY <1>15 DEF ClearInstance, TypeOK
  <2> QED
    BY <1>0, <1>15, <1>a, <2>1, PoolStep, FileStep DEF ClearInstance
<1>16. CASE UNCHANGED vars
  <2>1. UNCHANGED poolVars /\ UNCHANGED fileVars /\ UNCHANGED ownVars
    BY <1>16 DEF vars
  <2> QED
    BY <1>0, <1>a, <1>b, <2>1, PoolStep, FileStep
<1>17. ASSUME NEW w \in Workers, CrashSound(w) PROVE TypeOK'
  <2>1. OwnTypes
    BY <1>17 DEF CrashSound, TypeOK
  <2> QED
    BY <1>0, <1>17, <1>a, <2>1, PoolStep, FileStep DEF CrashSound
<1> QED
  BY <1>1, <1>2, <1>3, <1>4, <1>5, <1>6, <1>7, <1>8, <1>9, <1>10, <1>11, <1>12, <1>13, <1>14,
     <1>15, <1>16, <1>17
  DEF Next, FilesThread, Destruction, Down, Spin

-----------------------------------------------------------------------------
(* How the counts change. *)

LEMMA QueuedMoves ==
    ASSUME TypeOK, NEW r
    PROVE  /\ UNCHANGED <<loads, tasks, mainq>> => Queued(r)' = Queued(r)
           /\ \A e \in Requests \cup {Pill} :
                  loads' = Append(loads, e) /\ UNCHANGED <<tasks, mainq>> =>
                      Queued(r)' = Queued(r) + One(e = r)
           /\ \A e \in ByWorker \cup {Pill} :
                  tasks' = Append(tasks, e) /\ UNCHANGED <<loads, mainq>> =>
                      Queued(r)' = Queued(r) + One(e = r)
           /\ \A e \in Requests :
                  mainq' = Append(mainq, e) /\ UNCHANGED <<loads, tasks>> =>
                      Queued(r)' = Queued(r) + One(e = r)
           /\ loads # <<>> /\ loads' = Tail(loads) /\ UNCHANGED <<tasks, mainq>> =>
                  Queued(r) = Queued(r)' + One(Head(loads) = r)
           /\ tasks # <<>> /\ tasks' = Tail(tasks) /\ UNCHANGED <<loads, mainq>> =>
                  Queued(r) = Queued(r)' + One(Head(tasks) = r)
           /\ mainq # <<>> /\ mainq' = Tail(mainq) /\ UNCHANGED <<loads, tasks>> =>
                  Queued(r) = Queued(r)' + One(Head(mainq) = r)
           /\ mainq' = <<>> /\ UNCHANGED <<loads, tasks>> =>
                  Queued(r) = Queued(r)' + CountIn(mainq, r)
<1>1. /\ loads \in Seq(Requests \cup {Pill}) /\ tasks \in Seq(ByWorker \cup {Pill})
      /\ mainq \in Seq(Requests)
  BY DEF TypeOK, Pool!TypeOK, Files!FileTypeOK
<1>2. CountIn(loads, r) \in Nat /\ CountIn(tasks, r) \in Nat /\ CountIn(mainq, r) \in Nat
  BY <1>1, CountNat
<1>3. \A b : One(b) \in Nat
  BY DEF One
<1>4. UNCHANGED <<loads, tasks, mainq>> => Queued(r)' = Queued(r)
  BY DEF Queued
<1>5. ASSUME NEW e \in Requests \cup {Pill}, loads' = Append(loads, e), UNCHANGED <<tasks, mainq>>
      PROVE  Queued(r)' = Queued(r) + One(e = r)
  <2>1. CountIn(loads', r) = CountIn(loads, r) + One(e = r)
    BY <1>1, <1>5, CountAppend
  <2> QED
    BY <1>2, <1>3, <1>5, <2>1 DEF Queued
<1>6. ASSUME NEW e \in ByWorker \cup {Pill}, tasks' = Append(tasks, e), UNCHANGED <<loads, mainq>>
      PROVE  Queued(r)' = Queued(r) + One(e = r)
  <2>1. CountIn(tasks', r) = CountIn(tasks, r) + One(e = r)
    BY <1>1, <1>6, CountAppend
  <2> QED
    BY <1>2, <1>3, <1>6, <2>1 DEF Queued
<1>7. ASSUME NEW e \in Requests, mainq' = Append(mainq, e), UNCHANGED <<loads, tasks>>
      PROVE  Queued(r)' = Queued(r) + One(e = r)
  <2>1. CountIn(mainq', r) = CountIn(mainq, r) + One(e = r)
    BY <1>1, <1>7, CountAppend
  <2> QED
    BY <1>2, <1>3, <1>7, <2>1 DEF Queued
<1>8. ASSUME loads # <<>>, loads' = Tail(loads), UNCHANGED <<tasks, mainq>>
      PROVE  Queued(r) = Queued(r)' + One(Head(loads) = r)
  <2>1. CountIn(loads, r) = CountIn(loads', r) + One(Head(loads) = r) /\ CountIn(loads', r) \in Nat
    BY <1>1, <1>8, CountTail, CountNat, HeadTailProperties
  <2> QED
    BY <1>2, <1>3, <1>8, <2>1 DEF Queued
<1>9. ASSUME tasks # <<>>, tasks' = Tail(tasks), UNCHANGED <<loads, mainq>>
      PROVE  Queued(r) = Queued(r)' + One(Head(tasks) = r)
  <2>1. CountIn(tasks, r) = CountIn(tasks', r) + One(Head(tasks) = r) /\ CountIn(tasks', r) \in Nat
    BY <1>1, <1>9, CountTail, CountNat, HeadTailProperties
  <2> QED
    BY <1>2, <1>3, <1>9, <2>1 DEF Queued
<1>10. ASSUME mainq # <<>>, mainq' = Tail(mainq), UNCHANGED <<loads, tasks>>
       PROVE  Queued(r) = Queued(r)' + One(Head(mainq) = r)
  <2>1. CountIn(mainq, r) = CountIn(mainq', r) + One(Head(mainq) = r) /\ CountIn(mainq', r) \in Nat
    BY <1>1, <1>10, CountTail, CountNat, HeadTailProperties
  <2> QED
    BY <1>2, <1>3, <1>10, <2>1 DEF Queued
<1>11. ASSUME mainq' = <<>>, UNCHANGED <<loads, tasks>>
       PROVE  Queued(r) = Queued(r)' + CountIn(mainq, r)
  <2>1. CountIn(mainq', r) = 0
    BY <1>11, CountEmpty
  <2> QED
    BY <1>2, <1>11, <2>1 DEF Queued
<1> QED
  BY <1>4, <1>5, <1>6, <1>7, <1>8, <1>9, <1>10, <1>11

LEMMA HeldMoves ==
    ASSUME NEW r
    PROVE  /\ Runners(r)' = Runners(r) =>
                  /\ (AtFiles(r)' <=> AtFiles(r)) => Held(r)' = Held(r)
                  /\ ~AtFiles(r) /\ AtFiles(r)' => Held(r)' = Held(r) + 1
                  /\ AtFiles(r) /\ ~AtFiles(r)' => Held(r) = Held(r)' + 1
           /\ (AtFiles(r)' <=> AtFiles(r)) =>
                  \A w \in Workers :
                      /\ w \notin Runners(r) /\ Runners(r)' = Runners(r) \cup {w} =>
                             Held(r)' = Held(r) + 1
                      /\ w \in Runners(r) /\ Runners(r)' = Runners(r) \ {w} =>
                             Held(r) = Held(r)' + 1
<1>1. Held(r) = FilesHave(r) + RunBy(r) /\ Held(r)' = FilesHave(r)' + RunBy(r)'
  BY DEF Held, One, FilesHave, AtFiles, RunBy, Runners
<1>2. FilesHave(r) \in Nat /\ FilesHave(r)' \in Nat
  BY DEF FilesHave
<1>3. RunBy(r) \in Nat
  BY RunnersFinite DEF RunBy
<1>4. Runners(r)' = Runners(r) => RunBy(r)' = RunBy(r)
  BY DEF RunBy
<1>5. /\ (AtFiles(r)' <=> AtFiles(r)) => FilesHave(r)' = FilesHave(r)
      /\ ~AtFiles(r) /\ AtFiles(r)' => FilesHave(r)' = FilesHave(r) + 1
      /\ AtFiles(r) /\ ~AtFiles(r)' => FilesHave(r) = FilesHave(r)' + 1
  BY DEF FilesHave
<1>6. ASSUME NEW w, w \notin Runners(r), Runners(r)' = Runners(r) \cup {w}
      PROVE  RunBy(r)' = RunBy(r) + 1
  BY <1>6, RunnersFinite, FS_AddElement DEF RunBy
<1>7. ASSUME NEW w, w \in Runners(r), Runners(r)' = Runners(r) \ {w}
      PROVE  RunBy(r) = RunBy(r)' + 1
  BY <1>7, RunnersFinite, FS_RemoveElement DEF RunBy
<1>8. Runners(r)' = Runners(r) =>
          /\ (AtFiles(r)' <=> AtFiles(r)) => Held(r)' = Held(r)
          /\ ~AtFiles(r) /\ AtFiles(r)' => Held(r)' = Held(r) + 1
          /\ AtFiles(r) /\ ~AtFiles(r)' => Held(r) = Held(r)' + 1
  BY <1>1, <1>2, <1>3, <1>4, <1>5
<1>9. ASSUME AtFiles(r)' <=> AtFiles(r), NEW w \in Workers,
             w \notin Runners(r), Runners(r)' = Runners(r) \cup {w}
      PROVE  Held(r)' = Held(r) + 1
  <2>1. RunBy(r)' = RunBy(r) + 1 /\ FilesHave(r)' = FilesHave(r)
    BY <1>5, <1>6, <1>9
  <2> QED
    BY <1>1, <1>2, <1>3, <2>1
<1>10. ASSUME AtFiles(r)' <=> AtFiles(r), NEW w \in Workers,
              w \in Runners(r), Runners(r)' = Runners(r) \ {w}
       PROVE  Held(r) = Held(r)' + 1
  <2>1. RunBy(r) = RunBy(r)' + 1 /\ FilesHave(r)' = FilesHave(r)
    BY <1>5, <1>7, <1>10
  <2>2. RunBy(r)' = RunBy(r) - 1 /\ RunBy(r)' \in Int
    BY <1>3, <1>7, <1>10, RunnersFinite, FS_RemoveElement DEF RunBy
  <2> QED
    BY <1>1, <1>2, <1>3, <2>1, <2>2
<1> QED
  BY <1>8, <1>9, <1>10

LEMMA OverMoves ==
    ASSUME NEW r
    PROVE  /\ UNCHANGED <<settled, dropped, strayed>> => Over(r)' = Over(r)
           /\ (r \notin settled \cup dropped \cup strayed) =>
                  /\ r \in settled' /\ UNCHANGED <<dropped, strayed>> => Over(r)' = 1
                  /\ r \in dropped' /\ UNCHANGED <<settled, strayed>> => Over(r)' = 1
                  /\ r \in strayed' /\ UNCHANGED <<settled, dropped>> => Over(r)' = 1
           /\ \A s :
                  /\ r # s /\ settled' = settled \cup {s} /\ UNCHANGED <<dropped, strayed>> =>
                         Over(r)' = Over(r)
                  /\ r # s /\ strayed' = strayed \cup {s} /\ UNCHANGED <<settled, dropped>> =>
                         Over(r)' = Over(r)
           /\ \A S : r \notin S /\ dropped' = dropped \cup S /\ UNCHANGED <<settled, strayed>> =>
                         Over(r)' = Over(r)
  BY DEF Over, One

-----------------------------------------------------------------------------
(* Where the owner is. *)

LEMMA InitPlaced == Init => OwnerAndCore /\ StopLast
  BY DEF Init, OwnerAndCore, StopLast, RuntimeAlive, Closing, Pool!Init, Files!FileInit

\* What runs on a worker has been requested.
LEMMA RunsWhatWasMade ==
    ASSUME TypeOK, InOnePlace, NEW w \in Workers, wpc[w] = "running"
    PROVE  op[w] \in posted
<1>1. op[w] \in Requests
  BY DEF TypeOK, Pool!TypeOK, Requests
<1>2. Runners(op[w]) # {}
  BY DEF Runners
<1> QED
  BY <1>1, <1>2, OnItsWay

LEMMA StepOwner ==
    TypeOK /\ InOnePlace /\ OwnerAndCore /\ [Next]_vars => OwnerAndCore'
<1> SUFFICES ASSUME TypeOK, InOnePlace, OwnerAndCore, [Next]_vars PROVE OwnerAndCore'
  OBVIOUS
<1> USE DEF OwnerAndCore, RuntimeAlive, Closing
<1>0. wpc \in [Workers -> {"unborn", "popping", "running", "exited"}]
  BY DEF TypeOK, Pool!TypeOK
\* Steps of other threads that leave posted alone.
<1>a. ASSUME UNCHANGED <<owner, core, instance, posted>>,
             core = "joined" => wpc' = wpc
      PROVE  OwnerAndCore'
  BY <1>a
<1>1. CASE StartFiles \/ FilesStep \/ EmitToQueue
  BY <1>1, <1>a DEF StartFiles, FilesStep, EmitToQueue, Files!StartThread, Files!TakeRequest,
                    Files!ReadReturns, Files!TakeStop, Files!Emitted, poolVars, ownVars
<1>2. CASE Constructed
  BY <1>2 DEF Constructed, Pool!ConstructorReturns
<1>3. ASSUME NEW r \in Requests, Request(r) PROVE OwnerAndCore'
  <2>1. owner # "constructing"
    BY <1>3, RunsWhatWasMade DEF Request
  <2> QED
    BY <1>3, <2>1 DEF Request, poolVars, ownVars
<1>4. CASE Frame
  BY <1>4 DEF Frame, BeginSync, RunEvent, EndSync, poolVars, fileVars
<1>5. CASE EmitToWorker
  BY <1>5, <1>a DEF EmitToWorker, Files!Emitted, Pool!QueueTask, ownVars
<1>6. ASSUME NEW w \in Workers, StartWorker(w) PROVE OwnerAndCore'
  BY <1>6, <1>a DEF StartWorker, Pool!StartWorker, fileVars, ownVars
<1>7. ASSUME NEW w \in Workers, TakeFromPool(w) PROVE OwnerAndCore'
  <2>1. core # "joined"
    BY <1>7 DEF TakeFromPool, Pool!TakeTask, Pool!TakePill
  <2> QED
    BY <1>7, <1>a, <2>1 DEF TakeFromPool, Pool!TakeTask, Pool!TakePill, fileVars, ownVars
<1>8. ASSUME NEW w \in Workers, FinishSound(w) PROVE OwnerAndCore'
  <2>1. core # "joined"
    BY <1>8 DEF FinishSound, Pool!FinishTask
  <2> QED
    BY <1>8, <1>a, <2>1 DEF FinishSound, Pool!FinishTask, fileVars
<1>9. CASE DestroyRuntime
  BY <1>9 DEF DestroyRuntime, poolVars, fileVars
<1>10. CASE StopWorkers
  BY <1>10 DEF StopWorkers, Pool!EnterDestructor, Pool!PushPill, Pool!JoinWorkers,
               fileVars, ownVars
<1>11. CASE StopFiles \/ JoinFiles \/ ClearInstance
  BY <1>11 DEF StopFiles, JoinFiles, ClearInstance, Files!PushStop, Files!JoinThread,
               poolVars, fileVars
<1>12. CASE UNCHANGED vars
  BY <1>12, <1>a DEF vars, poolVars, fileVars, ownVars
<1>13. ASSUME NEW w \in Workers, CrashSound(w) PROVE OwnerAndCore'
  <2>1. core # "joined"
    BY <1>13 DEF CrashSound
  <2> QED
    BY <1>13, <2>1 DEF CrashSound, poolVars, fileVars
<1> QED
  BY <1>1, <1>2, <1>3, <1>4, <1>5, <1>6, <1>7, <1>8, <1>9, <1>10, <1>11, <1>12, <1>13
  DEF Next, FilesThread, Destruction, Down, Spin

LEMMA StepLast ==
    TypeOK /\ OwnerAndCore /\ StopLast /\ [Next]_vars => StopLast'
<1> SUFFICES ASSUME TypeOK, OwnerAndCore, StopLast, [Next]_vars PROVE StopLast'
  OBVIOUS
<1>0. loads \in Seq(Requests \cup {Pill}) /\ Len(loads) \in Nat /\ DOMAIN loads = 1 .. Len(loads)
  BY LenProperties DEF TypeOK, Files!FileTypeOK
\* Steps that neither queue nor stop.
<1>a. ASSUME loads' = loads,
             fs' = fs \/ (fs \notin {"none", "exited"} /\ fs' # "exited") \/ owner = "constructing",
             fs' = "exited" => fs = "exited",
             owner' = owner \/ (owner \notin {"stoppingFiles", "filesJoined", "down"} /\
                               owner' \notin {"filesJoined", "down"})
      PROVE  StopLast'
  BY <1>a DEF StopLast
<1>1. CASE StartFiles
  BY <1>1, <1>a DEF StartFiles, Files!StartThread, ownVars
<1>2. CASE Constructed \/ Frame \/ DestroyRuntime
  BY <1>2, <1>a DEF Constructed, Frame, BeginSync, RunEvent, EndSync, DestroyRuntime, fileVars
<1>3. ASSUME NEW r \in Requests, Request(r) PROVE StopLast'
  <2>1. owner \notin Closing
    BY <1>3 DEF Request, RuntimeAlive, OwnerAndCore, Closing
  <2>2. loads' = Append(loads, r) /\ fs' = fs /\ owner' = owner
    BY <1>3 DEF Request, Files!Post, ownVars
  <2>3. /\ DOMAIN loads' = 1 .. Len(loads) + 1 /\ loads'[Len(loads) + 1] = r
        /\ \A i \in 1 .. Len(loads) : loads'[i] = loads[i]
    BY <1>0, <2>2, AppendProperties
  <2>4. \A i \in DOMAIN loads' : loads'[i] # Pill
    <3> SUFFICES ASSUME NEW i \in 1 .. Len(loads) + 1 PROVE loads'[i] # Pill
      BY <2>3
    <3>1. CASE i \in 1 .. Len(loads)
      BY <1>0, <2>1, <2>3, <3>1 DEF StopLast, Closing
    <3>2. CASE i = Len(loads) + 1
      BY <2>3, <3>2, PillIsNoRequest
    <3> QED
      BY <1>0, <3>1, <3>2
  <2> QED
    BY <2>1, <2>2, <2>4 DEF StopLast, Closing
<1>4. CASE Files!TakeRequest /\ UNCHANGED ownVars
  <2>1. /\ loads # <<>> /\ loads' = Tail(loads) /\ fs = "popping" /\ fs' = "reading"
        /\ owner' = owner
    BY <1>4 DEF Files!TakeRequest, ownVars
  <2>2. /\ Len(loads') = Len(loads) - 1 /\ DOMAIN loads' = 1 .. Len(loads) - 1
        /\ \A i \in 1 .. Len(loads) - 1 : loads'[i] = loads[i + 1] /\ i + 1 \in 1 .. Len(loads)
    BY <1>0, <2>1, HeadTailProperties
  <2>3. \A i \in DOMAIN loads' : loads'[i] = Pill => i = Len(loads') /\ owner' = "stoppingFiles"
    BY <1>0, <2>1, <2>2 DEF StopLast
  <2> QED
    BY <2>1, <2>3 DEF StopLast
<1>5. CASE Files!TakeStop /\ UNCHANGED ownVars
  <2>1. /\ loads # <<>> /\ Head(loads) = Pill /\ loads' = Tail(loads) /\ fs = "popping"
        /\ fs' = "exited" /\ owner' = owner
    BY <1>5 DEF Files!TakeStop, ownVars
  <2>2. 1 \in DOMAIN loads /\ loads[1] = Pill
    BY <1>0, <2>1
  <2>3. Len(loads) = 1 /\ owner = "stoppingFiles"
    BY <2>2 DEF StopLast
  <2>4. loads' = <<>>
    BY <1>0, <2>1, <2>3, HeadTailProperties, EmptySeq
  <2>5. DOMAIN <<>> = {}
    OBVIOUS
  <2> QED
    BY <2>1, <2>3, <2>4, <2>5 DEF StopLast
<1>6. CASE Files!ReadReturns /\ UNCHANGED ownVars
  BY <1>6, <1>a DEF Files!ReadReturns, ownVars
<1>7. CASE EmitToQueue
  BY <1>7, <1>a DEF EmitToQueue, Files!Emitted
<1>8. CASE EmitToWorker
  BY <1>8, <1>a DEF EmitToWorker, Files!Emitted, ownVars
<1>9. ASSUME NEW w \in Workers, StartWorker(w) \/ TakeFromPool(w) \/ FinishSound(w)
      PROVE  StopLast'
  BY <1>9, <1>a DEF StartWorker, TakeFromPool, FinishSound, fileVars, ownVars
<1>10. CASE StopWorkers
  BY <1>10, <1>a DEF StopWorkers, fileVars, ownVars
<1>11. CASE StopFiles
  <2>1. loads' = Append(loads, Pill) /\ fs' = fs /\ owner = "noRuntime" /\ owner' = "stoppingFiles"
    BY <1>11 DEF StopFiles, Files!PushStop
  <2>2. /\ DOMAIN loads' = 1 .. Len(loads) + 1 /\ Len(loads') = Len(loads) + 1
        /\ \A i \in 1 .. Len(loads) : loads'[i] = loads[i]
    BY <1>0, <2>1, AppendProperties
  <2>3. \A i \in DOMAIN loads' : loads'[i] = Pill => i = Len(loads')
    <3> SUFFICES ASSUME NEW i \in 1 .. Len(loads) + 1, loads'[i] = Pill PROVE i = Len(loads) + 1
      BY <2>2
    <3>1. i \notin 1 .. Len(loads)
      BY <1>0, <2>1, <2>2 DEF StopLast
    <3> QED
      BY <1>0, <3>1
  <2> QED
    BY <2>1, <2>3 DEF StopLast
<1>12. CASE JoinFiles
  <2>1. loads' = loads /\ fs = "exited" /\ fs' = "none" /\ owner' = "filesJoined"
    BY <1>12 DEF JoinFiles, Files!JoinThread
  <2> QED
    BY <2>1 DEF StopLast
<1>13. CASE ClearInstance
  BY <1>13 DEF ClearInstance, fileVars, StopLast
<1>14. CASE UNCHANGED vars
  BY <1>14, <1>a DEF vars, fileVars, ownVars
<1>15. ASSUME NEW w \in Workers, CrashSound(w) PROVE StopLast'
  <2>1. owner \notin Closing
    BY <1>15 DEF CrashSound, OwnerAndCore
  <2> QED
    BY <1>15, <1>a, <2>1 DEF CrashSound, fileVars, Closing
<1> QED
  BY <1>1, <1>2, <1>3, <1>4, <1>5, <1>6, <1>7, <1>8, <1>9, <1>10, <1>11, <1>12, <1>13, <1>14,
     <1>15
  DEF Next, FilesThread, FilesStep, Destruction, Down, Spin

-----------------------------------------------------------------------------
(* Every step moves one request from one place to another. *)

LEMMA InitPlaces == Init => InOnePlace
<1> SUFFICES ASSUME Init, NEW r \in Requests PROVE Places(r) = One(r \in posted)
  BY DEF InOnePlace
<1>1. /\ loads = <<>> /\ tasks = <<>> /\ mainq = <<>> /\ fs = "none" /\ posted = {}
      /\ settled = {} /\ dropped = {} /\ strayed = {}
      /\ \A w \in Workers : wpc[w] = "unborn"
  BY DEF Init, Pool!Init, Files!FileInit
<1>2. TypeOK
  BY InitType
<1>3. Queued(r) = 0
  BY <1>1, CountEmpty DEF Queued
<1>4. Held(r) = 0
  <2>1. ~AtFiles(r) /\ Runners(r) = {}
    BY <1>1 DEF AtFiles, Runners
  <2> QED
    BY <1>2, <2>1, PlacesNat
<1>5. Over(r) = 0 /\ One(r \in posted) = 0
  BY <1>1 DEF Over, One
<1> QED
  BY <1>3, <1>4, <1>5 DEF Places

LEMMA StepPlaces == TypeOK /\ InOnePlace /\ [Next]_vars => InOnePlace'
<1> SUFFICES ASSUME TypeOK, InOnePlace, [Next]_vars, NEW r \in Requests
             PROVE  Queued(r)' + Held(r)' + Over(r)' = IF r \in posted' THEN 1 ELSE 0
  BY DEF InOnePlace, Places, One
<1> DEFINE Good == Queued(r)' + Held(r)' + Over(r)' = IF r \in posted' THEN 1 ELSE 0
<1>0. /\ Queued(r) \in Nat /\ Held(r) \in Nat /\ Over(r) \in Nat
      /\ Queued(r) + Held(r) + Over(r) = IF r \in posted THEN 1 ELSE 0
      /\ r \notin posted => Queued(r) = 0 /\ Held(r) = 0 /\ Over(r) = 0
      /\ Over(r) = 0 <=> r \notin settled \cup dropped \cup strayed
  BY PlacesNat, OnItsWay
<1>t. /\ Queued(r)' \in Nat /\ Held(r)' \in Nat /\ Over(r)' \in Nat
  <2>1. TypeOK'
    BY StepType
  <2> QED
    BY <2>1, PlacesNatNext
<1>w. wpc \in [Workers -> {"unborn", "popping", "running", "exited"}]
      /\ op \in [Workers -> ByWorker \cup {Pill}] /\ r # Pill
  BY PillIsNoRequest DEF TypeOK, Pool!TypeOK
\* Nothing moves.
<1>a. ASSUME Queued(r)' = Queued(r), Held(r)' = Held(r), Over(r)' = Over(r), posted' = posted
      PROVE  Good
  BY <1>0, <1>a
\* Where the pieces of the state are untouched.
<1>q. UNCHANGED <<loads, tasks, mainq>> => Queued(r)' = Queued(r)
  BY QueuedMoves
<1>r. UNCHANGED <<wpc, op>> => Runners(r)' = Runners(r)
  BY DEF Runners
<1>f. UNCHANGED <<fs, req>> => (AtFiles(r)' <=> AtFiles(r))
  BY DEF AtFiles
<1>h. UNCHANGED <<wpc, op, fs, req>> => Held(r)' = Held(r)
  BY <1>r, <1>f, HeldMoves
<1>o. UNCHANGED <<settled, dropped, strayed>> => Over(r)' = Over(r)
  BY OverMoves
<1>1. CASE StartFiles
  <2>1. AtFiles(r)' <=> AtFiles(r)
    BY <1>1 DEF StartFiles, Files!StartThread, AtFiles
  <2> QED
    BY <1>1, <1>a, <1>q, <1>r, <1>o, <2>1, HeldMoves
    DEF StartFiles, Files!StartThread, poolVars, ownVars
<1>2. CASE Constructed \/ BeginSync \/ EndSync \/ ClearInstance
  BY <1>2, <1>a, <1>q, <1>h, <1>o
  DEF Constructed, BeginSync, EndSync, ClearInstance, Pool!ConstructorReturns, poolVars, fileVars
<1>3. ASSUME NEW q \in Requests, Request(q) PROVE Good
  <2>1. /\ q \notin posted /\ posted' = posted \cup {q} /\ loads' = Append(loads, q)
        /\ UNCHANGED <<fs, req, tasks, wpc, op, mainq, settled, dropped, strayed>>
    BY <1>3 DEF Request, Files!Post, poolVars, ownVars
  <2>2. Queued(r)' = Queued(r) + One(q = r) /\ Held(r)' = Held(r) /\ Over(r)' = Over(r)
    BY <1>h, <1>o, <2>1, QueuedMoves
  <2>3. CASE q = r
    <3>1. One(q = r) = 1
      BY <2>3 DEF One
    <3> QED
      BY <1>0, <2>1, <2>2, <2>3, <3>1
  <2>4. CASE q # r
    <3>1. One(q = r) = 0
      BY <2>4 DEF One
    <3> QED
      BY <1>0, <2>1, <2>2, <2>4, <3>1
  <2> QED
    BY <2>3, <2>4
<1>4. CASE RunEvent
  <2>1. /\ mainq # <<>> /\ mainq' = Tail(mainq) /\ settled' = settled \cup {Head(mainq)}
        /\ UNCHANGED <<loads, tasks, fs, req, wpc, op, dropped, strayed, posted>>
    BY <1>4 DEF RunEvent, poolVars, fileVars
  <2>2. Queued(r) = Queued(r)' + One(Head(mainq) = r) /\ Held(r)' = Held(r)
    BY <1>h, <2>1, QueuedMoves
  <2>3. CASE Head(mainq) = r
    <3>1. One(Head(mainq) = r) = 1
      BY <2>3 DEF One
    <3>2. Queued(r) = 1 /\ Held(r) = 0 /\ Over(r) = 0 /\ r \in posted
      BY <1>0, <1>t, <2>2, <3>1
    <3>3. Over(r)' = 1
      BY <1>0, <2>1, <2>3, <3>2, OverMoves
    <3> QED
      BY <1>t, <2>1, <2>2, <3>1, <3>2, <3>3
  <2>4. CASE Head(mainq) # r
    <3>1. One(Head(mainq) = r) = 0
      BY <2>4 DEF One
    <3>2. Over(r)' = Over(r)
      BY <2>1, <2>4, OverMoves
    <3> QED
      BY <1>a, <1>t, <2>1, <2>2, <3>1, <3>2
  <2> QED
    BY <2>3, <2>4
<1>5. CASE Files!TakeRequest /\ UNCHANGED <<poolVars, ownVars>>
  <2>1. /\ loads # <<>> /\ loads' = Tail(loads) /\ req' = Head(loads)
        /\ fs = "popping" /\ fs' = "reading"
        /\ UNCHANGED <<tasks, mainq, wpc, op, settled, dropped, strayed, posted>>
    BY <1>5 DEF Files!TakeRequest, poolVars, ownVars
  <2>2. Queued(r) = Queued(r)' + One(Head(loads) = r) /\ Over(r)' = Over(r)
    BY <1>o, <2>1, QueuedMoves
  <2>3. ~AtFiles(r) /\ (AtFiles(r)' <=> Head(loads) = r)
    BY <2>1 DEF AtFiles
  <2>4. CASE Head(loads) = r
    <3>1. One(Head(loads) = r) = 1
      BY <2>4 DEF One
    <3>2. Held(r)' = Held(r) + 1
      BY <1>r, <2>1, <2>3, <2>4, HeldMoves
    <3> QED
      BY <1>0, <1>t, <2>1, <2>2, <3>1, <3>2
  <2>5. CASE Head(loads) # r
    <3>1. One(Head(loads) = r) = 0
      BY <2>5 DEF One
    <3>2. Held(r)' = Held(r)
      BY <1>r, <2>1, <2>3, <2>5, HeldMoves
    <3> QED
      BY <1>a, <1>t, <2>1, <2>2, <3>1, <3>2
  <2> QED
    BY <2>4, <2>5
<1>6. CASE Files!TakeStop /\ UNCHANGED <<poolVars, ownVars>>
  <2>1. /\ loads # <<>> /\ Head(loads) = Pill /\ loads' = Tail(loads)
        /\ fs = "popping" /\ fs' = "exited"
        /\ UNCHANGED <<tasks, mainq, wpc, op, settled, dropped, strayed, posted>>
    BY <1>6 DEF Files!TakeStop, poolVars, ownVars
  <2>2. One(Head(loads) = r) = 0
    BY <1>w, <2>1 DEF One
  <2>3. Queued(r)' = Queued(r)
    <3>1. Queued(r) = Queued(r)' + One(Head(loads) = r)
      BY <2>1, QueuedMoves
    <3> QED
      BY <1>t, <2>2, <3>1
  <2>4. AtFiles(r)' <=> AtFiles(r)
    BY <2>1 DEF AtFiles
  <2> QED
    BY <1>a, <1>r, <1>o, <2>1, <2>3, <2>4, HeldMoves
<1>7. CASE Files!ReadReturns /\ UNCHANGED <<poolVars, ownVars>>
  <2>1. AtFiles(r)' <=> AtFiles(r)
    BY <1>7 DEF Files!ReadReturns, AtFiles
  <2> QED
    BY <1>7, <1>a, <1>q, <1>r, <1>o, <2>1, HeldMoves DEF Files!ReadReturns, poolVars, ownVars
\* An outcome that is queued on the main queue or strays.
<1>b. ASSUME NEW q \in Requests, QueueOutcome(q), UNCHANGED <<loads, tasks, settled, dropped, posted>>,
             q = r => Held(r) = Held(r)' + 1,
             q # r => Held(r)' = Held(r)
      PROVE  Good
  <2>1. CASE q # r /\ mainq' = Append(mainq, q) /\ UNCHANGED strayed
    <3>1. Queued(r)' = Queued(r) + One(q = r) /\ One(q = r) = 0
      BY <1>b, <2>1, QueuedMoves DEF One
    <3> QED
      BY <1>0, <1>a, <1>b, <1>o, <2>1, <3>1
  <2>2. CASE q # r /\ UNCHANGED mainq /\ strayed' = strayed \cup {q}
    <3>1. Over(r)' = Over(r)
      BY <1>b, <2>2, OverMoves
    <3> QED
      BY <1>a, <1>b, <1>q, <2>2, <3>1
  <2>3. CASE q = r /\ mainq' = Append(mainq, q) /\ UNCHANGED strayed
    <3>1. Queued(r)' = Queued(r) + One(q = r) /\ One(q = r) = 1
      BY <1>b, <2>3, QueuedMoves DEF One
    <3>2. Over(r)' = Over(r)
      BY <1>b, <1>o, <2>3
    <3> QED
      BY <1>0, <1>t, <1>b, <2>3, <3>1, <3>2
  <2>4. CASE q = r /\ UNCHANGED mainq /\ strayed' = strayed \cup {q}
    <3>1. Queued(r)' = Queued(r)
      BY <1>b, <1>q, <2>4
    <3>2. Held(r) = 1 /\ Queued(r) = 0 /\ Over(r) = 0 /\ r \in posted
      BY <1>0, <1>t, <1>b, <2>4
    <3>3. Over(r)' = 1
      BY <1>0, <1>b, <2>4, <3>2, OverMoves
    <3> QED
      BY <1>t, <1>b, <2>4, <3>1, <3>2, <3>3
  <2> QED
    BY <1>b, <2>1, <2>2, <2>3, <2>4 DEF QueueOutcome
<1>8. CASE EmitToQueue
  <2>1. /\ QueueOutcome(req) /\ fs = "emitting" /\ fs' = "popping" /\ req \in Requests
        /\ UNCHANGED <<loads, tasks, wpc, op, settled, dropped, posted>>
    BY <1>8 DEF EmitToQueue, Files!Emitted, poolVars, Requests
  <2>2. ~AtFiles(r)' /\ (AtFiles(r) <=> req = r)
    BY <2>1 DEF AtFiles
  <2>3. req = r => Held(r) = Held(r)' + 1
    BY <1>r, <2>1, <2>2, HeldMoves
  <2>4. req # r => Held(r)' = Held(r)
    BY <1>r, <2>1, <2>2, HeldMoves
  <2> QED
    BY <1>b, <2>1, <2>3, <2>4
<1>9. CASE EmitToWorker
  <2>1. /\ req \in ByWorker /\ tasks' = Append(tasks, req) /\ fs = "emitting" /\ fs' = "popping"
        /\ UNCHANGED <<loads, mainq, wpc, op, settled, dropped, strayed, posted>>
    BY <1>9 DEF EmitToWorker, Files!Emitted, Pool!QueueTask, ownVars
  <2>2. ~AtFiles(r)' /\ (AtFiles(r) <=> req = r)
    BY <2>1 DEF AtFiles
  <2>3. Queued(r)' = Queued(r) + One(req = r) /\ Over(r)' = Over(r)
    BY <1>o, <2>1, QueuedMoves
  <2>4. CASE req = r
    <3>1. One(req = r) = 1
      BY <2>4 DEF One
    <3>2. Held(r) = Held(r)' + 1
      BY <1>r, <2>1, <2>2, <2>4, HeldMoves
    <3> QED
      BY <1>0, <1>t, <2>1, <2>3, <3>1, <3>2
  <2>5. CASE req # r
    <3>1. One(req = r) = 0
      BY <2>5 DEF One
    <3>2. Held(r)' = Held(r)
      BY <1>r, <2>1, <2>2, <2>5, HeldMoves
    <3> QED
      BY <1>0, <1>a, <2>1, <2>3, <3>1, <3>2
  <2> QED
    BY <2>4, <2>5
<1>10. ASSUME NEW w \in Workers, StartWorker(w) PROVE Good
  <2>1. Runners(r)' = Runners(r)
    BY <1>10, <1>w DEF StartWorker, Pool!StartWorker, Runners
  <2> QED
    BY <1>10, <1>a, <1>q, <1>f, <1>o, <2>1, HeldMoves
    DEF StartWorker, Pool!StartWorker, fileVars, ownVars
<1>11. ASSUME NEW w \in Workers, Pool!TakeTask(w), UNCHANGED <<fileVars, ownVars>> PROVE Good
  <2>1. /\ tasks # <<>> /\ tasks' = Tail(tasks) /\ wpc[w] = "popping"
        /\ wpc' = [wpc EXCEPT ![w] = "running"] /\ op' = [op EXCEPT ![w] = Head(tasks)]
        /\ UNCHANGED <<loads, mainq, fs, req, settled, dropped, strayed, posted>>
    BY <1>11 DEF Pool!TakeTask, fileVars, ownVars
  <2>2. Queued(r) = Queued(r)' + One(Head(tasks) = r) /\ Over(r)' = Over(r)
    BY <1>o, <2>1, QueuedMoves
  <2>3. CASE Head(tasks) = r
    <3>1. One(Head(tasks) = r) = 1
      BY <2>3 DEF One
    <3>2. w \notin Runners(r) /\ Runners(r)' = Runners(r) \cup {w}
      BY <1>w, <2>1, <2>3 DEF Runners
    <3>3. Held(r)' = Held(r) + 1
      BY <1>f, <2>1, <3>2, HeldMoves
    <3> QED
      BY <1>0, <1>t, <2>1, <2>2, <3>1, <3>3
  <2>4. CASE Head(tasks) # r
    <3>1. One(Head(tasks) = r) = 0
      BY <2>4 DEF One
    <3>2. Runners(r)' = Runners(r)
      BY <1>w, <2>1, <2>4 DEF Runners
    <3>3. Held(r)' = Held(r)
      BY <1>f, <2>1, <3>2, HeldMoves
    <3> QED
      BY <1>a, <1>t, <2>1, <2>2, <3>1, <3>3
  <2> QED
    BY <2>3, <2>4
<1>12. ASSUME NEW w \in Workers, Pool!TakePill(w), UNCHANGED <<fileVars, ownVars>> PROVE Good
  <2>1. /\ tasks # <<>> /\ Head(tasks) = Pill /\ tasks' = Tail(tasks) /\ wpc[w] = "popping"
        /\ wpc' = [wpc EXCEPT ![w] = "exited"] /\ op' = [op EXCEPT ![w] = Pill]
        /\ UNCHANGED <<loads, mainq, fs, req, settled, dropped, strayed, posted>>
    BY <1>12 DEF Pool!TakePill, fileVars, ownVars
  <2>2. One(Head(tasks) = r) = 0
    BY <1>w, <2>1 DEF One
  <2>3. Queued(r)' = Queued(r)
    <3>1. Queued(r) = Queued(r)' + One(Head(tasks) = r)
      BY <2>1, QueuedMoves
    <3> QED
      BY <1>t, <2>2, <3>1
  <2>4. Runners(r)' = Runners(r)
    BY <1>w, <2>1 DEF Runners
  <2> QED
    BY <1>a, <1>f, <1>o, <2>1, <2>3, <2>4, HeldMoves
<1>13. ASSUME NEW w \in Workers, FinishSound(w) PROVE Good
  <2>1. /\ QueueOutcome(op[w]) /\ wpc[w] = "running" /\ wpc' = [wpc EXCEPT ![w] = "popping"]
        /\ UNCHANGED <<op, loads, tasks, fs, req, settled, dropped, posted>>
    BY <1>13 DEF FinishSound, Pool!FinishTask, fileVars
  <2>2. op[w] \in Requests
    BY <2>1 DEF TypeOK, Pool!TypeOK, Requests
  <2>3. op[w] = r => w \in Runners(r) /\ Runners(r)' = Runners(r) \ {w}
    BY <1>w, <2>1 DEF Runners
  <2>4. op[w] # r => Runners(r)' = Runners(r)
    BY <1>w, <2>1 DEF Runners
  <2>5. op[w] = r => Held(r) = Held(r)' + 1
    BY <1>f, <2>1, <2>3, HeldMoves
  <2>6. op[w] # r => Held(r)' = Held(r)
    BY <1>f, <2>1, <2>4, HeldMoves
  <2> QED
    BY <1>b, <2>1, <2>2, <2>5, <2>6
<1>14. CASE DestroyRuntime
  <2>1. /\ mainq' = <<>> /\ dropped' = dropped \cup {mainq[i] : i \in DOMAIN mainq}
        /\ UNCHANGED <<loads, tasks, fs, req, wpc, op, settled, strayed, posted>>
    BY <1>14 DEF DestroyRuntime, poolVars, fileVars
  <2>2. /\ mainq \in Seq(Requests) /\ CountIn(mainq, r) \in Nat
        /\ CountIn(mainq, r) = 0 <=> r \notin {mainq[i] : i \in DOMAIN mainq}
    BY CountNat DEF TypeOK
  <2>3. Queued(r) = Queued(r)' + CountIn(mainq, r) /\ Held(r)' = Held(r)
    BY <1>h, <2>1, QueuedMoves
  <2>4. CASE CountIn(mainq, r) = 0
    <3>1. Over(r)' = Over(r)
      BY <2>1, <2>2, <2>4, OverMoves
    <3> QED
      BY <1>a, <1>t, <2>1, <2>3, <2>4, <3>1
  <2>5. CASE CountIn(mainq, r) # 0
    <3>1. /\ Queued(r)' = 0 /\ Held(r) = 0 /\ Over(r) = 0 /\ r \in posted
      BY <1>0, <1>t, <2>2, <2>3, <2>5
    <3>2. r \in dropped' /\ r \notin settled \cup dropped \cup strayed
      BY <1>0, <2>1, <2>2, <2>5, <3>1
    <3>3. Over(r)' = 1
      BY <2>1, <3>2, OverMoves
    <3> QED
      BY <2>1, <2>3, <3>1, <3>3
  <2> QED
    BY <2>4, <2>5
<1>15. CASE (Pool!EnterDestructor \/ Pool!JoinWorkers) /\ UNCHANGED <<fileVars, ownVars>>
  BY <1>15, <1>a, <1>q, <1>h, <1>o DEF Pool!EnterDestructor, Pool!JoinWorkers, fileVars, ownVars
<1>16. CASE Pool!PushPill /\ UNCHANGED <<fileVars, ownVars>>
  <2>1. /\ tasks' = Append(tasks, Pill)
        /\ UNCHANGED <<loads, mainq, fs, req, wpc, op, settled, dropped, strayed, posted>>
    BY <1>16 DEF Pool!PushPill, fileVars, ownVars
  <2>2. Queued(r)' = Queued(r) + One(Pill = r) /\ One(Pill = r) = 0
    BY <1>w, <2>1, QueuedMoves DEF One
  <2> QED
    BY <1>0, <1>a, <1>h, <1>o, <2>1, <2>2
<1>17. CASE StopFiles
  <2>1. /\ loads' = Append(loads, Pill)
        /\ UNCHANGED <<tasks, mainq, fs, req, wpc, op, settled, dropped, strayed, posted>>
    BY <1>17 DEF StopFiles, Files!PushStop, poolVars
  <2>2. Queued(r)' = Queued(r) + One(Pill = r) /\ One(Pill = r) = 0
    BY <1>w, <2>1, QueuedMoves DEF One
  <2> QED
    BY <1>0, <1>a, <1>h, <1>o, <2>1, <2>2
<1>18. CASE JoinFiles
  <2>1. AtFiles(r)' <=> AtFiles(r)
    BY <1>18 DEF JoinFiles, Files!JoinThread, AtFiles
  <2> QED
    BY <1>18, <1>a, <1>q, <1>r, <1>o, <2>1, HeldMoves DEF JoinFiles, Files!JoinThread, poolVars
<1>19. CASE UNCHANGED vars
  BY <1>19, <1>a, <1>q, <1>h, <1>o DEF vars, poolVars, fileVars, ownVars
<1>20. ASSUME NEW w \in Workers, CrashSound(w) PROVE Good
  BY <1>20, <1>a, <1>q, <1>h, <1>o DEF CrashSound, poolVars, fileVars
<1> QED
  BY <1>1, <1>2, <1>3, <1>4, <1>5, <1>6, <1>7, <1>8, <1>9, <1>10, <1>11, <1>12, <1>13, <1>14,
     <1>15, <1>16, <1>17, <1>18, <1>19, <1>20
  DEF Next, Frame, FilesThread, FilesStep, TakeFromPool, Destruction, StopWorkers, Down, Spin

-----------------------------------------------------------------------------
(***************************************************************************)
(* The invariant of the engine: types, where the owner is and what is left *)
(* of the Core there, the pill behind every request, and one place for     *)
(* each request.                                                           *)
(***************************************************************************)
THEOREM EngineInvariant == Spec => []EngInv
<1>1. Init => EngInv
  BY InitType, InitPlaced, InitPlaces DEF EngInv
<1>2. EngInv /\ [Next]_vars => EngInv'
  BY StepType, StepOwner, StepLast, StepPlaces DEF EngInv
<1> QED
  BY <1>1, <1>2, PTL DEF Spec, Safety

(***************************************************************************)
(* A request is in exactly one place, for any number of workers and of     *)
(* requests of either kind: three queues and as many kinds of threads hand *)
(* it on, and none of them doubles or loses it.                            *)
(***************************************************************************)
THEOREM NeverTwice == Spec => []InOnePlace
<1>1. EngInv => InOnePlace
  BY DEF EngInv
<1> QED
  BY EngineInvariant, <1>1, PTL

(***************************************************************************)
(* The filesystem thread finds Core::instance, right through the shutdown. *)
(***************************************************************************)
THEOREM InstanceIsThere == Spec => []InstanceWhenUsed
<1>1. EngInv => InstanceWhenUsed
  BY DEF EngInv, StopLast, OwnerAndCore, InstanceWhenUsed
<1> QED
  BY EngineInvariant, <1>1, PTL

(***************************************************************************)
(* ~Core leaves no thread and no queued read behind, whatever was in       *)
(* flight when it began.                                                   *)
(***************************************************************************)
THEOREM QuietAfterwards == Spec => []QuietWhenDown
<1>1. EngInv => QuietWhenDown
  BY DEF EngInv, StopLast, OwnerAndCore, Closing, QuietWhenDown
<1> QED
  BY EngineInvariant, <1>1, PTL

-----------------------------------------------------------------------------
(* The engine implements AsyncLoads, its liveness excepted. *)

Unanswered == posted \ (settled \cup dropped \cup strayed)
Open == owner \in {"constructing", "frame", "syncing"}

\* Steps of the engine that the requester does not see.
LEMMA Unseen ==
    ASSUME UNCHANGED <<posted, settled, dropped, strayed>>, Open' <=> Open,
           Hung' = Hung \/ UNCHANGED <<wpc, op, result>>
    PROVE  UNCHANGED Loads!asyncVars
  BY DEF Loads!asyncVars, Open, Hung

\* A request that the filesystem thread or a queue has hangs nowhere.
LEMMA NotHung ==
    ASSUME EngInv, NEW q \in Requests, AtFiles(q) \/ Queued(q) # 0
    PROVE  Runners(q) = {} /\ q \notin Hung
<1>1. Queued(q) + Held(q) + Over(q) \in {0, 1}
  BY OnItsWay DEF EngInv
<1>2. /\ Queued(q) \in Nat /\ Held(q) \in Nat /\ Over(q) \in Nat
      /\ Held(q) = 0 => Runners(q) = {}
  BY PlacesNat DEF EngInv
<1>3. /\ Held(q) = FilesHave(q) + RunBy(q)
      /\ FilesHave(q) \in Nat /\ (AtFiles(q) => FilesHave(q) = 1)
  BY DEF Held, One, FilesHave, AtFiles, RunBy, Runners
<1>4. RunBy(q) \in Nat /\ (RunBy(q) = 0 => Runners(q) = {})
  BY RunnersFinite, FS_EmptySet DEF RunBy
<1>5. Runners(q) = {}
  BY <1>1, <1>2, <1>3, <1>4
<1> QED
  BY <1>5 DEF Hung, Runners

\* Nor is it over.
LEMMA QueuedIsPending ==
    ASSUME EngInv, NEW q \in Requests, CountIn(tasks, q) # 0 \/ CountIn(mainq, q) # 0
    PROVE  q \in Unanswered \ Hung
<1>1. Queued(q) # 0
  BY PlacesNat DEF EngInv
<1>2. /\ Queued(q) + Held(q) + Over(q) = IF q \in posted THEN 1 ELSE 0
      /\ Queued(q) \in Nat /\ Held(q) \in Nat /\ Over(q) \in Nat
      /\ Over(q) = 0 => q \notin settled \cup dropped \cup strayed
  BY OnItsWay, PlacesNat DEF EngInv
<1>3. q \in posted /\ Over(q) = 0
  BY <1>1, <1>2
<1> QED
  BY <1>1, <1>2, <1>3, NotHung DEF Unanswered

\* One worker enters, or leaves, something that it does not hang in.
LEMMA OthersHang ==
    ASSUME NEW w \in Workers, UNCHANGED result,
           \A v \in Workers \ {w} : wpc'[v] = wpc[v] /\ op'[v] = op[v],
           wpc[w] # "running" \/ result[op[w]] # "damaged",
           wpc'[w] # "running" \/ result[op'[w]] # "damaged"
    PROVE  Hung' = Hung
  BY DEF Hung

\* AsyncLoads counts as this module does.
LEMMA SameCount == \A S : Loads!Cardinality(S) = Cardinality(S)
  BY DEF Loads!Cardinality, Cardinality

\* While a worker does something else there are fewer sounds that hang than
\* workers: each keeps a worker of its own.
LEMMA AnotherCanHang ==
    ASSUME NEW w \in Workers, wpc[w] # "running"
    PROVE  Cardinality(Hung) < Cardinality(Workers)
<1> DEFINE keeper == [r \in Hung |-> CHOOSE v \in Workers : wpc[v] = "running" /\ op[v] = r]
<1>1. \A r \in Hung : keeper[r] \in Workers \ {w} /\ op[keeper[r]] = r
  BY DEF Hung
<1>2. keeper \in Injection(Hung, Workers \ {w})
  <2>1. keeper \in [Hung -> Workers \ {w}]
    BY <1>1
  <2>2. \A a, b \in Hung : keeper[a] = keeper[b] => a = b
    BY <1>1
  <2> HIDE DEF keeper
  <2> QED
    BY <2>1, <2>2, Fun_IsInj
<1>3. IsFiniteSet(Workers) /\ Cardinality(Workers) \in Nat
  BY WorkersFinite, FS_CardinalityType
<1>4. IsFiniteSet(Workers \ {w}) /\ Cardinality(Workers \ {w}) = Cardinality(Workers) - 1
  BY <1>3, FS_RemoveElement
<1>5. IsFiniteSet(Hung) /\ Cardinality(Hung) <= Cardinality(Workers \ {w})
  BY <1>2, <1>4, FS_Injection
<1>6. Cardinality(Hung) \in Nat
  BY <1>5, FS_CardinalityType
<1> QED
  BY <1>3, <1>4, <1>5, <1>6

\* An outcome that finds no main queue is lost, and the engine closed by then.
LEMMA OutcomeSeen ==
    ASSUME EngInv, NEW q \in Requests, AtFiles(q) \/ Runners(q) # {},
           q \notin Hung, Hung' = Hung,
           QueueOutcome(q), UNCHANGED <<owner, posted, settled, dropped>>
    PROVE  Loads!Lose(q) \/ UNCHANGED Loads!asyncVars
<1>1. q \in posted /\ q \notin settled \cup dropped \cup strayed
  BY OnItsWay DEF EngInv
<1>2. CASE UNCHANGED strayed
  BY <1>2, Unseen DEF Open
<1>3. CASE ~RuntimeAlive /\ strayed' = strayed \cup {q}
  <2>1. owner # "constructing"
    BY <1>1 DEF EngInv, OwnerAndCore
  <2> QED
    BY <1>1, <1>3, <2>1 DEF Loads!Lose, RuntimeAlive
<1> QED
  BY <1>2, <1>3 DEF QueueOutcome

\* A step of the engine is a step of AsyncLoads or a stutter.
LEMMA StepSeen == EngInv /\ [Next]_vars => [Loads!AsyncNext]_(Loads!asyncVars)
<1> SUFFICES ASSUME EngInv, [Next]_vars
             PROVE  Loads!AsyncNext \/ UNCHANGED Loads!asyncVars
  OBVIOUS
<1> USE DEF Open
<1>1. CASE StartFiles
  BY <1>1, Unseen DEF StartFiles, Files!StartThread, ownVars, poolVars
<1>2. CASE Constructed \/ BeginSync \/ EndSync \/ ClearInstance
  BY <1>2, Unseen
  DEF Constructed, Pool!ConstructorReturns, BeginSync, EndSync, ClearInstance, fileVars, poolVars
<1>3. ASSUME NEW q \in Requests, Request(q) PROVE Loads!AsyncNext
  <2>1. /\ q \notin posted /\ posted' = posted \cup {q}
        /\ UNCHANGED <<owner, settled, dropped, strayed, wpc, op, result>>
    BY <1>3 DEF Request, Files!Post, ownVars, poolVars
  <2>2. q \notin settled \cup dropped \cup strayed
    BY <2>1, OnItsWay DEF EngInv
  <2>3. Hung' = Hung
    BY <2>1 DEF Hung
  <2>4. Loads!Ask(q)
    BY <2>1, <2>2, <2>3 DEF Loads!Ask
  <2> QED
    BY <2>4 DEF Loads!AsyncNext
<1>4. CASE RunEvent
  <2>1. PICK q : q = Head(mainq)
    OBVIOUS
  <2>2. /\ owner = "syncing" /\ mainq # <<>> /\ settled' = settled \cup {q}
        /\ UNCHANGED <<owner, posted, dropped, strayed, wpc, op, result>>
    BY <1>4, <2>1 DEF RunEvent, fileVars, poolVars
  <2>3. q \in Requests /\ CountIn(mainq, q) # 0
    <3>1. mainq \in Seq(Requests) /\ Head(mainq) \in Requests
          /\ 1 \in DOMAIN mainq /\ Head(mainq) = mainq[1]
      BY <2>2 DEF EngInv, TypeOK
    <3> QED
      BY <2>1, <3>1, CountNat
  <2>4. q \in Unanswered \ Hung
    BY <2>3, QueuedIsPending
  <2>5. Loads!Answer(q)
    BY <2>2, <2>4 DEF Loads!Answer, Hung, Unanswered
  <2> QED
    BY <2>3, <2>5 DEF Loads!AsyncNext
<1>5. CASE FilesStep
  <2>1. CASE Files!TakeRequest \/ Files!TakeStop
    BY <1>5, <2>1, Unseen DEF FilesStep, Files!TakeRequest, Files!TakeStop, ownVars, poolVars
  <2>2. CASE Files!ReadReturns
    <3>1. req \in Requests /\ AtFiles(req)
      BY <2>2 DEF Files!ReadReturns, AtFiles, EngInv, TypeOK, Files!FileTypeOK
    <3>2. Runners(req) = {}
      BY <3>1, NotHung
    <3>3. /\ \A q \in Requests \ {req} : result'[q] = result[q]
          /\ UNCHANGED <<wpc, op, owner, posted, settled, dropped, strayed>>
      BY <1>5, <2>2 DEF FilesStep, Files!ReadReturns, EngInv, TypeOK, Files!FileTypeOK,
                        ownVars, poolVars
    <3>4. Hung' = Hung
      BY <3>2, <3>3 DEF Hung, Runners, Requests
    <3> QED
      BY <3>3, <3>4, Unseen
  <2> QED
    BY <1>5, <2>1, <2>2 DEF FilesStep
<1>6. CASE EmitToQueue
  <2>1. req \in Requests /\ AtFiles(req)
    BY <1>6 DEF EmitToQueue, Files!Emitted, Requests, AtFiles
  <2>2. /\ QueueOutcome(req)
        /\ UNCHANGED <<owner, posted, settled, dropped, wpc, op, result>>
    BY <1>6 DEF EmitToQueue, Files!Emitted, poolVars
  <2>3. req \notin Hung /\ Hung' = Hung
    BY <2>1, <2>2, NotHung DEF Hung
  <2>4. Loads!Lose(req) \/ UNCHANGED Loads!asyncVars
    BY <2>1, <2>2, <2>3, OutcomeSeen
  <2> QED
    BY <2>1, <2>4 DEF Loads!AsyncNext
<1>7. CASE EmitToWorker
  BY <1>7, Unseen DEF EmitToWorker, Files!Emitted, Pool!QueueTask, ownVars
<1>8. ASSUME NEW w \in Workers, StartWorker(w) \/ TakeFromPool(w)
      PROVE  Loads!AsyncNext \/ UNCHANGED Loads!asyncVars
  <2>1. /\ wpc[w] # "running"
        /\ UNCHANGED <<owner, posted, settled, dropped, strayed, result>>
        /\ wpc \in [Workers -> {"unborn", "popping", "running", "exited"}]
        /\ op \in [Workers -> ByWorker \cup {Pill}]
    BY <1>8 DEF StartWorker, TakeFromPool, Pool!StartWorker, Pool!TakeTask, Pool!TakePill,
                fileVars, ownVars, EngInv, TypeOK, Pool!TypeOK
  <2>2. \A v \in Workers \ {w} : wpc'[v] = wpc[v] /\ op'[v] = op[v]
    BY <1>8, <2>1
    DEF StartWorker, TakeFromPool, Pool!StartWorker, Pool!TakeTask, Pool!TakePill
  <2>3. CASE wpc'[w] # "running" \/ result[op'[w]] # "damaged"
    BY <2>1, <2>2, <2>3, OthersHang, Unseen
  <2>4. CASE wpc'[w] = "running" /\ result[op'[w]] = "damaged"
    <3>1. PICK q : q = Head(tasks)
      OBVIOUS
    <3>2. /\ tasks # <<>> /\ q # Pill
          /\ op' = [op EXCEPT ![w] = q] /\ wpc' = [wpc EXCEPT ![w] = "running"]
      BY <1>8, <2>1, <2>4, <3>1
      DEF StartWorker, TakeFromPool, Pool!StartWorker, Pool!TakeTask, Pool!TakePill
    <3>3. q \in ByWorker /\ CountIn(tasks, q) # 0
      <4>1. tasks \in Seq(ByWorker \cup {Pill}) /\ Head(tasks) \in ByWorker \cup {Pill}
            /\ 1 \in DOMAIN tasks /\ Head(tasks) = tasks[1]
        BY <3>2 DEF EngInv, TypeOK, Pool!TypeOK
      <4> QED
        BY <3>1, <3>2, <4>1, CountNat
    <3>4. q \in Unanswered \ Hung
      BY <3>3, QueuedIsPending DEF Requests
    <3>5. Hung' = Hung \cup {q}
      BY <2>1, <2>2, <2>4, <3>2, <3>3 DEF Hung
    <3>6. Cardinality(Hung) < Cardinality(Workers)
      BY <2>1, AnotherCanHang
    <3>7. Open' = Open /\ Unanswered' = Unanswered /\ q \in Unanswered
      BY <2>1, <3>4 DEF Unanswered
    <3>8. Loads!Hang(q)
      BY <2>1, <3>3, <3>4, <3>5, <3>6, <3>7, SameCount DEF Loads!Hang, Unanswered
    <3> QED
      BY <3>3, <3>8 DEF Loads!AsyncNext, Requests
  <2> QED
    BY <2>3, <2>4
<1>9. ASSUME NEW w \in Workers, FinishSound(w)
      PROVE  Loads!AsyncNext \/ UNCHANGED Loads!asyncVars
  <2>1. PICK q : q = op[w]
    OBVIOUS
  <2>2. /\ wpc[w] = "running" /\ wpc' = [wpc EXCEPT ![w] = "popping"] /\ result[q] = "data"
        /\ QueueOutcome(q) /\ UNCHANGED <<owner, posted, settled, dropped, op, result>>
    BY <1>9, <2>1 DEF FinishSound, Pool!FinishTask, fileVars
  <2>3. q \in Requests /\ wpc \in [Workers -> {"unborn", "popping", "running", "exited"}]
    BY <2>1, <2>2 DEF EngInv, TypeOK, Pool!TypeOK, Requests
  <2>4. Runners(q) # {}
    BY <2>1, <2>2 DEF Runners
  <2>5. q \notin Hung /\ Hung' = Hung
    BY <2>1, <2>2, <2>3, OthersHang DEF Hung
  <2>6. Loads!Lose(q) \/ UNCHANGED Loads!asyncVars
    BY <2>2, <2>3, <2>4, <2>5, OutcomeSeen
  <2> QED
    BY <2>3, <2>6 DEF Loads!AsyncNext
<1>10. CASE DestroyRuntime
  <2> DEFINE gone == {mainq[i] : i \in DOMAIN mainq}
  <2>1. /\ owner = "frame" /\ owner' = "noRuntime" /\ dropped' = dropped \cup gone
        /\ UNCHANGED <<posted, settled, strayed, wpc, op, result>>
    BY <1>10 DEF DestroyRuntime, fileVars, poolVars
  <2>2. \A q \in gone : q \in Unanswered \ Hung
    <3> SUFFICES ASSUME NEW q \in gone PROVE q \in Unanswered \ Hung
      OBVIOUS
    <3>1. mainq \in Seq(Requests)
      BY DEF EngInv, TypeOK
    <3>2. q \in Requests /\ CountIn(mainq, q) # 0
      BY <3>1, CountNat
    <3> QED
      BY <3>2, QueuedIsPending
  <2>3. gone \in SUBSET (Unanswered \ Hung)
    BY <2>2
  <2>4. Unanswered' = Unanswered \ gone
    BY <2>1 DEF Unanswered
  <2>5. dropped' \cup strayed' = (dropped \cup strayed) \cup gone
    BY <2>1
  <2> HIDE DEF gone
  <2>6. Loads!Close
    BY <2>1, <2>3, <2>4, <2>5 DEF Loads!Close, Unanswered, Hung
  <2> QED
    BY <2>6 DEF Loads!AsyncNext
<1>11. CASE StopWorkers
  BY <1>11, Unseen DEF StopWorkers, Pool!EnterDestructor, Pool!PushPill, Pool!JoinWorkers,
                       fileVars, ownVars
<1>12. CASE StopFiles \/ JoinFiles
  BY <1>12, Unseen DEF StopFiles, JoinFiles, Files!PushStop, Files!JoinThread, poolVars
<1>13. ASSUME NEW w \in Workers, CrashSound(w)
       PROVE  Loads!AsyncNext \/ UNCHANGED Loads!asyncVars
  <2>1. /\ owner' = "crashed"
        /\ UNCHANGED <<posted, settled, dropped, strayed, wpc, op, result>>
    BY <1>13 DEF CrashSound, poolVars, fileVars
  <2>2. CASE Open
    <3>1. PICK gone : gone = {}
      OBVIOUS
    <3>2. /\ gone \in SUBSET (Unanswered \ Hung)
          /\ Unanswered' = Unanswered \ gone
          /\ dropped' \cup strayed' = (dropped \cup strayed) \cup gone
          /\ Hung' = Hung
      BY <2>1, <3>1 DEF Unanswered, Hung
    <3>3. Loads!Close
      BY <2>1, <2>2, <3>2 DEF Loads!Close, Unanswered
    <3> QED
      BY <3>3 DEF Loads!AsyncNext
  <2>3. CASE ~Open
    BY <2>1, <2>3, Unseen
  <2> QED
    BY <2>2, <2>3
<1>14. CASE UNCHANGED vars
  BY <1>14, Unseen DEF vars, fileVars, ownVars, poolVars
<1> QED
  BY <1>1, <1>2, <1>3, <1>4, <1>5, <1>6, <1>7, <1>8, <1>9, <1>10, <1>11, <1>12, <1>13, <1>14
  DEF Next, Frame, FilesThread, Destruction, Down, Spin

(***************************************************************************)
(* To whoever requests loads, the engine's threads, queues and shutdown    *)
(* look like AsyncLoads: a request is answered at most once, on the        *)
(* owner's thread and before the Runtime is gone, or lost to the closing.  *)
(***************************************************************************)
THEOREM EngineImplementsAsyncLoads == Spec => Loads!AsyncSafety
<1>1. Init => Loads!AsyncInit
  BY DEF Init, Pool!Init, Files!FileInit, Loads!AsyncInit, Hung
<1> QED
  BY <1>1, StepSeen, EngineInvariant, PTL DEF Spec, Safety, Loads!AsyncSafety
=============================================================================
