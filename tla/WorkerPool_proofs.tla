------------------------- MODULE WorkerPool_proofs -------------------------
(***************************************************************************)
(* Proofs about WorkerPool for any finite set of workers and any tasks:    *)
(* type correctness, that every pill stops exactly one worker, and, when   *)
(* there is at least one worker, that joining the workers drains the queue *)
(* of everything queued before the shutdown.                               *)
(***************************************************************************)
EXTENDS WorkerPool, FiniteSetTheorems, FunctionTheorems, SequenceTheorems,
        TLAPS

(***************************************************************************)
(* The queue holds tasks and pills, and the workers are in known places.   *)
(***************************************************************************)
THEOREM TypeCorrect == Safety => []TypeOK
<1>1. Init => TypeOK
  BY DEF Init, TypeOK
<1>2. TypeOK /\ [Next]_vars => TypeOK'
  <2> SUFFICES ASSUME TypeOK, [Next]_vars PROVE TypeOK'
    OBVIOUS
  <2> USE DEF TypeOK
  <2>1. ASSUME NEW w \in Workers, StartWorker(w) PROVE TypeOK'
    BY <2>1 DEF StartWorker
  <2>2. ASSUME NEW w \in Workers, TakeTask(w) PROVE TypeOK'
    <3>1. Head(tasks) \in Tasks \cup {Pill} /\ Tail(tasks) \in Seq(Tasks \cup {Pill})
      BY <2>2, HeadTailProperties DEF TakeTask
    <3> QED BY <2>2, <3>1 DEF TakeTask
  <2>3. ASSUME NEW w \in Workers, TakePill(w) PROVE TypeOK'
    <3>1. Tail(tasks) \in Seq(Tasks \cup {Pill})
      BY <2>3, HeadTailProperties DEF TakePill
    <3> QED BY <2>3, <3>1 DEF TakePill
  <2>4. ASSUME NEW w \in Workers, FinishTask(w) PROVE TypeOK'
    BY <2>4 DEF FinishTask
  <2>5. ASSUME NEW t \in Tasks, QueueTask(t) PROVE TypeOK'
    <3>1. Append(tasks, t) \in Seq(Tasks \cup {Pill})
      BY AppendProperties
    <3> QED BY <2>5, <3>1 DEF QueueTask
  <2>6. CASE ConstructorReturns
    BY <2>6 DEF ConstructorReturns
  <2>7. CASE EnterDestructor
    BY <2>7 DEF EnterDestructor
  <2>8. CASE PushPill
    <3>1. Append(tasks, Pill) \in Seq(Tasks \cup {Pill})
      BY AppendProperties
    <3> QED BY <2>8, <3>1 DEF PushPill
  <2>9. CASE JoinWorkers
    BY <2>9 DEF JoinWorkers
  <2>10. CASE UNCHANGED vars
    BY <2>10 DEF vars
  <2> QED
    BY <2>1, <2>2, <2>3, <2>4, <2>5, <2>6, <2>7, <2>8, <2>9, <2>10
    DEF Next, WorkerStep, OwnerStep, Joined
<1> QED
  BY <1>1, <1>2, PTL DEF Safety

-----------------------------------------------------------------------------
(* Positions of an element in a sequence: what appending and taking the    *)
(* tail do to them.                                                        *)

\* The positions of an element are finitely many.
LEMMA PositionsFinite ==
    ASSUME NEW S, NEW s \in Seq(S), NEW x
    PROVE  IsFiniteSet(Positions(s, x)) /\ Cardinality(Positions(s, x)) \in Nat
<1>1. IsFiniteSet(1 .. Len(s))
  BY FS_Interval, LenProperties
<1>2. Positions(s, x) \subseteq 1 .. Len(s)
  BY LenProperties DEF Positions
<1> QED
  BY <1>1, <1>2, FS_Subset, FS_CardinalityType

\* Appending e adds one position to those of e, and none to any other's.
LEMMA PositionsOfAppend ==
    ASSUME NEW S, NEW s \in Seq(S), NEW e \in S, NEW x
    PROVE  Cardinality(Positions(Append(s, e), x)) =
               Cardinality(Positions(s, x)) + (IF e = x THEN 1 ELSE 0)
<1>1. /\ Len(s) \in Nat
      /\ DOMAIN s = 1 .. Len(s)
      /\ DOMAIN Append(s, e) = 1 .. Len(s) + 1
      /\ \A i \in 1 .. Len(s) : Append(s, e)[i] = s[i]
      /\ Append(s, e)[Len(s) + 1] = e
  BY AppendProperties, LenProperties
<1>2. CASE e = x
  <2>1. Positions(Append(s, e), x) = Positions(s, x) \cup {Len(s) + 1}
    BY <1>1, <1>2 DEF Positions
  <2>2. Len(s) + 1 \notin Positions(s, x)
    BY <1>1 DEF Positions
  <2> QED BY <1>2, <2>1, <2>2, PositionsFinite, FS_AddElement
<1>3. CASE e # x
  <2>1. Positions(Append(s, e), x) = Positions(s, x)
    BY <1>1, <1>3 DEF Positions
  <2> QED BY <1>3, <2>1, PositionsFinite
<1> QED
  BY <1>2, <1>3

\* Taking the tail loses the first position, if it is one of x's.
LEMMA PositionsOfTail ==
    ASSUME NEW S, NEW s \in Seq(S), s # <<>>, NEW x
    PROVE  Cardinality(Positions(Tail(s), x)) =
               Cardinality(Positions(s, x)) - (IF Head(s) = x THEN 1 ELSE 0)
<1> DEFINE P == Positions(s, x)
           Q == Positions(Tail(s), x)
<1>1. /\ Len(s) \in Nat /\ Len(s) > 0
      /\ DOMAIN s = 1 .. Len(s)
      /\ Tail(s) \in Seq(S)
      /\ DOMAIN Tail(s) = 1 .. Len(s) - 1
      /\ \A i \in 1 .. Len(s) - 1 : Tail(s)[i] = s[i + 1]
      /\ Head(s) = s[1]
  BY HeadTailProperties, LenProperties, EmptySeq
<1>2. IsFiniteSet(P) /\ Cardinality(P) \in Nat /\ IsFiniteSet(Q)
  BY <1>1, PositionsFinite
<1>3. IsFiniteSet(P \ {1})
  BY <1>2, FS_Subset
<1>4. Cardinality(P \ {1}) = Cardinality(P) - (IF Head(s) = x THEN 1 ELSE 0)
  <2>1. 1 \in P <=> Head(s) = x
    BY <1>1 DEF Positions
  <2>2. 1 \notin P => P \ {1} = P
    OBVIOUS
  <2>3. 1 \in P => Cardinality(P \ {1}) = Cardinality(P) - 1
    BY <1>2, FS_RemoveElement
  <2>4. CASE Head(s) = x
    BY <2>1, <2>3, <2>4
  <2>5. CASE Head(s) # x
    <3>1. Cardinality(P \ {1}) = Cardinality(P)
      BY <2>1, <2>2, <2>5
    <3> QED BY <1>2, <2>5, <3>1
  <2> QED BY <2>4, <2>5
<1>5. Cardinality(Q) = Cardinality(P \ {1})
  <2> DEFINE f == [i \in Q |-> i + 1]
  <2>1. \A i \in Q : i \in Int /\ i + 1 \in P \ {1}
    BY <1>1 DEF Positions
  <2>2. \A j \in P \ {1} : j - 1 \in Q /\ j \in Int
    BY <1>1 DEF Positions
  <2>3. f \in Bijection(Q, P \ {1})
    <3>1. f \in [Q -> P \ {1}]
      BY <2>1
    <3>2. \A i, j \in Q : f[i] = f[j] => i = j
      BY <2>1
    <3>3. \A j \in P \ {1} : \E i \in Q : f[i] = j
      <4> SUFFICES ASSUME NEW j \in P \ {1} PROVE f[j - 1] = j /\ j - 1 \in Q
        OBVIOUS
      <4> QED BY <2>2
    <3> QED BY <3>1, <3>2, <3>3, Fun_IsBij
  <2>4. ExistsBijection(Q, P \ {1})
    BY <2>3 DEF ExistsBijection
  <2> QED BY <1>2, <1>3, <2>4, FS_Bijection, FS_CardinalityType
<1> QED
  BY <1>4, <1>5

-----------------------------------------------------------------------------
\* A worker that stops is one more exited worker.
LEMMA OneMoreExited ==
    ASSUME TypeOK, NEW w \in Workers, wpc[w] # "exited",
           wpc' = [wpc EXCEPT ![w] = "exited"]
    PROVE  Cardinality(exited') = Cardinality(exited) + 1
<1>1. exited' = exited \cup {w} /\ w \notin exited
  BY DEF exited, TypeOK
<1>2. IsFiniteSet(exited)
  BY WorkersFinite, FS_Subset DEF exited
<1> QED
  BY <1>1, <1>2, FS_AddElement

\* A worker that does not stop leaves the set of exited workers alone.
LEMMA ExitedUnchanged ==
    ASSUME TypeOK, NEW w \in Workers, NEW to, wpc[w] # "exited",
           to # "exited", wpc' = [wpc EXCEPT ![w] = to]
    PROVE  exited' = exited
  BY DEF exited, TypeOK

(***************************************************************************)
(* A pill leaves the queue only by stopping a worker.                      *)
(***************************************************************************)
LEMMA PillPerWorkerStep ==
    ASSUME TypeOK, PillPerWorker, [Next]_vars
    PROVE  PillPerWorker'
<1> USE DEF PillPerWorker, pillsQueued
<1>1. /\ tasks \in Seq(Tasks \cup {Pill})
      /\ Cardinality(pillsQueued) \in Nat
      /\ Cardinality(exited) \in Nat
      /\ pills \in Nat
  <2>1. IsFiniteSet(exited)
    BY WorkersFinite, FS_Subset DEF exited
  <2> QED BY <2>1, PositionsFinite, FS_CardinalityType DEF TypeOK
<1>2. ASSUME NEW w \in Workers, StartWorker(w) PROVE PillPerWorker'
  <2>1. exited' = exited
    BY <1>2, ExitedUnchanged DEF StartWorker
  <2> QED BY <1>2, <2>1 DEF StartWorker
<1>3. ASSUME NEW w \in Workers, TakeTask(w) PROVE PillPerWorker'
  <2>1. exited' = exited
    BY <1>3, ExitedUnchanged DEF TakeTask
  <2>2. Cardinality(Positions(Tail(tasks), Pill)) = Cardinality(Positions(tasks, Pill))
    BY <1>1, <1>3, PositionsOfTail DEF TakeTask
  <2> QED BY <1>3, <2>1, <2>2 DEF TakeTask
<1>4. ASSUME NEW w \in Workers, TakePill(w) PROVE PillPerWorker'
  <2>1. Cardinality(exited') = Cardinality(exited) + 1
    BY <1>4, OneMoreExited DEF TakePill
  <2>2. Cardinality(Positions(Tail(tasks), Pill)) =
            Cardinality(Positions(tasks, Pill)) - 1
    BY <1>1, <1>4, PositionsOfTail DEF TakePill
  <2> QED BY <1>1, <1>4, <2>1, <2>2 DEF TakePill
<1>5. ASSUME NEW w \in Workers, FinishTask(w) PROVE PillPerWorker'
  <2>1. exited' = exited
    BY <1>5, ExitedUnchanged DEF FinishTask
  <2> QED BY <1>5, <2>1 DEF FinishTask
<1>6. ASSUME NEW t \in Tasks, QueueTask(t) PROVE PillPerWorker'
  <2>1. Cardinality(Positions(Append(tasks, t), Pill)) =
            Cardinality(Positions(tasks, Pill))
    BY <1>1, PillIsNoTask, PositionsOfAppend
  <2> QED BY <1>6, <2>1 DEF QueueTask, exited
<1>7. CASE ConstructorReturns
  BY <1>7 DEF ConstructorReturns, exited
<1>8. CASE EnterDestructor
  BY <1>8 DEF EnterDestructor, exited
<1>9. CASE PushPill
  <2>1. Cardinality(Positions(Append(tasks, Pill), Pill)) =
            Cardinality(Positions(tasks, Pill)) + 1
    BY <1>1, PositionsOfAppend
  <2> QED BY <1>1, <1>9, <2>1 DEF PushPill, exited
<1>10. CASE JoinWorkers
  BY <1>10 DEF JoinWorkers, exited
<1>11. CASE UNCHANGED vars
  BY <1>11 DEF vars, exited
<1> QED
  BY <1>2, <1>3, <1>4, <1>5, <1>6, <1>7, <1>8, <1>9, <1>10, <1>11
  DEF Next, WorkerStep, OwnerStep, Joined

(***************************************************************************)
(* Pills queued and workers stopped always add up to the pills pushed.     *)
(***************************************************************************)
THEOREM PillsAddUp == Safety => []PillPerWorker
<1>1. Init => PillPerWorker
  <2> SUFFICES ASSUME Init PROVE PillPerWorker
    OBVIOUS
  <2>1. pillsQueued = {} /\ exited = {}
    BY EmptySeq DEF Init, pillsQueued, Positions, exited
  <2> QED BY <2>1, FS_EmptySet DEF Init, PillPerWorker
<1>2. TypeOK /\ PillPerWorker /\ [Next]_vars => PillPerWorker'
  BY PillPerWorkerStep
<1> QED
  BY <1>1, <1>2, TypeCorrect, PTL DEF Safety

-----------------------------------------------------------------------------
(* DrainInv, one lemma per kind of step. Taking a task moves it from the   *)
(* queue into a worker; taking a pill needs NoEarlyBehindPill to know that *)
(* nothing early is left behind; a task queued late is not early.          *)

\* What the tail of the queue holds is what the queue held, one further on.
LEMMA TailPositions ==
    ASSUME TypeOK, tasks # <<>>
    PROVE  /\ Len(tasks) \in Nat /\ Len(tasks) > 0
           /\ DOMAIN tasks = 1 .. Len(tasks)
           /\ DOMAIN Tail(tasks) = 1 .. Len(tasks) - 1
           /\ \A i \in DOMAIN Tail(tasks) : Tail(tasks)[i] = tasks[i + 1]
           /\ Head(tasks) = tasks[1]
  BY HeadTailProperties, LenProperties, EmptySeq DEF TypeOK

\* An item put at the end of the queue is at a new, last position.
LEMMA AppendPositions ==
    ASSUME TypeOK, NEW e \in Tasks \cup {Pill}
    PROVE  /\ Len(tasks) \in Nat
           /\ DOMAIN tasks = 1 .. Len(tasks)
           /\ DOMAIN Append(tasks, e) = 1 .. Len(tasks) + 1
           /\ \A i \in DOMAIN tasks : Append(tasks, e)[i] = tasks[i]
           /\ Append(tasks, e)[Len(tasks) + 1] = e
  BY AppendProperties, LenProperties DEF TypeOK

LEMMA DrainInvTakeTask ==
    ASSUME TypeOK, DrainInv, NEW w \in Workers, TakeTask(w)
    PROVE  DrainInv'
<1> USE DEF TakeTask
<1>1. exited' = exited
  BY ExitedUnchanged
<1>2. EarlyAccountedFor'
  <2> SUFFICES ASSUME NEW t \in early
               PROVE  \/ t \in ran
                      \/ \E v \in Workers : wpc'[v] = "running" /\ op'[v] = t
                      \/ Positions(Tail(tasks), t) # {}
    BY DEF EarlyAccountedFor
  <2>1. CASE t \in ran
    BY <2>1
  <2>2. ASSUME NEW v \in Workers, wpc[v] = "running", op[v] = t
        PROVE  wpc'[v] = "running" /\ op'[v] = t
    BY <2>2 DEF TypeOK
  <2>3. ASSUME NEW i \in DOMAIN tasks, tasks[i] = t
        PROVE  \/ wpc'[w] = "running" /\ op'[w] = t
               \/ Positions(Tail(tasks), t) # {}
    <3>1. CASE i = 1
      BY <2>3, <3>1, TailPositions DEF TypeOK
    <3>2. CASE i # 1
      <4>1. i - 1 \in DOMAIN Tail(tasks) /\ Tail(tasks)[i - 1] = t
        BY <2>3, <3>2, TailPositions
      <4> QED BY <4>1 DEF Positions
    <3> QED BY <3>1, <3>2
  <2> QED
    BY <2>1, <2>2, <2>3 DEF DrainInv, EarlyAccountedFor, Positions
<1>3. \A i \in DOMAIN Tail(tasks) :
          i \in Int /\ i + 1 \in DOMAIN tasks /\ Tail(tasks)[i] = tasks[i + 1]
  BY TailPositions
<1>4. NoEarlyBehindPill'
  BY <1>3 DEF DrainInv, NoEarlyBehindPill
<1>5. NoEarlyOnceExited'
  BY <1>1, <1>3 DEF DrainInv, NoEarlyOnceExited
<1>6. NoPillBeforeShutdown'
  BY <1>1, <1>3 DEF DrainInv, NoPillBeforeShutdown, pillsQueued, Positions
<1>7. JoinedMeansExited'
  BY <1>1 DEF DrainInv, JoinedMeansExited
<1> QED
  BY <1>2, <1>4, <1>5, <1>6, <1>7 DEF DrainInv

LEMMA DrainInvTakePill ==
    ASSUME TypeOK, DrainInv, NEW w \in Workers, TakePill(w)
    PROVE  DrainInv'
<1> USE DEF TakePill
<1>1. \A i \in DOMAIN Tail(tasks) :
          i \in Int /\ 1 < i + 1 /\ i + 1 \in DOMAIN tasks
          /\ Tail(tasks)[i] = tasks[i + 1]
  BY TailPositions
<1>2. tasks[1] = Pill /\ 1 \in DOMAIN tasks
  BY TailPositions
<1>3. \A i \in DOMAIN Tail(tasks) : Tail(tasks)[i] \notin early
  BY <1>1, <1>2 DEF DrainInv, NoEarlyBehindPill
<1>4. EarlyAccountedFor'
  <2> SUFFICES ASSUME NEW t \in early
               PROVE  \/ t \in ran
                      \/ \E v \in Workers : wpc'[v] = "running" /\ op'[v] = t
    BY DEF EarlyAccountedFor
  <2>1. Positions(tasks, t) = {}
    <3> SUFFICES ASSUME NEW i \in DOMAIN tasks, tasks[i] = t PROVE FALSE
      BY DEF Positions
    <3>1. i # 1
      BY <1>2, PillIsNoTask DEF TypeOK
    <3>2. i \in Int /\ 1 < i
      BY <3>1, TailPositions
    <3> QED BY <1>2, <3>2 DEF DrainInv, NoEarlyBehindPill
  <2>2. ASSUME NEW v \in Workers, wpc[v] = "running", op[v] = t
        PROVE  wpc'[v] = "running" /\ op'[v] = t
    BY <2>2 DEF TypeOK
  <2> QED BY <2>1, <2>2 DEF DrainInv, EarlyAccountedFor
<1>5. NoEarlyBehindPill' /\ NoEarlyOnceExited'
  BY <1>3 DEF NoEarlyBehindPill, NoEarlyOnceExited
<1>6. NoPillBeforeShutdown' /\ JoinedMeansExited'
  \* There was a pill in the queue, and w had not exited.
  <2>1. core \notin {"starting", "up"}
    BY <1>2 DEF DrainInv, NoPillBeforeShutdown, pillsQueued, Positions
  <2>2. core # "joined"
    BY DEF DrainInv, JoinedMeansExited, exited
  <2> QED BY <2>1, <2>2 DEF NoPillBeforeShutdown, JoinedMeansExited
<1> QED
  BY <1>4, <1>5, <1>6 DEF DrainInv

LEMMA DrainInvFinishTask ==
    ASSUME TypeOK, DrainInv, NEW w \in Workers, FinishTask(w)
    PROVE  DrainInv'
<1> USE DEF FinishTask
<1>1. exited' = exited
  BY ExitedUnchanged
<1>2. EarlyAccountedFor'
  <2> SUFFICES ASSUME NEW t \in early
               PROVE  \/ t \in ran'
                      \/ \E v \in Workers : wpc'[v] = "running" /\ op[v] = t
                      \/ Positions(tasks, t) # {}
    BY DEF EarlyAccountedFor
  <2>1. ASSUME NEW v \in Workers, wpc[v] = "running", op[v] = t
        PROVE  t \in ran' \/ wpc'[v] = "running"
    BY <2>1 DEF TypeOK
  <2> QED BY <2>1 DEF DrainInv, EarlyAccountedFor
<1>3. NoEarlyBehindPill' /\ NoEarlyOnceExited'
  BY <1>1 DEF DrainInv, NoEarlyBehindPill, NoEarlyOnceExited
<1>4. NoPillBeforeShutdown' /\ JoinedMeansExited'
  BY <1>1 DEF DrainInv, NoPillBeforeShutdown, JoinedMeansExited, pillsQueued
<1> QED
  BY <1>2, <1>3, <1>4 DEF DrainInv

LEMMA DrainInvQueueTask ==
    ASSUME TypeOK, DrainInv, NEW t \in Tasks, QueueTask(t)
    PROVE  DrainInv'
<1> USE DEF QueueTask
<1>1. exited' = exited
  BY DEF exited
<1>2. EarlyAccountedFor'
  <2>1. Positions(Append(tasks, t), t) # {}
    <3>1. Len(tasks) + 1 \in DOMAIN Append(tasks, t)
          /\ Append(tasks, t)[Len(tasks) + 1] = t
      BY AppendPositions
    <3> QED BY <3>1 DEF Positions
  <2>2. \A u : Positions(tasks, u) # {} => Positions(Append(tasks, t), u) # {}
    <3> SUFFICES ASSUME NEW u, NEW i \in DOMAIN tasks, tasks[i] = u
                 PROVE  i \in DOMAIN Append(tasks, t) /\ Append(tasks, t)[i] = u
      BY DEF Positions
    <3> QED BY AppendPositions
  <2>3. \A u \in early' : u = t \/ u \in early
    OBVIOUS
  <2> QED BY <2>1, <2>2, <2>3 DEF DrainInv, EarlyAccountedFor
<1>3. CASE core \in {"starting", "up"}
  \* No pill is queued and nobody has exited.
  <2>1. pillsQueued' = {}
    <3> SUFFICES ASSUME NEW i \in DOMAIN Append(tasks, t),
                        Append(tasks, t)[i] = Pill
                 PROVE  FALSE
      BY DEF pillsQueued, Positions
    <3>1. CASE i \in DOMAIN tasks
      <4>1. tasks[i] = Pill
        BY <3>1, AppendPositions
      <4> QED BY <1>3, <3>1, <4>1
          DEF DrainInv, NoPillBeforeShutdown, pillsQueued, Positions
    <3>2. CASE i \notin DOMAIN tasks
      <4>1. i = Len(tasks) + 1
        BY <3>2, AppendPositions
      <4> QED BY <4>1, AppendPositions, PillIsNoTask
    <3> QED BY <3>1, <3>2
  <2>2. exited' = {}
    BY <1>1, <1>3 DEF DrainInv, NoPillBeforeShutdown
  <2>3. NoEarlyBehindPill' /\ NoEarlyOnceExited' /\ NoPillBeforeShutdown'
    BY <2>1, <2>2
    DEF NoEarlyBehindPill, NoEarlyOnceExited, NoPillBeforeShutdown, pillsQueued,
        Positions
  <2>4. JoinedMeansExited'
    BY <1>3 DEF JoinedMeansExited
  <2> QED BY <1>2, <2>3, <2>4 DEF DrainInv
<1>4. CASE core \notin {"starting", "up"}
  \* The new task is late: the queue grows by something that is not early.
  <2>1. early' = early /\ t \notin early
    BY <1>4
  <2>2. \A i \in DOMAIN Append(tasks, t) :
            \/ i \in DOMAIN tasks /\ Append(tasks, t)[i] = tasks[i]
            \/ i = Len(tasks) + 1 /\ Append(tasks, t)[i] \notin early
    BY <2>1, AppendPositions
  <2>3. NoEarlyBehindPill'
    <3> SUFFICES ASSUME NEW i \in DOMAIN Append(tasks, t),
                        NEW j \in DOMAIN Append(tasks, t),
                        i < j, Append(tasks, t)[i] = Pill,
                        Append(tasks, t)[j] \in early
                 PROVE  FALSE
      BY <2>1 DEF NoEarlyBehindPill
    <3>1. j \in DOMAIN tasks /\ tasks[j] \in early
      BY <2>2
    <3>2. i \in DOMAIN tasks /\ tasks[i] = Pill
      BY <3>1, AppendPositions
    <3> QED BY <3>1, <3>2 DEF DrainInv, NoEarlyBehindPill
  <2>4. NoEarlyOnceExited'
    BY <1>1, <2>1, <2>2 DEF DrainInv, NoEarlyOnceExited
  <2>5. NoPillBeforeShutdown' /\ JoinedMeansExited'
    BY <1>1, <1>4 DEF DrainInv, NoPillBeforeShutdown, JoinedMeansExited
  <2> QED BY <1>2, <2>3, <2>4, <2>5 DEF DrainInv
<1> QED
  BY <1>3, <1>4

LEMMA DrainInvPushPill ==
    ASSUME TypeOK, DrainInv, PushPill
    PROVE  DrainInv'
<1> USE DEF PushPill
<1>1. exited' = exited
  BY DEF exited
<1>2. \A i \in DOMAIN Append(tasks, Pill) :
          \/ i \in DOMAIN tasks /\ Append(tasks, Pill)[i] = tasks[i]
          \/ i = Len(tasks) + 1 /\ Append(tasks, Pill)[i] \notin early
  BY AppendPositions, PillIsNoTask DEF TypeOK
<1>3. \A u : Positions(tasks, u) # {} => Positions(Append(tasks, Pill), u) # {}
  <2> SUFFICES ASSUME NEW u, NEW i \in DOMAIN tasks, tasks[i] = u
               PROVE  i \in DOMAIN Append(tasks, Pill) /\ Append(tasks, Pill)[i] = u
    BY DEF Positions
  <2> QED BY AppendPositions
<1>4. EarlyAccountedFor'
  BY <1>3 DEF DrainInv, EarlyAccountedFor
<1>5. NoEarlyBehindPill'
  <2> SUFFICES ASSUME NEW i \in DOMAIN Append(tasks, Pill),
                      NEW j \in DOMAIN Append(tasks, Pill),
                      i < j, Append(tasks, Pill)[i] = Pill,
                      Append(tasks, Pill)[j] \in early
               PROVE  FALSE
    BY DEF NoEarlyBehindPill
  <2>1. j \in DOMAIN tasks /\ tasks[j] \in early
    BY <1>2
  <2>2. i \in DOMAIN tasks /\ tasks[i] = Pill
    BY <2>1, AppendPositions
  <2> QED BY <2>1, <2>2 DEF DrainInv, NoEarlyBehindPill
<1>6. NoEarlyOnceExited'
  BY <1>1, <1>2 DEF DrainInv, NoEarlyOnceExited
<1>7. NoPillBeforeShutdown' /\ JoinedMeansExited'
  BY DEF NoPillBeforeShutdown, JoinedMeansExited
<1> QED
  BY <1>4, <1>5, <1>6, <1>7 DEF DrainInv

\* The steps of the owner that leave the queue alone, and worker starts.
LEMMA DrainInvOtherSteps ==
    ASSUME TypeOK, DrainInv,
           \/ \E w \in Workers : StartWorker(w)
           \/ ConstructorReturns \/ EnterDestructor \/ JoinWorkers
           \/ UNCHANGED vars
    PROVE  DrainInv'
<1> USE DEF DrainInv, EarlyAccountedFor, NoEarlyBehindPill, NoEarlyOnceExited,
            NoPillBeforeShutdown, JoinedMeansExited, pillsQueued
<1>1. ASSUME NEW w \in Workers, StartWorker(w) PROVE DrainInv'
  <2>1. exited' = exited
    BY <1>1, ExitedUnchanged DEF StartWorker
  <2>2. \A v \in Workers : wpc[v] = "running" => wpc'[v] = "running"
    BY <1>1 DEF StartWorker, TypeOK
  <2> QED BY <1>1, <2>1, <2>2 DEF StartWorker
<1>2. CASE ConstructorReturns
  BY <1>2 DEF ConstructorReturns, exited
<1>3. CASE EnterDestructor
  BY <1>3 DEF EnterDestructor, exited
<1>4. CASE JoinWorkers
  BY <1>4 DEF JoinWorkers, exited
<1>5. CASE UNCHANGED vars
  BY <1>5 DEF vars, exited
<1> QED
  BY <1>1, <1>2, <1>3, <1>4, <1>5

(***************************************************************************)
(* With at least one worker, everything queued before the destructor was   *)
(* entered has run when the joins are over. With no worker at all it is    *)
(* false: the joins are over at once and the queue is never looked at.     *)
(***************************************************************************)
THEOREM JoinDrainsQueue ==
    ASSUME Workers # {}
    PROVE  Safety => []DrainedWhenJoined
<1>1. Init => DrainInv
  BY EmptySeq
  DEF Init, DrainInv, EarlyAccountedFor, NoEarlyBehindPill, NoEarlyOnceExited,
      NoPillBeforeShutdown, JoinedMeansExited, pillsQueued, Positions, exited
<1>2. TypeOK /\ DrainInv /\ [Next]_vars => DrainInv'
  BY DrainInvTakeTask, DrainInvTakePill, DrainInvFinishTask, DrainInvQueueTask,
     DrainInvPushPill, DrainInvOtherSteps
  DEF Next, WorkerStep, OwnerStep, Joined
<1>3. DrainInv => DrainedWhenJoined
  <2> SUFFICES ASSUME DrainInv, core = "joined", NEW t \in early
               PROVE  t \in ran
    BY DEF DrainedWhenJoined
  <2>1. \A w \in Workers : wpc[w] # "running"
    BY DEF DrainInv, JoinedMeansExited, exited
  <2>2. Positions(tasks, t) = {}
    BY DEF DrainInv, JoinedMeansExited, NoEarlyOnceExited, Positions
  <2> QED BY <2>1, <2>2 DEF DrainInv, EarlyAccountedFor
<1> QED
  BY <1>1, <1>2, <1>3, TypeCorrect, PTL DEF Safety
=============================================================================
