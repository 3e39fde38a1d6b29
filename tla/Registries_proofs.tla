------------------------- MODULE Registries_proofs -------------------------
(***************************************************************************)
(* Theorems about registries: on demand, for any names, gets and loads;    *)
(* preloaded, for every index, where the count of pending loads is exact   *)
(* and a registry without pending loads has everything.                    *)
(***************************************************************************)
EXTENDS OnDemandRegistry, PreloadRegistry, FiniteSetTheorems, TLAPS

-----------------------------------------------------------------------------
(* On demand. *)

\* Loads whose event holds a closure.
Closures == At("event") \cup At("delivering")

\* The references are those of the registries_ map, of the operations and of
\* the events; a load that is being read has an operation.
RefsCounted ==
    /\ IsFiniteSet(opHeld) /\ IsFiniteSet(Closures)
    /\ refs = (IF linked THEN 1 ELSE 0) + Cardinality(opHeld) + Cardinality(Closures)
    /\ At("reading") \subseteq opHeld
    /\ \A l \in opHeld : stage[l] # "unused"

RefInv == TypeOK /\ RefsCounted

Busy(l) == stage[l] \in {"reading", "event", "delivering"}

\* One load per name is under way, its list of callbacks is not empty, and
\* until it delivers nothing else of its name is alive; what is alive is what
\* the cache has.
OneLoad ==
    /\ \A l \in Loads : Busy(l) => pending[name[l]] # <<>>
    /\ \A l, m \in Loads : Busy(l) /\ Busy(m) /\ name[l] = name[m] => l = m
    /\ \A l, m \in Loads :
           stage[l] \in {"reading", "event"} /\ Live(m) => name[m] # name[l]
    /\ \A l \in Loads : Live(l) => loaded[name[l]] = l
    /\ \A g \in held : got[g] \in Loads /\ stage[got[g]] \in {"delivering", "done"}

\* g is the callback in place i of the list of n.
Waits(g, n, i) == i \in 1 .. Len(pending[n]) /\ pending[n][i] = g

\* A callback waits in one place at most and, unless its list is being
\* delivered, has not been called; what is left of that list has not either.
CallsCounted ==
    /\ \A g \in Gets : calls[g] <= 1
    /\ \A g \in Gets \ asked : calls[g] = 0 /\ \A n \in Names, i \in Nat : ~Waits(g, n, i)
    /\ \A g \in Gets, n, k \in Names, i, j \in Nat :
           Waits(g, n, i) /\ Waits(g, k, j) => n = k /\ i = j
    /\ \A g \in Gets, n \in Names, i \in Nat :
           Waits(g, n, i) /\ calls[g] # 0 => \E l \in At("delivering") : name[l] = n
    /\ \A i, j \in 1 .. Len(left) : left[i] = left[j] => i = j
    /\ \A i \in 1 .. Len(left) : calls[left[i]] = 0 /\ left[i] \in asked
    /\ \A l \in At("delivering"), i \in 1 .. Len(left) :
           \E j \in 1 .. Len(pending[name[l]]) : pending[name[l]][j] = left[i]
    /\ \A l, m \in At("delivering") : l = m
    /\ left # <<>> => At("delivering") # {}

-----------------------------------------------------------------------------
(* Sets and sequences. *)

LEMMA CardAdd ==
    ASSUME NEW S, IsFiniteSet(S), NEW x, x \notin S
    PROVE  /\ IsFiniteSet(S \cup {x})
           /\ Cardinality(S) \in Nat /\ Cardinality(S \cup {x}) = Cardinality(S) + 1
  BY FS_AddElement, FS_CardinalityType

LEMMA CardRemove ==
    ASSUME NEW S, IsFiniteSet(S), NEW x \in S
    PROVE  /\ IsFiniteSet(S \ {x})
           /\ Cardinality(S) \in Nat /\ Cardinality(S) >= 1
           /\ Cardinality(S \ {x}) = Cardinality(S) - 1
<1>1. /\ IsFiniteSet(S \ {x}) /\ Cardinality(S \ {x}) = Cardinality(S) - 1
      /\ Cardinality(S) \in Nat
  BY FS_RemoveElement, FS_CardinalityType
<1>2. Cardinality(S) # 0
  BY FS_EmptySet
<1> QED
  BY <1>1, <1>2

LEMMA TailFacts ==
    ASSUME NEW T, NEW s \in Seq(T), s # <<>>
    PROVE  /\ Tail(s) \in Seq(T) /\ Len(Tail(s)) = Len(s) - 1 /\ Len(s) \in Nat
           /\ Len(s) >= 1 /\ Head(s) = s[1] /\ Head(s) \in T
           /\ \A i \in 1 .. Len(s) - 1 : Tail(s)[i] = s[i + 1]
  OBVIOUS

LEMMA AppendFacts ==
    ASSUME NEW T, NEW s \in Seq(T), NEW e \in T
    PROVE  /\ Append(s, e) \in Seq(T) /\ Len(Append(s, e)) = Len(s) + 1 /\ Len(s) \in Nat
           /\ Append(s, e)[Len(s) + 1] = e
           /\ \A i \in 1 .. Len(s) : Append(s, e)[i] = s[i]
  OBVIOUS

-----------------------------------------------------------------------------
LEMMA InitInv == Init => RefInv /\ OneLoad /\ CallsCounted
<1> SUFFICES ASSUME Init PROVE RefInv /\ OneLoad /\ CallsCounted
  OBVIOUS
<1>1. TypeOK
  BY DEF Init, TypeOK, Stages
<1>2. Closures = {} /\ opHeld = {} /\ At("reading") = {} /\ At("delivering") = {}
  BY DEF Init, Closures, At
<1>3. RefsCounted
  BY <1>2, FS_EmptySet DEF Init, RefsCounted
<1>4. OneLoad
  BY DEF Init, OneLoad, Busy, Live
<1>5. CallsCounted
  BY <1>2 DEF Init, CallsCounted, Waits
<1> QED
  BY <1>1, <1>3, <1>4, <1>5 DEF RefInv

\* The ways for the closures of the events to stay, to become one more and to
\* become one less.
LEMMA ClosuresStay ==
    ASSUME TypeOK, NEW l \in Loads, NEW s \in Stages, stage' = [stage EXCEPT ![l] = s],
           s \in {"event", "delivering"} <=> stage[l] \in {"event", "delivering"}
    PROVE  Closures' = Closures
  BY DEF Closures, At, TypeOK

LEMMA ClosureMore ==
    ASSUME TypeOK, NEW l \in Loads, stage[l] = "reading",
           stage' = [stage EXCEPT ![l] = "event"]
    PROVE  Closures' = Closures \cup {l} /\ l \notin Closures
  BY DEF Closures, At, TypeOK

LEMMA ClosureLess ==
    ASSUME TypeOK, NEW l \in Loads, stage[l] \in {"event", "delivering"},
           NEW s \in {"done", "failed"}, stage' = [stage EXCEPT ![l] = s]
    PROVE  Closures' = Closures \ {l} /\ l \in Closures
  BY DEF Closures, At, TypeOK

LEMMA InvokeType ==
    ASSUME TypeOK, NEW g \in Gets, NEW l \in Loads, Invoke(g, l)
    PROVE  /\ calls' \in [Gets -> Nat] /\ got' \in [Gets -> Loads \cup {None}]
           /\ held' \subseteq Gets
  BY DEF Invoke, TypeOK

LEMMA StepRef == RefInv /\ [Next]_vars => RefInv'
<1> SUFFICES ASSUME RefInv, [Next]_vars PROVE RefInv'
  OBVIOUS
<1> USE DEF RefInv
<1>0. TypeOK /\ RefsCounted
  OBVIOUS
<1>a. Cardinality(opHeld) \in Nat /\ Cardinality(Closures) \in Nat
  BY <1>0, FS_CardinalityType DEF RefsCounted
<1>1. ASSUME NEW n \in Names, NEW g \in Gets, GetCached(n, g) PROVE RefInv'
  <2>1. loaded[n] \in Loads
    BY <1>0, <1>1 DEF GetCached, Cached, TypeOK
  <2>2. TypeOK'
    BY <1>0, <1>1, <2>1, InvokeType DEF GetCached, TypeOK, regVars, loadVars
  <2>3. RefsCounted'
    BY <1>0, <1>1 DEF GetCached, RefsCounted, Closures, At, regVars, loadVars
  <2> QED
    BY <2>2, <2>3
<1>2. ASSUME NEW n \in Names, NEW g \in Gets, GetPending(n, g) PROVE RefInv'
  <2>1. pending' \in [Names -> Seq(Gets)]
    BY <1>0, <1>2, AppendFacts DEF GetPending, TypeOK
  <2>2. TypeOK'
    BY <1>0, <1>2, <2>1 DEF GetPending, TypeOK, regVars, loadVars, userVars
  <2>3. RefsCounted'
    BY <1>0, <1>2 DEF GetPending, RefsCounted, Closures, At, regVars, loadVars
  <2> QED
    BY <2>2, <2>3
<1>3. ASSUME NEW n \in Names, NEW g \in Gets, GetMissing(n, g) PROVE RefInv'
  <2>1. PICK l \in At("unused") :
            /\ stage' = [stage EXCEPT ![l] = "reading"]
            /\ name' = [name EXCEPT ![l] = n]
            /\ opHeld' = opHeld \cup {l}
    BY <1>3 DEF GetMissing, StartLoad
  <2>2. l \in Loads /\ stage[l] = "unused" /\ l \notin opHeld
    BY <1>0, <2>1 DEF At, RefsCounted
  <2>3. refs' = refs + 1 /\ pending' = [pending EXCEPT ![n] = <<g>>]
    BY <1>3 DEF GetMissing, StartLoad
  <2>4. TypeOK'
    BY <1>0, <1>3, <2>1, <2>2, <2>3 DEF GetMissing, TypeOK, Stages, userVars
  <2>5. Closures' = Closures
    BY <1>0, <2>1, <2>2, ClosuresStay DEF Stages
  <2>6. IsFiniteSet(opHeld') /\ Cardinality(opHeld') = Cardinality(opHeld) + 1
    BY <1>0, <2>1, <2>2, CardAdd DEF RefsCounted
  <2>7. /\ At("reading")' \subseteq opHeld'
        /\ \A m \in opHeld' : stage'[m] # "unused"
    BY <1>0, <2>1, <2>2 DEF At, RefsCounted, TypeOK
  <2>8. RefsCounted'
    BY <1>0, <1>3, <1>a, <2>3, <2>5, <2>6, <2>7 DEF GetMissing, RefsCounted
  <2> QED
    BY <2>4, <2>8
<1>4. ASSUME NEW l \in Loads, ReadSucceeds(l) PROVE RefInv'
  <2>1. TypeOK'
    BY <1>0, <1>4 DEF ReadSucceeds, TypeOK, Stages, userVars
  <2>2. Closures' = Closures \cup {l} /\ l \notin Closures
    BY <1>0, <1>4, ClosureMore DEF ReadSucceeds
  <2>3. IsFiniteSet(Closures') /\ Cardinality(Closures') = Cardinality(Closures) + 1
    BY <1>0, <2>2, CardAdd DEF RefsCounted
  <2>4. At("reading")' \subseteq opHeld' /\ \A m \in opHeld' : stage'[m] # "unused"
    BY <1>0, <1>4 DEF ReadSucceeds, At, RefsCounted, TypeOK
  <2>5. RefsCounted'
    BY <1>0, <1>4, <1>a, <2>3, <2>4 DEF ReadSucceeds, RefsCounted
  <2> QED
    BY <2>1, <2>5
<1>5. ASSUME NEW l \in Loads, ReadFails(l) PROVE RefInv'
  <2>1. TypeOK'
    BY <1>0, <1>5 DEF ReadFails, TypeOK, Stages, userVars, regVars
  <2>2. Closures' = Closures
    BY <1>0, <1>5, ClosuresStay DEF ReadFails, Stages
  <2>3. At("reading")' \subseteq opHeld' /\ \A m \in opHeld' : stage'[m] # "unused"
    BY <1>0, <1>5 DEF ReadFails, At, RefsCounted, TypeOK
  <2>4. RefsCounted'
    BY <1>0, <1>5, <2>2, <2>3 DEF ReadFails, RefsCounted, regVars
  <2> QED
    BY <2>1, <2>4
<1>6. ASSUME NEW l \in Loads, DestroyOp(l) PROVE RefInv'
  <2>1. Closures' = Closures
    BY <1>6 DEF DestroyOp, Closures, At
  <2>2. /\ IsFiniteSet(opHeld') /\ Cardinality(opHeld') = Cardinality(opHeld) - 1
        /\ Cardinality(opHeld) >= 1
    BY <1>0, <1>6, CardRemove DEF DestroyOp, RefsCounted
  <2>3. At("reading")' \subseteq opHeld' /\ \A m \in opHeld' : stage'[m] # "unused"
    BY <1>0, <1>6 DEF DestroyOp, At, RefsCounted
  <2>4. RefsCounted' /\ refs' \in Nat
    BY <1>0, <1>6, <1>a, <2>1, <2>2, <2>3 DEF DestroyOp, RefsCounted, TypeOK
  <2>5. TypeOK'
    BY <1>0, <1>6, <2>4 DEF DestroyOp, TypeOK, userVars
  <2> QED
    BY <2>4, <2>5
<1>7. ASSUME NEW l \in Loads, BeginDelivery(l) PROVE RefInv'
  <2>1. TypeOK'
    BY <1>0, <1>7 DEF BeginDelivery, TypeOK, Stages, userVars, regVars
  <2>2. Closures' = Closures
    BY <1>0, <1>7, ClosuresStay DEF BeginDelivery, Stages
  <2>3. At("reading")' \subseteq opHeld' /\ \A m \in opHeld' : stage'[m] # "unused"
    BY <1>0, <1>7 DEF BeginDelivery, At, RefsCounted, TypeOK
  <2>4. RefsCounted'
    BY <1>0, <1>7, <2>2, <2>3 DEF BeginDelivery, RefsCounted, regVars
  <2> QED
    BY <2>1, <2>4
<1>8. ASSUME NEW l \in Loads, ConstructionFails(l) \/ EndDelivery(l) PROVE RefInv'
  <2>1. PICK s \in {"done", "failed"} : stage' = [stage EXCEPT ![l] = s]
    BY <1>8 DEF ConstructionFails, EndDelivery
  <2>2. /\ stage[l] \in {"event", "delivering"} /\ refs' = refs - 1
        /\ UNCHANGED <<linked, opHeld>>
    BY <1>8 DEF ConstructionFails, EndDelivery
  <2>3. Closures' = Closures \ {l} /\ l \in Closures
    BY <1>0, <2>1, <2>2, ClosureLess
  <2>4. /\ IsFiniteSet(Closures') /\ Cardinality(Closures') = Cardinality(Closures) - 1
        /\ Cardinality(Closures) >= 1
    BY <1>0, <2>3, CardRemove DEF RefsCounted
  <2>5. At("reading")' \subseteq opHeld' /\ \A m \in opHeld' : stage'[m] # "unused"
    BY <1>0, <2>1, <2>2 DEF At, RefsCounted, TypeOK
  <2>a. /\ refs' = (IF linked' THEN 1 ELSE 0) + Cardinality(opHeld') + Cardinality(Closures')
        /\ refs' \in Nat
    BY <1>0, <1>a, <2>2, <2>4 DEF RefsCounted, TypeOK
  <2>6. RefsCounted' /\ refs' \in Nat
    BY <1>0, <2>2, <2>4, <2>5, <2>a DEF RefsCounted
  <2>7. pending' \in [Names -> Seq(Gets)]
    BY <1>0, <1>8 DEF ConstructionFails, EndDelivery, TypeOK
  <2>8. TypeOK'
    BY <1>0, <1>8, <2>1, <2>6, <2>7 DEF ConstructionFails, EndDelivery, TypeOK, Stages, userVars
  <2> QED
    BY <2>6, <2>8
<1>9. ASSUME NEW l \in Loads, CallBack(l) PROVE RefInv'
  <2>1. left' \in Seq(Gets) /\ Head(left) \in Gets
    BY <1>0, <1>9, TailFacts DEF CallBack, TypeOK
  <2>2. TypeOK'
    BY <1>0, <1>9, <2>1, InvokeType DEF CallBack, TypeOK, regVars, loadVars
  <2>3. RefsCounted'
    BY <1>0, <1>9 DEF CallBack, RefsCounted, Closures, At, regVars, loadVars
  <2> QED
    BY <2>2, <2>3
<1>10. ASSUME NEW g \in Gets, Release(g) PROVE RefInv'
  <2>1. TypeOK'
    BY <1>0, <1>10 DEF Release, TypeOK, regVars, loadVars
  <2>2. RefsCounted'
    BY <1>0, <1>10 DEF Release, RefsCounted, Closures, At, regVars, loadVars
  <2> QED
    BY <2>1, <2>2
<1>11. CASE Remove
  <2>1. RefsCounted' /\ refs' \in Nat
    BY <1>0, <1>11, <1>a DEF Remove, RefsCounted, Closures, At, loadVars, TypeOK
  <2>2. TypeOK'
    BY <1>0, <1>11, <2>1 DEF Remove, TypeOK, loadVars, userVars
  <2> QED
    BY <2>1, <2>2
<1>12. CASE UNCHANGED vars
  BY <1>0, <1>12
  DEF vars, regVars, loadVars, userVars, TypeOK, RefsCounted, Closures, At
<1> QED
  BY <1>1, <1>2, <1>3, <1>4, <1>5, <1>6, <1>7, <1>8, <1>9, <1>10, <1>11, <1>12
  DEF Next, LoadStep

-----------------------------------------------------------------------------
\* The steps after which nothing is alive that was not before, and what is
\* under way is what it was, or less.
LEMMA NothingNew ==
    ASSUME TypeOK, OneLoad, UNCHANGED <<loaded, name>>,
           \A l \in Loads : Live(l)' => Live(l),
           \A l \in Loads : Busy(l)' => Busy(l) /\ pending'[name[l]] # <<>>,
           \A l \in Loads : stage'[l] \in {"reading", "event"} => stage[l] \in {"reading", "event"},
           \A g \in held' : got'[g] \in Loads /\ stage'[got'[g]] \in {"delivering", "done"}
    PROVE  OneLoad'
<1>1. \A l \in Loads : Busy(l)' => pending'[name'[l]] # <<>>
  OBVIOUS
<1>2. \A l, m \in Loads : Busy(l)' /\ Busy(m)' /\ name'[l] = name'[m] => l = m
  BY DEF OneLoad
<1>3. \A l, m \in Loads :
          stage'[l] \in {"reading", "event"} /\ Live(m)' => name'[m] # name'[l]
  BY DEF OneLoad
<1>4. \A l \in Loads : Live(l)' => loaded'[name'[l]] = l
  BY DEF OneLoad
<1> QED
  BY <1>1, <1>2, <1>3, <1>4 DEF OneLoad

\* A callback that is called with something alive makes nothing else alive.
LEMMA InvokeLive ==
    ASSUME TypeOK, OneLoad, NEW g \in Gets, NEW l \in Loads, Live(l), Invoke(g, l),
           stage' = stage
    PROVE  /\ \A m \in Loads : Live(m)' => Live(m)
           /\ \A h \in held' : got'[h] \in Loads /\ stage'[got'[h]] \in {"delivering", "done"}
<1>1. stage[l] \in {"delivering", "done"}
  BY DEF Live, OneLoad
<1>2. got' \in [Gets -> Loads \cup {None}] /\ got'[g] = l
      /\ \A h \in Gets \ {g} : got'[h] = got[h]
  BY DEF Invoke, TypeOK
<1>3. held' \subseteq held \cup {g} /\ held \subseteq Gets
  BY DEF Invoke, TypeOK
<1>4. ASSUME NEW m \in Loads, Live(m)' PROVE Live(m)
  BY <1>2, <1>3, <1>4 DEF Live
<1>5. ASSUME NEW h \in held'
      PROVE  got'[h] \in Loads /\ stage'[got'[h]] \in {"delivering", "done"}
  BY <1>1, <1>2, <1>3, <1>5 DEF OneLoad
<1> QED
  BY <1>4, <1>5

LEMMA StepOneLoad == TypeOK /\ OneLoad /\ [Next]_vars => OneLoad'
<1> SUFFICES ASSUME TypeOK, OneLoad, [Next]_vars PROVE OneLoad'
  OBVIOUS
<1>1. ASSUME NEW n \in Names, NEW g \in Gets, GetCached(n, g) PROVE OneLoad'
  <2>1. loaded[n] \in Loads /\ Live(loaded[n])
    BY <1>1 DEF GetCached, Cached, TypeOK
  <2>2. Invoke(g, loaded[n]) /\ UNCHANGED <<loaded, name, stage, pending>>
    BY <1>1 DEF GetCached, loadVars
  <2>3. \A l \in Loads : Busy(l)' => Busy(l) /\ pending'[name[l]] # <<>>
    BY <2>2 DEF Busy, OneLoad
  <2> QED
    BY <2>1, <2>2, <2>3, InvokeLive, NothingNew
<1>2. ASSUME NEW n \in Names, NEW g \in Gets, GetPending(n, g) PROVE OneLoad'
  <2>1. UNCHANGED <<loaded, name, stage, got, held>>
    BY <1>2 DEF GetPending, loadVars, userVars
  <2>2. pending' = [pending EXCEPT ![n] = Append(@, g)]
    BY <1>2 DEF GetPending
  <2>3. Append(pending[n], g) # <<>>
    <3>1. pending[n] \in Seq(Gets)
      BY DEF TypeOK
    <3>2. Len(Append(pending[n], g)) = Len(pending[n]) + 1 /\ Len(pending[n]) \in Nat
      BY <3>1, AppendFacts
    <3> QED
      BY <3>2
  <2>4. \A l \in Loads : Busy(l)' => Busy(l) /\ pending'[name[l]] # <<>>
    BY <2>1, <2>2, <2>3 DEF Busy, OneLoad, TypeOK
  <2>5. \A l \in Loads : Live(l)' => Live(l)
    BY <2>1 DEF Live
  <2> QED
    BY <2>1, <2>4, <2>5, NothingNew DEF OneLoad
<1>3. ASSUME NEW n \in Names, NEW g \in Gets, GetMissing(n, g) PROVE OneLoad'
  <2>1. PICK l \in At("unused") :
            /\ stage' = [stage EXCEPT ![l] = "reading"]
            /\ name' = [name EXCEPT ![l] = n]
    BY <1>3 DEF GetMissing, StartLoad
  <2>2. l \in Loads /\ stage[l] = "unused"
    BY <2>1 DEF At
  <2>3. /\ pending' = [pending EXCEPT ![n] = <<g>>] /\ pending[n] = <<>>
        /\ ~Cached(n) /\ UNCHANGED <<loaded, calls, got, held>>
    BY <1>3 DEF GetMissing, StartLoad, userVars
  <2>4. \A m \in Loads : Live(m)' => Live(m) /\ m # l
    BY <2>1, <2>2, <2>3 DEF Live, OneLoad, TypeOK
  <2>5. \A m \in Loads : Live(m) => name[m] # n
    BY <2>3, NoneIsNoLoad DEF Cached, OneLoad
  <2>6. \A m \in Loads : Busy(m) => name[m] # n
    BY <2>3 DEF OneLoad
  <2>7. /\ name'[l] = n /\ \A m \in Loads \ {l} : name'[m] = name[m] /\ stage'[m] = stage[m]
        /\ pending'[n] # <<>> /\ \A k \in Names \ {n} : pending'[k] = pending[k]
    BY <2>1, <2>2, <2>3 DEF TypeOK
  <2>8. \A m \in Loads : Busy(m)' => m = l \/ Busy(m)
    BY <2>7 DEF Busy
  <2>9. \A m \in Loads : Busy(m)' => pending'[name'[m]] # <<>>
    <3>1. ASSUME NEW m \in Loads, Busy(m)', m # l PROVE pending'[name'[m]] # <<>>
      <4>1. Busy(m) /\ name'[m] = name[m] /\ name[m] # n /\ name[m] \in Names
        BY <2>6, <2>7, <2>8, <3>1 DEF TypeOK
      <4> QED
        BY <2>7, <4>1 DEF OneLoad
    <3> QED
      BY <2>7, <3>1
  <2>10. \A k, m \in Loads : Busy(k)' /\ Busy(m)' /\ name'[k] = name'[m] => k = m
    BY <2>6, <2>7, <2>8 DEF OneLoad
  <2>11. \A k, m \in Loads :
            stage'[k] \in {"reading", "event"} /\ Live(m)' => name'[m] # name'[k]
    BY <2>4, <2>5, <2>7 DEF OneLoad
  <2>12. \A m \in Loads : Live(m)' => loaded'[name'[m]] = m
    BY <2>3, <2>4, <2>7 DEF OneLoad
  <2>13. \A h \in held' : got'[h] \in Loads /\ stage'[got'[h]] \in {"delivering", "done"}
    BY <2>2, <2>3, <2>7 DEF OneLoad
  <2> QED
    BY <2>9, <2>10, <2>11, <2>12, <2>13 DEF OneLoad
<1>4. ASSUME NEW l \in Loads, ReadSucceeds(l) \/ ReadFails(l) \/ ConstructionFails(l)
      PROVE  OneLoad'
  <2>1. /\ stage[l] \in {"reading", "event"}
        /\ \/ stage' = [stage EXCEPT ![l] = "event"] /\ stage[l] = "reading"
           \/ stage' = [stage EXCEPT ![l] = "failed"]
        /\ UNCHANGED <<loaded, name, pending, got, held>>
    BY <1>4 DEF ReadSucceeds, ReadFails, ConstructionFails, userVars
  <2>2. \A m \in Loads : Live(m)' => Live(m)
    BY <2>1 DEF Live, TypeOK
  <2>3. \A m \in Loads : Busy(m)' => Busy(m) /\ pending'[name[m]] # <<>>
    BY <2>1 DEF Busy, OneLoad, TypeOK
  <2>4. \A m \in Loads : stage'[m] \in {"reading", "event"} => stage[m] \in {"reading", "event"}
    BY <2>1 DEF TypeOK
  <2>5. \A h \in held' : got'[h] \in Loads /\ stage'[got'[h]] \in {"delivering", "done"}
    BY <2>1 DEF OneLoad, TypeOK
  <2> QED
    BY <2>1, <2>2, <2>3, <2>4, <2>5, NothingNew
<1>5. ASSUME NEW l \in Loads, BeginDelivery(l) PROVE OneLoad'
  <2>1. /\ stage[l] = "event" /\ stage' = [stage EXCEPT ![l] = "delivering"]
        /\ loaded' = [loaded EXCEPT ![name[l]] = l]
        /\ UNCHANGED <<name, pending, got, held>>
    BY <1>5 DEF BeginDelivery, userVars
  <2>2. \A m \in Loads : Live(m)' => m = l \/ Live(m)
    BY <2>1 DEF Live, TypeOK
  <2>3. \A m \in Loads : Busy(m)' => Busy(m)
    BY <2>1 DEF Busy, TypeOK
  <2>4. \A m \in Loads :
            stage'[m] \in {"reading", "event"} => stage[m] \in {"reading", "event"} /\ m # l
    BY <2>1 DEF TypeOK
  <2>5. Busy(l)
    BY <2>1 DEF Busy
  <2>6. \A k, m \in Loads :
            stage'[k] \in {"reading", "event"} /\ Live(m)' => name'[m] # name'[k]
    BY <2>1, <2>2, <2>4, <2>5 DEF OneLoad, Busy
  <2>7. \A m \in Loads : Live(m)' => loaded'[name'[m]] = m
    BY <2>1, <2>2 DEF OneLoad, TypeOK
  <2>8. \A h \in held' : got'[h] \in Loads /\ stage'[got'[h]] \in {"delivering", "done"}
    BY <2>1 DEF OneLoad, TypeOK
  <2> QED
    BY <2>1, <2>3, <2>6, <2>7, <2>8 DEF OneLoad
<1>6. ASSUME NEW l \in Loads, CallBack(l) PROVE OneLoad'
  <2>1. Live(l) /\ Head(left) \in Gets
    BY <1>6, TailFacts DEF CallBack, Live, TypeOK
  <2>2. Invoke(Head(left), l) /\ UNCHANGED <<loaded, name, stage, pending>>
    BY <1>6 DEF CallBack, loadVars
  <2>3. \A m \in Loads : Busy(m)' => Busy(m) /\ pending'[name[m]] # <<>>
    BY <2>2 DEF Busy, OneLoad
  <2> QED
    BY <2>1, <2>2, <2>3, InvokeLive, NothingNew
<1>7. ASSUME NEW l \in Loads, EndDelivery(l) PROVE OneLoad'
  <2>1. /\ stage[l] = "delivering" /\ stage' = [stage EXCEPT ![l] = "done"]
        /\ pending' = [pending EXCEPT ![name[l]] = <<>>]
        /\ UNCHANGED <<loaded, name, got, held>>
    BY <1>7 DEF EndDelivery, userVars
  <2>2. \A m \in Loads : Live(m)' => Live(m)
    BY <2>1 DEF Live, TypeOK
  <2>3. \A m \in Loads : Busy(m)' => Busy(m) /\ m # l
    BY <2>1 DEF Busy, TypeOK
  <2>4. \A m \in Loads : Busy(m)' => name[m] # name[l] /\ pending'[name[m]] # <<>>
    BY <2>1, <2>3 DEF Busy, OneLoad, TypeOK
  <2>5. \A m \in Loads : stage'[m] \in {"reading", "event"} => stage[m] \in {"reading", "event"}
    BY <2>1 DEF TypeOK
  <2>6. \A h \in held' : got'[h] \in Loads /\ stage'[got'[h]] \in {"delivering", "done"}
    BY <2>1 DEF OneLoad, TypeOK
  <2> QED
    BY <2>1, <2>2, <2>3, <2>4, <2>5, <2>6, NothingNew
<1>8. ASSUME UNCHANGED <<loaded, pending, name, stage, got>>, held' \subseteq held
      PROVE  OneLoad'
  <2>1. \A m \in Loads : Live(m)' => Live(m)
    BY <1>8 DEF Live
  <2>2. \A m \in Loads : Busy(m)' => Busy(m) /\ pending'[name[m]] # <<>>
    BY <1>8 DEF Busy, OneLoad
  <2>3. \A h \in held' : got'[h] \in Loads /\ stage'[got'[h]] \in {"delivering", "done"}
    BY <1>8 DEF OneLoad
  <2> QED
    BY <1>8, <2>1, <2>2, <2>3, NothingNew
<1>9. ASSUME NEW l \in Loads, DestroyOp(l) PROVE OneLoad'
  BY <1>8, <1>9 DEF DestroyOp, userVars
<1>10. ASSUME NEW g \in Gets, Release(g) PROVE OneLoad'
  BY <1>8, <1>10 DEF Release, loadVars
<1>11. ASSUME Remove PROVE OneLoad'
  BY <1>8, <1>11 DEF Remove, loadVars, userVars
<1>12. CASE UNCHANGED vars
  BY <1>8, <1>12 DEF vars, loadVars, userVars
<1> QED
  BY <1>1, <1>2, <1>3, <1>4, <1>5, <1>6, <1>7, <1>9, <1>10, <1>11, <1>12
  DEF Next, LoadStep

-----------------------------------------------------------------------------
\* Steps that begin and end no delivery and touch no callback.
LEMMA CallsStay ==
    ASSUME CallsCounted, UNCHANGED <<calls, pending, left, asked, name>>,
           \A l \in Loads : stage'[l] = "delivering" <=> stage[l] = "delivering"
    PROVE  CallsCounted'
<1>1. At("delivering")' = At("delivering")
  BY DEF At
<1>2. \A g \in Gets, n \in Names, i \in Nat : Waits(g, n, i)' <=> Waits(g, n, i)
  BY DEF Waits
<1>3. /\ \A g \in Gets \ asked' :
             calls'[g] = 0 /\ \A n \in Names, i \in Nat : ~Waits(g, n, i)'
      /\ \A g \in Gets, n, k \in Names, i, j \in Nat :
             Waits(g, n, i)' /\ Waits(g, k, j)' => n = k /\ i = j
      /\ \A g \in Gets, n \in Names, i \in Nat :
             Waits(g, n, i)' /\ calls'[g] # 0 => \E l \in At("delivering")' : name'[l] = n
  BY <1>1, <1>2 DEF CallsCounted
<1>4. /\ \A g \in Gets : calls'[g] <= 1
      /\ \A i, j \in 1 .. Len(left') : left'[i] = left'[j] => i = j
      /\ \A i \in 1 .. Len(left') : calls'[left'[i]] = 0 /\ left'[i] \in asked'
      /\ \A l \in At("delivering")', i \in 1 .. Len(left') :
             \E j \in 1 .. Len(pending'[name'[l]]) : pending'[name'[l]][j] = left'[i]
      /\ \A l, m \in At("delivering")' : l = m
      /\ left' # <<>> => At("delivering")' # {}
  BY <1>1 DEF CallsCounted
<1> QED
  BY <1>3, <1>4 DEF CallsCounted

\* A get that is made joins a list, as its last, and nothing else changes but,
\* maybe, the name of a load that delivers nothing.
LEMMA JoinList ==
    ASSUME TypeOK, CallsCounted, NEW n \in Names, NEW g \in Gets \ asked,
           NEW new \in Seq(Gets), pending' = [pending EXCEPT ![n] = new],
           Len(new) = Len(pending[n]) + 1, new[Len(new)] = g,
           \A i \in 1 .. Len(pending[n]) : new[i] = pending[n][i],
           asked' = asked \cup {g}, UNCHANGED <<calls, left>>,
           \A l \in Loads : stage'[l] = "delivering" <=> stage[l] = "delivering",
           \A l \in At("delivering") : name'[l] = name[l]
    PROVE  CallsCounted'
<1>1. At("delivering")' = At("delivering")
  BY DEF At
<1>2. \A k \in Names : pending[k] \in Seq(Gets) /\ Len(pending[k]) \in Nat
  BY DEF TypeOK
<1>3. \A h \in Gets, k \in Names, i \in Nat :
          Waits(h, k, i)' <=> Waits(h, k, i) \/ (h = g /\ k = n /\ i = Len(pending[n]) + 1)
  <2> SUFFICES ASSUME NEW h \in Gets, NEW k \in Names, NEW i \in Nat
               PROVE  Waits(h, k, i)' <=>
                          Waits(h, k, i) \/ (h = g /\ k = n /\ i = Len(pending[n]) + 1)
    OBVIOUS
  <2>1. CASE k # n
    <3>1. pending'[k] = pending[k]
      BY <2>1 DEF TypeOK
    <3> QED
      BY <2>1, <3>1 DEF Waits
  <2>2. CASE k = n
    <3>1. pending'[k] = new
      BY <2>2 DEF TypeOK
    <3>2. i \in 1 .. Len(new) <=> i \in 1 .. Len(pending[n]) \/ i = Len(pending[n]) + 1
      BY <1>2
    <3>3. Len(pending[n]) + 1 \notin 1 .. Len(pending[n])
      BY <1>2
    <3> QED
      BY <2>2, <3>1, <3>2, <3>3 DEF Waits
  <2> QED
    BY <2>1, <2>2
<1>4. calls[g] = 0 /\ \A k \in Names, i \in Nat : ~Waits(g, k, i)
  BY DEF CallsCounted
<1>5. \A h \in Gets \ asked' :
          calls'[h] = 0 /\ \A k \in Names, i \in Nat : ~Waits(h, k, i)'
  BY <1>3 DEF CallsCounted
<1>6. \A h \in Gets, k, m \in Names, i, j \in Nat :
          Waits(h, k, i)' /\ Waits(h, m, j)' => k = m /\ i = j
  BY <1>3, <1>4 DEF CallsCounted
<1>7. \A h \in Gets, k \in Names, i \in Nat :
          Waits(h, k, i)' /\ calls'[h] # 0 => \E l \in At("delivering")' : name'[l] = k
  BY <1>1, <1>3, <1>4 DEF CallsCounted
<1>8. ASSUME NEW l \in At("delivering")', NEW i \in 1 .. Len(left')
      PROVE  \E j \in 1 .. Len(pending'[name'[l]]) : pending'[name'[l]][j] = left'[i]
  <2>1. PICK j \in 1 .. Len(pending[name[l]]) : pending[name[l]][j] = left[i]
    BY <1>1, <1>8 DEF CallsCounted
  <2>2. name[l] \in Names /\ name'[l] = name[l] /\ left' = left
    BY <1>1, <1>8 DEF TypeOK, At
  <2>3. CASE name[l] # n
    BY <2>1, <2>2, <2>3 DEF TypeOK
  <2>4. CASE name[l] = n
    <3>1. j \in 1 .. Len(new) /\ new[j] = left'[i]
      BY <1>2, <2>1, <2>2, <2>4
    <3> QED
      BY <2>2, <2>4, <3>1 DEF TypeOK
  <2> QED
    BY <2>3, <2>4
<1>9. /\ \A h \in Gets : calls'[h] <= 1
      /\ \A i, j \in 1 .. Len(left') : left'[i] = left'[j] => i = j
      /\ \A i \in 1 .. Len(left') : calls'[left'[i]] = 0 /\ left'[i] \in asked'
      /\ \A l, m \in At("delivering")' : l = m
      /\ left' # <<>> => At("delivering")' # {}
  BY <1>1 DEF CallsCounted
<1> QED
  BY <1>5, <1>6, <1>7, <1>8, <1>9 DEF CallsCounted

LEMMA StepCalls == TypeOK /\ CallsCounted /\ [Next]_vars => CallsCounted'
<1> SUFFICES ASSUME TypeOK, CallsCounted, [Next]_vars PROVE CallsCounted'
  OBVIOUS
<1>a. \A n \in Names : pending[n] \in Seq(Gets) /\ Len(pending[n]) \in Nat
  BY DEF TypeOK
<1>b. left \in Seq(Gets) /\ Len(left) \in Nat
  BY DEF TypeOK
<1>1. ASSUME NEW n \in Names, NEW g \in Gets, GetCached(n, g) PROVE CallsCounted'
  <2>1. /\ calls' = [calls EXCEPT ![g] = @ + 1] /\ asked' = asked \cup {g} /\ g \notin asked
        /\ UNCHANGED <<pending, left, name, stage>>
    BY <1>1 DEF GetCached, Invoke, loadVars
  <2>2. At("delivering")' = At("delivering")
    BY <2>1 DEF At
  <2>3. \A h \in Gets, k \in Names, i \in Nat : Waits(h, k, i)' <=> Waits(h, k, i)
    BY <2>1 DEF Waits
  <2>4. /\ calls'[g] = 1 /\ \A h \in Gets \ {g} : calls'[h] = calls[h]
        /\ \A k \in Names, i \in Nat : ~Waits(g, k, i)
    BY <2>1 DEF CallsCounted, TypeOK
  <2>5. \A h \in Gets : calls'[h] <= 1
    BY <2>4 DEF CallsCounted
  <2>6. \A h \in Gets \ asked' :
            calls'[h] = 0 /\ \A k \in Names, i \in Nat : ~Waits(h, k, i)'
    BY <2>1, <2>3, <2>4 DEF CallsCounted
  <2>7. \A h \in Gets, k, m \in Names, i, j \in Nat :
            Waits(h, k, i)' /\ Waits(h, m, j)' => k = m /\ i = j
    BY <2>3 DEF CallsCounted
  <2>8. \A h \in Gets, k \in Names, i \in Nat :
            Waits(h, k, i)' /\ calls'[h] # 0 => \E l \in At("delivering")' : name'[l] = k
    BY <2>1, <2>2, <2>3, <2>4 DEF CallsCounted
  <2>9. \A i \in 1 .. Len(left') : calls'[left'[i]] = 0 /\ left'[i] \in asked'
    <3>1. ASSUME NEW i \in 1 .. Len(left) PROVE calls'[left[i]] = 0 /\ left[i] \in asked'
      <4>1. left[i] \in Gets /\ left[i] \in asked /\ calls[left[i]] = 0
        BY <1>b, <3>1 DEF CallsCounted
      <4> QED
        BY <2>1, <2>4, <4>1
    <3> QED
      BY <2>1, <3>1
  <2>10. \A l \in At("delivering")', i \in 1 .. Len(left') :
             \E j \in 1 .. Len(pending'[name'[l]]) : pending'[name'[l]][j] = left'[i]
    BY <2>1, <2>2 DEF CallsCounted
  <2>11. /\ \A i, j \in 1 .. Len(left') : left'[i] = left'[j] => i = j
         /\ \A l, m \in At("delivering")' : l = m
         /\ left' # <<>> => At("delivering")' # {}
    BY <2>1, <2>2 DEF CallsCounted
  <2> QED
    BY <2>5, <2>6, <2>7, <2>8, <2>9, <2>10, <2>11 DEF CallsCounted
<1>2. ASSUME NEW n \in Names, NEW g \in Gets, GetPending(n, g) PROVE CallsCounted'
  <2>1. /\ pending' = [pending EXCEPT ![n] = Append(pending[n], g)]
        /\ asked' = asked \cup {g} /\ g \in Gets \ asked
        /\ UNCHANGED <<calls, left, name, stage>>
    BY <1>2 DEF GetPending, loadVars, userVars, TypeOK
  <2>2. /\ Append(pending[n], g) \in Seq(Gets)
        /\ Len(Append(pending[n], g)) = Len(pending[n]) + 1
        /\ Append(pending[n], g)[Len(Append(pending[n], g))] = g
        /\ \A i \in 1 .. Len(pending[n]) : Append(pending[n], g)[i] = pending[n][i]
    BY <1>a, AppendFacts
  <2> QED
    BY <2>1, <2>2, JoinList
<1>3. ASSUME NEW n \in Names, NEW g \in Gets, GetMissing(n, g) PROVE CallsCounted'
  <2>1. PICK l \in At("unused") :
            stage' = [stage EXCEPT ![l] = "reading"] /\ name' = [name EXCEPT ![l] = n]
    BY <1>3 DEF GetMissing, StartLoad
  <2>2. /\ pending' = [pending EXCEPT ![n] = <<g>>] /\ pending[n] = <<>>
        /\ asked' = asked \cup {g} /\ g \in Gets \ asked
        /\ UNCHANGED <<calls, left>>
    BY <1>3 DEF GetMissing, StartLoad, userVars
  <2>3. /\ \A m \in Loads : stage'[m] = "delivering" <=> stage[m] = "delivering"
        /\ \A m \in At("delivering") : name'[m] = name[m]
    BY <2>1 DEF At, TypeOK
  <2>4. /\ <<g>> \in Seq(Gets) /\ Len(<<g>>) = Len(pending[n]) + 1 /\ <<g>>[Len(<<g>>)] = g
        /\ \A i \in 1 .. Len(pending[n]) : <<g>>[i] = pending[n][i]
    BY <2>2
  <2> QED
    BY <2>2, <2>3, <2>4, JoinList
<1>4. ASSUME NEW l \in Loads, ReadSucceeds(l) \/ ReadFails(l) \/ ConstructionFails(l)
      PROVE  CallsCounted'
  <2>1. /\ stage[l] \in {"reading", "event"}
        /\ \E s \in {"event", "failed"} : stage' = [stage EXCEPT ![l] = s]
        /\ UNCHANGED <<calls, pending, left, asked, name>>
    BY <1>4 DEF ReadSucceeds, ReadFails, ConstructionFails, userVars
  <2>2. \A m \in Loads : stage'[m] = "delivering" <=> stage[m] = "delivering"
    BY <2>1 DEF TypeOK
  <2> QED
    BY <2>1, <2>2, CallsStay
<1>5. ASSUME NEW l \in Loads, BeginDelivery(l) PROVE CallsCounted'
  <2>1. /\ stage' = [stage EXCEPT ![l] = "delivering"] /\ left' = pending[name[l]]
        /\ At("delivering") = {} /\ name[l] \in Names
        /\ UNCHANGED <<calls, pending, asked, name>>
    BY <1>5 DEF BeginDelivery, userVars, TypeOK
  <2>2. At("delivering")' = {l}
    BY <2>1 DEF At, TypeOK
  <2>3. \A g \in Gets, n \in Names, i \in Nat : Waits(g, n, i)' <=> Waits(g, n, i)
    BY <2>1 DEF Waits
  <2> DEFINE list == pending[name[l]]
  <2>4. \A i \in 1 .. Len(list) : list[i] \in Gets /\ i \in Nat /\ Waits(list[i], name[l], i)
    BY <1>a, <2>1 DEF Waits
  <2>5. \A i \in 1 .. Len(list) : calls[list[i]] = 0 /\ list[i] \in asked
    BY <2>1, <2>4 DEF CallsCounted
  <2>6. \A i, j \in 1 .. Len(list) : list[i] = list[j] => i = j
    BY <2>1, <2>4 DEF CallsCounted
  <2>7. /\ \A i \in 1 .. Len(left') : calls'[left'[i]] = 0 /\ left'[i] \in asked'
        /\ \A i, j \in 1 .. Len(left') : left'[i] = left'[j] => i = j
        /\ \A m \in At("delivering")', i \in 1 .. Len(left') :
               \E j \in 1 .. Len(pending'[name'[m]]) : pending'[name'[m]][j] = left'[i]
        /\ \A k, m \in At("delivering")' : k = m
        /\ At("delivering")' # {}
    BY <2>1, <2>2, <2>5, <2>6
  <2>8. /\ \A g \in Gets : calls'[g] <= 1
        /\ \A g \in Gets \ asked' :
               calls'[g] = 0 /\ \A n \in Names, i \in Nat : ~Waits(g, n, i)'
        /\ \A g \in Gets, n, k \in Names, i, j \in Nat :
               Waits(g, n, i)' /\ Waits(g, k, j)' => n = k /\ i = j
        /\ \A g \in Gets, n \in Names, i \in Nat : Waits(g, n, i)' => calls'[g] = 0
    BY <2>1, <2>3 DEF CallsCounted
  <2> QED
    BY <2>7, <2>8 DEF CallsCounted
<1>6. ASSUME NEW l \in Loads, CallBack(l) PROVE CallsCounted'
  <2> DEFINE g == left[1]
  <2>1. /\ calls' = [calls EXCEPT ![Head(left)] = @ + 1] /\ left' = Tail(left)
        /\ left # <<>> /\ stage[l] = "delivering"
        /\ UNCHANGED <<pending, asked, name, stage>>
    BY <1>6 DEF CallBack, Invoke, loadVars
  <2>2. /\ g \in Gets /\ Head(left) = g /\ Len(left) >= 1
        /\ Len(left') = Len(left) - 1
        /\ \A i \in 1 .. Len(left) - 1 : left'[i] = left[i + 1]
    BY <1>b, <2>1, TailFacts
  <2>3. calls[g] = 0 /\ g \in asked
    BY <1>b, <2>2 DEF CallsCounted
  <2>4. calls'[g] = 1 /\ \A h \in Gets \ {g} : calls'[h] = calls[h]
    BY <2>1, <2>2, <2>3 DEF TypeOK
  <2>5. At("delivering")' = At("delivering") /\ l \in At("delivering")
    BY <2>1 DEF At
  <2>6. \A h \in Gets, n \in Names, i \in Nat : Waits(h, n, i)' <=> Waits(h, n, i)
    BY <2>1 DEF Waits
  <2>7. PICK j \in Nat : Waits(g, name[l], j)
    BY <1>b, <2>2, <2>5 DEF CallsCounted, Waits
  <2>8. \A h \in Gets, n \in Names, i \in Nat :
            Waits(h, n, i)' /\ calls'[h] # 0 => \E m \in At("delivering")' : name'[m] = n
    <3>1. name[l] \in Names
      BY DEF TypeOK
    <3>2. \A n \in Names, i \in Nat : Waits(g, n, i) => n = name[l]
      BY <2>2, <2>7, <3>1 DEF CallsCounted
    <3>3. ASSUME NEW h \in Gets, NEW n \in Names, NEW i \in Nat, Waits(h, n, i), calls'[h] # 0
          PROVE  \E m \in At("delivering") : name[m] = n
      <4>1. CASE h = g
        BY <2>5, <3>2, <3>3, <4>1
      <4>2. CASE h # g
        BY <2>4, <3>3, <4>2 DEF CallsCounted
      <4> QED
        BY <4>1, <4>2
    <3> QED
      BY <2>1, <2>5, <2>6, <3>3
  <2>9. \A i \in 1 .. Len(left') :
            /\ i + 1 \in 1 .. Len(left) /\ i + 1 # 1
            /\ left'[i] = left[i + 1] /\ left[i + 1] \in Gets
    BY <1>b, <2>2
  <2>10. \A i \in 1 .. Len(left') : left'[i] # g
    BY <1>b, <2>2, <2>9 DEF CallsCounted
  <2>11. \A i \in 1 .. Len(left') : calls'[left'[i]] = 0 /\ left'[i] \in asked'
    BY <2>1, <2>4, <2>9, <2>10 DEF CallsCounted
  <2>12. ASSUME NEW i \in 1 .. Len(left'), NEW k \in 1 .. Len(left'), left'[i] = left'[k]
         PROVE  i = k
    <3>1. left[i + 1] = left[k + 1] /\ i + 1 \in 1 .. Len(left) /\ k + 1 \in 1 .. Len(left)
      BY <2>9, <2>12
    <3>2. i + 1 = k + 1
      BY <3>1 DEF CallsCounted
    <3> QED
      BY <3>2
  <2>13. \A m \in At("delivering")', i \in 1 .. Len(left') :
             \E k \in 1 .. Len(pending'[name'[m]]) : pending'[name'[m]][k] = left'[i]
    <3>1. ASSUME NEW m \in At("delivering"), NEW i \in 1 .. Len(left')
          PROVE  \E k \in 1 .. Len(pending[name[m]]) : pending[name[m]][k] = left[i + 1]
      BY <2>9, <3>1 DEF CallsCounted
    <3> QED
      BY <2>1, <2>5, <2>9, <3>1
  <2>14. /\ \A h \in Gets : calls'[h] <= 1
         /\ \A h \in Gets \ asked' :
                calls'[h] = 0 /\ \A n \in Names, i \in Nat : ~Waits(h, n, i)'
         /\ \A h \in Gets, n, k \in Names, i, m \in Nat :
                Waits(h, n, i)' /\ Waits(h, k, m)' => n = k /\ i = m
         /\ \A k, m \in At("delivering")' : k = m
         /\ left' # <<>> => At("delivering")' # {}
    BY <2>1, <2>3, <2>4, <2>5, <2>6 DEF CallsCounted
  <2> QED
    BY <2>8, <2>11, <2>12, <2>13, <2>14 DEF CallsCounted
<1>7. ASSUME NEW l \in Loads, EndDelivery(l) PROVE CallsCounted'
  <2>1. /\ stage[l] = "delivering" /\ stage' = [stage EXCEPT ![l] = "done"]
        /\ pending' = [pending EXCEPT ![name[l]] = <<>>] /\ left' = <<>>
        /\ UNCHANGED <<calls, asked, name>>
    BY <1>7 DEF EndDelivery, userVars
  <2>2. l \in At("delivering") /\ At("delivering")' = {}
    BY <2>1 DEF At, CallsCounted, TypeOK
  <2>3. \A g \in Gets, n \in Names, i \in Nat :
            Waits(g, n, i)' => Waits(g, n, i) /\ n # name[l]
    BY <2>1 DEF Waits, TypeOK
  <2>4. \A g \in Gets, n \in Names, i \in Nat : Waits(g, n, i)' => calls'[g] = 0
    BY <2>1, <2>2, <2>3 DEF CallsCounted
  <2>5. /\ \A g \in Gets : calls'[g] <= 1
        /\ \A g \in Gets \ asked' :
               calls'[g] = 0 /\ \A n \in Names, i \in Nat : ~Waits(g, n, i)'
        /\ \A g \in Gets, n, k \in Names, i, j \in Nat :
               Waits(g, n, i)' /\ Waits(g, k, j)' => n = k /\ i = j
    BY <2>1, <2>3 DEF CallsCounted
  <2>6. Len(left') = 0
    BY <2>1
  <2> QED
    BY <2>1, <2>2, <2>4, <2>5, <2>6 DEF CallsCounted
<1>8. ASSUME UNCHANGED <<calls, pending, left, asked, name, stage>> PROVE CallsCounted'
  BY <1>8, CallsStay
<1>9. ASSUME NEW l \in Loads, DestroyOp(l) PROVE CallsCounted'
  BY <1>8, <1>9 DEF DestroyOp, userVars
<1>10. ASSUME NEW g \in Gets, Release(g) PROVE CallsCounted'
  BY <1>8, <1>10 DEF Release, loadVars
<1>11. ASSUME Remove PROVE CallsCounted'
  BY <1>8, <1>11 DEF Remove, loadVars, userVars
<1>12. CASE UNCHANGED vars
  BY <1>8, <1>12 DEF vars, loadVars, userVars
<1> QED
  BY <1>1, <1>2, <1>3, <1>4, <1>5, <1>6, <1>7, <1>9, <1>10, <1>11, <1>12
  DEF Next, LoadStep

-----------------------------------------------------------------------------
\* The invariant of all that follows.
LEMMA Invariant == Spec => [](RefInv /\ OneLoad /\ CallsCounted)
<1>1. Init => RefInv /\ OneLoad /\ CallsCounted
  BY InitInv
<1>2. RefInv /\ OneLoad /\ CallsCounted /\ [Next]_vars => (RefInv /\ OneLoad /\ CallsCounted)'
  BY StepRef, StepOneLoad, StepCalls DEF RefInv
<1> QED
  BY <1>1, <1>2, PTL DEF Spec, Safety

(***************************************************************************)
(* The type invariant, and the exact count of the references to the        *)
(* registry, wherever its closures are copied and destroyed.               *)
(***************************************************************************)
THEOREM ReferencesCounted == Spec => [](TypeOK /\ RefsCounted)
  BY Invariant, PTL DEF RefInv

(***************************************************************************)
(* A registry outlives its loads, for any number of them and whenever it   *)
(* is removed: the closures' raw `this` is never used after it is gone.    *)
(***************************************************************************)
THEOREM RegistryOutlives == Spec => []RegistryOutlivesLoads
<1>1. RefInv => RegistryOutlivesLoads
  <2> SUFFICES ASSUME RefInv, NEW l \in At("reading") \cup Closures PROVE refs > 0
    BY DEF RegistryOutlivesLoads, Closures
  <2>1. \/ l \in opHeld /\ IsFiniteSet(opHeld)
        \/ l \in Closures /\ IsFiniteSet(Closures)
    BY DEF RefInv, RefsCounted
  <2>2. Cardinality(opHeld) \in Nat /\ Cardinality(Closures) \in Nat
    BY FS_CardinalityType DEF RefInv, RefsCounted
  <2>3. Cardinality(opHeld) >= 1 \/ Cardinality(Closures) >= 1
    BY <2>1, CardRemove
  <2> QED
    BY <2>2, <2>3 DEF RefInv, RefsCounted, TypeOK
<1> QED
  BY <1>1, Invariant, PTL

(***************************************************************************)
(* No two instances of one resource, for any names, gets and loads, and    *)
(* however callers release and ask again while loads and deliveries go on. *)
(***************************************************************************)
THEOREM NoSecondInstance == Spec => []OneInstance
<1>1. OneLoad => OneInstance
  BY DEF OneLoad, OneInstance
<1> QED
  BY <1>1, Invariant, PTL

(***************************************************************************)
(* No callback is called twice, for any names, gets and loads.             *)
(***************************************************************************)
THEOREM NoSecondCall == Spec => []CalledOnce
<1>1. CallsCounted => CalledOnce
  BY DEF CallsCounted, CalledOnce
<1> QED
  BY <1>1, Invariant, PTL

-----------------------------------------------------------------------------
(* Preloaded. *)

(***************************************************************************)
(* What the count rests on: no entry is begun before the index was read,   *)
(* all are from then on unless it threw meanwhile, and a delivered one is  *)
(* kept.                                                                   *)
(***************************************************************************)
EntriesFollowIndex ==
    /\ index \notin {"done", "broken"} => \A e \in Entries : entry[e] = "unbegun"
    /\ index = "done" => \A e \in Entries : entry[e] # "unbegun"
    /\ \A e \in Entries : entry[e] = "done" => preloaded[Resource[e]] # Nothing

PlInv == PlTypeOK /\ EntriesFollowIndex /\ PendingCounted

\* The outstanding loads are finitely many.
LEMMA OutstandingFinite ==
    /\ IsFiniteSet(Outstanding)
    /\ Cardinality(Outstanding) \in Nat
    /\ IsFiniteSet(Entries) /\ Cardinality(Entries) \in Nat
<1>1. Outstanding \subseteq Entries
  BY DEF Outstanding
<1>2. IsFiniteSet(Outstanding)
  BY <1>1, EntriesFinite, FS_Subset
<1> QED
  BY <1>2, EntriesFinite, FS_CardinalityType

\* The initial state satisfies the invariant.
LEMMA PlInitInv == PlInit => PlInv
<1> SUFFICES ASSUME PlInit PROVE PlInv
  OBVIOUS
<1>1. PlTypeOK
  <2>1. entry \in [Entries -> Progress]
    BY DEF PlInit, Progress
  <2>2. preloaded \in [Resources -> Entries \cup {Nothing}]
    BY DEF PlInit
  <2>3. known \in BOOLEAN
    BY Zenon DEF PlInit
  <2>4. index \in IndexProgress /\ pendingLoads \in Int
    BY DEF PlInit, Progress, IndexProgress
  <2> QED
    BY <2>1, <2>2, <2>3, <2>4 DEF PlTypeOK
<1>2. EntriesFollowIndex /\ PendingCounted
  BY DEF PlInit, EntriesFollowIndex, PendingCounted
<1> QED
  BY <1>1, <1>2 DEF PlInv

\* A step that leaves the set of outstanding loads, the count and the state of
\* the index alone keeps the count exact.
LEMMA CountUntouched ==
    ASSUME PendingCounted, Outstanding' = Outstanding, UNCHANGED <<index, pendingLoads>>
    PROVE  PendingCounted'
BY DEF PendingCounted

\* The invariant is inductive.
LEMMA PlStepInv == PlInv /\ [PlNext]_plVars => PlInv'
<1> SUFFICES ASSUME PlInv, [PlNext]_plVars PROVE PlInv'
  OBVIOUS
<1> USE DEF PlInv
<1>1. CASE AddPreload
  <2>1. PlTypeOK' /\ EntriesFollowIndex'
    BY <1>1 DEF AddPreload, PlTypeOK, Progress, IndexProgress, EntriesFollowIndex
  <2>2. PendingCounted'
    BY <1>1 DEF AddPreload, PendingCounted
  <2> QED
    BY <2>1, <2>2
<1>2. CASE RemovePreload
  <2>1. PlTypeOK' /\ EntriesFollowIndex'
    BY <1>2 DEF RemovePreload, PlTypeOK, EntriesFollowIndex
  <2>2. Outstanding' = Outstanding
    BY <1>2 DEF RemovePreload, Outstanding
  <2> QED
    BY <1>2, <2>1, <2>2, CountUntouched DEF RemovePreload
<1>3. CASE IndexRead \/ IndexUnreadable
  <2>1. PlTypeOK' /\ EntriesFollowIndex'
    BY <1>3 DEF IndexRead, IndexUnreadable, PlTypeOK, Progress, IndexProgress, EntriesFollowIndex
  <2>2. PendingCounted'
    BY <1>3 DEF IndexRead, IndexUnreadable, PendingCounted
  <2> QED
    BY <2>1, <2>2
<1>4. CASE Populate
  <2>1. PlTypeOK' /\ EntriesFollowIndex'
    BY <1>4, OutstandingFinite DEF Populate, PlTypeOK, Progress, IndexProgress, EntriesFollowIndex
  <2>2. Outstanding' = Entries
    BY <1>4 DEF Populate, Outstanding
  <2>3. pendingLoads' = Cardinality(Entries)
    BY <1>4, OutstandingFinite DEF Populate, PendingCounted
  <2>4. PendingCounted'
    BY <1>4, <2>2, <2>3 DEF Populate, PendingCounted
  <2> QED
    BY <2>1, <2>4
<1>5. ASSUME NEW e \in Entries, EntryRead(e) \/ EntryUnusable(e)
      PROVE  PlInv'
  <2>1. PlTypeOK' /\ EntriesFollowIndex'
    BY <1>5 DEF EntryRead, EntryUnusable, PlTypeOK, Progress, IndexProgress, EntriesFollowIndex
  <2>2. Outstanding' = Outstanding
    BY <1>5 DEF EntryRead, EntryUnusable, PlTypeOK, Outstanding
  <2> QED
    BY <1>5, <2>1, <2>2, CountUntouched DEF EntryRead, EntryUnusable
<1>6. ASSUME NEW e \in Entries, EntryLoaded(e)
      PROVE  PlInv'
  <2>1. Resource[e] \in Resources /\ e # Nothing
    BY NothingIsNoEntry DEF Resources
  <2>2. PlTypeOK'
    BY <1>6, <2>1 DEF EntryLoaded, PlTypeOK, Progress
  <2>3. \A d \in Entries : Resource[d] \in Resources
    BY DEF Resources
  <2>4. EntriesFollowIndex'
    BY <1>6, <2>1, <2>3 DEF EntryLoaded, PlTypeOK, EntriesFollowIndex
  <2>5. index \in {"done", "broken"} /\ e \in Outstanding
    BY <1>6 DEF EntryLoaded, EntriesFollowIndex, Outstanding
  <2>6. Outstanding' = Outstanding \ {e}
    BY <1>6 DEF EntryLoaded, PlTypeOK, Outstanding
  <2>7. Cardinality(Outstanding') = Cardinality(Outstanding) - 1
    BY <2>5, <2>6, OutstandingFinite, FS_RemoveElement
  <2>8. PendingCounted'
    BY <1>6, <2>5, <2>7 DEF EntryLoaded, PendingCounted
  <2> QED
    BY <2>2, <2>4, <2>8
<1>7. CASE UNCHANGED plVars
  <2>1. PlTypeOK' /\ EntriesFollowIndex'
    BY <1>7 DEF plVars, PlTypeOK, EntriesFollowIndex
  <2>2. Outstanding' = Outstanding
    BY <1>7 DEF plVars, Outstanding
  <2> QED
    BY <1>7, <2>1, <2>2, CountUntouched DEF plVars
<1>8. CASE PopulatePartly
  <2>1. PICK begun \in SUBSET Entries :
            /\ entry' = [e \in Entries |-> IF e \in begun THEN "reading" ELSE "unbegun"]
            /\ pendingLoads' = pendingLoads - 1 + Cardinality(begun)
    BY <1>8 DEF PopulatePartly
  <2>2. index = "event" /\ index' = "broken" /\ UNCHANGED <<known, preloaded>>
    BY <1>8 DEF PopulatePartly
  <2>3. Outstanding' = begun
    BY <2>1 DEF Outstanding
  <2>4. Cardinality(begun) \in Nat
    BY EntriesFinite, FS_Subset, FS_CardinalityType
  <2>5. pendingLoads' = Cardinality(begun)
    BY <2>1, <2>2, <2>4 DEF PendingCounted
  <2>6. PlTypeOK' /\ EntriesFollowIndex'
    BY <2>1, <2>2, <2>4, <2>5 DEF PlTypeOK, Progress, IndexProgress, EntriesFollowIndex
  <2>7. PendingCounted'
    BY <2>2, <2>3, <2>5 DEF PendingCounted
  <2> QED
    BY <2>6, <2>7
<1> QED
  BY <1>1, <1>2, <1>3, <1>4, <1>5, <1>6, <1>7, <1>8 DEF PlNext, PlLoadStep

\* In a state of the invariant, nothing pending means that everything begun is
\* loaded, and that everything was begun unless the index broke.
LEMMA PlInvReady == PlInv => ReadyMeansLoaded
<1> SUFFICES ASSUME PlInv, index # "unbegun", pendingLoads = 0
             PROVE  /\ index \in {"done", "broken"}
                    /\ \A e \in Entries :
                           \/ preloaded[Resource[e]] # Nothing
                           \/ index = "broken" /\ entry[e] = "unbegun"
  BY DEF ReadyMeansLoaded
<1>1. index \in {"done", "broken"}
  BY DEF PlInv, PlTypeOK, Progress, IndexProgress, PendingCounted
<1>2. Outstanding = {}
  BY <1>1, OutstandingFinite, FS_EmptySet DEF PlInv, PendingCounted
<1>3. \A e \in Entries : entry[e] = "done" \/ (index = "broken" /\ entry[e] = "unbegun")
  BY <1>1, <1>2 DEF PlInv, PlTypeOK, Progress, EntriesFollowIndex, Outstanding
<1> QED
  BY <1>1, <1>3 DEF PlInv, EntriesFollowIndex

-----------------------------------------------------------------------------
(***************************************************************************)
(* The count of pending loads is that of the loads begun and not yet       *)
(* delivered, whether the index is read, unreadable, or throws after       *)
(* clearPendingLoad (resources.cpp:36) with any part of its entries begun. *)
(***************************************************************************)
THEOREM CountExact == PlSpec => []PlInv
<1> QED
  BY PlInitInv, PlStepInv, PTL DEF PlSpec, PlSafety

(***************************************************************************)
(* A preloaded registry without pending loads has every resource of its    *)
(* index, whatever the index holds (names that occur twice included) and   *)
(* in whatever order its loads end (resources.h:181, resources.cpp:28), or *)
(* its index threw after clearPendingLoad and it has every resource that   *)
(* was begun before that.                                                  *)
(***************************************************************************)
THEOREM ReadyIsLoaded == PlSpec => []ReadyMeansLoaded
<1> QED
  BY CountExact, PlInvReady, PTL
=============================================================================
