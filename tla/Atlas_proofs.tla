----------------------------- MODULE Atlas_proofs -----------------------------
(***************************************************************************)
(* Proofs about RectPacker, for every bin, every set of sizes and every     *)
(* scorer, and about the font that packs its glyphs with it (GlyphAtlas).   *)
(*                                                                           *)
(* FreeSpaceSound is inductive together with TypeOK and PlacedApart. A      *)
(* packing first removes the target from the free list: lemma Removed says  *)
(* which entry of the old list each entry of the new one comes from and     *)
(* what has become of it, RemovedSound that the shorter list is sound and   *)
(* apart from the target. The remainders then lie inside the target.        *)
(*                                                                           *)
(* The font's invariant FontInv adds to that what the texture holds: the    *)
(* padded rectangles of the glyphs are ones that were handed out, apart     *)
(* from each other; each glyph's pixels are on the inner part of its own,   *)
(* and nothing is drawn anywhere else.                                      *)
(***************************************************************************)
EXTENDS GlyphAtlas, FiniteSetTheorems, TLAPS

(***************************************************************************)
(* Geometry.                                                               *)
(***************************************************************************)
Inside(a, b) ==
    /\ b.x <= a.x /\ a.x + a.w <= b.x + b.w
    /\ b.y <= a.y /\ a.y + a.h <= b.y + b.h

SamePlace(a, b) == a.x = b.x /\ a.y = b.y /\ a.w = b.w /\ a.h = b.h

\* FreeRects and Areas are rectangles, with or without a twin.
IsRect(a) == a.x \in Nat /\ a.y \in Nat /\ a.w \in Nat \ {0} /\ a.h \in Nat \ {0}

LEMMA FreeRectIsRect == \A r \in FreeRects : IsRect(r) /\ r.twin \in Nat
BY DEF FreeRects, IsRect

LEMMA AreaIsRect == \A r \in Area : IsRect(r)
BY DEF Area, IsRect

\* Disjointness is inherited by what lies inside, and is symmetric.
LEMMA InsideDisjoint ==
    ASSUME NEW a, NEW b, NEW c, IsRect(a), IsRect(b), IsRect(c),
           Inside(a, b), Disjoint(b, c)
    PROVE  Disjoint(a, c) /\ Disjoint(c, a)
BY DEF IsRect, Inside, Disjoint

LEMMA DisjointSymmetric ==
    ASSUME NEW a, NEW b, Disjoint(a, b)
    PROVE  Disjoint(b, a)
BY DEF Disjoint

LEMMA InsideInBin ==
    ASSUME NEW a, NEW b, IsRect(a), IsRect(b), Inside(a, b), InBin(b)
    PROVE  InBin(a)
BY BinSize DEF IsRect, Inside, InBin

\* Linking a rectangle to another counterpart leaves it where it is.
LEMMA Relinked ==
    ASSUME NEW r \in FreeRects, NEW j \in Nat
    PROVE  /\ [r EXCEPT !.twin = j] \in FreeRects
           /\ [r EXCEPT !.twin = j].twin = j
           /\ SamePlace([r EXCEPT !.twin = j], r)
BY DEF FreeRects, SamePlace

(***************************************************************************)
(* A counterpart that is shrunk lies inside what it was, apart from the    *)
(* target, and the two still cover what they covered together.             *)
(***************************************************************************)
LEMMA Shrunk ==
    ASSUME NEW cp \in FreeRects, NEW t \in FreeRects,
           Corner(cp, t) \/ Corner(t, cp)
    PROVE  /\ Shrink(cp, t) \in FreeRects
           /\ Shrink(cp, t).twin = NoTwin
           /\ Inside(Shrink(cp, t), cp)
           /\ Disjoint(Shrink(cp, t), t)
           /\ \A x, y \in Int : Covers(cp, x, y) =>
                 Covers(Shrink(cp, t), x, y) \/ Covers(t, x, y)
<1> USE FreeRectIsRect DEF IsRect
<1>1. CASE cp.x < t.x
  <2>1. Corner(t, cp)
    BY <1>1 DEF Corner
  <2>2. Shrink(cp, t) = [cp EXCEPT !.w = t.x - cp.x, !.twin = NoTwin]
    BY <1>1 DEF Shrink
  <2>3. Shrink(cp, t) = [x |-> cp.x, y |-> cp.y, w |-> t.x - cp.x, h |-> cp.h, twin |-> NoTwin]
    BY <2>2 DEF FreeRects
  <2>4. Shrink(cp, t) \in FreeRects
    BY <1>1, <2>3 DEF FreeRects, NoTwin
  <2> QED BY <1>1, <2>1, <2>3, <2>4 DEF Corner, Inside, Disjoint, Covers
<1>2. CASE ~(cp.x < t.x)
  <2>1. Corner(cp, t)
    BY <1>2 DEF Corner
  <2>2. Shrink(cp, t) = [cp EXCEPT !.h = t.y - cp.y, !.twin = NoTwin]
    BY <1>2 DEF Shrink
  <2>3. Shrink(cp, t) = [x |-> cp.x, y |-> cp.y, w |-> cp.w, h |-> t.y - cp.y, twin |-> NoTwin]
    BY <2>2 DEF FreeRects
  <2>4. Shrink(cp, t) \in FreeRects
    BY <2>1, <2>3 DEF FreeRects, NoTwin, Corner
  <2> QED BY <1>2, <2>1, <2>3, <2>4 DEF Corner, Inside, Disjoint, Covers
<1> QED BY <1>1, <1>2

(***************************************************************************)
(* Removal. Entry k of the new list comes from Origin(rects, i, k), and    *)
(* has become Cut of it: shrunk if it was the target's counterpart, told   *)
(* the new index of its own counterpart if that is the one that has moved. *)
(***************************************************************************)
Origin(rects, i, k) == IF k = i THEN Len(rects) ELSE k

Retold(rects, i, j) ==
    [rects[j] EXCEPT !.twin = IF rects[j].twin = Len(rects) /\ i # Len(rects)
                              THEN i ELSE rects[j].twin]

Cut(rects, i, j) ==
    IF rects[i].twin = j THEN Shrink(rects[j], rects[i]) ELSE Retold(rects, i, j)

LEMMA Removed ==
    ASSUME NEW rects \in Seq(FreeRects), NEW i \in DOMAIN rects, TwinsMutual(rects)
    PROVE  /\ RemoveFreeRect(rects, i) \in Seq(FreeRects)
           /\ Len(RemoveFreeRect(rects, i)) = Len(rects) - 1
           /\ \A k \in 1 .. Len(rects) - 1 :
                 /\ Origin(rects, i, k) \in DOMAIN rects
                 /\ Origin(rects, i, k) # i
                 /\ RemoveFreeRect(rects, i)[k] = Cut(rects, i, Origin(rects, i, k))
<1> DEFINE n == Len(rects)
           t == rects[i]
           shrunk == IF t.twin = NoTwin THEN rects
                     ELSE [rects EXCEPT ![t.twin] = Shrink(rects[t.twin], t)]
           moved == [shrunk EXCEPT ![i] = shrunk[n]]
           relinked == IF i = n \/ moved[i].twin = NoTwin THEN moved
                       ELSE [moved EXCEPT ![moved[i].twin].twin = i]
<1>1. n \in Nat /\ DOMAIN rects = 1 .. n /\ i \in 1 .. n
  OBVIOUS
<1>2. \A j \in 1 .. n : rects[j] \in FreeRects /\ rects[j].twin \in Nat
  BY <1>1, FreeRectIsRect
<1>3. \A j \in 1 .. n : rects[j].twin # NoTwin =>
         /\ rects[j].twin \in 1 .. n /\ rects[j].twin # j
         /\ rects[rects[j].twin].twin = j
         /\ Corner(rects[j], rects[rects[j].twin]) \/ Corner(rects[rects[j].twin], rects[j])
  BY <1>1 DEF TwinsMutual
<1>4. /\ shrunk \in Seq(FreeRects) /\ Len(shrunk) = n
      /\ \A j \in 1 .. n : shrunk[j] = IF t.twin = j THEN Shrink(rects[j], t) ELSE rects[j]
  <2>1. CASE t.twin = NoTwin
    BY <1>1, <1>2, <2>1 DEF NoTwin
  <2>2. CASE t.twin # NoTwin
    <3>1. t.twin \in 1 .. n /\ Shrink(rects[t.twin], t) \in FreeRects
      BY <1>1, <1>2, <1>3, <2>2, Shrunk
    <3> QED BY <1>1, <1>2, <2>2, <3>1
  <2> QED BY <2>1, <2>2
<1>5. /\ moved \in Seq(FreeRects) /\ Len(moved) = n
      /\ moved[i] = shrunk[n]
      /\ \A j \in 1 .. n : j # i => moved[j] = shrunk[j]
  BY <1>1, <1>4
<1>6. /\ relinked \in Seq(FreeRects) /\ Len(relinked) = n
      /\ \A k \in 1 .. n - 1 : relinked[k] = Cut(rects, i, Origin(rects, i, k))
  <2> HIDE DEF n, t, shrunk, moved, relinked
  <2>1. ASSUME NEW j \in 1 .. n, j # i, rects[j].twin = n, i # n
        PROVE  rects[n].twin = j /\ j # n
    <3>1. rects[j].twin # NoTwin
      BY <1>1, <2>1 DEF NoTwin
    <3> QED BY <1>3, <2>1, <3>1
  <2>2. ASSUME NEW j \in 1 .. n, rects[j].twin = rects[j].twin
        PROVE  [rects[j] EXCEPT !.twin = rects[j].twin] = rects[j]
    BY <1>2 DEF FreeRects
  <2>3. CASE i = n
    <3>1. relinked = moved
      BY <2>3 DEF relinked
    <3>2. ASSUME NEW k \in 1 .. n - 1
          PROVE  relinked[k] = Cut(rects, i, Origin(rects, i, k))
      BY <1>1, <1>4, <1>5, <2>2, <2>3, <3>1 DEF Cut, Retold, Origin, n, t
    <3> QED BY <1>5, <3>1, <3>2
  <2>4. CASE i # n /\ moved[i].twin = NoTwin
    <3>1. relinked = moved
      BY <2>4 DEF relinked
    <3>2. t.twin = n \/ rects[n].twin = NoTwin
      BY <1>1, <1>4, <1>5, <2>4
    <3>3. ASSUME NEW j \in 1 .. n, j # i, t.twin # j
          PROVE  Retold(rects, i, j) = rects[j]
      <4>1. rects[j].twin # n
        BY <1>1, <1>3, <2>1, <2>4, <3>2, <3>3 DEF NoTwin, t
      <4> QED BY <2>2, <4>1 DEF Retold, n
    <3>4. ASSUME NEW k \in 1 .. n - 1
          PROVE  relinked[k] = Cut(rects, i, Origin(rects, i, k))
      BY <1>1, <1>4, <1>5, <2>4, <3>1, <3>3 DEF Cut, Origin, n, t
    <3> QED BY <1>5, <3>1, <3>4
  <2>5. CASE i # n /\ moved[i].twin # NoTwin
    <3> DEFINE m == moved[i].twin
    <3>1. t.twin # n
      <4> SUFFICES ASSUME t.twin = n PROVE FALSE
        OBVIOUS
      <4>1. Corner(rects[n], t) \/ Corner(t, rects[n])
        BY <1>1, <1>3 DEF t, NoTwin
      <4>2. Shrink(rects[n], t).twin = NoTwin
        BY <1>1, <1>2, <4>1, Shrunk DEF t
      <4> QED BY <1>1, <1>4, <1>5, <2>5, <4>2
    <3>2. m = rects[n].twin /\ m # NoTwin
      BY <1>1, <1>4, <1>5, <2>5, <3>1
    <3>3. m \in 1 .. n /\ m # i /\ m # n /\ rects[m].twin = n /\ t.twin # m
      BY <1>1, <1>3, <2>5, <3>1, <3>2 DEF NoTwin, t
    <3>4. moved[m] = rects[m]
      BY <1>1, <1>4, <1>5, <3>3
    <3>5. relinked = [moved EXCEPT ![m] = [moved[m] EXCEPT !.twin = i]]
      BY <2>5 DEF relinked
    <3> HIDE DEF m
    <3>6. [moved[m] EXCEPT !.twin = i] \in FreeRects
      BY <1>1, <1>2, <3>3, <3>4, Relinked
    <3>7. relinked \in Seq(FreeRects) /\ Len(relinked) = n
      BY <1>5, <3>3, <3>5, <3>6
    <3>8. ASSUME NEW j \in 1 .. n, j # i, t.twin # j, j # m
          PROVE  Retold(rects, i, j) = rects[j]
      <4>1. rects[j].twin # n
        BY <1>1, <1>3, <2>1, <2>5, <3>2, <3>8
      <4> QED BY <2>2, <4>1 DEF Retold, n
    <3>9. ASSUME NEW k \in 1 .. n - 1
          PROVE  relinked[k] = Cut(rects, i, Origin(rects, i, k))
      <4>1. CASE k = m
        <5>1. relinked[k] = [rects[m] EXCEPT !.twin = i]
          BY <1>5, <3>3, <3>4, <3>5, <4>1
        <5>2. Cut(rects, i, Origin(rects, i, k)) = Retold(rects, i, m)
          BY <3>3, <4>1 DEF Cut, Origin, t
        <5> QED BY <2>5, <3>3, <5>1, <5>2 DEF Retold, n
      <4>2. CASE k # m
        <5>1. relinked[k] = moved[k]
          BY <1>5, <3>3, <3>5, <4>2
        <5>2. n # m
          BY <3>3
        <5> QED BY <1>1, <1>4, <1>5, <2>5, <3>1, <3>8, <4>2, <5>1, <5>2 DEF Cut, Origin, n, t
      <4> QED BY <4>1, <4>2
    <3> QED BY <3>7, <3>9
  <2> QED BY <2>3, <2>4, <2>5
<1>7. RemoveFreeRect(rects, i) = SubSeq(relinked, 1, n - 1)
  BY DEF RemoveFreeRect
<1>8. \A k \in 1 .. n - 1 : Origin(rects, i, k) \in DOMAIN rects /\ Origin(rects, i, k) # i
  BY <1>1 DEF Origin
<1> HIDE DEF relinked
<1>9. /\ SubSeq(relinked, 1, n - 1) \in Seq(FreeRects)
      /\ Len(SubSeq(relinked, 1, n - 1)) = n - 1
      /\ \A k \in 1 .. n - 1 : SubSeq(relinked, 1, n - 1)[k] = relinked[k]
  BY <1>1, <1>6
<1> QED BY <1>6, <1>7, <1>8, <1>9

(***************************************************************************)
(* What becomes of an entry when another one is used: it stays inside its  *)
(* place, gets out of the way of the target, and gives up no cell but to   *)
(* the target.                                                             *)
(***************************************************************************)
LEMMA CutFacts ==
    ASSUME NEW rects \in Seq(FreeRects), NEW i \in DOMAIN rects, NEW j \in DOMAIN rects,
           j # i, TwinsMutual(rects), OnlyTwinsOverlap(rects)
    PROVE  /\ Inside(Cut(rects, i, j), rects[j])
           /\ Disjoint(Cut(rects, i, j), rects[i])
           /\ \A x, y \in Int : Covers(rects[j], x, y) =>
                 Covers(Cut(rects, i, j), x, y) \/ Covers(rects[i], x, y)
<1>1. /\ DOMAIN rects = 1 .. Len(rects) /\ Len(rects) \in Nat
      /\ rects[i] \in FreeRects /\ rects[j] \in FreeRects
      /\ i \in Nat /\ i # NoTwin /\ j # NoTwin
  BY DEF NoTwin
<1>2. CASE rects[i].twin = j
  <2>1. Corner(rects[i], rects[j]) \/ Corner(rects[j], rects[i])
    BY <1>1, <1>2 DEF TwinsMutual
  <2> QED BY <1>1, <1>2, <2>1, Shrunk DEF Cut
<1>3. CASE rects[i].twin # j
  <2>1. Disjoint(rects[j], rects[i])
    BY <1>3, DisjointSymmetric DEF OnlyTwinsOverlap
  <2>2. SamePlace(Cut(rects, i, j), rects[j])
    <3>1. rects[j].twin \in Nat
      BY <1>1, FreeRectIsRect
    <3> QED BY <1>1, <1>3, <3>1, Relinked DEF Cut, Retold
  <2>3. IsRect(rects[j])
    BY <1>1, FreeRectIsRect
  <2> QED BY <2>1, <2>2, <2>3 DEF SamePlace, Inside, Disjoint, Covers, IsRect
<1> QED BY <1>2, <1>3

(***************************************************************************)
(* removeFreeRect leaves a sound list: indices are right again, only       *)
(* counterparts overlap, and nothing overlaps the target any more.         *)
(***************************************************************************)
LEMMA RemovedSound ==
    ASSUME NEW rects \in Seq(FreeRects), NEW i \in DOMAIN rects,
           TwinsMutual(rects), OnlyTwinsOverlap(rects)
    PROVE  /\ TwinsMutual(RemoveFreeRect(rects, i))
           /\ OnlyTwinsOverlap(RemoveFreeRect(rects, i))
<1> DEFINE n == Len(rects)
           t == rects[i]
           R == RemoveFreeRect(rects, i)
           from(k) == Origin(rects, i, k)
<1>1. n \in Nat /\ DOMAIN rects = 1 .. n /\ i \in 1 .. n
  OBVIOUS
<1>2. /\ R \in Seq(FreeRects) /\ Len(R) = n - 1 /\ DOMAIN R = 1 .. n - 1
      /\ \A k \in 1 .. n - 1 : from(k) \in 1 .. n /\ from(k) # i
      /\ \A k \in 1 .. n - 1 : R[k] = Cut(rects, i, from(k))
  <2> HIDE DEF R
  <2>1. /\ R \in Seq(FreeRects) /\ Len(R) = n - 1
        /\ \A k \in 1 .. n - 1 : /\ from(k) \in DOMAIN rects /\ from(k) # i
                                  /\ R[k] = Cut(rects, i, from(k))
    BY Removed DEF R
  <2> QED BY <1>1, <2>1
<1>3. \A j \in 1 .. n : rects[j] \in FreeRects /\ rects[j].twin \in Nat
  BY <1>1, FreeRectIsRect
<1>4. \A j \in 1 .. n : rects[j].twin # NoTwin =>
         /\ rects[j].twin \in 1 .. n /\ rects[j].twin # j
         /\ rects[rects[j].twin].twin = j
         /\ Corner(rects[j], rects[rects[j].twin]) \/ Corner(rects[rects[j].twin], rects[j])
  BY <1>1 DEF TwinsMutual
<1>5. \A k, l \in 1 .. n - 1 : k # l => from(k) # from(l)
  BY <1>1 DEF Origin
<1>6. ASSUME NEW k \in 1 .. n - 1
      PROVE  k = IF from(k) = n /\ i # n THEN i ELSE from(k)
  <2> HIDE DEF n
  <2>1. k # n
    BY <1>1
  <2> USE DEF n
  <2>2. CASE k = i
    BY <2>1, <2>2 DEF Origin
  <2>3. CASE k # i
    BY <2>1, <2>3 DEF Origin
  <2> QED BY <2>2, <2>3
<1> HIDE DEF n, t, R, from
\* Two entries that were linked and are not the target are linked still.
<1>7. ASSUME NEW j \in 1 .. n, j # i, t.twin # j
      PROVE  /\ Cut(rects, i, j).twin = IF rects[j].twin = n /\ i # n THEN i ELSE rects[j].twin
             /\ SamePlace(Cut(rects, i, j), rects[j])
  <2>1. Cut(rects, i, j) = Retold(rects, i, j)
    BY <1>7 DEF Cut, t
  <2>2. rects[j] \in FreeRects /\ rects[j].twin \in Nat /\ i \in Nat
    BY <1>1, <1>3
  <2> QED BY <2>1, <2>2, Relinked DEF Retold, n
<1>8. ASSUME NEW j \in 1 .. n, j # i, t.twin = j
      PROVE  Cut(rects, i, j).twin = NoTwin
  <2>1. t \in FreeRects /\ rects[j] \in FreeRects /\ t.twin # NoTwin
    BY <1>1, <1>3, <1>8 DEF t, NoTwin
  <2>2. Corner(rects[j], t) \/ Corner(t, rects[j])
    BY <1>1, <1>4, <1>8, <2>1 DEF t
  <2> QED BY <1>8, <2>1, <2>2, Shrunk DEF Cut, t
<1>9. TwinsMutual(R)
  <2> SUFFICES ASSUME NEW k \in 1 .. n - 1, R[k].twin # NoTwin
               PROVE  LET l == R[k].twin IN
                      /\ l \in 1 .. n - 1 /\ l # k
                      /\ R[l].twin = k
                      /\ Corner(R[k], R[l]) \/ Corner(R[l], R[k])
    BY <1>2 DEF TwinsMutual
  <2> DEFINE j == from(k)
             m == rects[j].twin
             l == R[k].twin
  <2>1. j \in 1 .. n /\ j # i /\ R[k] = Cut(rects, i, j)
    BY <1>2
  <2>2. t.twin # j
    BY <1>8, <2>1
  <2>3. /\ l = IF m = n /\ i # n THEN i ELSE m
        /\ SamePlace(R[k], rects[j])
    BY <1>7, <2>1, <2>2
  <2>4. m # NoTwin
    BY <1>1, <2>3 DEF NoTwin
  <2>5. /\ m \in 1 .. n /\ m # j /\ rects[m].twin = j
        /\ Corner(rects[j], rects[m]) \/ Corner(rects[m], rects[j])
    BY <1>4, <2>1, <2>4
  <2>6. m # i /\ t.twin # m
    BY <1>1, <1>4, <2>1, <2>2, <2>5 DEF t, NoTwin
  <2> HIDE DEF j, m, l
  <2>7. l \in 1 .. n - 1 /\ from(l) = m
    BY <1>1, <2>3, <2>5, <2>6 DEF from, Origin, n
  <2>8. R[l].twin = k /\ SamePlace(R[l], rects[m])
    <3>1. R[l] = Cut(rects, i, m)
      BY <1>2, <2>7
    <3>2. k = IF j = n /\ i # n THEN i ELSE j
      BY <1>6 DEF j
    <3> QED BY <1>7, <2>5, <2>6, <3>1, <3>2
  <2>9. l # k
    BY <2>5, <2>7 DEF j
  <2>10. Corner(R[k], R[l]) \/ Corner(R[l], R[k])
    BY <2>3, <2>5, <2>8 DEF SamePlace, Corner
  <2> QED BY <2>7, <2>8, <2>9, <2>10 DEF l
<1>10. OnlyTwinsOverlap(R)
  <2> SUFFICES ASSUME NEW k \in 1 .. n - 1, NEW l \in 1 .. n - 1, k # l, R[k].twin # l
               PROVE  Disjoint(R[k], R[l])
    BY <1>2 DEF OnlyTwinsOverlap
  <2> DEFINE j == from(k)
             m == from(l)
  <2>1. /\ j \in 1 .. n /\ j # i /\ R[k] = Cut(rects, i, j)
        /\ m \in 1 .. n /\ m # i /\ R[l] = Cut(rects, i, m)
        /\ j # m
    BY <1>2, <1>5
  <2>2. l = IF m = n /\ i # n THEN i ELSE m
    BY <1>6
  <2> HIDE DEF j, m
  <2>3. rects[j].twin # m
    <3> SUFFICES ASSUME rects[j].twin = m PROVE FALSE
      OBVIOUS
    <3>1. t.twin # j
      BY <1>1, <1>4, <2>1 DEF t, NoTwin
    <3>2. R[k].twin = IF m = n /\ i # n THEN i ELSE m
      BY <1>7, <2>1, <3>1
    <3> QED BY <2>2, <3>2
  <2>4. Disjoint(rects[j], rects[m])
    BY <1>1, <2>1, <2>3 DEF OnlyTwinsOverlap
  <2>5. Inside(R[k], rects[j]) /\ Inside(R[l], rects[m])
    BY <1>1, <2>1, CutFacts
  <2>6. IsRect(R[k]) /\ IsRect(R[l]) /\ IsRect(rects[j]) /\ IsRect(rects[m])
    BY <1>2, <1>3, <2>1, FreeRectIsRect
  <2>7. Disjoint(R[k], rects[m]) /\ Disjoint(rects[m], R[k])
    BY <2>4, <2>5, <2>6, InsideDisjoint
  <2> QED BY <2>5, <2>6, <2>7, InsideDisjoint
<1> QED BY <1>9, <1>10 DEF R

(***************************************************************************)
(* The remainders lie inside the target, beside the rectangle placed in    *)
(* it, and together with it they cover the target.                         *)
(***************************************************************************)
PlacedIn(d, size) == [x |-> d.x, y |-> d.y, w |-> size.w, h |-> size.h]

IsSize(size) == size.w \in Nat \ {0} /\ size.h \in Nat \ {0}

LEMMA RemainderFacts ==
    ASSUME NEW d \in FreeRects, NEW size, IsSize(size), Fits(size, d)
    PROVE  /\ PlacedIn(d, size) \in Area /\ Inside(PlacedIn(d, size), d)
           /\ Right(d, size).w > 0 =>
                 /\ Right(d, size) \in FreeRects
                 /\ Inside(Right(d, size), d)
                 /\ Disjoint(Right(d, size), PlacedIn(d, size))
           /\ Bottom(d, size).h > 0 =>
                 /\ Bottom(d, size) \in FreeRects
                 /\ Inside(Bottom(d, size), d)
                 /\ Disjoint(Bottom(d, size), PlacedIn(d, size))
           /\ Right(d, size).h > 0 /\ Bottom(d, size).w > 0
           /\ Right(d, size).twin = NoTwin /\ Bottom(d, size).twin = NoTwin
           /\ Corner(Right(d, size), Bottom(d, size))
           /\ \A x, y \in Int : Covers(d, x, y) =>
                 \/ Covers(PlacedIn(d, size), x, y)
                 \/ Right(d, size).w > 0 /\ Covers(Right(d, size), x, y)
                 \/ Bottom(d, size).h > 0 /\ Covers(Bottom(d, size), x, y)
<1>1. /\ d.x \in Nat /\ d.y \in Nat /\ d.w \in Nat \ {0} /\ d.h \in Nat \ {0}
      /\ size.w \in Nat \ {0} /\ size.h \in Nat \ {0}
      /\ size.w <= d.w /\ size.h <= d.h
  BY FreeRectIsRect DEF IsRect, IsSize, Fits
<1> DEFINE p == PlacedIn(d, size)
           r == Right(d, size)
           b == Bottom(d, size)
<1>2. p.x = d.x /\ p.y = d.y /\ p.w = size.w /\ p.h = size.h
  BY DEF PlacedIn
<1>3. r.x = d.x + size.w /\ r.y = d.y /\ r.w = d.w - size.w /\ r.h = d.h /\ r.twin = NoTwin
  BY DEF Right, FreeRect
<1>4. b.x = d.x /\ b.y = d.y + size.h /\ b.w = d.w /\ b.h = d.h - size.h /\ b.twin = NoTwin
  BY DEF Bottom, FreeRect
<1>5. p \in Area
  BY <1>1 DEF PlacedIn, Area
<1>6. r.w > 0 => r \in FreeRects
  BY <1>1 DEF Right, FreeRect, FreeRects, NoTwin
<1>7. b.h > 0 => b \in FreeRects
  BY <1>1 DEF Bottom, FreeRect, FreeRects, NoTwin
<1> HIDE DEF p, r, b
<1>8. /\ Inside(p, d) /\ r.h > 0 /\ b.w > 0 /\ Corner(r, b)
      /\ r.w > 0 => Inside(r, d) /\ Disjoint(r, p)
      /\ b.h > 0 => Inside(b, d) /\ Disjoint(b, p)
  BY <1>1, <1>2, <1>3, <1>4 DEF Inside, Disjoint, Corner
<1>9. ASSUME NEW x \in Int, NEW y \in Int, Covers(d, x, y)
      PROVE  \/ Covers(p, x, y)
             \/ r.w > 0 /\ Covers(r, x, y)
             \/ b.h > 0 /\ Covers(b, x, y)
  BY <1>1, <1>2, <1>3, <1>4, <1>9 DEF Covers
<1> QED BY <1>3, <1>4, <1>5, <1>6, <1>7, <1>8, <1>9 DEF p, r, b

(***************************************************************************)
(* The list with the remainders appended: the old entries are untouched,   *)
(* the new ones are the remainders that are not empty, linked if both are. *)
(***************************************************************************)
LEMMA Added ==
    ASSUME NEW rects \in Seq(FreeRects), NEW d \in FreeRects,
           NEW size, IsSize(size), Fits(size, d)
    PROVE  LET n == Len(rects)
               A == AddRemainders(rects, d, size)
           IN  /\ A \in Seq(FreeRects) /\ n <= Len(A) /\ Len(A) <= n + 2
               /\ \A k \in 1 .. n : A[k] = rects[k]
               /\ \A k \in n + 1 .. Len(A) :
                     \/ Right(d, size).w > 0 /\ SamePlace(A[k], Right(d, size))
                     \/ Bottom(d, size).h > 0 /\ SamePlace(A[k], Bottom(d, size))
               /\ Len(A) = n + 1 => A[n + 1].twin = NoTwin
               /\ Len(A) = n + 2 =>
                     /\ SamePlace(A[n + 1], Right(d, size)) /\ A[n + 1].twin = n + 2
                     /\ SamePlace(A[n + 2], Bottom(d, size)) /\ A[n + 2].twin = n + 1
               /\ Right(d, size).w > 0 =>
                     \E k \in DOMAIN A : SamePlace(A[k], Right(d, size))
               /\ Bottom(d, size).h > 0 =>
                     \E k \in DOMAIN A : SamePlace(A[k], Bottom(d, size))
<1> DEFINE n == Len(rects)
           A == AddRemainders(rects, d, size)
           r == Right(d, size)
           b == Bottom(d, size)
           B == AddFreeRect(AddFreeRect(rects, r), b)
<1>1. n \in Nat /\ DOMAIN rects = 1 .. n /\ Len(rects) = n
  OBVIOUS
<1>2. /\ r.w > 0 => r \in FreeRects
      /\ b.h > 0 => b \in FreeRects
      /\ r.h > 0 /\ b.w > 0 /\ r.twin = NoTwin /\ b.twin = NoTwin
  BY RemainderFacts
<1>3. A = IF Len(B) = n + 2 THEN [B EXCEPT ![n + 1] = [B[n + 1] EXCEPT !.twin = n + 2],
                                           ![n + 2] = [B[n + 2] EXCEPT !.twin = n + 1]]
          ELSE B
  BY DEF AddRemainders
<1>4. B = IF r.w > 0 THEN IF b.h > 0 THEN Append(Append(rects, r), b) ELSE Append(rects, r)
          ELSE IF b.h > 0 THEN Append(rects, b) ELSE rects
  BY <1>2 DEF AddFreeRect
<1> HIDE DEF n, A, r, b, B
<1>5. CASE r.w > 0 /\ b.h > 0
  <2>1. /\ B \in Seq(FreeRects) /\ Len(B) = n + 2 /\ B[n + 1] = r /\ B[n + 2] = b
        /\ \A k \in 1 .. n : B[k] = rects[k]
    BY <1>1, <1>2, <1>4, <1>5
  <2> DEFINE r1 == [r EXCEPT !.twin = n + 2]
             b1 == [b EXCEPT !.twin = n + 1]
  <2>2. /\ r1 \in FreeRects /\ r1.twin = n + 2 /\ SamePlace(r1, r)
        /\ b1 \in FreeRects /\ b1.twin = n + 1 /\ SamePlace(b1, b)
    BY <1>1, <1>2, <1>5, Relinked
  <2> HIDE DEF r1, b1
  <2>3. A = [B EXCEPT ![n + 1] = r1, ![n + 2] = b1]
    BY <1>3, <2>1 DEF r1, b1
  <2>4. /\ A \in Seq(FreeRects) /\ Len(A) = n + 2 /\ A[n + 1] = r1 /\ A[n + 2] = b1
        /\ \A k \in 1 .. n : A[k] = rects[k]
    BY <1>1, <2>1, <2>2, <2>3
  <2>5. \A k \in n + 1 .. Len(A) : k = n + 1 \/ k = n + 2
    BY <1>1, <2>4
  <2>6. n + 1 \in DOMAIN A /\ n + 2 \in DOMAIN A
    BY <1>1, <2>4
  <2> QED BY <1>1, <1>5, <2>2, <2>4, <2>5, <2>6 DEF n, A, r, b
<1>6. CASE r.w > 0 /\ ~(b.h > 0)
  <2>1. /\ A \in Seq(FreeRects) /\ Len(A) = n + 1 /\ A[n + 1] = r
        /\ \A k \in 1 .. n : A[k] = rects[k]
    BY <1>1, <1>2, <1>3, <1>4, <1>6
  <2>2. \A k \in n + 1 .. Len(A) : k = n + 1
    BY <1>1, <2>1
  <2>3. n + 1 \in DOMAIN A /\ SamePlace(r, r)
    BY <1>1, <2>1 DEF SamePlace
  <2> QED BY <1>1, <1>2, <1>6, <2>1, <2>2, <2>3 DEF n, A, r, b
<1>7. CASE ~(r.w > 0) /\ b.h > 0
  <2>1. /\ A \in Seq(FreeRects) /\ Len(A) = n + 1 /\ A[n + 1] = b
        /\ \A k \in 1 .. n : A[k] = rects[k]
    BY <1>1, <1>2, <1>3, <1>4, <1>7
  <2>2. \A k \in n + 1 .. Len(A) : k = n + 1
    BY <1>1, <2>1
  <2>3. n + 1 \in DOMAIN A /\ SamePlace(b, b)
    BY <1>1, <2>1 DEF SamePlace
  <2> QED BY <1>1, <1>2, <1>7, <2>1, <2>2, <2>3 DEF n, A, r, b
<1>8. CASE ~(r.w > 0) /\ ~(b.h > 0)
  <2>1. A = rects
    BY <1>1, <1>3, <1>4, <1>8
  <2>2. /\ A \in Seq(FreeRects) /\ n <= Len(A) /\ Len(A) <= n + 2
        /\ Len(A) # n + 1 /\ Len(A) # n + 2
        /\ \A k \in 1 .. n : A[k] = rects[k]
    BY <1>1, <2>1
  <2>3. \A k \in n + 1 .. Len(A) : FALSE
    BY <1>1, <2>1
  <2> QED BY <1>8, <2>2, <2>3 DEF n, A, r, b
<1> QED BY <1>5, <1>6, <1>7, <1>8

-----------------------------------------------------------------------------
(***************************************************************************)
(* A packing. The target d is free[i]; R is the list without it, A the     *)
(* list after the packing.                                                 *)
(***************************************************************************)
PackInv == TypeOK /\ PlacedApart /\ FreeSpaceSound

\* A step places a rectangle that fits into some free one.
LEMMA StepPlaces ==
    ASSUME Next
    PROVE  \E i \in DOMAIN free : \E size :
              IsSize(size) /\ Fits(size, free[i]) /\ PlaceAt(size, i)
<1>1. PICK s \in Sizes : Pack(s)
  BY DEF Next
<1>2. s \in [w : Nat \ {0}, h : Nat \ {0}]
  BY SizesPositive
<1>3. PICK c \in Slots(s) : PlaceAt(Turn(s, c[2]), c[1])
  BY <1>1 DEF Pack
<1>4. c \in (DOMAIN free) \X BOOLEAN /\ Fits(Turn(s, c[2]), free[c[1]])
  BY DEF Slots, Perfect, Fitting
<1>5. IsSize(Turn(s, c[2]))
  BY <1>2 DEF Turn, IsSize
<1> QED BY <1>3, <1>4, <1>5

LEMMA PackStep ==
    ASSUME PackInv, NEW i \in DOMAIN free,
           NEW size, IsSize(size), Fits(size, free[i]), PlaceAt(size, i)
    PROVE  PackInv'
<1> DEFINE n == Len(free)
           d == free[i]
           p == PlacedIn(d, size)
           R == RemoveFreeRect(free, i)
           A == AddRemainders(R, d, size)
<1>1. /\ n \in Nat /\ n > 0 /\ DOMAIN free = 1 .. n /\ i \in 1 .. n
      /\ free \in Seq(FreeRects) /\ placed \in Seq(Area) /\ d \in FreeRects
      /\ \A j \in 1 .. n : free[j] \in FreeRects
  BY DEF PackInv, TypeOK
<1>2. TwinsMutual(free) /\ OnlyTwinsOverlap(free) /\ AllInBin(free) /\ FreeApart(free)
  BY DEF PackInv, FreeSpaceSound
<1>3. free' = A /\ placed' = Append(placed, p)
  BY DEF PlaceAt, PlacedIn
<1>4. p \in Area /\ Inside(p, d)
  BY <1>1, RemainderFacts
\* R: every entry lies inside one of the old ones, apart from the target.
<1>5. R \in Seq(FreeRects) /\ Len(R) = n - 1 /\ TwinsMutual(R) /\ OnlyTwinsOverlap(R)
  BY <1>1, <1>2, Removed, RemovedSound
<1> HIDE DEF R
<1>6. ASSUME NEW k \in 1 .. n - 1
      PROVE  /\ R[k] \in FreeRects /\ Disjoint(R[k], d)
             /\ \E j \in 1 .. n : Inside(R[k], free[j])
  <2>1. R[k] \in FreeRects
    BY <1>1, <1>5
  <2>2. PICK j \in 1 .. n : j # i /\ R[k] = Cut(free, i, j)
    BY <1>1, <1>2, Removed DEF R
  <2> QED BY <1>1, <1>2, <2>1, <2>2, CutFacts
\* A: what R was, and then what lies inside the target.
<1> DEFINE r == Right(d, size)
           b == Bottom(d, size)
<1>7. /\ A \in Seq(FreeRects) /\ n - 1 <= Len(A) /\ Len(A) <= n + 1
      /\ \A k \in 1 .. n - 1 : A[k] = R[k]
      /\ \A k \in n .. Len(A) : \/ r.w > 0 /\ SamePlace(A[k], r)
                                \/ b.h > 0 /\ SamePlace(A[k], b)
      /\ Len(A) = n => A[n].twin = NoTwin
      /\ Len(A) = n + 1 => /\ SamePlace(A[n], r) /\ A[n].twin = n + 1
                           /\ SamePlace(A[n + 1], b) /\ A[n + 1].twin = n
  <2> DEFINE m == Len(R)
  <2>1. /\ A \in Seq(FreeRects) /\ m <= Len(A) /\ Len(A) <= m + 2
        /\ \A k \in 1 .. m : A[k] = R[k]
        /\ \A k \in m + 1 .. Len(A) : \/ r.w > 0 /\ SamePlace(A[k], r)
                                      \/ b.h > 0 /\ SamePlace(A[k], b)
        /\ Len(A) = m + 1 => A[m + 1].twin = NoTwin
        /\ Len(A) = m + 2 => /\ SamePlace(A[m + 1], r) /\ A[m + 1].twin = m + 2
                             /\ SamePlace(A[m + 2], b) /\ A[m + 2].twin = m + 1
    BY <1>1, <1>5, Added
  <2>2. m = n - 1 /\ m + 1 = n /\ m + 2 = n + 1
    BY <1>1, <1>5
  <2> HIDE DEF m, n, A, r, b
  <2> QED BY <2>1, <2>2
<1>8. /\ r.w > 0 => IsRect(r) /\ Inside(r, d) /\ Disjoint(r, p)
      /\ b.h > 0 => IsRect(b) /\ Inside(b, d) /\ Disjoint(b, p)
      /\ Corner(r, b)
  BY <1>1, RemainderFacts, FreeRectIsRect
<1>9. IsRect(p) /\ IsRect(d)
  BY <1>1, <1>4, AreaIsRect, FreeRectIsRect
<1>10. Inside(p, d)
  BY <1>4
<1> HIDE DEF n, d, p, A, r, b
<1>11. ASSUME NEW k \in n .. Len(A)
       PROVE  IsRect(A[k]) /\ Inside(A[k], d) /\ Disjoint(A[k], p)
  BY <1>7, <1>8, <1>11 DEF SamePlace, IsRect, Inside, Disjoint
<1>12. /\ DOMAIN A = 1 .. Len(A) /\ Len(A) \in Nat
       /\ \A k \in 1 .. Len(A) : A[k] \in FreeRects
       /\ \A k \in 1 .. Len(A) : k \in 1 .. n - 1 \/ k \in n .. Len(A)
  BY <1>1, <1>7
<1>13. ASSUME NEW k \in n .. Len(A)
       PROVE  k = n \/ (k = n + 1 /\ Len(A) = n + 1)
  <2>1. n \in Nat /\ Len(A) \in Nat /\ Len(A) <= n + 1
    BY <1>1, <1>7, <1>12
  <2> QED BY <2>1
<1>14. \A k \in 1 .. n - 1 : k \in 1 .. Len(A)
  <2>1. n \in Nat /\ Len(A) \in Nat /\ n - 1 <= Len(A)
    BY <1>1, <1>7, <1>12
  <2> QED BY <2>1
<1>15. n .. Len(A) # {} => Len(A) = n \/ Len(A) = n + 1
  <2>1. n \in Nat /\ Len(A) \in Nat /\ n - 1 <= Len(A) /\ Len(A) <= n + 1
    BY <1>1, <1>7, <1>12
  <2> QED BY <2>1
<1>16. /\ DOMAIN placed = 1 .. Len(placed) /\ Len(placed) \in Nat
       /\ DOMAIN placed' = 1 .. Len(placed) + 1
       /\ placed'[Len(placed) + 1] = p
       /\ \A j \in 1 .. Len(placed) : placed'[j] = placed[j] /\ placed[j] \in Area
  BY <1>1, <1>3, <1>4
<1>17. /\ InBin(d)
       /\ \A j \in 1 .. Len(placed) : IsRect(placed[j]) /\ InBin(placed[j]) /\ Disjoint(d, placed[j])
  BY <1>1, <1>2, <1>16, AreaIsRect DEF PackInv, PlacedApart, AllInBin, FreeApart, d
<1>18. ASSUME NEW k \in 1 .. n - 1
       PROVE  /\ IsRect(A[k]) /\ InBin(A[k]) /\ Disjoint(A[k], d)
              /\ \A j \in 1 .. Len(placed) : Disjoint(A[k], placed[j])
  <2>1. A[k] = R[k] /\ IsRect(A[k]) /\ Disjoint(A[k], d)
    BY <1>6, <1>7, FreeRectIsRect
  <2>2. PICK j \in 1 .. n : Inside(A[k], free[j])
    BY <1>6, <2>1
  <2>3. IsRect(free[j]) /\ InBin(free[j]) /\ j \in DOMAIN free
    BY <1>1, <1>2, FreeRectIsRect DEF AllInBin
  <2>4. InBin(A[k])
    BY <2>1, <2>2, <2>3, InsideInBin
  <2>5. ASSUME NEW l \in 1 .. Len(placed)
        PROVE  Disjoint(A[k], placed[l])
    <3>1. Disjoint(free[j], placed[l])
      BY <1>2, <1>16, <2>3 DEF FreeApart
    <3> QED BY <1>17, <2>1, <2>2, <2>3, <3>1, InsideDisjoint
  <2> QED BY <2>1, <2>4, <2>5
<1>19. ASSUME NEW k \in n .. Len(A), NEW c, IsRect(c), Disjoint(d, c)
       PROVE  Disjoint(A[k], c) /\ Disjoint(c, A[k])
  BY <1>9, <1>11, <1>19, InsideDisjoint
<1>20. TypeOK'
  <2>1. placed' \in Seq(Area)
    BY <1>1, <1>3, <1>4
  <2> QED BY <1>3, <1>7, <2>1 DEF TypeOK
<1>21. PlacedApart'
  <2>1. InBin(p)
    BY <1>9, <1>10, <1>17, InsideInBin
  <2>2. \A j \in DOMAIN placed' : InBin(placed'[j])
    BY <1>16, <1>17, <2>1
  <2>3. \A j \in 1 .. Len(placed) : Disjoint(p, placed[j]) /\ Disjoint(placed[j], p)
    BY <1>9, <1>10, <1>17, InsideDisjoint
  <2>4. \A i1, j1 \in 1 .. Len(placed) : i1 # j1 => Disjoint(placed[i1], placed[j1])
    BY <1>16 DEF PackInv, PlacedApart
  <2>5. \A i1, j1 \in DOMAIN placed' : i1 # j1 => Disjoint(placed'[i1], placed'[j1])
    BY <1>16, <2>3, <2>4
  <2> QED BY <2>2, <2>5 DEF PlacedApart, AllInBin, InBin, Disjoint
<1>22. AllInBin(A)
  BY <1>9, <1>11, <1>12, <1>17, <1>18, InsideInBin DEF AllInBin
<1>23. \A k \in DOMAIN A, j \in DOMAIN placed' : Disjoint(A[k], placed'[j])
  <2> SUFFICES ASSUME NEW k \in 1 .. Len(A), NEW j \in 1 .. Len(placed) + 1
               PROVE  Disjoint(A[k], placed'[j])
    BY <1>12, <1>16
  <2>1. CASE k \in 1 .. n - 1
    <3>1. Disjoint(A[k], p)
      <4>1. Disjoint(d, A[k]) /\ IsRect(A[k])
        BY <1>18, <2>1, DisjointSymmetric
      <4> QED BY <1>9, <1>10, <4>1, InsideDisjoint
    <3> QED BY <1>16, <1>18, <2>1, <3>1
  <2>2. CASE k \in n .. Len(A)
    BY <1>11, <1>16, <1>17, <1>19, <2>2
  <2> QED BY <1>12, <2>1, <2>2
<1>24. TwinsMutual(A)
  <2> SUFFICES ASSUME NEW k \in 1 .. Len(A), A[k].twin # NoTwin
               PROVE  LET j == A[k].twin IN
                      /\ j \in 1 .. Len(A) /\ j # k
                      /\ A[j].twin = k
                      /\ Corner(A[k], A[j]) \/ Corner(A[j], A[k])
    BY <1>12 DEF TwinsMutual
  <2>1. CASE k \in 1 .. n - 1
    <3>1. A[k] = R[k] /\ DOMAIN R = 1 .. n - 1
      BY <1>1, <1>5, <1>7, <2>1
    <3>2. /\ R[k].twin \in 1 .. n - 1 /\ R[k].twin # k
          /\ R[R[k].twin].twin = k
          /\ Corner(R[k], R[R[k].twin]) \/ Corner(R[R[k].twin], R[k])
      BY <1>5, <2>1, <3>1 DEF TwinsMutual
    <3>3. A[R[k].twin] = R[R[k].twin] /\ R[k].twin \in 1 .. Len(A)
      BY <1>7, <1>14, <3>2
    <3> QED BY <3>1, <3>2, <3>3
  <2>2. CASE k \in n .. Len(A)
    <3>1. Len(A) = n + 1 /\ (k = n \/ k = n + 1)
      BY <1>7, <1>13, <1>15, <2>2
    <3>2. Corner(A[n], A[n + 1])
      BY <1>7, <1>8, <3>1 DEF SamePlace, Corner
    <3>3. n \in 1 .. Len(A) /\ n + 1 \in 1 .. Len(A) /\ n # n + 1
      BY <1>1, <3>1
    <3> QED BY <1>7, <3>1, <3>2, <3>3
  <2> QED BY <1>12, <2>1, <2>2
<1>25. OnlyTwinsOverlap(A)
  <2> SUFFICES ASSUME NEW k \in 1 .. Len(A), NEW l \in 1 .. Len(A), k # l, A[k].twin # l
               PROVE  Disjoint(A[k], A[l])
    BY <1>12 DEF OnlyTwinsOverlap
  <2>1. CASE k \in 1 .. n - 1 /\ l \in 1 .. n - 1
    <3>1. A[k] = R[k] /\ A[l] = R[l] /\ DOMAIN R = 1 .. n - 1
      BY <1>1, <1>5, <1>7, <2>1
    <3> QED BY <1>5, <2>1, <3>1 DEF OnlyTwinsOverlap
  <2>2. CASE k \in 1 .. n - 1 /\ l \in n .. Len(A)
    <3>1. Disjoint(d, A[k]) /\ IsRect(A[k])
      BY <1>18, <2>2, DisjointSymmetric
    <3> QED BY <1>19, <2>2, <3>1
  <2>3. CASE k \in n .. Len(A) /\ l \in 1 .. n - 1
    <3>1. Disjoint(d, A[l]) /\ IsRect(A[l])
      BY <1>18, <2>3, DisjointSymmetric
    <3> QED BY <1>19, <2>3, <3>1
  <2>4. CASE k \in n .. Len(A) /\ l \in n .. Len(A)
    <3>1. Len(A) = n + 1 /\ ((k = n /\ l = n + 1) \/ (k = n + 1 /\ l = n))
      BY <1>13, <2>4
    <3> QED BY <1>7, <3>1
  <2> QED BY <1>12, <2>1, <2>2, <2>3, <2>4
<1>26. FreeSpaceSound'
  BY <1>3, <1>22, <1>23, <1>24, <1>25
     DEF FreeSpaceSound, FreeApart, AllInBin, TwinsMutual, OnlyTwinsOverlap,
         InBin, Disjoint, Corner
<1> QED BY <1>20, <1>21, <1>26 DEF PackInv

(***************************************************************************)
(* No cell is given up: one of the target's goes to the placed rectangle   *)
(* or to a remainder, one of another entry stays in it or was shared with  *)
(* the target.                                                             *)
(***************************************************************************)
LEMMA PackLosesNothing ==
    ASSUME PackInv, NothingLost, NEW i \in DOMAIN free,
           NEW size, IsSize(size), Fits(size, free[i]), PlaceAt(size, i)
    PROVE  NothingLost'
<1> DEFINE n == Len(free)
           d == free[i]
           p == PlacedIn(d, size)
           R == RemoveFreeRect(free, i)
           A == AddRemainders(R, d, size)
           r == Right(d, size)
           b == Bottom(d, size)
<1>1. /\ n \in Nat /\ n > 0 /\ DOMAIN free = 1 .. n /\ i \in 1 .. n
      /\ free \in Seq(FreeRects) /\ placed \in Seq(Area) /\ d \in FreeRects
      /\ TwinsMutual(free) /\ OnlyTwinsOverlap(free)
  BY DEF PackInv, TypeOK, FreeSpaceSound
<1>2. free' = A /\ placed' = Append(placed, p) /\ p \in Area
  BY <1>1, RemainderFacts DEF PlaceAt, PlacedIn
<1>3. /\ R \in Seq(FreeRects) /\ Len(R) = n - 1
      /\ \A k \in 1 .. n - 1 : R[k] = Cut(free, i, Origin(free, i, k))
  BY <1>1, Removed
<1>4. /\ A \in Seq(FreeRects) /\ \A k \in 1 .. Len(R) : A[k] = R[k] /\ k \in DOMAIN A
      /\ r.w > 0 => \E k \in DOMAIN A : SamePlace(A[k], r)
      /\ b.h > 0 => \E k \in DOMAIN A : SamePlace(A[k], b)
  <2> HIDE DEF R, r, b
  <2>1. /\ A \in Seq(FreeRects) /\ Len(R) <= Len(A)
        /\ \A k \in 1 .. Len(R) : A[k] = R[k]
        /\ r.w > 0 => \E k \in DOMAIN A : SamePlace(A[k], r)
        /\ b.h > 0 => \E k \in DOMAIN A : SamePlace(A[k], b)
    BY <1>1, <1>3, Added DEF r, b
  <2>2. DOMAIN A = 1 .. Len(A) /\ Len(A) \in Nat /\ Len(R) \in Nat
    BY <1>3, <2>1
  <2> QED BY <2>1, <2>2
<1> HIDE DEF R, A
<1> SUFFICES ASSUME NEW x \in 0 .. BinW - 1, NEW y \in 0 .. BinH - 1
             PROVE  \/ \E k \in DOMAIN A : Covers(A[k], x, y)
                    \/ \E j \in DOMAIN placed' : Covers(placed'[j], x, y)
  BY <1>2 DEF NothingLost, Covers
<1>5. x \in Int /\ y \in Int
  BY BinSize
<1>6. \A j \in DOMAIN placed : j \in DOMAIN placed' /\ placed'[j] = placed[j]
  BY <1>1, <1>2
<1>7. \E j \in DOMAIN placed' : placed'[j] = p
  <2>1. Len(placed) + 1 \in DOMAIN placed' /\ placed'[Len(placed) + 1] = p
    BY <1>1, <1>2
  <2> QED BY <2>1
<1>8. CASE Covers(d, x, y)
  <2>1. \/ Covers(p, x, y)
        \/ r.w > 0 /\ Covers(r, x, y)
        \/ b.h > 0 /\ Covers(b, x, y)
    BY <1>1, <1>5, <1>8, RemainderFacts
  <2> HIDE DEF p, r, b
  <2>2. ASSUME NEW k \in DOMAIN A, NEW c, SamePlace(A[k], c), Covers(c, x, y)
        PROVE  Covers(A[k], x, y)
    BY <2>2 DEF SamePlace, Covers
  <2> QED BY <1>4, <1>7, <2>1, <2>2
<1>9. CASE \E j \in DOMAIN free : j # i /\ Covers(free[j], x, y)
  <2>1. PICK j \in DOMAIN free : j # i /\ Covers(free[j], x, y)
    BY <1>9
  <2>2. CASE Covers(Cut(free, i, j), x, y)
    <3>1. PICK k \in 1 .. n - 1 : Origin(free, i, k) = j
      <4>1. CASE j = n
        <5>1. i \in 1 .. n - 1
          BY <1>1, <2>1, <4>1
        <5> QED BY <4>1, <5>1 DEF Origin
      <4>2. CASE j # n
        <5>1. j \in 1 .. n - 1
          BY <1>1, <4>2
        <5> QED BY <2>1, <5>1 DEF Origin
      <4> QED BY <4>1, <4>2
    <3> QED BY <1>3, <1>4, <2>2, <3>1
  <2>3. CASE Covers(d, x, y)
    BY <1>8, <2>3
  <2> QED BY <1>1, <1>5, <2>1, <2>2, <2>3, CutFacts
<1>10. CASE \E j \in DOMAIN placed : Covers(placed[j], x, y)
  BY <1>6, <1>10
<1> QED BY <1>8, <1>9, <1>10 DEF NothingLost

(***************************************************************************)
(* The whole bin is one free rectangle at first.                           *)
(***************************************************************************)
LEMMA InitSound ==
    ASSUME Init
    PROVE  PackInv /\ NothingLost
<1> DEFINE r0 == FreeRect(0, 0, BinW, BinH)
<1>1. /\ free = <<r0>> /\ placed = <<>>
      /\ r0.x = 0 /\ r0.y = 0 /\ r0.w = BinW /\ r0.h = BinH /\ r0.twin = NoTwin
  BY DEF Init, FreeRect
<1>2. r0 \in FreeRects
  BY BinSize DEF FreeRect, FreeRects, NoTwin
<1> HIDE DEF r0
<1>3. DOMAIN free = {1} /\ free[1] = r0 /\ DOMAIN placed = {}
  BY <1>1
<1>4. TypeOK
  BY <1>1, <1>2 DEF TypeOK
<1>5. PlacedApart
  BY <1>3 DEF PlacedApart, AllInBin
<1>6. AllInBin(free)
  BY <1>1, <1>3, BinSize DEF AllInBin, InBin
<1>7. FreeApart(free) /\ TwinsMutual(free) /\ OnlyTwinsOverlap(free)
  BY <1>1, <1>3 DEF FreeApart, TwinsMutual, OnlyTwinsOverlap
<1>8. NothingLost
  BY <1>1, <1>3, BinSize DEF NothingLost, Covers
<1> QED BY <1>4, <1>5, <1>6, <1>7, <1>8 DEF PackInv, FreeSpaceSound

LEMMA PackInvHolds == Spec => [](PackInv /\ NothingLost)
<1>1. Init => PackInv /\ NothingLost
  BY InitSound
<1>2. PackInv /\ NothingLost /\ [Next]_packVars => (PackInv /\ NothingLost)'
  <2> SUFFICES ASSUME PackInv, NothingLost, [Next]_packVars
               PROVE  (PackInv /\ NothingLost)'
    OBVIOUS
  <2>1. CASE Next
    BY <2>1, StepPlaces, PackStep, PackLosesNothing
  <2>2. CASE UNCHANGED packVars
    BY <2>2 DEF packVars, PackInv, NothingLost, TypeOK, PlacedApart, FreeSpaceSound,
                AllInBin, InBin, FreeApart, TwinsMutual, OnlyTwinsOverlap,
                Disjoint, Corner, Covers
  <2> QED BY <2>1, <2>2
<1> QED BY <1>1, <1>2, PTL DEF Spec

(***************************************************************************)
(* Free rectangles always have a positive size, in whatever order and at   *)
(* whatever fit they are cut (addFreeRect refuses the others).             *)
(***************************************************************************)
THEOREM TypeCorrect == Spec => []TypeOK
BY PackInvHolds, PTL DEF PackInv

(***************************************************************************)
(* RectPacker2D never hands out the same place twice, nor one outside the  *)
(* bin, for any bin, any sequence of sizes and any scorer.                 *)
(***************************************************************************)
THEOREM HandedOutOnce == Spec => []PlacedApart
BY PackInvHolds, PTL DEF PackInv

(***************************************************************************)
(* The free list stays sound: the counterpart indices are right after      *)
(* every removal, so that the assertions of removeFreeRect hold, and only  *)
(* counterparts overlap.                                                   *)
(***************************************************************************)
THEOREM FreeListSound == Spec => []FreeSpaceSound
BY PackInvHolds, PTL DEF PackInv

(***************************************************************************)
(* Every cell of the bin is free or handed out: removeFreeRect and the     *)
(* remainders of pack lose nothing.                                        *)
(***************************************************************************)
THEOREM NoSpaceLost == Spec => []NothingLost
BY PackInvHolds, PTL

-----------------------------------------------------------------------------
(* Induction without an operator for the predicate: strict inclusion is    *)
(* well founded on the finite sets 0 .. m.                                 *)

LEMMA LeastOfNat ==
    ASSUME NEW T, T \subseteq Nat, T # {}
    PROVE  \E n \in T : \A m \in T : n <= m
<1>1. PICK b \in T : TRUE
  OBVIOUS
<1> DEFINE U == {m \in T : m <= b}
           F == {0 .. m : m \in U}
<1>2. F \subseteq FiniteSubsetsOf(0 .. b) /\ F # {}
  <2>1. ASSUME NEW m \in U PROVE 0 .. m \in FiniteSubsetsOf(0 .. b)
    <3>1. m \in Nat /\ b \in Nat /\ m <= b
      BY <1>1
    <3>2. 0 .. m \subseteq 0 .. b /\ IsFiniteSet(0 .. m)
      BY <3>1, FS_Interval
    <3> QED
      BY <3>2, Zenon DEF FiniteSubsetsOf
  <2>2. b \in U
    BY <1>1
  <2> QED
    BY <2>1, <2>2
<1>3. IsWellFoundedOn(StrictSubsetOrdering(0 .. b), FiniteSubsetsOf(0 .. b))
  BY FS_StrictSubsetOrderingWellFounded
<1>4. \E x \in F : \A y \in F : ~ (<<y, x>> \in StrictSubsetOrdering(0 .. b))
  BY <1>2, <1>3, WFMin, Zenon
<1>5. PICK n \in U : \A m \in U : ~ (<<0 .. m, 0 .. n>> \in StrictSubsetOrdering(0 .. b))
  BY <1>4
<1>6. ASSUME NEW m \in T, ~(n <= m) PROVE FALSE
  <2>1. m \in Nat /\ n \in Nat /\ b \in Nat /\ m < n /\ n <= b
    BY <1>6
  <2>2. m \in U
    BY <2>1
  <2>3. 0 .. m \subseteq 0 .. n /\ n \in 0 .. n /\ n \notin 0 .. m
    BY <2>1
  <2>4. 0 .. m \in SUBSET (0 .. b) /\ 0 .. n \in SUBSET (0 .. b)
    BY <2>1
  <2> QED
    BY <1>5, <2>2, <2>3, <2>4 DEF StrictSubsetOrdering
<1> QED
  BY <1>6

LEMMA InductionOnNat ==
    ASSUME NEW T, 0 \in T, \A n \in Nat : n \in T => n + 1 \in T
    PROVE  Nat \subseteq T
<1> SUFFICES ASSUME Nat \ T # {} PROVE FALSE
  OBVIOUS
<1>1. PICK n \in Nat \ T : \A m \in Nat \ T : n <= m
  BY LeastOfNat
<1>2. n # 0 /\ n - 1 \in Nat
  BY <1>1
<1>3. n - 1 \in T
  BY <1>1, <1>2
<1> QED
  BY <1>1, <1>2, <1>3

-----------------------------------------------------------------------------
(* The loop of chooseSlot. FoldLeftDomain is a recursive function on the   *)
(* sets of indices, of which only the prefixes of the list matter.         *)

Indices == [i \in DOMAIN free |-> i]

IsFold(size, it) ==
    it = [s \in SUBSET DOMAIN Indices |->
            IF s = {} THEN NoSlot
            ELSE LET x == Max(s) IN Consider(size, it[s \ {x}], Indices[x])]

LEMMA ChooseSlotIsFold ==
    ASSUME NEW size
    PROVE  ChooseSlot(size) = (CHOOSE it : IsFold(size, it))[DOMAIN Indices]
  BY DEF ChooseSlot, FoldLeftDomain, FoldLeft, MapThenFoldSet, Indices, IsFold

LEMMA MaxIs ==
    ASSUME NEW n \in Nat, NEW s, s \subseteq 1 .. n, n \in s
    PROVE  Max(s) = n
<1>1. \A y \in s : n >= y
  OBVIOUS
<1>2. Max(s) \in s /\ \A y \in s : Max(s) >= y
  BY <1>1 DEF Max
<1>3. PICK m : m = Max(s)
  OBVIOUS
<1>4. m \in 1 .. n /\ m >= n /\ n >= m
  BY <1>1, <1>2, <1>3
<1> QED
  BY <1>3, <1>4

\* The function exists: a set of indices is handled after those without its last.
LEMMA FoldExists == ASSUME NEW size, NEW n \in Nat, DOMAIN free = 1 .. n
                    PROVE  \E it : IsFold(size, it)
<1> DEFINE Step(f, s) == IF s = {} THEN NoSlot
                         ELSE Consider(size, f[s \ {Max(s)}], Indices[Max(s)])
           UpTo(f, k) == f = [s \in SUBSET (1 .. k) |-> Step(f, s)]
           T == {k \in Nat : \E f : UpTo(f, k)}
<1>1. 0 \in T
  <2> DEFINE f == [s \in SUBSET (1 .. 0) |-> NoSlot]
  <2>1. \A s \in SUBSET (1 .. 0) : s = {}
    OBVIOUS
  <2>2. UpTo(f, 0)
    BY <2>1
  <2> QED
    BY <2>2
<1>2. ASSUME NEW k \in Nat, k \in T PROVE k + 1 \in T
  <2>1. PICK f : UpTo(f, k)
    BY <1>2
  <2> DEFINE Later(s) == Consider(size, f[s \ {k + 1}], Indices[k + 1])
             g == [s \in SUBSET (1 .. k + 1) |-> IF k + 1 \in s THEN Later(s) ELSE f[s]]
  <2>2. ASSUME NEW s \in SUBSET (1 .. k + 1) PROVE g[s] = Step(g, s)
    <3>1. CASE k + 1 \in s
      <4>1. Max(s) = k + 1 /\ s # {}
        <5>1. k + 1 \in Nat /\ s \subseteq 1 .. k + 1
          BY <2>2
        <5> QED
          BY <3>1, <5>1, MaxIs
      <4>2. s \ {k + 1} \in SUBSET (1 .. k + 1) /\ k + 1 \notin s \ {k + 1}
        OBVIOUS
      <4>3. g[s \ {k + 1}] = f[s \ {k + 1}]
        BY <4>2
      <4>4. g[s] = Later(s)
        BY <3>1
      <4> HIDE DEF g
      <4> QED
        BY <4>1, <4>3, <4>4
    <3>2. CASE k + 1 \notin s
      <4>1. s \in SUBSET (1 .. k)
        BY <3>2
      <4>2. g[s] = f[s]
        BY <3>2
      <4>3. f[s] = Step(f, s)
        BY <2>1, <4>1
      <4>4. \A x : s \ {x} \in SUBSET (1 .. k + 1) /\ k + 1 \notin s \ {x}
        BY <3>2
      <4>5. \A x : g[s \ {x}] = f[s \ {x}]
        BY <4>4
      <4> HIDE DEF g
      <4>6. Step(g, s) = Step(f, s)
        BY <4>5
      <4> QED
        BY <4>2, <4>3, <4>6
    <3> QED
      BY <3>1, <3>2
  <2>3. g = [s \in SUBSET (1 .. k + 1) |-> g[s]]
    OBVIOUS
  <2> HIDE DEF g
  <2>4. UpTo(g, k + 1)
    BY <2>2, <2>3
  <2>5. k + 1 \in Nat
    OBVIOUS
  <2> QED
    BY <2>4, <2>5
<1> HIDE DEF T
<1>3. n \in T
  BY <1>1, <1>2, InductionOnNat
<1>4. PICK f : UpTo(f, n)
  BY <1>3 DEF T
<1>5. DOMAIN Indices = 1 .. n
  BY DEF Indices
<1>6. IsFold(size, f)
  BY <1>4, <1>5 DEF IsFold
<1> QED
  BY <1>6

(***************************************************************************)
(* What the loop has found after the first k entries: a perfect fit, or    *)
(* none among them and, if a slot is set, one that fits.                   *)
(***************************************************************************)
IsBest(b) ==
    /\ DOMAIN b = {"slot", "flip", "score", "perfect"} /\ b = [f \in DOMAIN b |-> b[f]]
    /\ b.flip \in BOOLEAN /\ b.perfect \in BOOLEAN
    /\ b.score \in Int /\ b.score <= NonFit
Found(size, b, k) ==
    /\ IsBest(b)
    /\ b.perfect = TRUE => b.slot # 0 /\ <<b.slot, b.flip>> \in Perfect(size)
    /\ b.perfect = FALSE =>
        /\ b.slot # 0 => <<b.slot, b.flip>> \in Fitting(size)
        /\ \A i \in 1 .. k, flip \in BOOLEAN :
              Turn(size, flip) # [w |-> free[i].w, h |-> free[i].h]

LEMMA MaxOfTwo ==
    ASSUME NEW a \in Int, NEW b \in Int
    PROVE  Max({a, b}) = IF a >= b THEN a ELSE b
<1> DEFINE m == IF a >= b THEN a ELSE b
<1>1. m \in {a, b} /\ \A y \in {a, b} : m >= y
  OBVIOUS
<1>2. Max({a, b}) \in {a, b} /\ \A y \in {a, b} : Max({a, b}) >= y
  BY <1>1 DEF Max
<1> QED
  BY <1>2

\* Nothing that fits into a free rectangle scores worse than nothing.
LEMMA ScoreFacts ==
    ASSUME NEW size, IsSize(size), NEW r \in FreeRects, InBin(r)
    PROVE  /\ Score(size, r) \in Int /\ Score(size, r) <= NonFit
           /\ Score(size, r) < NonFit => Fits(size, r)
<1>1. /\ r.x \in Nat /\ r.y \in Nat /\ r.w \in Nat /\ r.h \in Nat
      /\ size.w \in Nat /\ size.h \in Nat /\ BinW \in Nat /\ BinH \in Nat
      /\ r.x + r.w <= BinW /\ r.y + r.h <= BinH
  BY BinSize DEF FreeRects, IsSize, InBin
<1>2. Max({r.w - size.w, r.h - size.h}) \in {r.w - size.w, r.h - size.h}
  BY <1>1, MaxOfTwo
<1> QED
  BY <1>1, <1>2 DEF Score, NonFit

LEMMA TurnedSize ==
    ASSUME NEW size, IsSize(size), NEW flip \in BOOLEAN
    PROVE  IsSize(Turn(size, flip))
  BY DEF IsSize, Turn

Slotted(b, i, flip, score) == [b EXCEPT !.slot = i, !.flip = flip, !.score = score]
Perfected(b, i, flip) == [b EXCEPT !.slot = i, !.perfect = TRUE, !.flip = flip]

LEMMA SlottedFields ==
    ASSUME NEW b, IsBest(b), NEW i, NEW flip \in BOOLEAN,
           NEW score, score \in Int, score <= NonFit,
           NEW q, q = Slotted(b, i, flip, score)
    PROVE  IsBest(q) /\ q.slot = i /\ q.flip = flip /\ q.score = score /\ q.perfect = b.perfect
<1>1. /\ DOMAIN q = {"slot", "flip", "score", "perfect"} /\ q = [f \in DOMAIN q |-> q[f]]
      /\ q.slot = i /\ q.flip = flip /\ q.score = score /\ q.perfect = b.perfect
  BY DEF Slotted, IsBest
<1> QED
  BY <1>1 DEF IsBest

Settled(b) == b.perfect = TRUE

LEMMA PerfectedFields ==
    ASSUME NEW b, IsBest(b), NEW i, NEW flip \in BOOLEAN, NEW q, q = Perfected(b, i, flip)
    PROVE  IsBest(q) /\ q.slot = i /\ q.flip = flip /\ Settled(q)
<1>1. /\ DOMAIN q = {"slot", "flip", "score", "perfect"} /\ q = [f \in DOMAIN q |-> q[f]]
      /\ q.slot = i /\ q.flip = flip /\ q.score = b.score /\ q.perfect = TRUE
  BY DEF Perfected, IsBest
<1> QED
  BY <1>1 DEF IsBest, Settled

\* One round of the loop.
LEMMA ConsiderFinds ==
    ASSUME PackInv, NEW size, IsSize(size), size = [w |-> size.w, h |-> size.h],
           NEW k \in Nat, k + 1 \in DOMAIN free, NEW b, Found(size, b, k)
    PROVE  Found(size, Consider(size, b, k + 1), k + 1)
<1> DEFINE i == k + 1
           r == free[i]
           score == Score(size, r)
           flippedScore == Score(Turn(size, TRUE), r)
           upright == IF score < b.score THEN Slotted(b, i, FALSE, score) ELSE b
           exact == \E flip \in BOOLEAN : Turn(size, flip) = [w |-> r.w, h |-> r.h]
           c == Consider(size, b, i)
<1>1. r \in FreeRects /\ InBin(r) /\ i \in DOMAIN free
  BY DEF PackInv, TypeOK, FreeSpaceSound, AllInBin
<1>2. /\ score \in Int /\ score <= NonFit /\ flippedScore \in Int
      /\ score < NonFit => Fits(Turn(size, FALSE), r)
      /\ flippedScore < NonFit => Fits(Turn(size, TRUE), r)
  <2>1. Turn(size, FALSE) = size
    BY DEF Turn
  <2>2. IsSize(Turn(size, TRUE))
    BY TurnedSize
  <2> QED
    BY <1>1, <2>1, <2>2, ScoreFacts
<1>3. IsBest(b) /\ b.score \in Int /\ b.score <= NonFit /\ b.perfect \in BOOLEAN
  BY DEF Found, IsBest
<1> HIDE DEF score, flippedScore
<1>7. NonFit \in Int
  BY BinSize DEF NonFit
<1>4. CASE b.perfect = TRUE
  <2>1. c = b
    BY <1>4 DEF Consider
  <2> QED
    BY <1>4, <2>1 DEF Found
<1>5. CASE b.perfect = FALSE /\ exact
  <2>0. PICK f \in BOOLEAN : f = (size # [w |-> r.w, h |-> r.h])
    OBVIOUS
  <2>1. c = Perfected(b, i, f)
    BY <1>5, <2>0, Zenon DEF Consider, Perfected
  <2>2. f \in BOOLEAN
    BY <2>0
  <2>3. Turn(size, f) = [w |-> r.w, h |-> r.h]
    <3>1. CASE size = [w |-> r.w, h |-> r.h]
      BY <2>0, <3>1 DEF Turn
    <3>2. CASE size # [w |-> r.w, h |-> r.h]
      BY <1>5, <2>0, <3>2 DEF Turn
    <3> QED
      BY <3>1, <3>2
  <2>4. Fits(Turn(size, f), r)
    BY <1>1, <2>3 DEF Fits, FreeRects
  <2>5. <<i, f>> \in Perfect(size)
    BY <1>1, <2>2, <2>3, <2>4 DEF Perfect, Fitting
  <2>6. /\ IsBest(c) /\ c.slot = i /\ c.flip = f /\ c.perfect = TRUE
    <3>2. PICK q : q = c
      OBVIOUS
    <3>3. PICK j : j = i
      OBVIOUS
    <3>1. IsBest(b)
      BY <1>3
    <3>4. q = Perfected(b, j, f)
      BY <2>1, <3>2, <3>3
    <3> HIDE DEF c, i
    <3>5. IsBest(q) /\ q.slot = j /\ q.flip = f /\ Settled(q)
      BY <2>2, <3>1, <3>4, PerfectedFields
    <3> QED
      BY <3>2, <3>3, <3>5 DEF Settled
  <2> QED
    BY <2>5, <2>6 DEF Found
<1>6. CASE b.perfect = FALSE /\ ~exact
  <2>1. c = IF flippedScore < upright.score THEN Slotted(upright, i, TRUE, score) ELSE upright
    BY <1>6 DEF Consider, Slotted, score, flippedScore
  <2>2. \A j \in 1 .. k + 1, flip \in BOOLEAN :
            Turn(size, flip) # [w |-> free[j].w, h |-> free[j].h]
    <3>1. \A j \in 1 .. k + 1 : j \in 1 .. k \/ j = k + 1
      OBVIOUS
    <3> QED
      BY <1>6, <3>1 DEF Found
  <2>3. /\ IsBest(upright) /\ upright.perfect = FALSE
        /\ upright.slot # 0 => <<upright.slot, upright.flip>> \in Fitting(size)
    <3>1. CASE score < b.score
      <4>1. Fits(Turn(size, FALSE), r)
        <5>1. score < NonFit
          BY <1>2, <1>3, <1>7, <3>1
        <5> QED
          BY <1>2, <5>1
      <4>2. /\ IsBest(upright) /\ upright.perfect = FALSE
            /\ upright.slot = i /\ upright.flip = FALSE
        <5>1. upright = Slotted(b, i, FALSE, score)
          BY <3>1
        <5> HIDE DEF upright, i
        <5>2. score \in Int /\ score <= NonFit /\ IsBest(b)
          BY <1>2, <1>3
        <5>3. PICK no \in BOOLEAN : no = FALSE
          OBVIOUS
        <5>4. upright = Slotted(b, i, no, score)
          BY <5>1, <5>3, Zenon
        <5>5. /\ IsBest(upright) /\ upright.slot = i /\ upright.flip = no
              /\ upright.perfect = b.perfect
          BY <5>2, <5>4, SlottedFields
        <5> QED
          BY <1>6, <5>3, <5>5
      <4>3. <<i, FALSE>> \in Fitting(size)
        BY <1>1, <4>1 DEF Fitting
      <4> QED
        BY <4>2, <4>3
    <3>2. CASE ~(score < b.score)
      BY <1>3, <1>6, <3>2 DEF Found
    <3> QED
      BY <3>1, <3>2
  <2> HIDE DEF upright
  <2>4. CASE flippedScore < upright.score
    <3>1. Fits(Turn(size, TRUE), r)
      <4>1. upright.score \in Int /\ upright.score <= NonFit
        BY <2>3 DEF IsBest
      <4>2. flippedScore < NonFit
        BY <1>2, <1>7, <2>4, <4>1
      <4> QED
        BY <1>2, <4>2
    <3>2. /\ IsBest(c) /\ c.perfect = FALSE /\ c.slot = i /\ c.flip = TRUE
      <4>1. c = Slotted(upright, i, TRUE, score)
        BY <2>1, <2>4
      <4> HIDE DEF c, i
      <4>2. score \in Int /\ score <= NonFit /\ IsBest(upright)
        BY <1>2, <2>3
      <4>3. PICK yes \in BOOLEAN : yes = TRUE
        OBVIOUS
      <4>4. c = Slotted(upright, i, yes, score)
        BY <4>1, <4>3, Zenon
      <4>5. IsBest(c) /\ c.slot = i /\ c.flip = yes /\ c.perfect = upright.perfect
        BY <4>2, <4>4, SlottedFields
      <4> QED
        BY <2>3, <4>3, <4>5
    <3>3. <<i, TRUE>> \in Fitting(size)
      BY <1>1, <3>1 DEF Fitting
    <3> QED
      BY <2>2, <3>2, <3>3 DEF Found
  <2>5. CASE ~(flippedScore < upright.score)
    BY <2>1, <2>2, <2>3, <2>5 DEF Found
  <2> QED
    BY <2>4, <2>5
<1> QED
  BY <1>3, <1>4, <1>5, <1>6

\* Whatever the loop finds is a choice that RectPacker allows.
LEMMA ChooseSlotFinds ==
    ASSUME PackInv, NEW size, IsSize(size), size = [w |-> size.w, h |-> size.h],
           ChooseSlot(size).slot # 0
    PROVE  <<ChooseSlot(size).slot, ChooseSlot(size).flip>> \in Slots(size)
<1>1. PICK n \in Nat : n = Len(free) /\ DOMAIN free = 1 .. n
  BY DEF PackInv, TypeOK
<1>2. PICK it : it = CHOOSE f : IsFold(size, f)
  OBVIOUS
<1>3. IsFold(size, it)
  BY <1>1, <1>2, FoldExists, Zenon
<1>4. ASSUME NEW s \in SUBSET (1 .. n)
      PROVE  it[s] = IF s = {} THEN NoSlot ELSE Consider(size, it[s \ {Max(s)}], Max(s))
  <2>1. it[s] = IF s = {} THEN NoSlot
                ELSE Consider(size, it[s \ {Max(s)}], Indices[Max(s)])
    BY <1>1, <1>3 DEF IsFold, Indices
  <2>2. CASE s = {}
    BY <2>1, <2>2
  <2>3. CASE s # {}
    <3>1. Max(s) \in s
      <4>1. PICK m \in s : \A y \in s : m >= y
        <5>1. IsFiniteSet(s)
          BY <1>1, FS_Interval, FS_Subset
        <5> DEFINE U == {n - y : y \in s}
        <5>2. U \subseteq Nat /\ U # {}
          BY <1>1, <2>3
        <5> HIDE DEF U
        <5>3. PICK u \in U : \A v \in U : u <= v
          BY <5>2, LeastOfNat
        <5> USE DEF U
        <5>4. PICK m \in s : u = n - m
          BY <5>3
        <5>5. ASSUME NEW y \in s PROVE m >= y
          <6>1. n - m <= n - y
            BY <5>3, <5>4
          <6> QED
            BY <1>1, <6>1
        <5> QED
          BY <5>5
      <4> QED
        BY <4>1 DEF Max
    <3>2. PICK m : m = Max(s)
      OBVIOUS
    <3>3. Indices[m] = m
      BY <1>1, <3>1, <3>2 DEF Indices
    <3> QED
      BY <2>1, <2>3, <3>2, <3>3
  <2> QED
    BY <2>2, <2>3
<1> DEFINE T == {k \in Nat : k <= n => Found(size, it[1 .. k], k)}
<1>5. 0 \in T
  <2>1. it[{}] = NoSlot
    BY <1>4
  <2>2. 1 .. 0 = {}
    OBVIOUS
  <2>3. NonFit \in Int
    BY BinSize DEF NonFit
  <2>4. IsBest(NoSlot) /\ NoSlot.perfect = FALSE /\ NoSlot.slot = 0
    BY <2>3 DEF IsBest, NoSlot
  <2>5. Found(size, NoSlot, 0)
    BY <2>2, <2>4 DEF Found
  <2> QED
    BY <2>1, <2>2, <2>5
<1>6. ASSUME NEW k \in Nat, k \in T PROVE k + 1 \in T
  <2> SUFFICES ASSUME k + 1 <= n PROVE Found(size, it[1 .. k + 1], k + 1)
    OBVIOUS
  <2>1. Found(size, it[1 .. k], k) /\ k + 1 \in DOMAIN free /\ k + 1 \in Nat
    BY <1>1, <1>6
  <2>2. 1 .. k + 1 \in SUBSET (1 .. n) /\ k + 1 \in 1 .. k + 1 /\ (1 .. k + 1) \ {k + 1} = 1 .. k
    BY <1>1
  <2>3. Max(1 .. k + 1) = k + 1
    BY <2>1, <2>2, MaxIs
  <2>4. it[1 .. k + 1] = Consider(size, it[1 .. k], k + 1)
    BY <1>4, <2>2, <2>3
  <2>5. Found(size, Consider(size, it[1 .. k], k + 1), k + 1)
    BY <2>1, ConsiderFinds
  <2> QED
    BY <2>4, <2>5
<1> HIDE DEF T
<1>7. n \in T
  BY <1>5, <1>6, InductionOnNat
<1>8. PICK b : b = it[1 .. n]
  OBVIOUS
<1>9. Found(size, b, n)
  BY <1>7, <1>8 DEF T
<1>10. ChooseSlot(size) = b
  <2>1. DOMAIN Indices = 1 .. n
    BY <1>1 DEF Indices
  <2> QED
    BY <1>2, <1>8, <2>1, ChooseSlotIsFold
<1>11. CASE b.perfect = TRUE
  <2>1. <<b.slot, b.flip>> \in Perfect(size)
    BY <1>9, <1>11 DEF Found
  <2> QED
    BY <1>10, <2>1 DEF Slots
<1>12. CASE b.perfect = FALSE
  <2>1. <<b.slot, b.flip>> \in Fitting(size)
    BY <1>9, <1>10, <1>12 DEF Found
  <2>2. Perfect(size) = {}
    <3>1. \A i \in 1 .. n, flip \in BOOLEAN : Turn(size, flip) # [w |-> free[i].w, h |-> free[i].h]
      BY <1>9, <1>12 DEF Found
    <3> QED
      BY <1>1, <3>1 DEF Perfect, Fitting
  <2> QED
    BY <1>10, <2>1, <2>2 DEF Slots
<1> QED
  BY <1>9, <1>11, <1>12 DEF Found, IsBest

-----------------------------------------------------------------------------
(***************************************************************************)
(* The font. What a drawn glyph owns is the padded rectangle that it was   *)
(* handed out, and what it draws on is the inner part of that.             *)
(***************************************************************************)
Kinds ==
    {Uncached, Empty} \cup {Garbage(size) : size \in ImageSizes}
    \cup {Drawn(size, x, y, flip) : size \in ImageSizes, x \in Nat, y \in Nat, flip \in BOOLEAN}

Upright(g) == Turn([w |-> g.w, h |-> g.h], g.flip)
Inner(g) == [x |-> g.x, y |-> g.y, w |-> Upright(g).w, h |-> Upright(g).h]
Padded(g) == [x |-> g.x, y |-> g.y, w |-> Upright(g).w + 1, h |-> Upright(g).h + 1]
PixelAt(c, g, t) == ImagePixel(c, Upright(g), g.flip, t[1] - g.x, t[2] - g.y)
CoveredBy(g, t) == Covers(Inner(g), t[1], t[2])

GlyphsHandedOut ==
    \A c \in DrawnGlyphs : \E j \in DOMAIN placed : placed[j] = Padded(glyphs[c])
GlyphsApart ==
    \A c, d \in DrawnGlyphs : c # d => Disjoint(Padded(glyphs[c]), Padded(glyphs[d]))
GlyphsDrawn ==
    \A c \in DrawnGlyphs, t \in Texels :
        CoveredBy(glyphs[c], t) => texture[t] = PixelAt(c, glyphs[c], t)
NothingElseDrawn ==
    \A t \in Texels : texture[t] # Blank =>
        \E c \in DrawnGlyphs : CoveredBy(glyphs[c], t) /\ texture[t].glyph = c

FontInv ==
    /\ PackInv
    /\ glyphs \in [Glyphs -> Kinds]
    /\ GlyphsHandedOut
    /\ GlyphsApart
    /\ GlyphsDrawn
    /\ NothingElseDrawn

IsDrawn(g) ==
    /\ g.kind = "drawn" /\ g.x \in Nat /\ g.y \in Nat
    /\ g.w \in Nat \ {0} /\ g.h \in Nat \ {0} /\ g.flip \in BOOLEAN

LEMMA DrawnKind == ASSUME NEW g \in Kinds, g.kind = "drawn" PROVE IsDrawn(g)
<1>1. Uncached.kind # "drawn" /\ Empty.kind # "drawn"
      /\ \A size : Garbage(size).kind # "drawn"
  BY DEF Uncached, Empty, Garbage
<1>2. PICK size \in ImageSizes, x \in Nat, y \in Nat, flip \in BOOLEAN :
          g = Drawn(size, x, y, flip)
  BY <1>1 DEF Kinds
<1>3. size.w \in Nat \ {0} /\ size.h \in Nat \ {0}
  BY ImagesHavePixels
<1>4. g.x = x /\ g.y = y /\ g.w = size.w /\ g.h = size.h /\ g.flip = flip
  BY <1>2 DEF Drawn
<1> QED
  BY <1>3, <1>4 DEF IsDrawn

LEMMA DrawnGlyphIs ==
    ASSUME glyphs \in [Glyphs -> Kinds], NEW c \in DrawnGlyphs
    PROVE  c \in Glyphs /\ IsDrawn(glyphs[c])
<1>1. c \in Glyphs /\ glyphs[c] \in Kinds /\ glyphs[c].kind = "drawn"
  BY DEF DrawnGlyphs
<1> QED
  BY <1>1, DrawnKind

\* The two rectangles of a glyph, whichever way it was turned.
LEMMA GlyphRects ==
    ASSUME NEW g, IsDrawn(g)
    PROVE  /\ Upright(g).w \in Nat \ {0} /\ Upright(g).h \in Nat \ {0}
           /\ g.flip = FALSE => Upright(g).w = g.w /\ Upright(g).h = g.h
           /\ g.flip = TRUE => Upright(g).w = g.h /\ Upright(g).h = g.w
           /\ IsRect(Inner(g)) /\ IsRect(Padded(g))
<1>1. /\ Upright(g).w \in Nat \ {0} /\ Upright(g).h \in Nat \ {0}
      /\ g.flip = FALSE => Upright(g).w = g.w /\ Upright(g).h = g.h
      /\ g.flip = TRUE => Upright(g).w = g.h /\ Upright(g).h = g.w
  BY DEF IsDrawn, Upright, Turn
<1> QED
  BY <1>1 DEF Inner, Padded, IsDrawn, IsRect

\* Glyphs whose padded rectangles are apart do not touch.
LEMMA ApartUncovered ==
    ASSUME NEW g, NEW h, IsDrawn(g), IsDrawn(h), Disjoint(Padded(g), Padded(h)),
           NEW t \in Texels, CoveredBy(g, t)
    PROVE  ~CoveredBy(h, t)
<1>1. /\ IsRect(Inner(g)) /\ IsRect(Inner(h))
      /\ IsRect(Padded(g)) /\ IsRect(Padded(h))
  BY GlyphRects
<1>2. t[1] \in Int /\ t[2] \in Int
  BY BinSize DEF Texels
<1> QED
  BY <1>1, <1>2 DEF CoveredBy, Covers, Inner, Padded, Disjoint, IsRect

(***************************************************************************)
(* What a step of the font does: it packs a padded size, draws the image   *)
(* where it was placed, and remembers the place; or it changes one glyph   *)
(* that is not drawn.                                                      *)
(***************************************************************************)
PlacedGlyph(c, size, i, flip) ==
    /\ IsSize(Turn(PackSize(size), flip)) /\ Fits(Turn(PackSize(size), flip), free[i])
    /\ <<i, flip>> \in Slots(PackSize(size))
    /\ PlaceAt(Turn(PackSize(size), flip), i)
    /\ Upload(c, size, flip, free[i].x, free[i].y)
    /\ glyphs' = [glyphs EXCEPT ![c] = Drawn(size, free[i].x, free[i].y, flip)]

LEMMA DrawPlaces ==
    ASSUME PackInv, NEW c \in Glyphs, NEW size \in ImageSizes, DrawGlyph(c, size)
    PROVE  /\ glyphs[c] = Uncached /\ PackSize(size) \in Sizes
           /\ \E i \in DOMAIN free, flip \in BOOLEAN : PlacedGlyph(c, size, i, flip)
<1> DEFINE p == PackSize(size)
<1>1. size.w \in Nat \ {0} /\ size.h \in Nat \ {0}
  BY ImagesHavePixels
<1>2. IsSize(p) /\ p = [w |-> p.w, h |-> p.h]
  BY <1>1 DEF PackSize, IsSize
<1>3. p \in Sizes
  BY PackedSizes DEF PackSize
<1> HIDE DEF p
<1>4. ChooseSlot(p).slot # 0
  BY DEF DrawGlyph, p
<1>5. <<ChooseSlot(p).slot, ChooseSlot(p).flip>> \in Slots(p)
  BY <1>2, <1>4, ChooseSlotFinds
<1>6. PICK i, flip : i = ChooseSlot(p).slot /\ flip = ChooseSlot(p).flip
  OBVIOUS
<1>7. <<i, flip>> \in Slots(p)
  BY <1>5, <1>6
<1>8. i \in DOMAIN free /\ flip \in BOOLEAN /\ Fits(Turn(p, flip), free[i])
  BY <1>7 DEF Slots, Perfect, Fitting
<1>9. IsSize(Turn(p, flip))
  BY <1>2, <1>8, TurnedSize
<1>10. /\ PlaceAt(Turn(p, flip), i) /\ glyphs[c] = Uncached
       /\ Upload(c, size, flip, free[i].x, free[i].y)
       /\ glyphs' = [glyphs EXCEPT ![c] = Drawn(size, free[i].x, free[i].y, flip)]
  BY <1>6 DEF DrawGlyph, p
<1> QED
  BY <1>3, <1>7, <1>8, <1>9, <1>10 DEF PlacedGlyph, p

\* A glyph that is drawn now: its fields, its place and its pixels.
LEMMA PlacedFacts ==
    ASSUME FontInv, NEW c \in Glyphs, glyphs[c] = Uncached, NEW size \in ImageSizes,
           NEW i \in DOMAIN free, NEW flip \in BOOLEAN, PlacedGlyph(c, size, i, flip),
           NEW g, g = Drawn(size, free[i].x, free[i].y, flip)
    PROVE  /\ IsDrawn(g) /\ g \in Kinds
           /\ glyphs' = [glyphs EXCEPT ![c] = g] /\ c \notin DrawnGlyphs
           /\ placed' = Append(placed, Padded(g))
           /\ Inside(Padded(g), free[i])
           /\ texture' = [t \in Texels |-> IF CoveredBy(g, t) THEN PixelAt(c, g, t)
                                           ELSE texture[t]]
<1> DEFINE p == Turn(PackSize(size), flip)
<1>1. free[i] \in FreeRects
  BY DEF FontInv, PackInv, TypeOK
<1>2. PICK x \in Nat, y \in Nat : x = free[i].x /\ y = free[i].y
  BY <1>1 DEF FreeRects
<1>3. size.w \in Nat \ {0} /\ size.h \in Nat \ {0} /\ size = [w |-> size.w, h |-> size.h]
  BY ImagesHavePixels
<1>4. g = Drawn(size, x, y, flip)
  BY <1>2
<1>5. /\ g.kind = "drawn" /\ g.x = x /\ g.y = y /\ g.w = size.w /\ g.h = size.h
      /\ g.flip = flip
  BY <1>4 DEF Drawn
<1>6. g \in Kinds
  BY <1>4 DEF Kinds
<1>7. IsDrawn(g)
  BY <1>5, <1>6, DrawnKind
<1>8. Upright(g) = Turn(size, flip)
  BY <1>3, <1>5 DEF Upright
<1>9. Padded(g) = [x |-> x, y |-> y, w |-> p.w, h |-> p.h]
  <2>1. p.w = Turn(size, flip).w + 1 /\ p.h = Turn(size, flip).h + 1
    <3>1. CASE flip = TRUE
      BY <3>1 DEF Turn, PackSize
    <3>2. CASE flip = FALSE
      BY <3>2 DEF Turn, PackSize
    <3> QED
      BY <3>1, <3>2
  <2> QED
    BY <1>5, <1>8, <2>1 DEF Padded
<1>10. Inside(Padded(g), free[i])
  <2>1. IsSize(p) /\ Fits(p, free[i])
    BY DEF PlacedGlyph
  <2> HIDE DEF p
  <2>2. Padded(g).x = x /\ Padded(g).y = y /\ Padded(g).w = p.w /\ Padded(g).h = p.h
    BY <1>9
  <2> QED
    BY <1>1, <1>2, <2>1, <2>2 DEF IsSize, Fits, Inside, FreeRects
<1>11. placed' = Append(placed, Padded(g))
  BY <1>2, <1>9 DEF PlacedGlyph, PlaceAt
<1>12. texture' = [t \in Texels |-> IF CoveredBy(g, t) THEN PixelAt(c, g, t)
                                    ELSE texture[t]]
  <2>1. Upload(c, size, flip, x, y)
    BY <1>2 DEF PlacedGlyph
  <2>2. Inner(g) = [x |-> x, y |-> y, w |-> Turn(size, flip).w, h |-> Turn(size, flip).h]
    BY <1>5, <1>8 DEF Inner
  <2>3. \A t : PixelAt(c, g, t) = ImagePixel(c, Turn(size, flip), flip, t[1] - x, t[2] - y)
    BY <1>5, <1>8 DEF PixelAt
  <2> QED
    BY <2>1, <2>2, <2>3, Zenon DEF Upload, CoveredBy
<1>13. glyphs' = [glyphs EXCEPT ![c] = g] /\ c \notin DrawnGlyphs
  BY DEF PlacedGlyph, DrawnGlyphs, Uncached
<1> QED
  BY <1>6, <1>7, <1>10, <1>11, <1>12, <1>13

\* A glyph that is drawn leaves the other ones alone, as its place is apart.
LEMMA DrawKeeps ==
    ASSUME FontInv, NEW c \in Glyphs, NEW size \in ImageSizes, DrawGlyph(c, size)
    PROVE  FontInv'
<1>1. glyphs[c] = Uncached
  BY DrawPlaces DEF FontInv
<1>2. PICK i \in DOMAIN free, flip \in BOOLEAN : PlacedGlyph(c, size, i, flip)
  BY DrawPlaces DEF FontInv
<1>3. PICK g : g = Drawn(size, free[i].x, free[i].y, flip)
  OBVIOUS
<1>4. /\ IsDrawn(g) /\ g \in Kinds
      /\ glyphs' = [glyphs EXCEPT ![c] = g] /\ c \notin DrawnGlyphs
      /\ placed' = Append(placed, Padded(g))
      /\ Inside(Padded(g), free[i])
      /\ texture' = [t \in Texels |-> IF CoveredBy(g, t) THEN PixelAt(c, g, t)
                                      ELSE texture[t]]
  BY <1>1, <1>2, <1>3, PlacedFacts
<1>5. PackInv'
  BY <1>2, PackStep DEF PlacedGlyph, FontInv
<1>6. /\ glyphs \in [Glyphs -> Kinds] /\ glyphs' \in [Glyphs -> Kinds] /\ glyphs'[c] = g
      /\ \A d \in Glyphs : d # c => glyphs'[d] = glyphs[d]
  BY <1>4 DEF FontInv
<1>7. /\ DrawnGlyphs' = DrawnGlyphs \cup {c}
      /\ \A d \in DrawnGlyphs : d # c /\ glyphs'[d] = glyphs[d] /\ IsDrawn(glyphs[d])
  <2>1. g.kind = "drawn"
    BY <1>4 DEF IsDrawn
  <2>2. DrawnGlyphs' = DrawnGlyphs \cup {c}
    BY <1>4, <1>6, <2>1 DEF DrawnGlyphs
  <2>3. \A d \in DrawnGlyphs : IsDrawn(glyphs[d]) /\ d \in Glyphs
    BY <1>6, DrawnGlyphIs
  <2> QED
    BY <1>4, <1>6, <2>2, <2>3
<1>8. /\ placed \in Seq(Area) /\ free[i] \in FreeRects
      /\ \A j \in DOMAIN placed : Disjoint(free[i], placed[j])
  BY DEF FontInv, PackInv, TypeOK, FreeSpaceSound, FreeApart
<1>9. PICK n \in Nat : /\ n = Len(placed) /\ DOMAIN placed = 1 .. n
                       /\ DOMAIN placed' = 1 .. n + 1 /\ placed'[n + 1] = Padded(g)
                       /\ \A j \in 1 .. n : placed'[j] = placed[j]
  BY <1>4, <1>8
\* Its place is apart from every other glyph's.
<1>10. ASSUME NEW d \in DrawnGlyphs
       PROVE  Disjoint(Padded(g), Padded(glyphs[d])) /\ Disjoint(Padded(glyphs[d]), Padded(g))
  <2>1. PICK j \in DOMAIN placed : placed[j] = Padded(glyphs[d])
    BY DEF FontInv, GlyphsHandedOut
  <2>2. IsRect(Padded(g)) /\ IsRect(free[i]) /\ IsRect(Padded(glyphs[d]))
    BY <1>4, <1>7, <1>8, GlyphRects, FreeRectIsRect
  <2>3. Disjoint(free[i], Padded(glyphs[d]))
    BY <1>8, <2>1
  <2> QED
    BY <1>4, <2>2, <2>3, InsideDisjoint
<1>11. GlyphsHandedOut'
  <2> SUFFICES ASSUME NEW d \in DrawnGlyphs'
               PROVE  \E j \in DOMAIN placed' : placed'[j] = Padded(glyphs'[d])
    BY DEF GlyphsHandedOut
  <2>1. CASE d = c
    <3>1. n + 1 \in DOMAIN placed'
      BY <1>9
    <3> QED
      BY <1>6, <1>9, <2>1, <3>1
  <2>2. CASE d # c
    <3>1. d \in DrawnGlyphs /\ glyphs'[d] = glyphs[d]
      BY <1>7, <2>2
    <3>2. PICK j \in DOMAIN placed : placed[j] = Padded(glyphs[d])
      BY <3>1 DEF FontInv, GlyphsHandedOut
    <3>3. j \in DOMAIN placed' /\ placed'[j] = placed[j]
      BY <1>9, <3>2
    <3> QED
      BY <3>1, <3>2, <3>3
  <2> QED
    BY <2>1, <2>2
<1>12. GlyphsApart'
  <2> SUFFICES ASSUME NEW d \in DrawnGlyphs', NEW e \in DrawnGlyphs', d # e
               PROVE  Disjoint(Padded(glyphs'[d]), Padded(glyphs'[e]))
    BY DEF GlyphsApart
  <2>1. CASE d = c
    BY <1>6, <1>7, <1>10, <2>1
  <2>2. CASE e = c
    BY <1>6, <1>7, <1>10, <2>2
  <2>3. CASE d # c /\ e # c
    <3>1. d \in DrawnGlyphs /\ e \in DrawnGlyphs
      BY <1>7, <2>3
    <3>2. Disjoint(Padded(glyphs[d]), Padded(glyphs[e]))
      BY <3>1 DEF FontInv, GlyphsApart
    <3> QED
      BY <1>7, <3>1, <3>2
  <2> QED
    BY <2>1, <2>2, <2>3
<1>13. GlyphsDrawn'
  <2> SUFFICES ASSUME NEW d \in DrawnGlyphs', NEW t \in Texels, CoveredBy(glyphs'[d], t)
               PROVE  texture'[t] = PixelAt(d, glyphs'[d], t)
    BY DEF GlyphsDrawn
  <2>1. CASE d = c
    BY <1>4, <1>6, <2>1
  <2>2. CASE d # c
    <3>1. d \in DrawnGlyphs /\ glyphs'[d] = glyphs[d] /\ IsDrawn(glyphs[d])
      BY <1>7, <2>2
    <3>2. CoveredBy(glyphs[d], t)
      BY <3>1
    <3>3. ~CoveredBy(g, t)
      BY <1>4, <1>10, <3>1, <3>2, ApartUncovered
    <3>4. texture'[t] = texture[t]
      BY <1>4, <3>3
    <3>5. texture[t] = PixelAt(d, glyphs[d], t)
      BY <3>1, <3>2 DEF FontInv, GlyphsDrawn
    <3> QED
      BY <3>1, <3>4, <3>5
  <2> QED
    BY <2>1, <2>2
<1>14. NothingElseDrawn'
  <2> SUFFICES ASSUME NEW t \in Texels, texture'[t] # Blank
               PROVE  \E d \in DrawnGlyphs' : /\ CoveredBy(glyphs'[d], t)
                                              /\ texture'[t].glyph = d
    BY DEF NothingElseDrawn
  <2>1. CASE CoveredBy(g, t)
    <3>1. texture'[t] = PixelAt(c, g, t)
      BY <1>4, <2>1
    <3>2. texture'[t].glyph = c
      BY <3>1 DEF PixelAt, ImagePixel
    <3> QED
      BY <1>6, <1>7, <2>1, <3>2
  <2>2. CASE ~CoveredBy(g, t)
    <3>1. texture'[t] = texture[t]
      BY <1>4, <2>2
    <3>2. PICK d \in DrawnGlyphs : CoveredBy(glyphs[d], t) /\ texture[t].glyph = d
      BY <3>1 DEF FontInv, NothingElseDrawn
    <3> QED
      BY <1>7, <3>1, <3>2
  <2> QED
    BY <2>1, <2>2
<1> QED
  BY <1>5, <1>6, <1>11, <1>12, <1>13, <1>14 DEF FontInv

\* Nor does anything else that happens to a glyph.
LEMMA OthersKeep ==
    ASSUME FontInv, UNCHANGED <<packVars, texture>>, glyphs' \in [Glyphs -> Kinds],
           \A c \in Glyphs : glyphs'[c] = glyphs[c]
                \/ (glyphs[c].kind # "drawn" /\ glyphs'[c].kind # "drawn")
    PROVE  FontInv'
<1>1. free' = free /\ placed' = placed /\ texture' = texture
  BY DEF packVars
<1>2. PackInv'
  <2>1. PackInv
    BY DEF FontInv
  <2> QED
    BY <1>1, <2>1 DEF PackInv, TypeOK, PlacedApart, FreeSpaceSound,
        AllInBin, InBin, FreeApart, TwinsMutual, OnlyTwinsOverlap, Disjoint, Corner
<1>3. DrawnGlyphs' = DrawnGlyphs /\ \A c \in DrawnGlyphs : glyphs'[c] = glyphs[c]
  BY DEF DrawnGlyphs
<1>4. GlyphsHandedOut' /\ GlyphsApart'
  BY <1>1, <1>3 DEF FontInv, GlyphsHandedOut, GlyphsApart
<1>5. GlyphsDrawn' /\ NothingElseDrawn'
  BY <1>1, <1>3 DEF FontInv, GlyphsDrawn, NothingElseDrawn
<1> QED
  BY <1>2, <1>4, <1>5 DEF FontInv

LEMMA FontSteps == FontInv /\ [FontNext]_fontVars => FontInv'
<1> SUFFICES ASSUME FontInv, [FontNext]_fontVars PROVE FontInv'
  OBVIOUS
<1>1. glyphs \in [Glyphs -> Kinds]
  BY DEF FontInv
<1>2. ASSUME NEW c \in Glyphs, GetEmptyGlyph(c) PROVE FontInv'
  <2>1. Empty \in Kinds /\ Empty.kind # "drawn" /\ Uncached.kind # "drawn"
    BY DEF Kinds, Empty, Uncached
  <2> QED
    BY <1>1, <1>2, <2>1, OthersKeep DEF GetEmptyGlyph
<1>3. ASSUME NEW c \in Glyphs, NEW size \in ImageSizes, MissGlyph(c, size) PROVE FontInv'
  <2>1. Garbage(size) \in Kinds
    BY DEF Kinds
  <2>2. Garbage(size).kind # "drawn" /\ Uncached.kind # "drawn"
    BY DEF Garbage, Uncached
  <2> QED
    BY <1>1, <1>3, <2>1, <2>2, OthersKeep DEF MissGlyph
<1>4. CASE UNCHANGED fontVars
  BY <1>1, <1>4, OthersKeep DEF fontVars
<1> QED
  BY <1>2, <1>3, <1>4, DrawKeeps DEF FontNext

LEMMA FontStarts == FontInit => FontInv
<1> SUFFICES ASSUME FontInit PROVE FontInv
  OBVIOUS
<1>1. PackInv
  BY InitSound DEF FontInit
<1>2. glyphs \in [Glyphs -> Kinds] /\ DrawnGlyphs = {}
  BY DEF FontInit, Kinds, DrawnGlyphs, Uncached
<1>3. \A t \in Texels : texture[t] = Blank
  BY DEF FontInit
<1> QED
  BY <1>1, <1>2, <1>3
     DEF FontInv, GlyphsHandedOut, GlyphsApart, GlyphsDrawn, NothingElseDrawn

LEMMA FontInvHolds == FontSpec => []FontInv
BY FontStarts, FontSteps, PTL DEF FontSpec

-----------------------------------------------------------------------------
\* Interpolating along an edge of n texels meets each of its n pixels.
LEMMA Interpolates ==
    ASSUME NEW a \in Nat, NEW n \in Nat \ {0}
    PROVE  (a * n) \div n = a /\ (a * 0) \div n = 0
OBVIOUS

\* The corners of a glyph lead to its pixels, however it was turned.
LEMMA SampleIs ==
    ASSUME NEW g, IsDrawn(g), NEW a \in 0 .. g.w - 1, NEW b \in 0 .. g.h - 1
    PROVE  Sample(g, a, b) = IF g.flip THEN <<g.x + b, g.y + a>> ELSE <<g.x + a, g.y + b>>
<1>1. PICK x \in Nat, y \in Nat, w \in Nat \ {0}, h \in Nat \ {0} :
          x = g.x /\ y = g.y /\ w = g.w /\ h = g.h
  BY DEF IsDrawn
<1>2. a \in Nat /\ b \in Nat
  BY <1>1
<1>3. /\ (a * w) \div w = a /\ (b * h) \div h = b
      /\ (a * 0) \div w = 0 /\ (b * 0) \div h = 0
  BY <1>1, <1>2, Interpolates
<1>4. /\ (x + w) - x = w /\ (x + h) - x = h /\ (y + w) - y = w /\ (y + h) - y = h
      /\ x - x = 0 /\ y - y = 0
  BY <1>1
<1>5. CASE g.flip = TRUE
  <2>1. /\ TopRight(g)[1] = x /\ TopRight(g)[2] = y + w
        /\ BottomLeft(g)[1] = x + h /\ BottomLeft(g)[2] = y
    BY <1>1, <1>5 DEF TopRight, BottomLeft
  <2>2. Sample(g, a, b) = <<x + (a * (x - x)) \div w + (b * ((x + h) - x)) \div h,
                            y + (a * ((y + w) - y)) \div w + (b * (y - y)) \div h>>
    BY <1>1, <2>1, Zenon DEF Sample
  <2>3. Sample(g, a, b) = <<x + 0 + b, y + a + 0>>
    BY <1>3, <1>4, <2>2
  <2> QED
    BY <1>1, <1>2, <1>5, <2>3
<1>6. CASE g.flip = FALSE
  <2>1. /\ TopRight(g)[1] = x + w /\ TopRight(g)[2] = y
        /\ BottomLeft(g)[1] = x /\ BottomLeft(g)[2] = y + h
    BY <1>1, <1>6 DEF TopRight, BottomLeft
  <2>2. Sample(g, a, b) = <<x + (a * ((x + w) - x)) \div w + (b * (x - x)) \div h,
                            y + (a * (y - y)) \div w + (b * ((y + h) - y)) \div h>>
    BY <1>1, <2>1, Zenon DEF Sample
  <2>3. Sample(g, a, b) = <<x + a + 0, y + 0 + b>>
    BY <1>3, <1>4, <2>2
  <2> QED
    BY <1>1, <1>2, <1>6, <2>3
<1> QED
  BY <1>5, <1>6 DEF IsDrawn

LEMMA ReadableFromInv == FontInv => GlyphsReadable
<1> SUFFICES ASSUME FontInv, NEW c \in DrawnGlyphs, NEW g, g = glyphs[c],
                    NEW a \in 0 .. g.w - 1, NEW b \in 0 .. g.h - 1
             PROVE  texture[Sample(g, a, b)] = [glyph |-> c, px |-> a, py |-> b]
  BY DEF GlyphsReadable
<1>1. IsDrawn(g)
  BY DrawnGlyphIs DEF FontInv
<1>2. /\ g.x \in Nat /\ g.y \in Nat /\ g.w \in Nat \ {0} /\ g.h \in Nat \ {0}
      /\ g.flip \in BOOLEAN /\ a \in Nat /\ b \in Nat
  BY <1>1 DEF IsDrawn
<1>3. InBin(Padded(g))
  <2>1. PICK j \in DOMAIN placed : placed[j] = Padded(g)
    BY DEF FontInv, GlyphsHandedOut
  <2> QED
    BY <2>1 DEF FontInv, PackInv, PlacedApart, AllInBin
<1> DEFINE t == Sample(g, a, b)
           dx == IF g.flip THEN b ELSE a
           dy == IF g.flip THEN a ELSE b
<1>4. t = <<g.x + dx, g.y + dy>>
  BY <1>1, SampleIs
<1>5. dx \in 0 .. Upright(g).w - 1 /\ dy \in 0 .. Upright(g).h - 1
  BY <1>1, <1>2, GlyphRects
<1> HIDE DEF t, dx, dy
<1>6. t \in Texels /\ CoveredBy(g, t)
  <2>1. Upright(g).w \in Nat \ {0} /\ Upright(g).h \in Nat \ {0}
    BY <1>1, GlyphRects
  <2>2. g.x + (Upright(g).w + 1) <= BinW /\ g.y + (Upright(g).h + 1) <= BinH
    BY <1>3 DEF InBin, Padded
  <2>3. g.x + dx \in 0 .. BinW - 1 /\ g.y + dy \in 0 .. BinH - 1
    BY <1>2, <1>5, <2>1, <2>2, BinSize
  <2>4. t \in Texels
    BY <1>4, <2>3 DEF Texels
  <2>5. Covers(Inner(g), g.x + dx, g.y + dy)
    BY <1>2, <1>5, <2>1 DEF Covers, Inner
  <2> QED
    BY <1>4, <2>4, <2>5 DEF CoveredBy
<1>7. texture[t] = PixelAt(c, g, t)
  BY <1>6 DEF FontInv, GlyphsDrawn
<1>8. PixelAt(c, g, t) = ImagePixel(c, Upright(g), g.flip, dx, dy)
  <2>1. t[1] - g.x = dx /\ t[2] - g.y = dy
    BY <1>2, <1>4, <1>5, GlyphRects, <1>1
  <2> QED
    BY <2>1 DEF PixelAt
<1>9. ImagePixel(c, Upright(g), g.flip, dx, dy) = [glyph |-> c, px |-> a, py |-> b]
  <2>1. CASE g.flip = TRUE
    BY <2>1 DEF ImagePixel, dx, dy
  <2>2. CASE g.flip = FALSE
    BY <2>2 DEF ImagePixel, dx, dy
  <2> QED
    BY <1>2, <2>1, <2>2
<1> QED
  BY <1>7, <1>8, <1>9 DEF t

LEMMA NoBleedingFromInv == FontInv => NoBleeding
<1> SUFFICES ASSUME FontInv, NEW c \in DrawnGlyphs, NEW t \in Texels,
                    NEW g, g = glyphs[c],
                    NEW ring,
                    ring = [x |-> g.x - 1, y |-> g.y - 1,
                            w |-> Upright(g).w + 2, h |-> Upright(g).h + 2],
                    Covers(ring, t[1], t[2]), texture[t] # Blank
             PROVE  texture[t].glyph = c
  BY DEF NoBleeding, Upright
<1>1. PICK d \in DrawnGlyphs : CoveredBy(glyphs[d], t) /\ texture[t].glyph = d
  BY DEF FontInv, NothingElseDrawn
<1>2. PICK h : h = glyphs[d]
  OBVIOUS
<1>3. IsDrawn(g) /\ IsDrawn(h)
  BY <1>2, DrawnGlyphIs DEF FontInv
<1>4. ASSUME d # c PROVE FALSE
  <2>1. Disjoint(Padded(g), Padded(h))
    BY <1>2, <1>4 DEF FontInv, GlyphsApart
  <2>2. t[1] \in Int /\ t[2] \in Int
    BY BinSize DEF Texels
  <2>3. /\ Upright(g).w \in Nat /\ Upright(g).h \in Nat
        /\ Upright(h).w \in Nat /\ Upright(h).h \in Nat
        /\ g.x \in Nat /\ g.y \in Nat /\ h.x \in Nat /\ h.y \in Nat
    BY <1>3, GlyphRects DEF IsDrawn
  <2>4. /\ h.x <= t[1] /\ t[1] <= h.x + Upright(h).w - 1
        /\ h.y <= t[2] /\ t[2] <= h.y + Upright(h).h - 1
    BY <1>1, <1>2, <2>2, <2>3 DEF CoveredBy, Covers, Inner
  <2>5. /\ g.x - 1 <= t[1] /\ t[1] <= g.x + Upright(g).w
        /\ g.y - 1 <= t[2] /\ t[2] <= g.y + Upright(g).h
    BY <2>2, <2>3 DEF Covers
  <2>6. \/ g.x + (Upright(g).w + 1) <= h.x \/ h.x + (Upright(h).w + 1) <= g.x
        \/ g.y + (Upright(g).h + 1) <= h.y \/ h.y + (Upright(h).h + 1) <= g.y
    BY <2>1 DEF Disjoint, Padded
  <2> QED
    BY <2>2, <2>3, <2>4, <2>5, <2>6
<1> QED
  BY <1>1, <1>4

(***************************************************************************)
(* Whatever was packed, turned and drawn after it, in an atlas of any      *)
(* size: the corners cached for a glyph lead to each of its pixels, the    *)
(* right way up. (Glyphs cached without coordinates are not claimed.)      *)
(***************************************************************************)
THEOREM CachedGlyphsReadable == FontSpec => []GlyphsReadable
BY FontInvHolds, ReadableFromInv, PTL

(***************************************************************************)
(* The padding that pack_size adds to the right of a glyph and below it is *)
(* enough on all four sides: no texel next to a glyph is another one's.    *)
(***************************************************************************)
THEOREM PaddingSuffices == FontSpec => []NoBleeding
BY FontInvHolds, NoBleedingFromInv, PTL

(***************************************************************************)
(* The loop of chooseSlot with the default scorer only ever makes a choice *)
(* that RectPacker allows: it fits, and is perfect if some choice is. So   *)
(* what is proved of the packer for any scorer holds of the font's atlas.  *)
(***************************************************************************)
THEOREM DefaultScorerPacks == FontSpec => ImplementsPacker
<1>1. FontInit => Init
  BY DEF FontInit
<1>2. FontInv /\ [FontNext]_fontVars => [Next]_packVars
  <2> SUFFICES ASSUME FontInv, [FontNext]_fontVars PROVE [Next]_packVars
    OBVIOUS
  <2>1. ASSUME NEW c \in Glyphs, NEW size \in ImageSizes, DrawGlyph(c, size) PROVE Next
    <3> DEFINE p == PackSize(size)
    <3>1. PICK i \in DOMAIN free, flip \in BOOLEAN : PlacedGlyph(c, size, i, flip)
      BY <2>1, DrawPlaces DEF FontInv
    <3>2. p \in Sizes
      BY <2>1, DrawPlaces DEF FontInv
    <3>3. <<i, flip>> \in Slots(p) /\ PlaceAt(Turn(p, flip), i)
      BY <3>1 DEF PlacedGlyph
    <3> HIDE DEF p
    <3>4. Pack(p)
      BY <3>3 DEF Pack
    <3> QED
      BY <3>2, <3>4 DEF Next
  <2>2. ASSUME NEW c \in Glyphs,
               GetEmptyGlyph(c) \/ \E size \in ImageSizes : MissGlyph(c, size)
        PROVE  UNCHANGED packVars
    BY <2>2 DEF GetEmptyGlyph, MissGlyph
  <2>3. CASE UNCHANGED fontVars
    BY <2>3 DEF fontVars
  <2> QED
    BY <2>1, <2>2, <2>3 DEF FontNext
<1> QED
  BY <1>1, <1>2, FontInvHolds, PTL DEF FontSpec, ImplementsPacker, Spec
=============================================================================
