----------------------------- MODULE RectPacker -----------------------------
(***************************************************************************)
(* slt::RectPacker2D (include/slt/algo/rect_pack.h): packs rectangles into *)
(* a bin, one at a time and for good, from a list of free rectangles.      *)
(*                                                                         *)
(* What is left of a free rectangle after a packing is two free rectangles *)
(* that overlap and know each other by their index; whichever is used      *)
(* first claims the overlap. The list is a vector from which entries are   *)
(* removed by moving the last one into their place, so the indices have to *)
(* be kept up to date.                                                     *)
(*                                                                         *)
(* The slot is chosen by a scorer that the caller provides: any slot that  *)
(* fits may come out, except that a perfect fit is always taken.           *)
(***************************************************************************)
EXTENDS Integers, Sequences

CONSTANTS
    BinW, BinH,  \* the size of the bin
    Sizes        \* the sizes [w, h] that may be packed

ASSUME BinSize == BinW \in Nat \ {0} /\ BinH \in Nat \ {0}
ASSUME SizesPositive == Sizes \subseteq [w : Nat \ {0}, h : Nat \ {0}]

VARIABLES
    free,   \* free_rects_: their position, their size and their counterpart
    placed  \* the rectangles handed out so far, in order

packVars == <<free, placed>>

NoTwin == 0  \* counterpart == -1; indices count from 1 here

FreeRect(x, y, w, h) == [x |-> x, y |-> y, w |-> w, h |-> h, twin |-> NoTwin]

Area == [x : Nat, y : Nat, w : Nat \ {0}, h : Nat \ {0}]
FreeRects == [x : Nat, y : Nat, w : Nat \ {0}, h : Nat \ {0}, twin : Nat]

TypeOK ==
    /\ free \in Seq(FreeRects)
    /\ placed \in Seq(Area)

Init ==
    /\ free = <<FreeRect(0, 0, BinW, BinH)>>
    /\ placed = <<>>

-----------------------------------------------------------------------------
Turn(size, flip) == IF flip THEN [w |-> size.h, h |-> size.w] ELSE size

Fits(size, r) == size.w <= r.w /\ size.h <= r.h

\* addFreeRect, which refuses an empty rectangle.
AddFreeRect(rects, r) == IF r.w > 0 /\ r.h > 0 THEN Append(rects, r) ELSE rects

\* What is left of the counterpart cp when t is used. The lower of the two is
\* cut at its right, the other one at its bottom.
Shrink(cp, t) ==
    IF cp.x < t.x
    THEN [cp EXCEPT !.w = t.x - cp.x, !.twin = NoTwin]
    ELSE [cp EXCEPT !.h = t.y - cp.y, !.twin = NoTwin]

\* A plausible bug: the moved rectangle's counterpart is not told its index.
RemoveForgettingMove(rects, i) ==
    LET t == rects[i]
        last == Len(rects)
        shrunk == IF t.twin = NoTwin THEN rects
                  ELSE [rects EXCEPT ![t.twin] = Shrink(@, t)]
    IN  SubSeq([shrunk EXCEPT ![i] = shrunk[last]], 1, last - 1)

\* A plausible bug: the last rectangle is popped without having been moved.
RemoveWithoutMoving(rects, i) ==
    LET t == rects[i]
        shrunk == IF t.twin = NoTwin THEN rects
                  ELSE [rects EXCEPT ![t.twin] = Shrink(@, t)]
    IN  SubSeq(shrunk, 1, Len(rects) - 1)

\* A plausible bug: the counterpart keeps the shared section.
RemoveNotShrinking(rects, i) ==
    LET t == rects[i]
        last == Len(rects)
        unlinked == IF t.twin = NoTwin THEN rects
                    ELSE [rects EXCEPT ![t.twin].twin = NoTwin]
        moved == [unlinked EXCEPT ![i] = unlinked[last]]
        relinked == IF i = last \/ moved[i].twin = NoTwin THEN moved
                    ELSE [moved EXCEPT ![moved[i].twin].twin = i]
    IN  SubSeq(relinked, 1, last - 1)

\* removeFreeRect: the counterpart shrinks, the last one moves to i, and its
\* counterpart is told so.
RemoveFreeRect(rects, i) ==
    LET t == rects[i]
        last == Len(rects)
        shrunk == IF t.twin = NoTwin THEN rects
                  ELSE [rects EXCEPT ![t.twin] = Shrink(@, t)]
        moved == [shrunk EXCEPT ![i] = shrunk[last]]
        relinked == IF i = last \/ moved[i].twin = NoTwin THEN moved
                    ELSE [moved EXCEPT ![moved[i].twin].twin = i]
    IN  SubSeq(relinked, 1, last - 1)

\* The two remainders of d, linked if there are two.
Right(d, size) == FreeRect(d.x + size.w, d.y, d.w - size.w, d.h)
Bottom(d, size) == FreeRect(d.x, d.y + size.h, d.w, d.h - size.h)

AddRemainders(rects, d, size) ==
    LET n == Len(rects)
        added == AddFreeRect(AddFreeRect(rects, Right(d, size)), Bottom(d, size))
    IN  IF Len(added) = n + 2
        THEN [added EXCEPT ![n + 1].twin = n + 2, ![n + 2].twin = n + 1]
        ELSE added

\* pack(), once the slot i has been chosen for a rectangle of this size.
PlaceAt(size, i) ==
    LET d == free[i] IN
    /\ free' = AddRemainders(RemoveFreeRect(free, i), d, size)
    /\ placed' = Append(placed, [x |-> d.x, y |-> d.y, w |-> size.w, h |-> size.h])

\* The slots and orientations a scorer may choose from.
Fitting(size) == {c \in (DOMAIN free) \X BOOLEAN : Fits(Turn(size, c[2]), free[c[1]])}
Perfect(size) ==
    {c \in Fitting(size) :
        Turn(size, c[2]) = [w |-> free[c[1]].w, h |-> free[c[1]].h]}
Slots(size) == IF Perfect(size) = {} THEN Fitting(size) ELSE Perfect(size)

Pack(size) == \E c \in Slots(size) : PlaceAt(Turn(size, c[2]), c[1])

Next == \E size \in Sizes : Pack(size)

Spec == Init /\ [][Next]_packVars

-----------------------------------------------------------------------------
Disjoint(r, s) ==
    \/ r.x + r.w <= s.x \/ s.x + s.w <= r.x
    \/ r.y + r.h <= s.y \/ s.y + s.h <= r.y

InBin(r) == r.x + r.w <= BinW /\ r.y + r.h <= BinH
AllInBin(rects) == \A i \in DOMAIN rects : InBin(rects[i])

(***************************************************************************)
(* Rectangles that have been handed out lie in the bin and never overlap,  *)
(* whatever the scorer: pack() takes slots from a list whose entries do    *)
(* overlap, and relies on removeFreeRect to cut the right one.             *)
(***************************************************************************)
PlacedApart ==
    /\ AllInBin(placed)
    /\ \A i, j \in DOMAIN placed : i # j => Disjoint(placed[i], placed[j])

\* r is the right remainder and b the one below.
Corner(r, b) ==
    /\ b.x < r.x /\ r.y < b.y
    /\ r.x + r.w = b.x + b.w /\ r.y + r.h = b.y + b.h

FreeApart(rects) ==
    \A i \in DOMAIN rects, j \in DOMAIN placed : Disjoint(rects[i], placed[j])

TwinsMutual(rects) ==
    \A i \in DOMAIN rects : rects[i].twin # NoTwin =>
        LET j == rects[i].twin IN
        /\ j \in DOMAIN rects /\ j # i
        /\ rects[j].twin = i
        /\ Corner(rects[i], rects[j]) \/ Corner(rects[j], rects[i])

OnlyTwinsOverlap(rects) ==
    \A i, j \in DOMAIN rects :
        i # j /\ rects[i].twin # j => Disjoint(rects[i], rects[j])

(***************************************************************************)
(* Free space is free: free rectangles lie in the bin, apart from all that *)
(* has been handed out; two of them overlap only as counterparts, in the   *)
(* pattern drawn at rect_pack.h:99-108, and counterparts point at each     *)
(* other (the assertions of removeFreeRect, rect_pack.h:169 and 176).      *)
(***************************************************************************)
FreeSpaceSound ==
    /\ AllInBin(free)
    /\ FreeApart(free)
    /\ TwinsMutual(free)
    /\ OnlyTwinsOverlap(free)

(***************************************************************************)
(* No space is lost: every cell of the bin has been handed out or is still *)
(* free, however often rectangles were cut and moved.                      *)
(***************************************************************************)
Covers(r, x, y) == x \in r.x .. r.x + r.w - 1 /\ y \in r.y .. r.y + r.h - 1

NothingLost ==
    \A x \in 0 .. BinW - 1, y \in 0 .. BinH - 1 :
        \/ \E i \in DOMAIN free : Covers(free[i], x, y)
        \/ \E j \in DOMAIN placed : Covers(placed[j], x, y)
=============================================================================
