----------------------------- MODULE GlyphAtlas -----------------------------
(***************************************************************************)
(* A gui::Font (src/slt_runtime/gui/font.cpp): its cache of glyphs and the *)
(* TextureAtlas (include/slt_runtime/drawing/texture_atlas.h) that it      *)
(* draws them into, with the packer of module RectPacker under the default *)
(* scorer. The texture is a variable: what matters is whether the pixels   *)
(* that a cached glyph's coordinates name are still that glyph's.          *)
(*                                                                         *)
(* A glyph that does not fit is cached all the same, with coordinates that *)
(* were never written: "garbage" here.                                     *)
(***************************************************************************)
EXTENDS RectPacker, SequencesExt

CONSTANTS
    Glyphs,     \* code points
    ImageSizes, \* the sizes of their bitmaps
    Blank       \* a pixel that no glyph was drawn on

\* A glyph without pixels is not drawn.
ASSUME ImagesHavePixels == ImageSizes \subseteq [w : Nat \ {0}, h : Nat \ {0}]
ASSUME PackedSizes == Sizes = {[w |-> s.w + 1, h |-> s.h + 1] : s \in ImageSizes}

VARIABLES
    glyphs,   \* glyphs_: per code point, what getGlyph has cached
    texture   \* the pixel of the atlas texture at each position

fontVars == <<packVars, glyphs, texture>>

Texels == (0 .. BinW - 1) \X (0 .. BinH - 1)

Uncached == [kind |-> "uncached"]
Empty == [kind |-> "empty"]
Garbage(size) == [kind |-> "garbage", w |-> size.w, h |-> size.h]
Drawn(size, x, y, flip) ==
    [kind |-> "drawn", w |-> size.w, h |-> size.h, x |-> x, y |-> y, flip |-> flip]

FontInit ==
    /\ Init
    /\ glyphs = [c \in Glyphs |-> Uncached]
    /\ texture = [t \in Texels |-> Blank]

-----------------------------------------------------------------------------
(* chooseSlot with DefaultRectScorer; the lowest score wins. *)

NonFit == BinW + BinH  \* numeric_limits<Dist>::max()

Score(size, r) ==
    IF Fits(size, r) THEN Max({r.w - size.w, r.h - size.h}) ELSE NonFit

NoSlot == [slot |-> 0, flip |-> FALSE, score |-> NonFit, perfect |-> FALSE]

\* A plausible bug: nothing looks whether the rectangle fits.
ConsiderUnfit(size, best, i) ==
    LET score == Max({free[i].w - size.w, free[i].h - size.h}) IN
    IF score < best.score
    THEN [best EXCEPT !.slot = i, !.flip = FALSE, !.score = score]
    ELSE best

\* One round of the loop. The score kept for a flipped fit is the unflipped one.
Consider(size, best, i) ==
    LET r == free[i]
        score == Score(size, r)
        flippedScore == Score(Turn(size, TRUE), r)
        upright == IF score < best.score
                   THEN [best EXCEPT !.slot = i, !.flip = FALSE, !.score = score]
                   ELSE best
    IN  CASE best.perfect -> best
          [] ~best.perfect /\ (\E flip \in BOOLEAN : Turn(size, flip) = [w |-> r.w, h |-> r.h]) ->
               [best EXCEPT !.slot = i, !.perfect = TRUE,
                            !.flip = size # [w |-> r.w, h |-> r.h]]
          [] OTHER ->
               IF flippedScore < upright.score
               THEN [upright EXCEPT !.slot = i, !.flip = TRUE, !.score = score]
               ELSE upright

ChooseSlot(size) ==
    FoldLeftDomain(LAMBDA best, i : Consider(size, best, i), NoSlot, free)

-----------------------------------------------------------------------------
\* A plausible bug: no padding.
PackSizeTight(size) == size

\* pack_size: a pixel of padding to the right and below.
PackSize(size) == [w |-> size.w + 1, h |-> size.h + 1]

\* A plausible bug: flipCCW turns an image of size s, as its name says.
ImagePixelTurned(c, s, flip, a, b) ==
    [glyph |-> c, px |-> IF flip THEN s.h - 1 - b ELSE a, py |-> IF flip THEN a ELSE b]

\* updateTexture with the image or, if flipped, with flipCCW of it, which
\* transposes: what lands on pixel (a, b) of its rectangle, of size s.
ImagePixel(c, s, flip, a, b) ==
    [glyph |-> c, px |-> IF flip THEN b ELSE a, py |-> IF flip THEN a ELSE b]

Upload(c, size, flip, x, y) ==
    LET s == Turn(size, flip) IN
    texture' = [t \in Texels |->
        IF Covers([x |-> x, y |-> y, w |-> s.w, h |-> s.h], t[1], t[2])
        THEN ImagePixel(c, s, flip, t[1] - x, t[2] - y)
        ELSE texture[t]]

\* getGlyph, first time, of a glyph with no pixels (a space).
GetEmptyGlyph(c) ==
    /\ glyphs[c] = Uncached
    /\ glyphs' = [glyphs EXCEPT ![c] = Empty]
    /\ UNCHANGED <<packVars, texture>>

\* getGlyph, first time, and add_image finds room.
DrawGlyph(c, size) ==
    LET best == ChooseSlot(PackSize(size)) IN
    /\ glyphs[c] = Uncached
    /\ best.slot # 0
    /\ PlaceAt(Turn(PackSize(size), best.flip), best.slot)
    /\ LET x == free[best.slot].x
           y == free[best.slot].y
       IN  /\ Upload(c, size, best.flip, x, y)
           /\ glyphs' = [glyphs EXCEPT ![c] = Drawn(size, x, y, best.flip)]

\* getGlyph, first time, and add_image returns false, which is ignored.
MissGlyph(c, size) ==
    /\ glyphs[c] = Uncached
    /\ ChooseSlot(PackSize(size)).slot = 0
    /\ glyphs' = [glyphs EXCEPT ![c] = Garbage(size)]
    /\ UNCHANGED <<packVars, texture>>

FontNext ==
    \E c \in Glyphs :
        \/ GetEmptyGlyph(c)
        \/ \E size \in ImageSizes : DrawGlyph(c, size) \/ MissGlyph(c, size)

FontSpec == FontInit /\ [][FontNext]_fontVars

-----------------------------------------------------------------------------
\* The texture coordinates that add_image returns, in texels.
TopLeft(g) == <<g.x, g.y>>
TopRight(g) == IF g.flip THEN <<g.x, g.y + g.w>> ELSE <<g.x + g.w, g.y>>
BottomLeft(g) == IF g.flip THEN <<g.x + g.h, g.y>> ELSE <<g.x, g.y + g.h>>

\* Where a quad with these corners samples pixel (a, b) of an image of g's size.
Sample(g, a, b) ==
    <<g.x + (a * (TopRight(g)[1] - g.x)) \div g.w + (b * (BottomLeft(g)[1] - g.x)) \div g.h,
      g.y + (a * (TopRight(g)[2] - g.y)) \div g.w + (b * (BottomLeft(g)[2] - g.y)) \div g.h>>

DrawnGlyphs == {c \in Glyphs : glyphs[c].kind = "drawn"}

(***************************************************************************)
(* Every glyph in the cache can be drawn from the atlas for ever: through  *)
(* the corners that were cached, each of its pixels is found, the right    *)
(* way up, however many glyphs were packed and flipped after it.           *)
(***************************************************************************)
GlyphsReadable ==
    \A c \in DrawnGlyphs :
        LET g == glyphs[c] IN
        \A a \in 0 .. g.w - 1, b \in 0 .. g.h - 1 :
            texture[Sample(g, a, b)] = [glyph |-> c, px |-> a, py |-> b]

(***************************************************************************)
(* Filtering does not bleed: no texel next to a glyph belongs to another   *)
(* one, which is what the extra row and column of pack_size are for.       *)
(***************************************************************************)
NoBleeding ==
    \A c \in DrawnGlyphs, t \in Texels :
        LET s == Turn([w |-> glyphs[c].w, h |-> glyphs[c].h], glyphs[c].flip)
            ring == [x |-> glyphs[c].x - 1, y |-> glyphs[c].y - 1,
                     w |-> s.w + 2, h |-> s.h + 2]
        IN  Covers(ring, t[1], t[2]) =>
                texture[t] = Blank \/ texture[t].glyph = c

(***************************************************************************)
(* The default scorer is one of the scorers RectPacker allows.             *)
(***************************************************************************)
ImplementsPacker == Spec
=============================================================================
