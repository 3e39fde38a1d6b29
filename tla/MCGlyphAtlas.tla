---------------------------- MODULE MCGlyphAtlas ----------------------------
(* Instances of GlyphAtlas for TLC. *)
EXTENDS GlyphAtlas

CONSTANTS g1, g2, g3, g4

MCGlyphs == {g1, g2, g3, g4}
MCImageSizes == [w : 1 .. 3, h : 1 .. 2]
MCSizes == {[w |-> s.w + 1, h |-> s.h + 1] : s \in MCImageSizes}
=============================================================================
