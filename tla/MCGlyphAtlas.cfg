CONSTANTS
    g1 = g1
    g2 = g2
    g3 = g3
    g4 = g4
    Blank = Blank
    Glyphs <- MCGlyphs
    ImageSizes <- MCImageSizes
    Sizes <- MCSizes
    BinW = 7
    BinH = 6
SPECIFICATION FontSpec
CHECK_DEADLOCK FALSE
INVARIANT PlacedApart
INVARIANT FreeSpaceSound
INVARIANT NothingLost
INVARIANT GlyphsReadable
INVARIANT NoBleeding
PROPERTY ImplementsPacker
