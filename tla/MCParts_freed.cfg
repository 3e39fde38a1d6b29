CONSTANTS
    slt_vertex = slt_vertex
    slt_uv = slt_uv
    viewport = viewport
    lights = lights
    u1 = u1
    r1 = r1
    q1 = q1
    t1 = t1
    f1 = f1
    d1 = d1
    d2 = d2
    s1 = s1
    s2 = s2
    m1 = m1
    m2 = m2
    p1 = p1
    p2 = p2
    p3 = p3
    c1 = c1
    c2 = c2
    shader = shader
    copy = copy
    fileA = fileA
    fileB = fileB
    Unset = Unset
    None = None
    NoSound = NoSound
    NoFile = NoFile
    Truncated = Truncated
    Attributes <- MCAttributes
    Locations = {0, 1}
    Blocks <- MCBlocks
    Buffers <- MCBuffers
    MaxBindings = 3
    MaxPrograms = 1
    MaxFailures = 1
    Renderers <- MCRenderers
    Quads <- MCQuads
    Textures <- MCTextures
    Atlases <- MCAtlases
    AtlasSize = 128
    GlyphWidths = {5, 127}
    Data <- MCData
    Sounds <- MCSounds
    Emmiters <- MCEmmiters
    RawSize = 2
    PcmSize = 4
    SizeRange = 16
    OvErrors = {1, 3}
    MaxCursor = 3
    MaxRuntimes = 5
    RuntimeAsserts = FALSE
    UniformBindings = 2
    Ptrs <- MCPtrs
    MaxCount = 8
    Chars <- MCChars
    MaxLength = 2
    MaxPayloads = 3
    MaxPieces = 4
    Commands <- MCCommands
    Files <- MCFiles
    Config <- MCConfig
    Parts <- MCPartsOf
    FineTimes = TRUE
    MaxSeconds = 2
    MaxEdits = 1
    Moving = {"pointers"}
SPECIFICATION PartsSpec
CHECK_DEADLOCK FALSE
SYMMETRY PartsSymmetry
INVARIANT StorageIsFreed
