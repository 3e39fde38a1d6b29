------------------------------ MODULE Drawing -------------------------------
(***************************************************************************)
(* Textures, models and the renderer of the widgets on OpenGL's state      *)
(* (render/texture.cpp, render/model.cpp, gui/renderer/raw_renderer.cpp).  *)
(* OpenGL acts on whatever was bound before: an upload goes to the texture *)
(* of the active unit, reads its rows as GL_UNPACK_ROW_LENGTH was left,    *)
(* and vertices go to the buffer bound to GL_ARRAY_BUFFER, which, unlike   *)
(* the index buffer, is not part of a vertex array. The calls are          *)
(* operators from one state of the context to the next, so that a function *)
(* of the renderer is their composition.                                   *)
(*                                                                         *)
(* All of it runs on the thread that owns the context, one function at a   *)
(* time. A renderer's model and white texture bear the renderer's name.    *)
(***************************************************************************)
EXTENDS Naturals

CONSTANTS
    Renderers,   \* RawRenderers
    Quads,       \* other models, as models::createQuad makes
    Textures,    \* textures loaded from files
    Atlases,     \* textures of fonts, filled glyph by glyph
    AtlasSize,   \* 128: the width and the height of an atlas
    GlyphWidths, \* widths in pixels of glyphs that fit an atlas
    Data,        \* vertices and indices given for a model
    None

Models == Renderers \cup Quads
AllTextures == Renderers \cup Textures \cup Atlases

ASSUME NamesApart ==
    /\ Renderers \cap (Quads \cup Textures \cup Atlases) = {}
    /\ Quads \cap (Textures \cup Atlases) = {}
    /\ None \notin Models \cup AllTextures
\* A glyph that fits leaves a pixel to its right, and rows of AtlasSize need no
\* padding to a multiple of 4.
ASSUME GlyphsFitAtlas ==
    /\ AtlasSize \in Nat \ {0} /\ AtlasSize % 4 = 0
    /\ GlyphWidths \subseteq 1 .. AtlasSize - 1

VARIABLES
    gl,    \* the context, see DrwInit
    live,  \* live renderers, quads, textures and atlases
    given, \* the data last given for each model
    frame  \* the draw just made, if any: what was asked for and what it read

drwVars == <<gl, live, given, frame>>

DrwInit ==
    /\ gl = [active      |-> 0,                              \* GL_ACTIVE_TEXTURE
             units       |-> [u \in {0, 1} |-> None],        \* GL_TEXTURE_2D of each unit
             rowLength   |-> 0,                              \* GL_UNPACK_ROW_LENGTH
             vertexArray |-> None,
             arrayBuffer |-> None,                           \* the model it belongs to
             texels      |-> [t \in AllTextures |-> None],   \* whose pixels a texture has
             vertices    |-> [m \in Models |-> None],
             indices     |-> [m \in Models |-> None],
             overread    |-> FALSE]                          \* an upload read past its data
    /\ live = {}
    /\ given = [m \in Models |-> None]
    /\ frame = None

-----------------------------------------------------------------------------
(* Calls that depend on the context. *)

\* A plausible bug: the unit is not selected first.
BindCurrentUnit(g, t, u) == [g EXCEPT !.units[g.active] = t]

\* TextureUsage; its destructor puts nothing back.
Bind(g, t, u) == [g EXCEPT !.active = u, !.units[u] = t]

\* glTexSubImage2D with the pixels of p.
TexSubImage(g, p) ==
    LET t == g.units[g.active]
    IN  IF t = None THEN g ELSE [g EXCEPT !.texels[t] = p]

\* GLFWTexture(TexConfig): binds on the unit that happens to be active and
\* uploads zeroes, w * h pixels of them, in rows of the length left behind.
CreateTexture(g, t, w, h) ==
    LET bound == [g EXCEPT !.units[g.active] = t]
    IN  [TexSubImage(bound, "zeroes") EXCEPT
            !.overread = @ \/ (h - 1) * g.rowLength + w > w * h]

\* A plausible bug: the upload goes to what is bound.
UpdateUnbound(g, t, len) == TexSubImage([g EXCEPT !.rowLength = len], t)

\* updateTexture
UpdateTexture(g, t, len) == TexSubImage([Bind(g, t, 0) EXCEPT !.rowLength = len], t)

\* GLFWTexture(DataView), decoded
DecodeTexture(g, t) == UpdateTexture(g, t, 0)

\* GLFWModel's constructor, with no data for None.
BuildModel(g, m, d) ==
    [g EXCEPT !.vertexArray = m, !.arrayBuffer = m, !.vertices[m] = d, !.indices[m] = d]

\* A plausible bug: the model's vertex array is not bound.
UpdateModelUnbound(g, m, d) ==
    [g EXCEPT !.vertices = IF g.arrayBuffer = None THEN @ ELSE [@ EXCEPT ![g.arrayBuffer] = d],
              !.indices = IF g.vertexArray = None THEN @ ELSE [@ EXCEPT ![g.vertexArray] = d]]

\* GLFWModel::updateData binds the vertex array, and with it the index
\* buffer, not the vertex buffer.
UpdateModel(g, m, d) ==
    [g EXCEPT !.vertexArray = m,
              !.vertices = IF g.arrayBuffer = None THEN @ ELSE [@ EXCEPT ![g.arrayBuffer] = d],
              !.indices[m] = d]

\* The destructors: OpenGL unbinds what is deleted.
DeleteTexture(g, t) ==
    [g EXCEPT !.units = [u \in {0, 1} |-> IF @[u] = t THEN None ELSE @[u]], !.texels[t] = None]

DeleteModel(g, m) ==
    [g EXCEPT !.vertexArray = IF @ = m THEN None ELSE @,
              !.arrayBuffer = IF @ = m THEN None ELSE @,
              !.vertices[m] = None, !.indices[m] = None]

\* What glDrawElements reads.
Read(g, m) == [vertices |-> g.vertices[m], indices |-> g.indices[m],
               color |-> g.units[0], mask |-> g.units[1]]

-----------------------------------------------------------------------------
\* createTexture for the atlas of a new font
NewAtlas(t) ==
    /\ t \notin live
    /\ live' = live \cup {t}
    /\ gl' = CreateTexture(gl, t, AtlasSize, AtlasSize)
    /\ frame' = None
    /\ UNCHANGED given

\* mem::alignSize(w, 4), the row length of an image w pixels of one byte wide
RowLength(w) == ((w + 3) \div 4) * 4

\* A glyph that fitted is uploaded, while a text is being laid out.
AddGlyph(t, w) ==
    /\ t \in live
    /\ gl' = UpdateTexture(gl, t, RowLength(w))
    /\ frame' = None
    /\ UNCHANGED <<live, given>>

\* loadTexture's callback. If the image cannot be decoded, the constructor
\* deletes the texture before anything is bound.
NewTexture(t) ==
    /\ t \notin live
    /\ live' = live \cup {t}
    /\ gl' = DecodeTexture(gl, t)
    /\ frame' = None
    /\ UNCHANGED given

DropTexture(t) ==
    /\ t \in live
    /\ live' = live \ {t}
    /\ gl' = DeleteTexture(gl, t)
    /\ frame' = None
    /\ UNCHANGED given

NewQuad(m, d) ==
    /\ m \notin live
    /\ live' = live \cup {m}
    /\ gl' = BuildModel(gl, m, d)
    /\ given' = [given EXCEPT ![m] = d]
    /\ frame' = None

\* "bad index data": the constructor has uploaded and bound everything, and
\* deletes it again.
QuadFails(m, d) ==
    /\ m \notin live
    /\ gl' = DeleteModel(BuildModel(gl, m, d), m)
    /\ frame' = None
    /\ UNCHANGED <<live, given>>

DropQuad(m) ==
    /\ m \in live
    /\ live' = live \ {m}
    /\ gl' = DeleteModel(gl, m)
    /\ given' = [given EXCEPT ![m] = None]
    /\ frame' = None

\* RawRenderer::RawRenderer: a model without data and a white pixel.
NewRenderer(r) ==
    /\ r \notin live
    /\ live' = live \cup {r}
    /\ gl' = UpdateTexture(CreateTexture(BuildModel(gl, r, None), r, 1, 1), r, 0)
    /\ frame' = None
    /\ UNCHANGED given

DropRenderer(r) ==
    /\ r \in live
    /\ live' = live \ {r}
    /\ gl' = DeleteModel(DeleteTexture(gl, r), r)
    /\ given' = [given EXCEPT ![r] = None]
    /\ frame' = None

\* render::draw of a model that keeps its data, with what is bound.
DrawQuad(m) ==
    /\ m \in live
    /\ gl' = [gl EXCEPT !.vertexArray = m]
    /\ frame' = [by |-> m, asked |-> [Read(gl, m) EXCEPT !.vertices = given[m], !.indices = given[m]],
                 read |-> Read(gl', m)]
    /\ UNCHANGED <<live, given>>

\* RawRenderer::draw, the textures or the white one in their place. An empty
\* list of indices divides by zero in updateData: widgets must not pass one.
Draw(r, d, color, mask) ==
    /\ r \in live
    /\ {color, mask} \subseteq (live \cap (Textures \cup Atlases)) \cup {r}
    /\ gl' = UpdateModel(Bind(Bind(gl, color, 0), mask, 1), r, d)
    /\ given' = [given EXCEPT ![r] = d]
    /\ frame' = [by |-> r, asked |-> [vertices |-> d, indices |-> d, color |-> color, mask |-> mask],
                 read |-> Read(gl', r)]
    /\ UNCHANGED live

DrwNext ==
    \/ \E t \in Atlases : NewAtlas(t) \/ \E w \in GlyphWidths : AddGlyph(t, w)
    \/ \E t \in Textures : NewTexture(t)
    \/ \E t \in Textures \cup Atlases : DropTexture(t)
    \/ \E m \in Quads, d \in Data : NewQuad(m, d) \/ QuadFails(m, d)
    \/ \E m \in Quads : DropQuad(m) \/ DrawQuad(m)
    \/ \E r \in Renderers : NewRenderer(r) \/ DropRenderer(r)
    \/ \E r \in Renderers, d \in Data, color, mask \in AllTextures : Draw(r, d, color, mask)

DrwSpec == DrwInit /\ [][DrwNext]_drwVars

-----------------------------------------------------------------------------
(***************************************************************************)
(* A texture only ever gets its own pixels, whatever was bound before, and *)
(* the zeroes of a new one are not read past their end, though they are    *)
(* read with the row length of the last glyph (texture.cpp:109).           *)
(***************************************************************************)
UploadsLand ==
    /\ \A t \in live \cap AllTextures : gl.texels[t] \in {t, "zeroes"}
    /\ ~gl.overread

(***************************************************************************)
(* Every draw reads the textures and indices it was given; a renderer's    *)
(* reads the vertices too if its own model is the last one that was built  *)
(* (updateData, model.cpp:75, writes them to the buffer of that one).      *)
(***************************************************************************)
DrawsWhatWasGiven ==
    frame # None =>
        /\ [frame.read EXCEPT !.vertices = None] = [frame.asked EXCEPT !.vertices = None]
        /\ frame.by \in Renderers /\ gl.arrayBuffer = frame.by
              => frame.read.vertices = frame.asked.vertices
=============================================================================
