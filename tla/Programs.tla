------------------------------ MODULE Programs ------------------------------
(***************************************************************************)
(* The programs of the renderer and the two registries they are resolved   *)
(* against: the vertex attributes (render/attribute.cpp) and the uniform   *)
(* blocks with their buffers (render/uniform.cpp). GLFWProgram's           *)
(* constructor (render/program.cpp) is followed call by call, because each *)
(* may fail and because what a call to OpenGL does depends on those made   *)
(* before: glBindAttribLocation counts from the next link on, and a link   *)
(* resets every block binding to 0.                                        *)
(*                                                                         *)
(* All of it runs on the thread that owns the context. Shader objects are  *)
(* counted per kind; OpenGL keeps a deleted one while it is attached.      *)
(***************************************************************************)
EXTENDS Naturals, FiniteSets, Sequences

CONSTANTS
    Attributes,  \* names of vertex attributes
    Locations,   \* attribute locations
    Blocks,      \* names of uniform blocks
    Buffers,     \* identities of uniform buffers
    MaxBindings, \* GL_MAX_UNIFORM_BUFFER_BINDINGS, never 0
    MaxPrograms, \* bound on the programs held at a time
    MaxFailures, \* bound on the shaders that do not compile
    Unset        \* no location, no buffer

ASSUME UnsetIsNothing ==
    /\ MaxBindings \in Nat \ {0}
    /\ Unset \notin Locations \cup Buffers \cup (0 .. MaxBindings - 1)

VARIABLES
    attributes, \* attributes_: the location of each registered name, or Unset
    registered, \* the names given to registerUniformBlock: entry l+1 got location l
    owned,      \* the locations whose block has an owner
    buffers,    \* the location of each live uniform buffer's block, or Unset
    bound,      \* the buffer bound to each binding point, or Unset
    stage,      \* where the constructor of a program is, or "idle"
    program,    \* the program under construction, see ProgramUnbuilt
    shaders,    \* live shader objects of each kind
    attached,   \* the kinds of shader attached to the program under construction
    failures,   \* constructions given up for a shader of each kind
    programs    \* the finished programs

Kinds == {"vertex", "fragment", "geometry"}
registryVars == <<attributes, registered, owned>>
bufferVars == <<buffers, bound>>
buildVars == <<stage, program, shaders, attached, failures, programs>>
prgVars == <<registryVars, bufferVars, buildVars>>

\* What the sources of a program declare.
Sources == [attribs : SUBSET Attributes \ {{}}, blocks : SUBSET Blocks, geometry : BOOLEAN]
\* What OpenGL holds of it: the locations asked for, those linked, and the
\* bindings of its blocks; `since` remembers how many blocks were registered.
ProgramUnbuilt == [source |-> Unset, asked |-> Unset, linked |-> Unset, binding |-> Unset, since |-> 0]

PrgInit ==
    /\ attributes = [a \in Attributes |-> Unset]
    /\ registered = <<>>
    /\ owned = {}
    /\ buffers = [u \in Buffers |-> Unset]
    /\ bound = [l \in 0 .. MaxBindings - 1 |-> Unset]
    /\ stage = "idle"
    /\ program = ProgramUnbuilt
    /\ shaders = [k \in Kinds |-> 0]
    /\ attached = {}
    /\ failures = [k \in Kinds |-> 0]
    /\ programs = {}

-----------------------------------------------------------------------------
(* The registries. *)

\* registerAttribute: the first location a name is given stays (a debug build
\* stops at a second, different one).
RegisterAttribute(a, l) ==
    /\ stage = "idle"
    /\ attributes[a] = Unset
    /\ attributes' = [attributes EXCEPT ![a] = l]
    /\ UNCHANGED <<registered, owned, bufferVars, buildVars>>

\* registerUniformBlock: every registration takes a location of its own, one
\* of a known name too, until they run out and it throws.
RegisterBlock(b) ==
    /\ stage = "idle"
    /\ Len(registered) < MaxBindings
    /\ registered' = Append(registered, b)
    /\ owned' = owned \cup {Len(registered)}
    /\ UNCHANGED <<attributes, bufferVars, buildVars>>

\* The owner of a block lets go of it; buffers hold their block as well.
ReleaseBlock(l) ==
    /\ stage = "idle"
    /\ l \in owned
    /\ owned' = owned \ {l}
    /\ UNCHANGED <<attributes, registered, bufferVars, buildVars>>

Expired(l) == l \notin owned /\ \A u \in Buffers : buffers[u] # l

\* blocks_[b]: the location of the last registration of b, or Unset.
Latest(b) ==
    LET ls == {l \in 0 .. Len(registered) - 1 : registered[l + 1] = b}
    IN  IF ls = {} THEN Unset ELSE CHOOSE l \in ls : \A k \in ls : k <= l

-----------------------------------------------------------------------------
(* Uniform buffers. *)

\* getUbo without a name, as every caller does: a buffer for the block.
GetUbo(u, l) ==
    /\ stage = "idle"
    /\ buffers[u] = Unset
    /\ l \in owned
    /\ buffers' = [buffers EXCEPT ![u] = l]
    /\ UNCHANGED <<registryVars, bound, buildVars>>

\* ~GLFWUniformBuffer: OpenGL unbinds what is deleted.
DeleteUbo(u) ==
    /\ stage = "idle"
    /\ buffers[u] # Unset
    /\ buffers' = [buffers EXCEPT ![u] = Unset]
    /\ bound' = [l \in DOMAIN bound |-> IF bound[l] = u THEN Unset ELSE bound[l]]
    /\ UNCHANGED <<registryVars, buildVars>>

\* UniformBufferUsage; its destructor leaves the buffer bound.
UseBuffer(u) ==
    /\ stage = "idle"
    /\ buffers[u] # Unset
    /\ bound' = [bound EXCEPT ![buffers[u]] = u]
    /\ UNCHANGED <<registryVars, buffers, buildVars>>

-----------------------------------------------------------------------------
(* GLFWProgram's constructor. *)

Begin(source) ==
    /\ stage = "idle"
    /\ Cardinality(programs) < MaxPrograms
    /\ stage' = "vertex"
    /\ program' = [ProgramUnbuilt EXCEPT !.source = source]
    /\ UNCHANGED <<registryVars, bufferVars, shaders, attached, failures, programs>>

\* The shaders made when that of kind k is next, and the stage after it.
Before == [vertex |-> {}, fragment |-> {"vertex"}, geometry |-> {"vertex", "fragment"}]
After(k) ==
    CASE k = "vertex" -> "fragment"
      [] k = "fragment" -> IF program.source.geometry THEN "geometry" ELSE "attach"
      [] k = "geometry" -> "attach"

Compile(k) ==
    /\ stage = k
    /\ stage' = After(k)
    /\ shaders' = [shaders EXCEPT ![k] = @ + 1]
    /\ UNCHANGED <<registryVars, bufferVars, program, attached, failures, programs>>

\* A plausible bug: nothing is deleted.
CompileFailsKeepingAll(k) ==
    /\ stage = k
    /\ failures[k] < MaxFailures
    /\ stage' = "idle"
    /\ program' = ProgramUnbuilt
    /\ failures' = [failures EXCEPT ![k] = @ + 1]
    /\ UNCHANGED <<registryVars, bufferVars, shaders, attached, programs>>

\* createShader deletes the shader it could not compile. The handler deletes
\* the vertex shader, once for every shader made so far.
CompileFails(k) ==
    /\ stage = k
    /\ failures["vertex"] + failures["fragment"] + failures["geometry"] < MaxFailures
    /\ stage' = "idle"
    /\ program' = ProgramUnbuilt
    /\ shaders' = IF Before[k] = {} THEN shaders ELSE [shaders EXCEPT !["vertex"] = @ - 1]
    /\ failures' = [failures EXCEPT ![k] = @ + 1]
    /\ UNCHANGED <<registryVars, bufferVars, attached, programs>>

\* glCreateProgram; each shader is attached and marked for deletion.
Attach ==
    /\ stage = "attach"
    /\ stage' = "link"
    /\ attached' = Before["geometry"] \cup (IF program.source.geometry THEN {"geometry"} ELSE {})
    /\ program' = [program EXCEPT !.asked = [a \in program.source.attribs |-> Unset]]
    /\ UNCHANGED <<registryVars, bufferVars, shaders, failures, programs>>

\* The shaders go with the last program they are attached to.
Detached == [k \in Kinds |-> IF k \in attached THEN shaders[k] - 1 ELSE shaders[k]]

\* glDeleteProgram in the handler of the second part.
GiveUp ==
    /\ stage' = "idle"
    /\ program' = ProgramUnbuilt
    /\ shaders' = Detached
    /\ attached' = {}
    /\ UNCHANGED <<registryVars, bufferVars, failures, programs>>

\* glLinkProgram: attributes get the location asked for, the others any that
\* is left, and the blocks get binding 0.
Linked(p) ==
    \E f \in [p.source.attribs -> Locations] :
        /\ \A a, c \in p.source.attribs : a # c => f[a] # f[c]
        /\ \A a \in p.source.attribs : p.asked[a] # Unset => f[a] = p.asked[a]
        /\ program' = [p EXCEPT !.linked = f, !.binding = [b \in p.source.blocks |-> 0]]

\* link_, the first time and the second; the driver may refuse.
Link(from, to) ==
    /\ stage = from
    /\ \/ /\ Linked(program)
          /\ stage' = to
          /\ UNCHANGED <<registryVars, bufferVars, shaders, attached, failures, programs>>
       \/ GiveUp

\* A plausible bug: the locations are asked for and the program not relinked.
ResolveAttributesAtOnce ==
    /\ stage = "attributes"
    /\ \A a \in program.source.attribs : attributes[a] # Unset
    /\ program' = [program EXCEPT !.asked = [a \in program.source.attribs |-> attributes[a]]]
    /\ stage' = "blocks"
    /\ UNCHANGED <<registryVars, bufferVars, shaders, attached, failures, programs>>

\* resolveAttributes_: an unknown name, or two with one location, throws.
ResolveAttributes ==
    /\ stage = "attributes"
    /\ LET names == program.source.attribs
       IN  \/ /\ \A a \in names : attributes[a] # Unset
              /\ \A a, c \in names : a # c => attributes[a] # attributes[c]
              /\ program' = [program EXCEPT !.asked = [a \in names |-> attributes[a]]]
              /\ stage' = "relink"
              /\ UNCHANGED <<registryVars, bufferVars, shaders, attached, failures, programs>>
           \/ /\ \/ \E a \in names : attributes[a] = Unset
                 \/ \E a, c \in names : a # c /\ attributes[a] = attributes[c]
              /\ GiveUp

\* A plausible bug: blocks keep the binding they have after a link.
ResolveNoBlocks ==
    /\ stage = "blocks"
    /\ program' = [program EXCEPT !.since = Len(registered)]
    /\ stage' = "detach"
    /\ UNCHANGED <<registryVars, bufferVars, shaders, attached, failures, programs>>

\* resolveUniformBuffers_: a name never registered, or expired, throws.
ResolveBlocks ==
    /\ stage = "blocks"
    /\ LET names == program.source.blocks
           Known(b) == Latest(b) # Unset /\ ~Expired(Latest(b))
       IN  \/ /\ \A b \in names : Known(b)
              /\ program' = [program EXCEPT !.binding = [b \in names |-> Latest(b)],
                                            !.since = Len(registered)]
              /\ stage' = "detach"
              /\ UNCHANGED <<registryVars, bufferVars, shaders, attached, failures, programs>>
           \/ (\E b \in names : ~Known(b)) /\ GiveUp

Detach ==
    /\ stage = "detach"
    /\ stage' = "idle"
    /\ shaders' = Detached
    /\ attached' = {}
    /\ programs' = programs \cup {program}
    /\ program' = ProgramUnbuilt
    /\ UNCHANGED <<registryVars, bufferVars, failures>>

\* ~GLFWProgram
DeleteProgram(p) ==
    /\ stage = "idle"
    /\ programs' = programs \ {p}
    /\ UNCHANGED <<registryVars, bufferVars, stage, program, shaders, attached, failures>>

Construct ==
    \/ \E k \in Kinds : Compile(k) \/ CompileFails(k)
    \/ Attach
    \/ Link("link", "attributes") \/ ResolveAttributes
    \/ Link("relink", "blocks") \/ ResolveBlocks
    \/ Detach

PrgNext ==
    \/ \E a \in Attributes, l \in Locations : RegisterAttribute(a, l)
    \/ \E b \in Blocks : RegisterBlock(b)
    \/ \E l \in 0 .. MaxBindings - 1 : ReleaseBlock(l) \/ \E u \in Buffers : GetUbo(u, l)
    \/ \E u \in Buffers : DeleteUbo(u) \/ UseBuffer(u)
    \/ \E s \in Sources : Begin(s)
    \/ Construct
    \/ \E p \in programs : DeleteProgram(p)

PrgSpec == PrgInit /\ [][PrgNext]_prgVars

-----------------------------------------------------------------------------
(***************************************************************************)
(* Models enable their vertex data at the registered location of each      *)
(* channel (model.cpp:37); every usable program reads the attribute there. *)
(***************************************************************************)
AttributesAgree ==
    \A p \in programs : \A a \in p.source.attribs : p.linked[a] = attributes[a]

(***************************************************************************)
(* A usable program never reads, through any of its blocks, a buffer made  *)
(* for a block of another name; and unless the name was registered again   *)
(* since, it reads the buffers made for its latest block.                  *)
(***************************************************************************)
BlocksAgree ==
    \A p \in programs : \A b \in p.source.blocks :
        LET u == bound[p.binding[b]] IN
        /\ u # Unset => registered[buffers[u] + 1] = b
        /\ (\A i \in p.since + 1 .. Len(registered) : registered[i] # b)
              => p.binding[b] = Latest(b)

(***************************************************************************)
(* What a usable program expects where is what the others put there: the   *)
(* two registries and every program agree, in whatever order names are     *)
(* registered, programs linked and buffers made and bound.                 *)
(***************************************************************************)
LocationsAgree == AttributesAgree /\ BlocksAgree

(***************************************************************************)
(* Between constructions the only shader objects left are the fragment     *)
(* shaders of constructions that failed at the geometry shader             *)
(* (program.cpp:84-89 deletes the vertex shader in place of the others).   *)
(***************************************************************************)
ShadersReleased ==
    stage = "idle" =>
        shaders = [k \in Kinds |-> IF k = "fragment" THEN failures["geometry"] ELSE 0]
=============================================================================
