------------------------------ MODULE MCParts ------------------------------
(***************************************************************************)
(* Instance for TLC of the parts that one thread at a time uses and that   *)
(* share no state: a behaviour is one of any of them, for interleaving     *)
(* them would show nothing more.                                           *)
(***************************************************************************)
EXTENDS Programs, Drawing, Audio, RuntimeLifecycle, SelfNullingPtr, SplitJoin,
        BuildCache, TLC

CONSTANTS
    slt_vertex, slt_uv, viewport, lights, u1, r1, q1, t1, f1, d1, d2,
    s1, s2, m1, m2, p1, p2, p3, c1, c2, shader, copy, fileA, fileB

MCAttributes == {slt_vertex, slt_uv}
MCBlocks == {viewport, lights}
MCBuffers == {u1}
MCRenderers == {r1}
MCQuads == {q1}
MCTextures == {t1}
MCAtlases == {f1}
MCData == {d1, d2}
MCSounds == {s1, s2}
MCEmmiters == {m1, m2}
MCPtrs == {p1, p2, p3}
MCChars == {c1, c2}

\* A compiler that reads a config and one part of it, and a copy of that part.
MCCommands == {shader, copy}
MCFiles == {fileA, fileB}
MCConfig == (shader :> fileA) @@ (copy :> fileB)
MCPartsOf == (shader :> {fileB}) @@ (copy :> {})

\* Symmetric sets of the larger parts. (More of them cost more than they save.)
PartsSymmetry == Permutations(MCAttributes) \cup Permutations(MCBlocks)

CONSTANT Moving \* the parts that may move
VARIABLE part   \* the one that does

PartsInit ==
    /\ part \in Moving
    /\ PrgInit /\ DrwInit /\ AudInit /\ RtInit /\ Init /\ StrInit /\ BldInit
    /\ part # "build" => wanted = shader

\* Sounds decode apart from each other: what a decoder does is explored for one
\* of them, and what two of them are used for after a decoding without a fault.
OneDecodes == sound'[s2] = "unborn"
DecodesPlainly == UNCHANGED <<cursor, faults>>

PartsNext ==
    /\ UNCHANGED part
    /\ \/ /\ part = "programs" /\ PrgNext
          /\ UNCHANGED <<drwVars, audVars, rtVars, vars, strVars, bldVars>>
       \/ /\ part = "drawing" /\ DrwNext
          /\ UNCHANGED <<prgVars, audVars, rtVars, vars, strVars, bldVars>>
       \/ /\ part = "decoding" /\ AudNext /\ OneDecodes
          /\ UNCHANGED <<prgVars, drwVars, rtVars, vars, strVars, bldVars>>
       \/ /\ part = "playing" /\ AudNext /\ DecodesPlainly
          /\ UNCHANGED <<prgVars, drwVars, rtVars, vars, strVars, bldVars>>
       \/ /\ part = "runtime" /\ RtNext
          /\ UNCHANGED <<prgVars, drwVars, audVars, vars, strVars, bldVars>>
       \/ /\ part = "pointers" /\ Next
          /\ UNCHANGED <<prgVars, drwVars, audVars, rtVars, strVars, bldVars>>
       \/ /\ part = "strings" /\ StrNext
          /\ UNCHANGED <<prgVars, drwVars, audVars, rtVars, vars, bldVars>>
       \/ /\ part = "build" /\ BldNext
          /\ UNCHANGED <<prgVars, drwVars, audVars, rtVars, vars, strVars>>

PartsSpec ==
    PartsInit
    /\ [][PartsNext]_<<part, prgVars, drwVars, audVars, rtVars, vars, strVars, bldVars>>
=============================================================================
