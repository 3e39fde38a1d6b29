---------------------------- MODULE MCRegistries ----------------------------
(***************************************************************************)
(* Instances for TLC of a registry, in the RegistryLoadMode that           *)
(* addRegistry is given: the two modes share no state, and a behaviour is  *)
(* that of one registry.                                                   *)
(***************************************************************************)
EXTENDS OnDemandRegistry, PreloadRegistry

CONSTANTS n1, n2, g1, g2, g3, l1, l2, e1, e2, e3, first, second

MCNames1 == {n1}
MCNames2 == {n1, n2}
MCGets3 == {g1, g2, g3}
MCLoads2 == {l1, l2}

\* Two of the entries of the index have one name.
MCEntries == {e1, e2, e3}
MCResource == [e \in MCEntries |-> IF e = e3 THEN second ELSE first]

VARIABLE mode
RegInit == mode \in {"ON_DEMAND", "PRELOAD"} /\ Init /\ PlInit
RegNext ==
    /\ \/ mode = "ON_DEMAND" /\ Next /\ UNCHANGED plVars
       \/ mode = "PRELOAD" /\ PlNext /\ UNCHANGED vars
    /\ UNCHANGED mode
RegSpec == RegInit /\ [][RegNext]_<<mode, vars, plVars>> /\ Fairness /\ PlFairness
=============================================================================
