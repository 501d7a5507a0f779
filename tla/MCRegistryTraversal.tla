------------------------- MODULE MCRegistryTraversal -------------------------
(* Small catalogs for TLC, as in MCNativeTraversal, with custom decoders. *)
EXTENDS RegistryTraversal, FiniteSets, TLC

ListsUpTo(n) == UNION {[1..k -> Offset] : k \in 0..n}

MCDepLists == ListsUpTo(2)

MCRootLists == ListsUpTo(2) \ {<<>>}

Sound == [o \in Offset |-> "none"]

MCFaultMaps ==
    {Sound} \cup {[Sound EXCEPT ![o] = f] : o \in Offset, f \in FaultKind \ {"none"}}

MCNoFaults == {Sound}

MCOneRoot == [1..1 -> Offset]

MCCustomSets == SUBSET Offset

\* Some object has a custom decoder, and the catalogs are small: no dependency is
\* listed twice, and of several decoders, several requests and a damaged record there
\* is only one.
MCInit ==
    /\ Init
    /\ \A o \in Offset : IsInjective(deps[o])
    /\ \/ fault = Sound /\ Len(roots) = 1 /\ Cardinality(custom) = 2 /\ ~keyed
       \/ fault = Sound /\ Len(roots) = 1 /\ Cardinality(custom) = 1 /\ keyed
       \/ fault = Sound /\ custom = {} /\ keyed
       \/ Cardinality(custom) = 1 /\ ~keyed /\ (fault = Sound \/ Len(roots) = 1)

MCSpec == MCInit /\ [][Next]_vars

Symmetry == Permutations(Offset)
=============================================================================
