-------------------------- MODULE MCNativeTraversal --------------------------
(* Small catalogs for TLC: every graph over Offset with at most two          *)
(* dependencies per record, at most one damaged record, one or two requests. *)
EXTENDS NativeTraversal, TLC

ListsUpTo(n) == UNION {[1..k -> Offset] : k \in 0..n}

MCDepLists == ListsUpTo(2)

MCRootLists == ListsUpTo(2) \ {<<>>}

Sound == [o \in Offset |-> "none"]

MCFaultMaps ==
    {Sound} \cup {[Sound EXCEPT ![o] = f] : o \in Offset, f \in FaultKind \ {"none"}}

MCNoFaults == {Sound}

MCOneRoot == [1..1 -> Offset]

Symmetry == Permutations(Offset)
=============================================================================
