-------------------------- MODULE MCPythonTraversal --------------------------
(* Small catalogs for TLC, as in MCNativeTraversal. *)
EXTENDS PythonTraversal, FiniteSets, TLC

ListsUpTo(n) == UNION {[1..k -> Offset] : k \in 0..n}

MCDepLists == ListsUpTo(2)

MCRootLists == ListsUpTo(2) \ {<<>>}

Sound == [o \in Offset |-> "none"]

MCFaultMaps ==
    {Sound} \cup {[Sound EXCEPT ![o] = f] : o \in Offset, f \in FaultKind \ {"none"}}

MCNoFaults == {Sound}

MCNoCustom == {{}}

\* With custom decoders, the catalogs are smaller: no dependency is listed twice, a
\* string is damaged where a record is (it makes no difference to Python), and one
\* location or the keys have a decoder if a record is damaged or there are two requests.
\* The lower limit is met with sound records.
MCInit ==
    /\ Init
    /\ \/ Uncustomised /\ (fault = Sound \/ limit = 4)
       \/ /\ limit = 4
          /\ \A o \in Offset : IsInjective(deps[o]) /\ fault[o] # "string"
          /\ \/ fault = Sound /\ Len(roots) = 1 /\ Cardinality(custom) < 2
             \/ custom = {} /\ Len(roots) = 2
             \/ ~keyed /\ Cardinality(custom) = 1 /\ Len(roots) = 1

MCSpec == MCInit /\ [][Next]_vars

MCCustomSets == SUBSET Offset

Symmetry == Permutations(Offset)
=============================================================================
