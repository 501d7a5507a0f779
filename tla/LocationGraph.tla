---------------------------- MODULE LocationGraph ----------------------------
(***************************************************************************)
(* What decoding the resource table of a binary catalog promises, whatever *)
(* the traversal: locations are constructed one at a time, each after all  *)
(* its dependencies and each exactly once; every reference to an offset is *)
(* a reference to the one object constructed for it; and the parse is      *)
(* refused only for a reason that can be found in the catalog, below the   *)
(* location being asked for.                                               *)
(***************************************************************************)
EXTENDS CatalogGraph

VARIABLES
    serial,    \* number of ResourceLocation objects constructed so far
    objects,   \* the object cache: offset -> serial of its object, 0 if absent
    links,     \* offset -> the objects its `dependencies` list holds
    results,   \* the objects delivered for the entries of `roots`, in order
    outcome    \* "running", "done", or the error the parse ended with

vars == <<catalog, serial, objects, links, results, outcome>>

Root == roots[Len(results) + 1]

Init ==
    /\ CatalogInit
    /\ serial = 0
    /\ objects = [o \in Offset |-> 0]
    /\ links = [o \in Offset |-> <<>>]
    /\ results = <<>>
    /\ outcome = "running"

Asking == outcome = "running" /\ Len(results) < Len(roots)

Decode(o) ==
    /\ Asking
    /\ o \in Reach(Root)
    /\ objects[o] = 0
    /\ fault[o] = "none"
    /\ \A d \in Range(deps[o]) : objects[d] # 0
    /\ serial' = serial + 1
    /\ objects' = [objects EXCEPT ![o] = serial + 1]
    /\ links' = [links EXCEPT ![o] = [i \in 1..Len(deps[o]) |-> objects[deps[o][i]]]]
    /\ UNCHANGED <<catalog, results, outcome>>

Deliver ==
    /\ Asking
    /\ objects[Root] # 0
    /\ results' = Append(results, objects[Root])
    /\ UNCHANGED <<catalog, serial, objects, links, outcome>>

Finish ==
    /\ outcome = "running"
    /\ Len(results) = Len(roots)
    /\ outcome' = "done"
    /\ UNCHANGED <<catalog, serial, objects, links, results>>

\* BinaryReadError for damaged bytes, UnsupportedSerializedObjectError for an object.
FaultOutcome(o) == IF fault[o] = "object" THEN "unsupported" ELSE "read"

Reject ==
    /\ Asking
    /\ \E o \in Reach(Root) :
         /\ fault[o] # "none"
         /\ objects[o] = 0
         /\ outcome' = FaultOutcome(o)
    /\ UNCHANGED <<catalog, serial, objects, links, results>>

RejectCycle ==
    /\ Asking
    /\ \E C \in SUBSET Reach(Root) : Stuck(C)
    /\ outcome' = "cycle"
    /\ UNCHANGED <<catalog, serial, objects, links, results>>

\* The dependencies below the location at o can be followed through n locations.
Deep(o, n) ==
    \E path \in [1..n -> Offset] :
        /\ path[1] = o
        /\ \A i \in 1..n - 1 : path[i + 1] \in Children(path[i])

\* A decoder that calls itself for every dependency also refuses what it has too few
\* calls left for.  Not a step of Next: the explicit stack has no such limit.
RejectDepth(limit) ==
    /\ Asking
    /\ Deep(Root, limit + 1)
    /\ outcome' = "recursion"
    /\ UNCHANGED <<catalog, serial, objects, links, results>>

Next ==
    \/ \E o \in Offset : Decode(o)
    \/ Deliver
    \/ Finish
    \/ Reject
    \/ RejectCycle

Spec == Init /\ [][Next]_vars

FairSpec == Spec /\ WF_vars(Next)

-----------------------------------------------------------------------------
(* The properties every traversal of the graph must have. *)

\* Every reference to an offset, from a dependency list or from the resource
\* table, is a reference to the object the cache holds for it: two parents of
\* one dependency share it, whichever of them was decoded first.
SharedIdentity ==
    /\ \A o \in Offset : objects[o] # 0 =>
          links[o] = [i \in 1..Len(deps[o]) |-> objects[deps[o][i]]]
    /\ \A k \in 1..Len(results) : results[k] = objects[roots[k]]

\* A parse that succeeds has decoded everything below every requested location,
\* met no damaged record there, and the order of construction shows the graph
\* it accepted to be acyclic.
AcceptsOnlyDecodable ==
    outcome = "done" =>
        \A k \in 1..Len(roots) : \A o \in Reach(roots[k]) :
            /\ objects[o] # 0
            /\ fault[o] = "none"
            /\ \A d \in Children(o) : 0 < objects[d] /\ objects[d] < objects[o]

\* A parse refused because of a cycle has one below the requested location: a
\* dependency shared by two parents, or listed twice, is not taken for a cycle.
CycleIsReal ==
    outcome = "cycle" => \E C \in SUBSET Reach(Root) : Stuck(C)

\* Whatever the catalog, the parse comes to an end.
Termination == <>(outcome # "running")
=============================================================================
