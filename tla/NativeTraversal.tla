--------------------------- MODULE NativeTraversal ---------------------------
(***************************************************************************)
(* The Rust traversal of the dependency graph: `resources`, `location` and *)
(* `build_location` of native/src/binary.rs for a parse without a decoder  *)
(* registry, where the parser owns a private copy of the object cache and  *)
(* no Python code runs between two steps.                                  *)
(*                                                                         *)
(* `location` walks the graph in postorder with an explicit stack instead  *)
(* of recursion.  An entry is popped twice: first to push its dependencies *)
(* (expanded = FALSE), then, when everything above it has gone, to be      *)
(* built (expanded = TRUE).  A dependency can be pushed by several parents *)
(* before it is built, so entries go stale while they wait on the stack.   *)
(* One step of the model is one iteration of the `while` loop, or one      *)
(* iteration of the `for` loop that pushes the dependencies.               *)
(***************************************************************************)
EXTENDS CatalogGraph

VARIABLES
    serial, objects, links, results, outcome,  \* as in LocationGraph
    pc,        \* "resources": between two calls of `location`; "loop": inside one
    pending,   \* the stack of <<offset, expanded>> entries
    active,    \* the offsets being expanded, to recognise a cycle
    frame,     \* index in pending of the entry whose dependencies are being pushed, or 0
    child      \* how many of them are left to look at

location == <<pending, active, frame, child>>
decoded == <<serial, objects, links>>
vars == <<catalog, decoded, results, outcome, pc, location>>

Entry == [offset : Offset, expanded : BOOLEAN]

Init ==
    /\ CatalogInit
    /\ serial = 0
    /\ objects = [o \in Offset |-> 0]
    /\ links = [o \in Offset |-> <<>>]
    /\ results = <<>>
    /\ outcome = "running"
    /\ pc = "resources"
    /\ pending = <<>>
    /\ active = {}
    /\ frame = 0
    /\ child = 0

Root == roots[Len(results) + 1]

IsCached(o) == objects[o] # 0

\* An error leaves `location`: its stack and its set are dropped.
Fail(error) ==
    /\ outcome' = error
    /\ pc' = "resources"
    /\ pending' = <<>>
    /\ active' = {}
    /\ frame' = 0
    /\ child' = 0
    /\ UNCHANGED <<catalog, decoded, results>>

-----------------------------------------------------------------------------
(* build_location *)

\* Seeded fault: an object that cannot be decoded is taken for a missing one.
BuildOutcome_Lenient(o) ==
    CASE fault[o] = "string"                         -> "read"
      [] \E d \in Range(deps[o]) : ~IsCached(d)      -> "panic"
      [] OTHER                                       -> "running"

\* The strings are read first, then the dependencies are looked up, then the
\* data object is decoded.  `self.objects[&offset]` panics on a missing key.
BuildOutcome(o) ==
    CASE fault[o] = "string"                         -> "read"
      [] \E d \in Range(deps[o]) : ~IsCached(d)      -> "panic"
      [] fault[o] = "object"                         -> "unsupported"
      [] OTHER                                       -> "running"

BuildLocation(o) ==
    /\ BuildOutcome(o) = "running"
    /\ serial' = serial + 1
    /\ objects' = [objects EXCEPT ![o] = serial + 1]
    /\ links' = [links EXCEPT ![o] = [i \in 1..Len(deps[o]) |-> objects[deps[o][i]]]]

BuildFails(o) ==
    /\ BuildOutcome(o) # "running"
    /\ Fail(BuildOutcome(o))

-----------------------------------------------------------------------------
(* location: the entry of a call *)

Calling ==
    /\ outcome = "running"
    /\ pc = "resources"
    /\ Len(results) < Len(roots)

LocationCached ==
    /\ Calling
    /\ IsCached(Root)
    /\ results' = Append(results, objects[Root])
    /\ UNCHANGED <<catalog, decoded, outcome, pc, location>>

LocationTruncated ==
    /\ Calling
    /\ ~IsCached(Root)
    /\ fault[Root] = "record"
    /\ Fail("read")

\* Seeded fault: the flag is overwritten instead of and-ed.
Ready_LastOnly(o) == deps[o] # <<>> => IsCached(deps[o][Len(deps[o])])

Ready(o) == \A d \in Range(deps[o]) : IsCached(d)

\* Seeded fault: the cache is not consulted first.
LocationReady_Rebuilds ==
    /\ Calling
    /\ fault[Root] # "record"
    /\ Ready(Root)
    /\ BuildLocation(Root)
    /\ pc' = "loop"
    /\ UNCHANGED <<catalog, results, outcome, location>>

\* Nothing to wait for: build without touching the stack.
LocationReady ==
    /\ Calling
    /\ ~IsCached(Root)
    /\ fault[Root] # "record"
    /\ Ready(Root)
    /\ \/ /\ BuildLocation(Root)
          /\ pc' = "loop"
          /\ UNCHANGED <<catalog, results, outcome, location>>
       \/ BuildFails(Root)

LocationStart ==
    /\ Calling
    /\ ~IsCached(Root)
    /\ fault[Root] # "record"
    /\ ~Ready(Root)
    /\ pc' = "loop"
    /\ pending' = <<[offset |-> Root, expanded |-> FALSE]>>
    /\ active' = {}
    /\ UNCHANGED <<catalog, decoded, results, outcome, frame, child>>

-----------------------------------------------------------------------------
(* location: one iteration of the loop *)

Top == pending[Len(pending)]

Popped == SubSeq(pending, 1, Len(pending) - 1)

Popping ==
    /\ outcome = "running"
    /\ pc = "loop"
    /\ frame = 0
    /\ pending # <<>>

\* Seeded fault: the entry is looked at but stays on the stack.
PopCached_Keeps == Popping /\ IsCached(Top.offset) /\ UNCHANGED vars

\* Another parent's entry has been built meanwhile.
PopCached ==
    /\ Popping
    /\ IsCached(Top.offset)
    /\ pending' = Popped
    /\ UNCHANGED <<catalog, decoded, results, outcome, pc, active, frame, child>>

PopTruncated ==
    /\ Popping
    /\ ~IsCached(Top.offset)
    /\ fault[Top.offset] = "record"
    /\ Fail("read")

\* Seeded fault: an offset waiting further down is taken for one being expanded.
PopCycle_Pending ==
    /\ Popping
    /\ ~IsCached(Top.offset)
    /\ fault[Top.offset] # "record"
    /\ ~Top.expanded
    /\ \E i \in 1..Len(pending) - 1 : pending[i].offset = Top.offset
    /\ Fail("cycle")

PopCycle ==
    /\ Popping
    /\ ~IsCached(Top.offset)
    /\ fault[Top.offset] # "record"
    /\ ~Top.expanded
    /\ Top.offset \in active
    /\ Fail("cycle")

\* Seeded fault: the loop over the dependencies starts one short.
PopExpand_OffByOne ==
    /\ Popping
    /\ ~IsCached(Top.offset) /\ fault[Top.offset] # "record"
    /\ ~Top.expanded /\ Top.offset \notin active
    /\ active' = active \cup {Top.offset}
    /\ pending' = [pending EXCEPT ![Len(pending)].expanded = TRUE]
    /\ child' = Len(deps[Top.offset]) - 1
    /\ frame' = IF child' = 0 THEN 0 ELSE Len(pending)
    /\ UNCHANGED <<catalog, decoded, results, outcome, pc>>

PopExpand ==
    /\ Popping
    /\ ~IsCached(Top.offset)
    /\ fault[Top.offset] # "record"
    /\ ~Top.expanded
    /\ Top.offset \notin active
    /\ active' = active \cup {Top.offset}
    /\ pending' = [pending EXCEPT ![Len(pending)].expanded = TRUE]
    /\ child' = Len(deps[Top.offset])
    /\ frame' = IF child' = 0 THEN 0 ELSE Len(pending)
    /\ UNCHANGED <<catalog, decoded, results, outcome, pc>>

\* Seeded fault: a dependency being expanded is not pushed again.
PushChild_SkipsActive ==
    /\ outcome = "running"
    /\ frame # 0
    /\ LET c == deps[pending[frame].offset][child]
       IN  pending' = IF IsCached(c) \/ c \in active THEN pending
                      ELSE Append(pending, [offset |-> c, expanded |-> FALSE])
    /\ child' = child - 1
    /\ frame' = IF child' = 0 THEN 0 ELSE frame
    /\ UNCHANGED <<catalog, decoded, results, outcome, pc, active>>

\* The dependencies are pushed in reverse, so that the first is popped first.
PushChild ==
    /\ outcome = "running"
    /\ frame # 0
    /\ LET c == deps[pending[frame].offset][child]
       IN  pending' = IF IsCached(c) THEN pending
                      ELSE Append(pending, [offset |-> c, expanded |-> FALSE])
    /\ child' = child - 1
    /\ frame' = IF child' = 0 THEN 0 ELSE frame
    /\ UNCHANGED <<catalog, decoded, results, outcome, pc, active>>

\* Seeded fault: `active.remove` is forgotten.
PopBuild_StaysActive ==
    /\ Popping
    /\ ~IsCached(Top.offset) /\ fault[Top.offset] # "record"
    /\ Top.expanded
    /\ \/ /\ BuildLocation(Top.offset)
          /\ pending' = Popped
          /\ UNCHANGED <<catalog, results, outcome, pc, active, frame, child>>
       \/ BuildFails(Top.offset)

PopBuild ==
    /\ Popping
    /\ ~IsCached(Top.offset)
    /\ fault[Top.offset] # "record"
    /\ Top.expanded
    /\ \/ /\ BuildLocation(Top.offset)
          /\ pending' = Popped
          /\ active' = active \ {Top.offset}
          /\ UNCHANGED <<catalog, results, outcome, pc, frame, child>>
       \/ BuildFails(Top.offset)

\* The stack is empty; `cached(root)` is what the call returns.
LocationReturn ==
    /\ outcome = "running"
    /\ pc = "loop"
    /\ frame = 0
    /\ pending = <<>>
    /\ IF IsCached(Root)
       THEN /\ results' = Append(results, objects[Root])
            /\ pc' = "resources"
            /\ active' = {}
            /\ UNCHANGED <<catalog, decoded, outcome, pending, frame, child>>
       ELSE Fail("missing")

Finish ==
    /\ outcome = "running"
    /\ pc = "resources"
    /\ Len(results) = Len(roots)
    /\ outcome' = "done"
    /\ UNCHANGED <<catalog, decoded, results, pc, location>>

Next ==
    \/ LocationCached \/ LocationTruncated \/ LocationReady \/ LocationStart
    \/ PopCached \/ PopTruncated \/ PopCycle \/ PopExpand \/ PushChild \/ PopBuild
    \/ LocationReturn
    \/ Finish

Spec == Init /\ [][Next]_vars

\* The traversal is one thread that never blocks.
FairSpec == Spec /\ WF_vars(Next)

-----------------------------------------------------------------------------
(* Properties *)

\* The traversal implements the abstract decoding of the graph.
Promise == INSTANCE LocationGraph

TypeOK ==
    /\ CatalogTypeOK
    /\ serial \in Nat
    /\ objects \in [Offset -> Nat]
    /\ links \in [Offset -> Seq(Nat)]
    /\ results \in Seq(Nat)
    /\ outcome \in {"running", "done", "read", "unsupported", "cycle", "panic", "missing"}
    /\ pc \in {"resources", "loop"}
    /\ pending \in Seq(Entry)
    /\ active \in SUBSET Offset
    /\ frame \in Nat
    /\ child \in Nat

\* `self.objects[&offset]` never panics and "missing decoded resource" is never
\* reported: when an entry comes up to be built, whatever was popped, skipped or
\* shared since it was expanded, every one of its dependencies is in the cache.
NoPanic == outcome \notin {"panic", "missing"}

\* See LocationGraph.
SharedIdentity == Promise!SharedIdentity
AcceptsOnlyDecodable == Promise!AcceptsOnlyDecodable
CycleIsReal == Promise!CycleIsReal
Termination == Promise!Termination
ImplementsLocationGraph == Promise!Spec

-----------------------------------------------------------------------------
(* Why they hold: the inductive invariant. *)

ExpandedEntries == {i \in DOMAIN pending : pending[i].expanded}

Dep(i) == deps[pending[i].offset]

\* The cache is closed under dependencies and ordered by construction.
CacheInv ==
    \A o \in Offset : IsCached(o) =>
        /\ fault[o] = "none"
        /\ objects[o] <= serial
        /\ \A d \in Range(deps[o]) : IsCached(d) /\ objects[d] < objects[o]
        /\ links[o] = [i \in 1..Len(deps[o]) |-> objects[deps[o][i]]]

ResultsInv ==
    /\ Len(results) <= Len(roots)
    /\ \A k \in 1..Len(results) : results[k] # 0 /\ results[k] = objects[roots[k]]

\* The control state: where the stack may be non-empty and what its bottom is.
ControlInv ==
    /\ outcome # "running" => pc = "resources"
    /\ pc = "resources" => pending = <<>>
    /\ pc = "loop" => Len(results) < Len(roots)
    /\ pc = "loop" => IF pending = <<>> THEN IsCached(Root) ELSE pending[1].offset = Root
    /\ outcome = "done" => Len(results) = Len(roots)
    /\ outcome = "cycle" => Len(results) < Len(roots)

\* `active` is the set of expanded entries, each on the stack once and unbuilt.
ActiveInv ==
    /\ active = {pending[i].offset : i \in ExpandedEntries}
    /\ \A i, j \in ExpandedEntries : pending[i].offset = pending[j].offset => i = j
    /\ \A i \in ExpandedEntries :
          ~IsCached(pending[i].offset) /\ fault[pending[i].offset] # "record"

\* What is left of this when others write to the cache, too (see RegistryTraversal):
\* the location of an expanded entry may be built by then, and stays in `active`.
SharedActiveInv ==
    /\ \A i, j \in ExpandedEntries : pending[i].offset = pending[j].offset => i = j
    /\ \A i \in ExpandedEntries :
          pending[i].offset \in active /\ fault[pending[i].offset] # "record"
    /\ \A o \in active :
          IsCached(o) \/ \E i \in ExpandedEntries : pending[i].offset = o

FrameInv ==
    IF frame = 0 THEN child = 0
    ELSE /\ frame \in ExpandedEntries
         /\ child \in 1..Len(Dep(frame))
         /\ \A i \in ExpandedEntries : i <= frame

\* An expanded entry waits for nothing that is neither cached nor above it.
WaitingInv ==
    \A i \in ExpandedEntries : \A k \in 1..Len(Dep(i)) :
        \/ i = frame /\ k <= child
        \/ IsCached(Dep(i)[k])
        \/ \E j \in DOMAIN pending : i < j /\ pending[j].offset = Dep(i)[k]

\* An entry still to be expanded is a dependency of the expanded entry nearest
\* below it, and the expanded entries form a path of dependencies.
PathInv ==
    /\ \A j \in DOMAIN pending : ~pending[j].expanded /\ j # 1 =>
          \E i \in ExpandedEntries :
              /\ i < j
              /\ pending[j].offset \in Range(Dep(i))
              /\ \A m \in ExpandedEntries : m <= i \/ j < m
    /\ \A i, j \in ExpandedEntries : i < j =>
          \E m \in ExpandedEntries :
              i < m /\ m <= j /\ pending[m].offset \in Range(Dep(i))

\* Nothing is looked at that the requested location does not lead to.
ReachInv == \A i \in DOMAIN pending : pending[i].offset \in Reach(Root)

EntriesInv == SharedActiveInv /\ FrameInv /\ WaitingInv /\ PathInv /\ ReachInv

StackInv == ControlInv /\ ActiveInv /\ EntriesInv

\* The whole invariant: the explicit stack stands for the call stack of the
\* recursion it replaces, and the cache for what that recursion has returned.
TraversalInv == CacheInv /\ ResultsInv /\ StackInv /\ NoPanic /\ CycleIsReal
=============================================================================
