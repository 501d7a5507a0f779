--------------------------- MODULE PythonTraversal ---------------------------
(***************************************************************************)
(* The Python traversal of the dependency graph: the loop over the key     *)
(* table in `_decode_binary_resources_python` and the recursive function   *)
(* `_resource_location_from_binary` of catalog.py, with the call stack of  *)
(* the interpreter made explicit.                                          *)
(*                                                                         *)
(* The cache is consulted on entry and written on exit; nothing marks a    *)
(* location that is being decoded.  A cyclic graph therefore ends in the   *)
(* interpreter's RecursionError, and so does an acyclic chain longer than  *)
(* the interpreter has calls left.  A custom decoder of the registry runs  *)
(* for the data object of a location, with the dependencies decoded and    *)
(* the location not yet in the cache, or for an object of the key table,   *)
(* before the locations of that key.  It may ask for locations, catch the  *)
(* exception of such a call, write the cache, and raise.                   *)
(***************************************************************************)
EXTENDS CatalogGraph

CONSTANTS
    Limits,      \* how many nested calls the interpreter may have left for a parse
    CustomSets,  \* the sets of locations whose data object has a custom decoder
    KeyedChoices,  \* whether an object of the key table has one
    MaxCalls     \* bound: what custom decoders ask for and write in one parse

ASSUME RecursionAssumption ==
    /\ Limits \subseteq Nat \ {0}
    /\ CustomSets \subseteq SUBSET Offset
    /\ KeyedChoices \subseteq BOOLEAN
    /\ MaxCalls \in Nat

VARIABLES
    serial, objects, links, results, outcome,  \* as in LocationGraph
    limit,    \* calls of _resource_location_from_binary the interpreter has left
    custom,   \* the locations whose data object is decoded by a custom decoder
    keyed,    \* whether objects of the key table are
    frames,   \* the calls of _resource_location_from_binary, innermost last
    asker,    \* who made the outermost of them: the loop over the key table, or the
              \* custom decoder of a key
    value,    \* what the loop over the key table was just given, 0 if nothing
    calls     \* what custom decoders did (history): how often they asked for a
              \* location or wrote the cache; whether one strayed, asking for what
              \* leads back to a location in progress or writing an entry itself;
              \* and how it wrote entries

decoded == <<serial, objects, links>>
given == <<limit, custom, keyed>>
vars == <<catalog, given, decoded, results, outcome, frames, asker, value, calls>>

\* `got` is the `dependencies` list comprehension so far; in the phase "custom"
\* a custom decoder is running for the data object.
Frame == [offset : Offset, got : Seq(1..serial), phase : {"dependencies", "custom"}]

Writes == {"added", "replaced", "removed"}

Init ==
    /\ CatalogInit
    /\ limit \in Limits
    /\ custom \in CustomSets
    /\ keyed \in KeyedChoices
    /\ serial = 0
    /\ objects = [o \in Offset |-> 0]
    /\ links = [o \in Offset |-> <<>>]
    /\ results = <<>>
    /\ outcome = "running"
    /\ frames = <<>>
    /\ asker = "table"
    /\ value = 0
    /\ calls = [made |-> 0, strayed |-> FALSE, wrote |-> {}]

Root == roots[Len(results) + 1]

IsCached(o) == objects[o] # 0

Top == frames[Len(frames)]

Outer == SubSeq(frames, 1, Len(frames) - 1)

InProgress == {frames[i].offset : i \in DOMAIN frames}

\* An exception unwinds every frame, unless the custom decoder of a location or of
\* a key on the way catches it, and goes on from there.
Raise(error) ==
    /\ \/ outcome' = error /\ frames' = <<>>
       \/ /\ outcome' = outcome
          /\ \E i \in DOMAIN frames :
                frames[i].phase = "custom" /\ frames' = SubSeq(frames, 1, i)
       \/ outcome' = outcome /\ asker' = "key" /\ frames' = <<>>
    /\ UNCHANGED <<catalog, given, decoded, results, value>>

\* Seeded fault: the list of dependencies is built back to front.
Receive_Prepends(callers, v) ==
    IF callers # <<>> /\ callers[Len(callers)].phase = "dependencies"
    THEN [callers EXCEPT ![Len(callers)].got = <<v>> \o @]
    ELSE callers

\* The caller goes on with the location v: the list comprehension appends it, a
\* custom decoder is free to ignore it.
Receive(callers, v) ==
    IF callers # <<>> /\ callers[Len(callers)].phase = "dependencies"
    THEN [callers EXCEPT ![Len(callers)].got = Append(@, v)]
    ELSE callers

-----------------------------------------------------------------------------
(* Who calls _resource_location_from_binary, and for which offset. *)

ResourcesCalls(o) ==
    /\ frames = <<>> /\ value = 0
    /\ Len(results) < Len(roots)
    /\ o = Root
    /\ asker' = "table"
    /\ calls' = calls

DependencyCalls(o) ==
    /\ frames # <<>>
    /\ Top.phase = "dependencies"
    /\ Len(Top.got) < Len(deps[Top.offset])
    /\ o = deps[Top.offset][Len(Top.got) + 1]
    /\ UNCHANGED <<asker, calls>>

LocationDecoderRuns ==
    /\ frames # <<>>
    /\ Top.phase = "custom"
    /\ asker' = asker

\* The table is flattened: there may be a key, or several, before every location of
\* `roots` and behind the last.
KeyDecoderRuns ==
    /\ keyed
    /\ frames = <<>> /\ value = 0
    /\ asker' = "key"

CustomDecoderCalls(o) ==
    /\ LocationDecoderRuns \/ KeyDecoderRuns
    /\ calls.made < MaxCalls
    /\ calls' = [calls EXCEPT !.made = @ + 1,
                             !.strayed = @ \/ Reach(o) \cap InProgress # {}]

Calls(o) ==
    /\ outcome = "running"
    /\ ResourcesCalls(o) \/ DependencyCalls(o) \/ CustomDecoderCalls(o)

-----------------------------------------------------------------------------
(* _resource_location_from_binary *)

\* Seeded fault: the frame of the caller is counted against the limit.
CallTooDeep_Early(o) ==
    /\ Calls(o)
    /\ Len(frames) + 1 = limit
    /\ Raise("recursion")

\* The interpreter refuses the call before the cache is looked at.
CallTooDeep(o) ==
    /\ Calls(o)
    /\ Len(frames) = limit
    /\ Raise("recursion")

CallCached(o) ==
    /\ Calls(o)
    /\ Len(frames) < limit
    /\ IsCached(o)
    /\ frames' = Receive(frames, objects[o])
    /\ value' = IF frames = <<>> /\ asker' = "table" THEN objects[o] ELSE 0
    /\ UNCHANGED <<catalog, given, decoded, results, outcome>>

\* The record, its strings and its dependency array are read before recursing.
CallDamaged(o) ==
    /\ Calls(o)
    /\ Len(frames) < limit
    /\ ~IsCached(o)
    /\ fault[o] \in {"record", "string"}
    /\ Raise("read")

\* Seeded fault: the limit is off by one.
CallEnter_Deeper(o) ==
    /\ Calls(o)
    /\ Len(frames) <= limit
    /\ ~IsCached(o)
    /\ fault[o] \notin {"record", "string"}
    /\ frames' = Append(frames, [offset |-> o, got |-> <<>>, phase |-> "dependencies"])
    /\ UNCHANGED <<catalog, given, decoded, results, outcome, value>>

\* Seeded fault: the cache is not consulted for a location asked for again.
CallEnter_Rebuilds(o) ==
    /\ Calls(o)
    /\ Len(frames) < limit
    /\ fault[o] \notin {"record", "string"}
    /\ frames' = Append(frames, [offset |-> o, got |-> <<>>, phase |-> "dependencies"])
    /\ UNCHANGED <<catalog, given, decoded, results, outcome, value>>

CallEnter(o) ==
    /\ Calls(o)
    /\ Len(frames) < limit
    /\ ~IsCached(o)
    /\ fault[o] \notin {"record", "string"}
    /\ frames' = Append(frames, [offset |-> o, got |-> <<>>, phase |-> "dependencies"])
    /\ UNCHANGED <<catalog, given, decoded, results, outcome, value>>

\* Seeded fault: the last dependency is not decoded.
HasDependencies_OneShort ==
    /\ outcome = "running"
    /\ frames # <<>>
    /\ Top.phase = "dependencies"
    /\ Len(Top.got) + 1 >= Len(deps[Top.offset])

HasDependencies ==
    /\ outcome = "running"
    /\ frames # <<>>
    /\ Top.phase = "dependencies"
    /\ Len(Top.got) = Len(deps[Top.offset])

DataUnsupported ==
    /\ HasDependencies
    /\ fault[Top.offset] = "object"
    /\ UNCHANGED <<asker, calls>>
    /\ Raise("unsupported")

DataIsCustom ==
    /\ HasDependencies
    /\ fault[Top.offset] # "object"
    /\ Top.offset \in custom
    /\ frames' = [frames EXCEPT ![Len(frames)].phase = "custom"]
    /\ UNCHANGED <<catalog, given, decoded, results, outcome, asker, value, calls>>

DecoderRaises ==
    /\ outcome = "running"
    /\ LocationDecoderRuns \/ KeyDecoderRuns
    /\ calls' = calls
    /\ Raise("custom")

WritesCache(o) ==
    /\ outcome = "running"
    /\ LocationDecoderRuns \/ KeyDecoderRuns
    /\ calls.made < MaxCalls
    /\ UNCHANGED <<catalog, given, results, outcome, frames, value>>

\* `cache_and_return`, or `read_custom` when nothing is cached, keeps an object of the
\* decoder's own at the offset of a location, where it is taken for the location.
DecoderPuts(o) ==
    /\ WritesCache(o)
    /\ serial' = serial + 1
    /\ objects' = [objects EXCEPT ![o] = serial + 1]
    /\ links' = [links EXCEPT ![o] = <<>>]
    /\ calls' = [calls EXCEPT !.made = @ + 1, !.strayed = TRUE,
                             !.wrote = @ \cup {IF IsCached(o) THEN "replaced" ELSE "added"}]

\* `cache_and_return(o, None)`: None is looked up as if nothing were cached.
DecoderRemoves(o) ==
    /\ WritesCache(o)
    /\ IsCached(o)
    /\ objects' = [objects EXCEPT ![o] = 0]
    /\ calls' = [calls EXCEPT !.made = @ + 1, !.strayed = TRUE,
                             !.wrote = @ \cup {"removed"}]
    /\ UNCHANGED <<serial, links>>

\* The location is constructed, cached and returned.  Whether the cache holds one
\* by now is not asked again.
Construct(o, dependencies) ==
    /\ serial' = serial + 1
    /\ objects' = [objects EXCEPT ![o] = serial + 1]
    /\ links' = [links EXCEPT ![o] = dependencies]

ReturnLocation ==
    /\ \/ /\ HasDependencies
          /\ fault[Top.offset] # "object"
          /\ Top.offset \notin custom
       \/ /\ outcome = "running"
          /\ frames # <<>>
          /\ Top.phase = "custom"
    /\ Construct(Top.offset, Top.got)
    /\ frames' = Receive(Outer, serial + 1)
    /\ value' = IF Outer = <<>> /\ asker = "table" THEN serial + 1 ELSE 0
    /\ UNCHANGED <<catalog, given, results, outcome, asker, calls>>

\* Back in the comprehension that builds the list of a key's locations.
ResourcesAppend ==
    /\ outcome = "running"
    /\ value # 0
    /\ results' = Append(results, value)
    /\ value' = 0
    /\ UNCHANGED <<catalog, given, decoded, outcome, frames, asker, calls>>

Finish ==
    /\ outcome = "running"
    /\ frames = <<>> /\ value = 0
    /\ Len(results) = Len(roots)
    /\ outcome' = "done"
    /\ UNCHANGED <<catalog, given, decoded, results, frames, asker, value, calls>>

Next ==
    \/ \E o \in Offset : CallTooDeep(o) \/ CallCached(o) \/ CallDamaged(o) \/ CallEnter(o)
    \/ DataUnsupported
    \/ DataIsCustom
    \/ DecoderRaises
    \/ \E o \in Offset : DecoderPuts(o) \/ DecoderRemoves(o)
    \/ ReturnLocation
    \/ ResourcesAppend
    \/ Finish

Spec == Init /\ [][Next]_vars

\* One thread; a custom decoder is assumed to return or raise.
FairSpec == Spec /\ WF_vars(Next)

-----------------------------------------------------------------------------
(* Properties *)

TypeOK ==
    /\ CatalogTypeOK
    /\ limit \in Nat \ {0}
    /\ custom \subseteq Offset
    /\ keyed \in BOOLEAN
    /\ serial \in Nat
    /\ objects \in [Offset -> 0..serial]
    /\ links \in [Offset -> Seq(1..serial)]
    /\ results \in Seq(1..serial)
    /\ outcome \in {"running", "done", "read", "unsupported", "recursion", "custom"}
    /\ frames \in Seq(Frame)
    /\ Len(frames) <= limit
    /\ asker \in {"table", "key"}
    /\ value \in 0..serial
    /\ calls \in [made : 0..MaxCalls, strayed : BOOLEAN, wrote : SUBSET Writes]

Promise == INSTANCE LocationGraph

Uncustomised == custom = {} /\ ~keyed

\* Without custom decoders the recursion implements the same abstract decoding as the
\* explicit stack of the Rust backend, except that it also refuses, with
\* RecursionError, a catalog with a path longer than the calls the interpreter has
\* left: below a cycle, or along a chain of dependencies that is just too long.
ImplementsLocationGraph ==
    /\ Promise!Init
    /\ [][~Uncustomised \/ Promise!Next \/ Promise!RejectDepth(limit)]_(Promise!vars)

\* See LocationGraph.
SharedIdentity == Promise!SharedIdentity
AcceptsOnlyDecodable == Promise!AcceptsOnlyDecodable
Termination == Promise!Termination

\* Custom decoders, of locations and of keys, that write no cache entry themselves and
\* ask for nothing that leads back to a location in progress share every object with
\* the traversal, and leave no location half decoded, whatever they catch.
DisciplinedIdentity == ~calls.strayed => SharedIdentity
DisciplinedDecoding == ~calls.strayed => AcceptsOnlyDecodable

\* Without custom decoders, RecursionError means that the dependencies below the
\* requested location can be followed for more steps than the interpreter allows
\* calls: a location that only is shared, or listed twice, or cached, is no reason.
RecursionIsDeep ==
    outcome = "recursion" /\ Uncustomised => Promise!Deep(Root, limit + 1)

\* What parse() documents: invalid catalog data raises CatalogParseError, of
\* which BinaryReadError and UnsupportedSerializedObjectError are subclasses.
OnlyCatalogErrors == outcome # "recursion"

-----------------------------------------------------------------------------
(* Why they hold: the inductive invariant of a parse no decoder strayed in. *)

Dep(i) == deps[frames[i].offset]

\* The cache is closed under dependencies and ordered by construction.
CacheInv ==
    \A o \in Offset : IsCached(o) =>
        /\ fault[o] = "none"
        /\ \A d \in Range(deps[o]) : IsCached(d) /\ objects[d] < objects[o]
        /\ links[o] = [i \in 1..Len(deps[o]) |-> objects[deps[o][i]]]

ResultsInv ==
    /\ Len(results) <= Len(roots)
    /\ \A k \in 1..Len(results) : results[k] = objects[roots[k]]

\* The outermost call is for the entry of the key table whose turn it is, if it was
\* not made by the decoder of a key.
ControlInv ==
    /\ outcome # "running" => frames = <<>>
    /\ value # 0 => frames = <<>> /\ Len(results) < Len(roots) /\ value = objects[Root]
    /\ frames # <<>> /\ asker = "table" => Len(results) < Len(roots) /\ frames[1].offset = Root
    /\ outcome = "done" => Len(results) = Len(roots)

\* A call holds the cached objects of the dependencies it went through, and its own
\* location is not cached, even when a call of the same location waits further out.
GotInv ==
    \A i \in DOMAIN frames :
        /\ ~IsCached(frames[i].offset)
        /\ fault[frames[i].offset] \notin {"record", "string"}
        /\ Len(frames[i].got) <= Len(Dep(i))
        /\ \A k \in 1..Len(frames[i].got) : frames[i].got[k] = objects[Dep(i)[k]]
        /\ frames[i].phase = "custom" =>
              /\ Len(frames[i].got) = Len(Dep(i))
              /\ fault[frames[i].offset] # "object"
              /\ frames[i].offset \in custom

\* What a call waits for: the next dependency, or a custom decoder, below which
\* nothing leads back to it or to a call it was made for.
WaitingInv ==
    \A i \in DOMAIN frames : i < Len(frames) =>
        IF frames[i].phase = "dependencies"
        THEN /\ Len(frames[i].got) < Len(Dep(i))
             /\ frames[i + 1].offset = Dep(i)[Len(frames[i].got) + 1]
        ELSE \A j \in DOMAIN frames : i < j =>
                 \A m \in 1..i : frames[m].offset \notin Reach(frames[j].offset)

\* Nothing is looked at that the requested location does not lead to.
ReachInv ==
    Uncustomised => \A i \in DOMAIN frames : frames[i].offset \in Reach(Root)

\* The calls in progress and the refused one are the path RecursionError stands for.
DepthInv ==
    Uncustomised =>
        /\ asker = "table"
        /\ outcome = "recursion" => Len(results) < Len(roots) /\ Promise!Deep(Root, limit + 1)

DisciplinedInv ==
    /\ Uncustomised => ~calls.strayed
    /\ ~calls.strayed =>
          CacheInv /\ ResultsInv /\ ControlInv /\ GotInv /\ WaitingInv /\ ReachInv /\ DepthInv
=============================================================================
