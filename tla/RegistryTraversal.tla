-------------------------- MODULE RegistryTraversal --------------------------
(***************************************************************************)
(* The Rust traversal of a parse with a DecoderRegistry.  The parser has   *)
(* no cache of its own: it reads and writes `reader._object_cache`, the    *)
(* dictionary the Python code uses.  Decoding the data object of a         *)
(* location may run a custom decoder in Python, between the moment         *)
(* `build_location` collected the dependencies and the moment it writes    *)
(* the cache; decoding an object of the key table may run one between two  *)
(* calls of `location`.  That decoder may call                             *)
(* `_resource_location_from_binary`, which recurses over the same graph    *)
(* and fills the same cache, may catch what the call raises, and may write *)
(* the cache itself.                                                       *)
(*                                                                         *)
(* The module composes the two traversals.  Rust's stack is NativeTraversal*)
(* with `build_location` replaced; the calls below a custom decoder are    *)
(* PythonTraversal, whose outermost frame, unless the decoder of a key     *)
(* made that call, stands for the `build_location` that is waiting for the *)
(* decoder to return.                                                      *)
(***************************************************************************)
EXTENDS CatalogGraph

CONSTANTS Limits, CustomSets, KeyedChoices, MaxCalls  \* as in PythonTraversal

ASSUME RegistryAssumption ==
    /\ Limits \subseteq Nat \ {0}
    /\ CustomSets \subseteq SUBSET Offset
    /\ KeyedChoices \subseteq BOOLEAN
    /\ MaxCalls \in Nat

VARIABLES
    serial, objects, links, results, outcome,  \* as in LocationGraph
    pc, pending, active, frame, child,         \* as in NativeTraversal
    limit, custom, keyed, frames, asker, value, calls  \* as in PythonTraversal

Rust == INSTANCE NativeTraversal
Python == INSTANCE PythonTraversal
Promise == INSTANCE LocationGraph

stack == <<pending, active, frame, child>>
given == <<limit, custom, keyed>>
callback == <<given, frames, asker, value, calls>>
vars == <<catalog, serial, objects, links, results, outcome, stack, pc, callback>>

Init == Rust!Init /\ Python!Init

\* No Python code runs: the traversal is between two callbacks.
InRust == frames = <<>>

-----------------------------------------------------------------------------
(* build_location with a shared cache *)

Collected(o) == [i \in 1..Len(deps[o]) |-> objects[deps[o][i]]]

\* A dependency the cache does not hold is reported, it does not panic.
BuildOutcome(o) ==
    CASE fault[o] = "string"                              -> "read"
      [] \E d \in Range(deps[o]) : objects[d] = 0         -> "missing"
      [] fault[o] = "object"                              -> "unsupported"
      [] OTHER                                            -> "running"

\* What is left of `location` when build_location returns: the entry it popped is
\* dropped and no longer active.  The first call may have found the location
\* ready and have pushed no entry at all.
BuildReturns(o) ==
    /\ pc' = "loop"
    /\ pending' = IF pending = <<>> THEN pending ELSE Rust!Popped
    /\ active' = active \ {o}
    /\ UNCHANGED <<frame, child>>

\* The callback starts with the dependencies collected and `pending` already
\* popped; the model pops it when the callback returns.
BuildLocation(o) ==
    \/ /\ BuildOutcome(o) = "running"
       /\ o \in custom
       /\ frames' = <<[offset |-> o, got |-> Collected(o), phase |-> "custom"]>>
       /\ asker' = "table"
       /\ UNCHANGED <<catalog, serial, objects, links, results, outcome,
                      pc, stack, given, value, calls>>
    \/ /\ BuildOutcome(o) = "running"
       /\ o \notin custom
       /\ Python!Construct(o, Collected(o))
       /\ BuildReturns(o)
       /\ UNCHANGED <<catalog, results, outcome, callback>>
    \/ /\ BuildOutcome(o) # "running"
       /\ Rust!Fail(BuildOutcome(o))
       /\ UNCHANGED callback

LocationReady ==
    /\ InRust
    /\ Rust!Calling
    /\ ~Rust!IsCached(Rust!Root)
    /\ fault[Rust!Root] # "record"
    /\ Rust!Ready(Rust!Root)
    /\ BuildLocation(Rust!Root)

PopBuild ==
    /\ InRust
    /\ Rust!Popping
    /\ ~Rust!IsCached(Rust!Top.offset)
    /\ fault[Rust!Top.offset] # "record"
    /\ Rust!Top.expanded
    /\ BuildLocation(Rust!Top.offset)

\* Everything else in `location` and `resources` is as without a registry.
RustStep ==
    /\ InRust
    /\ \/ Rust!LocationCached \/ Rust!LocationTruncated \/ Rust!LocationStart
       \/ Rust!PopCached \/ Rust!PopTruncated \/ Rust!PopCycle \/ Rust!PopExpand
       \/ Rust!PushChild \/ Rust!LocationReturn \/ Rust!Finish
    /\ UNCHANGED callback

-----------------------------------------------------------------------------
(* Python code: custom decoders and what they call *)

\* The decoder of a location runs while `build_location` waits for it; that of a key
\* runs between two calls of `location`.
InPython == ~InRust \/ (pc = "resources" /\ Python!KeyDecoderRuns)

\* The outermost frame is a `build_location` that waits for its decoder.
Waiting == Len(frames) = 1 /\ asker = "table"

\* Seeded fault: the Python code below a decoder has a cache of its own.
NestedCall_PrivateCache ==
    /\ InPython
    /\ \E o \in Offset : Python!CallEnter_Rebuilds(o)
    /\ UNCHANGED <<pc, stack>>

\* A decoder, or a call below it, asks for a location and gets it, or starts on it.
NestedCall ==
    /\ InPython
    /\ \E o \in Offset : Python!CallCached(o) \/ Python!CallEnter(o)
    /\ UNCHANGED <<pc, stack>>

NestedDecoder ==
    /\ InPython
    /\ \/ Python!DataIsCustom
       \/ \E o \in Offset : Python!DecoderPuts(o) \/ Python!DecoderRemoves(o)
    /\ UNCHANGED <<pc, stack>>

NestedReturn ==
    /\ ~InRust
    /\ ~Waiting
    /\ Python!ReturnLocation
    /\ UNCHANGED <<pc, stack>>

\* Seeded fault: the stack is dropped although a decoder caught the exception.
NestedRaise_Drops ==
    /\ InPython
    /\ \/ \E o \in Offset : Python!CallTooDeep(o) \/ Python!CallDamaged(o)
       \/ Python!DataUnsupported
       \/ Python!DecoderRaises
    /\ pc' = "resources"
    /\ pending' = <<>> /\ active' = {} /\ frame' = 0 /\ child' = 0

\* An exception no decoder catches goes through the waiting `build_location` and ends
\* the parse; one that is caught leaves Rust waiting.
NestedRaise ==
    /\ InPython
    /\ \/ \E o \in Offset : Python!CallTooDeep(o) \/ Python!CallDamaged(o)
       \/ Python!DataUnsupported
       \/ Python!DecoderRaises
    /\ IF outcome' = "running"
       THEN UNCHANGED <<pc, stack>>
       ELSE /\ pc' = "resources"
            /\ pending' = <<>> /\ active' = {} /\ frame' = 0 /\ child' = 0

\* Seeded fault: the entry is put back instead of being done with.
CallbackReturn_Reexpands ==
    /\ Waiting
    /\ pending # <<>>
    /\ pending' = [pending EXCEPT ![Len(pending)].expanded = FALSE]
    /\ frames' = <<>>
    /\ UNCHANGED <<catalog, serial, objects, links, results, outcome,
                   pc, active, frame, child, given, asker, value, calls>>

\* The outermost decoder returns: the location is constructed from what was
\* collected before it ran, and cached, whether or not it is cached by now.
CallbackReturn ==
    /\ Waiting
    /\ Python!Top.phase = "custom"
    /\ Python!Construct(frames[1].offset, frames[1].got)
    /\ BuildReturns(frames[1].offset)
    /\ frames' = <<>>
    /\ UNCHANGED <<catalog, results, outcome, given, asker, value, calls>>

Next ==
    \/ LocationReady \/ PopBuild \/ RustStep
    \/ NestedCall \/ NestedDecoder \/ NestedReturn \/ NestedRaise \/ CallbackReturn

Spec == Init /\ [][Next]_vars

-----------------------------------------------------------------------------
(* Properties *)

TypeOK ==
    /\ CatalogTypeOK
    /\ serial \in Nat
    /\ objects \in [Offset -> 0..serial]
    /\ links \in [Offset -> Seq(1..serial)]
    /\ results \in Seq(1..serial)
    /\ outcome \in {"running", "done", "read", "unsupported", "cycle", "missing", "recursion", "custom"}
    /\ limit \in Nat \ {0}
    /\ custom \subseteq Offset
    /\ keyed \in BOOLEAN
    /\ frames \in Seq(Python!Frame)
    /\ Len(frames) <= limit
    /\ asker \in {"table", "key"}
    /\ calls \in [made : 0..MaxCalls, strayed : BOOLEAN, wrote : SUBSET Python!Writes]
    /\ value = 0  \* the table is Rust's
    /\ pc \in {"resources", "loop"}
    /\ pending \in Seq(Rust!Entry)
    /\ active \in SUBSET Offset
    /\ frame \in 0..Len(pending)
    /\ child \in Nat

\* See LocationGraph.
SharedIdentity == Promise!SharedIdentity

\* What native/src/binary.rs:240 says of the shared cache: it preserves identity across
\* the two traversals, when no decoder writes an entry of a location itself.
UnwrittenIdentity == calls.wrote = {} => SharedIdentity

\* Over one cache, Rust's stack and the Python calls of custom decoders give every
\* reference the same object, and decode all of what they accept, whatever is caught
\* half-way, as long as no decoder writes an entry itself or asks for a location that
\* leads back to one being decoded; nothing in the code prevents it from doing so.
DisciplinedIdentity == ~calls.strayed => SharedIdentity
DisciplinedDecoding == ~calls.strayed => Promise!AcceptsOnlyDecodable

\* Whatever custom decoders of locations and keys ask for, catch and add to the cache,
\* two entries of the key table with the same offset are given the same object, and
\* it is the one the cache ends up with, unless a decoder overwrote an entry.
RequestsShareObjects ==
    calls.wrote \subseteq {"added"} =>
        \A k \in 1..Len(results) : results[k] = objects[roots[k]]

\* Whatever custom decoders ask for, catch and put into the cache while an entry waits
\* on Rust's stack, no dependency and no root is found missing when its turn comes:
\* neither "missing decoded dependency" nor "missing decoded resource" is reported,
\* unless a decoder set an entry to None.
NothingMissing == "removed" \notin calls.wrote => outcome \notin {"missing", "panic"}

\* A decoder may build a location Rust is expanding, which then stays in `active`
\* for the rest of the call; that is never mistaken for a cycle of the graph, unless
\* a decoder sets an entry to None and the location comes up again.
CycleIsReal == "removed" \notin calls.wrote => Rust!CycleIsReal

-----------------------------------------------------------------------------
(* Why they hold: the inductive invariant. *)

\* Rust's stack stays in order while decoders add to the cache and overwrite entries;
\* where it stands in `location`, it does whatever they do.
StackInv ==
    /\ Rust!ControlInv /\ Rust!FrameInv
    /\ "removed" \notin calls.wrote => Rust!EntriesInv

\* What `location` builds: the location asked for, when it has pushed nothing, and
\* that of the top entry otherwise.
Builds(o) ==
    IF pending = <<>> THEN pc = "resources" /\ o = Rust!Root
    ELSE Rust!Popping /\ Rust!Top.expanded /\ o = Rust!Top.offset

\* The outermost frame is the custom decoder that build_location waits for, or a call
\* that the decoder of a key made while nothing waits.
BridgeInv ==
    ~InRust =>
        /\ outcome = "running"
        /\ asker = "table" => /\ Len(results) < Len(roots)
                              /\ frames[1].phase = "custom"
                              /\ Builds(frames[1].offset)
        /\ asker = "key" => keyed /\ pc = "resources" /\ pending = <<>>

\* What a decoder leads to is constructed again even when it is cached by then, but
\* nothing that an entry of the key table has been given.
DeliveredInv ==
    /\ Len(results) <= Len(roots)
    /\ RequestsShareObjects
    /\ calls.wrote \subseteq {"added"} =>
          \A i \in DOMAIN frames : \A k \in 1..Len(results) : frames[i].offset # roots[k]

RegistryInv == StackInv /\ BridgeInv /\ DeliveredInv /\ NothingMissing /\ CycleIsReal

\* While no decoder has strayed, the calls below one and the cache are as in Python.
DisciplinedInv ==
    ~calls.strayed =>
        calls.wrote = {} /\ Python!CacheInv /\ Python!GotInv /\ Python!WaitingInv
=============================================================================
