----------------------- MODULE RegistryTraversalProofs -----------------------
(***************************************************************************)
(* Proofs about the Rust traversal with a registry, for every buffer,      *)
(* every dependency graph, every table of requests, every placement of     *)
(* damaged records and all that custom decoders of locations and of keys   *)
(* may do.  They compose the proofs about the two traversals, cited here   *)
(* as Stack and Recursion.                                                 *)
(***************************************************************************)
EXTENDS RegistryTraversal, SequenceTheorems, TLAPS

-----------------------------------------------------------------------------
(* The dependency graph of a catalog *)

\* The dependency array of a record, by position and as a set.
LEMMA DepsType ==
    ASSUME CatalogTypeOK, NEW x \in Offset
    PROVE  /\ deps[x] \in Seq(Offset)
           /\ Range(deps[x]) \subseteq Offset
           /\ \A i \in 1..Len(deps[x]) : deps[x][i] \in Range(deps[x])
           /\ \A d \in Range(deps[x]) : \E i \in 1..Len(deps[x]) : deps[x][i] = d
<1>1. deps[x] \in Seq(Offset)
  BY DEF CatalogTypeOK
<1>2. \A i \in 1..Len(deps[x]) : deps[x][i] \in Offset
  BY <1>1
<1>3. DOMAIN deps[x] = 1..Len(deps[x])
  BY <1>1
<1>4. QED
  BY <1>1, <1>2, <1>3 DEF Range

-----------------------------------------------------------------------------

Stack == INSTANCE NativeTraversalProofs
Recursion == INSTANCE PythonTraversalProofs

\* Sequences over a set are sequences over a larger one.
LEMMA WiderSeq ==
    ASSUME NEW S, NEW T, S \subseteq T
    PROVE  Seq(S) \subseteq Seq(T)
<1>1. \A s \in Seq(S) : \A i \in 1..Len(s) : s[i] \in T
  OBVIOUS
<1>2. QED
  BY <1>1

\* The proofs about Rust's stack are about the same catalog, stack and cache.
LEMMA StackSame ==
    /\ Stack!Root = Rust!Root
    /\ Stack!Top = Rust!Top
    /\ Stack!Popped = Rust!Popped
    /\ Stack!Popping <=> Rust!Popping
    /\ Stack!ControlInv <=> Rust!ControlInv
    /\ Stack!FrameInv <=> Rust!FrameInv
    /\ Stack!EntriesInv <=> Rust!EntriesInv
    /\ Stack!CycleIsReal <=> Rust!CycleIsReal
<1>1. /\ Stack!Root = Rust!Root
      /\ Stack!Top = Rust!Top
      /\ Stack!Popped = Rust!Popped
      /\ Stack!Popping <=> Rust!Popping
  BY DEF Stack!Root, Rust!Root, Stack!Top, Rust!Top, Stack!Popped, Rust!Popped,
     Stack!Popping, Rust!Popping
<1>2. Stack!ControlInv <=> Rust!ControlInv
  BY DEF Stack!ControlInv, Rust!ControlInv, Stack!Root, Rust!Root, Stack!IsCached, Rust!IsCached
<1>3. Stack!EntriesInv <=> Rust!EntriesInv
  BY DEF Stack!EntriesInv, Rust!EntriesInv, Stack!SharedActiveInv, Rust!SharedActiveInv,
     Stack!FrameInv, Rust!FrameInv, Stack!WaitingInv, Rust!WaitingInv, Stack!PathInv,
     Rust!PathInv, Stack!ReachInv, Rust!ReachInv, Stack!ExpandedEntries, Rust!ExpandedEntries,
     Stack!Dep, Rust!Dep, Stack!IsCached, Rust!IsCached, Stack!Root, Rust!Root,
     Stack!Reach, Rust!Reach, Stack!Closed, Rust!Closed, Stack!Children, Rust!Children,
     Stack!Range, Rust!Range
<1>4. Stack!CycleIsReal <=> Rust!CycleIsReal
  BY DEF Stack!CycleIsReal, Rust!CycleIsReal, Stack!Promise!CycleIsReal, Rust!Promise!CycleIsReal,
     Stack!Promise!Root, Rust!Promise!Root, Stack!Promise!Reach, Rust!Promise!Reach,
     Stack!Promise!Closed, Rust!Promise!Closed, Stack!Promise!Children, Rust!Promise!Children,
     Stack!Promise!Range, Rust!Promise!Range, Stack!Promise!Stuck, Rust!Promise!Stuck
<1>5. Stack!FrameInv <=> Rust!FrameInv
  BY DEF Stack!FrameInv, Rust!FrameInv, Stack!ExpandedEntries, Rust!ExpandedEntries,
     Stack!Dep, Rust!Dep
<1>6. QED
  BY <1>1, <1>2, <1>3, <1>4, <1>5

\* And after a step.
LEMMA StackSameNext ==
    /\ Stack!ControlInv' <=> Rust!ControlInv'
    /\ Stack!FrameInv' <=> Rust!FrameInv'
    /\ Stack!EntriesInv' <=> Rust!EntriesInv'
    /\ Stack!CycleIsReal' <=> Rust!CycleIsReal'
<1>1. Stack!ControlInv' <=> Rust!ControlInv'
  BY DEF Stack!ControlInv, Rust!ControlInv, Stack!Root, Rust!Root, Stack!IsCached, Rust!IsCached
<1>2. Stack!EntriesInv' <=> Rust!EntriesInv'
  BY DEF Stack!EntriesInv, Rust!EntriesInv, Stack!SharedActiveInv, Rust!SharedActiveInv,
     Stack!FrameInv, Rust!FrameInv, Stack!WaitingInv, Rust!WaitingInv, Stack!PathInv,
     Rust!PathInv, Stack!ReachInv, Rust!ReachInv, Stack!ExpandedEntries, Rust!ExpandedEntries,
     Stack!Dep, Rust!Dep, Stack!IsCached, Rust!IsCached, Stack!Root, Rust!Root,
     Stack!Reach, Rust!Reach, Stack!Closed, Rust!Closed, Stack!Children, Rust!Children,
     Stack!Range, Rust!Range
<1>3. Stack!CycleIsReal' <=> Rust!CycleIsReal'
  BY DEF Stack!CycleIsReal, Rust!CycleIsReal, Stack!Promise!CycleIsReal, Rust!Promise!CycleIsReal,
     Stack!Promise!Root, Rust!Promise!Root, Stack!Promise!Reach, Rust!Promise!Reach,
     Stack!Promise!Closed, Rust!Promise!Closed, Stack!Promise!Children, Rust!Promise!Children,
     Stack!Promise!Range, Rust!Promise!Range, Stack!Promise!Stuck, Rust!Promise!Stuck
<1>4. Stack!FrameInv' <=> Rust!FrameInv'
  BY DEF Stack!FrameInv, Rust!FrameInv, Stack!ExpandedEntries, Rust!ExpandedEntries,
     Stack!Dep, Rust!Dep
<1>5. QED
  BY <1>1, <1>2, <1>3, <1>4

\* Where no decoder is called, a step is one of a parse without a registry.
LEMMA RustStepSame ==
    ASSUME RustStep
    PROVE  Stack!Next
<1> USE DEF Stack!Calling, Rust!Calling, Stack!Popping, Rust!Popping, Stack!Root, Rust!Root,
            Stack!Top, Rust!Top, Stack!Popped, Rust!Popped, Stack!IsCached, Rust!IsCached,
            Stack!Fail, Rust!Fail, Stack!Ready, Rust!Ready, Stack!Range, Rust!Range,
            Stack!catalog, Rust!catalog, Stack!decoded, Rust!decoded,
            Stack!location, Rust!location
<1>1. /\ Rust!LocationCached => Stack!LocationCached
      /\ Rust!LocationTruncated => Stack!LocationTruncated
      /\ Rust!LocationStart => Stack!LocationStart
      /\ Rust!LocationReturn => Stack!LocationReturn
      /\ Rust!Finish => Stack!Finish
  BY DEF Stack!LocationCached, Rust!LocationCached, Stack!LocationTruncated,
     Rust!LocationTruncated, Stack!LocationStart, Rust!LocationStart, Stack!LocationReturn,
     Rust!LocationReturn, Stack!Finish, Rust!Finish
<1>2. /\ Rust!PopCached => Stack!PopCached
      /\ Rust!PopTruncated => Stack!PopTruncated
      /\ Rust!PopCycle => Stack!PopCycle
      /\ Rust!PopExpand => Stack!PopExpand
      /\ Rust!PushChild => Stack!PushChild
  BY DEF Stack!PopCached, Rust!PopCached, Stack!PopTruncated, Rust!PopTruncated,
     Stack!PopCycle, Rust!PopCycle, Stack!PopExpand, Rust!PopExpand, Stack!PushChild,
     Rust!PushChild
<1>3. QED
  BY <1>1, <1>2 DEF RustStep, Stack!Next

\* The state of the composition, as the proofs about either traversal see it.
LEMMA StackTyped ==
    ASSUME TypeOK, outcome \notin {"recursion", "custom"}
    PROVE  Stack!TypeOK
<1>1. 1..serial \subseteq Nat /\ 0..serial \subseteq Nat
  BY DEF TypeOK
<1>2. Seq(1..serial) \subseteq Seq(Nat)
  BY <1>1, WiderSeq
<1>3. /\ serial \in Nat
      /\ objects \in [Offset -> Nat]
      /\ links \in [Offset -> Seq(Nat)]
      /\ results \in Seq(Nat)
  BY <1>1, <1>2 DEF TypeOK
<1>4. CatalogTypeOK <=> Stack!CatalogTypeOK
  BY DEF CatalogTypeOK, Stack!CatalogTypeOK, FaultKind, Stack!FaultKind
<1>5. /\ outcome \in {"running", "done", "read", "unsupported", "cycle", "panic", "missing"}
      /\ pc \in {"resources", "loop"}
      /\ active \in SUBSET Offset
      /\ child \in Nat
  BY DEF TypeOK
<1>6. frame \in Nat
  <2>1. Len(pending) \in Nat /\ frame \in 0..Len(pending)
    BY DEF TypeOK
  <2>2. QED
    BY <2>1
<1>7. pending \in Seq(Stack!Entry)
  BY DEF TypeOK, Stack!Entry, Rust!Entry
<1>8. QED
  BY <1>3, <1>4, <1>5, <1>6, <1>7 DEF TypeOK, Stack!TypeOK

\* The same for the proofs about the calls below a decoder.
LEMMA RecursionTyped ==
    ASSUME TypeOK, outcome \in {"running", "done"}
    PROVE  Recursion!TypeOK
<1>1. CatalogTypeOK <=> Recursion!CatalogTypeOK
  BY DEF CatalogTypeOK, Recursion!CatalogTypeOK, FaultKind, Recursion!FaultKind
<1>2. frames \in Seq(Recursion!Frame)
  BY DEF TypeOK, Recursion!Frame, Python!Frame
<1>3. value \in 0..serial
  BY DEF TypeOK
<1>4. Recursion!Writes = Python!Writes
  BY DEF Recursion!Writes, Python!Writes
<1>5. QED
  BY <1>1, <1>2, <1>3, <1>4 DEF TypeOK, Recursion!TypeOK

\* What custom decoders do, and the calls below them, is as in the Python traversal.
LEMMA RecursionSame ==
    /\ Python!KeyDecoderRuns <=> Recursion!KeyDecoderRuns
    /\ Python!DecoderRaises <=> Recursion!DecoderRaises
    /\ \A o \in Offset : Python!DecoderPuts(o) <=> Recursion!DecoderPuts(o)
    /\ \A o \in Offset : Python!DecoderRemoves(o) <=> Recursion!DecoderRemoves(o)
    /\ \A o \in Offset : Python!CallTooDeep(o) <=> Recursion!CallTooDeep(o)
    /\ \A o \in Offset : Python!CallCached(o) <=> Recursion!CallCached(o)
    /\ \A o \in Offset : Python!CallDamaged(o) <=> Recursion!CallDamaged(o)
    /\ \A o \in Offset : Python!CallEnter(o) <=> Recursion!CallEnter(o)
    /\ Python!DataUnsupported <=> Recursion!DataUnsupported
    /\ Python!DataIsCustom <=> Recursion!DataIsCustom
    /\ Python!ReturnLocation <=> Recursion!ReturnLocation
    /\ \A o \in Offset : \A got : Python!Construct(o, got) <=> Recursion!Construct(o, got)
<1> USE DEF Python!Root, Recursion!Root, Python!Top, Recursion!Top, Python!Outer,
            Recursion!Outer, Python!InProgress, Recursion!InProgress, Python!IsCached,
            Recursion!IsCached, Python!Raise, Recursion!Raise, Python!Receive,
            Recursion!Receive, Python!catalog, Recursion!catalog, Python!decoded,
            Recursion!decoded, Python!given, Recursion!given, Python!Construct,
            Recursion!Construct, Python!HasDependencies, Recursion!HasDependencies,
            Python!LocationDecoderRuns, Recursion!LocationDecoderRuns,
            Python!KeyDecoderRuns, Recursion!KeyDecoderRuns
<1>1. ASSUME NEW o \in Offset
      PROVE  Python!Calls(o) <=> Recursion!Calls(o)
  BY DEF Python!Calls, Recursion!Calls, Python!ResourcesCalls, Recursion!ResourcesCalls,
     Python!DependencyCalls, Recursion!DependencyCalls, Python!CustomDecoderCalls,
     Recursion!CustomDecoderCalls, Python!Reach, Recursion!Reach, Python!Closed,
     Recursion!Closed, Python!Children, Recursion!Children, Python!Range, Recursion!Range
<1>2. ASSUME NEW o \in Offset
      PROVE  /\ Python!CallTooDeep(o) <=> Recursion!CallTooDeep(o)
             /\ Python!CallCached(o) <=> Recursion!CallCached(o)
             /\ Python!CallDamaged(o) <=> Recursion!CallDamaged(o)
             /\ Python!CallEnter(o) <=> Recursion!CallEnter(o)
  BY <1>1 DEF Python!CallTooDeep, Recursion!CallTooDeep, Python!CallCached,
     Recursion!CallCached, Python!CallDamaged, Recursion!CallDamaged, Python!CallEnter,
     Recursion!CallEnter
<1>3. /\ Python!DataUnsupported <=> Recursion!DataUnsupported
      /\ Python!DataIsCustom <=> Recursion!DataIsCustom
      /\ Python!ReturnLocation <=> Recursion!ReturnLocation
  BY DEF Python!DataUnsupported, Recursion!DataUnsupported, Python!DataIsCustom,
     Recursion!DataIsCustom, Python!ReturnLocation, Recursion!ReturnLocation
<1>4. /\ Python!DecoderRaises <=> Recursion!DecoderRaises
      /\ \A o \in Offset : Python!DecoderPuts(o) <=> Recursion!DecoderPuts(o)
      /\ \A o \in Offset : Python!DecoderRemoves(o) <=> Recursion!DecoderRemoves(o)
  BY DEF Python!DecoderRaises, Recursion!DecoderRaises, Python!DecoderPuts,
     Recursion!DecoderPuts, Python!DecoderRemoves, Recursion!DecoderRemoves,
     Python!WritesCache, Recursion!WritesCache
<1>5. QED
  BY <1>2, <1>3, <1>4

\* So are the invariants of the calls and the cache, before and after a step.
LEMMA CallsSame ==
    /\ Python!CacheInv <=> Recursion!CacheInv
    /\ Python!GotInv <=> Recursion!GotInv
    /\ Python!WaitingInv <=> Recursion!WaitingInv
    /\ Python!CacheInv' <=> Recursion!CacheInv'
    /\ Python!GotInv' <=> Recursion!GotInv'
    /\ Python!WaitingInv' <=> Recursion!WaitingInv'
BY DEF Python!CacheInv, Recursion!CacheInv, Python!GotInv, Recursion!GotInv,
   Python!WaitingInv, Recursion!WaitingInv, Python!IsCached, Recursion!IsCached,
   Python!Dep, Recursion!Dep, Python!Range, Recursion!Range, Python!Reach, Recursion!Reach,
   Python!Closed, Recursion!Closed, Python!Children, Recursion!Children

-----------------------------------------------------------------------------
(* What each step does. *)

\* The frames by position, and what they hold.
LEMMA FrameFacts ==
    ASSUME TypeOK, outcome = "running"
    PROVE  /\ Len(frames) \in Nat
           /\ DOMAIN frames = 1..Len(frames)
           /\ (frames = <<>> <=> Len(frames) = 0)
           /\ \A i \in 1..Len(frames) : /\ frames[i].offset \in Offset
                                        /\ frames[i].got \in Seq(1..serial)
<1>1. Recursion!TypeOK
  BY RecursionTyped
<1>2. QED
  BY <1>1, Recursion!FrameFacts, GraphAssumption, RegistryAssumption
  DEF FaultKind, Recursion!FaultKind

\* `location` builds a location only once everything it depends on is cached, unless a
\* decoder removed some of it.
LEMMA BuildStep ==
    ASSUME TypeOK, StackInv, LocationReady \/ PopBuild
    PROVE  \E o \in Offset :
              /\ InRust /\ outcome = "running" /\ Len(results) < Len(roots)
              /\ Builds(o) /\ BuildLocation(o)
              /\ objects[o] = 0 /\ fault[o] # "record"
              /\ "removed" \notin calls.wrote => \A d \in Range(deps[o]) : objects[d] # 0
<1>1. \A o \in Offset : Range(deps[o]) \subseteq Offset
  BY DepsType DEF TypeOK
<1>2. CASE LocationReady
  <2>1. /\ InRust /\ outcome = "running" /\ Len(results) < Len(roots) /\ pc = "resources"
        /\ objects[Rust!Root] = 0 /\ fault[Rust!Root] # "record"
        /\ Rust!Ready(Rust!Root) /\ BuildLocation(Rust!Root)
    BY <1>2 DEF LocationReady, Rust!Calling, Rust!IsCached
  <2>2. pending = <<>>
    BY <2>1 DEF StackInv, Rust!ControlInv
  <2>3. Rust!Root \in Offset
    BY <2>1 DEF Rust!Root, TypeOK, CatalogTypeOK
  <2>4. \A d \in Range(deps[Rust!Root]) : objects[d] # 0
    BY <1>1, <2>1, <2>3 DEF Rust!Ready, Rust!IsCached, Rust!Range, Range
  <2>5. QED
    BY <2>1, <2>2, <2>3, <2>4 DEF Builds
<1>3. CASE PopBuild
  <2>1. /\ InRust /\ Rust!Popping /\ Rust!Top.expanded /\ BuildLocation(Rust!Top.offset)
        /\ objects[Rust!Top.offset] = 0 /\ fault[Rust!Top.offset] # "record"
    BY <1>3 DEF PopBuild, Rust!IsCached
  <2>2. /\ outcome = "running" /\ pending # <<>> /\ Len(results) < Len(roots)
    BY <2>1 DEF Rust!Popping, StackInv, Rust!ControlInv
  <2>3. Stack!TypeOK /\ Stack!Popping /\ Stack!Top.expanded
    BY <2>1, <2>2, StackTyped, StackSame
  <2>4. Rust!Top.offset \in Offset
    <3>1. Stack!Top \in Stack!Entry
      BY <2>3, Stack!PopType, GraphAssumption DEF FaultKind, Stack!FaultKind
    <3>2. QED
      BY <3>1, StackSame DEF Stack!Entry
  <2>5. ASSUME "removed" \notin calls.wrote
        PROVE  \A d \in Stack!Range(deps[Stack!Top.offset]) : Stack!IsCached(d)
    <3>1. Stack!EntriesInv
      BY <2>5, StackSame DEF StackInv
    <3>2. QED
      BY <2>3, <3>1, Stack!TopIsReady, GraphAssumption DEF FaultKind, Stack!FaultKind
  <2>6. "removed" \notin calls.wrote => \A d \in Range(deps[Rust!Top.offset]) : objects[d] # 0
    BY <1>1, <2>4, <2>5, StackSame DEF Stack!Range, Range, Stack!IsCached
  <2>7. QED
    BY <2>1, <2>2, <2>4, <2>6 DEF Builds
<1>4. QED
  BY <1>2, <1>3

\* What is collected for a location to be built is in the cache.
LEMMA CollectedType ==
    ASSUME TypeOK, NEW o \in Offset, \A d \in Range(deps[o]) : d \in Offset /\ objects[d] # 0
    PROVE  /\ Collected(o) \in Seq(1..serial)
           /\ Len(Collected(o)) = Len(deps[o])
           /\ \A k \in 1..Len(deps[o]) : Collected(o)[k] = objects[deps[o][k]]
<1>1. deps[o] \in Seq(Offset) /\ \A k \in 1..Len(deps[o]) : deps[o][k] \in Range(deps[o])
  BY DepsType DEF TypeOK
<1>2. \A k \in 1..Len(deps[o]) : objects[deps[o][k]] \in 1..serial
  <2>1. serial \in Nat /\ objects \in [Offset -> 0..serial]
    BY DEF TypeOK
  <2>2. \A x \in Offset : objects[x] # 0 => objects[x] \in 1..serial
    BY <2>1
  <2>3. QED
    BY <1>1, <2>2
<1>3. Len(deps[o]) \in Nat
  BY <1>1
<1>4. QED
  BY <1>2, <1>3 DEF Collected

\* What constructing a location from cached ones writes.
LEMMA ConstructType ==
    ASSUME TypeOK, NEW o \in Offset, NEW got \in Seq(1..serial), Recursion!Construct(o, got)
    PROVE  /\ serial' = serial + 1
           /\ objects' \in [Offset -> 0..serial']
           /\ links' \in [Offset -> Seq(1..serial')]
           /\ objects'[o] # 0
           /\ \A x \in Offset : x # o => objects'[x] = objects[x]
           /\ \A x \in Offset : objects[x] # 0 => objects'[x] # 0
           /\ Seq(1..serial) \subseteq Seq(1..serial')
<1>1. /\ serial' = serial + 1 /\ serial \in Nat
      /\ objects' = [objects EXCEPT ![o] = serial + 1]
      /\ links' = [links EXCEPT ![o] = got]
      /\ objects \in [Offset -> 0..serial] /\ links \in [Offset -> Seq(1..serial)]
  BY DEF Recursion!Construct, TypeOK
<1>2. 1..serial \subseteq 1..serial' /\ 0..serial \subseteq 0..serial'
  BY <1>1
<1>3. Seq(1..serial) \subseteq Seq(1..serial')
  BY <1>2, WiderSeq
<1>4. objects' \in [Offset -> 0..serial'] /\ links' \in [Offset -> Seq(1..serial')]
  BY <1>1, <1>2, <1>3
<1>5. QED
  BY <1>1, <1>3, <1>4

\* Decoders leave Rust's stack alone, and it stays in order whatever they add to the
\* cache or overwrite there.
LEMMA GrowStack ==
    ASSUME TypeOK, StackInv, outcome = "running", pending = <<>> => pc = "resources",
           UNCHANGED <<catalog, results, outcome, pc, stack>>,
           calls.wrote \subseteq calls'.wrote,
           "removed" \notin calls'.wrote => \A x \in Offset : objects[x] # 0 => objects'[x] # 0
    PROVE  StackInv'
<1>1. Stack!TypeOK /\ Stack!ControlInv /\ Stack!FrameInv
  BY StackTyped, StackSame DEF StackInv
<1>2. UNCHANGED <<Stack!catalog, results, Stack!location>>
  BY DEF catalog, stack, Stack!catalog, Stack!location
<1>3. ASSUME "removed" \notin calls'.wrote
      PROVE  Stack!EntriesInv'
  <2>1. Stack!EntriesInv
    BY <1>3, StackSame DEF StackInv
  <2>2. \A x \in Offset : Stack!IsCached(x) => Stack!IsCached(x)'
    BY <1>3 DEF Stack!IsCached
  <2>3. QED
    BY <1>1, <1>2, <2>1, <2>2, Stack!GrowEntries, GraphAssumption DEF FaultKind, Stack!FaultKind
<1>4. /\ pending' = pending /\ pc' = pc /\ outcome' = outcome /\ results' = results
      /\ roots' = roots /\ deps' = deps /\ frame' = frame /\ child' = child
  BY DEF stack, catalog
<1>5. Stack!ControlInv'
  BY <1>1, <1>4 DEF Stack!ControlInv, Stack!Root
<1>6. Stack!FrameInv'
  BY <1>1, <1>4 DEF Stack!FrameInv, Stack!ExpandedEntries, Stack!Dep
<1>7. QED
  BY <1>3, <1>5, <1>6, StackSameNext DEF StackInv

\* An error leaves an empty stack.
LEMMA EmptyStack ==
    ASSUME outcome' # "running", outcome' # "done", outcome' # "cycle",
           pc' = "resources", pending' = <<>>, active' = {}, frame' = 0, child' = 0
    PROVE  StackInv'
<1>1. Stack!EntriesInv'
  BY Stack!ClearedEntries, GraphAssumption DEF FaultKind, Stack!FaultKind, Stack!Cleared
<1>2. Stack!ControlInv' /\ Stack!FrameInv'
  BY DEF Stack!ControlInv, Stack!FrameInv
<1>3. QED
  BY <1>1, <1>2, StackSameNext DEF StackInv

\* When build_location returns, the location is cached and its entry is dropped.
LEMMA BuildKeepsStack ==
    ASSUME TypeOK, StackInv, outcome = "running", Len(results) < Len(roots),
           NEW o \in Offset, Builds(o), BuildReturns(o), objects'[o] # 0,
           \A x \in Offset : objects[x] # 0 => objects'[x] # 0,
           UNCHANGED <<catalog, results, outcome, calls>>
    PROVE  StackInv'
<1>1. /\ Stack!TypeOK /\ Stack!ControlInv /\ Stack!FrameInv
      /\ "removed" \notin calls.wrote => Stack!EntriesInv
      /\ \A x \in Offset : Stack!IsCached(x) => Stack!IsCached(x)'
  BY StackTyped, StackSame DEF StackInv, Stack!IsCached
<1>2. CASE pending = <<>>
  <2>1. /\ pending' = <<>> /\ frame' = frame /\ child' = child /\ active' \subseteq active
        /\ pc = "resources" /\ o = Rust!Root /\ pc' = "loop"
    BY <1>2 DEF Builds, BuildReturns
  <2>2. frame = 0 /\ child = 0
    BY <1>1, <1>2, Stack!NoFrame, GraphAssumption DEF FaultKind, Stack!FaultKind
  <2>3. ASSUME "removed" \notin calls.wrote
        PROVE  \A x \in active : x \in Offset /\ objects[x] # 0
    <3>1. Stack!ExpandedEntries = {}
      BY <1>2 DEF Stack!ExpandedEntries
    <3>2. active \subseteq Offset
      BY DEF TypeOK
    <3>3. QED
      BY <1>1, <2>3, <3>1, <3>2 DEF Stack!EntriesInv, Stack!SharedActiveInv, Stack!IsCached
  <2>4. "removed" \notin calls.wrote => Stack!Cleared'
    BY <2>1, <2>2, <2>3 DEF Stack!Cleared, Stack!IsCached
  <2>5. "removed" \notin calls.wrote => Stack!EntriesInv'
    BY <2>4, Stack!ClearedEntries, GraphAssumption DEF FaultKind, Stack!FaultKind
  <2>6. Stack!Root' = o
    BY <2>1 DEF Stack!Root, Rust!Root, catalog
  <2>7. Stack!ControlInv'
    BY <2>1, <2>6 DEF Stack!ControlInv, Stack!IsCached, catalog
  <2>8. Stack!FrameInv'
    BY <2>1, <2>2 DEF Stack!FrameInv
  <2>9. QED
    BY <2>5, <2>7, <2>8, StackSameNext DEF StackInv
<1>3. CASE pending # <<>>
  <2>1. /\ Stack!Popping /\ Stack!Top.expanded /\ o = Stack!Top.offset
        /\ pending' = Stack!Popped /\ active' = active \ {Stack!Top.offset}
        /\ frame' = frame /\ child' = child /\ pc' = "loop" /\ pc = "loop"
    BY <1>3, StackSame DEF Builds, BuildReturns, Rust!Popping
  <2>2. UNCHANGED <<Stack!catalog, results, frame, child>>
    BY <2>1 DEF catalog, Stack!catalog
  <2>3. objects'[Stack!Top.offset] # 0
    BY <2>1
  <2>4. ASSUME "removed" \notin calls.wrote
        PROVE  Stack!EntriesInv'
    <3>1. Stack!EntriesInv
      BY <1>1, <2>4
    <3>2. QED
      BY <1>1, <2>1, <2>2, <2>3, <3>1, Stack!PopEntries, GraphAssumption
      DEF FaultKind, Stack!FaultKind
  <2>5. UNCHANGED <<Stack!catalog, results, outcome, pc>>
    BY <2>1, <2>2
  <2>6. Stack!ControlInv'
    BY <1>1, <2>1, <2>3, <2>5, Stack!PopControl, GraphAssumption DEF FaultKind, Stack!FaultKind
  <2>7. Stack!FrameInv'
    <3>1. frame = 0 /\ child = 0
      BY <1>1, <2>1, Stack!NoFrame, GraphAssumption DEF FaultKind, Stack!FaultKind, Stack!Popping
    <3>2. QED
      BY <2>1, <3>1 DEF Stack!FrameInv
  <2>8. QED
    BY <2>4, <2>6, <2>7, StackSameNext DEF StackInv
<1>4. QED
  BY <1>2, <1>3

-----------------------------------------------------------------------------
(* What custom decoders do. *)

\* What may be constructed, without an entry of the key table having been given it:
\* a location that is not cached, or one a call in progress is decoding.
Undelivered(x) == objects[x] = 0 \/ \E i \in DOMAIN frames : frames[i].offset = x

\* What a step of a decoder, or of a call below it, leaves of the cache and of the
\* calls in progress; in particular the outermost call, unless it returns.
DecoderStep ==
    /\ UNCHANGED <<catalog, given, results, outcome>>
    /\ value' = 0
    /\ calls.wrote \subseteq calls'.wrote
    /\ "removed" \notin calls'.wrote =>
          \A x \in Offset : objects[x] # 0 => objects'[x] # 0
    /\ calls'.wrote \subseteq {"added"} =>
          \A x \in Offset : objects'[x] = objects[x] \/ Undelivered(x)
    /\ \A i \in DOMAIN frames' :
          frames'[i].offset \in Offset /\ Undelivered(frames'[i].offset)
    /\ frames # <<>> /\ frames' # <<>> =>
          /\ frames'[1].offset = frames[1].offset
          /\ frames[1].phase = "custom" => frames'[1].phase = "custom"

\* An entry of the key table keeps the object it was given as long as only such
\* locations are constructed, and only their decoding is begun.
LEMMA DeliveredKeeps ==
    ASSUME TypeOK, DeliveredInv, UNCHANGED <<catalog, results>>,
           calls.wrote \subseteq calls'.wrote,
           calls'.wrote \subseteq {"added"} =>
              \A x \in Offset : objects'[x] = objects[x] \/ Undelivered(x),
           \A i \in DOMAIN frames' :
              frames'[i].offset \in Offset /\ Undelivered(frames'[i].offset)
    PROVE  DeliveredInv'
<1>1. /\ roots' = roots /\ results' = results /\ Len(results) <= Len(roots)
      /\ Len(results) \in Nat /\ roots \in Seq(Offset)
  BY DEF catalog, DeliveredInv, TypeOK, CatalogTypeOK
<1>2. ASSUME calls'.wrote \subseteq {"added"}
      PROVE  /\ \A k \in 1..Len(results) : results[k] = objects'[roots[k]]
             /\ \A i \in DOMAIN frames' : \A k \in 1..Len(results) : frames'[i].offset # roots[k]
  <2>1. calls.wrote \subseteq {"added"}
    BY <1>2
  <2>2. \A k \in 1..Len(results) : results[k] # 0 /\ results[k] = objects[roots[k]]
    BY <2>1 DEF DeliveredInv, RequestsShareObjects, TypeOK
  <2>3. \A k \in 1..Len(results) : roots[k] \in Offset /\ ~Undelivered(roots[k])
    BY <1>1, <2>1, <2>2 DEF Undelivered, DeliveredInv
  <2>4. \A k \in 1..Len(results) : results[k] = objects'[roots[k]]
    BY <1>2, <2>2, <2>3
  <2>5. QED
    BY <2>3, <2>4
<1>3. QED
  BY <1>1, <1>2 DEF DeliveredInv, RequestsShareObjects

\* The frames after a step that leaves the cache: those of a step ago, and perhaps the
\* call of a location that is not cached.
LEMMA FramesKeep ==
    ASSUME TypeOK, outcome = "running",
           UNCHANGED <<catalog, given, serial, objects, links, results, outcome>>,
           value' = 0, calls'.wrote = calls.wrote,
           NEW l \in Nat, frames' = <<>> <=> l = 0, DOMAIN frames' = 1..l,
           \A i \in 1..l :
              \/ /\ i \in 1..Len(frames) /\ frames'[i].offset = frames[i].offset
                 /\ frames'[i].phase \in {frames[i].phase, "custom"}
              \/ /\ i = Len(frames) + 1
                 /\ frames'[i].offset \in Offset /\ objects[frames'[i].offset] = 0
    PROVE  DecoderStep
<1>1. /\ Len(frames) \in Nat /\ DOMAIN frames = 1..Len(frames)
      /\ (frames = <<>> <=> Len(frames) = 0)
      /\ \A i \in 1..Len(frames) : frames[i].offset \in Offset /\ Undelivered(frames[i].offset)
  BY FrameFacts DEF Undelivered
<1>2. \A i \in DOMAIN frames' : frames'[i].offset \in Offset /\ Undelivered(frames'[i].offset)
  BY <1>1 DEF Undelivered
<1>3. ASSUME frames # <<>>, frames' # <<>>
      PROVE  /\ frames'[1].offset = frames[1].offset
             /\ frames[1].phase = "custom" => frames'[1].phase = "custom"
  BY <1>1, <1>3
<1>4. QED
  BY <1>2, <1>3 DEF DecoderStep

\* A call of a cached location leaves the calls in progress.
LEMMA CachedCallStep ==
    ASSUME TypeOK, outcome = "running", frames # <<>> \/ asker' = "key",
           NEW o \in Offset, Recursion!CallCached(o)
    PROVE  DecoderStep
<1>1. /\ UNCHANGED <<catalog, given, serial, objects, links, results, outcome>>
      /\ value' = 0 /\ objects[o] # 0 /\ calls'.wrote = calls.wrote
      /\ frames' = Recursion!Receive(frames, objects[o])
  BY DEF Recursion!CallCached, Recursion!IsCached, Recursion!decoded, Recursion!catalog, catalog,
     Recursion!given, given, Recursion!Calls, Recursion!ResourcesCalls,
     Recursion!DependencyCalls, Recursion!CustomDecoderCalls, TypeOK
<1>2. frames \in Seq(Recursion!FrameOf(serial))
  BY RecursionTyped, Recursion!FrameFacts, GraphAssumption, RegistryAssumption
  DEF FaultKind, Recursion!FaultKind
<1>3. serial \in Nat /\ objects[o] \in 1..serial
  BY <1>1 DEF TypeOK
<1>4. /\ frames' \in Seq(Recursion!FrameOf(serial)) /\ Len(frames') = Len(frames)
      /\ \A i \in 1..Len(frames) : /\ frames'[i].offset = frames[i].offset
                                   /\ frames'[i].phase = frames[i].phase
  BY <1>1, <1>2, <1>3, Recursion!ReceiveFacts, GraphAssumption, RegistryAssumption
  DEF FaultKind, Recursion!FaultKind
<1>5. /\ Len(frames) \in Nat /\ DOMAIN frames' = 1..Len(frames)
      /\ (frames' = <<>> <=> Len(frames) = 0)
  BY <1>4, FrameFacts
<1>6. QED
  BY <1>1, <1>4, <1>5, FramesKeep

\* A call of another one is a call in progress more.
LEMMA EnterStep ==
    ASSUME TypeOK, outcome = "running", NEW o \in Offset, Recursion!CallEnter(o)
    PROVE  DecoderStep
<1>1. /\ UNCHANGED <<catalog, given, serial, objects, links, results, outcome, value>>
      /\ objects[o] = 0 /\ calls'.wrote = calls.wrote
      /\ frames' = Append(frames, [offset |-> o, got |-> <<>>, phase |-> "dependencies"])
  BY DEF Recursion!CallEnter, Recursion!IsCached, Recursion!decoded, Recursion!catalog, catalog,
     Recursion!given, given, Recursion!Calls, Recursion!ResourcesCalls,
     Recursion!DependencyCalls, Recursion!CustomDecoderCalls, TypeOK
<1>2. frames \in Seq(Python!Frame) /\ Len(frames) \in Nat
  BY DEF TypeOK
<1>3. /\ DOMAIN frames' = 1..Len(frames) + 1 /\ frames' # <<>>
      /\ \A i \in 1..Len(frames) : frames'[i] = frames[i]
      /\ frames'[Len(frames) + 1].offset = o
  BY <1>1, <1>2
<1>4. \A i \in 1..Len(frames) + 1 : i \in 1..Len(frames) \/ i = Len(frames) + 1
  BY <1>2
<1>5. /\ Len(frames) + 1 \in Nat /\ Len(frames) + 1 # 0 /\ value' = 0
      /\ \A i \in 1..Len(frames) + 1 :
            \/ /\ i \in 1..Len(frames) /\ frames'[i].offset = frames[i].offset
               /\ frames'[i].phase \in {frames[i].phase, "custom"}
            \/ /\ i = Len(frames) + 1
               /\ frames'[i].offset \in Offset /\ objects[frames'[i].offset] = 0
  BY <1>1, <1>2, <1>3, <1>4 DEF TypeOK
<1>6. QED
  BY <1>1, <1>3, <1>5, FramesKeep

\* A decoder that begins below another one changes what its call waits for.
LEMMA CustomStep ==
    ASSUME TypeOK, outcome = "running", Recursion!DataIsCustom
    PROVE  DecoderStep
<1>1. /\ UNCHANGED <<catalog, given, serial, objects, links, results, outcome, value, calls>>
      /\ frames # <<>>
      /\ frames' = [frames EXCEPT ![Len(frames)].phase = "custom"]
  BY DEF Recursion!DataIsCustom, Recursion!HasDependencies, Recursion!decoded,
     Recursion!catalog, catalog, Recursion!given, given
<1>2. frames \in Seq(Python!Frame) /\ Len(frames) \in Nat \ {0}
  BY <1>1, FrameFacts DEF TypeOK
<1>3. /\ DOMAIN frames' = 1..Len(frames) /\ frames' # <<>>
      /\ \A i \in 1..Len(frames) : i # Len(frames) => frames'[i] = frames[i]
      /\ frames'[Len(frames)] = [frames[Len(frames)] EXCEPT !.phase = "custom"]
  BY <1>1, <1>2
<1>4. frames[Len(frames)] \in Python!Frame
  BY <1>2
<1>5. /\ frames'[Len(frames)].offset = frames[Len(frames)].offset
      /\ frames'[Len(frames)].phase = "custom"
  BY <1>3, <1>4 DEF Python!Frame
<1>6. value' = 0 /\ calls'.wrote = calls.wrote
  BY <1>1 DEF TypeOK
<1>7. \A i \in 1..Len(frames) : /\ frames'[i].offset = frames[i].offset
                                /\ frames'[i].phase \in {frames[i].phase, "custom"}
  BY <1>3, <1>5
<1>8. QED
  BY <1>1, <1>2, <1>3, <1>6, <1>7, FramesKeep

\* An exception that is caught ends the calls down to the decoder that catches it.
LEMMA CaughtStep ==
    ASSUME TypeOK, outcome = "running", NEW error, Recursion!Raise(error), outcome' = "running",
           calls'.wrote = calls.wrote
    PROVE  DecoderStep
<1>1. UNCHANGED <<catalog, given, serial, objects, links, results, outcome, value>>
  BY DEF Recursion!Raise, Recursion!decoded, Recursion!catalog, catalog, Recursion!given, given
<1>2. PICK l \in 0..Len(frames) :
              /\ frames' \in Seq(Recursion!FrameOf(serial))
              /\ Len(frames') = l
              /\ \A j \in 1..l : frames'[j] = frames[j]
  BY RecursionTyped, Recursion!RaiseFrames, GraphAssumption, RegistryAssumption
  DEF FaultKind, Recursion!FaultKind
<1>3. l \in Nat /\ \A j \in 1..l : j \in 1..Len(frames)
  BY FrameFacts
<1>4. DOMAIN frames' = 1..l /\ (frames' = <<>> <=> l = 0)
  BY <1>2
<1>5. value' = 0
  BY <1>1 DEF TypeOK
<1>6. QED
  BY <1>1, <1>2, <1>3, <1>4, <1>5, FramesKeep

\* A decoder writes the cache itself, and the calls in progress go on.
LEMMA WriteStep ==
    ASSUME TypeOK, outcome = "running", NEW o \in Offset,
           Recursion!DecoderPuts(o) \/ Recursion!DecoderRemoves(o)
    PROVE  DecoderStep
<1>1. UNCHANGED <<catalog, given, results, outcome, frames, value>>
  BY DEF Recursion!DecoderPuts, Recursion!DecoderRemoves, Recursion!WritesCache,
     Recursion!catalog, catalog, Recursion!given, given
<1>2. PICK v \in Nat, w \in {"added", "replaced", "removed"} :
        /\ objects' = [objects EXCEPT ![o] = v]
        /\ calls'.wrote = calls.wrote \cup {w}
        /\ w # "removed" => v # 0
        /\ w = "added" => objects[o] = 0
  <2>1. CASE Recursion!DecoderPuts(o)
    <3>1. /\ objects' = [objects EXCEPT ![o] = serial + 1]
          /\ calls'.wrote = calls.wrote \cup {IF objects[o] # 0 THEN "replaced" ELSE "added"}
          /\ serial + 1 \in Nat /\ serial + 1 # 0
      BY <2>1 DEF Recursion!DecoderPuts, Recursion!IsCached, TypeOK
    <3>2. CASE objects[o] = 0
      BY <3>1, <3>2
    <3>3. CASE objects[o] # 0
      <4>1. /\ calls'.wrote = calls.wrote \cup {"replaced"}
            /\ "replaced" # "removed" => serial + 1 # 0
            /\ "replaced" = "added" => objects[o] = 0
        BY <3>1, <3>3
      <4>2. QED
        BY <3>1, <4>1
    <3>4. QED
      BY <3>2, <3>3
  <2>2. CASE Recursion!DecoderRemoves(o)
    <3>1. /\ objects' = [objects EXCEPT ![o] = 0]
          /\ calls'.wrote = calls.wrote \cup {"removed"}
          /\ "removed" # "removed" => 0 # 0
          /\ "removed" = "added" => objects[o] = 0
      BY <2>2 DEF Recursion!DecoderRemoves, TypeOK
    <3>2. 0 \in Nat
      OBVIOUS
    <3>3. QED
      BY <3>1, <3>2
  <2>3. QED
    BY <2>1, <2>2
<1>3. DOMAIN objects = Offset
  BY DEF TypeOK
<1>4. /\ objects'[o] = v
      /\ \A x \in Offset : x # o => objects'[x] = objects[x]
  BY <1>2, <1>3
<1>5. /\ "removed" \notin calls'.wrote => v # 0
      /\ calls'.wrote \subseteq {"added"} => objects[o] = 0
  BY <1>2
<1>6. /\ "removed" \notin calls'.wrote =>
            \A x \in Offset : objects[x] # 0 => objects'[x] # 0
      /\ calls'.wrote \subseteq {"added"} =>
            \A x \in Offset : objects'[x] = objects[x] \/ Undelivered(x)
  BY <1>4, <1>5 DEF Undelivered
<1>7. /\ value' = 0 /\ calls.wrote \subseteq calls'.wrote
      /\ \A i \in DOMAIN frames' :
            frames'[i].offset \in Offset /\ Undelivered(frames'[i].offset)
  BY <1>1, <1>2, FrameFacts DEF Undelivered, TypeOK
<1>8. QED
  BY <1>1, <1>6, <1>7 DEF DecoderStep

\* A return below a decoder ends the innermost call, and constructs its location.
LEMMA ReturnStep ==
    ASSUME TypeOK, outcome = "running", frames # <<>>, Len(frames) # 1 \/ asker # "table",
           Recursion!ReturnLocation
    PROVE  DecoderStep
<1>1. /\ UNCHANGED <<catalog, given, results, outcome, asker, calls>>
      /\ Recursion!Construct(Recursion!Top.offset, Recursion!Top.got)
      /\ value' = IF Recursion!Outer = <<>> /\ asker = "table" THEN serial + 1 ELSE 0
      /\ frames' = Recursion!Receive(Recursion!Outer, serial + 1)
  BY DEF Recursion!ReturnLocation, Recursion!catalog, catalog, Recursion!given, given
<1>2. Recursion!TypeOK /\ Len(frames) \in Nat \ {0} /\ DOMAIN frames = 1..Len(frames)
  BY RecursionTyped, FrameFacts
<1>3. /\ Recursion!Top = frames[Len(frames)]
      /\ Recursion!Top.offset \in Offset /\ Recursion!Top.got \in Seq(1..serial)
      /\ Recursion!Outer \in Seq(Recursion!FrameOf(serial))
      /\ Len(Recursion!Outer) = Len(frames) - 1
      /\ \A i \in 1..Len(frames) - 1 : Recursion!Outer[i] = frames[i]
      /\ (Recursion!Outer = <<>> <=> Len(frames) = 1)
  BY <1>2, Recursion!TopFacts, GraphAssumption, RegistryAssumption
  DEF FaultKind, Recursion!FaultKind
<1>4. /\ serial \in Nat /\ serial + 1 \in Nat /\ serial <= serial + 1
      /\ serial + 1 \in 1..(serial + 1)
  BY DEF TypeOK
<1>5. Recursion!Outer \in Seq(Recursion!FrameOf(serial + 1))
  <2>1. Seq(Recursion!FrameOf(serial)) \subseteq Seq(Recursion!FrameOf(serial + 1))
    BY <1>4, Recursion!WiderFrames, GraphAssumption, RegistryAssumption
    DEF FaultKind, Recursion!FaultKind
  <2>2. QED
    BY <1>3, <2>1
<1>6. /\ frames' \in Seq(Recursion!FrameOf(serial + 1))
      /\ Len(frames') = Len(frames) - 1
      /\ \A i \in 1..Len(frames) - 1 : /\ frames'[i].offset = frames[i].offset
                                       /\ frames'[i].phase = frames[i].phase
  <2>1. /\ frames' \in Seq(Recursion!FrameOf(serial + 1))
        /\ Len(frames') = Len(Recursion!Outer)
        /\ \A i \in 1..Len(Recursion!Outer) :
              /\ frames'[i].offset = Recursion!Outer[i].offset
              /\ frames'[i].phase = Recursion!Outer[i].phase
    BY <1>1, <1>4, <1>5, Recursion!ReceiveFacts, GraphAssumption, RegistryAssumption
    DEF FaultKind, Recursion!FaultKind
  <2>2. QED
    BY <1>3, <2>1
<1>7. /\ DOMAIN frames' = 1..Len(frames) - 1
      /\ \A i \in 1..Len(frames) - 1 : i \in 1..Len(frames)
      /\ frames' # <<>> => 1 \in 1..Len(frames) - 1
  BY <1>2, <1>6
<1>8. \A i \in 1..Len(frames) : frames[i].offset \in Offset /\ Undelivered(frames[i].offset)
  BY <1>2, FrameFacts DEF Undelivered
<1>9. /\ \A x \in Offset : x # Recursion!Top.offset => objects'[x] = objects[x]
      /\ \A x \in Offset : objects[x] # 0 => objects'[x] # 0
  BY <1>1, <1>3, ConstructType
<1>10. \A x \in Offset : objects'[x] = objects[x] \/ Undelivered(x)
  BY <1>2, <1>3, <1>8, <1>9
<1>11. value' = 0
  BY <1>1, <1>3
<1>12. /\ \A i \in DOMAIN frames' :
             frames'[i].offset \in Offset /\ Undelivered(frames'[i].offset)
       /\ frames' # <<>> => /\ frames'[1].offset = frames[1].offset
                            /\ frames'[1].phase = frames[1].phase
  BY <1>6, <1>7, <1>8
<1>13. QED
  BY <1>1, <1>9, <1>10, <1>11, <1>12 DEF DecoderStep

\* A step of the Python code below Rust that does not end the parse.
NestedStep ==
    \/ NestedCall \/ NestedDecoder \/ NestedReturn
    \/ NestedRaise /\ outcome' = "running"

\* Where the decoder of a key runs there is nothing on Rust's stack; the calls that
\* one decoder is responsible for stay with it.
LEMMA AskerFacts ==
    ASSUME TypeOK, StackInv, BridgeInv, NestedStep \/ NestedRaise
    PROVE  /\ outcome = "running"
           /\ Recursion!Next
           /\ frames # <<>> => asker' = asker
           /\ frames = <<>> => asker' = "key" /\ keyed /\ pc = "resources" /\ pending = <<>>
<1>1. \/ \E o \in Offset : \/ Recursion!CallCached(o) \/ Recursion!CallEnter(o)
                           \/ Recursion!CallTooDeep(o) \/ Recursion!CallDamaged(o)
      \/ \E o \in Offset : Recursion!DecoderPuts(o) \/ Recursion!DecoderRemoves(o)
      \/ Recursion!DataIsCustom \/ Recursion!DataUnsupported \/ Recursion!DecoderRaises
      \/ Recursion!ReturnLocation
  BY RecursionSame DEF NestedStep, NestedCall, NestedDecoder, NestedReturn, NestedRaise
<1>2. outcome = "running" /\ (frames # <<>> => asker' = asker)
  BY <1>1
  DEF Recursion!CallCached, Recursion!CallEnter, Recursion!CallTooDeep, Recursion!CallDamaged,
      Recursion!Calls, Recursion!ResourcesCalls, Recursion!DependencyCalls,
      Recursion!CustomDecoderCalls, Recursion!LocationDecoderRuns, Recursion!KeyDecoderRuns,
      Recursion!DecoderPuts, Recursion!DecoderRemoves, Recursion!WritesCache,
      Recursion!DataIsCustom, Recursion!DataUnsupported, Recursion!DecoderRaises,
      Recursion!ReturnLocation, Recursion!HasDependencies
<1>3. ASSUME frames = <<>>
      PROVE  asker' = "key" /\ keyed /\ pc = "resources" /\ pending = <<>>
  <2>1. pc = "resources" /\ asker' = "key" /\ keyed
    BY <1>3 DEF NestedStep, NestedCall, NestedDecoder, NestedReturn, NestedRaise, InPython,
       InRust, Python!KeyDecoderRuns
  <2>2. QED
    BY <2>1 DEF StackInv, Rust!ControlInv
<1>4. QED
  BY <1>1, <1>2, <1>3 DEF Recursion!Next

\* What every step below Rust leaves: Rust's stack, and all that entries of the key
\* table have been given unless a decoder overwrites it.
LEMMA NestedFacts ==
    ASSUME TypeOK, StackInv, BridgeInv, NestedStep
    PROVE  DecoderStep /\ UNCHANGED <<pc, stack>>
<1>1. /\ outcome = "running"
      /\ frames # <<>> \/ asker' = "key"
  BY AskerFacts
<1>2. CASE NestedCall
  BY <1>1, <1>2, RecursionSame, CachedCallStep, EnterStep DEF NestedCall
<1>3. CASE NestedDecoder
  BY <1>1, <1>3, RecursionSame, CustomStep, WriteStep DEF NestedDecoder
<1>4. CASE NestedReturn
  <2>1. Recursion!ReturnLocation /\ frames # <<>> /\ (Len(frames) # 1 \/ asker # "table")
        /\ UNCHANGED <<pc, stack>>
    BY <1>4, RecursionSame DEF NestedReturn, InRust, Waiting
  <2>2. QED
    BY <1>1, <2>1, ReturnStep
<1>5. CASE NestedRaise /\ outcome' = "running"
  <2>1. UNCHANGED <<pc, stack>>
    BY <1>5 DEF NestedRaise
  <2>2. PICK error : Recursion!Raise(error) /\ calls'.wrote = calls.wrote
    BY <1>5, RecursionSame
    DEF NestedRaise, Recursion!CallTooDeep, Recursion!CallDamaged, Recursion!DataUnsupported,
        Recursion!DecoderRaises, Recursion!Calls, Recursion!ResourcesCalls,
        Recursion!DependencyCalls, Recursion!CustomDecoderCalls, TypeOK
  <2>3. QED
    BY <1>1, <1>5, <2>1, <2>2, CaughtStep
<1>6. QED
  BY <1>2, <1>3, <1>4, <1>5 DEF NestedStep

-----------------------------------------------------------------------------
(* The invariant of the composition is inductive. *)

\* The three ways `location` goes on with a location whose turn it is.
LEMMA BuildCases ==
    ASSUME TypeOK, NEW o \in Offset, BuildLocation(o), fault[o] # "record",
           "removed" \notin calls.wrote => \A d \in Range(deps[o]) : objects[d] # 0
    PROVE  \/ /\ o \in custom /\ fault[o] = "none"
              /\ \A d \in Range(deps[o]) : d \in Offset /\ objects[d] # 0
              /\ frames' = <<[offset |-> o, got |-> Collected(o), phase |-> "custom"]>>
              /\ asker' = "table"
              /\ UNCHANGED <<catalog, serial, objects, links, results, outcome,
                             pc, stack, given, value, calls>>
           \/ /\ fault[o] = "none"
              /\ \A d \in Range(deps[o]) : d \in Offset /\ objects[d] # 0
              /\ Recursion!Construct(o, Collected(o))
              /\ BuildReturns(o)
              /\ UNCHANGED <<catalog, results, outcome, callback>>
           \/ /\ outcome' \in {"read", "unsupported", "missing"}
              /\ "removed" \notin calls.wrote => outcome' # "missing"
              /\ pc' = "resources" /\ pending' = <<>> /\ active' = {}
              /\ frame' = 0 /\ child' = 0
              /\ UNCHANGED <<catalog, serial, objects, links, results, callback>>
<1>1. /\ BuildOutcome(o) \in {"read", "missing", "unsupported", "running"}
      /\ BuildOutcome(o) = "missing" => "removed" \in calls.wrote
  BY DEF BuildOutcome
<1>2. BuildOutcome(o) = "running" =>
          fault[o] = "none" /\ \A d \in Range(deps[o]) : d \in Offset /\ objects[d] # 0
  BY DepsType DEF BuildOutcome, TypeOK, CatalogTypeOK, FaultKind
<1>3. CASE BuildOutcome(o) # "running"
  <2>1. Rust!Fail(BuildOutcome(o)) /\ UNCHANGED callback
    BY <1>3 DEF BuildLocation
  <2>2. QED
    BY <1>1, <1>3, <2>1 DEF Rust!Fail, Rust!catalog, Rust!decoded, catalog
<1>4. CASE BuildOutcome(o) = "running"
  <2>1. Python!Construct(o, Collected(o)) <=> Recursion!Construct(o, Collected(o))
    BY RecursionSame
  <2>2. QED
    BY <1>2, <1>4, <2>1 DEF BuildLocation
<1>5. QED
  BY <1>3, <1>4

\* A location that is built is a cached one from now on, and the stack goes on without it.
LEMMA BuildTyped ==
    ASSUME TypeOK, NEW o \in Offset, NEW got \in Seq(1..serial),
           Recursion!Construct(o, got), BuildReturns(o), frame = 0,
           UNCHANGED <<catalog, results, outcome, given, asker, value, calls>>, frames' = <<>>
    PROVE  TypeOK'
<1>1. /\ serial' \in Nat
      /\ objects' \in [Offset -> 0..serial']
      /\ links' \in [Offset -> Seq(1..serial')]
      /\ results' \in Seq(1..serial')
  <2>1. serial' = serial + 1 /\ serial \in Nat
    BY ConstructType DEF TypeOK
  <2>2. results \in Seq(1..serial) /\ results' = results
    BY DEF TypeOK
  <2>3. QED
    BY <2>1, <2>2, ConstructType
<1>2. /\ pc' \in {"resources", "loop"}
      /\ active' \in SUBSET Offset
      /\ child' \in Nat
  BY DEF BuildReturns, TypeOK
<1>3. pending' \in Seq(Rust!Entry)
  <2>1. pending \in Seq(Rust!Entry)
    BY DEF TypeOK
  <2>2. ASSUME pending # <<>>
        PROVE  SubSeq(pending, 1, Len(pending) - 1) \in Seq(Rust!Entry)
    BY <2>1, <2>2
  <2>3. QED
    BY <2>1, <2>2 DEF BuildReturns, Rust!Popped
<1>4. frame' \in 0..Len(pending')
  <2>1. Len(pending') \in Nat
    BY <1>3
  <2>2. frame' = 0
    BY DEF BuildReturns
  <2>3. QED
    BY <2>1, <2>2
<1>5. frames' \in Seq(Python!Frame')
  OBVIOUS
<1>6. /\ CatalogTypeOK' /\ outcome' = outcome
      /\ limit' \in Nat \ {0} /\ custom' \subseteq Offset /\ keyed' \in BOOLEAN
      /\ asker' \in {"table", "key"} /\ value' = 0
      /\ calls' \in [made : 0..MaxCalls, strayed : BOOLEAN, wrote : SUBSET Python!Writes]
  BY DEF TypeOK, CatalogTypeOK, catalog, given
<1>7. QED
  BY <1>1, <1>2, <1>3, <1>4, <1>5, <1>6 DEF TypeOK

\* Where a location is built, no dependencies are being pushed.
LEMMA BuildFrame ==
    ASSUME TypeOK, StackInv, outcome = "running", NEW o, Builds(o)
    PROVE  frame = 0
<1>1. CASE pending = <<>>
  BY <1>1, StackSame, Stack!NoFrame, GraphAssumption DEF FaultKind, Stack!FaultKind, StackInv
<1>2. CASE pending # <<>>
  BY <1>2 DEF Builds, Rust!Popping
<1>3. QED
  BY <1>1, <1>2

\* An exception ends the parse with an empty stack and no call in progress.
LEMMA FailTyped ==
    ASSUME TypeOK, UNCHANGED <<catalog, given, serial, objects, links, results, value>>,
           outcome' \in {"read", "unsupported", "missing", "recursion", "custom"},
           pc' = "resources", pending' = <<>>, active' = {}, frame' = 0, child' = 0,
           frames' = <<>>, asker' \in {"table", "key"},
           calls' \in [made : 0..MaxCalls, strayed : BOOLEAN, wrote : SUBSET Python!Writes]
    PROVE  TypeOK'
<1>1. /\ serial' \in Nat
      /\ objects' \in [Offset -> 0..serial']
      /\ links' \in [Offset -> Seq(1..serial')]
      /\ results' \in Seq(1..serial')
      /\ limit' \in Nat \ {0} /\ custom' \subseteq Offset /\ keyed' \in BOOLEAN /\ value' = 0
  BY DEF TypeOK, given
<1>2. /\ pending' \in Seq(Rust!Entry) /\ frame' \in 0..Len(pending')
      /\ active' \in SUBSET Offset /\ child' \in Nat
  OBVIOUS
<1>3. frames' \in Seq(Python!Frame') /\ Len(frames') = 0
  OBVIOUS
<1>4. CatalogTypeOK'
  BY DEF TypeOK, CatalogTypeOK, catalog
<1>5. QED
  BY <1>1, <1>2, <1>3, <1>4 DEF TypeOK

\* Only Rust reports a cycle or a location it misses.
LEMMA OutcomeKeeps ==
    ASSUME outcome' \in {"running", "read", "unsupported", "missing", "recursion", "custom"},
           "removed" \notin calls'.wrote => outcome' # "missing"
    PROVE  NothingMissing' /\ CycleIsReal'
<1>1. Stack!CycleIsReal'
  BY DEF Stack!CycleIsReal, Stack!Promise!CycleIsReal
<1>2. QED
  BY <1>1, StackSameNext DEF NothingMissing, CycleIsReal

\* An exception keeps the invariant.
LEMMA FailKeeps ==
    ASSUME TypeOK, DeliveredInv, ~calls.strayed' => ~calls.strayed, calls'.wrote = calls.wrote,
           DisciplinedInv, UNCHANGED <<catalog, given, serial, objects, links, results>>,
           outcome' \in {"read", "unsupported", "missing", "recursion", "custom"},
           "removed" \notin calls.wrote => outcome' # "missing",
           pc' = "resources", pending' = <<>>, active' = {}, frame' = 0, child' = 0,
           frames' = <<>>
    PROVE  RegistryInv' /\ DisciplinedInv'
<1>1. StackInv'
  BY EmptyStack
<1>2. BridgeInv'
  BY DEF BridgeInv, InRust
<1>3. DeliveredInv'
  BY DEF DeliveredInv, RequestsShareObjects, catalog
<1>4. NothingMissing' /\ CycleIsReal'
  BY OutcomeKeeps
<1>5. ASSUME ~calls.strayed'
      PROVE  calls'.wrote = {} /\ Python!CacheInv' /\ Python!GotInv' /\ Python!WaitingInv'
  <2>1. Recursion!CacheInv /\ calls'.wrote = {}
    BY <1>5, CallsSame DEF DisciplinedInv
  <2>2. Recursion!CacheInv'
    BY <2>1 DEF Recursion!CacheInv, Recursion!IsCached, Recursion!Range, catalog
  <2>3. Recursion!GotInv' /\ Recursion!WaitingInv'
    BY DEF Recursion!GotInv, Recursion!WaitingInv
  <2>4. QED
    BY <2>1, <2>2, <2>3, CallsSame
<1>6. QED
  BY <1>1, <1>2, <1>3, <1>4, <1>5 DEF RegistryInv, DisciplinedInv

\* A location that build_location constructs, before or after a decoder has run,
\* keeps the invariant: what it replaces has not been given to an entry of the key table.
LEMMA BuildKeeps ==
    ASSUME TypeOK, StackInv, DeliveredInv, outcome = "running",
           Len(results) < Len(roots), NEW o \in Offset, Builds(o), Undelivered(o),
           NEW got \in Seq(1..serial), Recursion!Construct(o, got), BuildReturns(o),
           UNCHANGED <<catalog, results, outcome, given, asker, value, calls>>, frames' = <<>>
    PROVE  TypeOK' /\ RegistryInv'
<1>1. /\ objects'[o] # 0
      /\ \A x \in Offset : x # o => objects'[x] = objects[x]
      /\ \A x \in Offset : objects[x] # 0 => objects'[x] # 0
  BY ConstructType
<1>2. TypeOK'
  BY BuildFrame, BuildTyped
<1>3. StackInv'
  BY <1>1, BuildKeepsStack
<1>4. BridgeInv'
  BY DEF BridgeInv, InRust
<1>5. DeliveredInv'
  BY <1>1, DeliveredKeeps
<1>6. NothingMissing' /\ CycleIsReal'
  BY OutcomeKeeps
<1>7. QED
  BY <1>2, <1>3, <1>4, <1>5, <1>6 DEF RegistryInv

\* The location is constructed without a decoder.
LEMMA PlainBuild ==
    ASSUME TypeOK, RegistryInv, DisciplinedInv, InRust, outcome = "running",
           Len(results) < Len(roots), NEW o \in Offset, Builds(o),
           objects[o] = 0, fault[o] = "none",
           \A d \in Range(deps[o]) : d \in Offset /\ objects[d] # 0,
           Recursion!Construct(o, Collected(o)), BuildReturns(o),
           UNCHANGED <<catalog, results, outcome, callback>>
    PROVE  TypeOK' /\ RegistryInv' /\ DisciplinedInv'
<1>1. /\ UNCHANGED <<catalog, results, outcome, given, asker, value, calls>> /\ frames' = <<>>
      /\ Undelivered(o) /\ Collected(o) \in Seq(1..serial)
  BY CollectedType DEF callback, InRust, Undelivered
<1>2. TypeOK' /\ RegistryInv'
  BY <1>1, BuildKeeps DEF RegistryInv
<1>3. ASSUME ~calls.strayed'
      PROVE  calls'.wrote = {} /\ Python!CacheInv' /\ Python!GotInv' /\ Python!WaitingInv'
  <2>1. Recursion!TypeOK /\ Recursion!CacheInv /\ calls'.wrote = {}
    BY <1>1, <1>3, RecursionTyped, CallsSame DEF DisciplinedInv
  <2>2. /\ ~Recursion!IsCached(o) /\ UNCHANGED Recursion!catalog
        /\ \A d \in Recursion!Range(deps[o]) : Recursion!IsCached(d)
        /\ Recursion!Construct(o, [k \in 1..Len(deps[o]) |-> objects[deps[o][k]]])
    BY <1>1 DEF Recursion!IsCached, Recursion!Range, Range, Recursion!catalog, catalog, Collected
  <2>3. Recursion!CacheInv'
    BY <2>1, <2>2, Recursion!ConstructKeepsCache, GraphAssumption, RegistryAssumption
    DEF FaultKind, Recursion!FaultKind
  <2>4. Recursion!GotInv' /\ Recursion!WaitingInv'
    BY <1>1 DEF Recursion!GotInv, Recursion!WaitingInv
  <2>5. QED
    BY <2>1, <2>3, <2>4, CallsSame
<1>4. QED
  BY <1>2, <1>3 DEF DisciplinedInv

\* A decoder is called for the location: it starts with all dependencies collected.
LEMMA CustomBuild ==
    ASSUME TypeOK, RegistryInv, DisciplinedInv, InRust, outcome = "running",
           Len(results) < Len(roots), NEW o \in Offset, Builds(o),
           objects[o] = 0, fault[o] = "none", o \in custom,
           \A d \in Range(deps[o]) : d \in Offset /\ objects[d] # 0,
           frames' = <<[offset |-> o, got |-> Collected(o), phase |-> "custom"]>>,
           asker' = "table",
           UNCHANGED <<catalog, serial, objects, links, results, outcome,
                       pc, stack, given, value, calls>>
    PROVE  TypeOK' /\ RegistryInv' /\ DisciplinedInv'
<1> DEFINE f == [offset |-> o, got |-> Collected(o), phase |-> "custom"]
<1>1. /\ Collected(o) \in Seq(1..serial)
      /\ Len(Collected(o)) = Len(deps[o])
      /\ \A k \in 1..Len(deps[o]) : Collected(o)[k] = objects[deps[o][k]]
  BY CollectedType
<1>2. f \in Python!Frame /\ f.offset = o /\ f.got = Collected(o) /\ f.phase = "custom"
  BY <1>1 DEF Python!Frame
<1> HIDE DEF f
<1>3. /\ frames' = <<f>> /\ frames' # <<>> /\ Len(frames') = 1
      /\ DOMAIN frames' = 1..1 /\ frames'[1] = f
  BY DEF f
<1>4. TypeOK'
  <2>1. frames' \in Seq(Python!Frame)
    BY <1>2, <1>3
  <2>2. Python!Frame' = Python!Frame
    BY DEF Python!Frame
  <2>3. limit \in Nat \ {0} /\ limit' = limit
    BY DEF TypeOK, given
  <2>4. Len(frames') <= limit'
    BY <1>3, <2>3
  <2>5. QED
    BY <2>1, <2>2, <2>3, <2>4 DEF TypeOK, CatalogTypeOK, catalog, stack, given
<1>5. StackInv'
  BY GrowStack DEF RegistryInv, Builds
<1>6. BridgeInv'
  BY <1>2, <1>3 DEF BridgeInv, InRust, Builds, stack, catalog, Rust!Root, Rust!Top, Rust!Popping
<1>7. DeliveredInv'
  <2>1. \A i \in DOMAIN frames' :
           frames'[i].offset \in Offset /\ Undelivered(frames'[i].offset)
    BY <1>2, <1>3 DEF Undelivered
  <2>2. QED
    BY <2>1, DeliveredKeeps DEF RegistryInv
<1>8. NothingMissing' /\ CycleIsReal'
  BY OutcomeKeeps
<1>9. ASSUME ~calls.strayed'
      PROVE  calls'.wrote = {} /\ Python!CacheInv' /\ Python!GotInv' /\ Python!WaitingInv'
  <2>1. Recursion!CacheInv /\ calls'.wrote = {}
    BY <1>9, CallsSame DEF DisciplinedInv
  <2>2. Recursion!CacheInv'
    BY <2>1 DEF Recursion!CacheInv, Recursion!IsCached, Recursion!Range, catalog
  <2>3. Recursion!GotInv'
    BY <1>1, <1>2, <1>3 DEF Recursion!GotInv, Recursion!IsCached, Recursion!Dep, catalog, given
  <2>4. Recursion!WaitingInv'
    BY <1>3 DEF Recursion!WaitingInv
  <2>5. QED
    BY <2>1, <2>2, <2>3, <2>4, CallsSame
<1>10. QED
  BY <1>4, <1>5, <1>6, <1>7, <1>8, <1>9 DEF RegistryInv, DisciplinedInv

\* So `location` keeps the invariant when it builds, whatever comes of it.
LEMMA BuildStepKeeps ==
    ASSUME TypeOK, RegistryInv, DisciplinedInv, LocationReady \/ PopBuild
    PROVE  TypeOK' /\ RegistryInv' /\ DisciplinedInv'
<1>1. PICK o \in Offset :
              /\ InRust /\ outcome = "running" /\ Len(results) < Len(roots)
              /\ Builds(o) /\ BuildLocation(o)
              /\ objects[o] = 0 /\ fault[o] # "record"
              /\ "removed" \notin calls.wrote => \A d \in Range(deps[o]) : objects[d] # 0
  BY BuildStep DEF RegistryInv
<1>2. CASE /\ o \in custom /\ fault[o] = "none"
           /\ \A d \in Range(deps[o]) : d \in Offset /\ objects[d] # 0
           /\ frames' = <<[offset |-> o, got |-> Collected(o), phase |-> "custom"]>>
           /\ asker' = "table"
           /\ UNCHANGED <<catalog, serial, objects, links, results, outcome,
                          pc, stack, given, value, calls>>
  BY <1>1, <1>2, CustomBuild
<1>3. CASE /\ fault[o] = "none"
           /\ \A d \in Range(deps[o]) : d \in Offset /\ objects[d] # 0
           /\ Recursion!Construct(o, Collected(o))
           /\ BuildReturns(o)
           /\ UNCHANGED <<catalog, results, outcome, callback>>
  BY <1>1, <1>3, PlainBuild
<1>4. CASE /\ outcome' \in {"read", "unsupported", "missing"}
           /\ "removed" \notin calls.wrote => outcome' # "missing"
           /\ pc' = "resources" /\ pending' = <<>> /\ active' = {}
           /\ frame' = 0 /\ child' = 0
           /\ UNCHANGED <<catalog, serial, objects, links, results, callback>>
  <2>1. /\ UNCHANGED <<catalog, given, serial, objects, links, results, asker, value, calls>>
        /\ frames' = <<>>
    BY <1>1, <1>4 DEF callback, InRust
  <2>2. TypeOK'
    BY <1>4, <2>1, FailTyped DEF TypeOK
  <2>3. QED
    BY <1>4, <2>1, <2>2, FailKeeps DEF RegistryInv
<1>5. QED
  BY <1>1, <1>2, <1>3, <1>4, BuildCases

\* A decoder runs, of a location or of a key, whenever Python code runs below Rust.
LEMMA Customised ==
    ASSUME TypeOK, BridgeInv, frames # <<>>, Recursion!GotInv
    PROVE  ~Recursion!Uncustomised
<1>1. 1 \in DOMAIN frames
  BY DEF TypeOK
<1>2. CASE asker = "table"
  <2>1. frames[1].phase = "custom"
    BY <1>2 DEF BridgeInv, InRust
  <2>2. frames[1].offset \in custom
    BY <1>1, <2>1 DEF Recursion!GotInv
  <2>3. QED
    BY <2>2 DEF Recursion!Uncustomised
<1>3. CASE asker = "key"
  BY <1>3 DEF BridgeInv, InRust, Recursion!Uncustomised
<1>4. QED
  BY <1>2, <1>3 DEF TypeOK

\* What the calls below a decoder keep, as long as no decoder strays: they are calls
\* of the Python traversal, in a parse that has custom decoders.
LEMMA NestedDiscipline ==
    ASSUME TypeOK, StackInv, DisciplinedInv, BridgeInv, NestedStep, ~calls.strayed'
    PROVE  calls'.wrote = {} /\ Python!CacheInv' /\ Python!GotInv' /\ Python!WaitingInv'
<1>1. outcome = "running" /\ Recursion!Next /\ Recursion!TypeOK
  BY AskerFacts, RecursionTyped
<1>2. ~calls.strayed
  BY <1>1, Recursion!StrayedForGood, GraphAssumption, RegistryAssumption
  DEF FaultKind, Recursion!FaultKind
<1>3. Recursion!CacheInv /\ Recursion!GotInv /\ Recursion!WaitingInv /\ calls.wrote = {}
  BY <1>2, CallsSame DEF DisciplinedInv
<1>4. Recursion!CallsInv
  <2>1. frames = <<>> \/ ~Recursion!Uncustomised
    BY <1>3, Customised
  <2>2. QED
    BY <1>3, <2>1 DEF Recursion!CallsInv, Recursion!ReachInv
<1>5. Recursion!TypeOK'
  BY <1>1, Recursion!TypeStep, GraphAssumption, RegistryAssumption
  DEF FaultKind, Recursion!FaultKind
<1>6. Recursion!CacheInv'
  BY <1>1, <1>3, Recursion!CacheStep, GraphAssumption, RegistryAssumption
  DEF FaultKind, Recursion!FaultKind
<1>7. value # 0 => frames = <<>>
  BY DEF TypeOK
<1>8. Recursion!CallsInv'
  BY <1>1, <1>3, <1>4, <1>5, <1>7, Recursion!CallsStep, GraphAssumption, RegistryAssumption
  DEF FaultKind, Recursion!FaultKind
<1>9. calls'.wrote = {}
  <2>1. \A o \in Offset : ~Recursion!DecoderPuts(o) /\ ~Recursion!DecoderRemoves(o)
    BY <1>1, Recursion!WritesStray, GraphAssumption, RegistryAssumption
    DEF FaultKind, Recursion!FaultKind
  <2>2. calls'.wrote = calls.wrote
    BY <1>1, <2>1
    DEF Recursion!Next, Recursion!CallCached, Recursion!CallEnter, Recursion!CallTooDeep,
        Recursion!CallDamaged, Recursion!Calls, Recursion!ResourcesCalls,
        Recursion!DependencyCalls, Recursion!CustomDecoderCalls, Recursion!DataIsCustom,
        Recursion!DataUnsupported, Recursion!DecoderRaises, Recursion!ReturnLocation,
        Recursion!ResourcesAppend, Recursion!Finish, TypeOK
  <2>3. QED
    BY <1>3, <2>2
<1>10. QED
  BY <1>6, <1>8, <1>9, CallsSame DEF Recursion!CallsInv

\* The outermost call stays with the decoder that is responsible for it.
LEMMA NestedBridge ==
    ASSUME TypeOK, StackInv, BridgeInv, NestedStep
    PROVE  BridgeInv'
<1>1. DecoderStep /\ UNCHANGED <<pc, stack>>
  BY NestedFacts
<1>2. /\ outcome = "running"
      /\ frames # <<>> => asker' = asker
      /\ frames = <<>> => asker' = "key" /\ keyed /\ pc = "resources" /\ pending = <<>>
  BY AskerFacts
<1>3. UNCHANGED <<roots, results, pc, pending, frame, outcome, keyed>>
  BY <1>1 DEF DecoderStep, stack, catalog, given
<1>4. ASSUME frames # <<>>, asker = "table"
      PROVE  /\ Len(results) < Len(roots) /\ frames[1].phase = "custom"
             /\ Builds(frames[1].offset)
  BY <1>4 DEF BridgeInv, InRust
<1>5. ASSUME frames' # <<>>, asker' = "table"
      PROVE  /\ Len(results') < Len(roots') /\ frames'[1].phase = "custom"
             /\ Builds(frames[1].offset)' /\ frames'[1].offset = frames[1].offset
  <2>1. frames # <<>> /\ asker = "table"
    BY <1>2, <1>5
  <2>2. Builds(frames[1].offset) /\ frames'[1].offset = frames[1].offset
    BY <1>1, <1>4, <1>5, <2>1 DEF DecoderStep
  <2>3. Builds(frames[1].offset)'
    BY <1>3, <2>2 DEF Builds, Rust!Root, Rust!Top, Rust!Popping
  <2>4. QED
    BY <1>1, <1>3, <1>4, <1>5, <2>1, <2>2, <2>3 DEF DecoderStep
<1>6. ASSUME frames' # <<>>, asker' = "key"
      PROVE  keyed' /\ pc' = "resources" /\ pending' = <<>>
  BY <1>2, <1>3, <1>6 DEF BridgeInv, InRust
<1>7. QED
  BY <1>2, <1>3, <1>5, <1>6 DEF BridgeInv, InRust

\* A step below Rust that does not end the parse keeps the invariant.
LEMMA NestedStepKeeps ==
    ASSUME TypeOK, RegistryInv, DisciplinedInv, NestedStep
    PROVE  TypeOK' /\ RegistryInv' /\ DisciplinedInv'
<1>1. /\ outcome = "running" /\ Recursion!Next
      /\ DecoderStep /\ UNCHANGED <<pc, stack>>
      /\ StackInv /\ BridgeInv /\ DeliveredInv
  BY AskerFacts, NestedFacts DEF RegistryInv
<1>2. TypeOK'
  <2>1. Recursion!TypeOK'
    BY <1>1, RecursionTyped, Recursion!TypeStep, GraphAssumption, RegistryAssumption
    DEF FaultKind, Recursion!FaultKind
  <2>2. CatalogTypeOK' <=> Recursion!CatalogTypeOK'
    BY DEF CatalogTypeOK, Recursion!CatalogTypeOK, FaultKind, Recursion!FaultKind
  <2>3. frames' \in Seq(Python!Frame')
    BY <2>1 DEF Recursion!TypeOK, Recursion!Frame, Python!Frame
  <2>4. /\ outcome' = "running"
        /\ value' = 0
        /\ pc' \in {"resources", "loop"}
        /\ pending' \in Seq(Rust!Entry)
        /\ active' \in SUBSET Offset
        /\ frame' \in 0..Len(pending')
        /\ child' \in Nat
    BY <1>1 DEF DecoderStep, TypeOK, stack
  <2>5. /\ serial' \in Nat
        /\ objects' \in [Offset -> 0..serial']
        /\ links' \in [Offset -> Seq(1..serial')]
        /\ results' \in Seq(1..serial')
        /\ limit' \in Nat \ {0}
        /\ custom' \subseteq Offset
        /\ keyed' \in BOOLEAN
        /\ Len(frames') <= limit'
        /\ asker' \in {"table", "key"}
        /\ calls' \in [made : 0..MaxCalls, strayed : BOOLEAN, wrote : SUBSET Python!Writes]
    BY <2>1 DEF Recursion!TypeOK, Recursion!Writes, Python!Writes
  <2>6. QED
    BY <2>1, <2>2, <2>3, <2>4, <2>5 DEF TypeOK, Recursion!TypeOK, Rust!Entry
<1>3. StackInv'
  <2>1. pending = <<>> => pc = "resources"
    <3>1. CASE frames = <<>> \/ asker = "key"
      BY <1>1, <3>1, AskerFacts DEF BridgeInv, InRust
    <3>2. CASE frames # <<>> /\ asker = "table"
      BY <1>1, <3>2 DEF BridgeInv, InRust, Builds
    <3>3. QED
      BY <3>1, <3>2 DEF TypeOK
  <2>2. QED
    BY <1>1, <2>1, GrowStack DEF DecoderStep
<1>4. BridgeInv'
  BY <1>1, NestedBridge
<1>5. DeliveredInv'
  BY <1>1, DeliveredKeeps DEF DecoderStep
<1>6. NothingMissing' /\ CycleIsReal'
  BY <1>1, OutcomeKeeps DEF DecoderStep
<1>7. DisciplinedInv'
  BY <1>1, NestedDiscipline DEF DisciplinedInv
<1>8. QED
  BY <1>2, <1>3, <1>4, <1>5, <1>6, <1>7 DEF RegistryInv

\* An exception nothing catches keeps the invariant.
LEMMA NestedRaiseKeeps ==
    ASSUME TypeOK, RegistryInv, DisciplinedInv, NestedRaise, outcome' # "running"
    PROVE  TypeOK' /\ RegistryInv' /\ DisciplinedInv'
<1>1. /\ \/ \E o \in Offset : Recursion!CallTooDeep(o) \/ Recursion!CallDamaged(o)
         \/ Recursion!DataUnsupported
         \/ Recursion!DecoderRaises
      /\ outcome = "running" /\ Recursion!Next
      /\ pc' = "resources" /\ pending' = <<>> /\ active' = {} /\ frame' = 0 /\ child' = 0
  BY RecursionSame, AskerFacts DEF NestedRaise, RegistryInv
<1>2. /\ UNCHANGED <<catalog, given, serial, objects, links, results, value>>
      /\ outcome' \in {"read", "unsupported", "recursion", "custom"} /\ frames' = <<>>
      /\ calls'.wrote = calls.wrote
  BY <1>1 DEF Recursion!CallTooDeep, Recursion!CallDamaged, Recursion!DataUnsupported,
     Recursion!DecoderRaises, Recursion!Raise, Recursion!decoded, Recursion!catalog, catalog,
     Recursion!given, given, Recursion!Calls, Recursion!ResourcesCalls,
     Recursion!DependencyCalls, Recursion!CustomDecoderCalls, TypeOK
<1>3. Recursion!TypeOK
  BY <1>1, RecursionTyped
<1>4. /\ calls' \in [made : 0..MaxCalls, strayed : BOOLEAN, wrote : SUBSET Python!Writes]
      /\ asker' \in {"table", "key"}
  <2>1. Recursion!TypeOK'
    BY <1>1, <1>3, Recursion!TypeStep, GraphAssumption, RegistryAssumption
    DEF FaultKind, Recursion!FaultKind
  <2>2. QED
    BY <2>1 DEF Recursion!TypeOK, Recursion!Writes, Python!Writes
<1>5. ~calls.strayed' => ~calls.strayed
  BY <1>1, <1>3, Recursion!StrayedForGood, GraphAssumption, RegistryAssumption
  DEF FaultKind, Recursion!FaultKind
<1>6. TypeOK'
  BY <1>1, <1>2, <1>4, FailTyped
<1>7. QED
  BY <1>1, <1>2, <1>5, <1>6, FailKeeps DEF RegistryInv

\* The outermost decoder returns, and the location it was called for is constructed.
LEMMA CallbackReturnKeeps ==
    ASSUME TypeOK, RegistryInv, DisciplinedInv, CallbackReturn
    PROVE  TypeOK' /\ RegistryInv' /\ DisciplinedInv'
<1> DEFINE o == frames[1].offset
           got == frames[1].got
<1>1. /\ Len(frames) = 1 /\ frames # <<>> /\ frames' = <<>>
      /\ Recursion!Construct(o, got) /\ BuildReturns(o)
      /\ UNCHANGED <<catalog, results, outcome, given, asker, value, calls>>
      /\ outcome = "running" /\ Len(results) < Len(roots)
      /\ frames[1].phase = "custom" /\ Builds(o)
      /\ StackInv /\ DeliveredInv
  <2>1. Len(frames) = 1 /\ frames # <<>> /\ asker = "table"
    BY DEF CallbackReturn, Waiting
  <2>2. /\ outcome = "running" /\ Len(results) < Len(roots)
        /\ frames[1].phase = "custom" /\ Builds(o)
        /\ StackInv /\ DeliveredInv
    BY <2>1 DEF RegistryInv, BridgeInv, InRust
  <2>3. o \in Offset
    BY <2>1, <2>2, FrameFacts
  <2>4. Recursion!Construct(o, got)
    BY <2>3, RecursionSame DEF CallbackReturn
  <2>5. QED
    BY <2>1, <2>2, <2>4 DEF CallbackReturn
<1>2. o \in Offset /\ got \in Seq(1..serial) /\ Undelivered(o)
  BY <1>1, FrameFacts DEF Undelivered
<1> HIDE DEF o, got
<1>3. TypeOK' /\ RegistryInv'
  BY <1>1, <1>2, BuildKeeps
<1>4. ASSUME ~calls.strayed'
      PROVE  calls'.wrote = {} /\ Python!CacheInv' /\ Python!GotInv' /\ Python!WaitingInv'
  <2>1. /\ Recursion!TypeOK /\ Recursion!CacheInv /\ Recursion!GotInv
        /\ Recursion!WaitingInv /\ calls'.wrote = {}
    BY <1>1, <1>4, RecursionTyped, CallsSame DEF DisciplinedInv
  <2>2. /\ Recursion!Top = frames[1] /\ Recursion!Top.offset = o /\ Recursion!Top.got = got
        /\ Recursion!CanReturn
    BY <1>1 DEF Recursion!Top, Recursion!CanReturn, o, got
  <2>3. /\ fault[o] = "none" /\ ~Recursion!IsCached(o)
        /\ got = [k \in 1..Len(deps[o]) |-> objects[deps[o][k]]]
        /\ \A d \in Recursion!Range(deps[o]) : Recursion!IsCached(d)
    BY <2>1, <2>2, Recursion!ReturnFacts, GraphAssumption, RegistryAssumption
    DEF FaultKind, Recursion!FaultKind
  <2>4. UNCHANGED Recursion!catalog
    BY <1>1 DEF Recursion!catalog, catalog
  <2>5. Recursion!CacheInv'
    BY <1>1, <1>2, <2>1, <2>3, <2>4, Recursion!ConstructKeepsCache,
       GraphAssumption, RegistryAssumption
    DEF FaultKind, Recursion!FaultKind
  <2>6. Recursion!GotInv' /\ Recursion!WaitingInv'
    BY <1>1 DEF Recursion!GotInv, Recursion!WaitingInv
  <2>7. QED
    BY <2>1, <2>5, <2>6, CallsSame
<1>5. QED
  BY <1>3, <1>4 DEF DisciplinedInv

-----------------------------------------------------------------------------
(* Steps of Rust that run no Python code. *)

\* What they do to the cache and to the results.
LEMMA RustStepFacts ==
    ASSUME RustStep
    PROVE  /\ outcome = "running" /\ frames = <<>>
           /\ UNCHANGED <<catalog, serial, objects, links, callback>>
           /\ \/ results' = results
              \/ /\ results' = Append(results, objects[Rust!Root])
                 /\ objects[Rust!Root] # 0
                 /\ Rust!LocationCached \/ pc = "loop"
           /\ outcome' \in {"running", "done", "read", "cycle", "missing"}
<1>1. /\ outcome = "running" /\ frames = <<>>
      /\ UNCHANGED <<catalog, serial, objects, links>>
      /\ outcome' \in {"running", "done", "read", "cycle", "missing"}
  BY DEF RustStep, InRust, Rust!LocationCached, Rust!LocationTruncated, Rust!LocationStart,
     Rust!PopCached, Rust!PopTruncated, Rust!PopCycle, Rust!PopExpand, Rust!PushChild,
     Rust!LocationReturn, Rust!Finish, Rust!Calling, Rust!Popping, Rust!Fail, Rust!decoded,
     Rust!catalog, catalog
<1>2. \/ results' = results
      \/ /\ results' = Append(results, objects[Rust!Root])
         /\ objects[Rust!Root] # 0
         /\ Rust!LocationCached \/ pc = "loop"
  BY DEF RustStep, Rust!LocationCached, Rust!LocationTruncated, Rust!LocationStart,
     Rust!PopCached, Rust!PopTruncated, Rust!PopCycle, Rust!PopExpand, Rust!PushChild,
     Rust!LocationReturn, Rust!Finish, Rust!Fail, Rust!IsCached
<1>3. QED
  BY <1>1, <1>2 DEF RustStep

\* Such a step keeps the invariant, as in a parse without a registry.
LEMMA RustStepKeeps ==
    ASSUME TypeOK, RegistryInv, DisciplinedInv, RustStep
    PROVE  TypeOK' /\ RegistryInv' /\ DisciplinedInv'
<1>1. /\ outcome = "running" /\ frames = <<>>
      /\ UNCHANGED <<catalog, serial, objects, links, given, frames, asker, value, calls>>
      /\ \/ results' = results
         \/ /\ results' = Append(results, objects[Rust!Root])
            /\ objects[Rust!Root] # 0
            /\ Rust!LocationCached \/ pc = "loop"
      /\ outcome' \in {"running", "done", "read", "cycle", "missing"}
  BY RustStepFacts DEF callback
<1>2. Stack!TypeOK /\ Stack!ControlInv /\ Stack!FrameInv /\ Stack!Next
  BY <1>1, StackTyped, StackSame, RustStepSame DEF RegistryInv, StackInv
<1>3. Stack!TypeOK' /\ Stack!ControlInv' /\ Stack!FrameInv'
  BY <1>2, Stack!TypeStep, Stack!ControlStep, Stack!FrameStep, GraphAssumption
  DEF FaultKind, Stack!FaultKind
<1>4. ASSUME "removed" \notin calls.wrote
      PROVE  Stack!EntriesInv' /\ Stack!NoPanic' /\ Stack!CycleIsReal'
  <2>1. Stack!EntriesInv /\ Stack!NoPanic /\ Stack!CycleIsReal
    BY <1>1, <1>4, StackSame
    DEF RegistryInv, StackInv, NothingMissing, CycleIsReal, Stack!NoPanic
  <2>2. QED
    BY <1>2, <2>1, Stack!EntriesStep, Stack!NoPanicStep, Stack!CycleStep, GraphAssumption
    DEF FaultKind, Stack!FaultKind
<1>5. ASSUME results' # results
      PROVE  /\ Len(results) < Len(roots) /\ Rust!Root \in Offset
             /\ objects[Rust!Root] \in 1..serial
             /\ results' = Append(results, objects[Rust!Root])
  <2>1. Len(results) < Len(roots)
    BY <1>1, <1>2, <1>5 DEF Stack!ControlInv, Rust!LocationCached, Rust!Calling
  <2>2. Rust!Root \in Offset
    BY <1>2, <2>1, StackSame, Stack!RootType, GraphAssumption DEF FaultKind, Stack!FaultKind
  <2>3. serial \in Nat /\ objects[Rust!Root] \in 0..serial
    BY <2>2 DEF TypeOK
  <2>4. QED
    BY <1>1, <1>5, <2>1, <2>2, <2>3
<1>6. results \in Seq(1..serial) /\ results' \in Seq(1..serial)
  <2>1. results \in Seq(1..serial)
    BY DEF TypeOK
  <2>2. \A v \in 1..serial : Append(results, v) \in Seq(1..serial)
    BY <2>1
  <2>3. QED
    BY <1>5, <2>1, <2>2
<1>7. TypeOK'
  <2>1. frame' \in 0..Len(pending')
    <3>1. pending' \in Seq(Stack!Entry) /\ frame' \in Nat
      BY <1>3 DEF Stack!TypeOK
    <3>2. frame' = 0 \/ frame' \in DOMAIN pending'
      BY <1>3 DEF Stack!FrameInv, Stack!ExpandedEntries
    <3>3. QED
      BY <3>1, <3>2
  <2>2. /\ pc' \in {"resources", "loop"}
        /\ pending' \in Seq(Rust!Entry)
        /\ active' \in SUBSET Offset
        /\ child' \in Nat
    BY <1>3 DEF Stack!TypeOK, Stack!Entry, Rust!Entry
  <2>3. /\ CatalogTypeOK'
        /\ serial' \in Nat
        /\ objects' \in [Offset -> 0..serial']
        /\ links' \in [Offset -> Seq(1..serial')]
        /\ limit' \in Nat \ {0}
        /\ custom' \subseteq Offset
        /\ keyed' \in BOOLEAN
        /\ frames' \in Seq(Python!Frame')
        /\ Len(frames') <= limit'
        /\ asker' \in {"table", "key"}
        /\ calls' \in [made : 0..MaxCalls, strayed : BOOLEAN, wrote : SUBSET Python!Writes]
        /\ value' = 0
    BY <1>1 DEF TypeOK, CatalogTypeOK, catalog, given, Python!Frame
  <2>4. QED
    BY <1>1, <1>6, <2>1, <2>2, <2>3 DEF TypeOK
<1>8. StackInv'
  BY <1>1, <1>3, <1>4, StackSameNext DEF StackInv
<1>9. BridgeInv'
  BY <1>1 DEF BridgeInv, InRust
<1>10. DeliveredInv'
  <2>1. /\ Len(results) <= Len(roots) /\ roots' = roots /\ objects' = objects
        /\ calls' = calls
        /\ calls.wrote \subseteq {"added"} =>
              \A k \in 1..Len(results) : results[k] = objects[roots[k]]
    BY <1>1 DEF RegistryInv, DeliveredInv, RequestsShareObjects, catalog
  <2>2. frames' = <<>>
    BY <1>1
  <2>3. CASE results' = results
    BY <2>1, <2>2, <2>3 DEF DeliveredInv, RequestsShareObjects
  <2>4. CASE results' # results
    <3>1. /\ Len(results') = Len(results) + 1 /\ Len(results) \in Nat
          /\ \A k \in 1..Len(results) : results'[k] = results[k]
          /\ results'[Len(results) + 1] = objects[roots[Len(results) + 1]]
      BY <1>5, <1>6, <2>4 DEF Rust!Root
    <3>2. roots \in Seq(Offset) /\ Len(results') <= Len(roots)
      BY <1>5, <2>4, <3>1 DEF TypeOK, CatalogTypeOK
    <3>3. \A k \in 1..Len(results') : k \in 1..Len(results) \/ k = Len(results) + 1
      BY <3>1
    <3>4. calls'.wrote \subseteq {"added"} =>
              \A k \in 1..Len(results') : results'[k] = objects'[roots'[k]]
      BY <2>1, <3>1, <3>3
    <3>5. QED
      BY <2>1, <2>2, <3>2, <3>4 DEF DeliveredInv, RequestsShareObjects
  <2>5. QED
    BY <2>3, <2>4
<1>11. NothingMissing' /\ CycleIsReal'
  BY <1>1, <1>4, StackSameNext DEF Stack!NoPanic, NothingMissing, CycleIsReal
<1>12. ASSUME ~calls.strayed'
       PROVE  calls'.wrote = {} /\ Python!CacheInv' /\ Python!GotInv' /\ Python!WaitingInv'
  <2>1. Recursion!CacheInv /\ calls'.wrote = {}
    BY <1>1, <1>12, CallsSame DEF DisciplinedInv
  <2>2. Recursion!CacheInv'
    BY <1>1, <2>1 DEF Recursion!CacheInv, Recursion!IsCached, Recursion!Range, catalog
  <2>3. Recursion!GotInv' /\ Recursion!WaitingInv'
    BY <1>1 DEF Recursion!GotInv, Recursion!WaitingInv
  <2>4. QED
    BY <2>1, <2>2, <2>3, CallsSame
<1>13. QED
  BY <1>7, <1>8, <1>9, <1>10, <1>11, <1>12 DEF RegistryInv, DisciplinedInv

-----------------------------------------------------------------------------
(* The theorems. *)

\* The invariant holds to begin with, as it does of either traversal.
LEMMA InitInv == Init => TypeOK /\ RegistryInv /\ DisciplinedInv
<1> SUFFICES ASSUME Init PROVE TypeOK /\ RegistryInv /\ DisciplinedInv
  OBVIOUS
<1>1. Stack!Init /\ Recursion!Init
  BY DEF Init, Rust!Init, Python!Init, Stack!Init, Recursion!Init, Rust!CatalogInit,
     Python!CatalogInit, Stack!CatalogInit, Recursion!CatalogInit
<1>2. /\ frames = <<>> /\ value = 0 /\ outcome = "running" /\ results = <<>>
      /\ pending = <<>> /\ frame = 0 /\ calls.wrote = {}
  BY DEF Init, Rust!Init, Python!Init
<1>3. Stack!TypeOK /\ Stack!TraversalInv
  BY <1>1, Stack!InitInv, GraphAssumption DEF FaultKind, Stack!FaultKind
<1>4. Recursion!TypeOK /\ Recursion!DisciplinedInv
  BY <1>1, Recursion!InitInv, GraphAssumption, RegistryAssumption
  DEF FaultKind, Recursion!FaultKind
<1>5. TypeOK
  <2>1. CatalogTypeOK <=> Recursion!CatalogTypeOK
    BY DEF CatalogTypeOK, Recursion!CatalogTypeOK, FaultKind, Recursion!FaultKind
  <2>2. frames \in Seq(Python!Frame)
    BY <1>2
  <2>3. frame \in 0..Len(pending)
    BY <1>2
  <2>4. pending \in Seq(Rust!Entry)
    BY <1>2
  <2>5. /\ serial \in Nat
        /\ objects \in [Offset -> 0..serial]
        /\ links \in [Offset -> Seq(1..serial)]
        /\ results \in Seq(1..serial)
        /\ limit \in Nat \ {0}
        /\ custom \subseteq Offset
        /\ keyed \in BOOLEAN
        /\ Len(frames) <= limit
        /\ asker \in {"table", "key"}
        /\ calls \in [made : 0..MaxCalls, strayed : BOOLEAN, wrote : SUBSET Python!Writes]
    BY <1>4 DEF Recursion!TypeOK, Recursion!Writes, Python!Writes
  <2>6. pc \in {"resources", "loop"} /\ active \in SUBSET Offset /\ child \in Nat
    BY <1>3 DEF Stack!TypeOK
  <2>7. QED
    BY <1>2, <1>4, <2>1, <2>2, <2>3, <2>4, <2>5, <2>6 DEF TypeOK, Recursion!TypeOK
<1>6. StackInv
  BY <1>3, StackSame DEF StackInv, Stack!TraversalInv, Stack!StackInv, Stack!EntriesInv
<1>7. BridgeInv /\ NothingMissing
  BY <1>2 DEF BridgeInv, InRust, NothingMissing
<1>8. DeliveredInv
  BY <1>2, <1>5 DEF DeliveredInv, RequestsShareObjects, TypeOK, CatalogTypeOK
<1>9. CycleIsReal
  BY <1>3, StackSame DEF CycleIsReal, Stack!TraversalInv
<1>10. DisciplinedInv
  BY <1>2, <1>4, CallsSame DEF DisciplinedInv, Recursion!DisciplinedInv
<1>11. QED
  BY <1>5, <1>6, <1>7, <1>8, <1>9, <1>10 DEF RegistryInv

\* A stuttering step keeps the invariant.
LEMMA StutterKeeps ==
    ASSUME TypeOK, RegistryInv, DisciplinedInv, UNCHANGED vars
    PROVE  TypeOK' /\ RegistryInv' /\ DisciplinedInv'
<1>1. /\ UNCHANGED <<deps, fault, roots, serial, objects, links, results, outcome, pc, limit,
                     custom, keyed, frames, asker, value, calls, pending, active, frame, child>>
  BY DEF vars, catalog, stack, given, callback
<1>2. TypeOK'
  BY <1>1 DEF TypeOK, CatalogTypeOK, Python!Frame, Rust!Entry
<1>3. BridgeInv' /\ DeliveredInv' /\ NothingMissing'
  BY <1>1 DEF RegistryInv, BridgeInv, DeliveredInv, NothingMissing, InRust, Builds,
     RequestsShareObjects, Rust!Root, Rust!Top, Rust!Popping
<1>4. StackInv'
  <2>1. Rust!ControlInv'
    BY <1>1 DEF RegistryInv, StackInv, Rust!ControlInv, Rust!Root, Rust!IsCached
  <2>2. Rust!FrameInv'
    BY <1>1 DEF RegistryInv, StackInv, Rust!FrameInv, Rust!ExpandedEntries, Rust!Dep
  <2>3. ASSUME "removed" \notin calls'.wrote
        PROVE  Rust!EntriesInv'
    <3>1. Rust!EntriesInv
      BY <1>1, <2>3 DEF RegistryInv, StackInv
    <3>2. QED
      BY <1>1, <3>1 DEF Rust!EntriesInv, Rust!SharedActiveInv, Rust!FrameInv,
         Rust!WaitingInv, Rust!PathInv, Rust!ReachInv, Rust!ExpandedEntries, Rust!Dep,
         Rust!IsCached, Rust!Root, Rust!Reach, Rust!Closed, Rust!Children, Rust!Range
  <2>4. QED
    BY <2>1, <2>2, <2>3 DEF StackInv
<1>5. CycleIsReal'
  <2>1. CASE outcome \in {"recursion", "custom"}
    BY <1>1, <2>1, OutcomeKeeps
  <2>2. CASE outcome \notin {"recursion", "custom"} /\ "removed" \notin calls.wrote
    <3>1. Stack!TypeOK /\ Stack!EntriesInv /\ Stack!CycleIsReal
      BY <2>2, StackTyped, StackSame DEF RegistryInv, StackInv, CycleIsReal
    <3>2. UNCHANGED Stack!vars
      BY <1>1 DEF Stack!vars, Stack!catalog, Stack!decoded, Stack!location
    <3>3. Stack!CycleIsReal'
      BY <3>1, <3>2, Stack!CycleStep, GraphAssumption DEF FaultKind, Stack!FaultKind
    <3>4. QED
      BY <3>3, StackSameNext DEF CycleIsReal
  <2>3. CASE "removed" \in calls.wrote
    BY <1>1, <2>3 DEF CycleIsReal
  <2>4. QED
    BY <2>1, <2>2, <2>3
<1>6. DisciplinedInv'
  <2> SUFFICES ASSUME ~calls.strayed'
               PROVE  /\ calls'.wrote = {}
                      /\ Python!CacheInv' /\ Python!GotInv' /\ Python!WaitingInv'
    BY DEF DisciplinedInv
  <2>1. calls'.wrote = {} /\ Python!CacheInv /\ Python!GotInv /\ Python!WaitingInv
    BY <1>1 DEF DisciplinedInv
  <2>2. Python!CacheInv'
    BY <1>1, <2>1 DEF Python!CacheInv, Python!IsCached, Python!Range
  <2>3. Python!GotInv'
    BY <1>1, <2>1 DEF Python!GotInv, Python!IsCached, Python!Dep
  <2>4. \A x : Python!Reach(x)' = Python!Reach(x)
    BY <1>1 DEF Python!Reach, Python!Closed, Python!Children, Python!Range
  <2>5. Python!WaitingInv'
    BY <1>1, <2>1, <2>4 DEF Python!WaitingInv, Python!Dep
  <2>6. QED
    BY <2>1, <2>2, <2>3, <2>5
<1>7. QED
  BY <1>2, <1>3, <1>4, <1>5, <1>6 DEF RegistryInv

\* The invariant is inductive.
LEMMA StepInv ==
    ASSUME TypeOK, RegistryInv, DisciplinedInv, [Next]_vars
    PROVE  TypeOK' /\ RegistryInv' /\ DisciplinedInv'
<1>1. CASE UNCHANGED vars
  BY <1>1, StutterKeeps
<1>2. CASE LocationReady \/ PopBuild
  BY <1>2, BuildStepKeeps
<1>3. CASE RustStep
  BY <1>3, RustStepKeeps
<1>4. CASE NestedStep
  BY <1>4, NestedStepKeeps
<1>5. CASE NestedRaise /\ outcome' # "running"
  BY <1>5, NestedRaiseKeeps
<1>6. CASE CallbackReturn
  BY <1>6, CallbackReturnKeeps
<1>7. QED
  BY <1>1, <1>2, <1>3, <1>4, <1>5, <1>6 DEF Next, NestedStep

\* The variables keep their types; Rust's stack stays in order whatever decoders do to
\* the cache, what its entries wait for as long as none is set to None; and so do the
\* calls below a decoder until one of them strays.
THEOREM RegistryInvariant == Spec => [](TypeOK /\ RegistryInv /\ DisciplinedInv)
BY InitInv, StepInv, PTL DEF Spec

\* Every variable of the two traversals keeps its type.
THEOREM TypeCorrect == Spec => []TypeOK
BY RegistryInvariant, PTL

\* Neither "missing decoded dependency" nor "missing decoded resource" is reported,
\* whatever custom decoders of locations and keys ask for, catch, add and overwrite
\* while Rust waits for them, unless one sets an entry of the cache to None.
THEOREM NeverMissing == Spec => []NothingMissing
<1>1. RegistryInv => NothingMissing
  BY DEF RegistryInv
<1>2. QED
  BY <1>1, RegistryInvariant, PTL

\* Whatever custom decoders of locations and keys ask for, catch and add, every entry of
\* the key table is given the one object the cache ends up with, unless a decoder
\* overwrites an entry of the cache.
THEOREM RequestsAgree == Spec => []RequestsShareObjects
<1>1. RegistryInv => RequestsShareObjects
  BY DEF RegistryInv, DeliveredInv
<1>2. QED
  BY <1>1, RegistryInvariant, PTL

\* "resource dependency graph contains a cycle" is reported only for a graph that has
\* one below the requested location, whatever decoders have built of it meanwhile,
\* unless one sets an entry of the cache to None.
THEOREM CyclesAreReal == Spec => []CycleIsReal
<1>1. RegistryInv => CycleIsReal
  BY DEF RegistryInv
<1>2. QED
  BY <1>1, RegistryInvariant, PTL

\* As long as no decoder strays, the two traversals give every reference to an offset
\* the one object their shared cache holds for it.
THEOREM OneObjectPerOffset == Spec => []DisciplinedIdentity
<1>1. RegistryInv /\ DisciplinedInv => DisciplinedIdentity
  BY DEF RegistryInv, DeliveredInv, RequestsShareObjects, DisciplinedInv, DisciplinedIdentity,
         SharedIdentity, Promise!SharedIdentity, Python!CacheInv, Python!IsCached
<1>2. QED
  BY <1>1, RegistryInvariant, PTL

\* The abstract decoding reads the same catalog.
LEMMA PromiseSame ==
    /\ \A o : Promise!Reach(o) = Recursion!Reach(o)
    /\ \A o : Promise!Children(o) = Recursion!Children(o)
<1>1. \A o : Promise!Children(o) = Recursion!Children(o)
  BY DEF Promise!Children, Recursion!Children, Promise!Range, Recursion!Range
<1>2. \A S : Promise!Closed(S) <=> Recursion!Closed(S)
  BY <1>1 DEF Promise!Closed, Recursion!Closed
<1>3. \A o : Promise!Reach(o) = Recursion!Reach(o)
  BY <1>2 DEF Promise!Reach, Recursion!Reach
<1>4. QED
  BY <1>1, <1>3

\* As long as no decoder strays, a parse that ends well has decoded everything below
\* every requested location, in an order that shows that part to be acyclic.
THEOREM AcceptedIsDecoded == Spec => []DisciplinedDecoding
<1>1. ASSUME TypeOK, RegistryInv, DisciplinedInv, ~calls.strayed, outcome = "done",
             NEW k \in 1..Len(roots), NEW o \in Recursion!Reach(roots[k])
      PROVE  /\ objects[o] # 0
             /\ fault[o] = "none"
             /\ \A d \in Recursion!Children(o) : 0 < objects[d] /\ objects[d] < objects[o]
  <2>1. Recursion!CacheInv /\ Recursion!TypeOK /\ calls.wrote = {}
    BY <1>1, CallsSame, RecursionTyped DEF DisciplinedInv
  <2>2. roots[k] \in Offset /\ results[k] = objects[roots[k]] /\ results[k] \in 1..serial
    <3>1. roots \in Seq(Offset) /\ results \in Seq(1..serial)
      BY <1>1 DEF TypeOK, CatalogTypeOK
    <3>2. Len(results) = Len(roots)
      BY <1>1 DEF RegistryInv, StackInv, Rust!ControlInv
    <3>3. k \in 1..Len(results)
      BY <3>2
    <3>4. roots[k] \in Offset /\ results[k] \in 1..serial
      BY <3>1, <3>3, ElementOfSeq
    <3>5. QED
      BY <1>1, <2>1, <3>3, <3>4 DEF RegistryInv, DeliveredInv, RequestsShareObjects
  <2>3. Recursion!IsCached(roots[k])
    BY <2>2 DEF Recursion!IsCached
  <2>4. o \in Offset /\ Recursion!IsCached(o)
    BY <1>1, <2>1, <2>2, <2>3, Recursion!ReachIsCached, GraphAssumption, RegistryAssumption
    DEF FaultKind, Recursion!FaultKind
  <2>5. /\ fault[o] = "none"
        /\ \A d \in Recursion!Range(deps[o]) : objects[d] # 0 /\ objects[d] < objects[o]
    BY <2>1, <2>4 DEF Recursion!CacheInv, Recursion!IsCached
  <2>6. Recursion!Children(o) = Range(deps[o]) /\ Recursion!Range(deps[o]) = Range(deps[o])
    BY <2>5 DEF Recursion!Children, Recursion!Range, Range
  <2>7. \A d \in Range(deps[o]) : objects[d] \in 0..serial
    BY <1>1, <2>4, DepsType DEF TypeOK
  <2>8. serial \in Nat
    BY <1>1 DEF TypeOK
  <2>9. QED
    BY <2>4, <2>5, <2>6, <2>7, <2>8 DEF Recursion!IsCached
<1>2. ASSUME TypeOK, RegistryInv, DisciplinedInv, ~calls.strayed, outcome = "done"
      PROVE  Promise!AcceptsOnlyDecodable
  BY <1>1, <1>2, PromiseSame DEF Promise!AcceptsOnlyDecodable
<1>3. TypeOK /\ RegistryInv /\ DisciplinedInv => DisciplinedDecoding
  BY <1>2 DEF DisciplinedDecoding, Promise!AcceptsOnlyDecodable
<1>4. QED
  BY <1>3, RegistryInvariant, PTL
=============================================================================
