------------------------ MODULE PythonTraversalProofs ------------------------
(***************************************************************************)
(* Proofs about the Python traversal, for every buffer, every dependency   *)
(* graph, every table of requests, every placement of damaged records,     *)
(* every set of custom decoders and every recursion limit.                 *)
(***************************************************************************)
EXTENDS PythonTraversal, SequenceTheorems, TLAPS

-----------------------------------------------------------------------------
(* The dependency graph of a catalog *)

\* The catalog is well formed from the start.
LEMMA CatalogTyped == CatalogInit => CatalogTypeOK
BY GraphAssumption DEF CatalogInit, CatalogTypeOK

\* The dependency array of a record, by position and as a set.
LEMMA DepsType ==
    ASSUME CatalogTypeOK, NEW x \in Offset
    PROVE  /\ deps[x] \in Seq(Offset)
           /\ Range(deps[x]) \subseteq Offset
           /\ \A i \in 1..Len(deps[x]) : deps[x][i] \in Range(deps[x])
           /\ \A d \in Range(deps[x]) : \E i \in 1..Len(deps[x]) : deps[x][i] = d
<1>1. deps[x] \in Seq(Offset)
  BY DEF CatalogTypeOK
<1>2. \A i \in 1..Len(deps[x]) : deps[x][i] \in Offset
  BY <1>1
<1>3. DOMAIN deps[x] = 1..Len(deps[x])
  BY <1>1
<1>4. QED
  BY <1>1, <1>2, <1>3 DEF Range

\* What a location leads to is a matter of the catalog, which no step changes.
LEMMA ReachConstant ==
    ASSUME UNCHANGED catalog
    PROVE  \A o : Reach(o)' = Reach(o)
BY DEF Reach, Closed, Children, catalog

\* Reachability contains its origin and is closed under dependencies.
LEMMA ReachFacts ==
    ASSUME NEW o \in Offset
    PROVE  /\ o \in Reach(o)
           /\ \A x \in Reach(o) : \A d \in Children(x) \cap Offset : d \in Reach(o)
BY DEF Reach, Closed

\* What a location leads to includes all that a location it leads to leads to.
LEMMA ReachTransitive ==
    ASSUME NEW o, NEW x \in Reach(o)
    PROVE  Reach(x) \subseteq Reach(o)
BY DEF Reach

\* A set closed under dependencies holds everything its members lead to.
LEMMA ClosedHoldsReach ==
    ASSUME NEW S \in SUBSET Offset, Closed(S), NEW r \in S
    PROVE  Reach(r) \subseteq S
BY DEF Reach

-----------------------------------------------------------------------------

\* The frames of a parse that has constructed n locations.
FrameOf(n) == [offset : Offset, got : Seq(1..n), phase : {"dependencies", "custom"}]

\* What was a sequence of locations stays one when more are constructed.
LEMMA WiderGot ==
    ASSUME NEW m \in Nat, NEW n \in Nat, m <= n
    PROVE  Seq(1..m) \subseteq Seq(1..n)
<1>1. \A s \in Seq(1..m) : \A i \in 1..Len(s) : s[i] \in 1..n
  OBVIOUS
<1>2. QED
  BY <1>1

\* The same for the frames that hold such sequences.
LEMMA WiderFrames ==
    ASSUME NEW m \in Nat, NEW n \in Nat, m <= n
    PROVE  Seq(FrameOf(m)) \subseteq Seq(FrameOf(n))
<1>1. FrameOf(m) \subseteq FrameOf(n)
  BY WiderGot DEF FrameOf
<1>2. \A s \in Seq(FrameOf(m)) : \A i \in 1..Len(s) : s[i] \in FrameOf(n)
  BY <1>1
<1>3. QED
  BY <1>2

\* The calls by position.
LEMMA FrameFacts ==
    ASSUME TypeOK
    PROVE  /\ Len(frames) \in Nat
           /\ DOMAIN frames = 1..Len(frames)
           /\ frames = <<>> <=> Len(frames) = 0
           /\ frames \in Seq(FrameOf(serial))
           /\ \A i \in 1..Len(frames) :
                 /\ frames[i] \in FrameOf(serial)
                 /\ frames[i].offset \in Offset
                 /\ frames[i].got \in Seq(1..serial)
                 /\ frames[i].phase \in {"dependencies", "custom"}
                 /\ Dep(i) \in Seq(Offset)
<1>1. frames \in Seq(FrameOf(serial))
  BY DEF TypeOK, Frame, FrameOf
<1>2. \A i \in 1..Len(frames) : frames[i] \in FrameOf(serial)
  BY <1>1
<1>3. \A i \in 1..Len(frames) : /\ frames[i].offset \in Offset
                                /\ frames[i].got \in Seq(1..serial)
                                /\ frames[i].phase \in {"dependencies", "custom"}
  BY <1>2 DEF FrameOf
<1>4. \A i \in 1..Len(frames) : Dep(i) \in Seq(Offset)
  BY <1>3 DEF Dep, TypeOK, CatalogTypeOK
<1>5. QED
  BY <1>1, <1>2, <1>3, <1>4

\* The innermost call and the calls it returns to.
LEMMA TopFacts ==
    ASSUME TypeOK, frames # <<>>
    PROVE  /\ Len(frames) \in Nat \ {0}
           /\ Top = frames[Len(frames)]
           /\ Top.offset \in Offset
           /\ Top.got \in Seq(1..serial)
           /\ Top.phase \in {"dependencies", "custom"}
           /\ deps[Top.offset] \in Seq(Offset)
           /\ Outer \in Seq(FrameOf(serial))
           /\ Len(Outer) = Len(frames) - 1
           /\ \A i \in 1..Len(frames) - 1 : Outer[i] = frames[i]
           /\ Outer = <<>> <=> Len(frames) = 1
<1> DEFINE n == Len(frames)
<1>1. n \in Nat \ {0} /\ frames \in Seq(FrameOf(serial))
  BY FrameFacts
<1>2. /\ Top.offset \in Offset /\ Top.got \in Seq(1..serial)
      /\ Top.phase \in {"dependencies", "custom"}
      /\ deps[Top.offset] \in Seq(Offset)
  <2>1. n \in 1..n
    BY <1>1
  <2>2. QED
    BY <2>1, FrameFacts DEF Top, Dep
<1>3. \A i \in 1..n - 1 : frames[i] \in FrameOf(serial)
  BY <1>1, FrameFacts
<1>4. /\ Outer \in Seq(FrameOf(serial))
      /\ Len(Outer) = IF 1 <= n - 1 THEN n - 1 - 1 + 1 ELSE 0
      /\ \A i \in 1..n - 1 - 1 + 1 : Outer[i] = frames[1 + i - 1]
  BY <1>1, <1>3, SubSeqProperties DEF Outer
<1>5. Len(Outer) = n - 1
  <2>1. Len(Outer) = IF 1 <= n - 1 THEN n - 1 - 1 + 1 ELSE 0
    BY <1>4
  <2>2. n \in Nat \ {0}
    BY <1>1
  <2> HIDE DEF n
  <2>3. QED
    BY <2>1, <2>2
<1>6. \A i \in 1..n - 1 : Outer[i] = frames[i]
  BY <1>1, <1>4
<1>7. Outer = <<>> <=> n = 1
  BY <1>1, <1>4, <1>5
<1>8. QED
  BY <1>1, <1>2, <1>4, <1>5, <1>6, <1>7 DEF Top

\* What returning the location v does to the calls that go on.
LEMMA ReceiveFacts ==
    ASSUME NEW n \in Nat, NEW v \in 1..n, NEW callers \in Seq(FrameOf(n))
    PROVE  /\ Receive(callers, v) \in Seq(FrameOf(n))
           /\ Len(Receive(callers, v)) = Len(callers)
           /\ \A i \in 1..Len(callers) :
                 /\ Receive(callers, v)[i].offset = callers[i].offset
                 /\ Receive(callers, v)[i].phase = callers[i].phase
                 /\ Receive(callers, v)[i].got =
                       IF i = Len(callers) /\ callers[i].phase = "dependencies"
                       THEN Append(callers[i].got, v) ELSE callers[i].got
<1>1. CASE callers # <<>> /\ callers[Len(callers)].phase = "dependencies"
  <2> DEFINE l == Len(callers)
             f == [callers[l] EXCEPT !.got = Append(callers[l].got, v)]
  <2>1. l \in 1..l /\ l \in Nat /\ callers[l] \in FrameOf(n) /\ DOMAIN callers = 1..l
    BY <1>1
  <2>2. callers[l].got \in Seq(1..n)
    BY <2>1 DEF FrameOf
  <2>3. Append(callers[l].got, v) \in Seq(1..n)
    BY <2>2
  <2>4. /\ f \in FrameOf(n)
        /\ f.offset = callers[l].offset /\ f.phase = callers[l].phase
        /\ f.got = Append(callers[l].got, v)
    BY <2>1, <2>3 DEF FrameOf
  <2>5. Receive(callers, v) = [callers EXCEPT ![l] = f]
    BY <1>1 DEF Receive
  <2> HIDE DEF f
  <2>6. /\ Receive(callers, v) \in Seq(FrameOf(n))
        /\ Len(Receive(callers, v)) = l
        /\ Receive(callers, v)[l] = f
        /\ \A i \in 1..l : i # l => Receive(callers, v)[i] = callers[i]
    BY <2>1, <2>4, <2>5
  <2>7. QED
    BY <1>1, <2>4, <2>6
<1>2. CASE ~(callers # <<>> /\ callers[Len(callers)].phase = "dependencies")
  <2>1. Receive(callers, v) = callers
    BY <1>2 DEF Receive
  <2>2. \A i \in 1..Len(callers) : ~(i = Len(callers) /\ callers[i].phase = "dependencies")
    BY <1>2
  <2>3. QED
    BY <2>1, <2>2
<1>3. QED
  BY <1>1, <1>2

-----------------------------------------------------------------------------
(* Type correctness. *)

\* What custom decoders did.
CallsType == [made : 0..MaxCalls, strayed : BOOLEAN, wrote : SUBSET Writes]

\* One more of it.
LEMMA CountedCall ==
    ASSUME TypeOK, calls.made < MaxCalls, NEW b \in BOOLEAN, NEW w \in SUBSET Writes,
           calls' = [calls EXCEPT !.made = @ + 1, !.strayed = b, !.wrote = w]
    PROVE  calls' \in CallsType
<1>1. calls \in CallsType /\ MaxCalls \in Nat
  BY RecursionAssumption DEF TypeOK, CallsType
<1>2. calls.made + 1 \in 0..MaxCalls
  BY <1>1 DEF CallsType
<1>3. QED
  BY <1>1, <1>2 DEF CallsType

\* Who asks for a location changes nothing but the account of the decoders' calls.
LEMMA CallsTyped ==
    ASSUME TypeOK, NEW o \in Offset, Calls(o)
    PROVE  calls' \in CallsType /\ asker' \in {"table", "key"}
<1>1. calls \in CallsType /\ asker \in {"table", "key"}
  BY DEF TypeOK, CallsType
<1>2. CASE ResourcesCalls(o) \/ DependencyCalls(o)
  BY <1>1, <1>2 DEF ResourcesCalls, DependencyCalls
<1>3. CASE CustomDecoderCalls(o)
  <2>1. calls.strayed \in BOOLEAN /\ calls.wrote \in SUBSET Writes
    BY <1>1 DEF CallsType
  <2>2. (calls.strayed \/ Reach(o) \cap InProgress # {}) \in BOOLEAN
    BY <2>1
  <2>3. calls' = [calls EXCEPT !.made = @ + 1,
                               !.strayed = calls.strayed \/ Reach(o) \cap InProgress # {},
                               !.wrote = calls.wrote]
    BY <1>1, <1>3 DEF CustomDecoderCalls, CallsType
  <2>4. calls.made < MaxCalls
    BY <1>3 DEF CustomDecoderCalls
  <2>5. asker' \in {"table", "key"}
    BY <1>1, <1>3 DEF CustomDecoderCalls, LocationDecoderRuns, KeyDecoderRuns
  <2>6. QED
    BY <2>1, <2>2, <2>3, <2>4, <2>5, CountedCall
<1>4. QED
  BY <1>2, <1>3 DEF Calls

\* The calls an exception leaves: some of the outermost, as they were.
LEMMA RaiseFrames ==
    ASSUME TypeOK, NEW error, Raise(error)
    PROVE  \E l \in 0..Len(frames) :
              /\ frames' \in Seq(FrameOf(serial))
              /\ Len(frames') = l
              /\ \A j \in 1..l : frames'[j] = frames[j]
<1>1. frames \in Seq(FrameOf(serial)) /\ DOMAIN frames = 1..Len(frames) /\ Len(frames) \in Nat
  BY FrameFacts
<1>2. CASE frames' = <<>>
  BY <1>1, <1>2
<1>3. ASSUME NEW i \in DOMAIN frames, frames' = SubSeq(frames, 1, i)
      PROVE  /\ frames' \in Seq(FrameOf(serial))
             /\ Len(frames') = i
             /\ \A j \in 1..i : frames'[j] = frames[j]
  <2>1. i \in 1..Len(frames)
    BY <1>1
  <2>2. \A j \in 1..i : frames[j] \in FrameOf(serial)
    BY <1>1, <2>1, FrameFacts
  <2>3. /\ frames' \in Seq(FrameOf(serial))
        /\ Len(frames') = IF 1 <= i THEN i - 1 + 1 ELSE 0
        /\ \A j \in 1..i - 1 + 1 : frames'[j] = frames[1 + j - 1]
    BY <1>1, <1>3, <2>1, <2>2, SubSeqProperties
  <2>4. QED
    BY <2>1, <2>3
<1>4. QED
  BY <1>1, <1>2, <1>3 DEF Raise

\* An exception, raised to the end or caught on the way.
LEMMA RaiseType ==
    ASSUME TypeOK, NEW error \in {"read", "unsupported", "recursion", "custom"}, Raise(error),
           calls' \in CallsType, asker' \in {"table", "key"}
    PROVE  TypeOK'
<1>1. UNCHANGED <<catalog, given, decoded, results, value>>
  BY DEF Raise
<1>2. frames' \in Seq(FrameOf(serial)) /\ Len(frames') <= Len(frames)
  BY RaiseFrames, FrameFacts
<1>3. Len(frames') <= limit /\ limit \in Nat
  <2>1. Len(frames') \in Nat /\ Len(frames) \in Nat /\ Len(frames') <= Len(frames)
    BY <1>2, FrameFacts
  <2>2. QED
    BY <2>1 DEF TypeOK
<1>4. outcome' \in {"running", "done", "read", "unsupported", "recursion", "custom"}
  BY DEF Raise, TypeOK
<1>5. frames' \in Seq(Frame') /\ limit' = limit /\ value' \in 0..serial'
  BY <1>1, <1>2 DEF Frame, FrameOf, given, decoded, TypeOK
<1>6. QED
  BY <1>1, <1>3, <1>4, <1>5 DEF TypeOK, CallsType, CatalogTypeOK, catalog, given, decoded

\* A custom decoder writes the cache.
LEMMA DecoderWritesType ==
    ASSUME TypeOK, NEW o \in Offset, DecoderPuts(o) \/ DecoderRemoves(o)
    PROVE  TypeOK'
<1>1. WritesCache(o) /\ calls.made < MaxCalls
  BY DEF DecoderPuts, DecoderRemoves, WritesCache
<1>2. /\ UNCHANGED <<catalog, given, results, outcome, frames, value>>
      /\ asker' \in {"table", "key"}
  BY <1>1 DEF WritesCache, LocationDecoderRuns, KeyDecoderRuns, TypeOK
<1>3. calls' \in CallsType
  <2>1. calls \in CallsType
    BY DEF TypeOK, CallsType
  <2>2. \E w \in SUBSET Writes :
            calls' = [calls EXCEPT !.made = @ + 1, !.strayed = TRUE, !.wrote = w]
    <3>1. calls.wrote \in SUBSET Writes
      BY <2>1 DEF CallsType
    <3>2. /\ calls.wrote \cup {IF IsCached(o) THEN "replaced" ELSE "added"} \in SUBSET Writes
          /\ calls.wrote \cup {"removed"} \in SUBSET Writes
      BY <3>1 DEF Writes
    <3>3. QED
      BY <2>1, <3>2 DEF DecoderPuts, DecoderRemoves, CallsType
  <2>3. QED
    BY <1>1, <2>2, CountedCall
<1>4. /\ serial' \in Nat /\ serial \in Nat /\ serial <= serial'
      /\ objects' \in [Offset -> 0..serial']
      /\ links' \in [Offset -> Seq(1..serial')]
  <2>1. serial \in Nat /\ objects \in [Offset -> 0..serial] /\ links \in [Offset -> Seq(1..serial)]
    BY DEF TypeOK
  <2>2. CASE DecoderPuts(o)
    <3>1. /\ serial' = serial + 1 /\ objects' = [objects EXCEPT ![o] = serial + 1]
          /\ links' = [links EXCEPT ![o] = <<>>]
      BY <2>2 DEF DecoderPuts
    <3>2. objects' \in [Offset -> 0..serial']
      BY <2>1, <3>1
    <3>3. Seq(1..serial) \subseteq Seq(1..serial')
      BY <2>1, <3>1, WiderGot
    <3>4. links' \in [Offset -> Seq(1..serial')]
      <4>1. <<>> \in Seq(1..serial') /\ links \in [Offset -> Seq(1..serial')]
        BY <2>1, <3>3
      <4>2. QED
        BY <3>1, <4>1
    <3>5. QED
      BY <2>1, <3>1, <3>2, <3>4
  <2>3. CASE DecoderRemoves(o)
    <3>1. UNCHANGED <<serial, links>> /\ objects' = [objects EXCEPT ![o] = 0]
      BY <2>3 DEF DecoderRemoves
    <3>2. QED
      BY <2>1, <3>1
  <2>4. QED
    BY <2>2, <2>3
<1>5. results' \in Seq(1..serial')
  <2>1. Seq(1..serial) \subseteq Seq(1..serial') /\ results' = results
    BY <1>2, <1>4, WiderGot
  <2>2. QED
    BY <2>1 DEF TypeOK
<1>6. frames' \in Seq(Frame') /\ Len(frames') <= limit' /\ value' \in 0..serial'
  <2>1. frames \in Seq(FrameOf(serial')) /\ frames' = frames /\ limit' = limit
    BY <1>2, <1>4, FrameFacts, WiderFrames DEF given
  <2>2. value' \in 0..serial'
    BY <1>2, <1>4 DEF TypeOK
  <2>3. Len(frames') <= limit'
    BY <2>1 DEF TypeOK
  <2>4. frames' \in Seq(Frame')
    BY <2>1 DEF Frame, FrameOf
  <2>5. QED
    BY <2>2, <2>3, <2>4
<1>7. QED
  BY <1>2, <1>3, <1>4, <1>5, <1>6 DEF TypeOK, CallsType, CatalogTypeOK, catalog, given

\* A location that is found in the cache is given to the caller.
LEMMA CallCachedType ==
    ASSUME TypeOK, NEW o \in Offset, CallCached(o)
    PROVE  TypeOK'
<1>1. objects[o] \in 1..serial /\ serial \in Nat /\ serial' = serial
  BY DEF CallCached, IsCached, TypeOK, decoded
<1>2. /\ frames' \in Seq(FrameOf(serial))
      /\ Len(frames') = Len(frames)
  BY <1>1, FrameFacts, ReceiveFacts DEF CallCached
<1>3. frames' \in Seq(Frame')
  BY <1>1, <1>2 DEF Frame, FrameOf
<1>4. value' \in 0..serial
  BY <1>1 DEF CallCached
<1>5. calls' \in CallsType /\ asker' \in {"table", "key"}
  BY CallsTyped DEF CallCached
<1>6. QED
  BY <1>1, <1>2, <1>3, <1>4, <1>5
  DEF CallCached, TypeOK, CatalogTypeOK, CallsType, catalog, given, decoded

\* A location that is not in the cache is entered.
LEMMA CallEnterType ==
    ASSUME TypeOK, NEW o \in Offset, CallEnter(o)
    PROVE  TypeOK'
<1> DEFINE f == [offset |-> o, got |-> <<>>, phase |-> "dependencies"]
<1>1. f \in Frame /\ frames \in Seq(Frame)
  BY DEF Frame, TypeOK
<1>2. frames' = Append(frames, f)
  BY DEF CallEnter
<1> HIDE DEF f
<1>3. frames' \in Seq(Frame) /\ Len(frames') = Len(frames) + 1
  BY <1>1, <1>2
<1>4. Frame' = Frame
  BY DEF Frame, CallEnter, decoded
<1>5. Len(frames') <= limit
  BY <1>3, FrameFacts DEF CallEnter, TypeOK
<1>6. calls' \in CallsType /\ asker' \in {"table", "key"}
  BY CallsTyped DEF CallEnter
<1>7. QED
  BY <1>3, <1>4, <1>5, <1>6
  DEF CallEnter, TypeOK, CatalogTypeOK, CallsType, catalog, given, decoded

\* The data object of the innermost call is given to a custom decoder.
LEMMA DataIsCustomType ==
    ASSUME TypeOK, DataIsCustom
    PROVE  TypeOK'
<1> DEFINE n == Len(frames)
           f == [frames[n] EXCEPT !.phase = "custom"]
<1>1. n \in Nat \ {0} /\ n \in 1..n /\ frames \in Seq(Frame) /\ frames[n] \in Frame
  BY TopFacts DEF DataIsCustom, HasDependencies, TypeOK
<1>2. f \in Frame
  BY <1>1 DEF Frame
<1>3. frames' = [frames EXCEPT ![n] = f]
  BY DEF DataIsCustom
<1> HIDE DEF f
<1>4. frames' \in Seq(Frame) /\ Len(frames') = n
  BY <1>1, <1>2, <1>3
<1>5. Frame' = Frame
  BY DEF Frame, DataIsCustom, decoded
<1>6. QED
  BY <1>4, <1>5 DEF DataIsCustom, TypeOK, CatalogTypeOK, catalog, given, decoded

\* The innermost call constructs its location and returns.
LEMMA ReturnLocationType ==
    ASSUME TypeOK, ReturnLocation
    PROVE  TypeOK'
<1>1. frames # <<>>
  BY DEF ReturnLocation, HasDependencies
<1>2. /\ serial \in Nat /\ serial' = serial + 1 /\ serial' \in Nat
      /\ objects' = [objects EXCEPT ![Top.offset] = serial + 1]
      /\ links' = [links EXCEPT ![Top.offset] = Top.got]
  BY DEF ReturnLocation, Construct, TypeOK
<1>3. Seq(1..serial) \subseteq Seq(1..serial')
  BY <1>2, WiderGot
<1>4. /\ objects' \in [Offset -> 0..serial']
      /\ links' \in [Offset -> Seq(1..serial')]
  <2>1. objects \in [Offset -> 0..serial'] /\ serial + 1 \in 0..serial'
    <3>1. 0..serial \subseteq 0..serial'
      BY <1>2
    <3>2. QED
      BY <1>2, <3>1 DEF TypeOK
  <2>2. links \in [Offset -> Seq(1..serial')] /\ Top.got \in Seq(1..serial')
    BY <1>1, <1>3, TopFacts DEF TypeOK
  <2>3. QED
    BY <1>2, <2>1, <2>2
<1>5. results' \in Seq(1..serial')
  BY <1>3 DEF ReturnLocation, TypeOK
<1>6. Outer \in Seq(FrameOf(serial'))
  BY <1>1, <1>2, TopFacts, WiderFrames
<1>7. /\ frames' \in Seq(FrameOf(serial'))
      /\ Len(frames') = Len(Outer)
  BY <1>2, <1>6, ReceiveFacts DEF ReturnLocation
<1>8. frames' \in Seq(Frame')
  BY <1>7 DEF Frame, FrameOf
<1>9. Len(frames') <= limit
  BY <1>1, <1>7, TopFacts DEF TypeOK
<1>10. value' \in 0..serial'
  BY <1>2 DEF ReturnLocation
<1>11. QED
  BY <1>2, <1>4, <1>5, <1>8, <1>9, <1>10
  DEF ReturnLocation, TypeOK, CatalogTypeOK, catalog, given

\* Type correctness of a step.
LEMMA TypeStep ==
    ASSUME TypeOK, [Next]_vars
    PROVE  TypeOK'
<1>1. CASE UNCHANGED vars
  BY <1>1 DEF vars, catalog, given, decoded, TypeOK, CatalogTypeOK, Frame
<1>2. ASSUME NEW o \in Offset, CallTooDeep(o) \/ CallDamaged(o)
      PROVE  TypeOK'
  <2>1. calls' \in CallsType /\ asker' \in {"table", "key"}
    BY <1>2, CallsTyped DEF CallTooDeep, CallDamaged
  <2>2. Raise("recursion") \/ Raise("read")
    BY <1>2 DEF CallTooDeep, CallDamaged
  <2>3. QED
    BY <2>1, <2>2, RaiseType
<1>3. ASSUME NEW o \in Offset, CallCached(o) \/ CallEnter(o)
      PROVE  TypeOK'
  BY <1>3, CallCachedType, CallEnterType
<1>4. CASE DataUnsupported \/ DecoderRaises
  <2>1. calls' \in CallsType /\ asker' \in {"table", "key"}
    BY <1>4 DEF DataUnsupported, DecoderRaises, LocationDecoderRuns, KeyDecoderRuns, TypeOK,
       CallsType
  <2>2. Raise("unsupported") \/ Raise("custom")
    BY <1>4 DEF DataUnsupported, DecoderRaises
  <2>3. QED
    BY <2>1, <2>2, RaiseType
<1>5. CASE DataIsCustom \/ ReturnLocation
  BY <1>5, DataIsCustomType, ReturnLocationType
<1>6. CASE ResourcesAppend
  <2>1. value \in 1..serial /\ results \in Seq(1..serial) /\ serial' = serial
    BY <1>6 DEF ResourcesAppend, TypeOK, decoded
  <2>2. results' \in Seq(1..serial)
    BY <1>6, <2>1 DEF ResourcesAppend
  <2>3. value' \in 0..serial
    BY <1>6 DEF ResourcesAppend, TypeOK
  <2>4. QED
    BY <1>6, <2>1, <2>2, <2>3
    DEF ResourcesAppend, TypeOK, CatalogTypeOK, catalog, given, decoded, Frame
<1>7. CASE Finish
  BY <1>7 DEF Finish, TypeOK, CatalogTypeOK, catalog, given, decoded, Frame
<1>8. ASSUME NEW o \in Offset, DecoderPuts(o) \/ DecoderRemoves(o)
      PROVE  TypeOK'
  BY <1>8, DecoderWritesType
<1>9. QED
  BY <1>1, <1>2, <1>3, <1>4, <1>5, <1>6, <1>7, <1>8 DEF Next

-----------------------------------------------------------------------------
(* What a step reads and writes. *)

\* No step changes the catalog, the limit or what the registry decodes.
LEMMA CatalogConstant ==
    ASSUME [Next]_vars
    PROVE  UNCHANGED <<catalog, given>>
BY DEF Next, vars, CallTooDeep, CallCached, CallDamaged, CallEnter, DataUnsupported,
       DataIsCustom, DecoderRaises, WritesCache, DecoderPuts, DecoderRemoves,
       ReturnLocation, ResourcesAppend, Finish, Raise

\* What a decoder wrote itself is on the account of the decoders.
LEMMA WritesStray ==
    ASSUME TypeOK, NEW o, DecoderPuts(o) \/ DecoderRemoves(o)
    PROVE  calls'.strayed
BY DEF TypeOK, DecoderPuts, DecoderRemoves

\* A decoder that strayed has strayed for good.
LEMMA StrayedForGood ==
    ASSUME TypeOK, [Next]_vars, ~calls.strayed'
    PROVE  ~calls.strayed
<1>1. ASSUME NEW o \in Offset, Calls(o)
      PROVE  calls.strayed => calls'.strayed
  <2>1. CASE calls' = calls
    BY <2>1
  <2>2. CASE CustomDecoderCalls(o)
    <3>1. calls'.strayed = (calls.strayed \/ Reach(o) \cap InProgress # {})
      BY <2>2 DEF CustomDecoderCalls, TypeOK
    <3>2. QED
      BY <3>1, Zenon
  <2>3. QED
    BY <1>1, <2>1, <2>2 DEF Calls, ResourcesCalls, DependencyCalls
<1>2. CASE \E o \in Offset : Calls(o)
  BY <1>1, <1>2
<1>3. CASE calls' = calls
  BY <1>3
<1>4. CASE \E o \in Offset : DecoderPuts(o) \/ DecoderRemoves(o)
  BY <1>4, WritesStray
<1>5. QED
  BY <1>2, <1>3, <1>4 DEF Next, vars, CallTooDeep, CallCached, CallDamaged, CallEnter,
     DataUnsupported, DataIsCustom, DecoderRaises, ReturnLocation, ResourcesAppend, Finish, Raise

\* The innermost call is done with its dependencies and with its data object.
CanReturn ==
    /\ frames # <<>>
    /\ \/ Top.phase = "custom"
       \/ HasDependencies /\ fault[Top.offset] # "object"

\* A call that can return has the objects of all its dependencies, all of
\* them cached, and is the only call of its location in progress: a second one
\* further out would be waiting for a dependency that is not cached yet.
LEMMA ReturnFacts ==
    ASSUME TypeOK, GotInv, WaitingInv, CanReturn
    PROVE  /\ fault[Top.offset] = "none"
           /\ ~IsCached(Top.offset)
           /\ Top.got = [k \in 1..Len(deps[Top.offset]) |-> objects[deps[Top.offset][k]]]
           /\ \A d \in Range(deps[Top.offset]) : d \in Offset /\ IsCached(d)
           /\ \A i \in 1..Len(frames) - 1 : frames[i].offset # Top.offset
<1> DEFINE n == Len(frames)
           o == Top.offset
<1>1. /\ n \in Nat \ {0} /\ n \in DOMAIN frames /\ DOMAIN frames = 1..n
      /\ Top = frames[n] /\ Dep(n) = deps[o] /\ o \in Offset
      /\ Top.got \in Seq(1..serial) /\ deps[o] \in Seq(Offset) /\ serial \in Nat
  BY TopFacts, FrameFacts DEF CanReturn, Dep, TypeOK
<1>2. /\ ~IsCached(o)
      /\ fault[o] \notin {"record", "string"}
      /\ Len(Top.got) <= Len(deps[o])
      /\ \A k \in 1..Len(Top.got) : Top.got[k] = objects[deps[o][k]]
      /\ Top.phase = "custom" => Len(Top.got) = Len(deps[o]) /\ fault[o] # "object"
  <2>1. n \in DOMAIN frames /\ frames[n] = Top /\ Dep(n) = deps[o]
    BY <1>1
  <2>2. QED
    BY <2>1 DEF GotInv
<1>3. Len(Top.got) = Len(deps[o]) /\ fault[o] # "object"
  BY <1>2 DEF CanReturn, HasDependencies
<1>4. fault[o] = "none"
  <2>1. fault[o] \in FaultKind
    BY <1>1 DEF TypeOK, CatalogTypeOK
  <2>2. QED
    BY <1>2, <1>3, <2>1 DEF FaultKind
<1>5. \A k \in 1..Len(deps[o]) : Top.got[k] = objects[deps[o][k]] /\ objects[deps[o][k]] # 0
  <2> TAKE k \in 1..Len(deps[o])
  <2>1. Top.got[k] \in 1..serial
    BY <1>1, <1>3
  <2>2. QED
    BY <1>1, <1>2, <1>3, <2>1
<1>6. Top.got = [k \in 1..Len(deps[o]) |-> objects[deps[o][k]]]
  <2>1. Top.got = [k \in 1..Len(deps[o]) |-> Top.got[k]]
    <3>1. Top.got \in Seq(1..serial) /\ Len(Top.got) = Len(deps[o])
      BY <1>1, <1>3
    <3>2. QED
      BY <3>1
  <2>2. QED
    BY <1>5, <2>1
<1>7. \A d \in Range(deps[o]) : d \in Offset /\ IsCached(d)
  <2>1. CatalogTypeOK
    BY DEF TypeOK
  <2>2. /\ Range(deps[o]) \subseteq Offset
        /\ \A d \in Range(deps[o]) : \E k \in 1..Len(deps[o]) : deps[o][k] = d
    BY <1>1, <2>1, DepsType
  <2>3. QED
    BY <1>5, <2>2 DEF IsCached
<1>8. ASSUME NEW i \in 1..n - 1
      PROVE  frames[i].offset # o
  <2> SUFFICES ASSUME frames[i].offset = o PROVE FALSE
    OBVIOUS
  <2>1. i \in DOMAIN frames /\ i + 1 \in DOMAIN frames /\ i < n /\ i \in 1..i
    BY <1>1
  <2>2. CASE frames[i].phase = "dependencies"
    <3> DEFINE k == Len(frames[i].got) + 1
    <3>1. frames[i + 1].offset = deps[o][k] /\ Len(frames[i].got) < Len(deps[o])
      BY <2>1, <2>2 DEF WaitingInv, Dep
    <3>2. Len(frames[i].got) \in Nat
      BY <2>1, FrameFacts
    <3>3. k \in 1..Len(deps[o])
      BY <1>1, <3>1, <3>2
    <3>4. IsCached(frames[i + 1].offset)
      BY <1>5, <3>1, <3>3 DEF IsCached
    <3>5. QED
      BY <2>1, <3>4 DEF GotInv
  <2>3. CASE frames[i].phase # "dependencies"
    <3>1. o \notin Reach(frames[n].offset)
      BY <1>1, <2>1, <2>3 DEF WaitingInv
    <3>2. QED
      BY <1>1, <3>1, ReachFacts
  <2>4. QED
    BY <2>2, <2>3
<1>9. QED
  BY <1>2, <1>4, <1>6, <1>7, <1>8

-----------------------------------------------------------------------------
(* The cache. *)

\* Only a call that returns writes to the cache, until a decoder does.
LEMMA CacheWrites ==
    ASSUME TypeOK, [Next]_vars, ~calls.strayed'
    PROVE  UNCHANGED decoded \/ ReturnLocation
<1>1. ASSUME NEW o \in Offset
      PROVE  ~(DecoderPuts(o) \/ DecoderRemoves(o))
  BY WritesStray
<1>2. QED
  BY <1>1 DEF Next, vars, CallTooDeep, CallCached, CallDamaged, CallEnter, DataUnsupported,
     DataIsCustom, DecoderRaises, ResourcesAppend, Finish, Raise

\* Constructing a sound location with the cached objects of its dependencies keeps the
\* cache closed and ordered, and leaves what it holds.
LEMMA ConstructKeepsCache ==
    ASSUME TypeOK, CacheInv, UNCHANGED catalog,
           NEW o \in Offset, fault[o] = "none", ~IsCached(o),
           \A d \in Range(deps[o]) : IsCached(d),
           Construct(o, [k \in 1..Len(deps[o]) |-> objects[deps[o][k]]])
    PROVE  /\ CacheInv'
           /\ \A x \in Offset : IsCached(x) => objects'[x] = objects[x]
<1> DEFINE got == [k \in 1..Len(deps[o]) |-> objects[deps[o][k]]]
<1>1. /\ serial \in Nat
      /\ objects \in [Offset -> 0..serial]
      /\ DOMAIN links = Offset
      /\ deps' = deps /\ fault' = fault
  BY DEF TypeOK, catalog
<1>2. /\ serial' = serial + 1
      /\ objects' = [objects EXCEPT ![o] = serial + 1]
      /\ links' = [links EXCEPT ![o] = got]
  BY DEF Construct
<1>3. \A x \in Offset : /\ objects'[x] = IF x = o THEN serial + 1 ELSE objects[x]
                        /\ links'[x] = IF x = o THEN got ELSE links[x]
  <2> HIDE DEF got
  <2>1. QED
    BY <1>1, <1>2
<1>4. \A x \in Offset : IsCached(x) => objects'[x] = objects[x]
  BY <1>3
<1>5. \A x \in Offset : /\ Range(deps[x]) \subseteq Offset
                        /\ \A i \in 1..Len(deps[x]) : deps[x][i] \in Range(deps[x])
  BY DepsType DEF TypeOK
<1>6. ASSUME NEW x \in Offset, IsCached(x)'
      PROVE  /\ fault[x] = "none"
             /\ \A d \in Range(deps[x]) : objects'[d] # 0 /\ objects'[d] < objects'[x]
             /\ links'[x] = [i \in 1..Len(deps[x]) |-> objects'[deps[x][i]]]
  <2>1. CASE x = o
    <3>1. \A d \in Range(deps[o]) : objects'[d] = objects[d] /\ objects[d] # 0
                                    /\ objects[d] \in 0..serial
      BY <1>1, <1>4, <1>5 DEF IsCached
    <3>2. links'[o] = [i \in 1..Len(deps[o]) |-> objects'[deps[o][i]]]
      BY <1>3, <1>5, <3>1, SMTT(30)
    <3>3. objects'[o] = serial + 1
      BY <1>3
    <3>4. QED
      BY <1>1, <2>1, <3>1, <3>2, <3>3
  <2>2. CASE x # o
    <3>1. objects'[x] = objects[x] /\ IsCached(x) /\ links'[x] = links[x]
      BY <1>3, <1>6, <2>2 DEF IsCached
    <3>2. /\ fault[x] = "none"
          /\ \A d \in Range(deps[x]) : IsCached(d) /\ objects[d] < objects[x]
          /\ links[x] = [i \in 1..Len(deps[x]) |-> objects[deps[x][i]]]
      BY <3>1 DEF CacheInv
    <3>3. \A d \in Range(deps[x]) : objects'[d] = objects[d]
      BY <1>4, <1>5, <3>2
    <3>4. QED
      BY <1>5, <3>1, <3>2, <3>3 DEF IsCached
  <2>3. QED
    BY <2>1, <2>2
<1>7. CacheInv'
  BY <1>1, <1>6 DEF CacheInv, IsCached
<1>8. QED
  BY <1>4, <1>7

\* A location that is returned is constructed so.
LEMMA ReturnConstructs ==
    ASSUME TypeOK, GotInv, WaitingInv, ReturnLocation
    PROVE  /\ Top.offset \in Offset /\ CanReturn
           /\ Construct(Top.offset,
                        [k \in 1..Len(deps[Top.offset]) |-> objects[deps[Top.offset][k]]])
<1>1. CanReturn /\ frames # <<>> /\ Construct(Top.offset, Top.got)
  BY DEF ReturnLocation, CanReturn, HasDependencies
<1>2. Top.got = [k \in 1..Len(deps[Top.offset]) |-> objects[deps[Top.offset][k]]]
  BY <1>1, ReturnFacts
<1>3. Construct(Top.offset, [k \in 1..Len(deps[Top.offset]) |-> objects[deps[Top.offset][k]]])
  BY <1>1, <1>2
<1>4. QED
  BY <1>1, <1>3, TopFacts

\* What a step may do to the cache: it is write-once until a decoder writes it.
LEMMA CacheStep ==
    ASSUME TypeOK, CacheInv, GotInv, WaitingInv, [Next]_vars, ~calls.strayed'
    PROVE  /\ CacheInv'
           /\ \A x \in Offset : IsCached(x) => objects'[x] = objects[x]
<1>1. UNCHANGED catalog
  BY CatalogConstant
<1>2. CASE UNCHANGED decoded
  BY <1>1, <1>2 DEF decoded, catalog, CacheInv, IsCached
<1>3. CASE ReturnLocation
  <2>1. /\ CanReturn
        /\ Construct(Top.offset,
                     [k \in 1..Len(deps[Top.offset]) |-> objects[deps[Top.offset][k]]])
    BY <1>3, ReturnConstructs
  <2>2. QED
    BY <1>1, <2>1, <1>3, ReturnConstructs, ReturnFacts, ConstructKeepsCache
<1>4. QED
  BY <1>2, <1>3, CacheWrites

-----------------------------------------------------------------------------
(* The calls. *)

CallsInv == GotInv /\ WaitingInv /\ ReachInv

\* What the request being served leads to does not change while it is served.
LEMMA ReachRoot ==
    ASSUME UNCHANGED <<catalog, results>>
    PROVE  Reach(Root)' = Reach(Root)
<1>1. Root' = Root
  BY DEF Root, catalog
<1>2. QED
  BY <1>1 DEF Reach, Closed, Children, catalog

\* An exception, and the last return, leave no call to speak of.
LEMMA NoCalls ==
    ASSUME frames' = <<>>
    PROVE  CallsInv'
BY DEF CallsInv, GotInv, WaitingInv, ReachInv

\* A step that changes neither the calls nor what they refer to.
LEMMA SameCalls ==
    ASSUME CallsInv, UNCHANGED <<catalog, given, decoded, results, frames>>
    PROVE  CallsInv'
<1>1. ReachInv'
  BY ReachRoot DEF CallsInv, ReachInv, Uncustomised, given
<1>2. GotInv'
  BY DEF CallsInv, GotInv, Dep, IsCached, catalog, decoded, given
<1>3. WaitingInv'
  <2>1. \A o : Reach(o)' = Reach(o)
    BY ReachConstant
  <2>2. QED
    BY <2>1 DEF CallsInv, WaitingInv, Dep, catalog
<1>4. QED
  BY <1>1, <1>2, <1>3 DEF CallsInv

\* An exception a decoder catches: the calls up to its own are as they were.
LEMMA CaughtKeeps ==
    ASSUME TypeOK, CallsInv, UNCHANGED <<catalog, given, decoded, results>>,
           NEW l \in 0..Len(frames), frames' \in Seq(FrameOf(serial)), Len(frames') = l,
           \A j \in 1..l : frames'[j] = frames[j]
    PROVE  CallsInv'
<1> DEFINE n == Len(frames)
<1>1. /\ n \in Nat /\ l \in Nat /\ l <= n /\ DOMAIN frames = 1..n /\ DOMAIN frames' = 1..l
      /\ \A i \in 1..l : i \in 1..n /\ (i < l => i < n /\ i + 1 \in 1..l)
  BY FrameFacts
<1> HIDE DEF n
<1>2. \A i \in 1..l : Dep(i)' = Dep(i)
  BY DEF Dep, catalog
<1>3. GotInv'
  <2>1. ASSUME NEW i \in 1..l
        PROVE  /\ objects'[frames'[i].offset] = 0
               /\ fault'[frames'[i].offset] \notin {"record", "string"}
               /\ Len(frames'[i].got) <= Len(Dep(i)')
               /\ \A k \in 1..Len(frames'[i].got) : frames'[i].got[k] = objects'[Dep(i)'[k]]
               /\ frames'[i].phase = "custom" =>
                     /\ Len(frames'[i].got) = Len(Dep(i)')
                     /\ fault'[frames'[i].offset] # "object"
                     /\ frames'[i].offset \in custom'
    <3>1. i \in DOMAIN frames /\ frames'[i] = frames[i] /\ Dep(i)' = Dep(i)
      BY <1>1, <1>2
    <3>2. objects' = objects /\ fault' = fault /\ custom' = custom
      BY DEF catalog, given, decoded
    <3>3. QED
      BY <3>1, <3>2 DEF CallsInv, GotInv, IsCached
  <2>2. QED
    BY <1>1, <2>1 DEF GotInv, IsCached
<1>4. WaitingInv'
  <2>1. \A o : Reach(o)' = Reach(o)
    BY ReachConstant
  <2>2. ASSUME NEW i \in 1..l, i < l, frames'[i].phase = "dependencies"
        PROVE  /\ Len(frames'[i].got) < Len(Dep(i)')
               /\ frames'[i + 1].offset = Dep(i)'[Len(frames'[i].got) + 1]
    <3>1. i \in DOMAIN frames /\ i < Len(frames) /\ i + 1 \in 1..l
      BY <1>1, <2>2 DEF n
    <3>2. frames'[i] = frames[i] /\ frames'[i + 1] = frames[i + 1] /\ Dep(i)' = Dep(i)
      BY <1>2, <3>1
    <3>3. QED
      BY <2>2, <3>1, <3>2 DEF CallsInv, WaitingInv
  <2>3. ASSUME NEW i \in 1..l, i < l, frames'[i].phase # "dependencies",
               NEW j \in 1..l, i < j, NEW m \in 1..i
        PROVE  frames'[m].offset \notin Reach(frames'[j].offset)
    <3>1. i \in DOMAIN frames /\ j \in DOMAIN frames /\ i < Len(frames) /\ m \in 1..l
      BY <1>1, <2>3 DEF n
    <3>2. frames'[i] = frames[i] /\ frames'[j] = frames[j] /\ frames'[m] = frames[m]
      BY <3>1
    <3>3. QED
      BY <2>3, <3>1, <3>2 DEF CallsInv, WaitingInv
  <2>4. \A j \in 1..l : Reach(frames[j].offset)' = Reach(frames'[j].offset)
    BY <2>1
  <2>5. QED
    BY <1>1, <2>2, <2>3, <2>4 DEF WaitingInv
<1>5. ReachInv'
  <2>1. Reach(Root)' = Reach(Root) /\ Uncustomised' = Uncustomised
    BY ReachRoot DEF Uncustomised, given
  <2>2. QED
    BY <1>1, <2>1 DEF CallsInv, ReachInv
<1>6. QED
  BY <1>3, <1>4, <1>5 DEF CallsInv

\* So whether it is caught or not.
LEMMA RaiseKeeps ==
    ASSUME TypeOK, CallsInv, NEW error, Raise(error)
    PROVE  CallsInv'
<1>1. UNCHANGED <<catalog, given, decoded, results>>
  BY DEF Raise
<1>2. QED
  BY <1>1, RaiseFrames, CaughtKeeps

\* The calls go on with a location one of them was waiting for.
LEMMA ReceiveKeeps ==
    ASSUME TypeOK, TypeOK', CallsInv, UNCHANGED <<catalog, given, results>>,
           NEW callers \in Seq(FrameOf(serial')), NEW v \in 1..serial',
           Len(callers) <= Len(frames),
           \A i \in 1..Len(callers) : callers[i] = frames[i],
           frames' = Receive(callers, v),
           \A x \in Offset : IsCached(x) => objects'[x] = objects[x],
           \A i \in 1..Len(callers) : objects'[frames[i].offset] = 0,
           NEW l, l = Len(callers),
           l # 0 /\ frames[l].phase = "dependencies" =>
               /\ Len(frames[l].got) < Len(Dep(l))
               /\ objects'[Dep(l)[Len(frames[l].got) + 1]] = v
    PROVE  CallsInv'
<1>1. /\ l \in Nat /\ Len(frames) \in Nat /\ l <= Len(frames)
      /\ DOMAIN frames = 1..Len(frames) /\ serial' \in Nat
      /\ DOMAIN frames' = 1..l /\ Len(frames') = l
  <2>1. serial' \in Nat
    BY DEF TypeOK
  <2>2. frames' \in Seq(FrameOf(serial')) /\ Len(frames') = Len(callers)
    BY <2>1, ReceiveFacts
  <2>3. QED
    BY <2>1, <2>2, FrameFacts
<1>2. \A i \in 1..l : /\ frames'[i].offset = frames[i].offset
                      /\ frames'[i].phase = frames[i].phase
                      /\ frames'[i].got = IF i = l /\ frames[i].phase = "dependencies"
                                          THEN Append(frames[i].got, v) ELSE frames[i].got
  BY <1>1, ReceiveFacts
<1>3. \A i \in 1..l : /\ i \in DOMAIN frames
                      /\ frames[i].got \in Seq(1..serial)
                      /\ Dep(i) \in Seq(Offset)
                      /\ Dep(i)' = Dep(i)
  BY <1>1, <1>2, FrameFacts DEF Dep, catalog
<1>4. ASSUME NEW i \in 1..l
      PROVE  /\ ~IsCached(frames[i].offset)'
             /\ fault'[frames'[i].offset] \notin {"record", "string"}
             /\ Len(frames'[i].got) <= Len(Dep(i)')
             /\ \A k \in 1..Len(frames'[i].got) : frames'[i].got[k] = objects'[Dep(i)'[k]]
             /\ frames'[i].phase = "custom" =>
                   /\ Len(frames'[i].got) = Len(Dep(i)')
                   /\ fault'[frames'[i].offset] # "object"
                   /\ frames'[i].offset \in custom'
  <2>1. /\ fault[frames[i].offset] \notin {"record", "string"}
        /\ Len(frames[i].got) <= Len(Dep(i))
        /\ \A k \in 1..Len(frames[i].got) : frames[i].got[k] = objects[Dep(i)[k]]
        /\ frames[i].phase = "custom" =>
              /\ Len(frames[i].got) = Len(Dep(i))
              /\ fault[frames[i].offset] # "object"
              /\ frames[i].offset \in custom
    BY <1>3 DEF CallsInv, GotInv
  <2>2. \A k \in 1..Len(frames[i].got) : frames[i].got[k] = objects'[Dep(i)[k]]
    <3> TAKE k \in 1..Len(frames[i].got)
    <3>1. frames[i].got[k] \in 1..serial /\ serial \in Nat
      <4>1. serial \in Nat
        BY DEF TypeOK
      <4>2. frames[i].got \in Seq(1..serial)
        BY <1>3
      <4>3. frames[i].got[k] \in 1..serial
        BY <4>2, ElementOfSeq
      <4>4. QED
        BY <4>1, <4>3
    <3>2. Dep(i)[k] \in Offset
      BY <1>3, <2>1
    <3>3. IsCached(Dep(i)[k])
      BY <2>1, <3>1, SMTT(30) DEF IsCached
    <3>4. QED
      BY <2>1, <3>2, <3>3
  <2>3. ~IsCached(frames[i].offset)'
    BY <1>2 DEF IsCached
  <2>4. CASE i = l /\ frames[i].phase = "dependencies"
    <3> DEFINE g == frames[i].got
    <3>1. /\ frames'[i].got = Append(g, v) /\ g \in Seq(1..serial)
          /\ frames'[i].phase = "dependencies"
          /\ Len(g) < Len(Dep(i)) /\ objects'[Dep(i)[Len(g) + 1]] = v
      <4>1. frames'[i].got = Append(g, v) /\ frames'[i].phase = "dependencies"
        BY <1>2, <2>4
      <4>2. Len(g) < Len(Dep(i)) /\ objects'[Dep(i)[Len(g) + 1]] = v
        BY <1>1, <2>4
      <4>3. QED
        BY <1>3, <4>1, <4>2
    <3> HIDE DEF g
    <3>2. /\ Len(Append(g, v)) = Len(g) + 1
          /\ Append(g, v)[Len(g) + 1] = v
          /\ \A k \in 1..Len(g) : Append(g, v)[k] = g[k]
          /\ Len(g) \in Nat
      BY <3>1
    <3>3. \A k \in 1..Len(Append(g, v)) : Append(g, v)[k] = objects'[Dep(i)[k]]
      <4> TAKE k \in 1..Len(Append(g, v))
      <4>1. CASE k = Len(g) + 1
        BY <3>1, <3>2, <4>1
      <4>2. CASE k # Len(g) + 1
        <5>1. k \in 1..Len(g)
          BY <3>2, <4>2
        <5>2. QED
          BY <2>2, <3>2, <5>1 DEF g
      <4>3. QED
        BY <4>1, <4>2
    <3>4. Len(Append(g, v)) <= Len(Dep(i))
      <4>1. Len(Dep(i)) \in Nat
        BY <1>3
      <4>2. Len(g) \in Nat /\ Len(g) < Len(Dep(i)) /\ Len(Append(g, v)) = Len(g) + 1
        BY <3>1, <3>2
      <4>3. QED
        BY <4>1, <4>2
    <3>5. QED
      BY <1>2, <1>3, <2>1, <2>3, <3>1, <3>3, <3>4, SMTT(30) DEF catalog, given
  <2>5. CASE ~(i = l /\ frames[i].phase = "dependencies")
    <3>1. frames'[i].got = frames[i].got
      BY <1>2, <2>5
    <3>2. QED
      BY <1>2, <1>3, <2>1, <2>2, <2>3, <3>1 DEF catalog, given
  <2>6. QED
    BY <2>4, <2>5
<1>5. GotInv'
  <2>1. \A i \in 1..l : IsCached(frames[i].offset)' <=> objects'[frames'[i].offset] # 0
    BY DEF IsCached
  <2>2. QED
    BY <1>1, <1>4, <2>1 DEF GotInv, IsCached
<1>6. WaitingInv'
  <2>1. \A o : Reach(o)' = Reach(o)
    BY ReachConstant
  <2>2. ASSUME NEW i \in 1..l, i < l, frames'[i].phase = "dependencies"
        PROVE  /\ Len(frames'[i].got) < Len(Dep(i)')
               /\ frames'[i + 1].offset = Dep(i)'[Len(frames'[i].got) + 1]
    <3>1. i + 1 \in 1..l /\ i < Len(frames) /\ i \in DOMAIN frames
      BY <1>1, <2>2
    <3>2. frames'[i].got = frames[i].got /\ frames[i].phase = "dependencies"
      BY <1>2, <2>2
    <3>3. /\ Len(frames[i].got) < Len(Dep(i))
          /\ frames[i + 1].offset = Dep(i)[Len(frames[i].got) + 1]
      BY <3>1, <3>2 DEF CallsInv, WaitingInv
    <3>4. QED
      BY <1>2, <1>3, <3>1, <3>2, <3>3
  <2>3. ASSUME NEW i \in 1..l, i < l, frames'[i].phase # "dependencies",
               NEW j \in 1..l, i < j, NEW m \in 1..i
        PROVE  frames'[m].offset \notin Reach(frames[j].offset)'
    <3>1. m \in 1..l /\ i \in DOMAIN frames /\ j \in DOMAIN frames /\ i < Len(frames)
      BY <1>1, <2>3
    <3>2. frames[i].phase # "dependencies"
      BY <1>2, <2>3
    <3>3. frames[m].offset \notin Reach(frames[j].offset)
      BY <2>3, <3>1, <3>2 DEF CallsInv, WaitingInv
    <3>4. frames'[j].offset = frames[j].offset /\ frames'[m].offset = frames[m].offset
      BY <1>2, <3>1
    <3>5. Reach(frames[j].offset)' = Reach(frames'[j].offset)
      BY <2>1
    <3>6. QED
      BY <3>3, <3>4, <3>5
  <2>4. QED
    BY <1>1, <2>2, <2>3 DEF WaitingInv
<1>7. ReachInv'
  <2>1. Reach(Root)' = Reach(Root)
    BY ReachRoot
  <2>2. QED
    BY <1>1, <1>2, <1>3, <2>1 DEF CallsInv, ReachInv, Uncustomised, given
<1>8. QED
  BY <1>5, <1>6, <1>7 DEF CallsInv

\* The location found in the cache is the dependency the caller waited for.
LEMMA CallCachedKeeps ==
    ASSUME TypeOK, TypeOK', CallsInv, NEW o \in Offset, CallCached(o)
    PROVE  CallsInv'
<1> DEFINE l == Len(frames)
<1>1. /\ UNCHANGED <<catalog, given, results>> /\ serial' = serial /\ objects' = objects
      /\ frames' = Receive(frames, objects[o])
      /\ frames \in Seq(FrameOf(serial'))
      /\ l \in Nat /\ DOMAIN frames = 1..l
  BY FrameFacts DEF CallCached, decoded
<1>2. objects[o] \in 1..serial'
  BY <1>1 DEF CallCached, IsCached, TypeOK
<1>3. \A i \in 1..l : objects'[frames[i].offset] = 0
  BY <1>1 DEF CallsInv, GotInv, IsCached
<1>4. ASSUME l # 0, frames[l].phase = "dependencies"
      PROVE  /\ Len(frames[l].got) < Len(Dep(l))
             /\ objects'[Dep(l)[Len(frames[l].got) + 1]] = objects[o]
  <2>1. frames # <<>> /\ Top.phase = "dependencies" /\ Dep(l) = deps[Top.offset]
    BY <1>1, <1>4 DEF Top, Dep
  <2>2. DependencyCalls(o)
    BY <2>1 DEF CallCached, Calls, ResourcesCalls, CustomDecoderCalls, LocationDecoderRuns,
       KeyDecoderRuns
  <2>3. QED
    BY <1>1, <2>1, <2>2 DEF DependencyCalls, Top, Dep
<1>5. \A x \in Offset : IsCached(x) => objects'[x] = objects[x]
  BY <1>1
<1>6. \A i \in 1..l : frames[i] = frames[i]
  OBVIOUS
<1> HIDE DEF l
<1>7. QED
  BY <1>1, <1>2, <1>3, <1>4, <1>5, <1>6, ReceiveKeeps DEF l

\* The location just constructed is the dependency the caller waited for.
LEMMA ReturnLocationKeeps ==
    ASSUME TypeOK, TypeOK', CacheInv, CallsInv, ReturnLocation
    PROVE  CallsInv'
<1> DEFINE n == Len(frames)
           l == Len(Outer)
<1>1. /\ n \in Nat \ {0} /\ l = n - 1 /\ Top = frames[n] /\ Top.offset \in Offset
      /\ Outer \in Seq(FrameOf(serial))
      /\ \A i \in 1..l : Outer[i] = frames[i]
  <2>1. frames # <<>>
    BY DEF ReturnLocation, HasDependencies
  <2>2. QED
    BY <2>1, TopFacts
<1>2. /\ UNCHANGED <<catalog, given, results>>
      /\ serial' = serial + 1 /\ serial \in Nat /\ objects \in [Offset -> 0..serial]
      /\ objects' = [objects EXCEPT ![Top.offset] = serial + 1]
      /\ frames' = Receive(Outer, serial')
  BY DEF ReturnLocation, Construct, TypeOK
<1>3. Outer \in Seq(FrameOf(serial')) /\ serial' \in 1..serial'
  BY <1>1, <1>2, WiderFrames
<1>4. /\ ~IsCached(Top.offset)
      /\ \A i \in 1..n - 1 : frames[i].offset # Top.offset
  BY ReturnConstructs, ReturnFacts DEF CallsInv
<1>5. \A x \in Offset : IsCached(x) => objects'[x] = objects[x]
  BY <1>1, <1>2, <1>4
<1>6. ASSUME NEW i \in 1..l
      PROVE  objects'[frames[i].offset] = 0
  <2>1. i \in 1..n /\ i \in 1..n - 1
    BY <1>1
  <2>2. i \in DOMAIN frames /\ frames[i].offset # Top.offset /\ frames[i].offset \in Offset
    BY <1>4, <2>1, FrameFacts
  <2>3. QED
    BY <1>1, <1>2, <2>2 DEF CallsInv, GotInv, IsCached
<1>7. ASSUME l # 0, frames[l].phase = "dependencies"
      PROVE  /\ Len(frames[l].got) < Len(Dep(l))
             /\ objects'[Dep(l)[Len(frames[l].got) + 1]] = serial'
  <2>1. l \in DOMAIN frames /\ l < n /\ l + 1 = n
    BY <1>1, <1>7, FrameFacts
  <2>2. /\ Len(frames[l].got) < Len(Dep(l))
        /\ frames[l + 1].offset = Dep(l)[Len(frames[l].got) + 1]
    BY <1>7, <2>1 DEF CallsInv, WaitingInv
  <2>3. QED
    BY <1>1, <1>2, <2>1, <2>2
<1>8. /\ Len(Outer) <= Len(frames)
      /\ \A i \in 1..Len(Outer) : Outer[i] = frames[i]
      /\ \A i \in 1..Len(Outer) : objects'[frames[i].offset] = 0
      /\ l = Len(Outer)
  BY <1>1, <1>6
<1> HIDE DEF l
<1>9. QED
  BY <1>2, <1>3, <1>5, <1>7, <1>8, ReceiveKeeps

\* The data object of the innermost call is given to its decoder.
LEMMA DataIsCustomKeeps ==
    ASSUME TypeOK, CallsInv, DataIsCustom
    PROVE  CallsInv'
<1> DEFINE n == Len(frames)
<1>1. /\ n \in Nat \ {0} /\ DOMAIN frames = 1..n /\ Top = frames[n]
      /\ frames' = [frames EXCEPT ![n].phase = "custom"]
      /\ UNCHANGED <<catalog, given, decoded, results>>
      /\ \A i \in 1..n : frames[i] \in FrameOf(serial)
  BY TopFacts, FrameFacts DEF DataIsCustom, HasDependencies
<1>2. /\ DOMAIN frames' = 1..n /\ Len(frames') = n
      /\ \A i \in 1..n : /\ frames'[i].offset = frames[i].offset
                         /\ frames'[i].got = frames[i].got
                         /\ i # n => frames'[i].phase = frames[i].phase
  BY <1>1, FrameFacts DEF FrameOf
<1>3. \A i \in 1..n : Dep(i)' = Dep(i)
  BY <1>1, <1>2 DEF Dep, catalog
<1>4. /\ Len(frames[n].got) = Len(Dep(n))
      /\ fault[frames[n].offset] # "object"
      /\ frames[n].offset \in custom
  BY <1>1 DEF DataIsCustom, HasDependencies, Dep
<1>5. GotInv'
  BY <1>1, <1>2, <1>3, <1>4 DEF CallsInv, GotInv, IsCached, catalog, decoded, given
<1>6. WaitingInv'
  <2>1. \A o : Reach(o)' = Reach(o)
    BY <1>1, ReachConstant
  <2>2. QED
    BY <1>1, <1>2, <1>3, <2>1 DEF CallsInv, WaitingInv
<1>7. ReachInv'
  <2>1. Reach(Root)' = Reach(Root)
    BY <1>1, ReachRoot
  <2>2. QED
    BY <1>1, <1>2, <2>1 DEF CallsInv, ReachInv, Uncustomised, given
<1>8. QED
  BY <1>5, <1>6, <1>7 DEF CallsInv

\* A call asks for a location the call that made it leads to, or for one that does
\* not lead back to any call in progress.
LEMMA CalledFacts ==
    ASSUME TypeOK, CallsInv, NEW o \in Offset, Calls(o), ~calls.strayed'
    PROVE  /\ \A i \in 1..Len(frames) : frames[i].phase # "dependencies" =>
                 \A m \in 1..i : frames[m].offset \notin Reach(o)
           /\ frames # <<>> /\ Top.phase = "dependencies" =>
                 /\ Len(Top.got) < Len(deps[Top.offset])
                 /\ o = deps[Top.offset][Len(Top.got) + 1]
                 /\ o \in Children(Top.offset)
           /\ Uncustomised => o \in Reach(Root)
<1> DEFINE n == Len(frames)
<1>1. /\ n \in Nat /\ DOMAIN frames = 1..n /\ (frames # <<>> <=> n # 0)
      /\ \A i \in 1..n : frames[i].offset \in Offset
  BY FrameFacts
<1>2. CASE ResourcesCalls(o)
  BY <1>1, <1>2, ReachFacts DEF ResourcesCalls
<1>3. CASE DependencyCalls(o)
  <2>1. /\ n # 0 /\ n \in DOMAIN frames /\ Top = frames[n] /\ Top.phase = "dependencies"
        /\ Len(Top.got) < Len(deps[Top.offset]) /\ o = deps[Top.offset][Len(Top.got) + 1]
        /\ Top.offset \in Offset /\ Top.got \in Seq(1..serial) /\ deps[Top.offset] \in Seq(Offset)
    BY <1>1, <1>3, TopFacts DEF DependencyCalls
  <2>2. o \in Children(Top.offset)
    <3>1. o \in Range(deps[Top.offset])
      <4>1. Len(Top.got) + 1 \in 1..Len(deps[Top.offset])
        BY <2>1
      <4>2. QED
        BY <2>1, <4>1, DepsType DEF TypeOK
    <3>2. fault[Top.offset] # "record"
      BY <2>1 DEF CallsInv, GotInv
    <3>3. QED
      BY <3>1, <3>2 DEF Children
  <2>3. o \in Reach(Top.offset) /\ Reach(o) \subseteq Reach(Top.offset)
    <3>1. o \in Reach(Top.offset)
      BY <2>1, <2>2, ReachFacts
    <3>2. QED
      BY <3>1, ReachTransitive
  <2>4. \A i \in 1..n : frames[i].phase # "dependencies" =>
            \A m \in 1..i : frames[m].offset \notin Reach(Top.offset)
    BY <1>1, <2>1 DEF CallsInv, WaitingInv
  <2>5. Uncustomised => o \in Reach(Root)
    <3>1. Uncustomised => Top.offset \in Reach(Root)
      BY <2>1 DEF CallsInv, ReachInv
    <3>2. QED
      BY <2>3, <3>1, ReachTransitive
  <2>6. QED
    BY <2>1, <2>2, <2>3, <2>4, <2>5
<1>4. CASE CustomDecoderCalls(o)
  <2>1. Reach(o) \cap InProgress = {}
    <3>1. calls'.strayed = (calls.strayed \/ Reach(o) \cap InProgress # {})
      BY <1>4 DEF CustomDecoderCalls, TypeOK
    <3>2. QED
      BY <3>1, Zenon
  <2>2. \A m \in 1..n : frames[m].offset \notin Reach(o)
    BY <1>1, <2>1 DEF InProgress
  <2>3. CASE LocationDecoderRuns
    <3>1. n # 0 /\ n \in DOMAIN frames /\ Top = frames[n] /\ Top.phase = "custom"
      BY <1>1, <2>3, TopFacts DEF LocationDecoderRuns
    <3>2. ~Uncustomised
      BY <3>1 DEF CallsInv, GotInv, Uncustomised
    <3>3. QED
      BY <1>1, <2>2, <3>1, <3>2
  <2>4. CASE KeyDecoderRuns
    <3>1. ~Uncustomised /\ n = 0
      BY <1>1, <2>4 DEF KeyDecoderRuns, Uncustomised
    <3>2. QED
      BY <1>1, <3>1
  <2>5. QED
    BY <1>4, <2>3, <2>4 DEF CustomDecoderCalls
<1>5. QED
  BY <1>2, <1>3, <1>4 DEF Calls

\* A call is entered: it has nothing yet, and what made it waits for it.
LEMMA CallEnterKeeps ==
    ASSUME TypeOK, CallsInv, NEW o \in Offset, CallEnter(o), ~calls.strayed'
    PROVE  CallsInv'
<1> DEFINE n == Len(frames)
           f == [offset |-> o, got |-> <<>>, phase |-> "dependencies"]
<1>1. /\ n \in Nat /\ DOMAIN frames = 1..n /\ frames \in Seq(FrameOf(serial))
      /\ UNCHANGED <<catalog, given, decoded, results>>
      /\ frames' = Append(frames, f) /\ f \in FrameOf(serial)
      /\ ~IsCached(o) /\ fault[o] \notin {"record", "string"}
  BY FrameFacts DEF CallEnter, FrameOf
<1>2. /\ f.offset = o /\ f.got = <<>> /\ f.phase = "dependencies"
  OBVIOUS
<1> HIDE DEF f
<1>3. /\ DOMAIN frames' = 1..n + 1 /\ Len(frames') = n + 1
      /\ frames'[n + 1] = f
      /\ \A i \in 1..n : frames'[i] = frames[i]
  BY <1>1
<1>4. \A i \in 1..n : Dep(i)' = Dep(i)
  BY <1>1, <1>3 DEF Dep, catalog
<1>5. (\A i \in {n + 1} : Dep(i)' = deps[o]) /\ deps[o] \in Seq(Offset)
  <2>1. frames'[n + 1].offset = o
    BY <1>2, <1>3
  <2>2. \A i \in {n + 1} : Dep(i)' = deps[o]
    BY <1>1, <2>1 DEF Dep, catalog
  <2>3. QED
    BY <2>2 DEF TypeOK, CatalogTypeOK
<1>6. GotInv'
  <2>1. ASSUME NEW i \in 1..n + 1
        PROVE  /\ ~(objects'[frames'[i].offset] # 0)
               /\ fault'[frames'[i].offset] \notin {"record", "string"}
               /\ Len(frames'[i].got) <= Len(Dep(i)')
               /\ \A k \in 1..Len(frames'[i].got) : frames'[i].got[k] = objects'[Dep(i)'[k]]
               /\ frames'[i].phase = "custom" =>
                     /\ Len(frames'[i].got) = Len(Dep(i)')
                     /\ fault'[frames'[i].offset] # "object"
                     /\ frames'[i].offset \in custom'
    <3>1. CASE i = n + 1
      BY <1>1, <1>2, <1>3, <1>5, <3>1 DEF IsCached, catalog, decoded, given
    <3>2. CASE i # n + 1
      <4>1. i \in 1..n /\ i \in DOMAIN frames
        BY <1>1, <3>2
      <4>2. QED
        BY <1>1, <1>3, <1>4, <4>1 DEF CallsInv, GotInv, IsCached, catalog, decoded, given
    <3>3. QED
      BY <3>1, <3>2
  <2>2. QED
    BY <1>3, <2>1 DEF GotInv, IsCached
<1>7. WaitingInv'
  <2>1. \A x : Reach(x)' = Reach(x)
    BY <1>1, ReachConstant
  <2>2. Calls(o)
    BY DEF CallEnter
  <2>3. ASSUME NEW i \in 1..n, frames[i].phase = "dependencies"
        PROVE  /\ Len(frames[i].got) < Len(Dep(i))
               /\ frames'[i + 1].offset = Dep(i)[Len(frames[i].got) + 1]
    <3>1. CASE i = n
      <4>1. frames # <<>> /\ Top = frames[n] /\ Dep(n) = deps[Top.offset]
        BY <1>1, <3>1 DEF Top, Dep
      <4>2. QED
        BY <1>2, <1>3, <2>2, <2>3, <3>1, <4>1, CalledFacts
    <3>2. CASE i # n
      <4>1. i < n /\ i \in DOMAIN frames /\ i + 1 \in 1..n
        <5>1. n \in Nat /\ i \in 1..n /\ i # n /\ DOMAIN frames = 1..n
          BY <1>1, <3>2
        <5> HIDE DEF n
        <5>2. QED
          BY <5>1
      <4>2. QED
        BY <1>3, <2>3, <4>1 DEF CallsInv, WaitingInv
    <3>3. QED
      BY <3>1, <3>2
  <2>4. ASSUME NEW i \in 1..n, frames[i].phase # "dependencies",
               NEW j \in 1..n + 1, i < j, NEW m \in 1..i
        PROVE  frames'[m].offset \notin Reach(frames'[j].offset)
    <3>1. m \in 1..n /\ frames'[m] = frames[m]
      BY <1>1, <1>3
    <3>2. CASE j = n + 1
      BY <1>2, <1>3, <2>2, <2>4, <3>1, <3>2, CalledFacts
    <3>3. CASE j # n + 1
      <4>1. j \in 1..n /\ i < n
        BY <1>1, <2>4, <3>3
      <4>2. frames[m].offset \notin Reach(frames[j].offset)
        BY <1>1, <2>4, <4>1 DEF CallsInv, WaitingInv
      <4>3. QED
        BY <1>3, <3>1, <4>1, <4>2
    <3>4. QED
      BY <3>2, <3>3
  <2>5. ASSUME NEW i \in 1..n + 1, i < n + 1
        PROVE  i \in 1..n /\ frames'[i] = frames[i] /\ Dep(i)' = Dep(i)
    BY <1>1, <1>3, <1>4, <2>5
  <2>6. ASSUME NEW j \in 1..n + 1
        PROVE  Reach(frames[j].offset)' = Reach(frames'[j].offset)
    BY <2>1
  <2>7. QED
    BY <1>3, <2>3, <2>4, <2>5, <2>6, SMTT(30) DEF WaitingInv
<1>8. ReachInv'
  <2>1. Reach(Root)' = Reach(Root)
    BY <1>1, ReachRoot
  <2>2. Uncustomised => o \in Reach(Root)
    BY CalledFacts DEF CallEnter
  <2>3. Uncustomised' = Uncustomised
    BY <1>1 DEF Uncustomised, given
  <2>4. QED
    BY <1>1, <1>2, <1>3, <2>1, <2>2, <2>3 DEF CallsInv, ReachInv
<1>9. QED
  BY <1>6, <1>7, <1>8 DEF CallsInv

\* What a step of a disciplined parse does to the calls.
LEMMA CallsStep ==
    ASSUME TypeOK, TypeOK', CacheInv, CallsInv, value # 0 => frames = <<>>,
           [Next]_vars, ~calls.strayed'
    PROVE  CallsInv'
<1>1. UNCHANGED <<catalog, given>>
  BY CatalogConstant
<1>2. CASE UNCHANGED vars
  BY <1>2, SameCalls DEF vars
<1>3. ASSUME NEW o \in Offset, CallTooDeep(o) \/ CallDamaged(o)
      PROVE  CallsInv'
  BY <1>3, RaiseKeeps DEF CallTooDeep, CallDamaged
<1>4. ASSUME NEW o \in Offset, CallCached(o) \/ CallEnter(o)
      PROVE  CallsInv'
  BY <1>4, CallCachedKeeps, CallEnterKeeps
<1>5. CASE DataUnsupported \/ DecoderRaises
  BY <1>5, RaiseKeeps DEF DataUnsupported, DecoderRaises
<1>6. CASE DataIsCustom \/ ReturnLocation
  BY <1>6, DataIsCustomKeeps, ReturnLocationKeeps
<1>7. CASE ResourcesAppend
  BY <1>7, NoCalls DEF ResourcesAppend
<1>8. CASE Finish
  BY <1>8, NoCalls DEF Finish
<1>9. ASSUME NEW o \in Offset
      PROVE  ~(DecoderPuts(o) \/ DecoderRemoves(o))
  BY WritesStray
<1>10. QED
  BY <1>2, <1>3, <1>4, <1>5, <1>6, <1>7, <1>8, <1>9 DEF Next

-----------------------------------------------------------------------------
(* The loop over the key table. *)

\* A call is made with nothing delivered to the loop; a call of the loop itself, and
\* of what it called, while an entry of the key table is being served.
LEMMA CallsWhen ==
    ASSUME ControlInv, NEW o, Calls(o)
    PROVE  /\ outcome = "running" /\ value = 0
           /\ asker' = "table" => Len(results) < Len(roots)
           /\ frames # <<>> => asker' = asker
           /\ frames = <<>> /\ asker' = "table" => o = Root
BY DEF Calls, ResourcesCalls, DependencyCalls, CustomDecoderCalls, LocationDecoderRuns,
       KeyDecoderRuns, ControlInv

\* After an exception, caught or not, the loop stands where it stood.
LEMMA RaiseControl ==
    ASSUME TypeOK, ControlInv, NEW error \in {"read", "unsupported", "recursion", "custom"},
           Raise(error), frames # <<>> => asker' = asker
    PROVE  ControlInv'
<1>1. UNCHANGED <<results, value, objects, roots>> /\ Root' = Root
  BY DEF Raise, Root, catalog, decoded
<1>2. CASE frames' = <<>>
  <2>1. outcome' = "done" => outcome = "done"
    BY DEF Raise
  <2>2. QED
    BY <1>1, <1>2, <2>1 DEF ControlInv
<1>3. CASE frames' # <<>>
  <2>1. PICK i \in DOMAIN frames : frames' = SubSeq(frames, 1, i)
    BY <1>3 DEF Raise
  <2>2. outcome' = outcome
    BY <1>3 DEF Raise
  <2>3. Len(frames) \in Nat /\ frames # <<>>
    BY <2>1, FrameFacts
  <2>4. frames'[1] = frames[1]
    <3>1. PICK l \in 0..Len(frames) : /\ frames' \in Seq(FrameOf(serial)) /\ Len(frames') = l
                                     /\ \A j \in 1..l : frames'[j] = frames[j]
      BY RaiseFrames
    <3>2. l # 0
      BY <1>3, <3>1
    <3>3. 1 \in 1..l
      BY <2>3, <3>2
    <3>4. QED
      BY <3>1, <3>3
  <2>5. QED
    BY <1>1, <2>2, <2>3, <2>4 DEF ControlInv
<1>4. QED
  BY <1>2, <1>3

\* Where the loop stands after a step.
LEMMA ControlStep ==
    ASSUME TypeOK, TypeOK', ControlInv, [Next]_vars, ~calls.strayed'
    PROVE  ControlInv'
<1>1. UNCHANGED <<catalog, given>> /\ roots' = roots
  BY CatalogConstant DEF catalog
<1>2. \A v : Receive(<<>>, v) = <<>>
  BY DEF Receive
<1>3. CASE UNCHANGED vars
  BY <1>3 DEF vars, catalog, decoded, ControlInv, Root
<1>4. ASSUME NEW o \in Offset, CallTooDeep(o) \/ CallDamaged(o)
      PROVE  ControlInv'
  BY <1>4, CallsWhen, RaiseControl DEF CallTooDeep, CallDamaged
<1>5. ASSUME NEW o \in Offset, CallCached(o)
      PROVE  ControlInv'
  <2>1. /\ outcome = "running" /\ asker' = "table" => Len(results) < Len(roots)
        /\ frames # <<>> => asker' = asker
        /\ frames = <<>> /\ asker' = "table" => o = Root
    BY <1>5, CallsWhen DEF CallCached
  <2>2. outcome = "running"
    BY <1>5 DEF CallCached, Calls
  <2>3. /\ UNCHANGED <<results, outcome>> /\ Root' = Root /\ objects' = objects
        /\ frames' = Receive(frames, objects[o])
        /\ value' = IF frames = <<>> /\ asker' = "table" THEN objects[o] ELSE 0
    BY <1>1, <1>5 DEF CallCached, decoded, Root
  <2>4. CASE frames = <<>>
    <3>1. frames' = <<>>
      BY <1>2, <2>3, <2>4
    <3>2. asker' = "table" => o = Root /\ Len(results) < Len(roots)
      BY <1>5, <2>1, <2>4, CallsWhen DEF CallCached
    <3>3. QED
      BY <1>1, <2>2, <2>3, <2>4, <3>1, <3>2 DEF ControlInv
  <2>5. CASE frames # <<>>
    <3>1. asker = "table" => frames[1].offset = Root /\ Len(results) < Len(roots)
      BY <2>5 DEF ControlInv
    <3>2. objects[o] \in 1..serial /\ serial \in Nat
      BY <1>5 DEF CallCached, IsCached, TypeOK
    <3>3. Len(frames) \in Nat \ {0} /\ frames \in Seq(FrameOf(serial))
      BY <2>5, FrameFacts
    <3>4. frames'[1].offset = frames[1].offset
      BY <2>3, <3>2, <3>3, ReceiveFacts
    <3>5. asker' = asker
      BY <2>1, <2>5
    <3>6. QED
      BY <1>1, <2>2, <2>3, <2>5, <3>1, <3>4, <3>5 DEF ControlInv
  <2>6. QED
    BY <2>4, <2>5
<1>6. ASSUME NEW o \in Offset, CallEnter(o)
      PROVE  ControlInv'
  <2> DEFINE f == [offset |-> o, got |-> <<>>, phase |-> "dependencies"]
  <2>1. /\ outcome = "running" /\ value = 0
        /\ asker' = "table" => Len(results) < Len(roots)
        /\ frames # <<>> => asker' = asker
        /\ frames = <<>> /\ asker' = "table" => o = Root
    BY <1>6, CallsWhen DEF CallEnter
  <2>2. /\ UNCHANGED <<results, outcome, value>> /\ Root' = Root /\ frames' = Append(frames, f)
        /\ f.offset = o /\ f \in FrameOf(serial)
    BY <1>1, <1>6 DEF CallEnter, Root, FrameOf
  <2> HIDE DEF f
  <2>3. frames \in Seq(FrameOf(serial)) /\ Len(frames) \in Nat
    BY FrameFacts
  <2>4. asker' = "table" => frames'[1].offset = Root
    <3>1. CASE frames = <<>>
      <4>1. asker' = "table" => o = Root
        BY <2>1, <3>1
      <4>2. frames'[1] = f
        BY <2>2, <3>1
      <4>3. QED
        BY <2>2, <4>1, <4>2
    <3>2. CASE frames # <<>>
      <4>1. frames'[1] = frames[1]
        BY <2>2, <2>3, <3>2
      <4>2. asker' = asker
        BY <2>1, <3>2
      <4>3. QED
        BY <3>2, <4>1, <4>2 DEF ControlInv
    <3>3. QED
      BY <3>1, <3>2
  <2>5. QED
    BY <1>1, <2>1, <2>2, <2>4 DEF ControlInv
<1>7. CASE DataUnsupported \/ DecoderRaises
  <2>1. frames # <<>> => asker' = asker
    BY <1>7 DEF DataUnsupported, DecoderRaises, LocationDecoderRuns, KeyDecoderRuns
  <2>2. QED
    BY <1>7, <2>1, RaiseControl DEF DataUnsupported, DecoderRaises
<1>8. CASE DataIsCustom
  <2>1. /\ UNCHANGED <<results, outcome, value, objects, asker>> /\ Root' = Root
        /\ frames # <<>> /\ outcome = "running"
        /\ frames' = [frames EXCEPT ![Len(frames)].phase = "custom"]
    BY <1>1, <1>8 DEF DataIsCustom, HasDependencies, decoded, Root
  <2>2. frames'[1].offset = frames[1].offset
    <3>1. 1 \in 1..Len(frames) /\ DOMAIN frames = 1..Len(frames) /\ frames[1] \in FrameOf(serial)
      BY <2>1, FrameFacts
    <3>2. QED
      BY <2>1, <3>1 DEF FrameOf
  <2>3. QED
    BY <1>1, <2>1, <2>2 DEF ControlInv
<1>9. CASE ReturnLocation
  <2> DEFINE n == Len(frames)
  <2>1. /\ frames # <<>> /\ outcome = "running" /\ UNCHANGED <<results, outcome, asker>>
        /\ Root' = Root
        /\ objects' = [objects EXCEPT ![Top.offset] = serial + 1]
        /\ frames' = Receive(Outer, serial + 1)
        /\ value' = IF Outer = <<>> /\ asker = "table" THEN serial + 1 ELSE 0
        /\ serial \in Nat /\ DOMAIN objects = Offset
    BY <1>1, <1>9 DEF ReturnLocation, HasDependencies, Construct, Root, TypeOK
  <2>2. /\ n \in Nat \ {0} /\ Top = frames[n] /\ Top.offset \in Offset
        /\ Outer \in Seq(FrameOf(serial)) /\ Len(Outer) = n - 1
        /\ \A i \in 1..n - 1 : Outer[i] = frames[i]
        /\ Outer = <<>> <=> n = 1
    BY <2>1, TopFacts
  <2>3. asker = "table" => Len(results) < Len(roots) /\ frames[1].offset = Root
    BY <2>1 DEF ControlInv
  <2>4. CASE Outer = <<>>
    <3>1. frames' = <<>>
      BY <1>2, <2>1, <2>4
    <3>2. asker = "table" => value' = objects'[Root]
      BY <2>1, <2>2, <2>3, <2>4
    <3>3. QED
      BY <1>1, <2>1, <2>3, <3>1, <3>2 DEF ControlInv
  <2>5. CASE Outer # <<>>
    <3>1. 1 \in 1..Len(Outer) /\ 1 \in 1..n - 1
      BY <2>2, <2>5
    <3>2. Outer \in Seq(FrameOf(serial + 1)) /\ serial + 1 \in 1..serial + 1 /\ serial + 1 \in Nat
      BY <2>1, <2>2, WiderFrames
    <3>3. frames'[1].offset = Outer[1].offset
      BY <2>1, <3>1, <3>2, ReceiveFacts
    <3>4. QED
      BY <1>1, <2>1, <2>2, <2>3, <2>5, <3>1, <3>3 DEF ControlInv
  <2>6. QED
    BY <2>4, <2>5
<1>10. CASE ResourcesAppend
  BY <1>1, <1>10 DEF ResourcesAppend, ControlInv
<1>11. CASE Finish
  BY <1>1, <1>11 DEF Finish, ControlInv
<1>12. ASSUME NEW o \in Offset
       PROVE  ~(DecoderPuts(o) \/ DecoderRemoves(o))
  BY WritesStray
<1>13. QED
  BY <1>3, <1>4, <1>5, <1>6, <1>7, <1>8, <1>9, <1>10, <1>11, <1>12 DEF Next

\* A delivered object is the cached one, and stays so: the cache is write-once.
LEMMA ResultsStep ==
    ASSUME TypeOK, CacheInv, CallsInv, ControlInv, ResultsInv, [Next]_vars, ~calls.strayed'
    PROVE  ResultsInv'
<1>1. roots' = roots /\ Len(results) \in Nat /\ results \in Seq(1..serial)
      /\ roots \in Seq(Offset) /\ serial \in Nat
  BY CatalogConstant DEF catalog, TypeOK, CatalogTypeOK
<1>2. \A x \in Offset : objects[x] # 0 => objects'[x] = objects[x]
  BY CacheStep DEF CallsInv, IsCached
<1>3. \A k \in 1..Len(results) : results[k] = objects'[roots[k]]
  <2> TAKE k \in 1..Len(results)
  <2>1. roots[k] \in Offset /\ results[k] \in 1..serial /\ results[k] = objects[roots[k]]
    BY <1>1 DEF ResultsInv
  <2>2. QED
    BY <1>1, <1>2, <2>1
<1>4. CASE UNCHANGED results
  BY <1>1, <1>3, <1>4 DEF ResultsInv
<1>5. CASE ResourcesAppend
  <2>1. /\ value # 0 /\ results' = Append(results, value) /\ UNCHANGED objects
        /\ Len(results) < Len(roots) /\ value = objects[roots[Len(results) + 1]]
        /\ value \in 1..serial
    BY <1>5 DEF ResourcesAppend, ControlInv, Root, decoded, TypeOK
  <2>2. /\ Len(results') = Len(results) + 1
        /\ results'[Len(results) + 1] = value
        /\ \A k \in 1..Len(results) : results'[k] = results[k]
    BY <1>1, <2>1
  <2>3. ASSUME NEW k \in 1..Len(results')
        PROVE  results'[k] = objects'[roots'[k]]
    <3>1. CASE k = Len(results) + 1
      BY <1>1, <2>1, <2>2, <3>1
    <3>2. CASE k # Len(results) + 1
      <4>1. k \in 1..Len(results)
        BY <1>1, <2>2, <3>2
      <4>2. QED
        BY <1>1, <1>3, <2>2, <4>1
    <3>3. QED
      BY <3>1, <3>2
  <2>4. QED
    BY <1>1, <2>1, <2>2, <2>3 DEF ResultsInv
<1>6. QED
  BY <1>4, <1>5 DEF Next, vars, CallTooDeep, CallCached, CallDamaged, CallEnter,
     DataUnsupported, DataIsCustom, DecoderRaises, WritesCache, DecoderPuts, DecoderRemoves,
     ReturnLocation, Finish, Raise

\* Without custom decoders none runs.
LEMMA NoDecoder ==
    ASSUME TypeOK, GotInv, Uncustomised
    PROVE  ~LocationDecoderRuns /\ ~KeyDecoderRuns
<1>1. ASSUME LocationDecoderRuns
      PROVE  FALSE
  <2>1. frames # <<>> /\ Top.phase = "custom"
    BY <1>1 DEF LocationDecoderRuns
  <2>2. Len(frames) \in DOMAIN frames /\ frames[Len(frames)].phase = "custom"
    BY <2>1, TopFacts, FrameFacts
  <2>3. QED
    BY <2>2 DEF GotInv, Uncustomised
<1>2. QED
  BY <1>1 DEF KeyDecoderRuns, Uncustomised

\* So none can stray, and only the loop asks for locations.
LEMMA StrayStep ==
    ASSUME TypeOK, GotInv, ~calls.strayed, asker = "table", [Next]_vars, Uncustomised
    PROVE  ~calls.strayed' /\ asker' = "table"
<1>1. ~LocationDecoderRuns /\ ~KeyDecoderRuns
  BY NoDecoder
<1>2. \A o : ~CustomDecoderCalls(o) /\ ~DecoderPuts(o) /\ ~DecoderRemoves(o)
  BY <1>1 DEF CustomDecoderCalls, DecoderPuts, DecoderRemoves, WritesCache
<1>3. ~DecoderRaises
  BY <1>1 DEF DecoderRaises
<1>4. calls' = calls /\ asker' = "table"
  BY <1>2, <1>3 DEF Next, vars, CallTooDeep, CallCached, CallDamaged, CallEnter, Calls,
     ResourcesCalls, DependencyCalls, DataUnsupported, DataIsCustom, ReturnLocation,
     ResourcesAppend, Finish
<1>5. QED
  BY <1>4

-----------------------------------------------------------------------------
(* RecursionError. *)



\* The instance reads the same catalog.
LEMMA PromiseSame ==
    /\ Promise!Root = Root
    /\ \A o : Promise!Reach(o) = Reach(o)
    /\ \A C : Promise!Stuck(C) <=> Stuck(C)
    /\ \A o : Promise!Children(o) = Children(o)
<1>1. Promise!Root = Root
  BY DEF Promise!Root, Root
<1>2. \A o : Promise!Children(o) = Children(o)
  BY DEF Promise!Children, Children, Promise!Range, Range
<1>3. \A S : Promise!Closed(S) <=> Closed(S)
  BY <1>2 DEF Promise!Closed, Closed
<1>4. \A o : Promise!Reach(o) = Reach(o)
  BY <1>3 DEF Promise!Reach, Reach
<1>5. \A C : Promise!Stuck(C) <=> Stuck(C)
  BY <1>2 DEF Promise!Stuck, Stuck
<1>6. QED
  BY <1>1, <1>2, <1>4, <1>5

\* What each call in progress, with the one about to be made, leads to in one step.
Path(o) == [i \in 1..Len(frames) + 1 |-> IF i = Len(frames) + 1 THEN o ELSE frames[i].offset]

\* The calls in progress form a path, and only a custom decoder may leave it.
LEMMA PathFacts ==
    ASSUME TypeOK, CallsInv, NEW o \in Offset, Calls(o), ~calls.strayed'
    PROVE  /\ Path(o) \in [1..Len(frames) + 1 -> Offset]
           /\ \A i \in 1..Len(frames) : frames[i].phase = "dependencies" =>
                 Path(o)[i + 1] \in Children(Path(o)[i])
<1> DEFINE n == Len(frames)
<1>1. /\ n \in Nat /\ DOMAIN frames = 1..n
      /\ \A i \in 1..n : /\ frames[i].offset \in Offset
                         /\ Dep(i) \in Seq(Offset)
                         /\ frames[i].got \in Seq(1..serial)
  BY FrameFacts
<1>2. \A i \in 1..n + 1 : Path(o)[i] = IF i = n + 1 THEN o ELSE frames[i].offset
  BY DEF Path
<1>3. \A i \in 1..n : Path(o)[i] = frames[i].offset
  <2>1. \A i \in 1..n : i \in 1..n + 1 /\ i # n + 1
    BY <1>1
  <2>2. QED
    BY <1>2, <2>1
<1>4. Path(o) \in [1..n + 1 -> Offset]
  BY <1>1 DEF Path
<1>6. ASSUME NEW i \in 1..n, frames[i].phase = "dependencies"
      PROVE  Path(o)[i + 1] \in Children(Path(o)[i])
  <2>1. CASE i = n
    <3>1. frames # <<>> /\ Top = frames[n]
      BY <1>1, <2>1 DEF Top
    <3>2. o \in Children(Top.offset)
      BY <1>6, <2>1, <3>1, CalledFacts
    <3>3. QED
      BY <1>1, <1>2, <1>3, <2>1, <3>1, <3>2
  <2>2. CASE i # n
    <3>1. i \in DOMAIN frames /\ i < n /\ i + 1 \in 1..n
      <4>1. n \in Nat /\ i \in 1..n /\ i # n /\ DOMAIN frames = 1..n
        BY <1>1, <2>2
      <4> HIDE DEF n
      <4>2. QED
        BY <4>1
    <3>2. /\ Len(frames[i].got) < Len(Dep(i))
          /\ frames[i + 1].offset = Dep(i)[Len(frames[i].got) + 1]
      BY <1>6, <3>1 DEF CallsInv, WaitingInv
    <3>3. Len(frames[i].got) + 1 \in 1..Len(Dep(i))
      BY <1>1, <3>2
    <3>4. frames[i + 1].offset \in Range(deps[frames[i].offset])
      BY <1>1, <3>2, <3>3, DepsType DEF TypeOK, Dep
    <3>5. fault[frames[i].offset] # "record"
      BY <3>1 DEF CallsInv, GotInv
    <3>6. QED
      BY <1>3, <3>1, <3>4, <3>5 DEF Children
  <2>3. QED
    BY <2>1, <2>2
<1>7. QED
  BY <1>4, <1>6

\* A call there is no room for ends a path longer than the limit.
LEMMA TooDeepIsDeep ==
    ASSUME TypeOK, CallsInv, ControlInv, NEW o \in Offset, CallTooDeep(o), ~calls.strayed',
           Uncustomised, asker' = "table"
    PROVE  Promise!Deep(Root, limit + 1)
<1> DEFINE n == Len(frames)
           p == Path(o)
<1>1. n \in Nat \ {0} /\ n = limit /\ Calls(o)
  BY FrameFacts DEF CallTooDeep, TypeOK
<1>2. /\ p \in [1..n + 1 -> Offset]
      /\ \A i \in 1..n : frames[i].phase = "dependencies" => p[i + 1] \in Children(p[i])
  BY <1>1, PathFacts
<1>3. \A i \in 1..n : frames[i].phase = "dependencies"
  BY FrameFacts DEF CallsInv, GotInv, Uncustomised
<1>4. p[1] = Root
  <2>1. p[1] = frames[1].offset
    BY <1>1 DEF Path
  <2>2. frames # <<>>
    BY <1>1, FrameFacts
  <2>3. asker = "table"
    BY <1>1, <2>2, CallsWhen
  <2>4. QED
    BY <2>1, <2>2, <2>3 DEF ControlInv
<1> HIDE DEF p
<1>5. \A i \in 1..(limit + 1) - 1 : p[i + 1] \in Promise!Children(p[i])
  <2>1. \A i \in 1..(limit + 1) - 1 : i \in 1..n
    BY <1>1
  <2>2. QED
    BY <1>2, <1>3, <2>1, PromiseSame
<1>6. QED
  BY <1>1, <1>2, <1>4, <1>5 DEF Promise!Deep

\* Every step keeps what RecursionError stands for.
LEMMA DepthStep ==
    ASSUME TypeOK, CallsInv, ControlInv, DepthInv, ~calls.strayed, [Next]_vars, ~calls.strayed'
    PROVE  DepthInv'
<1> SUFFICES ASSUME Uncustomised
             PROVE  /\ asker' = "table"
                    /\ outcome' = "recursion" =>
                          Len(results') < Len(roots') /\ Promise!Deep(Root, limit + 1)'
  <2>1. Uncustomised' = Uncustomised
    BY CatalogConstant DEF Uncustomised, given
  <2>2. QED
    BY <2>1 DEF DepthInv
<1>1. asker = "table" /\ asker' = "table"
  BY StrayStep DEF DepthInv, CallsInv
<1>2. UNCHANGED <<catalog, given>>
  BY CatalogConstant
<1> SUFFICES ASSUME outcome' = "recursion"
             PROVE  Len(results') < Len(roots') /\ Promise!Deep(Root, limit + 1)'
  BY <1>1
<1>3. ASSUME results' = results, Len(results) < Len(roots), Promise!Deep(Root, limit + 1)
      PROVE  Len(results') < Len(roots') /\ Promise!Deep(Root, limit + 1)'
  <2>1. roots' = roots /\ Root' = Root /\ limit' = limit
    BY <1>2, <1>3 DEF catalog, given, Root
  <2>2. \A x : Promise!Children(x)' = Promise!Children(x)
    BY <1>2 DEF catalog, Promise!Children, Promise!Range
  <2>3. QED
    BY <1>3, <2>1, <2>2 DEF Promise!Deep
<1>4. CASE UNCHANGED <<results, outcome>>
  BY <1>3, <1>4 DEF DepthInv
<1>5. ASSUME NEW o \in Offset, CallTooDeep(o)
      PROVE  Len(results') < Len(roots') /\ Promise!Deep(Root, limit + 1)'
  <2>1. Promise!Deep(Root, limit + 1)
    BY <1>1, <1>5, TooDeepIsDeep
  <2>2. Len(results) < Len(roots) /\ results' = results
    BY <1>1, <1>5, CallsWhen DEF CallTooDeep, Raise
  <2>3. QED
    BY <1>3, <2>1, <2>2
<1>6. ASSUME NEW o \in Offset, CallDamaged(o)
      PROVE  UNCHANGED <<results, outcome>>
  BY <1>6 DEF CallDamaged, Raise
<1>7. CASE DataUnsupported \/ DecoderRaises
  <2>1. UNCHANGED <<results, outcome>>
    BY <1>7 DEF DataUnsupported, DecoderRaises, Raise
  <2>2. QED
    BY <1>4, <2>1
<1>8. CASE ResourcesAppend \/ Finish
  <2>1. outcome' # "recursion"
    BY <1>8 DEF ResourcesAppend, Finish
  <2>2. QED
    BY <2>1
<1>9. CASE UNCHANGED vars \/ DataIsCustom \/ ReturnLocation
  <2>1. UNCHANGED <<results, outcome>>
    BY <1>9 DEF vars, DataIsCustom, ReturnLocation
  <2>2. QED
    BY <1>4, <2>1
<1>10. ASSUME NEW o \in Offset, CallCached(o) \/ CallEnter(o) \/ DecoderPuts(o) \/ DecoderRemoves(o)
       PROVE  UNCHANGED <<results, outcome>>
  BY <1>10 DEF CallCached, CallEnter, DecoderPuts, DecoderRemoves, WritesCache
<1>11. QED
  BY <1>4, <1>5, <1>6, <1>7, <1>8, <1>9, <1>10 DEF Next

-----------------------------------------------------------------------------
(* The theorems. *)

\* Before the first call the invariant holds.
LEMMA InitInv == Init => TypeOK /\ DisciplinedInv
<1> SUFFICES ASSUME Init PROVE TypeOK /\ DisciplinedInv
  OBVIOUS
<1>1. TypeOK
  <2>1. /\ limit \in Nat \ {0} /\ custom \subseteq Offset /\ keyed \in BOOLEAN /\ MaxCalls \in Nat
    BY RecursionAssumption DEF Init
  <2>2. <<>> \in Seq(Frame) /\ Len(<<>>) <= limit
    BY <2>1
  <2>3. [made |-> 0, strayed |-> FALSE, wrote |-> {}] \in CallsType
    BY <2>1 DEF CallsType
  <2>4. QED
    BY <2>1, <2>2, <2>3, CatalogTyped DEF Init, TypeOK, CallsType
<1>2. CacheInv /\ ResultsInv
  BY <1>1 DEF Init, CacheInv, ResultsInv, IsCached, TypeOK, CatalogTypeOK
<1>3. ControlInv /\ GotInv /\ WaitingInv /\ ReachInv /\ DepthInv
  BY DEF Init, ControlInv, GotInv, WaitingInv, ReachInv, DepthInv
<1>4. ~calls.strayed
  BY DEF Init
<1>5. QED
  BY <1>1, <1>2, <1>3, <1>4 DEF DisciplinedInv

\* The invariant is inductive.
LEMMA StepInv ==
    ASSUME TypeOK, DisciplinedInv, [Next]_vars
    PROVE  TypeOK' /\ DisciplinedInv'
<1>1. TypeOK'
  BY TypeStep
<1>2. Uncustomised' => ~calls.strayed'
  <2>1. Uncustomised' = Uncustomised
    BY CatalogConstant DEF Uncustomised, given
  <2>2. QED
    BY <2>1, StrayStep DEF DisciplinedInv, DepthInv
<1>3. ASSUME ~calls.strayed'
      PROVE  /\ CacheInv' /\ ResultsInv' /\ ControlInv'
             /\ GotInv' /\ WaitingInv' /\ ReachInv' /\ DepthInv'
  <2>1. /\ CacheInv /\ ResultsInv /\ ControlInv /\ CallsInv /\ GotInv /\ WaitingInv
        /\ DepthInv /\ ~calls.strayed
        /\ value # 0 => frames = <<>>
    BY <1>3, StrayedForGood DEF DisciplinedInv, CallsInv, ControlInv
  <2>2. CacheInv' /\ ResultsInv' /\ ControlInv' /\ CallsInv' /\ DepthInv'
    BY <1>1, <1>3, <2>1, CacheStep, ResultsStep, ControlStep, CallsStep, DepthStep
  <2>3. QED
    BY <2>2 DEF CallsInv
<1>4. QED
  BY <1>1, <1>2, <1>3 DEF DisciplinedInv

\* The variables keep their types, and while no decoder has strayed the inductive
\* invariant of the recursion holds, whatever the catalog and the recursion limit.
THEOREM RecursionInvariant == Spec => [](TypeOK /\ DisciplinedInv)
BY InitInv, StepInv, PTL DEF Spec

\* Every variable of the traversal keeps its type; the call stack stays within the
\* recursion limit.
THEOREM TypeCorrect == Spec => []TypeOK
BY RecursionInvariant, PTL

\* As long as no custom decoder strays, writing a cache entry itself or asking for a
\* location that leads back to one in progress,
\* every reference to an offset is a reference to the one object cached for it.
THEOREM OneObjectPerOffset == Spec => []DisciplinedIdentity
<1>1. TypeOK /\ DisciplinedInv => DisciplinedIdentity
  BY DEF DisciplinedInv, CacheInv, ResultsInv, IsCached, DisciplinedIdentity,
         SharedIdentity, Promise!SharedIdentity
<1>2. QED
  BY <1>1, RecursionInvariant, PTL

\* The cache is closed under dependencies, so it holds all a cached root leads to.
LEMMA ReachIsCached ==
    ASSUME TypeOK, CacheInv, NEW r \in Offset, IsCached(r)
    PROVE  \A o \in Reach(r) : o \in Offset /\ IsCached(o)
<1> DEFINE S == {o \in Offset : IsCached(o)}
<1>1. \A o \in S : Children(o) = Range(deps[o]) /\ Range(deps[o]) \subseteq S
  BY DepsType DEF TypeOK, CacheInv, Children
<1>2. Closed(S) /\ S \in SUBSET Offset /\ r \in S
  BY <1>1 DEF Closed
<1> HIDE DEF S
<1>3. Reach(r) \subseteq S
  BY <1>2, ClosedHoldsReach
<1>4. QED
  BY <1>3 DEF S

\* As long as no custom decoder strays, a parse that ends well has decoded everything
\* below every requested location, in an order that shows that part to be acyclic.
THEOREM AcceptedIsDecoded == Spec => []DisciplinedDecoding
<1>1. ASSUME TypeOK, DisciplinedInv, ~calls.strayed, outcome = "done",
             NEW k \in 1..Len(roots), NEW o \in Reach(roots[k])
      PROVE  /\ objects[o] # 0
             /\ fault[o] = "none"
             /\ \A d \in Children(o) : 0 < objects[d] /\ objects[d] < objects[o]
  <2>1. CacheInv /\ ResultsInv /\ ControlInv
    BY <1>1 DEF DisciplinedInv
  <2>2. roots[k] \in Offset /\ k \in 1..Len(results) /\ results[k] \in 1..serial /\ serial \in Nat
    <3>1. roots \in Seq(Offset) /\ results \in Seq(1..serial) /\ serial \in Nat
      BY <1>1 DEF TypeOK, CatalogTypeOK
    <3>2. Len(results) = Len(roots)
      BY <1>1, <2>1 DEF ControlInv
    <3>3. QED
      BY <3>1, <3>2
  <2>3. IsCached(roots[k])
    BY <2>1, <2>2 DEF ResultsInv, IsCached
  <2>4. o \in Offset /\ IsCached(o)
    BY <1>1, <2>1, <2>2, <2>3, ReachIsCached
  <2>5. /\ fault[o] = "none"
        /\ \A d \in Range(deps[o]) : objects[d] # 0 /\ objects[d] < objects[o]
    BY <2>1, <2>4 DEF CacheInv, IsCached
  <2>6. \A d \in Range(deps[o]) : objects[d] \in 0..serial
    BY <1>1, <2>4, DepsType DEF TypeOK
  <2>7. Children(o) = Range(deps[o])
    BY <2>5 DEF Children
  <2>8. QED
    BY <2>2, <2>4, <2>5, <2>6, <2>7 DEF IsCached
<1>2. ASSUME TypeOK, DisciplinedInv, ~calls.strayed, outcome = "done"
      PROVE  AcceptsOnlyDecodable
  BY <1>1, <1>2, PromiseSame DEF AcceptsOnlyDecodable, Promise!AcceptsOnlyDecodable
<1>3. TypeOK /\ DisciplinedInv => DisciplinedDecoding
  BY <1>2 DEF DisciplinedDecoding, AcceptsOnlyDecodable, Promise!AcceptsOnlyDecodable
<1>4. QED
  BY <1>3, RecursionInvariant, PTL

\* Without custom decoders, RecursionError means that the dependencies below the
\* location asked for can be followed for more steps than the interpreter allows
\* calls, whatever that limit is.
THEOREM RecursionsAreDeep == Spec => []RecursionIsDeep
<1>1. TypeOK /\ DisciplinedInv => RecursionIsDeep
  BY DEF DisciplinedInv, DepthInv, RecursionIsDeep
<1>2. QED
  BY <1>1, RecursionInvariant, PTL

-----------------------------------------------------------------------------
(* Refinement, without custom decoders. *)

\* A return is a Decode step of the abstract machine.
LEMMA ReturnIsDecode ==
    ASSUME TypeOK, CallsInv, ControlInv, DepthInv, ReturnLocation, Uncustomised
    PROVE  Promise!Next
<1> DEFINE o == Top.offset
<1>1. /\ frames # <<>> /\ outcome = "running" /\ Len(results) < Len(roots)
      /\ UNCHANGED <<catalog, results, outcome>>
  BY DEF ReturnLocation, HasDependencies, ControlInv, DepthInv
<1>2. /\ o \in Offset
      /\ fault[o] = "none" /\ ~IsCached(o)
      /\ Top.got = [k \in 1..Len(deps[o]) |-> objects[deps[o][k]]]
      /\ \A d \in Range(deps[o]) : d \in Offset /\ IsCached(d)
  BY <1>1, TopFacts, ReturnConstructs, ReturnFacts DEF CallsInv
<1>3. o \in Promise!Reach(Promise!Root)
  <2>1. Len(frames) \in DOMAIN frames /\ Top = frames[Len(frames)]
    BY <1>1, TopFacts, FrameFacts
  <2>2. QED
    BY <2>1, PromiseSame DEF CallsInv, ReachInv
<1>4. /\ serial' = serial + 1
      /\ objects' = [objects EXCEPT ![o] = serial + 1]
      /\ links' = [links EXCEPT ![o] = [k \in 1..Len(deps[o]) |-> objects[deps[o][k]]]]
  BY <1>2 DEF ReturnLocation, Construct
<1> HIDE DEF o
<1>5. Promise!Decode(o)
  BY <1>1, <1>2, <1>3, <1>4
  DEF Promise!Decode, Promise!Asking, Promise!Range, Range, IsCached, catalog, Promise!catalog
<1>6. QED
  BY <1>2, <1>5 DEF Promise!Next

\* An error other than RecursionError has a damaged record to show for it.
LEMMA FaultIsReject ==
    ASSUME NEW o \in Offset, o \in Reach(Root), ~IsCached(o), fault[o] # "none",
           outcome = "running", Len(results) < Len(roots),
           outcome' = (IF fault[o] = "object" THEN "unsupported" ELSE "read"),
           UNCHANGED <<catalog, decoded, results>>
    PROVE  Promise!Next
<1>1. o \in Promise!Reach(Promise!Root) /\ objects[o] = 0
  BY PromiseSame DEF IsCached
<1>2. outcome' = Promise!FaultOutcome(o) /\ outcome' # "recursion"
  BY DEF Promise!FaultOutcome
<1>3. Promise!Reject
  BY <1>1, <1>2 DEF Promise!Reject, Promise!Asking, decoded, catalog, Promise!catalog
<1>4. QED
  BY <1>3 DEF Promise!Next

\* A step that leaves alone what the abstract machine sees.
LEMMA HiddenStep ==
    ASSUME UNCHANGED <<catalog, decoded, results, outcome>>
    PROVE  UNCHANGED Promise!vars
BY DEF Promise!vars, Promise!catalog, catalog, decoded

\* Every step of a parse without custom decoders is a step of the abstract decoding,
\* or none, or the RecursionError the limit justifies.
LEMMA Simulation ==
    ASSUME TypeOK, DisciplinedInv, [Next]_vars, Uncustomised
    PROVE  [Promise!Next \/ Promise!RejectDepth(limit)]_(Promise!vars)
<1>1. ~calls.strayed /\ CacheInv /\ ResultsInv /\ ControlInv /\ CallsInv /\ DepthInv
  BY DEF DisciplinedInv, CallsInv
<1>2. ~calls.strayed' /\ asker' = "table" /\ asker = "table"
  BY <1>1, StrayStep DEF CallsInv, DepthInv
<1>3. ASSUME NEW o \in Offset, Calls(o)
      PROVE  o \in Reach(Root) /\ outcome = "running" /\ Len(results) < Len(roots)
  BY <1>1, <1>2, <1>3, CalledFacts, CallsWhen
<1>4. CASE UNCHANGED vars
  BY <1>4, HiddenStep DEF vars
<1>5. ASSUME NEW error, Raise(error)
      PROVE  /\ UNCHANGED <<catalog, decoded, results>>
             /\ outcome' = error
  <2>1. \A i \in DOMAIN frames : frames[i].phase # "custom"
    BY <1>1 DEF CallsInv, GotInv, Uncustomised
  <2>2. QED
    BY <1>2, <1>5, <2>1 DEF Raise
<1>6. ASSUME NEW o \in Offset, CallTooDeep(o)
      PROVE  Promise!RejectDepth(limit)
  <2>1. /\ outcome = "running" /\ outcome' = "recursion" /\ Len(results) < Len(roots)
        /\ UNCHANGED <<catalog, decoded, results>>
    BY <1>3, <1>5, <1>6 DEF CallTooDeep
  <2>2. Promise!Deep(Root, limit + 1)
    BY <1>1, <1>2, <1>6, TooDeepIsDeep
  <2>3. QED
    BY <2>1, <2>2, PromiseSame
    DEF Promise!RejectDepth, Promise!Asking, catalog, Promise!catalog, decoded
<1>7. ASSUME NEW o \in Offset, CallDamaged(o)
      PROVE  Promise!Next
  <2>1. /\ ~IsCached(o) /\ fault[o] \in {"record", "string"} /\ outcome' = "read"
        /\ UNCHANGED <<catalog, decoded, results>> /\ Calls(o)
    BY <1>5, <1>7 DEF CallDamaged
  <2>2. QED
    BY <1>3, <2>1, FaultIsReject
<1>8. ASSUME NEW o \in Offset, CallCached(o) \/ CallEnter(o)
      PROVE  UNCHANGED Promise!vars
  BY <1>8, HiddenStep DEF CallCached, CallEnter
<1>9. CASE DataUnsupported
  <2>1. /\ frames # <<>> /\ outcome = "running" /\ fault[Top.offset] = "object"
        /\ outcome' = "unsupported" /\ UNCHANGED <<catalog, decoded, results>>
    BY <1>5, <1>9 DEF DataUnsupported, HasDependencies
  <2>2. Len(frames) \in DOMAIN frames /\ Top = frames[Len(frames)] /\ Top.offset \in Offset
    BY <2>1, TopFacts, FrameFacts
  <2>3. Top.offset \in Reach(Root) /\ ~IsCached(Top.offset) /\ Len(results) < Len(roots)
    BY <1>1, <1>2, <2>1, <2>2 DEF CallsInv, ReachInv, GotInv, ControlInv
  <2>4. QED
    BY <2>1, <2>2, <2>3, FaultIsReject
<1>10. CASE DataIsCustom
  BY <1>10, HiddenStep DEF DataIsCustom
<1>11. CASE ReturnLocation
  BY <1>1, <1>11, ReturnIsDecode
<1>12. CASE ResourcesAppend
  <2>1. Promise!Deliver
    BY <1>1, <1>12, PromiseSame
    DEF ResourcesAppend, ControlInv, Promise!Deliver, Promise!Asking, catalog, decoded,
        Promise!catalog
  <2>2. QED
    BY <2>1 DEF Promise!Next
<1>13. CASE Finish
  <2>1. Promise!Finish
    BY <1>13 DEF Finish, Promise!Finish, catalog, decoded, Promise!catalog
  <2>2. QED
    BY <2>1 DEF Promise!Next
<1>14. ~DecoderRaises /\ \A o \in Offset : ~(DecoderPuts(o) \/ DecoderRemoves(o))
  BY <1>1, NoDecoder DEF CallsInv, DecoderRaises, DecoderPuts, DecoderRemoves, WritesCache
<1>15. QED
  BY <1>4, <1>6, <1>7, <1>8, <1>9, <1>10, <1>11, <1>12, <1>13, <1>14 DEF Next

\* A parse without custom decoders starts as the abstract decoding does.
LEMMA InitSimulation == Init => Promise!Init
BY DEF Init, Promise!Init, CatalogInit, Promise!CatalogInit

\* Without custom decoders the recursion of the Python backend implements the same
\* abstract decoding as the explicit stack of the Rust backend, but that it also refuses,
\* with RecursionError, a path longer than the recursion limit, whatever that limit is.
THEOREM Refinement == Spec => ImplementsLocationGraph
<1>1. TypeOK /\ DisciplinedInv /\ [Next]_vars =>
          [~Uncustomised \/ Promise!Next \/ Promise!RejectDepth(limit)]_(Promise!vars)
  BY Simulation
<1>2. QED
  BY <1>1, InitSimulation, RecursionInvariant, PTL DEF Spec, ImplementsLocationGraph
=============================================================================
