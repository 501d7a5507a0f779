------------------------ MODULE NativeTraversalProofs ------------------------
(***************************************************************************)
(* Proofs about the Rust traversal, for every buffer, every dependency     *)
(* graph (cyclic or not), every table of requests and every placement of   *)
(* damaged records.                                                        *)
(***************************************************************************)
EXTENDS NativeTraversal, SequenceTheorems, TLAPS

-----------------------------------------------------------------------------
(* The dependency graph of a catalog *)

\* The catalog is well formed from the start.
LEMMA CatalogTyped == CatalogInit => CatalogTypeOK
BY GraphAssumption DEF CatalogInit, CatalogTypeOK

\* The dependency array of a record, by position and as a set.
LEMMA DepsType ==
    ASSUME CatalogTypeOK, NEW x \in Offset
    PROVE  /\ deps[x] \in Seq(Offset)
           /\ Range(deps[x]) \subseteq Offset
           /\ \A i \in 1..Len(deps[x]) : deps[x][i] \in Range(deps[x])
           /\ \A d \in Range(deps[x]) : \E i \in 1..Len(deps[x]) : deps[x][i] = d
<1>1. deps[x] \in Seq(Offset)
  BY DEF CatalogTypeOK
<1>2. \A i \in 1..Len(deps[x]) : deps[x][i] \in Offset
  BY <1>1
<1>3. DOMAIN deps[x] = 1..Len(deps[x])
  BY <1>1
<1>4. QED
  BY <1>1, <1>2, <1>3 DEF Range

\* Reachability contains its origin and is closed under dependencies.
LEMMA ReachFacts ==
    ASSUME NEW o \in Offset
    PROVE  /\ o \in Reach(o)
           /\ \A x \in Reach(o) : \A d \in Children(x) \cap Offset : d \in Reach(o)
BY DEF Reach, Closed

-----------------------------------------------------------------------------

\* What `pending.pop()` yields and leaves, when the stack is not empty.
LEMMA PopType ==
    ASSUME TypeOK, Popping
    PROVE  /\ Len(pending) \in Nat /\ Len(pending) >= 1
           /\ Top \in Entry
           /\ Popped \in Seq(Entry)
           /\ Len(Popped) = Len(pending) - 1
           /\ \A i \in 1..Len(pending) - 1 : Popped[i] = pending[i]
<1>1. pending \in Seq(Entry)
  BY DEF TypeOK
<1>2. Len(pending) \in Nat /\ Len(pending) >= 1
  BY <1>1 DEF Popping
<1>3. pending[Len(pending)] \in Entry
  BY <1>1, <1>2
<1>4. Len(pending) - 1 \in Int /\ \A i \in 1..Len(pending) - 1 : pending[i] \in Entry
  <2>1. \A i \in 1..Len(pending) : pending[i] \in Entry
    BY <1>1
  <2>2. Len(pending) - 1 \in Int /\ \A i \in 1..Len(pending) - 1 : i \in 1..Len(pending)
    BY <1>2
  <2>3. QED
    BY <2>1, <2>2
<1>5. /\ Popped \in Seq(Entry)
      /\ Len(Popped) = IF 1 <= Len(pending) - 1 THEN Len(pending) - 1 - 1 + 1 ELSE 0
      /\ \A i \in 1..Len(pending) - 1 - 1 + 1 : Popped[i] = pending[1 + i - 1]
  BY <1>1, <1>4, SubSeqProperties DEF Popped
<1>6. Len(Popped) = Len(pending) - 1
  <2>1. Len(Popped) = IF 1 <= Len(pending) - 1 THEN Len(pending) - 1 - 1 + 1 ELSE 0
    BY <1>5
  <2>2. \A n \in Nat : n >= 1 => (IF 1 <= n - 1 THEN n - 1 - 1 + 1 ELSE 0) = n - 1
    OBVIOUS
  <2>3. QED
    BY <1>2, <2>1, <2>2
<1>7. \A i \in 1..Len(pending) - 1 : Popped[i] = pending[i]
  BY <1>2, <1>5
<1>8. QED
  BY <1>2, <1>3, <1>5, <1>6, <1>7 DEF Top

\* What is left when a call of `location` fails.
LEMMA FailType ==
    ASSUME TypeOK, NEW e \in {"read", "unsupported", "cycle", "panic", "missing"}, Fail(e)
    PROVE  TypeOK'
BY DEF TypeOK, CatalogTypeOK, Fail, catalog, decoded

\* build_location writes a cache, a serial and a list of dependencies of their types.
LEMMA BuildType ==
    ASSUME TypeOK, NEW o \in Offset, BuildLocation(o), UNCHANGED catalog
    PROVE  /\ serial' \in Nat
           /\ objects' \in [Offset -> Nat]
           /\ links' \in [Offset -> Seq(Nat)]
<1>1. deps[o] \in Seq(Offset)
  BY DEF TypeOK, CatalogTypeOK
<1>2. \A i \in 1..Len(deps[o]) : objects[deps[o][i]] \in Nat
  <2> TAKE i \in 1..Len(deps[o])
  <2>1. deps[o][i] \in Offset
    BY <1>1
  <2>2. QED
    BY <2>1 DEF TypeOK
<1>3. [i \in 1..Len(deps[o]) |-> objects[deps[o][i]]] \in Seq(Nat)
  BY <1>1, <1>2
<1>4. QED
  BY <1>3 DEF BuildLocation, TypeOK

\* build_location fails with a damaged string, an unsupported object, or the panic.
LEMMA BuildOutcomeType ==
    ASSUME NEW o \in Offset, BuildFails(o)
    PROVE  /\ BuildOutcome(o) \in {"read", "unsupported", "panic"}
           /\ Fail(BuildOutcome(o))
BY DEF BuildFails, BuildOutcome

\* The location `resources` asks for next is an offset of the buffer.
LEMMA RootType ==
    ASSUME TypeOK, Len(results) < Len(roots)
    PROVE  Root \in Offset
BY DEF TypeOK, CatalogTypeOK, Root

\* Type correctness of a step.  Two actions need the control invariant: it is
\* what makes Root an entry of the table while `location` is running.
LEMMA TypeStep ==
    ASSUME TypeOK, ControlInv, FrameInv, [Next]_vars
    PROVE  TypeOK'
<1>1. CASE UNCHANGED vars
  BY <1>1 DEF vars, catalog, decoded, location, TypeOK, CatalogTypeOK
<1>2. CASE LocationCached
  <2>1. Root \in Offset
    BY <1>2, RootType DEF LocationCached, Calling
  <2>2. results' \in Seq(Nat)
    BY <1>2, <2>1 DEF LocationCached, TypeOK
  <2>3. QED
    BY <1>2, <2>2 DEF LocationCached, TypeOK, CatalogTypeOK, catalog, decoded, location
<1>3. CASE LocationTruncated
  BY <1>3, FailType DEF LocationTruncated
<1>4. CASE LocationReady
  <2>1. Root \in Offset
    BY <1>4, RootType DEF LocationReady, Calling
  <2>2. CASE BuildFails(Root)
    BY <2>1, <2>2, BuildOutcomeType, FailType
  <2>3. CASE BuildLocation(Root) /\ pc' = "loop" /\ UNCHANGED <<catalog, results, outcome, location>>
    BY <2>1, <2>3, BuildType DEF TypeOK, CatalogTypeOK, catalog, location
  <2>4. QED
    BY <1>4, <2>2, <2>3 DEF LocationReady
<1>5. CASE LocationStart
  <2>1. Root \in Offset
    BY <1>5, RootType DEF LocationStart, Calling
  <2>2. pending' \in Seq(Entry)
    BY <1>5, <2>1 DEF LocationStart, Entry
  <2>3. QED
    BY <1>5, <2>2 DEF LocationStart, TypeOK, CatalogTypeOK, catalog, decoded
<1>6. CASE PopCached
  BY <1>6, PopType DEF PopCached, TypeOK, CatalogTypeOK, catalog, decoded
<1>7. CASE PopTruncated
  BY <1>7, FailType DEF PopTruncated
<1>8. CASE PopCycle
  BY <1>8, FailType DEF PopCycle
<1>9. CASE PopExpand
  <2>1. Top \in Entry /\ Len(pending) \in Nat \ {0}
    BY <1>9, PopType DEF PopExpand
  <2>2. Top.offset \in Offset /\ Len(deps[Top.offset]) \in Nat
    BY <2>1 DEF Entry, TypeOK, CatalogTypeOK
  <2>3. pending' \in Seq(Entry)
    <3>1. [Top EXCEPT !.expanded = TRUE] \in Entry
      BY <2>1 DEF Entry
    <3>2. pending' = [pending EXCEPT ![Len(pending)] = [Top EXCEPT !.expanded = TRUE]]
      BY <1>9 DEF PopExpand, Top
    <3>3. QED
      BY <2>1, <3>1, <3>2 DEF TypeOK
  <2>4. QED
    BY <1>9, <2>1, <2>2, <2>3 DEF PopExpand, TypeOK, CatalogTypeOK, catalog, decoded
<1>10. CASE PushChild
  <2>1. frame \in DOMAIN pending /\ child \in 1..Len(Dep(frame))
    BY <1>10 DEF PushChild, FrameInv, ExpandedEntries
  <2>2. pending[frame] \in Entry
    BY <2>1 DEF TypeOK
  <2>3. Dep(frame) \in Seq(Offset) /\ Dep(frame)[child] \in Offset
    <3>1. Dep(frame) \in Seq(Offset)
      BY <2>2 DEF Dep, TypeOK, CatalogTypeOK, Entry
    <3>2. QED
      BY <2>1, <3>1
  <2>4. pending' \in Seq(Entry)
    <3> DEFINE c == deps[pending[frame].offset][child]
               e == [offset |-> c, expanded |-> FALSE]
    <3>1. e \in Entry
      BY <2>3 DEF Dep, Entry
    <3>2. pending \in Seq(Entry) /\ Append(pending, e) \in Seq(Entry)
      BY <3>1 DEF TypeOK
    <3>3. pending' = pending \/ pending' = Append(pending, e)
      BY <1>10 DEF PushChild
    <3>4. QED
      BY <3>2, <3>3
  <2>5. child' \in Nat /\ frame' \in Nat
    BY <1>10, <2>1, <2>3 DEF PushChild, TypeOK
  <2>6. QED
    BY <1>10, <2>4, <2>5 DEF PushChild, TypeOK, CatalogTypeOK, catalog, decoded
<1>11. CASE PopBuild
  <2>1. Top \in Entry /\ Popped \in Seq(Entry)
    BY <1>11, PopType DEF PopBuild
  <2>2. Top.offset \in Offset
    BY <2>1 DEF Entry
  <2>3. CASE BuildFails(Top.offset)
    BY <2>2, <2>3, BuildOutcomeType, FailType
  <2>4. CASE /\ BuildLocation(Top.offset)
             /\ pending' = Popped
             /\ active' = active \ {Top.offset}
             /\ UNCHANGED <<catalog, results, outcome, pc, frame, child>>
    BY <2>1, <2>2, <2>4, BuildType DEF TypeOK, CatalogTypeOK, catalog
  <2>5. QED
    BY <1>11, <2>3, <2>4 DEF PopBuild
<1>12. CASE LocationReturn
  <2>1. Root \in Offset
    BY <1>12, RootType DEF LocationReturn, ControlInv
  <2>2. CASE IsCached(Root)
    <3>1. objects[Root] \in Nat
      BY <2>1 DEF TypeOK
    <3>2. results' \in Seq(Nat)
      <4>1. results' = Append(results, objects[Root])
        BY <1>12, <2>2 DEF LocationReturn
      <4>2. QED
        BY <3>1, <4>1 DEF TypeOK
    <3>3. QED
      BY <1>12, <2>2, <3>2
      DEF LocationReturn, TypeOK, CatalogTypeOK, catalog, decoded
  <2>3. CASE ~IsCached(Root)
    BY <1>12, <2>3, FailType DEF LocationReturn
  <2>4. QED
    BY <2>2, <2>3
<1>13. CASE Finish
  BY <1>13 DEF Finish, TypeOK, CatalogTypeOK, catalog, decoded, location
<1>14. QED
  BY <1>1, <1>2, <1>3, <1>4, <1>5, <1>6, <1>7, <1>8, <1>9, <1>10, <1>11, <1>12, <1>13
  DEF Next

-----------------------------------------------------------------------------
(* The catalog and the cache. *)

\* No step changes the catalog, so what it leads to does not change either.
LEMMA CatalogConstant ==
    ASSUME [Next]_vars
    PROVE  UNCHANGED catalog
BY DEF Next, vars, LocationCached, LocationTruncated, LocationReady, LocationStart,
       PopCached, PopTruncated, PopCycle, PopExpand, PushChild, PopBuild, BuildFails,
       LocationReturn, Finish, Fail

\* Only build_location writes to the cache, and only for the root of a call that
\* has nothing to wait for or for the entry on top of the stack.
LEMMA CacheWrites ==
    ASSUME [Next]_vars
    PROVE  \/ UNCHANGED decoded
           \/ LocationReady /\ BuildLocation(Root)
           \/ PopBuild /\ BuildLocation(Top.offset)
BY DEF Next, vars, LocationCached, LocationTruncated, LocationReady, LocationStart,
       PopCached, PopTruncated, PopCycle, PopExpand, PushChild, PopBuild, BuildFails,
       LocationReturn, Finish, Fail

\* What build_location leaves behind for an undamaged record.
LEMMA BuildKeepsCache ==
    ASSUME TypeOK, CacheInv, NEW o \in Offset, ~IsCached(o), fault[o] # "record",
           BuildLocation(o), UNCHANGED catalog
    PROVE  /\ CacheInv'
           /\ objects'[o] # 0
           /\ \A x \in Offset : x # o => objects'[x] = objects[x]
<1>1. /\ fault[o] = "none"
      /\ \A d \in Range(deps[o]) : IsCached(d)
  <2>1. fault[o] \in FaultKind
    BY DEF TypeOK, CatalogTypeOK
  <2>2. QED
    BY <2>1 DEF BuildLocation, BuildOutcome, FaultKind
<1>2. /\ serial' = serial + 1
      /\ objects' = [objects EXCEPT ![o] = serial + 1]
      /\ links' = [links EXCEPT ![o] = [i \in 1..Len(deps[o]) |-> objects[deps[o][i]]]]
  BY DEF BuildLocation
<1>3. /\ serial \in Nat
      /\ objects \in [Offset -> Nat]
      /\ DOMAIN links = Offset
      /\ deps' = deps /\ fault' = fault
  BY DEF TypeOK, catalog
<1>4. \A x \in Offset : objects'[x] = IF x = o THEN serial + 1 ELSE objects[x]
  BY <1>2, <1>3
<1>5. \A x \in Offset : /\ deps[x] \in Seq(Offset)
                        /\ Range(deps[x]) \subseteq Offset
                        /\ \A i \in 1..Len(deps[x]) : deps[x][i] \in Range(deps[x])
  BY DepsType DEF TypeOK
<1>6. ASSUME NEW x \in Offset, IsCached(x)'
      PROVE  /\ fault[x] = "none"
             /\ objects'[x] <= serial'
             /\ \A d \in Range(deps[x]) : objects'[d] # 0 /\ objects'[d] < objects'[x]
             /\ links'[x] = [i \in 1..Len(deps[x]) |-> objects'[deps[x][i]]]
  <2>1. CASE x = o
    <3>1. \A d \in Range(deps[o]) : d # o /\ objects[d] # 0 /\ objects[d] <= serial
      BY <1>1, <1>5 DEF CacheInv, IsCached
    <3>2. \A d \in Range(deps[o]) : objects'[d] = objects[d] /\ objects[d] \in Nat
      BY <1>3, <1>4, <1>5, <3>1
    <3>3. links'[o] = [i \in 1..Len(deps[o]) |-> objects[deps[o][i]]]
      BY <1>2, <1>3
    <3>4. \A i \in 1..Len(deps[o]) : objects'[deps[o][i]] = objects[deps[o][i]]
      BY <1>5, <3>2
    <3>5. objects'[o] = serial + 1 /\ serial' = serial + 1
      BY <1>2, <1>4
    <3>6. links'[o] = [i \in 1..Len(deps[o]) |-> objects'[deps[o][i]]]
      BY <3>3, <3>4
    <3>7. QED
      BY <1>1, <1>3, <2>1, <3>1, <3>2, <3>5, <3>6
  <2>2. CASE x # o
    <3>1. objects'[x] = objects[x] /\ objects[x] # 0 /\ links'[x] = links[x]
      BY <1>2, <1>3, <1>4, <1>6, <2>2 DEF IsCached
    <3>2. /\ fault[x] = "none"
          /\ objects[x] <= serial
          /\ \A d \in Range(deps[x]) : objects[d] # 0 /\ objects[d] < objects[x]
          /\ links[x] = [i \in 1..Len(deps[x]) |-> objects[deps[x][i]]]
      BY <3>1 DEF CacheInv, IsCached
    <3>3. \A d \in Range(deps[x]) : objects'[d] = objects[d]
      BY <1>4, <1>5, <3>2 DEF IsCached
    <3>4. links'[x] = [i \in 1..Len(deps[x]) |-> objects'[deps[x][i]]]
      BY <1>5, <3>1, <3>2, <3>3
    <3>5. objects[x] <= serial'
      BY <1>2, <1>3, <3>2
    <3>6. QED
      BY <3>1, <3>2, <3>3, <3>4, <3>5
  <2>3. QED
    BY <2>1, <2>2
<1>7. CacheInv'
  BY <1>3, <1>6 DEF CacheInv, IsCached
<1>8. QED
  BY <1>3, <1>4, <1>7

\* What a step may do to the cache: it is write-once.
LEMMA CacheStep ==
    ASSUME TypeOK, CacheInv, ControlInv, [Next]_vars
    PROVE  /\ CacheInv'
           /\ \A x \in Offset : IsCached(x) => objects'[x] = objects[x]
<1>1. UNCHANGED catalog
  BY CatalogConstant
<1>2. CASE UNCHANGED decoded
  BY <1>1, <1>2 DEF decoded, catalog, CacheInv, IsCached
<1>3. CASE LocationReady /\ BuildLocation(Root)
  <2>1. Root \in Offset
    BY <1>3, RootType DEF LocationReady, Calling
  <2>2. QED
    BY <1>1, <1>3, <2>1, BuildKeepsCache DEF LocationReady
<1>4. CASE PopBuild /\ BuildLocation(Top.offset)
  <2>1. Top.offset \in Offset
    BY <1>4, PopType DEF PopBuild, Entry
  <2>2. QED
    BY <1>1, <1>4, <2>1, BuildKeepsCache DEF PopBuild
<1>5. QED
  BY <1>2, <1>3, <1>4, CacheWrites

-----------------------------------------------------------------------------
(* What each step does to the stack. *)

Cleared == pending = <<>> /\ frame = 0 /\ child = 0 /\ \A o \in active : IsCached(o)

\* Every step leaves in the cache what is there.
LEMMA CachedStays ==
    ASSUME TypeOK, [Next]_vars
    PROVE  \A x \in Offset : IsCached(x) => IsCached(x)'
<1>1. CASE UNCHANGED decoded
  BY <1>1 DEF decoded, IsCached
<1>2. ASSUME NEW o, BuildLocation(o)
      PROVE  \A x \in Offset : IsCached(x) => IsCached(x)'
  BY <1>2 DEF BuildLocation, IsCached, TypeOK
<1>3. QED
  BY <1>1, <1>2, CacheWrites

\* Outside the loop the stack is empty, so that only five actions touch it.
LEMMA StackSteps ==
    ASSUME TypeOK, ControlInv, EntriesInv, [Next]_vars
    PROVE  \/ Cleared'
           \/ UNCHANGED vars
           \/ LocationStart
           \/ PopCached
           \/ PopExpand
           \/ PushChild
           \/ PopBuild /\ BuildLocation(Top.offset) /\ pending' = Popped
              /\ active' = active \ {Top.offset} /\ frame' = frame /\ child' = child
<1>1. pending = <<>> => Cleared
  BY DEF Cleared, EntriesInv, SharedActiveInv, ExpandedEntries, FrameInv
<1>2. pc = "resources" => Cleared
  BY <1>1 DEF ControlInv
<1>3. Cleared /\ UNCHANGED location => Cleared'
  BY CachedStays DEF Cleared, location, TypeOK
<1>4. (\E e : Fail(e)) => Cleared'
  BY DEF Fail, Cleared
<1>5. LocationCached \/ Finish => Cleared'
  BY <1>2, <1>3 DEF LocationCached, Calling, Finish
<1>6. LocationReady => Cleared'
  BY <1>2, <1>3, <1>4 DEF LocationReady, Calling, BuildFails
<1>7. LocationTruncated \/ PopTruncated \/ PopCycle => Cleared'
  BY <1>4 DEF LocationTruncated, PopTruncated, PopCycle
<1>8. LocationReturn => Cleared'
  BY <1>1, <1>4 DEF LocationReturn, Cleared
<1>9. PopBuild => \/ Cleared'
                  \/ /\ BuildLocation(Top.offset) /\ pending' = Popped
                     /\ active' = active \ {Top.offset} /\ frame' = frame /\ child' = child
  BY <1>4 DEF PopBuild, BuildFails
<1>10. QED
  BY <1>5, <1>6, <1>7, <1>8, <1>9 DEF Next

\* The stack by position, and the entries expanded so far.
LEMMA EntryFacts ==
    ASSUME TypeOK
    PROVE  /\ Len(pending) \in Nat
           /\ DOMAIN pending = 1..Len(pending)
           /\ ExpandedEntries \subseteq 1..Len(pending)
           /\ \A i \in 1..Len(pending) : pending[i].offset \in Offset
           /\ \A i \in 1..Len(pending) :
                 /\ Dep(i) \in Seq(Offset)
                 /\ \A k \in 1..Len(Dep(i)) : Dep(i)[k] \in Range(Dep(i))
                 /\ \A d \in Range(Dep(i)) : d \in Offset /\ \E k \in 1..Len(Dep(i)) : Dep(i)[k] = d
<1>1. pending \in Seq(Entry)
  BY DEF TypeOK
<1>2. Len(pending) \in Nat /\ DOMAIN pending = 1..Len(pending)
  BY <1>1
<1>3. \A i \in 1..Len(pending) : pending[i].offset \in Offset
  <2>1. \A i \in 1..Len(pending) : pending[i] \in Entry
    BY <1>1
  <2>2. QED
    BY <2>1 DEF Entry
<1>4. QED
  BY <1>2, <1>3, DepsType DEF TypeOK, ExpandedEntries, Dep

\* The stack with which `location` starts its loop.
LEMMA StartFacts ==
    ASSUME TypeOK, LocationStart
    PROVE  /\ DOMAIN pending' = 1..1
           /\ pending'[1].offset = Root
           /\ ExpandedEntries' = {}
           /\ Root \in Offset
BY RootType DEF LocationStart, Calling, ExpandedEntries

\* Popping drops the last entry and, of the expanded entries, at most that one.
LEMMA PopFacts ==
    ASSUME TypeOK, Popping, pending' = Popped, UNCHANGED catalog
    PROVE  /\ DOMAIN pending' = 1..Len(pending) - 1
           /\ \A i \in 1..Len(pending) - 1 : pending'[i] = pending[i] /\ Dep(i)' = Dep(i)
           /\ ExpandedEntries' = ExpandedEntries \ {Len(pending)}
<1>1. DOMAIN pending' = 1..Len(pending) - 1
  BY PopType
<1>2. \A i \in 1..Len(pending) - 1 : pending'[i] = pending[i]
  BY PopType
<1>3. \A i \in 1..Len(pending) - 1 : Dep(i)' = Dep(i)
  BY <1>2 DEF Dep, catalog
<1>4. ExpandedEntries' = ExpandedEntries \ {Len(pending)}
  <2>1. DOMAIN pending = 1..Len(pending) /\ Len(pending) \in Nat \ {0}
    BY PopType, EntryFacts
  <2>2. QED
    BY <1>1, <1>2, <2>1 DEF ExpandedEntries
<1>5. QED
  BY <1>1, <1>2, <1>3, <1>4

\* Expanding marks the last entry and leaves every offset where it is.
LEMMA ExpandFacts ==
    ASSUME TypeOK, PopExpand
    PROVE  /\ DOMAIN pending' = 1..Len(pending)
           /\ \A i \in 1..Len(pending) : /\ pending'[i].offset = pending[i].offset
                                         /\ Dep(i)' = Dep(i)
           /\ ExpandedEntries' = ExpandedEntries \cup {Len(pending)}
           /\ Len(pending) \notin ExpandedEntries
<1>1. /\ pending \in Seq(Entry)
      /\ Len(pending) \in Nat \ {0}
      /\ DOMAIN pending = 1..Len(pending)
  BY PopType, EntryFacts DEF PopExpand, TypeOK
<1>2. /\ DOMAIN pending' = 1..Len(pending)
      /\ \A i \in 1..Len(pending) : i # Len(pending) => pending'[i] = pending[i]
      /\ pending'[Len(pending)] = [Top EXCEPT !.expanded = TRUE]
  <2>1. pending' = [pending EXCEPT ![Len(pending)] = [Top EXCEPT !.expanded = TRUE]]
    BY DEF PopExpand, Top
  <2>2. QED
    BY <1>1, <2>1
<1>3. Top \in Entry /\ Top = pending[Len(pending)]
  BY PopType DEF PopExpand, Top
<1>4. /\ pending'[Len(pending)].offset = pending[Len(pending)].offset
      /\ pending'[Len(pending)].expanded
  BY <1>2, <1>3 DEF Entry
<1>5. \A i \in 1..Len(pending) : pending'[i].offset = pending[i].offset
  BY <1>2, <1>4
<1>6. \A i \in 1..Len(pending) : Dep(i)' = Dep(i)
  BY <1>5 DEF Dep, PopExpand, catalog
<1>7. ExpandedEntries' = ExpandedEntries \cup {Len(pending)}
  <2>1. ASSUME NEW i \in 1..Len(pending), i # Len(pending)
        PROVE  i \in ExpandedEntries' <=> i \in ExpandedEntries
    BY <1>1, <1>2, <2>1 DEF ExpandedEntries
  <2>2. Len(pending) \in ExpandedEntries'
    <3>1. Len(pending) \in DOMAIN pending'
      BY <1>1, <1>2
    <3>2. QED
      BY <1>4, <3>1, Zenon DEF ExpandedEntries
  <2>3. ExpandedEntries' \subseteq 1..Len(pending) /\ ExpandedEntries \subseteq 1..Len(pending)
    BY <1>1, <1>2 DEF ExpandedEntries
  <2>4. QED
    BY <2>1, <2>2, <2>3
<1>8. Len(pending) \notin ExpandedEntries
  BY <1>3 DEF ExpandedEntries, PopExpand
<1>9. QED
  BY <1>2, <1>5, <1>6, <1>7, <1>8

\* Pushing a dependency leaves the stack below it as it was.
LEMMA PushFacts ==
    ASSUME TypeOK, FrameInv, PushChild
    PROVE  /\ frame \in ExpandedEntries
           /\ child \in 1..Len(Dep(frame))
           /\ ExpandedEntries' = ExpandedEntries
           /\ \A i \in 1..Len(pending) : pending'[i] = pending[i] /\ Dep(i)' = Dep(i)
           /\ \/ IsCached(Dep(frame)[child]) /\ DOMAIN pending' = 1..Len(pending)
              \/ /\ DOMAIN pending' = 1..Len(pending) + 1
                 /\ pending'[Len(pending) + 1] =
                       [offset |-> Dep(frame)[child], expanded |-> FALSE]
<1> DEFINE e == [offset |-> Dep(frame)[child], expanded |-> FALSE]
<1>1. frame \in ExpandedEntries /\ child \in 1..Len(Dep(frame))
  BY DEF FrameInv, PushChild
<1>2. pending \in Seq(Entry) /\ Len(pending) \in Nat /\ DOMAIN pending = 1..Len(pending)
  BY EntryFacts DEF TypeOK
<1>3. \/ IsCached(Dep(frame)[child]) /\ pending' = pending
      \/ pending' = Append(pending, e)
  BY DEF PushChild, Dep
<1>4. /\ \A i \in 1..Len(pending) : pending'[i] = pending[i]
      /\ \/ IsCached(Dep(frame)[child]) /\ DOMAIN pending' = 1..Len(pending)
         \/ DOMAIN pending' = 1..Len(pending) + 1 /\ pending'[Len(pending) + 1] = e
  BY <1>2, <1>3
<1>5. \A i \in 1..Len(pending) : Dep(i)' = Dep(i)
  BY <1>4 DEF Dep, PushChild, catalog
<1>6. ExpandedEntries' = ExpandedEntries
  <2>1. e.expanded = FALSE
    OBVIOUS
  <2>2. QED
    BY <1>2, <1>4, <2>1 DEF ExpandedEntries
<1>7. QED
  BY <1>1, <1>4, <1>5, <1>6

-----------------------------------------------------------------------------
(* The parts of the invariant, one lemma each. *)

\* What build_location has built is in the cache.
LEMMA BuildCaches ==
    ASSUME TypeOK, NEW o \in Offset, BuildLocation(o)
    PROVE  IsCached(o)'
BY DEF BuildLocation, TypeOK, IsCached

\* Dropping an entry whose location is cached, the last of them being the root's.
LEMMA PopControl ==
    ASSUME TypeOK, ControlInv, Popping, pending' = Popped, objects'[Top.offset] # 0,
           UNCHANGED <<catalog, results, outcome, pc>>
    PROVE  ControlInv'
<1>1. Root' = Root
  BY DEF Root, catalog
<1>2. /\ 1 \in 1..Len(pending) /\ pending[1].offset = Root
      /\ Len(pending) \in Nat /\ Len(results) < Len(roots)
  BY DEF Popping, ControlInv, TypeOK
<1>3. CASE Len(pending) = 1
  <2>1. Top.offset = Root
    BY <1>2, <1>3 DEF Top
  <2>2. IsCached(Root)'
    BY <1>1, <2>1 DEF IsCached
  <2>3. pending' = <<>>
    BY <1>3, PopType
  <2>4. QED
    BY <1>2, <2>2, <2>3 DEF ControlInv, Popping, catalog
<1>4. CASE Len(pending) # 1
  <2>1. pending' # <<>> /\ pending'[1] = pending[1]
    BY <1>2, <1>4, PopType
  <2>2. QED
    BY <1>1, <1>2, <2>1 DEF ControlInv, Popping, catalog
<1>5. QED
  BY <1>3, <1>4

\* The control state is preserved: `location` returns with its root cached.
LEMMA ControlStep ==
    ASSUME TypeOK, ControlInv, FrameInv, [Next]_vars
    PROVE  ControlInv'
<1>1. UNCHANGED catalog
  BY CatalogConstant
<1>2. UNCHANGED results => Root' = Root
  BY <1>1 DEF Root, catalog
<1>3. pending # <<>> => pc = "loop"
  BY DEF ControlInv, TypeOK
<1>4. ASSUME pending # <<>>, pc = "loop"
      PROVE  /\ 1 \in 1..Len(pending) /\ pending[1].offset = Root
             /\ Len(pending) \in Nat /\ Len(results) < Len(roots)
  BY <1>4 DEF ControlInv, TypeOK
<1>5. ASSUME NEW e \in {"read", "unsupported", "cycle", "panic", "missing"}, Fail(e),
             e = "cycle" => Len(results) < Len(roots)
      PROVE  ControlInv'
  BY <1>1, <1>5 DEF Fail, ControlInv, catalog
<1>6. CASE UNCHANGED vars
  BY <1>6 DEF vars, catalog, decoded, location, ControlInv, Root, IsCached
<1>7. CASE LocationCached
  BY <1>7 DEF LocationCached, Calling, ControlInv, location
<1>8. CASE LocationTruncated
  BY <1>5, <1>8 DEF LocationTruncated
<1>9. CASE LocationReady
  <2>1. Root \in Offset
    BY <1>9, RootType DEF LocationReady, Calling
  <2>2. CASE BuildFails(Root)
    BY <1>5, <2>1, <2>2, BuildOutcomeType DEF BuildFails, BuildOutcome
  <2>3. CASE BuildLocation(Root) /\ pc' = "loop" /\ UNCHANGED <<catalog, results, outcome, location>>
    <3>1. IsCached(Root)'
      BY <1>2, <2>1, <2>3, BuildCaches DEF IsCached
    <3>2. pending' = <<>> /\ outcome' = "running" /\ pc' = "loop"
      BY <1>9, <2>3 DEF LocationReady, Calling, ControlInv, location
    <3>3. Len(results') < Len(roots')
      BY <1>9, <2>3 DEF LocationReady, Calling, catalog
    <3>4. QED
      BY <3>1, <3>2, <3>3 DEF ControlInv
  <2>4. QED
    BY <1>9, <2>2, <2>3 DEF LocationReady
<1>10. CASE LocationStart
  <2>1. pending' # <<>> /\ pending'[1].offset = Root'
    BY <1>2, <1>10 DEF LocationStart
  <2>2. QED
    BY <1>10, <2>1 DEF LocationStart, Calling, ControlInv, catalog
<1>11. CASE PopCached
  BY <1>11, PopControl DEF PopCached, IsCached, decoded
<1>12. CASE PopTruncated
  BY <1>5, <1>12 DEF PopTruncated
<1>13. CASE PopCycle
  BY <1>4, <1>5, <1>13 DEF PopCycle, Popping
<1>14. CASE PopExpand
  <2>1. pending # <<>> /\ pc = "loop" /\ outcome = "running"
    BY <1>14 DEF PopExpand, Popping
  <2>2. pending'[1].offset = Root' /\ pending' # <<>>
    BY <1>2, <1>4, <1>14, <2>1, ExpandFacts DEF PopExpand
  <2>3. QED
    BY <1>4, <1>14, <2>1, <2>2 DEF PopExpand, ControlInv, catalog
<1>15. CASE PushChild
  <2>1. pending # <<>> /\ pc = "loop" /\ outcome = "running"
    BY <1>3, <1>15, PushFacts DEF PushChild, ExpandedEntries
  <2>2. pending'[1] = pending[1] /\ pending' # <<>>
    BY <1>4, <1>15, <2>1, PushFacts, EntryFacts
  <2>3. QED
    BY <1>2, <1>4, <1>15, <2>1, <2>2 DEF PushChild, ControlInv, catalog
<1>16. CASE PopBuild
  <2>1. Top.offset \in Offset
    BY <1>16, PopType DEF PopBuild, Entry
  <2>2. CASE BuildFails(Top.offset)
    BY <1>5, <2>1, <2>2, BuildOutcomeType DEF BuildFails, BuildOutcome
  <2>3. CASE /\ BuildLocation(Top.offset) /\ pending' = Popped
             /\ UNCHANGED <<catalog, results, outcome, pc>>
    <3>1. objects'[Top.offset] # 0
      BY <2>1, <2>3, BuildCaches DEF IsCached
    <3>2. Popping
      BY <1>16 DEF PopBuild
    <3>3. QED
      BY <2>3, <3>1, <3>2, PopControl
  <2>4. QED
    BY <1>16, <2>2, <2>3 DEF PopBuild
<1>17. CASE LocationReturn
  <2>1. CASE IsCached(Root)
    BY <1>17, <2>1 DEF LocationReturn, ControlInv
  <2>2. CASE ~IsCached(Root)
    BY <1>5, <1>17, <2>2 DEF LocationReturn
  <2>3. QED
    BY <2>1, <2>2
<1>18. CASE Finish
  BY <1>18 DEF Finish, ControlInv, location, catalog
<1>19. QED
  BY <1>6, <1>7, <1>8, <1>9, <1>10, <1>11, <1>12, <1>13, <1>14, <1>15, <1>16, <1>17, <1>18
  DEF Next

\* During one call of `location` the set it may look at does not change.
LEMMA ReachRoot ==
    ASSUME UNCHANGED <<catalog, results>>
    PROVE  Reach(Root)' = Reach(Root)
<1>1. Root' = Root
  BY DEF Root, catalog
<1>2. QED
  BY <1>1 DEF Reach, Closed, Children, catalog

\* An empty stack satisfies the invariant of the entries.
LEMMA ClearedEntries ==
    ASSUME Cleared'
    PROVE  EntriesInv'
BY DEF Cleared, EntriesInv, SharedActiveInv, FrameInv, WaitingInv, PathInv, ReachInv,
       ExpandedEntries, IsCached

\* While no dependencies are being pushed there is none left to push, and so there is
\* in an empty stack.
LEMMA NoFrame ==
    ASSUME FrameInv, pending = <<>> \/ frame = 0
    PROVE  frame = 0 /\ child = 0
<1>1. pending = <<>> => ExpandedEntries = {}
  BY DEF ExpandedEntries
<1>2. QED
  BY <1>1 DEF FrameInv

\* Where `location` stands in the dependencies it is pushing, whatever the cache holds.
LEMMA FrameStep ==
    ASSUME TypeOK, ControlInv, FrameInv, [Next]_vars
    PROVE  FrameInv'
<1>1. frame' = 0 /\ child' = 0 => FrameInv'
  BY DEF FrameInv
<1>2. CASE UNCHANGED vars
  BY <1>2 DEF vars, location, catalog, FrameInv, ExpandedEntries, Dep
<1>3. ASSUME pending = <<>> \/ frame = 0, frame' = frame, child' = child
      PROVE  FrameInv'
  BY <1>1, <1>3, NoFrame
<1>4. pc = "resources" => pending = <<>>
  BY DEF ControlInv
<1>5. CASE LocationCached \/ LocationStart \/ Finish
  BY <1>3, <1>4, <1>5 DEF LocationCached, LocationStart, Finish, Calling, location
<1>6. CASE LocationTruncated \/ PopTruncated \/ PopCycle
  BY <1>1, <1>6 DEF LocationTruncated, PopTruncated, PopCycle, Fail
<1>7. CASE LocationReady
  BY <1>1, <1>3, <1>4, <1>7 DEF LocationReady, Calling, location, BuildFails, Fail
<1>8. CASE PopCached
  BY <1>3, <1>8 DEF PopCached, Popping
<1>9. CASE PopBuild
  BY <1>1, <1>3, <1>9 DEF PopBuild, Popping, BuildFails, Fail
<1>10. CASE LocationReturn
  BY <1>1, <1>3, <1>10 DEF LocationReturn, Fail
<1>11. CASE PopExpand
  <2> PICK n \in Nat : n = Len(pending)
    BY <1>11, PopType DEF PopExpand
  <2>1. ExpandedEntries' = ExpandedEntries \cup {n} /\ Dep(n)' = Dep(n) /\ n # 0
    BY <1>11, ExpandFacts, PopType DEF PopExpand
  <2>2. /\ child' = Len(Dep(n)) /\ child' \in Nat
        /\ frame' = (IF child' = 0 THEN 0 ELSE n)
    BY <1>11, <2>1, EntryFacts DEF PopExpand, Top, Dep
  <2>3. \A i \in ExpandedEntries' : i <= n
    BY <2>1, EntryFacts
  <2>4. CASE child' = 0
    BY <1>1, <2>2, <2>4
  <2>5. CASE child' # 0
    <3>1. frame' = n /\ frame' # 0 /\ n \in ExpandedEntries'
      BY <2>1, <2>2, <2>5
    <3>2. Dep(frame)' = Dep(n)'
      BY <3>1 DEF Dep
    <3>3. child' \in 1..Len(Dep(n)')
      BY <2>1, <2>2, <2>5
    <3>4. QED
      BY <2>3, <3>1, <3>2, <3>3 DEF FrameInv
  <2>6. QED
    BY <2>4, <2>5
<1>12. CASE PushChild
  <2> PICK f \in Nat, c \in Nat : f = frame /\ c = child
    BY DEF TypeOK
  <2>1. /\ f \in ExpandedEntries /\ ExpandedEntries' = ExpandedEntries
        /\ c \in 1..Len(Dep(f)) /\ f # 0
        /\ \A i \in ExpandedEntries : i <= f
    BY <1>12, PushFacts DEF FrameInv, PushChild
  <2>2. Dep(f)' = Dep(f) /\ Len(Dep(f)) \in Nat
    BY <1>12, <2>1, PushFacts, EntryFacts
  <2>3. child' = c - 1 /\ frame' = (IF child' = 0 THEN 0 ELSE f)
    BY <1>12 DEF PushChild
  <2>4. CASE child' = 0
    BY <1>1, <2>3, <2>4
  <2>5. CASE child' # 0
    <3>1. frame' = f /\ frame' # 0
      BY <2>1, <2>3, <2>5
    <3>2. Dep(frame)' = Dep(f)'
      BY <3>1 DEF Dep
    <3>3. child' \in 1..Len(Dep(f)')
      BY <2>1, <2>2, <2>3, <2>5
    <3>4. QED
      BY <2>1, <3>1, <3>2, <3>3 DEF FrameInv
  <2>6. QED
    BY <2>4, <2>5
<1>13. QED
  BY <1>2, <1>5, <1>6, <1>7, <1>8, <1>9, <1>10, <1>11, <1>12 DEF Next

\* While the stack is left alone its invariant holds, whatever is added to the cache.
LEMMA GrowEntries ==
    ASSUME TypeOK, EntriesInv, UNCHANGED <<catalog, results, location>>,
           \A x \in Offset : IsCached(x) => IsCached(x)'
    PROVE  EntriesInv'
<1>1. ReachInv'
  BY ReachRoot DEF EntriesInv, ReachInv, location
<1>2. /\ pending' = pending /\ active' = active /\ frame' = frame /\ child' = child
      /\ fault' = fault /\ ExpandedEntries' = ExpandedEntries
      /\ \A i : Dep(i)' = Dep(i)
  BY DEF location, catalog, ExpandedEntries, Dep
<1>3. SharedActiveInv'
  <2>1. \A i \in ExpandedEntries :
          pending[i].offset \in active /\ fault[pending[i].offset] # "record"
    BY DEF EntriesInv, SharedActiveInv
  <2>2. \A i, j \in ExpandedEntries : pending[i].offset = pending[j].offset => i = j
    BY DEF EntriesInv, SharedActiveInv
  <2>3. \A o \in active : IsCached(o)' \/ \E i \in ExpandedEntries : pending[i].offset = o
    BY DEF EntriesInv, SharedActiveInv, TypeOK
  <2>4. QED
    BY <1>2, <2>1, <2>2, <2>3 DEF SharedActiveInv
<1>4. FrameInv'
  <2>1. Dep(frame)' = Dep(frame)
    BY <1>2 DEF Dep
  <2>2. QED
    BY <1>2, <2>1 DEF EntriesInv, FrameInv
<1>5. WaitingInv'
  <2>1. ASSUME NEW i \in ExpandedEntries, NEW k \in 1..Len(Dep(i))
        PROVE  \/ i = frame /\ k <= child
               \/ objects'[Dep(i)[k]] # 0
               \/ \E j \in DOMAIN pending : i < j /\ pending[j].offset = Dep(i)[k]
    <3>1. Dep(i)[k] \in Offset
      BY EntryFacts
    <3>2. QED
      BY <3>1 DEF EntriesInv, WaitingInv, IsCached
  <2>2. QED
    BY <1>2, <2>1 DEF WaitingInv, IsCached
<1>6. PathInv'
  BY <1>2 DEF EntriesInv, PathInv
<1>7. QED
  BY <1>1, <1>3, <1>4, <1>5, <1>6 DEF EntriesInv

\* LocationStart establishes the invariant of the entries.
LEMMA StartEntries ==
    ASSUME TypeOK, ControlInv, EntriesInv, LocationStart
    PROVE  EntriesInv'
<1>1. /\ DOMAIN pending' = 1..1
      /\ pending'[1].offset = Root
      /\ ExpandedEntries' = {}
      /\ Root \in Offset
  BY StartFacts
<1>2. frame' = 0 /\ child' = 0 /\ active' = {}
  <2>1. ExpandedEntries = {}
    BY DEF ControlInv, LocationStart, Calling, ExpandedEntries
  <2>2. frame = 0 /\ child = 0
    BY <2>1 DEF EntriesInv, FrameInv
  <2>3. QED
    BY <2>2 DEF LocationStart
<1>3. SharedActiveInv' /\ FrameInv' /\ WaitingInv' /\ PathInv'
  BY <1>1, <1>2 DEF SharedActiveInv, FrameInv, WaitingInv, PathInv
<1>4. ReachInv'
  <2>1. Reach(Root)' = Reach(Root)
    BY ReachRoot DEF LocationStart
  <2>2. QED
    BY <1>1, <2>1, ReachFacts DEF ReachInv
<1>5. QED
  BY <1>3, <1>4 DEF EntriesInv

\* Dropping the last entry once its location is cached, by whom ever: whatever
\* waited for it finds it there.
LEMMA PopEntries ==
    ASSUME TypeOK, EntriesInv, Popping, pending' = Popped,
           UNCHANGED <<catalog, results, frame, child>>,
           active' = active \/ (Top.expanded /\ active' = active \ {Top.offset}),
           objects'[Top.offset] # 0, \A x \in Offset : IsCached(x) => IsCached(x)'
    PROVE  EntriesInv'
<1> PICK n \in Nat, t \in Offset : n = Len(pending) /\ t = Top.offset
  BY EntryFacts, PopType DEF Entry
<1>1. frame = 0 /\ frame' = 0 /\ fault' = fault /\ objects'[t] # 0
  BY DEF Popping, catalog, IsCached
<1>2. /\ n \in Nat \ {0}
      /\ DOMAIN pending = 1..n /\ DOMAIN pending' = 1..n - 1
      /\ pending[n].offset = t /\ (Top.expanded <=> n \in ExpandedEntries)
      /\ \A i \in 1..n - 1 : pending'[i] = pending[i] /\ Dep(i)' = Dep(i)
  BY <1>1, PopFacts, PopType, EntryFacts DEF Top, ExpandedEntries
<1>3. ExpandedEntries' = ExpandedEntries \ {n} /\ ExpandedEntries \subseteq 1..n
  BY <1>1, PopFacts, EntryFacts
<1>4. \A i \in ExpandedEntries' : /\ i \in ExpandedEntries /\ i \in 1..n - 1
                                  /\ pending'[i] = pending[i] /\ Dep(i)' = Dep(i)
  <2> TAKE i \in ExpandedEntries'
  <2>1. i \in ExpandedEntries /\ i \in 1..n /\ i # n
    BY <1>3
  <2>2. i \in 1..n - 1
    BY <1>2, <2>1
  <2>3. QED
    BY <1>2, <2>1, <2>2
<1>5. \A x \in Offset : objects[x] # 0 => objects'[x] # 0
  BY DEF IsCached
<1>6. \A i \in 1..n : /\ pending[i].offset \in Offset
                      /\ \A k \in 1..Len(Dep(i)) : Dep(i)[k] \in Offset
  BY EntryFacts
<1>7. SharedActiveInv'
  <2>1. \A i, j \in ExpandedEntries : pending[i].offset = pending[j].offset => i = j
    BY DEF EntriesInv, SharedActiveInv
  <2>2. \A i, j \in ExpandedEntries' : pending'[i].offset = pending'[j].offset => i = j
    BY <1>4, <2>1
  <2>3. ASSUME NEW i \in ExpandedEntries'
        PROVE  pending'[i].offset \in active' /\ fault'[pending'[i].offset] # "record"
    <3>1. pending[i].offset \in active /\ fault[pending[i].offset] # "record"
      BY <1>4 DEF EntriesInv, SharedActiveInv
    <3>2. Top.expanded => pending[i].offset # t
      <4>1. i \in ExpandedEntries /\ i # n
        BY <1>3
      <4>2. QED
        BY <1>2, <2>1, <4>1
    <3>3. pending[i].offset \in active'
      BY <3>1, <3>2
    <3>4. QED
      BY <1>1, <1>4, <3>1, <3>3
  <2>4. ASSUME NEW o \in active', objects'[o] = 0
        PROVE  \E i \in ExpandedEntries' : pending'[i].offset = o
    <3>1. o \in active /\ o \in Offset /\ o # t
      BY <1>1, <2>4 DEF TypeOK
    <3>2. PICK i \in ExpandedEntries : pending[i].offset = o
      BY <1>5, <2>4, <3>1 DEF EntriesInv, SharedActiveInv, IsCached
    <3>3. i \in ExpandedEntries'
      BY <1>2, <1>3, <3>1, <3>2
    <3>4. QED
      BY <1>4, <3>2, <3>3
  <2>5. QED
    BY <2>2, <2>3, <2>4 DEF SharedActiveInv, IsCached
<1>8. FrameInv'
  BY <1>1 DEF EntriesInv, FrameInv
<1>9. WaitingInv'
  <2>1. ASSUME NEW i \in ExpandedEntries', NEW k \in 1..Len(Dep(i)')
        PROVE  \/ objects'[Dep(i)'[k]] # 0
               \/ \E j \in DOMAIN pending' : i < j /\ pending'[j].offset = Dep(i)'[k]
    <3>1. /\ i \in ExpandedEntries /\ i \in 1..n - 1 /\ i \in 1..n /\ Dep(i)' = Dep(i)
          /\ i # frame /\ k \in 1..Len(Dep(i)) /\ Dep(i)[k] \in Offset
      BY <1>1, <1>2, <1>3, <1>4, <1>6
    <3>2. \/ objects[Dep(i)[k]] # 0
          \/ \E j \in 1..n : i < j /\ pending[j].offset = Dep(i)[k]
      BY <1>2, <3>1 DEF EntriesInv, WaitingInv, IsCached
    <3>3. CASE objects[Dep(i)[k]] # 0
      BY <1>5, <3>1, <3>3
    <3>4. CASE \E j \in 1..n : i < j /\ pending[j].offset = Dep(i)[k]
      <4>1. PICK j \in 1..n : i < j /\ pending[j].offset = Dep(i)[k]
        BY <3>4
      <4>2. CASE j = n
        BY <1>1, <1>2, <3>1, <4>1, <4>2
      <4>3. CASE j # n
        <5>1. j \in 1..n - 1
          BY <1>2, <4>1, <4>3
        <5>2. QED
          BY <1>2, <3>1, <4>1, <5>1
      <4>4. QED
        BY <4>2, <4>3
    <3>5. QED
      BY <3>2, <3>3, <3>4
  <2>2. QED
    BY <2>1 DEF WaitingInv, IsCached
<1>10. PathInv'
  <2>1. ASSUME NEW j \in DOMAIN pending', ~pending'[j].expanded, j # 1
        PROVE  \E i \in ExpandedEntries' :
                  /\ i < j
                  /\ pending'[j].offset \in Range(Dep(i)')
                  /\ \A m \in ExpandedEntries' : m <= i \/ j < m
    <3>1. j \in 1..n /\ j # n /\ j < n /\ pending'[j] = pending[j]
      BY <1>2
    <3>2. PICK i \in ExpandedEntries :
                  /\ i < j
                  /\ pending[j].offset \in Range(Dep(i))
                  /\ \A m \in ExpandedEntries : m <= i \/ j < m
      BY <1>2, <2>1, <3>1 DEF EntriesInv, PathInv
    <3>3. i \in ExpandedEntries'
      BY <1>2, <1>3, <3>1, <3>2
    <3>4. QED
      BY <1>3, <1>4, <3>1, <3>2, <3>3
  <2>2. ASSUME NEW i \in ExpandedEntries', NEW j \in ExpandedEntries', i < j
        PROVE  \E m \in ExpandedEntries' :
                  i < m /\ m <= j /\ pending'[m].offset \in Range(Dep(i)')
    <3>1. PICK m \in ExpandedEntries : i < m /\ m <= j /\ pending[m].offset \in Range(Dep(i))
      BY <1>4, <2>2 DEF EntriesInv, PathInv
    <3>2. m \in ExpandedEntries'
      BY <1>2, <1>3, <1>4, <3>1
    <3>3. QED
      BY <1>4, <3>1, <3>2
  <2>3. QED
    BY <2>1, <2>2 DEF PathInv
<1>11. ReachInv'
  BY <1>1, <1>2, ReachRoot DEF EntriesInv, ReachInv
<1>12. QED
  BY <1>7, <1>8, <1>9, <1>10, <1>11 DEF EntriesInv

\* Expanding an entry: it starts waiting for its own dependencies.
LEMMA PopExpandEntries ==
    ASSUME TypeOK, EntriesInv, PopExpand
    PROVE  EntriesInv'
<1> PICK n \in Nat : n = Len(pending)
  BY EntryFacts
<1>1. /\ Popping /\ frame = 0 /\ child' = Len(deps[Top.offset])
      /\ frame' = (IF child' = 0 THEN 0 ELSE n)
      /\ active' = active \cup {Top.offset} /\ Top.offset \notin active
      /\ UNCHANGED <<catalog, results>> /\ fault' = fault /\ objects' = objects
      /\ objects[Top.offset] = 0 /\ fault[Top.offset] # "record"
  BY DEF PopExpand, Popping, catalog, decoded, IsCached
<1>2. /\ n \in Nat \ {0}
      /\ DOMAIN pending = 1..n /\ DOMAIN pending' = 1..n
      /\ ExpandedEntries \subseteq 1..n
      /\ Top = pending[n]
  BY <1>1, ExpandFacts, PopType, EntryFacts DEF Top
<1>3. \A i \in 1..n : pending'[i].offset = pending[i].offset /\ Dep(i)' = Dep(i)
  BY ExpandFacts
<1>4. ExpandedEntries' = ExpandedEntries \cup {n} /\ n \notin ExpandedEntries
  BY ExpandFacts
<1>5. \A i \in 1..n : Dep(i) \in Seq(Offset)
  BY EntryFacts
<1>6. ExpandedEntries \subseteq 1..n - 1
  BY <1>2, <1>4
<1>7. SharedActiveInv'
  <2>1. \A i \in ExpandedEntries :
          pending[i].offset \in active /\ fault[pending[i].offset] # "record"
    BY DEF EntriesInv, SharedActiveInv
  <2>2. \A i, j \in ExpandedEntries : pending[i].offset = pending[j].offset => i = j
    BY DEF EntriesInv, SharedActiveInv
  <2>3. \A i \in ExpandedEntries : pending[i].offset # pending[n].offset
    BY <1>1, <1>2, <2>1
  <2>4. \A i, j \in ExpandedEntries' : pending'[i].offset = pending'[j].offset => i = j
    BY <1>2, <1>3, <1>4, <2>2, <2>3
  <2>5. \A i \in ExpandedEntries' :
          pending'[i].offset \in active' /\ fault'[pending'[i].offset] # "record"
    BY <1>1, <1>2, <1>3, <1>4, <2>1
  <2>6. \A o \in active : objects[o] # 0 \/ \E i \in ExpandedEntries : pending[i].offset = o
    BY DEF EntriesInv, SharedActiveInv, IsCached
  <2>7. \A o \in active' : objects'[o] # 0 \/ \E i \in ExpandedEntries' : pending'[i].offset = o
    BY <1>1, <1>2, <1>3, <1>4, <2>6
  <2>8. QED
    BY <2>4, <2>5, <2>7 DEF SharedActiveInv, IsCached
<1>8. child' = Len(Dep(n)')
  BY <1>1, <1>2, <1>3 DEF Dep
<1>9. FrameInv'
  <2>1. CASE child' = 0
    BY <1>1, <2>1 DEF FrameInv
  <2>2. CASE child' # 0
    <3>1. frame' = n /\ n \in ExpandedEntries' /\ frame' # 0
      BY <1>1, <1>2, <1>4, <2>2
    <3>2. Len(Dep(n)') \in Nat
      BY <1>2, <1>3, <1>5
    <3>3. child' \in 1..Len(Dep(n)')
      BY <1>8, <2>2, <3>2
    <3>4. \A i \in ExpandedEntries' : i <= n
      BY <1>2, <1>4
    <3>5. Dep(frame)' = Dep(n)'
      BY <3>1 DEF Dep
    <3>6. QED
      BY <3>1, <3>3, <3>4, <3>5 DEF FrameInv
  <2>3. QED
    BY <2>1, <2>2
<1>10. WaitingInv'
  <2>1. ASSUME NEW i \in ExpandedEntries', NEW k \in 1..Len(Dep(i)')
        PROVE  \/ i = frame' /\ k <= child'
               \/ objects'[Dep(i)'[k]] # 0
               \/ \E j \in DOMAIN pending' : i < j /\ pending'[j].offset = Dep(i)'[k]
    <3>1. CASE i = n
      <4>1. Len(Dep(n)') \in Nat /\ k \in 1..Len(Dep(n)')
        BY <1>2, <1>3, <1>5, <3>1
      <4>2. k <= child' /\ child' # 0
        BY <1>8, <4>1
      <4>3. QED
        BY <1>1, <3>1, <4>2
    <3>2. CASE i # n
      <4>1. i \in ExpandedEntries /\ Dep(i)' = Dep(i) /\ i # frame
        BY <1>1, <1>2, <1>3, <1>4, <3>2
      <4>2. \/ objects[Dep(i)[k]] # 0
            \/ \E j \in 1..n : i < j /\ pending[j].offset = Dep(i)[k]
        BY <1>2, <4>1 DEF EntriesInv, WaitingInv, IsCached
      <4>3. QED
        BY <1>1, <1>2, <1>3, <4>1, <4>2
    <3>3. QED
      BY <3>1, <3>2
  <2>2. QED
    BY <2>1 DEF WaitingInv, IsCached
<1>11. PathInv'
  <2>1. \A j \in 1..n : j # n => (pending'[j].expanded <=> pending[j].expanded)
    BY <1>2, <1>4 DEF ExpandedEntries
  <2>2. ASSUME NEW j \in DOMAIN pending', ~pending'[j].expanded, j # 1
        PROVE  \E i \in ExpandedEntries' :
                  /\ i < j
                  /\ pending'[j].offset \in Range(Dep(i)')
                  /\ \A m \in ExpandedEntries' : m <= i \/ j < m
    <3>1. j # n /\ j \in 1..n
      BY <1>2, <1>4, <2>2 DEF ExpandedEntries
    <3>2. PICK i \in ExpandedEntries :
                  /\ i < j
                  /\ pending[j].offset \in Range(Dep(i))
                  /\ \A m \in ExpandedEntries : m <= i \/ j < m
      BY <1>2, <2>1, <2>2, <3>1 DEF EntriesInv, PathInv
    <3>3. QED
      BY <1>2, <1>3, <1>4, <3>1, <3>2
  <2>3. ASSUME NEW i \in ExpandedEntries', NEW j \in ExpandedEntries', i < j
        PROVE  \E m \in ExpandedEntries' :
                  i < m /\ m <= j /\ pending'[m].offset \in Range(Dep(i)')
    <3>1. i \in ExpandedEntries /\ Dep(i)' = Dep(i)
      BY <1>2, <1>3, <1>4, <2>3
    <3>2. CASE \E x \in ExpandedEntries : i < x
      <4>1. PICK x \in ExpandedEntries : i < x /\ x <= j
        BY <1>2, <1>4, <2>3, <3>2
      <4>2. PICK m \in ExpandedEntries : i < m /\ m <= x /\ pending[m].offset \in Range(Dep(i))
        BY <3>1, <4>1 DEF EntriesInv, PathInv
      <4>3. QED
        BY <1>2, <1>3, <1>4, <2>3, <3>1, <4>1, <4>2
    <3>3. CASE ~\E x \in ExpandedEntries : i < x
      <4>1. j = n /\ n # 1 /\ ~pending[n].expanded
        BY <1>2, <1>4, <2>3, <3>1, <3>3 DEF ExpandedEntries
      <4>2. PICK y \in ExpandedEntries :
                    /\ y < n
                    /\ pending[n].offset \in Range(Dep(y))
                    /\ \A m \in ExpandedEntries : m <= y \/ n < m
        BY <1>2, <4>1 DEF EntriesInv, PathInv
      <4>3. y = i
        BY <1>2, <1>6, <3>1, <3>3, <4>2
      <4>4. QED
        BY <1>2, <1>3, <1>4, <2>3, <3>1, <4>1, <4>2, <4>3
    <3>4. QED
      BY <3>2, <3>3
  <2>4. QED
    BY <2>2, <2>3 DEF PathInv
<1>12. ReachInv'
  BY <1>1, <1>2, <1>3, ReachRoot DEF EntriesInv, ReachInv
<1>13. QED
  BY <1>7, <1>9, <1>10, <1>11, <1>12 DEF EntriesInv

\* Pushing a dependency: it is above the entry that waits for it.
LEMMA PushChildEntries ==
    ASSUME TypeOK, ControlInv, EntriesInv, PushChild
    PROVE  EntriesInv'
<1> PICK n \in Nat, f \in Nat, c \in Nat : n = Len(pending) /\ f = frame /\ c = child
  BY EntryFacts DEF TypeOK
<1>1. /\ f # 0 /\ child' = c - 1 /\ frame' = (IF child' = 0 THEN 0 ELSE f)
      /\ active' = active /\ UNCHANGED <<catalog, results>>
      /\ fault' = fault /\ objects' = objects
  BY DEF PushChild, catalog, decoded
<1>2. /\ DOMAIN pending = 1..n /\ ExpandedEntries \subseteq 1..n
      /\ \A i \in 1..n : \A k \in 1..Len(Dep(i)) : Dep(i)[k] \in Range(Dep(i))
      /\ \A i \in 1..n : Len(Dep(i)) \in Nat
  BY EntryFacts
<1>3. /\ f \in ExpandedEntries /\ c \in 1..Len(Dep(f))
      /\ ExpandedEntries' = ExpandedEntries
      /\ \A i \in 1..n : pending'[i] = pending[i] /\ Dep(i)' = Dep(i)
      /\ \/ IsCached(Dep(f)[c]) /\ DOMAIN pending' = 1..n
         \/ /\ DOMAIN pending' = 1..n + 1
            /\ pending'[n + 1] = [offset |-> Dep(f)[c], expanded |-> FALSE]
  BY PushFacts DEF EntriesInv
<1>4. \A i \in ExpandedEntries : i <= f
  BY <1>1 DEF EntriesInv, FrameInv
<1>5. 1..n \subseteq DOMAIN pending'
  BY <1>3
<1>6. SharedActiveInv'
  <2>1. \A i \in ExpandedEntries : pending'[i] = pending[i]
    BY <1>2, <1>3
  <2>2. \A i, j \in ExpandedEntries' : pending'[i].offset = pending'[j].offset => i = j
    BY <1>3, <2>1 DEF EntriesInv, SharedActiveInv
  <2>3. \A i \in ExpandedEntries' :
          pending'[i].offset \in active' /\ fault'[pending'[i].offset] # "record"
    BY <1>1, <1>3, <2>1 DEF EntriesInv, SharedActiveInv
  <2>4. \A o \in active' : objects'[o] # 0 \/ \E i \in ExpandedEntries' : pending'[i].offset = o
    BY <1>1, <1>3, <2>1 DEF EntriesInv, SharedActiveInv, IsCached
  <2>5. QED
    BY <2>2, <2>3, <2>4 DEF SharedActiveInv, IsCached
<1>7. FrameInv'
  <2>1. CASE child' = 0
    BY <1>1, <2>1 DEF FrameInv
  <2>2. CASE child' # 0
    <3>1. frame' = f /\ frame' # 0 /\ f \in ExpandedEntries'
      BY <1>1, <1>3, <2>2
    <3>2. child' \in 1..Len(Dep(f)')
      BY <1>1, <1>2, <1>3, <2>2
    <3>3. Dep(frame)' = Dep(f)'
      BY <3>1 DEF Dep
    <3>4. QED
      BY <1>3, <1>4, <3>1, <3>2, <3>3 DEF FrameInv
  <2>3. QED
    BY <2>1, <2>2
<1>8. WaitingInv'
  <2>1. ASSUME NEW i \in ExpandedEntries', NEW k \in 1..Len(Dep(i)')
        PROVE  \/ i = frame' /\ k <= child'
               \/ objects'[Dep(i)'[k]] # 0
               \/ \E j \in DOMAIN pending' : i < j /\ pending'[j].offset = Dep(i)'[k]
    <3>1. i \in ExpandedEntries /\ Dep(i)' = Dep(i) /\ i \in 1..n /\ k \in 1..Len(Dep(i))
      BY <1>2, <1>3
    <3>2. \/ i = f /\ k <= c
          \/ objects[Dep(i)[k]] # 0
          \/ \E j \in 1..n : i < j /\ pending[j].offset = Dep(i)[k]
      BY <1>2, <3>1 DEF EntriesInv, WaitingInv, IsCached
    <3>3. CASE i = f /\ k = c
      <4>1. CASE IsCached(Dep(f)[c])
        BY <1>1, <3>1, <3>3, <4>1 DEF IsCached
      <4>2. CASE /\ DOMAIN pending' = 1..n + 1
                 /\ pending'[n + 1] = [offset |-> Dep(f)[c], expanded |-> FALSE]
        BY <3>1, <3>3, <4>2
      <4>3. QED
        BY <1>3, <4>1, <4>2
    <3>4. CASE i = f /\ k <= c /\ k # c
      BY <1>1, <1>2, <1>3, <3>1, <3>4
    <3>5. CASE objects[Dep(i)[k]] # 0
      BY <1>1, <3>1, <3>5
    <3>6. CASE \E j \in 1..n : i < j /\ pending[j].offset = Dep(i)[k]
      BY <1>3, <1>5, <3>1, <3>6
    <3>7. QED
      BY <3>2, <3>3, <3>4, <3>5, <3>6
  <2>2. QED
    BY <2>1 DEF WaitingInv, IsCached
<1>9. PathInv'
  <2>1. ASSUME NEW j \in DOMAIN pending', ~pending'[j].expanded, j # 1
        PROVE  \E i \in ExpandedEntries :
                  /\ i < j
                  /\ pending'[j].offset \in Range(Dep(i))
                  /\ \A m \in ExpandedEntries : m <= i \/ j < m
    <3>1. CASE j \in 1..n
      BY <1>2, <1>3, <2>1, <3>1 DEF EntriesInv, PathInv
    <3>2. CASE j \notin 1..n
      <4>1. j = n + 1 /\ pending'[j].offset = Dep(f)[c]
        BY <1>3, <3>2
      <4>2. f < j /\ Dep(f)[c] \in Range(Dep(f))
        BY <1>2, <1>3, <4>1
      <4>3. QED
        BY <1>3, <1>4, <4>1, <4>2
    <3>3. QED
      BY <3>1, <3>2
  <2>2. \A i, j \in ExpandedEntries : i < j =>
          \E m \in ExpandedEntries :
              i < m /\ m <= j /\ pending[m].offset \in Range(Dep(i))
    BY DEF EntriesInv, PathInv
  <2>3. \A i \in ExpandedEntries : pending'[i] = pending[i] /\ Dep(i)' = Dep(i)
    BY <1>2, <1>3
  <2>4. QED
    BY <1>3, <2>1, <2>2, <2>3 DEF PathInv
<1>10. ReachInv'
  <2>1. pending[f].offset \in Reach(Root) /\ pending[f].offset \in Offset
    BY <1>2, <1>3, EntryFacts DEF EntriesInv, ReachInv
  <2>2. fault[pending[f].offset] # "record"
    BY <1>3 DEF EntriesInv, SharedActiveInv
  <2>3. Dep(f)[c] \in Children(pending[f].offset) \cap Offset
    BY <1>2, <1>3, <2>2, EntryFacts DEF Children, Dep
  <2>4. Root \in Offset
    BY <1>2, <1>3, EntryFacts, RootType DEF ControlInv, TypeOK
  <2>5. Dep(f)[c] \in Reach(Root)
    BY <2>1, <2>3, <2>4, ReachFacts
  <2>6. \A i \in 1..n : pending'[i].offset \in Reach(Root)
    BY <1>2, <1>3 DEF EntriesInv, ReachInv
  <2>7. QED
    BY <1>1, <1>3, <2>5, <2>6, ReachRoot DEF ReachInv
<1>11. QED
  BY <1>6, <1>7, <1>8, <1>9, <1>10 DEF EntriesInv

\* Every step keeps the invariant of the entries.
LEMMA EntriesStep ==
    ASSUME TypeOK, ControlInv, EntriesInv, [Next]_vars
    PROVE  EntriesInv'
<1>1. \A x \in Offset : IsCached(x) => IsCached(x)'
  BY CachedStays
<1>2. CASE UNCHANGED vars
  BY <1>1, <1>2, GrowEntries DEF vars
<1>3. CASE PopCached
  <2>1. Popping /\ objects'[Top.offset] # 0
    BY <1>3 DEF PopCached, IsCached, decoded
  <2>2. QED
    BY <1>1, <1>3, <2>1, PopEntries DEF PopCached
<1>4. CASE /\ PopBuild /\ BuildLocation(Top.offset) /\ pending' = Popped
           /\ active' = active \ {Top.offset} /\ frame' = frame /\ child' = child
  <2>1. Popping /\ Top.expanded /\ Top.offset \in Offset /\ outcome = "running"
    BY <1>4, PopType DEF PopBuild, Popping, Entry
  <2>2. UNCHANGED results
    BY <1>4 DEF PopBuild, BuildFails, Fail
  <2>3. objects'[Top.offset] # 0
    BY <1>4, <2>1, BuildCaches DEF IsCached
  <2>4. QED
    BY <1>1, <1>4, <2>1, <2>2, <2>3, CatalogConstant, PopEntries
<1>5. QED
  BY <1>2, <1>3, <1>4, StackSteps, ClearedEntries, StartEntries, PopExpandEntries,
     PushChildEntries

\* Every step keeps ActiveInv: an entry leaves `active` when it is built, and nothing
\* but its own entry builds a location that is expanded.
LEMMA ActiveStep ==
    ASSUME TypeOK, CacheInv, StackInv, [Next]_vars
    PROVE  ActiveInv'
<1> PICK n \in Nat : n = Len(pending)
  BY EntryFacts
<1> DEFINE Held == {pending[i].offset : i \in ExpandedEntries}
<1>1. /\ active = Held
      /\ \A i, j \in ExpandedEntries : pending[i].offset = pending[j].offset => i = j
      /\ \A i \in ExpandedEntries :
            objects[pending[i].offset] = 0 /\ fault[pending[i].offset] # "record"
  BY DEF StackInv, ActiveInv, IsCached
<1>2. pending' = <<>> /\ active' = {} => ActiveInv'
  BY DEF ActiveInv, ExpandedEntries
<1>3. pending = <<>> => active = {}
  BY <1>1 DEF ExpandedEntries
<1>4. ASSUME ~(pending' = <<>> /\ active' = {})
      PROVE  ActiveInv'
  <2>1. \/ UNCHANGED vars \/ LocationStart \/ PopCached \/ PopExpand \/ PushChild
        \/ PopBuild /\ BuildLocation(Top.offset) /\ pending' = Popped
           /\ active' = active \ {Top.offset}
    <3>1. ~\E e : Fail(e)
      BY <1>4 DEF Fail
    <3>2. ~(pc = "resources" /\ UNCHANGED location)
      BY <1>3, <1>4 DEF StackInv, ControlInv, location
    <3>3. ~LocationReturn
      BY <1>4, <3>1 DEF LocationReturn
    <3>4. QED
      BY <3>1, <3>2, <3>3 DEF Next, LocationCached, LocationTruncated, LocationReady, Calling,
         PopTruncated, PopCycle, PopBuild, BuildFails, Finish
  <2>2. CASE UNCHANGED vars
    BY <2>2 DEF StackInv, ActiveInv, ExpandedEntries, IsCached, vars, location, catalog, decoded
  <2>3. CASE LocationStart
    BY <2>3, StartFacts DEF LocationStart, ActiveInv
  <2>4. CASE PopCached
    <3>1. /\ Popping /\ pending' = Popped /\ objects[pending[n].offset] # 0
          /\ active' = active /\ UNCHANGED <<catalog, decoded>>
      BY <2>4 DEF PopCached, IsCached, Top
    <3>2. ExpandedEntries' = ExpandedEntries /\ ExpandedEntries \subseteq 1..n - 1
      <4>1. n \notin ExpandedEntries
        BY <1>1, <3>1
      <4>2. ExpandedEntries \subseteq 1..n /\ ExpandedEntries' = ExpandedEntries \ {n}
        BY <3>1, PopFacts, EntryFacts
      <4>3. QED
        BY <4>1, <4>2
    <3>3. \A i \in ExpandedEntries : pending'[i] = pending[i]
      BY <3>1, <3>2, PopFacts
    <3>4. QED
      BY <1>1, <3>1, <3>2, <3>3 DEF ActiveInv, IsCached, catalog, decoded
  <2>5. CASE PopExpand
    <3>1. /\ Top = pending[n] /\ objects[Top.offset] = 0 /\ fault[Top.offset] # "record"
          /\ active' = active \cup {Top.offset} /\ Top.offset \notin active
          /\ objects' = objects /\ fault' = fault
      BY <2>5 DEF PopExpand, Top, IsCached, catalog, decoded
    <3>2. /\ ExpandedEntries' = ExpandedEntries \cup {n} /\ n \notin ExpandedEntries
          /\ \A i \in ExpandedEntries \cup {n} : pending'[i].offset = pending[i].offset
      <4>1. ExpandedEntries \subseteq 1..n /\ n \in 1..n
        BY <2>5, EntryFacts, PopType DEF PopExpand
      <4>2. QED
        BY <2>5, <4>1, ExpandFacts
    <3>3. {pending'[i].offset : i \in ExpandedEntries'} = Held \cup {Top.offset}
      BY <3>1, <3>2
    <3>4. \A i, j \in ExpandedEntries' : pending'[i].offset = pending'[j].offset => i = j
      <4>1. \A i \in ExpandedEntries : pending[i].offset # Top.offset
        BY <1>1, <3>1
      <4>2. QED
        BY <1>1, <3>1, <3>2, <4>1
    <3>5. \A i \in ExpandedEntries' :
            objects'[pending'[i].offset] = 0 /\ fault'[pending'[i].offset] # "record"
      BY <1>1, <3>1, <3>2
    <3>6. QED
      BY <1>1, <3>1, <3>3, <3>4, <3>5 DEF ActiveInv, IsCached
  <2>6. CASE PushChild
    <3>1. /\ ExpandedEntries' = ExpandedEntries /\ ExpandedEntries \subseteq 1..n
          /\ \A i \in 1..n : pending'[i] = pending[i]
          /\ active' = active /\ objects' = objects /\ fault' = fault
      BY <2>6, PushFacts, EntryFacts DEF StackInv, EntriesInv, PushChild, catalog, decoded
    <3>2. \A i \in ExpandedEntries : pending'[i] = pending[i]
      BY <3>1
    <3>3. QED
      BY <1>1, <3>1, <3>2 DEF ActiveInv, IsCached
  <2>7. CASE /\ PopBuild /\ BuildLocation(Top.offset) /\ pending' = Popped
             /\ active' = active \ {Top.offset}
    <3> PICK t \in Offset : t = Top.offset
      BY <2>7, PopType DEF PopBuild, Entry
    <3>1. /\ Popping /\ UNCHANGED catalog /\ fault' = fault
          /\ objects[t] = 0 /\ fault[t] # "record" /\ Top.expanded
      BY <2>7, CatalogConstant DEF PopBuild, catalog, IsCached
    <3>2. \A x \in Offset : x # t => objects'[x] = objects[x]
      BY <2>7, <3>1, BuildKeepsCache DEF IsCached
    <3>3. /\ n \in ExpandedEntries /\ pending[n].offset = t
          /\ ExpandedEntries' = ExpandedEntries \ {n} /\ ExpandedEntries \subseteq 1..n
      BY <2>7, <3>1, PopFacts, PopType, EntryFacts DEF Top, ExpandedEntries
    <3>4. \A i \in ExpandedEntries' :
            /\ i \in ExpandedEntries /\ pending'[i] = pending[i]
            /\ pending[i].offset # t /\ pending[i].offset \in Offset
      <4> TAKE i \in ExpandedEntries'
      <4>1. i \in ExpandedEntries /\ i \in 1..n /\ i # n /\ i \in 1..n - 1
        BY <3>3
      <4>2. pending'[i] = pending[i] /\ pending[i].offset \in Offset
        BY <2>7, <3>1, <4>1, PopFacts, EntryFacts
      <4>3. pending[i].offset # t
        BY <1>1, <3>3, <4>1
      <4>4. QED
        BY <4>1, <4>2, <4>3
    <3>5. active' = {pending'[i].offset : i \in ExpandedEntries'}
      <4>1. {pending'[i].offset : i \in ExpandedEntries'} =
               {pending[i].offset : i \in ExpandedEntries \ {n}}
        BY <3>3, <3>4
      <4>2. {pending[i].offset : i \in ExpandedEntries \ {n}} = Held \ {t}
        BY <3>3, <3>4
      <4>3. QED
        BY <1>1, <2>7, <4>1, <4>2
    <3>6. \A i, j \in ExpandedEntries' : pending'[i].offset = pending'[j].offset => i = j
      BY <1>1, <3>4
    <3>7. \A i \in ExpandedEntries' :
            objects'[pending'[i].offset] = 0 /\ fault'[pending'[i].offset] # "record"
      BY <1>1, <3>1, <3>2, <3>4
    <3>8. QED
      BY <3>5, <3>6, <3>7 DEF ActiveInv, IsCached
  <2>8. QED
    BY <2>1, <2>2, <2>3, <2>4, <2>5, <2>6, <2>7
<1>5. QED
  BY <1>2, <1>4

\* When an expanded entry is back on top, all it waited for is in the cache.
LEMMA TopIsReady ==
    ASSUME TypeOK, EntriesInv, Popping, Top.expanded
    PROVE  \A d \in Range(deps[Top.offset]) : IsCached(d)
<1>1. /\ Len(pending) \in ExpandedEntries /\ frame = 0
      /\ Len(pending) \in Nat \ {0} /\ DOMAIN pending = 1..Len(pending)
  BY PopType, EntryFacts DEF Popping, Top, ExpandedEntries
<1>2. \A k \in 1..Len(Dep(Len(pending))) : IsCached(Dep(Len(pending))[k])
  BY <1>1 DEF EntriesInv, WaitingInv
<1>3. \A d \in Range(Dep(Len(pending))) :
        \E k \in 1..Len(Dep(Len(pending))) : Dep(Len(pending))[k] = d
  BY <1>1, EntryFacts
<1>4. \A d \in Range(Dep(Len(pending))) : IsCached(d)
  BY <1>2, <1>3
<1>5. QED
  BY <1>4 DEF Dep, Top

\* An entry comes up to be built with nothing left to wait for, so the lookup succeeds.
LEMMA NoPanicStep ==
    ASSUME TypeOK, NoPanic, ControlInv, EntriesInv, [Next]_vars
    PROVE  NoPanic'
<1>1. ASSUME NEW o \in Offset, BuildFails(o), \A d \in Range(deps[o]) : IsCached(d)
      PROVE  outcome' \in {"read", "unsupported"}
  <2>1. BuildOutcome(o) # "panic"
    BY <1>1 DEF BuildOutcome
  <2>2. QED
    BY <1>1, <2>1, BuildOutcomeType DEF Fail
<1>2. CASE LocationReady /\ BuildFails(Root)
  <2>1. Root \in Offset /\ \A d \in Range(deps[Root]) : IsCached(d)
    BY <1>2, RootType DEF LocationReady, Calling, Ready
  <2>2. QED
    BY <1>1, <1>2, <2>1 DEF NoPanic
<1>3. CASE PopBuild /\ BuildFails(Top.offset)
  <2>1. Top.offset \in Offset /\ \A d \in Range(deps[Top.offset]) : IsCached(d)
    BY <1>3, TopIsReady, PopType DEF PopBuild, Entry
  <2>2. QED
    BY <1>1, <1>3, <2>1 DEF NoPanic
<1>4. CASE LocationReturn
  BY <1>4 DEF LocationReturn, ControlInv, NoPanic
<1>5. QED
  BY <1>2, <1>3, <1>4 DEF Next, vars, LocationCached, LocationTruncated, LocationReady,
     LocationStart, PopCached, PopTruncated, PopCycle, PopExpand, PushChild, PopBuild,
     Finish, Fail, NoPanic

\* The instance reads the same catalog.
LEMMA PromiseSame ==
    /\ Promise!Root = Root
    /\ \A o : Promise!Reach(o) = Reach(o)
    /\ \A C : Promise!Stuck(C) <=> Stuck(C)
    /\ \A o : Promise!Children(o) = Children(o)
<1>1. Promise!Root = Root
  BY DEF Promise!Root, Root
<1>2. \A o : Promise!Children(o) = Children(o)
  BY DEF Promise!Children, Children, Promise!Range, Range
<1>3. \A S : Promise!Closed(S) <=> Closed(S)
  BY <1>2 DEF Promise!Closed, Closed
<1>4. \A o : Promise!Reach(o) = Reach(o)
  BY <1>3 DEF Promise!Reach, Reach
<1>5. \A C : Promise!Stuck(C) <=> Stuck(C)
  BY <1>2 DEF Promise!Stuck, Stuck
<1>6. QED
  BY <1>1, <1>2, <1>4, <1>5

\* Expanding an offset that is being expanded closes a path of dependencies.
LEMMA PopCycleFindsCycle ==
    ASSUME TypeOK, EntriesInv, PopCycle
    PROVE  \E C \in SUBSET Reach(Root) : Stuck(C)
<1> PICK n \in Nat : n = Len(pending)
  BY EntryFacts
<1>1. /\ n \in Nat \ {0} /\ DOMAIN pending = 1..n /\ ExpandedEntries \subseteq 1..n
      /\ Top = pending[n] /\ ~pending[n].expanded
  BY PopType, EntryFacts DEF PopCycle, Top
<1>2. n \notin ExpandedEntries
  BY <1>1 DEF ExpandedEntries
<1>3. PICK i \in ExpandedEntries : pending[i].offset = pending[n].offset
  BY <1>1 DEF PopCycle, EntriesInv, SharedActiveInv
<1>4. i < n /\ n # 1
  BY <1>1, <1>2, <1>3
<1> DEFINE C == {pending[m].offset : m \in {m \in ExpandedEntries : i <= m}}
<1>5. C \subseteq Reach(Root)
  BY <1>1 DEF EntriesInv, ReachInv
<1>6. \A m \in ExpandedEntries : Children(pending[m].offset) = Range(Dep(m))
  BY DEF Children, Dep, EntriesInv, SharedActiveInv
<1>7. ASSUME NEW m \in ExpandedEntries, i <= m
      PROVE  Range(Dep(m)) \cap C # {}
  <2>1. CASE \E x \in ExpandedEntries : m < x
    <3>1. PICK x \in ExpandedEntries : m < x
      BY <2>1
    <3>2. PICK y \in ExpandedEntries : m < y /\ y <= x /\ pending[y].offset \in Range(Dep(m))
      BY <3>1 DEF EntriesInv, PathInv
    <3>3. i <= y
      BY <1>1, <1>7, <3>2
    <3>4. QED
      BY <3>2, <3>3
  <2>2. CASE ~\E x \in ExpandedEntries : m < x
    <3>1. PICK y \in ExpandedEntries :
                  /\ y < n
                  /\ pending[n].offset \in Range(Dep(y))
                  /\ \A x \in ExpandedEntries : x <= y \/ n < x
      BY <1>1, <1>4 DEF EntriesInv, PathInv
    <3>2. y = m
      BY <1>1, <1>7, <2>2, <3>1
    <3>3. pending[n].offset \in C
      BY <1>1, <1>3
    <3>4. QED
      BY <3>1, <3>2, <3>3
  <2>3. QED
    BY <2>1, <2>2
<1>8. C # {}
  BY <1>1, <1>3
<1>9. Stuck(C)
  BY <1>6, <1>7, <1>8 DEF Stuck
<1>10. QED
  BY <1>5, <1>9

\* Every step keeps CycleIsReal: only PopCycle reports a cycle.
LEMMA CycleStep ==
    ASSUME TypeOK, CycleIsReal, EntriesInv, [Next]_vars
    PROVE  CycleIsReal'
<1>1. UNCHANGED catalog
  BY CatalogConstant
<1>2. CASE PopCycle
  <2>1. \E C \in SUBSET Reach(Root) : Stuck(C)
    BY <1>2, PopCycleFindsCycle
  <2>2. UNCHANGED results
    BY <1>2 DEF PopCycle, Fail
  <2>3. \E C \in SUBSET Reach(Root)' : Stuck(C)'
    BY <1>1, <2>1, <2>2, ReachRoot DEF Stuck, Children, catalog
  <2>4. QED
    BY <2>3 DEF CycleIsReal, Promise!CycleIsReal, Promise!Root, Root, Promise!Reach, Reach,
       Promise!Closed, Closed, Promise!Children, Children, Promise!Range, Range,
       Promise!Stuck, Stuck
<1>3. CASE UNCHANGED vars
  BY <1>3 DEF vars, catalog, CycleIsReal, Promise!CycleIsReal, Promise!Root, Promise!Reach,
     Promise!Closed, Promise!Children, Promise!Stuck
<1>4. CASE ~PopCycle /\ Next
  <2>1. \A o : BuildFails(o) => outcome' # "cycle"
    BY DEF BuildFails, BuildOutcome, Fail
  <2>2. outcome' # "cycle"
    BY <1>4, <2>1 DEF Next, LocationCached, LocationTruncated, LocationReady, LocationStart,
       PopCached, PopTruncated, PopExpand, PushChild, PopBuild, LocationReturn, Finish, Fail,
       Calling, Popping
  <2>3. QED
    BY <2>2 DEF CycleIsReal, Promise!CycleIsReal
<1>5. QED
  BY <1>2, <1>3, <1>4

\* A delivered object is the cached one, and stays so: the cache is write-once.
LEMMA ResultsStep ==
    ASSUME TypeOK, CacheInv, ControlInv, ResultsInv, [Next]_vars
    PROVE  ResultsInv'
<1>1. UNCHANGED catalog /\ roots' = roots
  BY CatalogConstant DEF catalog
<1>2. \A x \in Offset : objects[x] # 0 => objects'[x] = objects[x]
  BY CacheStep DEF IsCached
<1>3. \A k \in 1..Len(roots) : roots[k] \in Offset
  BY DEF TypeOK, CatalogTypeOK
<1>4. Len(results) \in Nat /\ Len(roots) \in Nat
  BY DEF TypeOK, CatalogTypeOK
<1>5. \A k \in 1..Len(results) : results[k] # 0 /\ results[k] = objects'[roots[k]]
  <2> TAKE k \in 1..Len(results)
  <2>1. k \in 1..Len(roots)
    BY <1>4 DEF ResultsInv
  <2>2. QED
    BY <1>2, <1>3, <2>1 DEF ResultsInv
<1>6. CASE UNCHANGED results
  BY <1>1, <1>5, <1>6 DEF ResultsInv
<1>7. CASE /\ results' = Append(results, objects[Root]) /\ IsCached(Root)
           /\ Len(results) < Len(roots)
  <2>1. Root \in Offset /\ objects[Root] # 0 /\ Root = roots[Len(results) + 1]
    BY <1>7, RootType DEF IsCached, Root
  <2>2. objects[Root] \in Nat /\ results \in Seq(Nat)
    BY <2>1 DEF TypeOK
  <2>3. /\ Len(results') = Len(results) + 1
        /\ results'[Len(results) + 1] = objects[Root]
        /\ \A k \in 1..Len(results) : results'[k] = results[k]
    BY <1>7, <2>2
  <2>4. \A k \in 1..Len(results') : results'[k] # 0 /\ results'[k] = objects'[roots'[k]]
    <3> TAKE k \in 1..Len(results')
    <3>1. CASE k = Len(results) + 1
      BY <1>1, <1>2, <2>1, <2>3, <3>1
    <3>2. CASE k # Len(results) + 1
      BY <1>1, <1>4, <1>5, <2>3, <3>2
    <3>3. QED
      BY <3>1, <3>2
  <2>5. QED
    BY <1>1, <1>4, <1>7, <2>3, <2>4 DEF ResultsInv
<1>8. QED
  BY <1>6, <1>7 DEF Next, vars, LocationCached, LocationTruncated, LocationReady,
     LocationStart, PopCached, PopTruncated, PopCycle, PopExpand, PushChild, PopBuild,
     BuildFails, LocationReturn, Finish, Fail, Calling, ControlInv

-----------------------------------------------------------------------------
(* The theorems. *)

\* Before the first call the invariant holds.
LEMMA InitInv == Init => TypeOK /\ TraversalInv
<1> SUFFICES ASSUME Init PROVE TypeOK /\ TraversalInv
  OBVIOUS
<1>1. TypeOK
  BY CatalogTyped DEF Init, TypeOK
<1>2. CacheInv /\ ResultsInv /\ NoPanic
  BY <1>1 DEF Init, CacheInv, ResultsInv, NoPanic, IsCached, TypeOK, CatalogTypeOK
<1>3. StackInv
  BY DEF Init, StackInv, EntriesInv, ControlInv, ActiveInv, SharedActiveInv, FrameInv,
         WaitingInv, PathInv, ReachInv, ExpandedEntries
<1>4. CycleIsReal
  BY DEF Init, CycleIsReal, Promise!CycleIsReal
<1>5. QED
  BY <1>1, <1>2, <1>3, <1>4 DEF TraversalInv

\* The invariant is inductive.
LEMMA StepInv ==
    ASSUME TypeOK, TraversalInv, [Next]_vars
    PROVE  TypeOK' /\ TraversalInv'
<1>1. /\ ControlInv /\ EntriesInv /\ FrameInv /\ StackInv
      /\ CacheInv /\ ResultsInv /\ NoPanic /\ CycleIsReal
  BY DEF TraversalInv, StackInv, EntriesInv
<1>2. TypeOK' /\ CacheInv' /\ ResultsInv' /\ ControlInv' /\ ActiveInv' /\ EntriesInv'
  BY <1>1, TypeStep, CacheStep, ResultsStep, ControlStep, ActiveStep, EntriesStep
<1>3. NoPanic' /\ CycleIsReal'
  BY <1>1, NoPanicStep, CycleStep
<1>4. QED
  BY <1>2, <1>3 DEF TraversalInv, StackInv

\* The variables keep their types, and the inductive invariant of the explicit
\* stack holds, whatever the catalog.
THEOREM TraversalInvariant == Spec => [](TypeOK /\ TraversalInv)
BY InitInv, StepInv, PTL DEF Spec

\* Every variable of the traversal keeps its type.
THEOREM TypeCorrect == Spec => []TypeOK
BY TraversalInvariant, PTL

\* The lookups `self.objects[&offset]` in build_location and `cached(root)` at
\* the end of `location` always succeed.
THEOREM NeverPanics == Spec => []NoPanic
<1>1. TypeOK /\ TraversalInv => NoPanic
  BY DEF TraversalInv
<1>2. QED
  BY <1>1, TraversalInvariant, PTL

\* "resource dependency graph contains a cycle" is reported only for a graph
\* that has one below the requested location.
THEOREM CyclesAreReal == Spec => []CycleIsReal
<1>1. TypeOK /\ TraversalInv => CycleIsReal
  BY DEF TraversalInv
<1>2. QED
  BY <1>1, TraversalInvariant, PTL

\* One object per offset: every dependency list and every result refers to it.
THEOREM OneObjectPerOffset == Spec => []SharedIdentity
<1>1. TypeOK /\ TraversalInv => SharedIdentity
  BY DEF TraversalInv, CacheInv, ResultsInv, IsCached, SharedIdentity, Promise!SharedIdentity
<1>2. QED
  BY <1>1, TraversalInvariant, PTL

\* The cache is closed under dependencies, so it holds all a cached root leads to.
LEMMA ReachIsCached ==
    ASSUME TypeOK, CacheInv, NEW r \in Offset, IsCached(r)
    PROVE  \A o \in Reach(r) : o \in Offset /\ IsCached(o)
<1> DEFINE S == {o \in Offset : IsCached(o)}
<1>1. \A o \in S : Children(o) = Range(deps[o]) /\ Range(deps[o]) \subseteq S
  BY DepsType DEF TypeOK, CacheInv, Children
<1>2. Closed(S)
  BY <1>1 DEF Closed
<1>3. S \in SUBSET Offset /\ r \in S
  OBVIOUS
<1> HIDE DEF S
<1>4. \A o \in Reach(r) : o \in S
  BY <1>2, <1>3 DEF Reach
<1>5. QED
  BY <1>4 DEF S

\* A parse that ends well has decoded everything below every requested location,
\* in an order that shows that part of the graph to be acyclic.
THEOREM AcceptedIsDecoded == Spec => []AcceptsOnlyDecodable
<1>1. ASSUME TypeOK, TraversalInv, outcome = "done",
             NEW k \in 1..Len(roots), NEW o \in Reach(roots[k])
      PROVE  /\ objects[o] # 0
             /\ fault[o] = "none"
             /\ \A d \in Children(o) : 0 < objects[d] /\ objects[d] < objects[o]
  <2>1. roots[k] \in Offset /\ k \in 1..Len(results)
    BY <1>1 DEF TypeOK, CatalogTypeOK, TraversalInv, StackInv, ControlInv
  <2>2. IsCached(roots[k])
    BY <1>1, <2>1 DEF TraversalInv, ResultsInv, IsCached
  <2>3. o \in Offset /\ IsCached(o)
    BY <1>1, <2>1, <2>2, ReachIsCached DEF TraversalInv
  <2>4. /\ fault[o] = "none"
        /\ \A d \in Range(deps[o]) : objects[d] # 0 /\ objects[d] < objects[o]
    BY <1>1, <2>3 DEF TraversalInv, CacheInv, IsCached
  <2>5. \A d \in Range(deps[o]) : objects[d] \in Nat
    BY <1>1, <2>3, DepsType DEF TypeOK
  <2>6. Children(o) = Range(deps[o])
    BY <2>4 DEF Children
  <2>7. QED
    BY <2>3, <2>4, <2>5, <2>6 DEF IsCached
<1>2. TypeOK /\ TraversalInv => AcceptsOnlyDecodable
  BY <1>1, PromiseSame DEF AcceptsOnlyDecodable, Promise!AcceptsOnlyDecodable
<1>3. QED
  BY <1>2, TraversalInvariant, PTL

-----------------------------------------------------------------------------
(* Refinement. *)

\* A construction by build_location is a Decode step of the abstract machine.
LEMMA BuildIsDecode ==
    ASSUME TypeOK, NEW o \in Offset, BuildLocation(o), o \in Reach(Root), ~IsCached(o),
           fault[o] # "record", outcome = "running", Len(results) < Len(roots),
           UNCHANGED <<catalog, results, outcome>>
    PROVE  Promise!Next
<1>1. fault[o] = "none" /\ \A d \in Range(deps[o]) : objects[d] # 0
  <2>1. fault[o] \in FaultKind
    BY DEF TypeOK, CatalogTypeOK
  <2>2. QED
    BY <2>1 DEF BuildLocation, BuildOutcome, FaultKind, IsCached
<1>2. o \in Promise!Reach(Promise!Root)
  BY PromiseSame
<1>3. Promise!Decode(o)
  BY <1>1, <1>2 DEF Promise!Decode, Promise!Asking, Promise!Range, Range, BuildLocation,
                    IsCached, catalog, Promise!catalog
<1>4. QED
  BY <1>3 DEF Promise!Next

\* An error of the traversal that is not a cycle has a damaged record to show for it.
LEMMA FaultIsReject ==
    ASSUME TypeOK, NEW o \in Offset, o \in Reach(Root), ~IsCached(o), fault[o] # "none",
           outcome = "running", Len(results) < Len(roots),
           NEW e, e = (IF fault[o] = "object" THEN "unsupported" ELSE "read"), Fail(e)
    PROVE  Promise!Next
<1>1. o \in Promise!Reach(Promise!Root) /\ objects[o] = 0
  BY PromiseSame DEF IsCached
<1>2. outcome' = Promise!FaultOutcome(o)
  BY DEF Fail, Promise!FaultOutcome
<1>3. Promise!Reject
  BY <1>1, <1>2 DEF Promise!Reject, Promise!Asking, Fail, decoded, catalog, Promise!catalog
<1>4. QED
  BY <1>3 DEF Promise!Next

\* A build that fails is a rejection of the abstract decoding.
LEMMA BuildFailsIsReject ==
    ASSUME TypeOK, NEW o \in Offset, o \in Reach(Root), ~IsCached(o),
           \A d \in Range(deps[o]) : IsCached(d),
           outcome = "running", Len(results) < Len(roots), BuildFails(o)
    PROVE  Promise!Next
<1>1. \/ fault[o] = "string" /\ BuildOutcome(o) = "read"
      \/ fault[o] = "object" /\ BuildOutcome(o) = "unsupported"
  BY DEF BuildFails, BuildOutcome
<1>2. QED
  BY <1>1, FaultIsReject DEF BuildFails

\* Every step of the traversal is a step of the abstract decoding, or none.
LEMMA Simulation ==
    ASSUME TypeOK, TraversalInv, [Next]_vars
    PROVE  [Promise!Next]_(Promise!vars)
<1> USE DEF Promise!vars, Promise!catalog
<1>1. ControlInv /\ EntriesInv /\ ReachInv
  BY DEF TraversalInv, StackInv, EntriesInv
<1>2. Calling => Root \in Offset /\ Root \in Reach(Root)
  BY RootType, ReachFacts DEF Calling
<1>3. Popping => /\ Top.offset \in Offset /\ Top.offset \in Reach(Root)
                 /\ outcome = "running" /\ Len(results) < Len(roots)
  <2> SUFFICES ASSUME Popping PROVE Top.offset \in Reach(Root) /\ Top.offset \in Offset
                                    /\ Len(results) < Len(roots)
    BY DEF Popping
  <2>1. Len(pending) \in DOMAIN pending
    BY PopType, EntryFacts
  <2>2. QED
    BY <1>1, <2>1, EntryFacts DEF ReachInv, Top, ControlInv, Popping
<1>4. CASE UNCHANGED vars
  BY <1>4 DEF vars, catalog, decoded
<1>5. CASE LocationCached
  <2>1. Promise!Deliver
    BY <1>5, PromiseSame DEF LocationCached, Calling, Promise!Deliver, Promise!Asking,
       IsCached, catalog, decoded
  <2>2. QED
    BY <2>1 DEF Promise!Next
<1>6. CASE LocationTruncated
  BY <1>2, <1>6, FaultIsReject DEF LocationTruncated, Calling
<1>7. CASE LocationReady
  <2>1. CASE BuildFails(Root)
    BY <1>2, <1>7, <2>1, BuildFailsIsReject DEF LocationReady, Calling, Ready
  <2>2. CASE BuildLocation(Root) /\ UNCHANGED <<catalog, results, outcome>>
    BY <1>2, <1>7, <2>2, BuildIsDecode DEF LocationReady, Calling
  <2>3. QED
    BY <1>7, <2>1, <2>2 DEF LocationReady
<1>8. CASE LocationStart
  BY <1>8 DEF LocationStart, catalog, decoded
<1>9. CASE PopCached
  BY <1>9 DEF PopCached, catalog, decoded
<1>10. CASE PopTruncated
  BY <1>3, <1>10, FaultIsReject DEF PopTruncated
<1>11. CASE PopCycle
  <2>1. \E C \in SUBSET Promise!Reach(Promise!Root) : Promise!Stuck(C)
    BY <1>1, <1>11, PopCycleFindsCycle, PromiseSame
  <2>2. Promise!RejectCycle
    BY <1>3, <1>11, <2>1 DEF PopCycle, Fail, Promise!RejectCycle, Promise!Asking, catalog, decoded
  <2>3. QED
    BY <2>2 DEF Promise!Next
<1>12. CASE PopExpand
  BY <1>12 DEF PopExpand, catalog, decoded
<1>13. CASE PushChild
  BY <1>13 DEF PushChild, catalog, decoded
<1>14. CASE PopBuild
  <2>1. CASE BuildFails(Top.offset)
    BY <1>1, <1>3, <1>14, <2>1, TopIsReady, BuildFailsIsReject DEF PopBuild
  <2>2. CASE BuildLocation(Top.offset) /\ UNCHANGED <<catalog, results, outcome>>
    BY <1>3, <1>14, <2>2, BuildIsDecode DEF PopBuild
  <2>3. QED
    BY <1>14, <2>1, <2>2 DEF PopBuild
<1>15. CASE LocationReturn
  <2>1. IsCached(Root) /\ Len(results) < Len(roots)
    BY <1>1, <1>15 DEF LocationReturn, ControlInv
  <2>2. Promise!Deliver
    BY <1>15, <2>1, PromiseSame DEF LocationReturn, Promise!Deliver, Promise!Asking,
       IsCached, catalog, decoded
  <2>3. QED
    BY <2>2 DEF Promise!Next
<1>16. CASE Finish
  <2>1. Promise!Finish
    BY <1>16 DEF Finish, Promise!Finish, catalog, decoded
  <2>2. QED
    BY <2>1 DEF Promise!Next
<1>17. QED
  BY <1>4, <1>5, <1>6, <1>7, <1>8, <1>9, <1>10, <1>11, <1>12, <1>13, <1>14, <1>15, <1>16
  DEF Next

\* The Rust traversal implements the abstract decoding of the graph: every
\* construction happens when the abstract machine allows it, and every error it
\* raises is one the catalog gives a reason for.
THEOREM Refinement == Spec => ImplementsLocationGraph
<1>1. Init => Promise!Init
  BY DEF Init, Promise!Init, CatalogInit, Promise!CatalogInit
<1>2. TypeOK /\ TraversalInv /\ [Next]_vars => [Promise!Next]_(Promise!vars)
  BY Simulation
<1>3. QED
  BY <1>1, <1>2, TraversalInvariant, PTL DEF Spec, ImplementsLocationGraph, Promise!Spec
=============================================================================
