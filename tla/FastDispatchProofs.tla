------------------------- MODULE FastDispatchProofs -------------------------
(***************************************************************************)
(* Proofs about FastDispatch, for every set of names, types and threads,  *)
(* and any number of changes to the registry.  In the first part, on the   *)
(* dispatch, what `_resolve` computes plays no part: all that is used of   *)
(* it is that the same aliases give the same answer.  What it computes is  *)
(* the subject of the second.                                              *)
(***************************************************************************)
EXTENDS FastDispatch, FiniteSetTheorems, WellFoundedInduction, TLAPS

\* What a parse is given is named wherever it is used.
USE DEF given

\* The answer for a resolved name is a kind the parser can remember.
LEMMA KindType ==
    ASSUME NameAssumption, NEW n, n # Cycle
    PROVE  Kind(n) \in Builtin \cup {Custom, Unsupported}
BY DEF Kind

\* Unless the registry changes, its answers do not.
LEMMA DecisionStable ==
    ASSUME UNCHANGED <<aliases, decoders>>, NEW n
    PROVE  /\ Decision(n)' = Decision(n)
           /\ Kind(n)' = Kind(n)
           /\ Resolve(n)' = Resolve(n)
BY DEF Decision, Kind, Resolve

\* A change leaves a registry.
LEMMA MutateTyped ==
    ASSUME RegistryTypeOK, Mutate
    PROVE  RegistryTypeOK'
<1>1. ASSUME NEW n \in Name, Register(n)
      PROVE  RegistryTypeOK'
  BY <1>1 DEF Register, RegistryTypeOK
<1>2. ASSUME NEW n \in Name, NEW t \in Name, Alias(n, t)
      PROVE  RegistryTypeOK'
  BY <1>2 DEF Alias, RegistryTypeOK
<1>3. QED
  BY <1>1, <1>2 DEF Mutate

\* Before the parse nothing is remembered.
LEMMA InitInv == Init => TypeOK /\ DispatchInv
<1> SUFFICES ASSUME Init PROVE TypeOK /\ DispatchInv
  OBVIOUS
<1>1. TypeOK
  BY DEF Init, Live!Init, Live!RegistryInit, TypeOK, RegistryTypeOK
<1>2. AloneInv
  BY DispatchAssumption DEF Init, AloneInv, Returned
<1>3. Coherent
  BY DEF Init, Coherent
<1>4. QED
  BY <1>1, <1>2, <1>3 DEF Init, DispatchInv

\* From the write to the dictionary on, nothing is said of what is remembered.
LEMMA WriteRegistryKeeps ==
    ASSUME TypeOK, DispatchInv, NEW c \in Thread, WriteRegistry(c)
    PROVE  TypeOK' /\ DispatchInv'
<1>1. UNCHANGED <<revision, seen, lost, given, last, parser>> /\ stage' = [stage EXCEPT ![c] = "written"]
  BY DEF WriteRegistry
<1>2. TypeOK'
  BY <1>1, MutateTyped DEF WriteRegistry, TypeOK, parser
<1>3. ~Settled'
  BY <1>1 DEF Settled, TypeOK
<1>4. ~concurrent => c = Parsing /\ pc \in {"setup", "callback"}
  BY DEF WriteRegistry, MayChange
<1>5. ~concurrent => AloneInv'
  BY <1>1, <1>4, DispatchAssumption DEF DispatchInv, AloneInv, Returned, TypeOK, parser
<1>6. QED
  BY <1>1, <1>2, <1>3, <1>5 DEF DispatchInv, Coherent, parser

\* Nor when the revision has been read.
LEMMA ReadRevisionKeeps ==
    ASSUME TypeOK, DispatchInv, NEW c \in Thread, ReadRevision(c)
    PROVE  TypeOK' /\ DispatchInv'
<1>1. /\ UNCHANGED <<registry, revision, lost, given, last, parser>>
      /\ stage[c] = "written" /\ stage' = [stage EXCEPT ![c] = "read"] /\ seen' = [seen EXCEPT ![c] = revision]
  BY DEF ReadRevision
<1>2. TypeOK'
  BY <1>1 DEF TypeOK, RegistryTypeOK, registry, parser
<1>3. ~Settled'
  BY <1>1 DEF Settled, TypeOK
<1>4. ~concurrent => AloneInv'
  BY <1>1, DispatchAssumption DEF DispatchInv, AloneInv, Returned, TypeOK, parser
<1>5. QED
  BY <1>1, <1>2, <1>3, <1>4 DEF DispatchInv, Coherent, parser

\* An increment that is not lost makes the noted revision an old one.
LEMMA WriteRevisionKeeps ==
    ASSUME TypeOK, DispatchInv, NEW c \in Thread, WriteRevision(c)
    PROVE  TypeOK' /\ DispatchInv'
<1>1. /\ UNCHANGED <<registry, given, last, parser>>
      /\ stage[c] = "read" /\ stage' = [stage EXCEPT ![c] = "none"] /\ seen' = [seen EXCEPT ![c] = 0]
      /\ revision' = seen[c] + 1 /\ lost' = (lost \/ seen[c] # revision)
  BY DEF WriteRevision
<1>2. seen[c] \in Nat /\ revision \in Nat /\ parserRevision \in Nat
  BY DEF TypeOK
<1>3. TypeOK'
  BY <1>1, <1>2 DEF TypeOK, RegistryTypeOK, registry, parser
<1>4. ~lost' => parserRevision' < revision'
  <2>1. ~lost' => ~lost /\ seen[c] = revision
    BY <1>1
  <2>2. ~lost => parserRevision <= revision
    BY DEF DispatchInv
  <2>3. parserRevision' = parserRevision /\ revision' = seen[c] + 1
    BY <1>1 DEF parser
  <2>4. QED
    BY <1>2, <2>1, <2>2, <2>3
<1>5. ~concurrent => AloneInv'
  <2>1. ASSUME ~concurrent
        PROVE  c = Parsing /\ pc \in {"setup", "callback"} /\ ~lost'
    BY <1>1, <2>1, DispatchAssumption DEF DispatchInv, AloneInv, Returned
  <2>2. QED
    BY <1>1, <2>1, DispatchAssumption DEF DispatchInv, AloneInv, Returned, TypeOK, parser
<1>6. QED
  BY <1>1, <1>2, <1>3, <1>4, <1>5 DEF DispatchInv, Coherent, Settled, parser

\* Noting the current revision forgets what belongs to an older one.
LEMMA BeginKeeps ==
    ASSUME TypeOK, DispatchInv, NEW t \in Type, BeginObject(t)
    PROVE  TypeOK' /\ DispatchInv'
<1>1. TypeOK'
  BY DEF BeginObject, TypeOK, RegistryTypeOK, registry, counting, Forgotten
<1>2. \A x \in DOMAIN kinds' : x \in DOMAIN kinds /\ kinds'[x] = kinds[x] /\ parserRevision = revision
  BY DEF BeginObject, Forgotten
<1>3. Coherent'
  BY <1>2, DecisionStable DEF BeginObject, DispatchInv, Coherent, Settled, registry, counting
<1>4. ~concurrent => AloneInv'
  BY DEF BeginObject, DispatchInv, AloneInv, Returned, TypeOK, counting
<1>5. QED
  BY <1>1, <1>3, <1>4 DEF BeginObject, DispatchInv, TypeOK, registry, counting

\* What is remembered is what the registry of the noted revision says.
LEMMA GetKeeps ==
    ASSUME TypeOK, DispatchInv, GetDecoder
    PROVE  TypeOK' /\ DispatchInv'
<1>1. UNCHANGED <<registry, counting, given, last, parserRevision, type, resolved>> /\ pc = "get" /\ pc' = "use"
  BY DEF GetDecoder
<1>2. DOMAIN kinds' = DOMAIN kinds \cup {type} /\ kinds'[type] = Kind(resolved)
  BY DEF GetDecoder
<1>3. \A x \in DOMAIN kinds \ {type} : kinds'[x] = kinds[x]
  BY DEF GetDecoder
<1>4. TypeOK'
  BY <1>1, <1>2, <1>3, KindType, NameAssumption
     DEF TypeOK, RegistryTypeOK, registry, counting, DispatchInv
<1>5. Coherent'
  <2> SUFFICES ASSUME Settled, parserRevision = revision, NEW x \in DOMAIN kinds'
               PROVE  kinds'[x] = Decision(names[x])'
    BY <1>1 DEF Coherent, Settled, counting
  <2>1. Decision(names[x])' = Decision(names[x])
    BY <1>1, DecisionStable DEF registry
  <2>2. CASE x = type
    BY <1>1, <1>2, <2>1, <2>2 DEF DispatchInv, Decision
  <2>3. CASE x # type
    BY <1>2, <1>3, <2>1, <2>3 DEF DispatchInv, Coherent
  <2>4. QED
    BY <2>2, <2>3
<1>6. ~concurrent => AloneInv'
  BY <1>1 DEF DispatchInv, AloneInv, Returned, counting
<1>7. QED
  BY <1>1, <1>2, <1>4, <1>5, <1>6 DEF DispatchInv, counting

\* The other steps neither change the registry nor what is remembered of it.
LEMMA OthersKeep ==
    ASSUME TypeOK, DispatchInv,
           StartParse \/ ResolveName \/ UseBuiltin \/ UseCustom \/ CallbackReturn \/ UNCHANGED vars
    PROVE  TypeOK' /\ DispatchInv'
<1>1. UNCHANGED <<registry, counting, given, kinds, parserRevision, type>>
  BY DEF StartParse, ResolveName, UseBuiltin, UseCustom, CallbackReturn, vars, parser
<1>2. /\ UNCHANGED <<aliases, decoders, revision, stage, seen, lost>>
      /\ Settled' = Settled
      /\ \A n : Decision(n)' = Decision(n) /\ Resolve(n)' = Resolve(n)
  BY <1>1, DecisionStable DEF registry, counting, Settled
<1>3. pc' \in {"setup", "idle", "resolve", "get", "use", "callback", "failed"}
  BY DEF StartParse, ResolveName, UseBuiltin, UseCustom, CallbackReturn, vars, parser, TypeOK
<1>4. TypeOK'
  BY <1>1, <1>2, <1>3 DEF TypeOK, RegistryTypeOK
<1>5. Coherent'
  BY <1>1, <1>2 DEF DispatchInv, Coherent
<1>6. pc' \in {"resolve", "get", "use"} => pc' = pc \/ ResolveName
  BY DEF StartParse, UseBuiltin, UseCustom, CallbackReturn, vars, parser
<1>7. /\ pc' = "get" => resolved' # Cycle
      /\ pc' = "get" /\ Settled' /\ parserRevision' = revision' => resolved' = Resolve(names[type])'
  <2>1. CASE ResolveName
    BY <2>1, <1>1, <1>2 DEF ResolveName
  <2>2. CASE ~ResolveName
    BY <2>2, <1>1, <1>2, <1>6 DEF StartParse, UseBuiltin, UseCustom, CallbackReturn,
       vars, parser, DispatchInv
  <2>3. QED
    BY <2>1, <2>2
<1>8. /\ pc' = "use" => type' \in DOMAIN kinds'
      /\ ~lost' => parserRevision' <= revision'
  BY <1>1, <1>2, <1>6 DEF ResolveName, DispatchInv
<1>9. ~concurrent' => AloneInv'
  <2>1. pc' \notin {"setup", "callback"} => pc' = pc \/ Returned \/ pc \notin {"setup", "callback"}
    BY DEF StartParse, ResolveName, UseBuiltin, UseCustom, CallbackReturn, vars, parser
  <2>2. QED
    BY <1>1, <1>2, <1>6, <2>1 DEF ResolveName, DispatchInv, AloneInv, Returned
<1>10. QED
  BY <1>4, <1>5, <1>7, <1>8, <1>9 DEF DispatchInv

\* The invariant is inductive.
LEMMA StepInv ==
    ASSUME TypeOK, DispatchInv, [Next]_vars
    PROVE  TypeOK' /\ DispatchInv'
BY WriteRegistryKeeps, ReadRevisionKeeps, WriteRevisionKeeps, BeginKeeps, GetKeeps, OthersKeep
   DEF Next, ChangeRegistry

\* The types of the parser's state, and what its memory has to do with the registry,
\* in every reachable state.
THEOREM DispatchInvariant == Spec => []TypeOK /\ []DispatchInv
<1>1. Init => TypeOK /\ DispatchInv
  BY InitInv
<1>2. TypeOK /\ DispatchInv /\ [Next]_vars => TypeOK' /\ DispatchInv'
  BY StepInv
<1>3. QED
  BY <1>1, <1>2, PTL DEF Spec

\* Types alone.
THEOREM DispatchTypeCorrect == Spec => []TypeOK
BY DispatchInvariant, PTL

\* Once every change has been counted, what is remembered under the current revision is
\* what the registry says, whatever custom decoders and other threads have done to it.
THEOREM DispatchCoherent == Spec => []Coherent
<1>1. DispatchInv => Coherent
  BY DEF DispatchInv
<1>2. QED
  BY <1>1, DispatchInvariant, PTL

\* The operators of the abstract specification are those of the registry itself.
LEMMA SameRegistry ==
    /\ Live!Mutate <=> Mutate
    /\ \A n : Live!Decision(n) = Decision(n)
BY DEF Live!Mutate, Mutate, Live!Register, Register,
   Live!Alias, Alias, Live!Decision, Decision, Live!Kind, Kind, Live!Resolve, Resolve,
   Live!ResolveIn, ResolveIn

\* An object counts as decoded when the decision taken for it is put to use.
LEMMA DecodeStep ==
    ASSUME TypeOK, DispatchInv, ~concurrent, ResolveName \/ UseBuiltin \/ UseCustom
    PROVE  [Live!Next]_(Live!vars)
<1>1. UNCHANGED <<registry, names>> /\ type \in Type
  BY DEF ResolveName, UseBuiltin, UseCustom, TypeOK
<1>2. UNCHANGED last \/ Decoded(Decision(names[type]))
  <2>1. CASE ResolveName
    BY <2>1 DEF ResolveName, Decision, Kind
  <2>2. CASE UseBuiltin
    <3>1. type \in DOMAIN kinds /\ parserRevision = revision /\ Settled
      BY <2>2, DispatchAssumption DEF UseBuiltin, DispatchInv, AloneInv, Returned, Settled
    <3>2. kinds[type] = Decision(names[type])
      BY <3>1 DEF DispatchInv, Coherent
    <3>3. QED
      BY <2>2, <3>2 DEF UseBuiltin
  <2>3. CASE UseCustom
    BY <2>3 DEF UseCustom
  <2>4. QED
    BY <2>1, <2>2, <2>3
<1>3. CASE UNCHANGED last
  BY <1>1, <1>3 DEF Live!vars, Live!registry, registry
<1>4. CASE Decoded(Decision(names[type]))
  <2>1. Live!Decode(type)
    BY <1>1, <1>4, SameRegistry DEF Live!Decode, Decoded, Live!registry, registry
  <2>2. QED
    BY <1>1, <2>1 DEF Live!Next
<1>5. QED
  BY <1>2, <1>3, <1>4

\* Every other step is a write to the registry, or invisible.
LEMMA OtherStep ==
    ASSUME [Next]_vars, ~(ResolveName \/ UseBuiltin \/ UseCustom)
    PROVE  [Live!Next]_(Live!vars)
<1>1. ASSUME NEW c \in Thread, WriteRegistry(c)
      PROVE  [Live!Next]_(Live!vars)
  BY <1>1, SameRegistry DEF WriteRegistry, Live!Next
<1>2. CASE \A c \in Thread : ~WriteRegistry(c)
  <2>1. UNCHANGED <<registry, names, last>>
    BY <1>2 DEF Next, ChangeRegistry, ReadRevision, WriteRevision, StartParse, BeginObject, GetDecoder,
       CallbackReturn, vars
  <2>2. QED
    BY <2>1 DEF Live!vars, Live!registry, registry
<1>3. QED
  BY <1>1, <1>2

\* As long as only custom decoders change the registry, remembering its answers is
\* invisible: the parser implements asking it anew for every object.
THEOREM DispatchRefinement == Spec => ImplementsLiveDispatch
<1>1. Init => Live!Init
  BY DEF Init
<1>2. TypeOK /\ DispatchInv /\ [Next]_vars => [concurrent \/ Live!Next]_(Live!vars)
  BY DecodeStep, OtherStep
<1>3. QED
  BY <1>1, <1>2, DispatchInvariant, PTL DEF Spec, ImplementsLiveDispatch

-----------------------------------------------------------------------------
(* Following aliases *)

\* A set of naturals that is not empty has a least element.
LEMMA LeastNumber ==
    ASSUME NEW T, T \subseteq Nat, T # {}
    PROVE  \E n \in T : \A m \in T : n <= m
<1>1. PICK n \in T : \A m \in T : <<m, n>> \notin OpToRel(<, Nat)
  BY NatLessThanWellFounded, WFMin
<1>2. \A m \in T : ~ (m < n)
  BY <1>1 DEF OpToRel
<1>3. QED
  BY <1>2

\* A map of aliases, names that lead to names.
AliasMap(map) == DOMAIN map \subseteq Name /\ \A n \in DOMAIN map : map[n] \in Name

\* The sets of names that following the map does not leave, and what a name leads to.
Onward(map) == {S \in SUBSET Name : \A n \in S \cap DOMAIN map : map[n] \in S}
Led(map, n) == {x \in Name : \A S \in Onward(map) : n \in S => x \in S}

\* A name leads to itself and to what its alias leads to.
LEMMA LedFacts ==
    ASSUME NEW map, AliasMap(map), NEW n \in Name
    PROVE  /\ n \in Led(map, n)
           /\ Led(map, n) \in Onward(map)
           /\ n \notin DOMAIN map => Led(map, n) = {n}
           /\ n \in DOMAIN map => Led(map, n) = {n} \cup Led(map, map[n])
<1>1. n \in Led(map, n)
  BY DEF Led
<1>2. Led(map, n) \in Onward(map)
  BY DEF Led, Onward, AliasMap
<1>3. ASSUME n \notin DOMAIN map PROVE Led(map, n) = {n}
  <2>1. {n} \in Onward(map)
    BY <1>3 DEF Onward
  <2>2. QED
    BY <1>1, <2>1 DEF Led
<1>4. ASSUME n \in DOMAIN map PROVE Led(map, n) = {n} \cup Led(map, map[n])
  <2>1. map[n] \in Name
    BY <1>4 DEF AliasMap
  <2>2. map[n] \in Led(map, map[n])
    BY <2>1 DEF Led
  <2>3. {n} \cup Led(map, map[n]) \in Onward(map)
    <3>1. \A x \in Led(map, map[n]) \cap DOMAIN map : map[x] \in Led(map, map[n])
      BY DEF Led, Onward, AliasMap
    <3>2. Led(map, map[n]) \subseteq Name
      BY DEF Led
    <3>3. QED
      BY <2>2, <3>1, <3>2 DEF Onward
  <2>4. Led(map, n) \subseteq {n} \cup Led(map, map[n])
    BY <2>3 DEF Led
  <2>5. map[n] \in Led(map, n)
    BY <1>1, <1>2, <1>4 DEF Onward
  <2>6. Led(map, map[n]) \subseteq Led(map, n)
    BY <1>2, <2>5 DEF Led
  <2>7. QED
    BY <1>1, <2>4, <2>6
<1>5. QED
  BY <1>1, <1>2, <1>3, <1>4

\* A name from which the same end can be reached wherever the chain has come to.
LEMMA EndStays ==
    ASSUME NEW map, AliasMap(map), NEW n \in Name,
           NEW e \in Led(map, n), e \notin DOMAIN map, NEW x \in Led(map, n)
    PROVE  e \in Led(map, x)
<1> DEFINE S == {y \in Led(map, n) : e \in Led(map, y)}
<1>1. Led(map, n) \subseteq Name
  BY DEF Led
<1>2. S \in Onward(map)
  <2>1. ASSUME NEW y \in S \cap DOMAIN map PROVE map[y] \in S
    <3>1. y # e
      BY <2>1
    <3>2. Led(map, y) = {y} \cup Led(map, map[y])
      BY <1>1, <2>1, LedFacts
    <3>3. map[y] \in Led(map, n)
      BY <2>1, LedFacts DEF Onward
    <3>4. QED
      BY <2>1, <3>1, <3>2, <3>3
  <2>2. QED
    BY <1>1, <2>1 DEF Onward
<1>3. n \in S
  BY LedFacts
<1>4. x \in S
  BY <1>2, <1>3 DEF Led
<1>5. QED
  BY <1>4

\* A chain of aliases has one end, and one that has an end never returns to a name.
LEMMA EndFacts ==
    ASSUME NEW map, AliasMap(map), NEW n \in Name,
           NEW e \in Led(map, n), e \notin DOMAIN map
    PROVE  /\ Led(map, n) \ DOMAIN map = {e}
           /\ n \in DOMAIN map => n \notin Led(map, map[n])
<1>1. e \in Name
  BY DEF Led
<1>2. ASSUME NEW d \in Led(map, n), d \notin DOMAIN map PROVE d = e
  <2>1. d \in Name /\ e \in Led(map, d)
    BY <1>2, EndStays DEF Led
  <2>2. QED
    BY <1>2, <2>1, LedFacts
<1>3. ASSUME n \in DOMAIN map, n \in Led(map, map[n]) PROVE FALSE
  <2> DEFINE S == {y \in Name : n \in Led(map, y)}
  <2>1. map[n] \in S
    BY <1>3 DEF AliasMap
  <2>2. S \in Onward(map)
    <3>1. ASSUME NEW y \in S \cap DOMAIN map PROVE map[y] \in S
      <4>1. map[y] \in Name
        BY <3>1 DEF AliasMap
      <4>2. CASE y = n
        BY <2>1, <4>2
      <4>3. CASE y # n
        <5>1. Led(map, y) = {y} \cup Led(map, map[y])
          BY <3>1, LedFacts
        <5>2. QED
          BY <3>1, <4>1, <4>3, <5>1
      <4>4. QED
        BY <4>2, <4>3
    <3>2. QED
      BY <3>1 DEF Onward
  <2>3. Led(map, n) = {n} \cup Led(map, map[n])
    BY <1>3, LedFacts
  <2>4. e \in S
    BY <1>3, <2>1, <2>2, <2>3 DEF Led
  <2>5. n \in Led(map, e) /\ Led(map, e) = {e}
    BY <1>1, <2>4, LedFacts
  <2>6. QED
    BY <1>3, <2>5
<1>4. QED
  BY <1>2, <1>3

\* What `_resolve` returns from a point of its loop, without a loop.
Resolved(map, visited, n) ==
    IF Led(map, n) \subseteq DOMAIN map \/ Led(map, n) \cap visited \cap DOMAIN map # {}
    THEN Cycle ELSE CHOOSE e \in Led(map, n) : e \notin DOMAIN map

\* Where the loop goes on, it goes on to the same result.
LEMMA ResolvedStep ==
    ASSUME NEW map, AliasMap(map), NEW visited \in SUBSET Name, NEW n \in Name
    PROVE  Resolved(map, visited, n) =
               IF n \notin DOMAIN map THEN n
               ELSE IF n \in visited THEN Cycle
               ELSE Resolved(map, visited \cup {n}, map[n])
<1>1. CASE n \notin DOMAIN map
  <2>1. Led(map, n) = {n}
    BY <1>1, LedFacts
  <2>2. (CHOOSE e \in Led(map, n) : e \notin DOMAIN map) = n
    BY <1>1, <2>1
  <2>3. QED
    BY <1>1, <2>1, <2>2 DEF Resolved
<1>2. CASE n \in DOMAIN map /\ n \in visited
  BY <1>2, LedFacts DEF Resolved
<1>3. CASE n \in DOMAIN map /\ n \notin visited
  <2>1. Led(map, n) = {n} \cup Led(map, map[n])
    BY <1>3, LedFacts
  <2>2. CASE Led(map, n) \subseteq DOMAIN map
    BY <1>3, <2>1, <2>2 DEF Resolved
  <2>3. CASE ~ (Led(map, n) \subseteq DOMAIN map)
    <3>1. PICK e \in Led(map, n) : e \notin DOMAIN map
      BY <2>3
    <3>2. n \notin Led(map, map[n]) /\ Led(map, n) \ DOMAIN map = {e}
      BY <1>3, <3>1, EndFacts
    <3>3. Led(map, n) \cap visited \cap DOMAIN map =
             Led(map, map[n]) \cap (visited \cup {n}) \cap DOMAIN map
      BY <1>3, <2>1, <3>2
    <3>4. /\ (CHOOSE d \in Led(map, n) : d \notin DOMAIN map) = e
          /\ (CHOOSE d \in Led(map, map[n]) : d \notin DOMAIN map) = e
      BY <1>3, <2>1, <3>1, <3>2
    <3>5. e \in Led(map, map[n])
      BY <1>3, <2>1, <3>1
    <3>6. QED
      BY <1>3, <3>1, <3>3, <3>4, <3>5 DEF Resolved
  <2>4. QED
    BY <2>2, <2>3
<1>4. QED
  BY <1>1, <1>2, <1>3

\* The points `_resolve` may be at, and what makes a function its loop.
Point == [visited : SUBSET Name, resolved : Name]
IsLoop(map, f) ==
    f = [at \in Point |->
            IF at.resolved \notin DOMAIN map THEN at.resolved
            ELSE IF at.resolved \in at.visited THEN Cycle
            ELSE f[[visited |-> at.visited \cup {at.resolved}, resolved |-> map[at.resolved]]]]

\* Over finitely many aliases the loop has no other result: each time it goes on, one
\* alias less is left to visit.
LEMMA LoopEnds ==
    ASSUME NEW map, AliasMap(map), IsFiniteSet(DOMAIN map), NEW f, IsLoop(map, f)
    PROVE  \A at \in Point : f[at] = Resolved(map, at.visited, at.resolved)
<1> DEFINE Left(at) == Cardinality(DOMAIN map \ at.visited)
           Wrong == {at \in Point : f[at] # Resolved(map, at.visited, at.resolved)}
<1>1. \A at \in Point : Left(at) \in Nat
  BY FS_Difference, FS_CardinalityType
<1>2. SUFFICES ASSUME Wrong # {} PROVE FALSE
  OBVIOUS
<1>3. PICK at \in Wrong : \A other \in Wrong : Left(at) <= Left(other)
  <2>1. {Left(at) : at \in Wrong} \subseteq Nat /\ {Left(at) : at \in Wrong} # {}
    BY <1>1, <1>2
  <2>2. PICK n \in {Left(at) : at \in Wrong} : \A m \in {Left(at) : at \in Wrong} : n <= m
    BY <2>1, LeastNumber
  <2>3. QED
    BY <2>2
<1>4. at \in Point /\ at.visited \in SUBSET Name /\ at.resolved \in Name
  BY DEF Point
<1> DEFINE next == [visited |-> at.visited \cup {at.resolved}, resolved |-> map[at.resolved]]
<1>5. f[at] = IF at.resolved \notin DOMAIN map THEN at.resolved
              ELSE IF at.resolved \in at.visited THEN Cycle
              ELSE f[next]
  BY <1>4 DEF IsLoop
<1>6. at.resolved \in DOMAIN map /\ at.resolved \notin at.visited
  BY <1>3, <1>4, <1>5, ResolvedStep
<1>7. next \in Point /\ next.visited = at.visited \cup {at.resolved} /\ next.resolved = map[at.resolved]
  BY <1>4, <1>6 DEF Point, AliasMap
<1>8. f[next] # Resolved(map, next.visited, next.resolved)
  <2>1. Resolved(map, at.visited, at.resolved) =
           Resolved(map, at.visited \cup {at.resolved}, map[at.resolved])
    BY <1>4, <1>6, ResolvedStep
  <2>2. f[at] # Resolved(map, at.visited, at.resolved)
    BY <1>3
  <2>3. f[at] = f[next]
    BY <1>5, <1>6
  <2>4. QED
    BY <1>7, <2>1, <2>2, <2>3
<1>9. Left(next) = Left(at) - 1
  <2>1. DOMAIN map \ next.visited = (DOMAIN map \ at.visited) \ {at.resolved}
    BY <1>7
  <2>2. IsFiniteSet(DOMAIN map \ at.visited)
    BY FS_Difference
  <2>3. at.resolved \in DOMAIN map \ at.visited
    BY <1>6
  <2>4. Cardinality((DOMAIN map \ at.visited) \ {at.resolved}) = Left(at) - 1
    BY <2>2, <2>3, FS_RemoveElement
  <2>5. QED
    BY <2>1, <2>4
<1>10. Left(at) <= Left(next)
  BY <1>3, <1>7, <1>8
<1> HIDE DEF Left, next
<1>11. QED
  BY <1>1, <1>4, <1>9, <1>10

\* `_resolve` returns what a point outside its loop says.
LEMMA ResolveMeans ==
    ASSUME NEW map, AliasMap(map), IsFiniteSet(DOMAIN map), NEW name \in Name
    PROVE  ResolveIn(map, name) = Resolved(map, {}, name)
<1> DEFINE Loop == CHOOSE f : IsLoop(map, f)
           start == [visited |-> {}, resolved |-> name]
<1>1. ResolveIn(map, name) = Loop[start]
  BY DEF ResolveIn, IsLoop, Point
<1>2. IsLoop(map, [at \in Point |-> Resolved(map, at.visited, at.resolved)])
  <2> DEFINE f == [at \in Point |-> Resolved(map, at.visited, at.resolved)]
  <2>1. ASSUME NEW at \in Point
        PROVE  f[at] = IF at.resolved \notin DOMAIN map THEN at.resolved
                       ELSE IF at.resolved \in at.visited THEN Cycle
                       ELSE f[[visited |-> at.visited \cup {at.resolved}, resolved |-> map[at.resolved]]]
    <3>1. at.visited \in SUBSET Name /\ at.resolved \in Name
      BY DEF Point
    <3> DEFINE next == [visited |-> at.visited \cup {at.resolved}, resolved |-> map[at.resolved]]
    <3>2. at.resolved \in DOMAIN map => 
            next \in Point /\ next.visited = at.visited \cup {at.resolved} /\ next.resolved = map[at.resolved]
      BY <3>1 DEF AliasMap, Point
    <3>3. f[at] = Resolved(map, at.visited, at.resolved)
      OBVIOUS
    <3>4. at.resolved \in DOMAIN map => f[next] = Resolved(map, next.visited, next.resolved)
      BY <3>2
    <3>5. Resolved(map, at.visited, at.resolved) =
             IF at.resolved \notin DOMAIN map THEN at.resolved
             ELSE IF at.resolved \in at.visited THEN Cycle
             ELSE Resolved(map, at.visited \cup {at.resolved}, map[at.resolved])
      <4>1. \A v \in SUBSET Name, n \in Name :
               Resolved(map, v, n) = IF n \notin DOMAIN map THEN n
                                     ELSE IF n \in v THEN Cycle
                                     ELSE Resolved(map, v \cup {n}, map[n])
        BY ResolvedStep
      <4>2. QED
        BY <3>1, <4>1
    <3>6. at.resolved \in DOMAIN map =>
             f[next] = Resolved(map, at.visited \cup {at.resolved}, map[at.resolved])
      BY <3>2, <3>4
    <3> HIDE DEF f
    <3>7. QED
      BY <3>3, <3>5, <3>6
  <2>2. QED
    BY <2>1 DEF IsLoop
<1>3. IsLoop(map, Loop)
  BY <1>2
<1>4. start \in Point /\ start.visited = {} /\ start.resolved = name
  BY DEF Point
<1>5. Loop[start] = Resolved(map, start.visited, start.resolved)
  BY <1>3, <1>4, LoopEnds
<1>6. QED
  BY <1>1, <1>4, <1>5

\* With finitely many aliases, what `_resolve` returns for a name is the end of its chain.
LEMMA ResolveEnds ==
    ASSUME RegistryTypeOK, IsFiniteSet(DOMAIN aliases)
    PROVE  ResolveEndsChain
<1>1. AliasMap(aliases)
  BY DEF AliasMap, RegistryTypeOK
<1>2. ASSUME NEW name \in Name
      PROVE  LET ends == Led(aliases, name) \ DOMAIN aliases
             IN  IF ends = {} THEN Resolve(name) = Cycle ELSE ends = {Resolve(name)}
  <2>1. Resolve(name) = Resolved(aliases, {}, name)
    BY <1>1, ResolveMeans DEF Resolve
  <2>2. CASE Led(aliases, name) \subseteq DOMAIN aliases
    BY <2>1, <2>2 DEF Resolved
  <2>3. CASE ~ (Led(aliases, name) \subseteq DOMAIN aliases)
    <3>1. PICK e \in Led(aliases, name) : e \notin DOMAIN aliases
      BY <2>3
    <3>2. Led(aliases, name) \ DOMAIN aliases = {e}
      BY <1>1, <3>1, EndFacts
    <3>3. (CHOOSE d \in Led(aliases, name) : d \notin DOMAIN aliases) = e
      BY <3>1, <3>2
    <3>4. QED
      BY <2>1, <2>3, <3>2, <3>3 DEF Resolved
  <2>4. QED
    BY <2>2, <2>3
<1>3. QED
  BY <1>2 DEF ResolveEndsChain, Led, Onward

\* Aliases are made one at a time.
LEMMA AliasesStayFinite ==
    ASSUME IsFiniteSet(DOMAIN aliases), [Next]_vars
    PROVE  IsFiniteSet(DOMAIN aliases)'
<1>1. CASE UNCHANGED aliases
  BY <1>1
<1>2. ASSUME NEW n \in Name, NEW t \in Name, Alias(n, t)
      PROVE  IsFiniteSet(DOMAIN aliases)'
  <2>1. DOMAIN aliases' = DOMAIN aliases \cup {n}
    BY <1>2 DEF Alias
  <2>2. QED
    BY <2>1, FS_AddElement
<1>3. UNCHANGED aliases \/ \E n, t \in Name : Alias(n, t)
  BY DEF Next, ChangeRegistry, WriteRegistry, ReadRevision, WriteRevision, Mutate, Register,
     StartParse, BeginObject, ResolveName, GetDecoder, UseBuiltin, UseCustom, CallbackReturn, vars, registry
<1>4. QED
  BY <1>1, <1>2, <1>3

\* Whatever aliases were made, in whatever order, resolving a name gives the end of its
\* chain, or refuses it as a cycle when the chain has none.
THEOREM AliasesResolve == Spec => []ResolveEndsChain
<1>1. Init => IsFiniteSet(DOMAIN aliases)
  BY FS_EmptySet DEF Init, Live!Init, Live!RegistryInit
<1>2. IsFiniteSet(DOMAIN aliases) /\ [Next]_vars => IsFiniteSet(DOMAIN aliases)'
  BY AliasesStayFinite
<1>3. TypeOK /\ IsFiniteSet(DOMAIN aliases) => ResolveEndsChain
  BY ResolveEnds DEF TypeOK
<1>4. QED
  BY <1>1, <1>2, <1>3, DispatchTypeCorrect, PTL DEF Spec
=============================================================================
