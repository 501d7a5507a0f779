------------------------ MODULE EncodedStringsProofs ------------------------
(***************************************************************************)
(* Proofs about EncodedStrings, for every finite set of part records, any  *)
(* chains among them (cyclic ones included), any separators and any number *)
(* of reads.  The first part is about chains, the second about the loop    *)
(* over a chain, the third about what is remembered.                       *)
(***************************************************************************)
EXTENDS EncodedStrings, FiniteSetTheorems, SequenceTheorems, WellFoundedInduction, TLAPS

\* The chains are those of some catalog.
ChainsOK == next \in [Offset -> Offset \cup {End}]

\* A family of subsets of a finite set has a member that no other lies strictly within.
LEMMA LeastSet ==
    ASSUME NEW S, IsFiniteSet(S), NEW family, family \subseteq SUBSET S, family # {}
    PROVE  \E T \in family : \A U \in family : U \subseteq T => U = T
<1>1. family \subseteq FiniteSubsetsOf(S)
  BY FS_Subset DEF FiniteSubsetsOf
<1>2. PICK T \in family : \A U \in family : <<U, T>> \notin StrictSubsetOrdering(S)
  BY <1>1, FS_StrictSubsetOrderingWellFounded, WFMin
<1>3. ASSUME NEW U \in family, U \subseteq T PROVE U = T
  BY <1>2, <1>3 DEF StrictSubsetOrdering
<1>4. QED
  BY <1>3

-----------------------------------------------------------------------------
(* Chains *)

\* The records of a chain after its first.
Rest(o) == IF next[o] = End THEN {} ELSE Chain(next[o])

\* A chain is its first record and the chain after it.
LEMMA ChainFacts ==
    ASSUME StringAssumption, ChainsOK, NEW o \in Offset
    PROVE  /\ Chain(o) \subseteq Offset /\ o \in Chain(o) /\ Closed(Chain(o))
           /\ \A S \in SUBSET Offset : o \in S /\ Closed(S) => Chain(o) \subseteq S
           /\ Chain(o) = {o} \cup Rest(o)
<1>1. Chain(o) \subseteq Offset /\ o \in Chain(o)
  BY DEF Chain
<1>2. Closed(Chain(o))
  <2>1. ASSUME NEW r \in Chain(o), next[r] # End PROVE next[r] \in Chain(o)
    <3>1. next[r] \in Offset
      BY <1>1, <2>1 DEF ChainsOK
    <3>2. ASSUME NEW S \in SUBSET Offset, o \in S, Closed(S) PROVE next[r] \in S
      BY <2>1, <3>2 DEF Chain, Closed
    <3>3. QED
      BY <3>1, <3>2 DEF Chain
  <2>2. QED
    BY <2>1 DEF Closed
<1>3. \A S \in SUBSET Offset : o \in S /\ Closed(S) => Chain(o) \subseteq S
  BY DEF Chain
<1>4. Chain(o) = {o} \cup Rest(o)
  <2>1. CASE next[o] = End
    <3>1. Closed({o})
      BY <2>1 DEF Closed
    <3>2. QED
      BY <1>1, <1>3, <2>1, <3>1 DEF Rest
  <2>2. CASE next[o] # End
    <3>1. next[o] \in Offset /\ next[o] \in Chain(o)
      BY <1>1, <1>2, <2>2 DEF ChainsOK, Closed
    <3>2. Chain(next[o]) \subseteq Chain(o)
      BY <1>1, <1>2, <3>1 DEF Chain
    <3>3. Chain(next[o]) \subseteq Offset /\ next[o] \in Chain(next[o])
      BY <3>1 DEF Chain
    <3>4. ASSUME NEW r \in Chain(next[o]), next[r] # End PROVE next[r] \in Chain(next[o])
      <4>1. next[r] \in Offset
        BY <3>3, <3>4 DEF ChainsOK
      <4>2. ASSUME NEW S \in SUBSET Offset, next[o] \in S, Closed(S) PROVE next[r] \in S
        BY <3>4, <4>2 DEF Chain, Closed
      <4>3. QED
        BY <4>1, <4>2 DEF Chain
    <3>5. Closed({o} \cup Chain(next[o]))
      BY <3>3, <3>4 DEF Closed
    <3>6. Chain(o) \subseteq {o} \cup Chain(next[o])
      BY <1>3, <3>3, <3>5
    <3>7. QED
      BY <1>1, <2>2, <3>2, <3>6 DEF Rest
  <2>3. QED
    BY <2>1, <2>2
<1>5. QED
  BY <1>1, <1>2, <1>3, <1>4

\* A chain that ends never returns to its first record.
LEMMA NoReturn ==
    ASSUME StringAssumption, ChainsOK, NEW o \in Offset, Ends(o)
    PROVE  o \notin Rest(o)
<1> SUFFICES ASSUME o \in Rest(o) PROVE FALSE
  OBVIOUS
<1> DEFINE S == {y \in Offset : o \in Chain(y)}
<1>1. next[o] \in S
  BY DEF Rest, ChainsOK
<1>2. ASSUME NEW y \in S PROVE next[y] \in S
  <2>1. Chain(y) = {y} \cup Rest(y)
    BY ChainFacts
  <2>2. CASE y = o
    BY <1>1, <2>2
  <2>3. CASE y # o
    BY <2>1, <2>3 DEF Rest, ChainsOK
  <2>4. QED
    BY <2>2, <2>3
<1>3. Closed(S) /\ o \in S
  BY <1>2, ChainFacts DEF Closed
<1>4. PICK e \in Chain(o) : next[e] = End
  BY DEF Ends
<1>5. e \in S
  BY <1>3, ChainFacts
<1>6. next[e] \in Offset
  BY <1>2, <1>5
<1>7. QED
  BY <1>4, <1>6 DEF StringAssumption

\* What is behind a record on a chain is on the chain.
LEMMA ChainWithin ==
    ASSUME StringAssumption, ChainsOK, NEW o \in Offset, NEW r \in Chain(o)
    PROVE  r \in Offset /\ Chain(r) \subseteq Chain(o)
<1>1. Chain(o) \in SUBSET Offset /\ Closed(Chain(o))
  BY ChainFacts
<1>2. QED
  BY <1>1, ChainFacts

\* A chain ends with its first record, or where the chain after it does.
LEMMA EndsStep ==
    ASSUME StringAssumption, ChainsOK, NEW o \in Offset
    PROVE  /\ next[o] = End => Ends(o)
           /\ next[o] # End => next[o] \in Offset /\ (Ends(o) <=> Ends(next[o]))
<1>1. next[o] # End => next[o] \in Offset
  BY DEF ChainsOK
<1>2. Chain(o) = {o} \cup Rest(o)
  BY ChainFacts
<1>3. QED
  BY <1>1, <1>2 DEF Ends, Rest


\* The records with a text after the first of a chain.
RestTexts(o) == {r \in Rest(o) : part[r] = "text"}

\* The parts after those of the first record, in wire order.
Following(o) == IF next[o] = End THEN <<>> ELSE PartsOf(next[o])

\* The texts of a chain are finitely many.
LEMMA TextsFinite ==
    ASSUME StringAssumption, ChainsOK, NEW o \in Offset
    PROVE  /\ Texts(o) \subseteq Offset /\ IsFiniteSet(Texts(o)) /\ Cardinality(Texts(o)) \in Nat
           /\ \A T \in SUBSET Texts(o) : IsFiniteSet(T) /\ Cardinality(T) \in Nat
<1>1. Texts(o) \subseteq Offset
  BY ChainFacts DEF Texts
<1>2. \A T \in SUBSET Offset : IsFiniteSet(T)
  BY FS_Subset DEF StringAssumption
<1>3. QED
  BY <1>1, <1>2, FS_CardinalityType

\* Of some texts, a given one and those before it.
Upto(texts, r) == {q \in texts : r \in Chain(q)}

\* The i-th text of a chain is the i-th of the chain after its first record when that has
\* no text, and the one before when it has.
LEMMA IthStep ==
    ASSUME StringAssumption, ChainsOK, NEW o \in Offset, Ends(o)
    PROVE  /\ part[o] # "text" => /\ Texts(o) = RestTexts(o)
                                  /\ next[o] # End => \A i : Ith(o, i) = Ith(next[o], i)
           /\ part[o] = "text" => /\ o \notin RestTexts(o) /\ Texts(o) = RestTexts(o) \cup {o}
                                  /\ Ith(o, 1) = {o}
                                  /\ next[o] # End =>
                                        \A i \in Nat \ {0} : Ith(o, i + 1) = Ith(next[o], i)
<1>1. Chain(o) = {o} \cup Rest(o) /\ o \notin Rest(o)
  BY ChainFacts, NoReturn
<1>2. next[o] # End => RestTexts(o) = Texts(next[o])
  BY DEF RestTexts, Texts, Rest
<1>3. Texts(o) = RestTexts(o) \cup (IF part[o] = "text" THEN {o} ELSE {})
  BY <1>1 DEF Texts, RestTexts
<1>4. CASE part[o] # "text"
  BY <1>2, <1>3, <1>4 DEF Ith
<1>5. CASE part[o] = "text"
  <2>1. o \notin RestTexts(o) /\ Texts(o) = RestTexts(o) \cup {o}
    BY <1>1, <1>3, <1>5 DEF RestTexts
  <2>2. \A q \in RestTexts(o) : o \notin Chain(q)
    <3>1. ASSUME NEW q \in RestTexts(o) PROVE o \notin Chain(q)
      <4>1. next[o] \in Offset /\ q \in Chain(next[o])
        BY DEF RestTexts, Rest, ChainsOK
      <4>2. Chain(q) \subseteq Chain(next[o])
        BY <4>1, ChainWithin
      <4>3. QED
        BY <1>1, <4>1, <4>2 DEF Rest
    <3>2. QED
      BY <3>1
  <2>3. Upto(Texts(o), o) = {o}
    BY <1>1, <2>1, <2>2 DEF Upto
  <2>4. ASSUME NEW r \in RestTexts(o)
        PROVE  /\ Upto(Texts(o), r) = Upto(RestTexts(o), r) \cup {o}
               /\ o \notin Upto(RestTexts(o), r)
               /\ r \in Upto(RestTexts(o), r)
    <3>1. r \in Chain(o) /\ r \in Offset
      BY <1>1, ChainFacts DEF RestTexts
    <3>2. r \in Chain(r)
      BY <3>1, ChainFacts
    <3>3. QED
      BY <2>1, <3>1, <3>2 DEF Upto
  <2>5. ASSUME NEW r \in RestTexts(o)
        PROVE  /\ Cardinality(Upto(RestTexts(o), r)) \in Nat \ {0}
               /\ Cardinality(Upto(Texts(o), r)) = Cardinality(Upto(RestTexts(o), r)) + 1
    <3>1. Upto(RestTexts(o), r) \in SUBSET Texts(o)
      BY <2>1 DEF Upto
    <3>2. IsFiniteSet(Upto(RestTexts(o), r)) /\ Cardinality(Upto(RestTexts(o), r)) \in Nat
      BY <3>1, TextsFinite
    <3>3. Cardinality(Upto(RestTexts(o), r)) # 0
      BY <2>4, <3>2, FS_EmptySet
    <3>4. Cardinality(Upto(RestTexts(o), r) \cup {o}) = Cardinality(Upto(RestTexts(o), r)) + 1
      BY <2>4, <3>2, FS_AddElement
    <3>5. QED
      BY <2>4, <3>2, <3>3, <3>4
  <2>6. Cardinality(Upto(Texts(o), o)) = 1
    BY <2>3, FS_Singleton
  <2>7. Ith(o, 1) = {o}
    <3>1. \A r \in RestTexts(o) : Cardinality(Upto(Texts(o), r)) # 1
      BY <2>5
    <3>2. \A r \in Texts(o) : Cardinality(Upto(Texts(o), r)) = 1 <=> r = o
      BY <2>1, <2>6, <3>1
    <3>3. QED
      BY <2>1, <3>2 DEF Ith, Upto
  <2>8. ASSUME next[o] # End, NEW i \in Nat \ {0} PROVE Ith(o, i + 1) = Ith(next[o], i)
    <3>1. \A r \in RestTexts(o) :
             Cardinality(Upto(Texts(o), r)) = i + 1 <=> Cardinality(Upto(RestTexts(o), r)) = i
      BY <2>5
    <3>2. \A r \in Texts(o) : Cardinality(Upto(Texts(o), r)) = i + 1 =>
             r \in RestTexts(o) /\ Cardinality(Upto(RestTexts(o), r)) = i
      BY <2>1, <2>6, <3>1
    <3>3. Ith(o, i + 1) = {r \in RestTexts(o) : Cardinality(Upto(RestTexts(o), r)) = i}
      BY <2>1, <3>1, <3>2 DEF Ith, Upto
    <3>4. QED
      BY <1>2, <2>8, <3>3 DEF Ith, Upto
  <2>9. QED
    BY <1>5, <2>1, <2>7, <2>8
<1>6. QED
  BY <1>4, <1>5

\* How many parts a chain has.
LEMMA CountStep ==
    ASSUME StringAssumption, ChainsOK, NEW o \in Offset, Ends(o)
    PROVE  Cardinality(Texts(o)) =
               (IF next[o] = End THEN 0 ELSE Cardinality(Texts(next[o])))
               + (IF part[o] = "text" THEN 1 ELSE 0)
<1>1. IsFiniteSet(RestTexts(o)) /\ Cardinality(RestTexts(o)) \in Nat
  <2>1. RestTexts(o) \in SUBSET Texts(o)
    BY ChainFacts DEF RestTexts, Texts
  <2>2. QED
    BY <2>1, TextsFinite
<1>2. Cardinality(RestTexts(o)) = IF next[o] = End THEN 0 ELSE Cardinality(Texts(next[o]))
  BY FS_EmptySet DEF RestTexts, Rest, Texts
<1>3. CASE part[o] = "text"
  <2>1. Cardinality(RestTexts(o) \cup {o}) = Cardinality(RestTexts(o)) + 1
    BY <1>1, <1>3, IthStep, FS_AddElement
  <2>2. QED
    BY <1>2, <1>3, <2>1, IthStep
<1>4. CASE part[o] # "text"
  BY <1>1, <1>2, <1>4, IthStep
<1>5. QED
  BY <1>3, <1>4


\* Dropping the first of two sequences that were joined leaves the second.
LEMMA DropFirst ==
    ASSUME NEW S, NEW s \in Seq(S), NEW t \in Seq(S)
    PROVE  SubSeq(s \o t, Len(s) + 1, Len(s \o t)) = t
<1>1. PICK m \in Nat : m = Len(s)
  BY LenProperties
<1>2. PICK n \in Nat : n = Len(t)
  BY LenProperties
<1>3. PICK w : w = s \o t
  OBVIOUS
<1>4. /\ Len(w) = m + n
      /\ \A i \in 1..m+n : w[i] = IF i <= m THEN s[i] ELSE t[i - m]
  BY <1>1, <1>2, <1>3, ConcatProperties
<1>5. \A i \in m+1..m+n : w[i] = t[i - m] /\ i - m \in 1..n
  BY <1>4
<1>6. \A i \in m+1..m+n : w[i] \in S
  BY <1>2, <1>5, ElementOfSeq
<1>7. PICK from \in Int : from = m + 1
  OBVIOUS
<1>8. PICK to \in Int : to = m + n
  OBVIOUS
<1>9. PICK u : u = SubSeq(w, from, to)
  OBVIOUS
<1>10. \A i \in from..to : w[i] \in S
  BY <1>6, <1>7, <1>8
<1>11. /\ u \in Seq(S)
       /\ Len(u) = IF from <= to THEN to - from + 1 ELSE 0
       /\ \A i \in 1..to-from+1 : u[i] = w[from + i - 1]
  BY <1>9, <1>10, SubSeqProperties
<1>12. Len(u) = n
  BY <1>7, <1>8, <1>11
<1>13. \A i \in 1..n : u[i] = t[i]
  <2> SUFFICES ASSUME NEW i \in 1..n PROVE u[i] = t[i]
    OBVIOUS
  <2>1. i \in 1..to-from+1 /\ from + i - 1 \in m+1..m+n /\ (from + i - 1) - m = i
    BY <1>7, <1>8
  <2>2. QED
    BY <1>5, <1>11, <2>1
<1>14. u = t
  BY <1>2, <1>11, <1>12, <1>13, SeqEqual
<1>15. QED
  BY <1>1, <1>3, <1>4, <1>7, <1>8, <1>9, <1>14

\* The numbers a list of n or n + 1 parts is counted with.
LEMMA Counting ==
    ASSUME NEW n \in Nat, NEW i \in 1..n+1
    PROVE  i = 1 \/ (i - 1 \in 1..n /\ i - 1 \in Nat \ {0} /\ (i - 1) + 1 = i /\ ~ (i <= 1))
OBVIOUS

\* The parts of a chain are those of its first record and those that follow.
LEMMA PartsStep ==
    ASSUME StringAssumption, ChainsOK, NEW o \in Offset, Ends(o), Following(o) \in Seq(Offset)
    PROVE  PartsOf(o) = PartOf(o) \o Following(o)
<1> DEFINE n == IF next[o] = End THEN 0 ELSE Cardinality(Texts(next[o]))
<1>1. n \in Nat /\ Following(o) = [i \in 1..n |-> CHOOSE r \in Ith(next[o], i) : TRUE]
  <2>1. CASE next[o] = End
    BY <2>1 DEF Following
  <2>2. CASE next[o] # End
    BY <2>2, TextsFinite DEF Following, PartsOf, ChainsOK
  <2>3. QED
    BY <2>1, <2>2
<1>2. Len(Following(o)) = n
  BY <1>1, LenProperties
<1>3. next[o] = End => n = 0
  OBVIOUS
<1>4. Cardinality(Texts(o)) = n + (IF part[o] = "text" THEN 1 ELSE 0)
  BY CountStep
<1> HIDE DEF n
<1>5. CASE part[o] # "text"
  <2>1. Cardinality(Texts(o)) = n
    BY <1>1, <1>4, <1>5
  <2>2. PartsOf(o) = [i \in 1..n |-> CHOOSE r \in Ith(o, i) : TRUE]
    BY <2>1 DEF PartsOf
  <2>3. PartsOf(o) = Following(o)
    <3>1. CASE next[o] = End
      <4>1. 1..n = {}
        BY <1>3, <3>1
      <4>2. QED
        BY <1>1, <2>2, <4>1
    <3>2. CASE next[o] # End
      <4>1. \A i \in 1..n : Ith(o, i) = Ith(next[o], i)
        BY <1>5, <3>2, IthStep
      <4>2. QED
        BY <1>1, <2>2, <4>1
    <3>3. QED
      BY <3>1, <3>2
  <2>4. PartOf(o) = <<>>
    BY <1>5 DEF PartOf
  <2>5. QED
    BY <2>3, <2>4, ConcatEmptySeq
<1>6. CASE part[o] = "text"
  <2>1. PartOf(o) = <<o>> /\ <<o>> \in Seq(Offset) /\ Len(<<o>>) = 1 /\ <<o>>[1] = o
    BY <1>6 DEF PartOf
  <2> DEFINE whole == <<o>> \o Following(o)
  <2>2. /\ whole \in Seq(Offset) /\ Len(whole) = 1 + n
        /\ \A i \in 1..1+n : whole[i] = IF i <= 1 THEN <<o>>[i] ELSE Following(o)[i - 1]
    BY <2>1, <1>2, ConcatProperties
  <2> HIDE DEF whole
  <2>3. PartsOf(o) = [i \in 1..n+1 |-> CHOOSE r \in Ith(o, i) : TRUE]
    BY <1>4, <1>6 DEF PartsOf
  <2>4. ASSUME NEW i \in 1..n+1 PROVE whole[i] = CHOOSE r \in Ith(o, i) : TRUE
    <3>1. CASE i = 1
      <4>1. Ith(o, i) = {o}
        BY <1>6, <3>1, IthStep
      <4>2. (CHOOSE r \in {o} : TRUE) = o
        OBVIOUS
      <4>3. whole[1] = o
        BY <1>1, <2>1, <2>2
      <4>4. QED
        BY <3>1, <4>1, <4>2, <4>3
    <3>2. CASE i # 1
      <4>1. /\ i - 1 \in 1..n /\ i - 1 \in Nat \ {0} /\ (i - 1) + 1 = i /\ ~ (i <= 1)
        BY <1>1, <3>2, Counting
      <4>2. next[o] # End
        BY <1>3, <4>1
      <4>3. Ith(o, (i - 1) + 1) = Ith(next[o], i - 1)
        BY <1>6, <4>1, <4>2, IthStep
      <4>4. Following(o)[i - 1] = CHOOSE r \in Ith(next[o], i - 1) : TRUE
        BY <1>1, <4>1
      <4>5. i \in 1..1+n
        BY <1>1
      <4>6. whole[i] = Following(o)[i - 1]
        BY <2>2, <4>1, <4>5
      <4>7. QED
        BY <4>1, <4>3, <4>4, <4>6
    <3>3. QED
      BY <3>1, <3>2
  <2>5. whole = [i \in 1..n+1 |-> whole[i]]
    <3>1. whole \in [1..Len(whole) -> Offset]
      BY <2>2, LenProperties
    <3>2. 1..1+n = 1..n+1
      BY <1>1
    <3>3. QED
      BY <2>2, <3>1, <3>2
  <2>6. whole = PartsOf(o)
    BY <2>3, <2>4, <2>5
  <2>7. QED
    BY <2>1, <2>6 DEF whole
<1>7. QED
  BY <1>5, <1>6

\* The parts of a chain that ends are a sequence of records.
LEMMA PartsType ==
    ASSUME StringAssumption, ChainsOK, NEW o \in Offset, Ends(o)
    PROVE  PartsOf(o) \in Seq(Offset) /\ Following(o) \in Seq(Offset)
<1> DEFINE Wrong == {r \in Offset : Ends(r) /\ PartsOf(r) \notin Seq(Offset)}
<1>1. Wrong = {}
  <2> SUFFICES ASSUME Wrong # {} PROVE FALSE
    OBVIOUS
  <2> DEFINE family == {Chain(r) : r \in Wrong}
  <2>1. PICK T \in family : \A U \in family : U \subseteq T => U = T
    <3>1. family \subseteq SUBSET Offset /\ family # {}
      BY ChainFacts
    <3> HIDE DEF family
    <3>2. QED
      BY <3>1, LeastSet DEF StringAssumption
  <2>2. PICK r \in Wrong : T = Chain(r)
    BY <2>1
  <2>3. Chain(r) = {r} \cup Rest(r) /\ r \notin Rest(r)
    BY ChainFacts, NoReturn
  <2>4. Following(r) \in Seq(Offset)
    <3>1. CASE next[r] = End
      BY <3>1, EmptySeq DEF Following
    <3>2. CASE next[r] # End
      <4>1. next[r] \in Offset /\ Ends(next[r])
        BY <3>2, EndsStep
      <4>2. Chain(next[r]) \subseteq Chain(r) /\ Chain(next[r]) # Chain(r)
        BY <2>3, <3>2 DEF Rest
      <4>3. next[r] \notin Wrong
        BY <2>1, <2>2, <4>2
      <4>4. QED
        BY <3>2, <4>1, <4>3 DEF Following
    <3>3. QED
      BY <3>1, <3>2
  <2>5. PartsOf(r) = PartOf(r) \o Following(r)
    BY <2>4, PartsStep
  <2>6. PartOf(r) \in Seq(Offset)
    BY EmptySeq DEF PartOf
  <2>7. QED
    BY <2>4, <2>5, <2>6, ConcatProperties
<1>2. PartsOf(o) \in Seq(Offset)
  BY <1>1
<1>3. Following(o) \in Seq(Offset)
  <2>1. CASE next[o] = End
    BY <2>1, EmptySeq DEF Following
  <2>2. CASE next[o] # End
    BY <1>1, <2>2, EndsStep DEF Following
  <2>3. QED
    BY <2>1, <2>2
<1>4. QED
  BY <1>2, <1>3

\* What is behind the parts of the first record is what follows.
LEMMA TailFollows ==
    ASSUME StringAssumption, ChainsOK, NEW o \in Offset, Ends(o)
    PROVE  SubSeq(PartsOf(o), Len(PartOf(o)) + 1, Len(PartsOf(o))) = Following(o)
<1>1. PartsOf(o) = PartOf(o) \o Following(o) /\ Following(o) \in Seq(Offset)
  BY PartsStep, PartsType
<1>2. PartOf(o) \in Seq(Offset)
  BY EmptySeq DEF PartOf
<1>3. QED
  BY <1>1, <1>2, DropFirst


-----------------------------------------------------------------------------
(* The loop over a chain *)

\* The sets that turns of a loop do not leave, and the points they lead to from one.
Kept(points, turns, step) == {T \in SUBSET points : \A y \in T \cap turns : step[y] \in T}
LedTo(points, turns, step, s) ==
    {x \in points : \A T \in Kept(points, turns, step) : s \in T => x \in T}

\* The result of a loop at a point: the one where its turns end, if they do.
LoopOf(points, turns, step, result) ==
    [s \in points |-> result[CHOOSE x \in LedTo(points, turns, step, s) \ turns : TRUE]]

\* It is the same before a turn and after it.
LEMMA LoopExists ==
    ASSUME NEW points, NEW turns \in SUBSET points, NEW step, \A s \in turns : step[s] \in points,
           NEW result
    PROVE  \A s \in points : LoopOf(points, turns, step, result)[s] =
                              IF s \in turns THEN LoopOf(points, turns, step, result)[step[s]]
                              ELSE result[s]
<1> DEFINE K == Kept(points, turns, step)
           Led(s) == LedTo(points, turns, step, s)
           f == LoopOf(points, turns, step, result)
<1>1. ASSUME NEW s \in points PROVE s \in Led(s) /\ Led(s) \in K
  BY DEF LedTo, Kept
<1>2. ASSUME NEW s \in points \ turns PROVE f[s] = result[s]
  <2>1. {s} \in K
    BY DEF Kept
  <2>2. Led(s) \ turns = {s}
    BY <1>1, <2>1 DEF LedTo
  <2>3. (CHOOSE x \in {s} : TRUE) = s
    OBVIOUS
  <2>4. f[s] = result[CHOOSE x \in Led(s) \ turns : TRUE]
    BY DEF LoopOf
  <2> HIDE DEF Led, f
  <2>5. QED
    BY <2>2, <2>3, <2>4
<1>3. ASSUME NEW s \in turns PROVE f[s] = f[step[s]]
  <2>1. step[s] \in points /\ step[s] \in Led(step[s]) /\ Led(step[s]) \in K
    BY <1>1
  <2>2. {s} \cup Led(step[s]) \in K
    BY <2>1 DEF Kept
  <2>3. Led(s) \subseteq {s} \cup Led(step[s])
    BY <2>2 DEF LedTo
  <2>4. step[s] \in Led(s)
    BY <1>1 DEF Kept
  <2>5. Led(step[s]) \subseteq Led(s)
    BY <1>1, <2>4 DEF LedTo
  <2>6. Led(s) \ turns = Led(step[s]) \ turns
    BY <2>3, <2>5
  <2>7. /\ f[s] = result[CHOOSE x \in Led(s) \ turns : TRUE]
        /\ f[step[s]] = result[CHOOSE x \in Led(step[s]) \ turns : TRUE]
    BY <2>1 DEF LoopOf
  <2> HIDE DEF Led, f
  <2>8. QED
    BY <2>6, <2>7
<1>4. QED
  BY <1>2, <1>3

\* What makes a function the loop of `Walk`.
IsLoop(known, f) ==
    f = [at \in Point |->
            IF at.offset = End THEN Answer("parts", at.parts)
            ELSE IF at.visited # {} /\ at.offset \in DOMAIN known
                 THEN Answer("parts", at.parts \o known[at.offset])
            ELSE IF at.offset \in at.visited THEN Cyclic
            ELSE IF part[at.offset] = "bad" THEN Undecodable
            ELSE f[Onward(at)]]

\* Where the loop goes on, it goes on to a point it may be at.
LEMMA OnwardType ==
    ASSUME ChainsOK, NEW at \in Point, at.offset # End
    PROVE  /\ Onward(at) \in Point
           /\ Onward(at).offset = next[at.offset]
           /\ Onward(at).visited = at.visited \cup {at.offset}
           /\ Onward(at).parts = at.parts \o PartOf(at.offset)
<1>1. at.offset \in Offset /\ at.visited \in SUBSET Offset /\ at.parts \in Seq(Offset)
  BY DEF Point
<1>2. PartOf(at.offset) \in Seq(Offset)
  BY <1>1, EmptySeq DEF PartOf
<1>3. at.parts \o PartOf(at.offset) \in Seq(Offset)
  BY <1>1, <1>2, ConcatProperties
<1>4. next[at.offset] \in Offset \cup {End}
  BY <1>1 DEF ChainsOK
<1>5. QED
  BY <1>1, <1>3, <1>4 DEF Onward, Point

\* There is a loop of `Walk`, whatever tails are known.
LEMMA WalkLoops ==
    ASSUME ChainsOK, NEW known
    PROVE  \E f : IsLoop(known, f)
<1> DEFINE turns == {at \in Point : /\ at.offset # End
                                    /\ ~ (at.visited # {} /\ at.offset \in DOMAIN known)
                                    /\ at.offset \notin at.visited
                                    /\ part[at.offset] # "bad"}
           step == [at \in turns |-> Onward(at)]
           result == [at \in Point |->
                         IF at.offset = End THEN Answer("parts", at.parts)
                         ELSE IF at.visited # {} /\ at.offset \in DOMAIN known
                              THEN Answer("parts", at.parts \o known[at.offset])
                         ELSE IF at.offset \in at.visited THEN Cyclic
                         ELSE Undecodable]
<1>1. turns \in SUBSET Point /\ \A at \in turns : step[at] \in Point /\ step[at] = Onward(at)
  BY OnwardType
<1> DEFINE f == LoopOf(Point, turns, step, result)
<1>2. \A at \in Point : f[at] = IF at \in turns THEN f[step[at]] ELSE result[at]
  <2> HIDE DEF turns, step, result
  <2>1. QED
    BY <1>1, LoopExists
<1>3. ASSUME NEW at \in Point
      PROVE  f[at] = IF at.offset = End THEN Answer("parts", at.parts)
                     ELSE IF at.visited # {} /\ at.offset \in DOMAIN known
                          THEN Answer("parts", at.parts \o known[at.offset])
                     ELSE IF at.offset \in at.visited THEN Cyclic
                     ELSE IF part[at.offset] = "bad" THEN Undecodable
                     ELSE f[Onward(at)]
  <2>1. f[at] = IF at \in turns THEN f[step[at]] ELSE result[at]
    BY <1>2
  <2> HIDE DEF f
  <2>2. CASE at \in turns
    BY <1>1, <2>1, <2>2
  <2>3. CASE at \notin turns
    BY <2>1, <2>3
  <2>4. QED
    BY <2>2, <2>3
<1>4. f = [at \in Point |-> f[at]]
  <2> HIDE DEF turns, step, result
  <2>1. QED
    BY DEF LoopOf
<1> HIDE DEF f
<1>5. IsLoop(known, f)
  BY <1>3, <1>4 DEF IsLoop
<1>6. QED
  BY <1>5

\* No part of the chain is undecodable.
Sound(o) == \A r \in Chain(o) : part[r] # "bad"

\* The tails known are those of chains that end and can be decoded.
KnownOK(known) ==
    \A r \in DOMAIN known : r \in Offset /\ Ends(r) /\ Sound(r) /\ known[r] = PartsOf(r)

\* A point the loop comes to: every record visited could be decoded, and leads to another
\* or to where the loop is now.
Reached(at) == \A r \in at.visited : part[r] # "bad" /\ next[r] \in at.visited \cup {at.offset}

\* The answer from a point on, without a loop.
AnswerFrom(at) ==
    IF at.offset = End THEN Answer("parts", at.parts)
    ELSE IF ~ Sound(at.offset) THEN Undecodable
    ELSE IF ~ Ends(at.offset) THEN Cyclic
    ELSE Answer("parts", at.parts \o PartsOf(at.offset))

\* A record is visited twice only on a chain that does not end.
LEMMA VisitedTwice ==
    ASSUME StringAssumption, ChainsOK, NEW at \in Point, Reached(at), at.offset \in at.visited
    PROVE  Sound(at.offset) /\ ~ Ends(at.offset)
<1>1. at.visited \in SUBSET Offset /\ at.offset \in Offset
  BY DEF Point
<1>2. \A r \in at.visited : next[r] \in at.visited /\ next[r] # End
  BY <1>1 DEF Reached, StringAssumption
<1>3. Chain(at.offset) \subseteq at.visited
  BY <1>1, <1>2, ChainFacts DEF Closed
<1>4. QED
  BY <1>2, <1>3 DEF Reached, Sound, Ends

\* A turn of the loop does not change the answer.
LEMMA AnswerStays ==
    ASSUME StringAssumption, ChainsOK, NEW at \in Point, at.offset # End, part[at.offset] # "bad"
    PROVE  AnswerFrom(Onward(at)) = AnswerFrom(at)
<1> DEFINE o == at.offset
<1>1. o \in Offset /\ at.parts \in Seq(Offset)
  BY DEF Point
<1>2. PartOf(o) \in Seq(Offset)
  BY <1>1, EmptySeq DEF PartOf
<1>3. Onward(at).offset = next[o] /\ Onward(at).parts = at.parts \o PartOf(o)
  BY OnwardType
<1>4. Chain(o) = {o} \cup Rest(o)
  BY <1>1, ChainFacts
<1>5. Ends(o) => /\ PartsOf(o) = PartOf(o) \o Following(o)
                 /\ Following(o) \in Seq(Offset)
  BY <1>1, PartsStep, PartsType
<1>6. Ends(o) => at.parts \o PartsOf(o) = (at.parts \o PartOf(o)) \o Following(o)
  <2> SUFFICES ASSUME Ends(o) PROVE at.parts \o PartsOf(o) = (at.parts \o PartOf(o)) \o Following(o)
    OBVIOUS
  <2>1. PICK first \in Seq(Offset) : first = PartOf(o)
    BY <1>2
  <2>2. PICK rest \in Seq(Offset) : rest = Following(o)
    BY <1>5
  <2>3. PICK before \in Seq(Offset) : before = at.parts
    BY <1>1
  <2>4. (before \o first) \o rest = before \o (first \o rest)
    BY ConcatAssociative
  <2>5. QED
    BY <1>5, <2>1, <2>2, <2>3, <2>4
<1>7. at.parts \o PartOf(o) \in Seq(Offset)
  BY <1>1, <1>2, ConcatProperties
<1> HIDE DEF o
<1>8. CASE next[o] = End
  <2>1. Sound(o) /\ Ends(o)
    BY <1>1, <1>4, <1>8, EndsStep DEF Rest, Sound, o
  <2>2. Following(o) = <<>>
    BY <1>8 DEF Following
  <2>3. at.parts \o PartsOf(o) = at.parts \o PartOf(o)
    BY <1>6, <1>7, <2>1, <2>2, ConcatEmptySeq
  <2>4. AnswerFrom(at) = Answer("parts", at.parts \o PartsOf(o))
    BY <2>1 DEF AnswerFrom, o
  <2>5. QED
    BY <1>3, <1>8, <2>3, <2>4 DEF AnswerFrom
<1>9. CASE next[o] # End
  <2>1. Ends(o) <=> Ends(next[o])
    BY <1>1, <1>9, EndsStep
  <2>2. Sound(o) <=> Sound(next[o])
    BY <1>4, <1>9 DEF Rest, Sound, o
  <2>3. Following(o) = PartsOf(next[o])
    BY <1>9 DEF Following
  <2>4. Ends(o) => at.parts \o PartsOf(o) = (at.parts \o PartOf(o)) \o PartsOf(next[o])
    BY <1>6, <2>3
  <2>5. AnswerFrom(Onward(at)) =
           IF ~ Sound(next[o]) THEN Undecodable
           ELSE IF ~ Ends(next[o]) THEN Cyclic
           ELSE Answer("parts", (at.parts \o PartOf(o)) \o PartsOf(next[o]))
    BY <1>3, <1>9 DEF AnswerFrom
  <2>6. AnswerFrom(at) =
           IF ~ Sound(o) THEN Undecodable
           ELSE IF ~ Ends(o) THEN Cyclic
           ELSE Answer("parts", at.parts \o PartsOf(o))
    BY DEF AnswerFrom, o
  <2>7. CASE ~ Sound(o)
    BY <2>2, <2>5, <2>6, <2>7
  <2>8. CASE Sound(o) /\ ~ Ends(o)
    BY <2>1, <2>2, <2>5, <2>6, <2>8
  <2>9. CASE Sound(o) /\ Ends(o)
    BY <2>1, <2>2, <2>4, <2>5, <2>6, <2>9
  <2>10. QED
    BY <2>7, <2>8, <2>9
<1>10. QED
  BY <1>8, <1>9

\* Where the loop is reached, its result is that answer: each turn leaves one record less
\* to visit.
LEMMA LoopMeans ==
    ASSUME StringAssumption, ChainsOK, NEW known, KnownOK(known), NEW f, IsLoop(known, f)
    PROVE  \A at \in Point : Reached(at) => f[at] = AnswerFrom(at)
<1> DEFINE Wrong == {at \in Point : Reached(at) /\ f[at] # AnswerFrom(at)}
           Left(at) == Offset \ at.visited
           family == {Left(at) : at \in Wrong}
<1> SUFFICES ASSUME Wrong # {} PROVE FALSE
  OBVIOUS
<1>1. PICK T \in family : \A U \in family : U \subseteq T => U = T
  <2>1. family \subseteq SUBSET Offset /\ family # {}
    OBVIOUS
  <2> HIDE DEF family
  <2>2. QED
    BY <2>1, LeastSet DEF StringAssumption
<1>2. PICK at \in Wrong : T = Left(at)
  BY <1>1
<1>3. at \in Point /\ Reached(at) /\ at.visited \in SUBSET Offset
  BY DEF Point
<1>4. f[at] = IF at.offset = End THEN Answer("parts", at.parts)
              ELSE IF at.visited # {} /\ at.offset \in DOMAIN known
                   THEN Answer("parts", at.parts \o known[at.offset])
              ELSE IF at.offset \in at.visited THEN Cyclic
              ELSE IF part[at.offset] = "bad" THEN Undecodable
              ELSE f[Onward(at)]
  BY <1>3 DEF IsLoop
<1>5. f[at] # AnswerFrom(at)
  OBVIOUS
<1>6. at.offset # End
  BY <1>4, <1>5 DEF AnswerFrom
<1>7. at.offset \in Offset
  BY <1>3, <1>6 DEF Point
<1>8. ~ (at.visited # {} /\ at.offset \in DOMAIN known)
  <2> SUFFICES ASSUME at.visited # {}, at.offset \in DOMAIN known PROVE FALSE
    OBVIOUS
  <2>1. /\ Ends(at.offset) /\ Sound(at.offset)
        /\ known[at.offset] = PartsOf(at.offset)
    BY DEF KnownOK
  <2>2. f[at] = Answer("parts", at.parts \o known[at.offset])
    BY <1>4, <1>6
  <2>3. AnswerFrom(at) = Answer("parts", at.parts \o PartsOf(at.offset))
    BY <1>6, <2>1 DEF AnswerFrom
  <2>4. QED
    BY <1>5, <2>1, <2>2, <2>3
<1>9. at.offset \notin at.visited
  <2> SUFFICES ASSUME at.offset \in at.visited PROVE FALSE
    OBVIOUS
  <2>1. Sound(at.offset) /\ ~ Ends(at.offset)
    BY <1>3, VisitedTwice
  <2>2. AnswerFrom(at) = Cyclic
    BY <1>6, <2>1 DEF AnswerFrom
  <2>3. f[at] = Cyclic
    BY <1>4, <1>6, <1>8
  <2>4. QED
    BY <1>5, <2>2, <2>3
<1>10. part[at.offset] # "bad"
  <2> SUFFICES ASSUME part[at.offset] = "bad" PROVE FALSE
    OBVIOUS
  <2>1. ~ Sound(at.offset)
    BY <1>7, ChainFacts DEF Sound
  <2>2. AnswerFrom(at) = Undecodable
    BY <1>6, <2>1 DEF AnswerFrom
  <2>3. f[at] = Undecodable
    BY <1>4, <1>6, <1>8, <1>9
  <2>4. QED
    BY <1>5, <2>2, <2>3
<1>11. f[at] = f[Onward(at)]
  BY <1>4, <1>6, <1>8, <1>9, <1>10
<1>12. /\ Onward(at) \in Point
       /\ Onward(at).offset = next[at.offset]
       /\ Onward(at).visited = at.visited \cup {at.offset}
  BY <1>3, <1>6, OnwardType
<1>13. Reached(Onward(at))
  BY <1>3, <1>10, <1>12 DEF Reached
<1>14. AnswerFrom(Onward(at)) = AnswerFrom(at)
  BY <1>3, <1>6, <1>10, AnswerStays
<1>15. Onward(at) \in Wrong
  BY <1>5, <1>11, <1>12, <1>13, <1>14
<1>16. Left(Onward(at)) \subseteq Left(at) /\ Left(Onward(at)) # Left(at)
  BY <1>7, <1>9, <1>12
<1>17. Left(Onward(at)) \in family
  BY <1>15
<1> HIDE DEF family, Left
<1>18. QED
  BY <1>1, <1>2, <1>16, <1>17

\* What `Walk` returns for a chain.
LEMMA WalkMeans ==
    ASSUME StringAssumption, ChainsOK, NEW known, KnownOK(known), NEW o \in Offset
    PROVE  Walk(o, known) = IF ~ Sound(o) THEN Undecodable
                            ELSE IF ~ Ends(o) THEN Cyclic
                            ELSE Answer("parts", PartsOf(o))
<1> DEFINE Loop == CHOOSE f : IsLoop(known, f)
           start == [offset |-> o, visited |-> {}, parts |-> <<>>]
<1>1. Walk(o, known) = Loop[start]
  BY DEF Walk, IsLoop
<1>2. IsLoop(known, Loop)
  BY WalkLoops
<1>3. start \in Point /\ start.offset = o /\ start.visited = {} /\ start.parts = <<>>
  BY EmptySeq DEF Point
<1>4. Reached(start)
  BY <1>3 DEF Reached
<1>5. Loop[start] = AnswerFrom(start)
  <2> HIDE DEF start, Loop
  <2>1. QED
    BY <1>2, <1>3, <1>4, LoopMeans
<1>6. Ends(o) => <<>> \o PartsOf(o) = PartsOf(o)
  BY PartsType, ConcatEmptySeq
<1>7. o # End
  BY DEF StringAssumption
<1> HIDE DEF start, Loop
<1>8. QED
  BY <1>1, <1>3, <1>5, <1>6, <1>7 DEF AnswerFrom


-----------------------------------------------------------------------------
(* What is remembered *)

\* What is remembered of strings is what they mean.
CacheOK(cache) ==
    \A k \in DOMAIN cache : k \in Request /\ Answer("string", cache[k]) = Meaning(k[1], k[2])

\* Both parsers answered the last request with what it means.
LastOK ==
    last # <<>> =>
        /\ last.python = Meaning(last.offset, last.separator)
        /\ last.rust = Meaning(last.offset, last.separator)

\* The invariant: the strings and tails remembered are those of the bytes, and so is the
\* answer given last.
StringsInv ==
    /\ ChainsOK
    /\ KnownOK(tails) /\ CacheOK(strings) /\ CacheOK(rustStrings)
    /\ LastOK

\* A chain that is read is what it means.
LEMMA DynamicMeans ==
    ASSUME StringAssumption, ChainsOK, NEW known, KnownOK(known), NEW o \in Offset,
           NEW separator, separator # NoSeparator
    PROVE  Dynamic(o, separator, known) = Meaning(o, separator)
<1>1. Sound(o) <=> ~ \E r \in Chain(o) : part[r] = "bad"
  BY DEF Sound
<1>2. /\ Undecodable.tag # "parts" /\ Cyclic.tag # "parts"
      /\ Answer("parts", PartsOf(o)).tag = "parts"
      /\ Answer("parts", PartsOf(o)).string = PartsOf(o)
  BY DEF Undecodable, Cyclic, Answer
<1>3. CASE ~ Sound(o)
  BY <1>1, <1>2, <1>3, WalkMeans DEF Dynamic, Meaning
<1>4. CASE Sound(o) /\ ~ Ends(o)
  BY <1>1, <1>2, <1>4, WalkMeans DEF Dynamic, Meaning
<1>5. CASE Sound(o) /\ Ends(o)
  <2>1. Walk(o, known) = Answer("parts", PartsOf(o))
    BY <1>5, WalkMeans
  <2>2. Dynamic(o, separator, known) = Answer("string", Join(separator, InOrder(PartsOf(o))))
    BY <1>2, <2>1 DEF Dynamic
  <2>3. QED
    BY <1>1, <1>5, <2>2 DEF Meaning
<1>6. QED
  BY <1>3, <1>4, <1>5

\* A parser answers with what a string means, remembered or read.
LEMMA AnswerMeans ==
    ASSUME StringAssumption, ChainsOK, NEW known, KnownOK(known), NEW cache, CacheOK(cache),
           NEW o \in Offset, NEW separator \in Separator \cup {NoSeparator}
    PROVE  AnswerOf(o, separator, cache, known) = Meaning(o, separator)
<1>1. CASE Key(o, separator) \in DOMAIN cache
  <2>1. Key(o, separator)[1] = o /\ Key(o, separator)[2] = separator
    BY DEF Key
  <2>2. QED
    BY <1>1, <2>1 DEF AnswerOf, CacheOK
<1>2. CASE Key(o, separator) \notin DOMAIN cache /\ separator = NoSeparator
  BY <1>2 DEF AnswerOf, Meaning
<1>3. CASE Key(o, separator) \notin DOMAIN cache /\ separator # NoSeparator
  BY <1>3, DynamicMeans DEF AnswerOf
<1>4. QED
  BY <1>1, <1>2, <1>3

\* Remembering an answer keeps what is remembered right.
LEMMA RememberKeeps ==
    ASSUME StringAssumption, NEW cache, CacheOK(cache), NEW o \in Offset,
           NEW separator \in Separator \cup {NoSeparator}, NEW answer,
           answer = Meaning(o, separator)
    PROVE  CacheOK(Remember(cache, o, separator, answer))
<1>1. CASE answer.tag # "string"
  BY <1>1 DEF Remember
<1>2. CASE answer.tag = "string"
  <2>1. answer = Answer("string", answer.string)
    <3>1. PICK tag, string : answer = Answer(tag, string)
      BY DEF Meaning, Undecodable, Cyclic
    <3>2. QED
      BY <1>2, <3>1 DEF Answer
  <2> DEFINE key == Key(o, separator)
             after == Remember(cache, o, separator, answer)
  <2>2. key \in Request /\ key[1] = o /\ key[2] = separator
    BY DEF Key, Request
  <2>3. /\ DOMAIN after = DOMAIN cache \cup {key}
        /\ after[key] = answer.string
        /\ \A k \in DOMAIN cache \ {key} : after[k] = cache[k]
    BY <1>2 DEF Remember, Put
  <2> HIDE DEF after, key
  <2>4. ASSUME NEW k \in DOMAIN after
        PROVE  k \in Request /\ Answer("string", after[k]) = Meaning(k[1], k[2])
    <3>1. CASE k = key
      BY <2>1, <2>2, <2>3, <3>1
    <3>2. CASE k # key
      BY <2>3, <2>4, <3>2 DEF CacheOK
    <3>3. QED
      BY <3>1, <3>2
  <2>5. QED
    BY <2>4 DEF CacheOK, after
<1>3. QED
  BY <1>1, <1>2

\* The tail that is learned is the chain that starts there.
LEMMA LearnKeeps ==
    ASSUME StringAssumption, ChainsOK, KnownOK(tails), NEW o \in Offset,
           NEW separator \in Separator \cup {NoSeparator}, LearnsTail(o, separator)
    PROVE  KnownOK(Put(tails, next[o], TailOf(o)))
<1>1. Dynamic(o, separator, tails).tag = "string" /\ next[o] # End
  BY DEF LearnsTail
<1>2. /\ Undecodable.tag \notin {"parts", "string"} /\ Cyclic.tag \notin {"parts", "string"}
      /\ Answer("parts", PartsOf(o)).string = PartsOf(o)
  BY DEF Undecodable, Cyclic, Answer
<1>3. Sound(o) /\ Ends(o)
  <2>1. CASE ~ Sound(o)
    BY <1>1, <1>2, <2>1, WalkMeans DEF Dynamic
  <2>2. CASE Sound(o) /\ ~ Ends(o)
    BY <1>1, <1>2, <2>2, WalkMeans DEF Dynamic
  <2>3. QED
    BY <2>1, <2>2
<1>4. Walk(o, tails).string = PartsOf(o)
  BY <1>2, <1>3, WalkMeans
<1>5. TailOf(o) = PartsOf(next[o])
  <2>1. TailOf(o) = Following(o)
    BY <1>3, <1>4, TailFollows DEF TailOf
  <2>2. QED
    BY <1>1, <2>1 DEF Following
<1>6. next[o] \in Offset /\ Ends(next[o])
  BY <1>1, <1>3, EndsStep
<1>7. Sound(next[o])
  <2>1. Chain(o) = {o} \cup Rest(o)
    BY ChainFacts
  <2>2. QED
    BY <1>1, <1>3, <2>1 DEF Sound, Rest
<1> DEFINE after == Put(tails, next[o], TailOf(o))
<1>8. /\ DOMAIN after = DOMAIN tails \cup {next[o]}
      /\ after[next[o]] = TailOf(o)
      /\ \A r \in DOMAIN tails \ {next[o]} : after[r] = tails[r]
  BY DEF Put
<1> HIDE DEF after
<1>9. ASSUME NEW r \in DOMAIN after
      PROVE  r \in Offset /\ Ends(r) /\ Sound(r) /\ after[r] = PartsOf(r)
  <2>1. CASE r = next[o]
    BY <1>5, <1>6, <1>7, <1>8, <2>1
  <2>2. CASE r # next[o]
    BY <1>8, <1>9, <2>2 DEF KnownOK
  <2>3. QED
    BY <2>1, <2>2
<1>10. QED
  BY <1>9 DEF KnownOK, after

\* What strings mean depends on nothing but the chains, which no read changes.
LEMMA MeaningStable ==
    ASSUME UNCHANGED chains
    PROVE  /\ ChainsOK' <=> ChainsOK
           /\ \A o : /\ PartsOf(o)' = PartsOf(o)
                     /\ Ends(o)' <=> Ends(o)
                     /\ Sound(o)' <=> Sound(o)
           /\ \A o, separator : Meaning(o, separator)' = Meaning(o, separator)
<1>1. part' = part /\ next' = next /\ version' = version
  BY DEF chains
<1>2. \A o : Chain(o)' = Chain(o)
  BY <1>1 DEF Chain, Closed
<1>3. \A o : Texts(o)' = Texts(o)
  BY <1>1, <1>2 DEF Texts
<1>4. \A o, i : Ith(o, i)' = Ith(o, i)
  BY <1>2, <1>3 DEF Ith
<1>5. \A o : PartsOf(o)' = PartsOf(o)
  BY <1>3, <1>4 DEF PartsOf
<1>6. \A o : (Ends(o)' <=> Ends(o)) /\ (Sound(o)' <=> Sound(o))
  BY <1>1, <1>2 DEF Ends, Sound
<1>7. \A s : InOrder(s)' = InOrder(s)
  BY <1>1 DEF InOrder
<1>8. \A o, separator : Meaning(o, separator)' = Meaning(o, separator)
  <2> SUFFICES ASSUME NEW o, NEW separator PROVE Meaning(o, separator)' = Meaning(o, separator)
    OBVIOUS
  <2>1. InOrder(PartsOf(o))' = InOrder(PartsOf(o))
    BY <1>1, <1>5 DEF InOrder
  <2>2. (\E r \in Chain(o) : part[r] = "bad")' <=> \E r \in Chain(o) : part[r] = "bad"
    BY <1>1, <1>2
  <2>3. Join(separator, InOrder(PartsOf(o)))' = Join(separator, InOrder(PartsOf(o)))
    BY <2>1 DEF Join
  <2>4. QED
    BY <1>6, <2>2, <2>3 DEF Meaning, Basic, Undecodable, Cyclic, Answer
<1>9. QED
  BY <1>1, <1>5, <1>6, <1>8 DEF ChainsOK

\* Nothing is remembered at first.
LEMMA InitInv == Init => StringsInv /\ TypeOK
BY StringAssumption DEF Init, StringsInv, LastOK, ChainsOK, KnownOK, CacheOK, TypeOK, Empty

\* A read keeps the invariant.
LEMMA ReadKeeps ==
    ASSUME StringsInv, TypeOK, NEW o \in Offset, NEW separator \in Separator \cup {NoSeparator},
           Read(o, separator)
    PROVE  StringsInv' /\ TypeOK'
<1> DEFINE python == AnswerOf(o, separator, strings, tails)
           rust == AnswerOf(o, separator, rustStrings, Empty)
<1>1. ChainsOK /\ KnownOK(tails) /\ KnownOK(Empty) /\ CacheOK(strings) /\ CacheOK(rustStrings)
  BY DEF StringsInv, KnownOK, Empty
<1>2. python = Meaning(o, separator) /\ rust = Meaning(o, separator)
  BY <1>1, StringAssumption, AnswerMeans
<1>3. /\ last' = [offset |-> o, separator |-> separator, python |-> python, rust |-> rust]
      /\ strings' = Remember(strings, o, separator, python)
      /\ rustStrings' = Remember(rustStrings, o, separator, rust)
      /\ tails' = IF LearnsTail(o, separator) THEN Put(tails, next[o], TailOf(o)) ELSE tails
      /\ reads' = reads + 1 /\ reads < MaxReads /\ UNCHANGED chains
  BY DEF Read
<1>4. CacheOK(Remember(strings, o, separator, python))
  <2> HIDE DEF python
  <2>1. QED
    BY <1>1, <1>2, StringAssumption, RememberKeeps
<1>5. CacheOK(Remember(rustStrings, o, separator, rust))
  <2> HIDE DEF rust
  <2>1. QED
    BY <1>1, <1>2, StringAssumption, RememberKeeps
<1> HIDE DEF python, rust
<1>6. ASSUME NEW k \in DOMAIN strings'
      PROVE  k \in Request /\ Answer("string", strings'[k]) = Meaning(k[1], k[2])
  BY <1>3, <1>4 DEF CacheOK
<1>7. ASSUME NEW k \in DOMAIN rustStrings'
      PROVE  k \in Request /\ Answer("string", rustStrings'[k]) = Meaning(k[1], k[2])
  BY <1>3, <1>5 DEF CacheOK
<1>8. ASSUME NEW r \in DOMAIN tails'
      PROVE  r \in Offset /\ Ends(r) /\ Sound(r) /\ tails'[r] = PartsOf(r)
  <2>1. CASE LearnsTail(o, separator)
    BY <1>1, <1>3, <2>1, StringAssumption, LearnKeeps DEF KnownOK
  <2>2. CASE ~ LearnsTail(o, separator)
    BY <1>1, <1>3, <2>2 DEF KnownOK
  <2>3. QED
    BY <2>1, <2>2
<1>9. KnownOK(tails)'
  BY <1>3, <1>8, MeaningStable DEF KnownOK
<1>10. CacheOK(strings)'
  BY <1>3, <1>6, MeaningStable DEF CacheOK, Request, Answer
<1>11. CacheOK(rustStrings)'
  BY <1>3, <1>7, MeaningStable DEF CacheOK, Request, Answer
<1>12. /\ last'.python = Meaning(last'.offset, last'.separator)
       /\ last'.rust = Meaning(last'.offset, last'.separator)
  BY <1>2, <1>3
<1>13. StringsInv'
  BY <1>1, <1>3, <1>9, <1>10, <1>11, <1>12, MeaningStable DEF StringsInv, LastOK
<1>14. TypeOK'
  <2>1. DOMAIN strings' \subseteq Request /\ DOMAIN rustStrings' \subseteq Request
    BY <1>6, <1>7
  <2>2. \A r \in DOMAIN tails' : r \in Offset /\ tails'[r] \in Seq(Offset)
    BY <1>1, <1>8, StringAssumption, PartsType
  <2>3. reads' \in 0..MaxReads
    BY <1>3, StringAssumption DEF TypeOK, StringAssumption
  <2>4. QED
    BY <2>1, <2>2, <2>3 DEF TypeOK, Request
<1>15. QED
  BY <1>13, <1>14

\* The invariant is inductive.
LEMMA StepInv ==
    ASSUME StringsInv, TypeOK, [Next]_vars
    PROVE  StringsInv' /\ TypeOK'
<1>1. CASE Next
  BY <1>1, ReadKeeps DEF Next
<1>2. CASE UNCHANGED vars
  <2>1. /\ UNCHANGED chains
        /\ UNCHANGED <<strings, tails, rustStrings, last, reads>>
    BY <1>2 DEF vars
  <2>2. KnownOK(tails)' /\ CacheOK(strings)' /\ CacheOK(rustStrings)'
    BY <2>1, MeaningStable DEF StringsInv, KnownOK, CacheOK, Request, Answer
  <2>3. LastOK'
    <3>1. last' = last /\ LastOK
      BY <2>1 DEF StringsInv
    <3>2. \A o, separator : Meaning(o, separator)' = Meaning(o, separator)
      BY <2>1, MeaningStable
    <3>3. QED
      BY <3>1, <3>2 DEF LastOK
  <2>4. StringsInv'
    BY <2>1, <2>2, <2>3, MeaningStable DEF StringsInv
  <2>5. TypeOK'
    BY <2>1 DEF TypeOK, Request
  <2>6. QED
    BY <2>4, <2>5
<1>3. QED
  BY <1>1, <1>2

\* What is remembered of strings and tails, and every answer, is what the bytes mean, in
\* every reachable state.
THEOREM StringsInvariant == Spec => []StringsInv /\ []TypeOK
<1>1. Init => StringsInv /\ TypeOK
  BY InitInv
<1>2. StringsInv /\ TypeOK /\ [Next]_vars => StringsInv' /\ TypeOK'
  BY StepInv
<1>3. QED
  BY <1>1, <1>2, PTL DEF Spec

\* Types alone: what is remembered is remembered for requests, and tails are sequences.
THEOREM StringsTypeCorrect == Spec => []TypeOK
BY StringsInvariant, PTL

\* A remembered tail is the chain that starts there, and that chain ends, whatever the
\* head, the separator and the reads it was learned with.
THEOREM TailsRemembered == Spec => []TailsAreChains
<1>1. StringsInv => TailsAreChains
  BY DEF StringsInv, KnownOK, TailsAreChains
<1>2. QED
  BY <1>1, StringsInvariant, PTL

\* The Python parser answers with what the bytes mean, whatever it was asked before.
THEOREM CachesInvisible == Spec => []PythonAnswersMeaning
<1>1. StringsInv => PythonAnswersMeaning
  BY DEF StringsInv, LastOK, PythonAnswersMeaning
<1>2. QED
  BY <1>1, StringsInvariant, PTL

\* The parsers agree on every string, cyclic and undecodable chains included.
THEOREM ParsersReadAlike == Spec => []ParsersAgree
<1>1. StringsInv => ParsersAgree
  BY DEF StringsInv, LastOK, ParsersAgree
<1>2. QED
  BY <1>1, StringsInvariant, PTL
=============================================================================
