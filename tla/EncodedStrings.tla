--------------------------- MODULE EncodedStrings ---------------------------
(***************************************************************************)
(* Encoded strings of a binary catalog.  A string offset with the dynamic  *)
(* bit points, when a separator is given, to a chain of parts: each record *)
(* names a basic string and the next record.  CatalogBinaryReader of       *)
(* binary.py remembers whole strings and, because Unity paths share their  *)
(* tails, the parts of the first tail it met; Parser::string of            *)
(* native/src/binary.rs remembers whole strings only.                      *)
(*                                                                         *)
(* Texts are abstract: a part is known by the offset of the record naming  *)
(* it, and a string is the sequence of what was joined.                    *)
(***************************************************************************)
EXTENDS Integers, Sequences, FiniteSets, SequencesExt

CONSTANTS
    Offset,      \* offsets of part records
    End,         \* the offset 0xFFFFFFFF that ends a chain
    Separator,   \* the separators strings are asked for with
    NoSeparator, \* the separator "\0", which turns the dynamic bit off
    MaxReads     \* bound: strings read in one parse

ASSUME StringAssumption ==
    /\ End \notin Offset
    /\ NoSeparator \notin Separator
    /\ IsFiniteSet(Offset)    \* they are numbers of 32 bits
    /\ MaxReads \in Nat

\* What the basic string of a part record is: a text, absent (None), or undecodable.
PartKind == {"text", "none", "bad"}

VARIABLES
    part, next,   \* the chains, as the catalog has them
    version,      \* `reader.version`
    strings,      \* `_string_cache`: <<offset, separator>> -> string
    tails,        \* `_dynamic_tail_cache`: offset -> parts, in wire order
    rustStrings,  \* Parser.strings
    last,         \* the request answered last, and the answers of both parsers
    reads

chains == <<part, next, version>>
vars == <<chains, strings, tails, rustStrings, last, reads>>

Request == Offset \X (Separator \cup {NoSeparator})

Empty == [x \in {} |-> x]

Init ==
    /\ part \in [Offset -> PartKind]
    /\ next \in [Offset -> Offset \cup {End}]
    /\ version \in {1, 2}
    /\ strings = Empty /\ tails = Empty /\ rustStrings = Empty
    /\ last = <<>>
    /\ reads = 0

Put(cache, key, value) == [k \in DOMAIN cache \cup {key} |->
                              IF k = key THEN value ELSE cache[k]]

\* The parts a record contributes: none, when its string is absent.
PartOf(o) == IF part[o] = "text" THEN <<o>> ELSE <<>>

\* separator.join(parts)
Join(separator, parts) ==
    [i \in 1..(IF parts = <<>> THEN 0 ELSE 2 * Len(parts) - 1) |->
        IF i % 2 = 1 THEN parts[(i + 1) \div 2] ELSE separator]

InOrder(parts) == IF version > 1 THEN Reverse(parts) ELSE parts

\* Every answer is a string or the error that was raised, tagged alike.
Answer(tag, string) == [tag |-> tag, string |-> string]
Cyclic == Answer("cycle", <<>>)
Undecodable == Answer("bad", <<>>)

\* What the bytes at an offset are when they are read as a basic string instead.
Basic(o) == <<NoSeparator, o>>

-----------------------------------------------------------------------------
(* Reading a string *)

\* Where the loop over a chain may be: the offset it has come to, the offsets visited
\* and the parts so far.
Point == [offset : Offset \cup {End}, visited : SUBSET Offset, parts : Seq(Offset)]

\* The next turn of the loop.
Onward(at) == [offset |-> next[at.offset],
               visited |-> at.visited \cup {at.offset},
               parts |-> at.parts \o PartOf(at.offset)]

\* Seeded fault: a tail that is met replaces what was read before it.
Walk_TailOnly(start, known) ==
    LET Loop[at \in Point] ==
          IF at.offset = End THEN Answer("parts", at.parts)
          ELSE IF at.visited # {} /\ at.offset \in DOMAIN known THEN Answer("parts", known[at.offset])
          ELSE IF at.offset \in at.visited THEN Cyclic
          ELSE IF part[at.offset] = "bad" THEN Undecodable
          ELSE Loop[Onward(at)]
    IN  Loop[[offset |-> start, visited |-> {}, parts |-> <<>>]]

\* The loop over a chain.  It stops at the end, at a tail that is known (Python only, and not at the head), at an offset
\* visited before, or at a part that cannot be decoded.
Walk(start, known) ==
    LET Loop[at \in Point] ==
          IF at.offset = End THEN Answer("parts", at.parts)
          ELSE IF at.visited # {} /\ at.offset \in DOMAIN known
               THEN Answer("parts", at.parts \o known[at.offset])
          ELSE IF at.offset \in at.visited THEN Cyclic
          ELSE IF part[at.offset] = "bad" THEN Undecodable
          ELSE Loop[Onward(at)]
    IN  Loop[[offset |-> start, visited |-> {}, parts |-> <<>>]]

\* A lone part is returned as it is, which is what joining it gives.
Dynamic(o, separator, known) ==
    LET chain == Walk(o, known)
    IN  IF chain.tag # "parts" THEN chain
        ELSE Answer("string", Join(separator, InOrder(chain.string)))

\* Seeded fault: the separator is not part of the key.
Key_Offset(o, separator) == <<o, NoSeparator>>

Key(o, separator) == <<o, separator>>

AnswerOf(o, separator, cache, known) ==
    IF Key(o, separator) \in DOMAIN cache THEN Answer("string", cache[Key(o, separator)])
    ELSE IF separator = NoSeparator THEN Answer("string", Basic(o))
    ELSE Dynamic(o, separator, known)

Remember(cache, o, separator, answer) ==
    IF answer.tag = "string" THEN Put(cache, Key(o, separator), answer.string) ELSE cache

\* Seeded fault: the tail is remembered with the parts before it.
TailOf_Whole(o) == Walk(o, tails).string

\* What follows the first record, in wire order.
TailOf(o) ==
    LET parts == Walk(o, tails).string IN SubSeq(parts, Len(PartOf(o)) + 1, Len(parts))

\* Seeded fault: the empty tail of a chain of one record is remembered too.
LearnsTail_Empty(o, separator) ==
    /\ Key(o, separator) \notin DOMAIN strings
    /\ separator # NoSeparator
    /\ Dynamic(o, separator, tails).tag = "string"

\* A chain read to its end teaches the tail after its first record, once.
LearnsTail(o, separator) ==
    /\ Key(o, separator) \notin DOMAIN strings
    /\ separator # NoSeparator
    /\ Dynamic(o, separator, tails).tag = "string"
    /\ next[o] # End
    /\ next[o] \notin DOMAIN tails

\* Both parsers are asked for the same string; what they remember is their own.
Read(o, separator) ==
    /\ reads < MaxReads
    /\ LET python == AnswerOf(o, separator, strings, tails)
           rust == AnswerOf(o, separator, rustStrings, Empty)
       IN  /\ last' = [offset |-> o, separator |-> separator, python |-> python, rust |-> rust]
           /\ strings' = Remember(strings, o, separator, python)
           /\ rustStrings' = Remember(rustStrings, o, separator, rust)
    /\ tails' = IF LearnsTail(o, separator) THEN Put(tails, next[o], TailOf(o)) ELSE tails
    /\ reads' = reads + 1
    /\ UNCHANGED chains

Next == \E o \in Offset, separator \in Separator \cup {NoSeparator} : Read(o, separator)

Spec == Init /\ [][Next]_vars

-----------------------------------------------------------------------------
(* What a string is, whatever was read before it. *)

Closed(S) == \A o \in S : next[o] = End \/ next[o] \in S

\* The records of the chain that starts at o.
Chain(o) == {r \in Offset : \A S \in SUBSET Offset : o \in S /\ Closed(S) => r \in S}

Ends(o) == \E r \in Chain(o) : next[r] = End

\* The records of the chain with a text, and those of them that are i-th: i of them, they
\* themselves included, have them in their chains.
Texts(o) == {r \in Chain(o) : part[r] = "text"}
Ith(o, i) == {r \in Texts(o) : Cardinality({q \in Texts(o) : r \in Chain(q)}) = i}

\* The parts of a chain that ends, in wire order.
PartsOf(o) == [i \in 1..Cardinality(Texts(o)) |-> CHOOSE r \in Ith(o, i) : TRUE]

\* A record that cannot be decoded is met before the chain is known to be cyclic.
Meaning(o, separator) ==
    IF separator = NoSeparator THEN Answer("string", Basic(o))
    ELSE IF \E r \in Chain(o) : part[r] = "bad" THEN Undecodable
    ELSE IF ~Ends(o) THEN Cyclic
    ELSE Answer("string", Join(separator, InOrder(PartsOf(o))))

-----------------------------------------------------------------------------
(* Properties *)

TypeOK ==
    /\ DOMAIN strings \subseteq Request /\ DOMAIN rustStrings \subseteq Request
    /\ DOMAIN tails \subseteq Offset
    /\ \A o \in DOMAIN tails : tails[o] \in Seq(Offset)
    /\ reads \in 0..MaxReads

\* A remembered tail is the chain that starts there: tails shared by paths with
\* different heads, separators or versions are the same for all of them, and no tail
\* of a chain that does not end is ever remembered.
TailsAreChains ==
    \A o \in DOMAIN tails : Ends(o) /\ tails[o] = PartsOf(o)

\* Remembering is invisible: whatever was read before, the Python parser's answer is
\* what the bytes mean, cyclic chains and undecodable parts included.
PythonAnswersMeaning == last # <<>> => last.python = Meaning(last.offset, last.separator)

\* The two parsers give the same answer to the same sequence of requests, although
\* they remember different things.
ParsersAgree == last # <<>> => last.rust = last.python
=============================================================================
