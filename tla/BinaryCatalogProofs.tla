------------------------- MODULE BinaryCatalogProofs -------------------------
(***************************************************************************)
(* Proofs about BinaryCatalog.                                             *)
(***************************************************************************)
EXTENDS BinaryCatalog, TLAPS, SequenceTheorems

-----------------------------------------------------------------------------
(* A parse as a record *)

Fields ==
    {"world", "buffered", "native", "cursor", "written", "out", "val", "cache", "names", "kind",
     "type", "version", "header", "objects", "providers", "pairs", "stack", "table", "made",
     "again", "uses", "foreign"}

Shape(s) == DOMAIN s = Fields

\* t is s but for these fields.
Only(s, t, changed) == Shape(t) /\ \A f \in Fields \ changed : t[f] = s[f]

LEMMA OnlyTransitive ==
    ASSUME NEW r, NEW s, NEW t, NEW A, NEW B, Only(r, s, A), Only(s, t, B)
    PROVE  Only(r, t, A \cup B)
  BY DEF Only

LEMMA OnlyMore ==
    ASSUME NEW s, NEW t, NEW A, NEW B, Only(s, t, A), A \subseteq B
    PROVE  Only(s, t, B)
  BY DEF Only

LEMMA OnlyNone ==
    ASSUME NEW s, Shape(s), NEW A
    PROVE  Only(s, s, A)
  BY DEF Only

\* What each of the small steps of a parse changes.
LEMMA FailIs ==
    ASSUME NEW s, Shape(s), NEW error
    PROVE  /\ Only(s, Fail(s, error), {"out", "val"})
           /\ Fail(s, error).out = error /\ Fail(s, error).val = <<>>
  BY DEF Shape, Fail, Fields, Only

LEMMA GiveIs ==
    ASSUME NEW s, Shape(s), NEW v
    PROVE  Only(s, Give(s, v), {"val"}) /\ Give(s, v).val = v
  BY DEF Shape, Give, Fields, Only

LEMMA UseIs ==
    ASSUME NEW s, Shape(s), NEW kind, NEW o
    PROVE  Only(s, Use(s, kind, o), {"uses"}) /\ Use(s, kind, o).uses = s.uses \cup {<<kind, o>>}
  BY DEF Shape, Use, Fields, Only

\* A cache with one more object.
Plus(cache, o, v) == [x \in DOMAIN cache \cup {o} |-> IF x = o THEN v ELSE cache[x]]

LEMMA RememberIs ==
    ASSUME NEW s, Shape(s), NEW o, NEW v
    PROVE  /\ Only(s, Remember(s, o, v), {"cache"})
           /\ Remember(s, o, v).cache = IF s.world = "plain" THEN s.cache ELSE Plus(s.cache, o, v)
  BY DEF Shape, Remember, Fields, Only, Plus

\* What has been constructed before of this kind at this offset.
Before(s, v) == {m[1] : m \in {n \in s.made : n[1] = v}}

LEMMA MakeIs ==
    ASSUME NEW s, Shape(s), NEW is, NEW o, NEW fields
    PROVE  LET t == Make(s, is, o, fields)
               v == Value(is, <<o>>)
           IN  /\ Only(s, t, {"cache", "made", "again", "val"})
               /\ t.cache = IF s.world = "plain" THEN s.cache ELSE Plus(s.cache, o, v)
               /\ t.made = s.made \cup {<<v, fields>>}
               /\ t.again = s.again \cup Before(s, v)
               /\ t.val = v
  <1> DEFINE v == Value(is, <<o>>)
             r == Remember(s, o, v)
  <1>1. /\ Only(s, r, {"cache"})
        /\ r.cache = IF s.world = "plain" THEN s.cache ELSE Plus(s.cache, o, v)
    BY RememberIs
  <1>2. Make(s, is, o, fields)
          = [r EXCEPT !.made = @ \cup {<<v, fields>>}, !.val = v, !.again = @ \cup Before(s, v)]
    BY DEF Make, Before
  <1> HIDE DEF r, v
  <1> DEFINE t == [r EXCEPT !.made = @ \cup {<<v, fields>>}, !.val = v, !.again = @ \cup Before(s, v)]
  <1>3. DOMAIN r = Fields
    BY <1>1 DEF Only, Shape
  <1>4. /\ Only(s, t, {"cache", "made", "again", "val"})
        /\ t.cache = r.cache
        /\ t.made = r.made \cup {<<v, fields>>}
        /\ t.again = r.again \cup Before(s, v)
        /\ t.val = v
    BY <1>1, <1>3 DEF Only, Shape, Fields
  <1>5. r.made = s.made /\ r.again = s.again
    BY <1>1 DEF Only, Fields
  <1> HIDE DEF t
  <1> QED
    BY <1>1, <1>2, <1>4, <1>5 DEF t, v

-----------------------------------------------------------------------------
(* The reader *)

Word == 0..NULL

DataOK == NULL \in Nat /\ data \in Seq(Word) /\ Len(data) < NULL

\* n words from p on are within the data.
Within(p, n) == p >= 0 /\ p + n <= Len(data)

Words(p, n) == SubSeq(data, p + 1, p + n)

\* What a stream answers to which these words have been written.
Stream(written, p, n) ==
    [i \in 1..n |-> IF p + i - 1 \in DOMAIN written THEN written[p + i - 1] ELSE data[p + i]]

WrittenOK(written) == \A x \in DOMAIN written : written[x] \in Word

ReaderOK(s) ==
    /\ Shape(s)
    /\ s.cursor \in Word
    /\ s.buffered \in BOOLEAN
    /\ WrittenOK(s.written)

Moved == {"cursor", "out", "val"}

\* What a stream answers are words, as many as were asked for.
LEMMA StreamTyped ==
    ASSUME DataOK, NEW written, WrittenOK(written), NEW n \in Nat, NEW p \in Nat, n = 0 \/ p + n <= Len(data)
    PROVE  Stream(written, p, n) \in Seq(Word) /\ Len(Stream(written, p, n)) = n
  <1> DEFINE S(i) == IF p + i - 1 \in DOMAIN written THEN written[p + i - 1] ELSE data[p + i]
  <1>1. ASSUME NEW i \in 1..n
        PROVE  S(i) \in Word
    <2>1. p + i \in 1..Len(data)
      BY DEF DataOK
    <2>2. data[p + i] \in Word
      BY <2>1 DEF DataOK
    <2> QED
      BY <2>2 DEF WrittenOK
  <1> HIDE DEF S
  <1>2. [i \in 1..n |-> S(i)] \in Seq(Word) /\ Len([i \in 1..n |-> S(i)]) = n
    BY <1>1
  <1> QED
    BY <1>2 DEF Stream, S

\* Nothing written, the stream has the bytes of the buffer.
LEMMA StreamIsBuffer ==
    ASSUME DataOK, NEW n \in Nat, NEW p \in Nat, n = 0 \/ p + n <= Len(data)
    PROVE  Stream(Empty, p, n) = Words(p, n)
  <1>1. DOMAIN Empty = {}
    BY DEF Empty
  <1>2. Stream(Empty, p, n) = [i \in 1..n |-> data[p + i]]
    BY <1>1, Zenon DEF Stream
  <1>3. Words(p, n) \in Seq(Word) /\ Len(Words(p, n)) = n
        /\ \A i \in 1..n : Words(p, n)[i] = data[p + i]
    <2>1. CASE n = 0
      <3>1. p + n < p + 1
        BY <2>1
      <3> QED
        BY <2>1, <3>1 DEF Words, DataOK
    <2>2. CASE n # 0
      BY <2>2 DEF Words, DataOK
    <2> QED
      BY <2>1, <2>2
  <1> HIDE DEF Words
  <1>4. Words(p, n) = [i \in 1..n |-> Words(p, n)[i]]
    BY <1>3
  <1>5. Words(p, n) = [i \in 1..n |-> data[p + i]]
    BY <1>3, <1>4
  <1> QED
    BY <1>2, <1>5

LEMMA WordsTyped ==
    ASSUME DataOK, NEW n \in Nat, NEW p \in Int, Within(p, n)
    PROVE  /\ Words(p, n) \in Seq(Word) /\ Len(Words(p, n)) = n
           /\ \A i \in 1..n : Words(p, n)[i] = data[p + i] /\ data[p + i] \in Word
  BY DEF DataOK, Within, Words

LEMMA ReadExactIs ==
    ASSUME DataOK, NEW s, ReaderOK(s), s.out = "ok", NEW n \in Int
    PROVE  LET t == ReadExact(s, n) IN
           /\ Only(s, t, Moved)
           /\ IF n >= 0 /\ (n = 0 \/ s.cursor + n <= Len(data))
              THEN t.out = "ok" /\ t.cursor = s.cursor + n /\ t.val = Stream(s.written, s.cursor, n)
              ELSE t.out = "read" /\ t.cursor \in Word /\ t.val = <<>>
  <1>0. s.cursor \in 0..NULL /\ NULL \in Nat /\ Len(data) \in Nat /\ Len(data) < NULL
    BY DEF ReaderOK, DataOK, Word
  <1>1. CASE n < 0
    <2>1. ReadExact(s, n) = Fail(s, "read")
      BY <1>1 DEF ReadExact
    <2> QED
      BY <1>0, <1>1, <2>1, FailIs DEF ReaderOK, Only, Fields, Moved, Word
  <1>2. CASE n >= 0 /\ n > Available(s)
    <2> DEFINE r == [s EXCEPT !.cursor = @ + Available(s)]
    <2>1. ReadExact(s, n) = Fail(r, "read")
      BY <1>2 DEF ReadExact
    <2>2. Only(s, r, {"cursor"}) /\ r.cursor = s.cursor + Available(s)
      BY DEF ReaderOK, Shape, Only, Fields
    <2> HIDE DEF r
    <2>3. Only(s, Fail(r, "read"), Moved) /\ Fail(r, "read").out = "read"
          /\ Fail(r, "read").cursor = r.cursor /\ Fail(r, "read").val = <<>>
      BY <2>2, FailIs DEF Only, Fields, Moved
    <2>4. s.cursor + Available(s) \in Word /\ n # 0 /\ ~(s.cursor + n <= Len(data))
      BY <1>0, <1>2 DEF Available, Word
    <2> QED
      BY <2>1, <2>2, <2>3, <2>4 DEF r
  <1>3. CASE n >= 0 /\ ~(n > Available(s))
    <2> DEFINE t == [s EXCEPT !.cursor = @ + n, !.val = StreamWords(s, n)]
    <2>1. ReadExact(s, n) = t
      BY <1>3 DEF ReadExact
    <2>2. Only(s, t, Moved) /\ t.cursor = s.cursor + n /\ t.val = StreamWords(s, n) /\ t.out = s.out
      BY DEF ReaderOK, Shape, Only, Fields, Moved
    <2>3. n = 0 \/ s.cursor + n <= Len(data)
      BY <1>0, <1>3 DEF Available
    <2>4. StreamWords(s, n) = Stream(s.written, s.cursor, n)
      <3>1. ASSUME NEW i \in 1..n
            PROVE  s.cursor + i - 1 + 1 = s.cursor + i
        BY <1>0
      <3> QED
        BY <3>1 DEF StreamWords, Stream
    <2> QED
      BY <1>3, <2>1, <2>2, <2>3, <2>4
  <1> QED
    BY <1>0, <1>1, <1>2, <1>3 DEF Available

LEMMA ReadAfterSeekIs ==
    ASSUME DataOK, NEW s, ReaderOK(s), s.out = "ok", NEW n \in Int, NEW p \in Int, p <= NULL
    PROVE  LET t == ReadAfterSeek(s, n, p) IN
           /\ Only(s, t, Moved)
           /\ IF n >= 0 /\ p >= 0 /\ (n = 0 \/ p + n <= Len(data))
              THEN t.out = "ok" /\ t.cursor = p + n /\ t.val = Stream(s.written, p, n)
              ELSE t.out = "read" /\ t.cursor \in Word /\ t.val = <<>>
  <1>1. CASE p < 0
    <2>1. Seek(s, p) = Fail(s, "read") /\ Fail(s, "read").out = "read" /\ Shape(s)
      BY <1>1, FailIs DEF Seek, ReaderOK
    <2>2. ReadAfterSeek(s, n, p) = Fail(s, "read")
      BY <2>1 DEF ReadAfterSeek, Then
    <2> QED
      BY <1>1, <2>1, <2>2, FailIs DEF ReaderOK, Only, Fields, Moved
  <1>2. CASE p >= 0
    <2> DEFINE r == [s EXCEPT !.cursor = p]
    <2>1. Seek(s, p) = r
      BY <1>2 DEF Seek
    <2>2. Only(s, r, {"cursor"}) /\ r.cursor = p /\ r.out = "ok" /\ r.written = s.written
      BY DEF ReaderOK, Shape, Only, Fields
    <2>3. ReaderOK(r)
      BY <1>2, <2>2 DEF ReaderOK, Only, Fields, Word, DataOK
    <2>4. ReadAfterSeek(s, n, p) = ReadExact(r, n)
      BY <2>1, <2>2 DEF ReadAfterSeek, Then
    <2> HIDE DEF r
    <2>5. /\ Only(r, ReadExact(r, n), Moved)
          /\ IF n >= 0 /\ (n = 0 \/ p + n <= Len(data))
             THEN /\ ReadExact(r, n).out = "ok" /\ ReadExact(r, n).cursor = p + n
                  /\ ReadExact(r, n).val = Stream(s.written, p, n)
             ELSE /\ ReadExact(r, n).out = "read" /\ ReadExact(r, n).cursor \in Word
                  /\ ReadExact(r, n).val = <<>>
      BY <2>2, <2>3, ReadExactIs
    <2>6. Only(s, ReadExact(r, n), Moved)
      BY <2>2, <2>5 DEF Only, Moved
    <2> QED
      BY <1>2, <2>4, <2>5, <2>6
  <1> QED
    BY <1>1, <1>2

LEMMA FromBufferIs ==
    ASSUME NEW s, Shape(s), s.out = "ok", NEW n \in Int, NEW p \in Int, DataOK
    PROVE  LET t == FromBuffer(s, n, p) IN
           /\ Only(s, t, {"out", "val"})
           /\ IF Within(p, n) THEN t.out = "ok" /\ t.val = Words(p, n)
              ELSE t.out = "read" /\ t.val = <<>>
  <1>1. CASE Within(p, n)
    <2>1. FromBuffer(s, n, p) = [s EXCEPT !.val = Words(p, n)]
      BY <1>1 DEF FromBuffer, Within, Words, DataOK
    <2>2. LET t == [s EXCEPT !.val = Words(p, n)]
          IN  Only(s, t, {"out", "val"}) /\ t.out = "ok" /\ t.val = Words(p, n)
      BY DEF Only, Shape, Fields
    <2> QED
      BY <1>1, <2>1, <2>2
  <1>2. CASE ~Within(p, n)
    <2>1. FromBuffer(s, n, p) = Fail(s, "read")
      BY <1>2 DEF FromBuffer, Within, DataOK
    <2> QED
      BY <1>2, <2>1, FailIs
  <1> QED
    BY <1>1, <1>2

-----------------------------------------------------------------------------
(* Types *)

Sorts ==
    {"none", "number", "string", "hash", "array", "type", "common", "bundle", "location", "custom"}

Vals == [is : Sorts, at : Seq(Int)]

Kinds == {"int", "long", "bool", "string", "hash", "bundle", "unsupported"}

\* What reading a record may change, and what decoding an object may.
Memory == {"cursor", "out", "val", "cache", "made", "again", "uses"}
Scratch == Memory \cup {"names", "kind", "type"}

CacheTyped(cache) ==
    \A o \in DOMAIN cache :
        o \in Word /\ cache[o] \in Vals /\ (cache[o].is = "array" => cache[o].at \in Seq(Word))

NamesTyped(names) == \A o \in DOMAIN names : names[o][1] \in Vals /\ names[o][2] \in Kinds

\* What a parse has in memory has the types it should have.
MemTyped(s) ==
    /\ ReaderOK(s)
    /\ s.world \in World
    /\ s.native \in BOOLEAN
    /\ CacheTyped(s.cache)
    /\ NamesTyped(s.names)

\* A step from s to t within the reading of a record, or the decoding of an object.
StepTyped(s, t, errors) ==
    Only(s, t, Memory) /\ MemTyped(t) /\ s.uses \subseteq t.uses /\ t.out \in {"ok"} \cup errors
PartTyped(s, t, errors) ==
    Only(s, t, Scratch) /\ MemTyped(t) /\ s.uses \subseteq t.uses /\ t.out \in {"ok"} \cup errors

LEMMA StepTypedTransitive ==
    ASSUME NEW r, NEW s, NEW t, NEW A, NEW B, StepTyped(r, s, A), StepTyped(s, t, B)
    PROVE  StepTyped(r, t, A \cup B)
  BY DEF StepTyped, Only

LEMMA PartTypedTransitive ==
    ASSUME NEW r, NEW s, NEW t, NEW A, NEW B, PartTyped(r, s, A), PartTyped(s, t, B)
    PROVE  PartTyped(r, t, A \cup B)
  BY DEF PartTyped, Only

LEMMA StepIsPart ==
    ASSUME NEW s, NEW t, NEW A, NEW B, StepTyped(s, t, A), A \subseteq B
    PROVE  PartTyped(s, t, B)
  BY DEF StepTyped, PartTyped, Only, Scratch

LEMMA PartTypedMore ==
    ASSUME NEW s, NEW t, NEW A, NEW B, PartTyped(s, t, A), A \subseteq B
    PROVE  PartTyped(s, t, B)
  BY DEF PartTyped

LEMMA StepTypedMore ==
    ASSUME NEW s, NEW t, NEW A, NEW B, StepTyped(s, t, A), A \subseteq B
    PROVE  StepTyped(s, t, B)
  BY DEF StepTyped

LEMMA FailTyped ==
    ASSUME NEW s, MemTyped(s), NEW error
    PROVE  StepTyped(s, Fail(s, error), {error}) /\ Fail(s, error).out = error
  BY FailIs DEF MemTyped, ReaderOK, StepTyped, Only, Fields, Memory

LEMMA GiveTyped ==
    ASSUME NEW s, MemTyped(s), s.out = "ok", NEW v
    PROVE  StepTyped(s, Give(s, v), {}) /\ Give(s, v).out = "ok" /\ Give(s, v).val = v
  BY GiveIs DEF MemTyped, ReaderOK, StepTyped, Only, Fields, Memory

\* Texts read after something else.
Texts(s, words) == IF s.out = "ok" THEN ReadTexts(s, words) ELSE s

LEMMA TextsAre ==
    ASSUME NEW s, Shape(s), NEW words
    PROVE  LET t == Texts(s, words) IN
           /\ Only(s, t, {"out", "val"})
           /\ t.out = "ok" => s.out = "ok" /\ t = s
           /\ t.out \in {s.out, "text"}
  BY FailIs, OnlyNone DEF Texts, ReadTexts

LEMMA TextsTyped ==
    ASSUME NEW r, NEW s, NEW errors, StepTyped(r, s, errors), "text" \in errors, NEW words
    PROVE  LET t == Texts(s, words) IN
           /\ StepTyped(r, t, errors)
           /\ t.out = "ok" => s.out = "ok" /\ t = s
  <1>1. CASE Texts(s, words) = s
    BY <1>1 DEF Texts
  <1>2. CASE Texts(s, words) = Fail(s, "text")
    <2>1. StepTyped(s, Fail(s, "text"), {"text"}) /\ Fail(s, "text").out = "text"
      BY FailTyped DEF StepTyped
    <2>2. StepTyped(r, Fail(s, "text"), errors \cup {"text"})
      BY <2>1, StepTypedTransitive
    <2> QED
      BY <1>2, <2>1, <2>2, StepTypedMore
  <1> QED
    BY <1>1, <1>2 DEF Texts, ReadTexts

LEMMA UseTyped ==
    ASSUME NEW s, MemTyped(s), s.out = "ok", NEW kind, NEW o
    PROVE  LET t == Use(s, kind, o) IN
           /\ StepTyped(s, t, {}) /\ t.out = "ok"
           /\ t.cache = s.cache /\ t.val = s.val /\ t.native = s.native
  BY UseIs DEF MemTyped, ReaderOK, StepTyped, Only, Fields, Memory

LEMMA PlusTyped ==
    ASSUME NEW cache, CacheTyped(cache), NEW o \in Word,
           NEW v \in Vals, v.is = "array" => v.at \in Seq(Word)
    PROVE  CacheTyped(Plus(cache, o, v))
  BY DEF CacheTyped, Plus

LEMMA RememberTyped ==
    ASSUME NEW s, MemTyped(s), s.out = "ok", NEW o \in Word,
           NEW v \in Vals, v.is = "array" => v.at \in Seq(Word)
    PROVE  StepTyped(s, Remember(s, o, v), {}) /\ Remember(s, o, v).out = "ok"
  <1> DEFINE t == Remember(s, o, v)
  <1>1. /\ Only(s, t, {"cache"})
        /\ t.cache = IF s.world = "plain" THEN s.cache ELSE Plus(s.cache, o, v)
    BY RememberIs DEF MemTyped, ReaderOK
  <1>2. CacheTyped(t.cache)
    BY <1>1, PlusTyped DEF MemTyped
  <1> QED
    BY <1>1, <1>2 DEF MemTyped, ReaderOK, StepTyped, Only, Fields, Memory

LEMMA MakeTyped ==
    ASSUME NEW s, MemTyped(s), s.out = "ok", NEW o \in Word, NEW fields,
           NEW is \in {"type", "common", "bundle", "location"}
    PROVE  LET t == Make(s, is, o, fields) IN
           StepTyped(s, t, {}) /\ t.out = "ok" /\ t.val = Value(is, <<o>>) /\ t.val \in Vals
  <1> DEFINE t == Make(s, is, o, fields)
             v == Value(is, <<o>>)
  <1>1. /\ Only(s, t, {"cache", "made", "again", "val"})
        /\ t.cache = IF s.world = "plain" THEN s.cache ELSE Plus(s.cache, o, v)
        /\ t.val = v
    BY MakeIs DEF MemTyped, ReaderOK
  <1>2. v \in Vals /\ v.is # "array"
    <2>1. o \in Int
      BY DEF Word
    <2>2. <<o>> \in Seq(Int)
      BY <2>1
    <2>3. is \in Sorts /\ is # "array"
      BY DEF Sorts
    <2> QED
      BY <2>2, <2>3 DEF Vals, Value
  <1>3. CacheTyped(t.cache)
    BY <1>1, <1>2, PlusTyped DEF MemTyped
  <1> QED
    BY <1>1, <1>2, <1>3 DEF MemTyped, ReaderOK, StepTyped, Only, Fields, Memory

LEMMA AfterSeekTyped ==
    ASSUME DataOK, NEW s, MemTyped(s), s.out = "ok", NEW n \in Int, NEW p \in Int, p <= NULL
    PROVE  LET t == ReadAfterSeek(s, n, p) IN
           /\ StepTyped(s, t, {"read", "text"}) /\ Only(s, t, Moved)
           /\ t.out = "ok" => t.val \in Seq(Word) /\ Len(t.val) = n
  <1> DEFINE t == ReadAfterSeek(s, n, p)
  <1>1. /\ Only(s, t, Moved)
        /\ IF n >= 0 /\ p >= 0 /\ (n = 0 \/ p + n <= Len(data))
           THEN t.out = "ok" /\ t.cursor = p + n /\ t.val = Stream(s.written, p, n)
           ELSE t.out = "read" /\ t.cursor \in Word
    BY ReadAfterSeekIs DEF MemTyped
  <1>2. t.cursor \in Word
    BY <1>1 DEF DataOK, Word
  <1>3. t.out = "ok" => t.val \in Seq(Word) /\ Len(t.val) = n
    <2> HIDE DEF t
    <2>1. WrittenOK(s.written)
      BY DEF MemTyped, ReaderOK
    <2> SUFFICES ASSUME t.out = "ok"
                 PROVE  t.val \in Seq(Word) /\ Len(t.val) = n
      OBVIOUS
    <2>2. n \in Nat /\ p \in Nat /\ (n = 0 \/ p + n <= Len(data)) /\ t.val = Stream(s.written, p, n)
      BY <1>1
    <2> QED
      BY <2>1, <2>2, StreamTyped
  <1>4. ReaderOK(t)
    BY <1>1, <1>2 DEF MemTyped, ReaderOK, Only, Fields, Moved
  <1> QED
    BY <1>1, <1>3, <1>4 DEF MemTyped, StepTyped, Only, Fields, Memory, Moved

LEMMA FromBufferTyped ==
    ASSUME DataOK, NEW s, MemTyped(s), s.out = "ok", NEW n \in Nat, NEW p \in Int
    PROVE  LET t == FromBuffer(s, n, p) IN
           /\ StepTyped(s, t, {"read", "text"}) /\ Only(s, t, Moved)
           /\ t.out = "ok" => t.val \in Seq(Word) /\ Len(t.val) = n
  <1> DEFINE t == FromBuffer(s, n, p)
  <1>1. /\ Only(s, t, {"out", "val"})
        /\ IF Within(p, n) THEN t.out = "ok" /\ t.val = Words(p, n) ELSE t.out = "read"
    BY FromBufferIs DEF MemTyped, ReaderOK
  <1>2. t.out = "ok" => t.val \in Seq(Word) /\ Len(t.val) = n
    BY <1>1, WordsTyped
  <1> QED
    BY <1>1, <1>2 DEF MemTyped, ReaderOK, StepTyped, Only, Fields, Memory, Moved

LEMMA StructFromTyped ==
    ASSUME DataOK, NEW s, MemTyped(s), s.out = "ok", NEW n \in Nat, NEW p \in Int, p <= NULL
    PROVE  LET t == ReadStructFrom(s, n, p) IN
           /\ StepTyped(s, t, {"read", "text"}) /\ Only(s, t, Moved)
           /\ t.out = "ok" => t.val \in Seq(Word) /\ Len(t.val) = n
  BY AfterSeekTyped, FromBufferTyped DEF ReadStructFrom

\* What a reader answers with are words, as many as were asked for.
Answered(t, n) == t.out = "ok" => t.val \in Seq(Word) /\ Len(t.val) = n

LEMMA StructFromAnswers ==
    ASSUME DataOK, NEW s, MemTyped(s), s.out = "ok", NEW n \in Nat, NEW p \in Int, p <= NULL
    PROVE  LET t == ReadStructFrom(s, n, p) IN StepTyped(s, t, {"read", "text"}) /\ Answered(t, n)
  BY StructFromTyped DEF Answered

LEMMA FromBufferAnswers ==
    ASSUME DataOK, NEW s, MemTyped(s), s.out = "ok", NEW n \in Nat, NEW p \in Int
    PROVE  LET t == FromBuffer(s, n, p) IN StepTyped(s, t, {"read", "text"}) /\ Answered(t, n)
  BY FromBufferTyped DEF Answered

LEMMA WordsAreInts ==
    ASSUME DataOK, NEW a \in Seq(Word)
    PROVE  a \in Seq(Int) /\ \A i \in 1..Len(a) : a[i] \in Nat /\ a[i] \in Word
  <1>1. \A i \in 1..Len(a) : a[i] \in Word
    OBVIOUS
  <1>2. \A i \in 1..Len(a) : a[i] \in Int /\ a[i] \in Nat
    BY <1>1 DEF Word, DataOK
  <1>3. Len(a) \in Nat /\ a = [i \in 1..Len(a) |-> a[i]]
    OBVIOUS
  <1> QED
    BY <1>1, <1>2, <1>3

LEMMA OffsetArrayTyped ==
    ASSUME DataOK, NEW s, MemTyped(s), s.out = "ok", NEW o \in Word
    PROVE  LET t == ReadOffsetArray(s, o) IN
           /\ StepTyped(s, t, {"read", "text"})
           /\ t.out = "ok" => t.val \in Seq(Word)
  <1> DEFINE u == Use(s, "array", o)
             q == ReadStructFrom(u, 1, o - 1)
             size == q.val[1]
             a == ReadStructFrom(q, size \div 4, o)
             v == Value("array", a.val)
             r == Remember(a, o, v)
             k == IF o \in s.foreign THEN "list" ELSE "array"
             l == Use(u, k, o)
  <1>0. o \in Nat /\ o - 1 \in Int /\ o - 1 <= NULL /\ o <= NULL /\ NULL \in Nat
    BY DEF Word, DataOK
  <1>1. CASE o = NULL
    <2>1. ReadOffsetArray(s, o) = Give(s, <<>>)
      BY <1>1 DEF ReadOffsetArray
    <2>2. StepTyped(s, Give(s, <<>>), {}) /\ Give(s, <<>>).val = <<>>
      BY GiveTyped
    <2>3. <<>> \in Seq(Word)
      OBVIOUS
    <2>4. StepTyped(s, Give(s, <<>>), {"read", "text"})
      BY <2>2, StepTypedMore
    <2> QED
      BY <2>1, <2>2, <2>3, <2>4
  <1>u. StepTyped(s, u, {}) /\ u.out = "ok" /\ u.cache = s.cache /\ MemTyped(u) /\ u.native = s.native
    BY UseTyped DEF StepTyped
  <1>2. CASE o # NULL /\ CachedArray(s, o)
    <2>1. ReadOffsetArray(s, o) = Give(l, s.cache[o].at)
      BY <1>2 DEF ReadOffsetArray
    <2>2. s.cache[o].at \in Seq(Word)
      BY <1>2 DEF CachedArray, Cached, MemTyped, CacheTyped
    <2> HIDE DEF u, k
    <2>a. StepTyped(u, l, {}) /\ l.out = "ok" /\ MemTyped(l)
      BY <1>u, UseTyped DEF StepTyped
    <2> HIDE DEF l
    <2>3. /\ StepTyped(l, Give(l, s.cache[o].at), {})
          /\ Give(l, s.cache[o].at).val = s.cache[o].at
      BY <2>a, GiveTyped
    <2>4. StepTyped(s, Give(l, s.cache[o].at), {} \cup {} \cup {})
      BY <1>u, <2>a, <2>3, StepTypedTransitive
    <2> QED
      BY <2>1, <2>2, <2>3, <2>4, StepTypedMore
  <1>3. CASE o # NULL /\ ~CachedArray(s, o)
    <2>1. ReadOffsetArray(s, o)
            = IF q.out = "ok"
              THEN IF size = NULL \/ size % 4 # 0 THEN Fail(q, "read")
                   ELSE IF a.out = "ok" THEN IF a.native THEN a ELSE Give(r, a.val)
                   ELSE a
              ELSE q
      BY <1>3 DEF ReadOffsetArray, Then
    <2> HIDE DEF u
    <2>2. /\ StepTyped(u, q, {"read", "text"})
          /\ q.out = "ok" => q.val \in Seq(Word) /\ Len(q.val) = 1
      <3> DEFINE p == o - 1
      <3>1. p \in Int /\ p <= NULL /\ q = ReadStructFrom(u, 1, p)
        BY <1>0
      <3> HIDE DEF p, q
      <3>2. StepTyped(u, q, {"read", "text"}) /\ Answered(q, 1)
        BY <1>0, <1>u, <3>1, StructFromAnswers
      <3> QED
        BY <3>2 DEF Answered
    <2>3. StepTyped(s, q, {"read", "text"})
      BY <1>u, <2>2, StepTypedTransitive
    <2>4. MemTyped(q)
      BY <2>2 DEF StepTyped
    <2> HIDE DEF q
    <2>5. CASE q.out # "ok"
      BY <2>1, <2>3, <2>5
    <2>6. CASE q.out = "ok" /\ (size = NULL \/ size % 4 # 0)
      <3>1. StepTyped(q, Fail(q, "read"), {"read", "text"}) /\ Fail(q, "read").out = "read"
        BY <2>4, FailTyped, StepTypedMore
      <3> QED
        BY <2>1, <2>3, <2>6, <3>1, StepTypedTransitive
    <2>7. CASE q.out = "ok" /\ ~(size = NULL \/ size % 4 # 0)
      <3>1. size \in Nat
        BY <2>2, <2>7, WordsAreInts
      <3>2. size \div 4 \in Nat
        BY <3>1
      <3> HIDE DEF size
      <3>3. /\ StepTyped(q, a, {"read", "text"})
            /\ a.out = "ok" => a.val \in Seq(Word) /\ Len(a.val) = size \div 4
        BY <1>0, <2>4, <2>7, <3>2, StructFromTyped
      <3>4. StepTyped(s, a, {"read", "text"})
        BY <2>3, <3>3, StepTypedTransitive
      <3>5. MemTyped(a)
        BY <3>3 DEF StepTyped
      <3> HIDE DEF a
      <3>6. CASE ~(a.out = "ok" /\ ~a.native)
        BY <2>1, <2>7, <3>3, <3>4, <3>6
      <3>7. CASE a.out = "ok" /\ ~a.native
        <4>1. a.val \in Seq(Word) /\ a.val \in Seq(Int)
          BY <3>3, <3>7, WordsAreInts
        <4>2. v \in Vals /\ v.at = a.val
          BY <4>1 DEF Vals, Sorts, Value
        <4> HIDE DEF v
        <4>3. StepTyped(a, r, {}) /\ r.out = "ok"
          BY <3>5, <3>7, <4>1, <4>2, RememberTyped
        <4>4. MemTyped(r)
          BY <4>3 DEF StepTyped
        <4> HIDE DEF r
        <4>5. StepTyped(r, Give(r, a.val), {}) /\ Give(r, a.val).val = a.val
          BY <4>3, <4>4, GiveTyped
        <4>6. StepTyped(s, Give(r, a.val), {"read", "text"} \cup {} \cup {})
          BY <3>4, <4>3, <4>5, StepTypedTransitive
        <4> QED
          BY <2>1, <2>7, <3>7, <4>1, <4>5, <4>6, StepTypedMore
      <3> QED
        BY <3>6, <3>7
    <2> QED
      BY <2>5, <2>6, <2>7
  <1> QED
    BY <1>1, <1>2, <1>3

LEMMA PairTyped ==
    ASSUME DataOK, NEW s, MemTyped(s), s.out = "ok", NEW o \in Word, NEW is \in {"type", "common"}
    PROVE  LET t == ReadPair(s, is, o) IN
           /\ StepTyped(s, t, {"read", "text"})
           /\ t.out = "ok" => t.val \in Vals
  <1> DEFINE u == Use(s, is, o)
             a == ReadStructFrom(u, 2, o)
             q == Texts(a, IF is = "type" THEN a.val ELSE <<>>)
             t == Make(q, is, o, q.val)
  <1>0. o \in Nat /\ o <= NULL /\ NULL \in Nat
    BY DEF Word, DataOK
  <1>u. StepTyped(s, u, {}) /\ u.out = "ok" /\ MemTyped(u)
    BY UseTyped DEF StepTyped
  <1>1. ReadPair(s, is, o)
          = IF Cached(s, o) THEN Give(u, s.cache[o]) ELSE IF q.out = "ok" THEN t ELSE q
    BY DEF ReadPair, Then, Texts
  <1>2. CASE Cached(s, o)
    <2>1. s.cache[o] \in Vals
      BY <1>2 DEF Cached, MemTyped, CacheTyped
    <2> HIDE DEF u
    <2>2. StepTyped(u, Give(u, s.cache[o]), {}) /\ Give(u, s.cache[o]).val = s.cache[o]
      BY <1>u, GiveTyped
    <2>3. StepTyped(s, Give(u, s.cache[o]), {} \cup {})
      BY <1>u, <2>2, StepTypedTransitive
    <2> QED
      BY <1>1, <1>2, <2>1, <2>2, <2>3, StepTypedMore
  <1>3. CASE ~Cached(s, o)
    <2> HIDE DEF u
    <2>a. StepTyped(u, a, {"read", "text"})
      BY <1>0, <1>u, StructFromAnswers
    <2>1. StepTyped(u, q, {"read", "text"})
      BY <2>a, TextsTyped
    <2>2. StepTyped(s, q, {"read", "text"}) /\ MemTyped(q)
      BY <1>u, <2>1, StepTypedTransitive DEF StepTyped
    <2> HIDE DEF q
    <2>3. CASE q.out = "ok"
      <3>1. StepTyped(q, t, {}) /\ t.val \in Vals
        BY <2>2, <2>3, MakeTyped
      <3>2. StepTyped(s, t, {"read", "text"} \cup {})
        BY <2>2, <3>1, StepTypedTransitive
      <3> QED
        BY <1>1, <1>3, <2>3, <3>1, <3>2
    <2> QED
      BY <1>1, <1>3, <2>2, <2>3
  <1> QED
    BY <1>2, <1>3

LEMMA VersionTyped ==
    ASSUME NEW s, MemTyped(s), s.out = "ok"
    PROVE  LET t == SetVersion(s) IN
           /\ StepTyped(s, t, {"attribute"})
           /\ t.out = "ok" => t = s
  <1>1. StepTyped(s, s, {"attribute"})
    BY OnlyNone DEF StepTyped, MemTyped, ReaderOK
  <1> QED
    BY <1>1, FailTyped, StepTypedMore DEF SetVersion

LEMMA BundleTyped ==
    ASSUME DataOK, NEW s, MemTyped(s), s.out = "ok", NEW o \in Word
    PROVE  LET t == ReadBundle(s, o) IN
           /\ StepTyped(s, t, {"read", "text", "attribute"})
           /\ t.out = "ok" => t.val \in Vals
  <1> DEFINE u == Use(s, "bundle", o)
             q == ReadStructFrom(u, 5, o)
             h == ReadStructFrom(q, 4, q.val[1])
             c == ReadCommonInfo(h, q.val[5])
             v == SetVersion(c)
             b == Texts(v, <<q.val[2]>>)
             t == Make(b, "bundle", o, <<h.val, q.val, b.val>>)
  <1>0. o \in Nat /\ o <= NULL /\ NULL \in Nat
    BY DEF Word, DataOK
  <1>u. StepTyped(s, u, {}) /\ u.out = "ok" /\ MemTyped(u)
    BY UseTyped DEF StepTyped
  <1>1. ReadBundle(s, o)
          = IF Cached(s, o) THEN Give(u, s.cache[o])
            ELSE IF q.out # "ok" THEN q
            ELSE IF h.out # "ok" THEN h
            ELSE IF c.out # "ok" THEN c
            ELSE IF b.out # "ok" THEN b
            ELSE t
    BY DEF ReadBundle, Then, Texts
  <1>2. CASE Cached(s, o)
    <2>1. s.cache[o] \in Vals
      BY <1>2 DEF Cached, MemTyped, CacheTyped
    <2> HIDE DEF u
    <2>2. StepTyped(u, Give(u, s.cache[o]), {}) /\ Give(u, s.cache[o]).val = s.cache[o]
      BY <1>u, GiveTyped
    <2>3. StepTyped(s, Give(u, s.cache[o]), {} \cup {})
      BY <1>u, <2>2, StepTypedTransitive
    <2> QED
      BY <1>1, <1>2, <2>1, <2>2, <2>3, StepTypedMore
  <1>3. CASE ~Cached(s, o)
    <2> HIDE DEF u
    <2>1. /\ StepTyped(u, q, {"read", "text"})
          /\ q.out = "ok" => q.val \in Seq(Word) /\ Len(q.val) = 5
      <3>1. 5 \in Nat /\ o \in Int
        BY <1>0
      <3> HIDE DEF q
      <3>2. StepTyped(u, q, {"read", "text"}) /\ Answered(q, 5)
        BY <1>0, <1>u, <3>1, StructFromAnswers DEF q
      <3> QED
        BY <3>2 DEF Answered
    <2>2. StepTyped(s, q, {"read", "text"}) /\ MemTyped(q)
      BY <1>u, <2>1, StepTypedTransitive DEF StepTyped
    <2> HIDE DEF q
    <2>3. CASE q.out # "ok"
      BY <1>1, <1>3, <2>2, <2>3, StepTypedMore
    <2>4. CASE q.out = "ok"
      <3>1. /\ q.val[1] \in Word /\ q.val[1] \in Int /\ q.val[1] <= NULL
            /\ q.val[5] \in Word
        BY <2>1, <2>4, WordsAreInts DEF Word
      <3>2. StepTyped(q, h, {"read", "text"})
        BY <2>2, <2>4, <3>1, StructFromAnswers
      <3>a. StepTyped(s, h, {"read", "text"} \cup {"read", "text"}) /\ {"read", "text"} \cup {"read", "text"} = {"read", "text"}
        BY <2>2, <3>2, StepTypedTransitive
      <3>b. MemTyped(h)
        BY <3>2 DEF StepTyped
      <3>3. StepTyped(s, h, {"read", "text"}) /\ MemTyped(h)
        BY <3>a, <3>b
      <3> HIDE DEF h
      <3>4. CASE h.out # "ok"
        BY <1>1, <1>3, <2>4, <3>3, <3>4, StepTypedMore
      <3>5. CASE h.out = "ok"
        <4>1. StepTyped(h, c, {"read", "text"})
          BY <3>1, <3>3, <3>5, PairTyped DEF ReadCommonInfo
        <4>a. StepTyped(s, c, {"read", "text"} \cup {"read", "text"})
          BY <3>3, <4>1, StepTypedTransitive
        <4>b. MemTyped(c)
          BY <4>1 DEF StepTyped
        <4>2. StepTyped(s, c, {"read", "text"}) /\ MemTyped(c)
          BY <3>a, <4>a, <4>b
        <4> HIDE DEF c
        <4>3. CASE c.out # "ok"
          BY <1>1, <1>3, <2>4, <3>5, <4>2, <4>3, StepTypedMore
        <4>4. CASE c.out = "ok"
          <5>1. StepTyped(c, v, {"attribute"})
            BY <4>2, <4>4, VersionTyped
          <5>a. StepTyped(s, v, {"read", "text"} \cup {"attribute"})
            BY <4>2, <5>1, StepTypedTransitive
          <5> HIDE DEF v
          <5>b. "text" \in {"read", "text"} \cup {"attribute"}
            OBVIOUS
          <5>c. StepTyped(s, b, {"read", "text"} \cup {"attribute"})
            BY <5>a, <5>b, TextsTyped
          <5>2. StepTyped(s, b, {"read", "text"} \cup {"attribute"}) /\ MemTyped(b)
            BY <5>c DEF StepTyped
          <5> HIDE DEF b
          <5>3. CASE b.out # "ok"
            BY <1>1, <1>3, <2>4, <3>5, <4>4, <5>2, <5>3, StepTypedMore
          <5>4. CASE b.out = "ok"
            <6>1. StepTyped(b, t, {}) /\ t.val \in Vals
              BY <5>2, <5>4, MakeTyped
            <6>2. StepTyped(s, t, ({"read", "text"} \cup {"attribute"}) \cup {})
              BY <5>2, <6>1, StepTypedTransitive
            <6> QED
              BY <1>1, <1>3, <2>4, <3>5, <4>4, <5>4, <6>1, <6>2, StepTypedMore
          <5> QED
            BY <5>3, <5>4
        <4> QED
          BY <4>3, <4>4
      <3> QED
        BY <3>4, <3>5
    <2> QED
      BY <2>3, <2>4
  <1> QED
    BY <1>2, <1>3

LEMMA KindTyped ==
    ASSUME NEW version, NEW assembly, NEW class
    PROVE  KindOf(version, assembly, class) \in Kinds \cup {"value"}
  <1>1. DOMAIN ClassKind = 1..6
    BY DEF ClassKind
  <1>2. \A i \in 1..6 : ClassKind[i] \in Kinds
    BY DEF ClassKind, Kinds
  <1>3. "unsupported" \in Kinds
    BY DEF Kinds
  <1> HIDE DEF ClassKind, Kinds
  <1> QED
    BY <1>1, <1>2, <1>3 DEF KindOf

LEMMA MatchNameTyped ==
    ASSUME DataOK, NEW s, MemTyped(s), s.out = "ok", s.val \in Vals, NEW o
    PROVE  LET t == MatchName(s, o) IN
           /\ PartTyped(s, t, {"attribute", "value"})
           /\ t.out = "ok" => t.type \in Vals /\ t.kind \in Kinds
  <1> DEFINE p == s.val.at[1]
             kind == KindOf(s.version, data[p + 1], data[p + 2])
             names == IF s.world = "plain" THEN s.names ELSE Plus(s.names, o, <<s.val, kind>>)
             t == [s EXCEPT !.type = s.val, !.kind = kind, !.names = names]
  <1>1. MatchName(s, o)
          = IF s.val.is # "type" THEN Fail(s, "attribute")
            ELSE IF kind = "value" THEN Fail(s, "value") ELSE t
    BY DEF MatchName, Plus
  <1>2. CASE s.val.is # "type" \/ kind = "value"
    <2>1. /\ StepTyped(s, Fail(s, "attribute"), {"attribute"}) /\ Fail(s, "attribute").out = "attribute"
          /\ StepTyped(s, Fail(s, "value"), {"value"}) /\ Fail(s, "value").out = "value"
      BY FailTyped
    <2>2. /\ PartTyped(s, Fail(s, "attribute"), {"attribute", "value"})
          /\ PartTyped(s, Fail(s, "value"), {"attribute", "value"})
      BY <2>1, StepIsPart
    <2> HIDE DEF kind, t
    <2> QED
      BY <1>1, <1>2, <2>1, <2>2
  <1>3. CASE ~(s.val.is # "type" \/ kind = "value")
    <2>1. kind \in Kinds
      BY <1>3, KindTyped
    <2> HIDE DEF kind
    <2>2. NamesTyped(names)
      BY <2>1 DEF NamesTyped, MemTyped, Plus
    <2> HIDE DEF names
    <2>3. /\ Only(s, t, {"type", "kind", "names"})
          /\ t.type = s.val /\ t.kind = kind /\ t.names = names
      BY DEF MemTyped, ReaderOK, Only, Shape, Fields
    <2>4. t.out = "ok" /\ PartTyped(s, t, {"attribute", "value"})
      BY <2>2, <2>3 DEF MemTyped, ReaderOK, PartTyped, Only, Fields, Scratch
    <2> HIDE DEF t
    <2> QED
      BY <1>1, <1>3, <2>1, <2>3, <2>4
  <1> QED
    BY <1>2, <1>3

LEMMA TypeNameTyped ==
    ASSUME DataOK, NEW s, MemTyped(s), s.out = "ok", NEW o \in Word
    PROVE  LET t == ReadTypeName(s, o) IN
           /\ PartTyped(s, t, {"read", "text", "attribute", "value"})
           /\ t.out = "ok" => t.type \in Vals /\ t.kind \in Kinds
  <1> DEFINE q == ReadSerializedType(s, o)
             m == MatchName(q, o)
             n == [q EXCEPT !.type = q.val, !.kind = q.names[o][2]]
             k == [s EXCEPT !.type = s.names[o][1], !.kind = s.names[o][2]]
  <1>1. ReadTypeName(s, o)
          = IF o \notin DOMAIN s.names THEN IF q.out = "ok" THEN m ELSE q
            ELSE IF s.native /\ s.world # "bridge" THEN IF q.out = "ok" THEN n ELSE q
            ELSE k
    BY DEF ReadTypeName, Then
  <1>2. /\ StepTyped(s, q, {"read", "text"}) /\ (q.out = "ok" => q.val \in Vals) /\ MemTyped(q)
        /\ PartTyped(s, q, {"read", "text"})
    BY PairTyped, StepIsPart DEF ReadSerializedType, StepTyped

  <1> HIDE DEF q
  <1>4. CASE o \notin DOMAIN s.names
    <2>1. CASE q.out = "ok"
      <3>1. /\ PartTyped(q, m, {"attribute", "value"})
            /\ m.out = "ok" => m.type \in Vals /\ m.kind \in Kinds
        BY <1>2, <2>1, MatchNameTyped
      <3>2. PartTyped(s, m, {"read", "text"} \cup {"attribute", "value"})
        BY <1>2, <3>1, PartTypedTransitive
      <3> QED
        BY <1>1, <1>4, <2>1, <3>1, <3>2, PartTypedMore
    <2>2. CASE q.out # "ok"
      BY <1>1, <1>2, <1>4, <2>2, PartTypedMore
    <2> QED
      BY <2>1, <2>2
  <1>5. CASE o \in DOMAIN s.names /\ s.native /\ s.world # "bridge"
    <2>1. CASE q.out = "ok"
      <3>1. q.names = s.names
        BY <1>2 DEF StepTyped, Only, Memory, Fields
      <3>2. q.names[o][2] \in Kinds
        BY <1>5, <3>1 DEF MemTyped, NamesTyped
      <3>3. /\ Only(q, n, {"type", "kind"}) /\ n.type = q.val /\ n.kind = q.names[o][2]
        BY <1>2 DEF MemTyped, ReaderOK, Only, Shape, Fields
      <3>4. PartTyped(q, n, {}) /\ n.out = "ok"
        BY <1>2, <2>1, <3>3 DEF MemTyped, ReaderOK, PartTyped, Only, Fields, Scratch
      <3>5. PartTyped(s, n, {"read", "text"} \cup {})
        BY <1>2, <3>4, PartTypedTransitive
      <3> QED
        BY <1>1, <1>2, <1>5, <2>1, <3>2, <3>3, <3>5, PartTypedMore
    <2>2. CASE q.out # "ok"
      BY <1>1, <1>2, <1>5, <2>2, PartTypedMore
    <2> QED
      BY <2>1, <2>2
  <1>6. CASE o \in DOMAIN s.names /\ ~(s.native /\ s.world # "bridge")
    <2>1. /\ Only(s, k, {"type", "kind"}) /\ k.type = s.names[o][1] /\ k.kind = s.names[o][2]
      BY DEF MemTyped, ReaderOK, Only, Shape, Fields
    <2>2. s.names[o][1] \in Vals /\ s.names[o][2] \in Kinds
      BY <1>6 DEF MemTyped, NamesTyped
    <2>3. PartTyped(s, k, {}) /\ k.out = "ok"
      BY <2>1 DEF MemTyped, ReaderOK, PartTyped, Only, Fields, Scratch
    <2> QED
      BY <1>1, <1>6, <2>1, <2>2, <2>3, PartTypedMore
  <1> QED
    BY <1>4, <1>5, <1>6

LEMMA ScalarTyped ==
    ASSUME DataOK, NEW s, MemTyped(s), s.out = "ok", NEW n \in Nat, NEW p \in Word
    PROVE  LET t == ReadScalar(s, n, p) IN
           /\ StepTyped(s, t, {"read", "text"}) /\ Only(s, t, Moved)
           /\ t.out = "ok" => t.val \in Seq(Word) /\ Len(t.val) = n
  <1>1. p \in Int /\ p <= NULL
    BY DEF Word, DataOK
  <1> QED
    BY <1>1, AfterSeekTyped, FromBufferTyped DEF ReadScalar

LEMMA ScalarValueTyped ==
    ASSUME DataOK, NEW kind \in {"int", "long", "bool", "hash"}, NEW words \in Seq(Word),
           Len(words) = ScalarSize[kind]
    PROVE  ScalarValue(kind, words) \in Vals
  <1>0. words \in Seq(Int) /\ \A i \in 1..Len(words) : words[i] \in Int
    BY WordsAreInts
  <1>1. {"number", "hash"} \subseteq Sorts
    BY DEF Sorts
  <1>2. \A x \in Int : <<x>> \in Seq(Int)
    OBVIOUS
  <1>3. CASE kind = "int"
    <2>1. words[1] \in Int
      BY <1>0, <1>3 DEF ScalarSize
    <2>2. ScalarValue(kind, words) = Value("number", <<IF words[1] = NULL THEN -1 ELSE words[1]>>)
      BY <1>3 DEF ScalarValue
    <2> QED
      BY <1>1, <1>2, <2>1, <2>2 DEF Vals, Value
  <1>4. CASE kind = "long"
    <2>1. words[1] \in Int
      BY <1>0, <1>4 DEF ScalarSize
    <2>2. ScalarValue(kind, words) = Value("number", IF words[2] = 0 THEN <<words[1]>> ELSE words)
      BY <1>4 DEF ScalarValue
    <2> QED
      BY <1>0, <1>1, <1>2, <2>1, <2>2 DEF Vals, Value
  <1>5. CASE kind = "bool"
    <2>1. ScalarValue(kind, words) = Value("number", <<IF words[1] = 0 THEN 0 ELSE 1>>)
      BY <1>5 DEF ScalarValue
    <2> QED
      BY <1>1, <1>2, <2>1 DEF Vals, Value
  <1>6. CASE kind = "hash"
    <2>1. ScalarValue(kind, words) = Value("hash", words)
      BY <1>6 DEF ScalarValue
    <2> QED
      BY <1>0, <1>1, <2>1 DEF Vals, Value
  <1> QED
    BY <1>3, <1>4, <1>5, <1>6

LEMMA NoneTyped == None \in Vals /\ (\A k \in Kinds : DefaultValue(k) \in Vals)
  <1>1. <<>> \in Seq(Int) /\ <<0>> \in Seq(Int) /\ {"none", "number"} \subseteq Sorts
    BY DEF Sorts
  <1>2. None \in Vals /\ Value("number", <<0>>) \in Vals
    BY <1>1 DEF Vals, Value, None
  <1> QED
    BY <1>2 DEF DefaultValue

Errors == {"read", "text", "attribute", "value", "unsupported"}

LEMMA PayloadTyped ==
    ASSUME DataOK, NEW s, MemTyped(s), s.out = "ok", s.kind \in Kinds, NEW p \in Word
    PROVE  LET t == ReadPayload(s, p) IN
           /\ StepTyped(s, t, Errors)
           /\ t.out = "ok" => t.val \in Vals
  <1> USE DEF Errors
  <1>0. p \in Int /\ p <= NULL /\ 2 \in Nat
    BY DEF Word, DataOK
  <1>1. CASE s.kind = "unsupported"
    <2>1. ReadPayload(s, p) = Fail(s, "unsupported")
      BY <1>1 DEF ReadPayload
    <2>2. StepTyped(s, Fail(s, "unsupported"), {"unsupported"}) /\ Fail(s, "unsupported").out = "unsupported"
      BY FailTyped
    <2> QED
      BY <2>1, <2>2, StepTypedMore
  <1>2. CASE s.kind # "unsupported" /\ p = NULL
    <2>1. ReadPayload(s, p) = Give(s, DefaultValue(s.kind))
      BY <1>2 DEF ReadPayload
    <2>2. StepTyped(s, Give(s, DefaultValue(s.kind)), {})
          /\ Give(s, DefaultValue(s.kind)).val = DefaultValue(s.kind)
      BY GiveTyped
    <2> QED
      BY <2>1, <2>2, NoneTyped, StepTypedMore
  <1>3. CASE s.kind = "bundle" /\ p # NULL
    <2>1. ReadPayload(s, p) = ReadBundle(s, p)
      BY <1>3 DEF ReadPayload
    <2> QED
      BY <2>1, BundleTyped, StepTypedMore
  <1>4. CASE s.kind = "string" /\ p # NULL
    <2> DEFINE a == ReadStructFrom(s, 2, p)
               q == Texts(a, <<a.val[1]>>)
               v == IF q.val[1] \in NoText THEN None ELSE Value("string", <<q.val[1]>>)
    <2>1. ReadPayload(s, p) = IF q.out = "ok" THEN Give(q, v) ELSE q
      BY <1>4 DEF ReadPayload, Then, Texts
    <2>2. /\ StepTyped(s, q, {"read", "text"}) /\ MemTyped(q)
          /\ q.out = "ok" => q.val \in Seq(Word) /\ Len(q.val) = 2
      <3>1. /\ StepTyped(s, a, {"read", "text"})
            /\ a.out = "ok" => a.val \in Seq(Word) /\ Len(a.val) = 2
        BY <1>0, StructFromTyped
      <3> HIDE DEF a
      <3>2. "text" \in {"read", "text"}
        OBVIOUS
      <3>3. StepTyped(s, q, {"read", "text"}) /\ (q.out = "ok" => a.out = "ok" /\ q = a)
        BY <3>1, <3>2, TextsTyped
      <3> HIDE DEF q
      <3> QED
        BY <3>1, <3>3 DEF StepTyped
    <2> HIDE DEF q
    <2>4. CASE q.out = "ok"
      <3>1. q.val[1] \in Int
        BY <2>2, <2>4, WordsAreInts
      <3>2. <<q.val[1]>> \in Seq(Int) /\ "string" \in Sorts
        BY <3>1 DEF Sorts
      <3>3. v \in Vals
        BY <3>2, NoneTyped DEF Vals, Value
      <3> HIDE DEF v
      <3>4. StepTyped(q, Give(q, v), {}) /\ Give(q, v).val = v
        BY <2>2, <2>4, GiveTyped
      <3>6. StepTyped(s, Give(q, v), {"read", "text"} \cup {})
        BY <2>2, <3>4, StepTypedTransitive
      <3> QED
        BY <2>1, <2>4, <3>3, <3>4, <3>6, StepTypedMore
    <2>5. CASE q.out # "ok"
      BY <2>1, <2>2, <2>5, StepTypedMore
    <2> QED
      BY <2>4, <2>5
  <1>5. CASE s.kind \in {"int", "long", "bool", "hash"} /\ p # NULL
    <2> DEFINE n == ScalarSize[s.kind]
               q == ReadScalar(s, n, p)
               v == ScalarValue(q.kind, q.val)
    <2>1. ReadPayload(s, p) = IF q.out = "ok" THEN Give(q, v) ELSE q
      BY <1>5 DEF ReadPayload, Then
    <2>2. n \in Nat
      BY <1>5 DEF ScalarSize
    <2>3. /\ StepTyped(s, q, {"read", "text"}) /\ Only(s, q, Moved) /\ MemTyped(q)
          /\ q.out = "ok" => q.val \in Seq(Word) /\ Len(q.val) = n
      <3> HIDE DEF n
      <3> QED
        BY <2>2, ScalarTyped DEF StepTyped
    <2>4. q.kind = s.kind
      BY <2>3 DEF Only, Moved, Fields
    <2> HIDE DEF q
    <2>5. CASE q.out = "ok"
      <3>1. v \in Vals
        BY <1>5, <2>3, <2>4, <2>5, ScalarValueTyped
      <3> HIDE DEF v
      <3>2. StepTyped(q, Give(q, v), {}) /\ Give(q, v).val = v
        BY <2>3, <2>5, GiveTyped
      <3>4. StepTyped(s, Give(q, v), {"read", "text"} \cup {})
        BY <2>3, <3>2, StepTypedTransitive
      <3> QED
        BY <2>1, <2>5, <3>1, <3>2, <3>4, StepTypedMore
    <2>6. CASE q.out # "ok"
      BY <2>1, <2>3, <2>4, <2>6, StepTypedMore
    <2> QED
      BY <2>5, <2>6
  <1> QED
    BY <1>1, <1>2, <1>3, <1>4, <1>5 DEF Kinds

LEMMA ObjectTyped ==
    ASSUME DataOK, NEW s, MemTyped(s), s.out = "ok", NEW o \in Word
    PROVE  LET t == DecodeObject(s, o) IN
           /\ PartTyped(s, t, Errors)
           /\ t.out = "ok" => t.val \in Vals /\ t.type \in Vals
  <1> DEFINE n == [s EXCEPT !.val = None, !.type = None]
             q == ReadStructFrom(s, 2, o)
             t == ReadTypeName(q, q.val[1])
             p == ReadPayload(t, q.val[2])
  <1>0. o \in Int /\ o <= NULL /\ 2 \in Nat
    BY DEF Word, DataOK
  <1>1. DecodeObject(s, o)
          = IF o = NULL THEN n ELSE IF q.out # "ok" THEN q ELSE IF t.out # "ok" THEN t ELSE p
    BY DEF DecodeObject, Then
  <1>2. CASE o = NULL
    <2>1. Only(s, n, {"val", "type"}) /\ n.val = None /\ n.type = None
      BY DEF MemTyped, ReaderOK, Only, Shape, Fields
    <2> HIDE DEF n
    <2>2. PartTyped(s, n, Errors)
      BY <2>1 DEF MemTyped, ReaderOK, PartTyped, Only, Fields, Scratch, Memory
    <2> QED
      BY <1>1, <1>2, <2>1, <2>2, NoneTyped
  <1>3. CASE o # NULL
    <2>1. /\ PartTyped(s, q, {"read", "text"}) /\ MemTyped(q)
          /\ q.out = "ok" => q.val \in Seq(Word) /\ Len(q.val) = 2
      BY <1>0, StructFromTyped, StepIsPart DEF StepTyped
    <2> HIDE DEF q
    <2>2. CASE q.out # "ok"
      <3>1. PartTyped(s, q, Errors)
        BY <2>1, PartTypedMore DEF Errors
      <3> QED
        BY <1>1, <1>3, <2>2, <3>1
    <2>3. CASE q.out = "ok"
      <3>1. q.val[1] \in Word /\ q.val[2] \in Word
        BY <2>1, <2>3, WordsAreInts
      <3>2. /\ PartTyped(q, t, {"read", "text", "attribute", "value"}) /\ MemTyped(t)
            /\ t.out = "ok" => t.type \in Vals /\ t.kind \in Kinds
        BY <2>1, <2>3, <3>1, TypeNameTyped DEF PartTyped
      <3>3. PartTyped(s, t, {"read", "text"} \cup {"read", "text", "attribute", "value"})
        BY <2>1, <3>2, PartTypedTransitive
      <3>4. PartTyped(s, t, Errors)
        BY <3>3, PartTypedMore DEF Errors
      <3> HIDE DEF t
      <3>5. CASE t.out # "ok"
        BY <1>1, <1>3, <2>3, <3>4, <3>5
      <3>6. CASE t.out = "ok"
        <4>1. /\ StepTyped(t, p, Errors)
              /\ p.out = "ok" => p.val \in Vals
          BY <3>1, <3>2, <3>6, PayloadTyped
        <4>2. p.type = t.type /\ PartTyped(t, p, Errors)
          BY <4>1, StepIsPart DEF StepTyped, Only, Memory, Fields
        <4>3. PartTyped(s, p, Errors \cup Errors)
          BY <3>4, <4>2, PartTypedTransitive
        <4> HIDE DEF p
        <4> QED
          BY <1>1, <1>3, <2>3, <3>2, <3>6, <4>1, <4>2, <4>3, PartTypedMore
      <3> QED
        BY <3>5, <3>6
    <2> QED
      BY <2>2, <2>3
  <1> QED
    BY <1>2, <1>3

-----------------------------------------------------------------------------
(* The whole state of a parse *)

EntryFrames == [at : {-1}, what : Vals, left : Seq(Word), got : Seq(Vals)]

Records == {r \in Seq(Word) : Len(r) = 7}

LocationFrames == [at : Word, what : Records, left : Seq(Word), got : Seq(Vals)]

Frames == EntryFrames \cup LocationFrames

Even(q) == Len(q) % 2 = 0

\* The call for an entry is the outermost one.
Based(stack) == \A i \in 1..Len(stack) : stack[i].at = -1 <=> i = 1

Stacks == {q \in Seq(Frames) : Based(q)}

\* What only parse_binary_catalog changes.
FixTyped(s) ==
    /\ s.header \in Seq(Word)
    /\ s.objects \in Seq(Word)
    /\ s.pairs \in Seq(Word) /\ Even(s.pairs)
    /\ s.stack \in Stacks

ParseTyped(s) == MemTyped(s) /\ FixTyped(s) /\ s.out \in Outcome

LEMMA ErrorsAreOutcomes == {"ok", "endless", "type", "version"} \cup Errors \subseteq Outcome
  BY DEF Errors, Outcome

LEMMA StepKeepsFixed ==
    ASSUME NEW s, NEW t, NEW errors, PartTyped(s, t, errors), FixTyped(s)
    PROVE  FixTyped(t) /\ t.stack = s.stack /\ t.pairs = s.pairs /\ t.header = s.header
           /\ t.objects = s.objects /\ t.providers = s.providers /\ t.table = s.table
           /\ t.world = s.world /\ t.written = s.written /\ t.version = s.version
           /\ t.native = s.native /\ t.buffered = s.buffered
  BY DEF PartTyped, Only, Fields, Scratch, Memory, FixTyped

LEMMA PushIs ==
    ASSUME NEW s, Shape(s), NEW at, NEW what, NEW left
    PROVE  /\ Only(s, Push(s, at, what, left), {"stack"})
           /\ Push(s, at, what, left).stack
                = Append(s.stack, [at |-> at, what |-> what, left |-> left, got |-> <<>>])
  BY DEF Push, Only, Shape, Fields

\* A stack with another frame at the top.
Retop(stack, f) == [stack EXCEPT ![Len(stack)] = f]

LEMMA DeliverIs ==
    ASSUME NEW s, Shape(s), NEW v
    PROVE  /\ Only(s, Deliver(s, v), {"stack"})
           /\ Deliver(s, v).stack
                = Retop(s.stack, [s.stack[Len(s.stack)] EXCEPT !.got = Append(@, v)])
  <1> DEFINE f == s.stack[Len(s.stack)]
             S == [s.stack EXCEPT ![Len(s.stack)] = [f EXCEPT !.got = Append(f.got, v)]]
  <1>1. Deliver(s, v) = [s EXCEPT !.stack = S]
    BY DEF Deliver
  <1>2. S = Retop(s.stack, [s.stack[Len(s.stack)] EXCEPT !.got = Append(@, v)])
    BY Zenon DEF Retop
  <1> HIDE DEF S
  <1>3. Only(s, [s EXCEPT !.stack = S], {"stack"}) /\ [s EXCEPT !.stack = S].stack = S
    BY DEF Only, Shape, Fields
  <1> QED
    BY <1>1, <1>2, <1>3

LEMMA RetopTyped ==
    ASSUME NEW stack \in Stacks, stack # <<>>, NEW f \in Frames, f.at = stack[Len(stack)].at
    PROVE  /\ Retop(stack, f) \in Stacks /\ Len(Retop(stack, f)) = Len(stack)
           /\ Retop(stack, f)[Len(stack)] = f /\ Retop(stack, f) # <<>>
           /\ \A i \in 1..Len(stack) - 1 : Retop(stack, f)[i] = stack[i]
  <1>1. stack \in Seq(Frames) /\ Based(stack)
    BY DEF Stacks
  <1>2. /\ Retop(stack, f) \in Seq(Frames) /\ Len(Retop(stack, f)) = Len(stack)
        /\ Retop(stack, f)[Len(stack)] = f
        /\ \A i \in 1..Len(stack) - 1 : Retop(stack, f)[i] = stack[i]
    BY <1>1 DEF Retop
  <1>3. \A i \in 1..Len(stack) : Retop(stack, f)[i].at = stack[i].at
    BY <1>1 DEF Retop
  <1>4. Based(Retop(stack, f)) /\ Retop(stack, f) # <<>>
    BY <1>1, <1>2, <1>3 DEF Based
  <1> QED
    BY <1>2, <1>4 DEF Stacks

LEMMA TopTyped ==
    ASSUME NEW s, s.stack \in Stacks, s.stack # <<>>
    PROVE  /\ Top(s) \in Frames /\ Top(s) = s.stack[Len(s.stack)] /\ Len(s.stack) \in Nat \ {0}
           /\ Top(s).left \in Seq(Word) /\ Top(s).got \in Seq(Vals)
           /\ s.stack \in Seq(Frames)
  <1>0. s.stack \in Seq(Frames)
    BY DEF Stacks
  <1>1. Top(s) = s.stack[Len(s.stack)] /\ Len(s.stack) \in Nat \ {0}
    BY <1>0 DEF Top, Last
  <1>2. Top(s) \in Frames
    BY <1>0, <1>1
  <1> QED
    BY <1>0, <1>1, <1>2 DEF Frames, EntryFrames, LocationFrames

LEMMA FrameTyped ==
    ASSUME NEW f \in Frames
    PROVE  /\ \A v \in Vals : /\ [f EXCEPT !.got = Append(@, v)] \in Frames
                              /\ [f EXCEPT !.got = Append(@, v)].at = f.at
           /\ f.left # <<>> => /\ [f EXCEPT !.left = Tail(@)] \in Frames /\ Head(f.left) \in Word
                               /\ [f EXCEPT !.left = Tail(@)].at = f.at
           /\ f.at # -1 => f.at \in Word /\ f.what \in Seq(Word) /\ Len(f.what) = 7
           /\ f.at = -1 => f \in EntryFrames
  <1>1. f.left \in Seq(Word) /\ f.got \in Seq(Vals)
    BY DEF Frames, EntryFrames, LocationFrames
  <1>2. \A v \in Vals : Append(f.got, v) \in Seq(Vals)
    BY <1>1
  <1>3. f.left # <<>> => Tail(f.left) \in Seq(Word) /\ Head(f.left) \in Word
    BY <1>1
  <1>4. CASE f \in EntryFrames
    <2>1. \A v \in Vals : /\ [f EXCEPT !.got = Append(@, v)] \in EntryFrames
                          /\ [f EXCEPT !.got = Append(@, v)].at = f.at
      BY <1>2, <1>4 DEF EntryFrames
    <2>2. f.left # <<>> => /\ [f EXCEPT !.left = Tail(@)] \in EntryFrames
                           /\ [f EXCEPT !.left = Tail(@)].at = f.at
      BY <1>3, <1>4 DEF EntryFrames
    <2>3. f.at = -1
      BY <1>4 DEF EntryFrames
    <2> QED
      BY <1>3, <1>4, <2>1, <2>2, <2>3 DEF Frames
  <1>5. CASE f \in LocationFrames
    <2>1. \A v \in Vals : /\ [f EXCEPT !.got = Append(@, v)] \in LocationFrames
                          /\ [f EXCEPT !.got = Append(@, v)].at = f.at
      BY <1>2, <1>5 DEF LocationFrames
    <2>2. f.left # <<>> => /\ [f EXCEPT !.left = Tail(@)] \in LocationFrames
                           /\ [f EXCEPT !.left = Tail(@)].at = f.at
      BY <1>3, <1>5 DEF LocationFrames
    <2>3. f.at \in Word /\ f.what \in Seq(Word) /\ Len(f.what) = 7 /\ f.at # -1
      BY <1>5 DEF LocationFrames, Records, Word
    <2> QED
      BY <1>3, <2>1, <2>2, <2>3 DEF Frames
  <1> QED
    BY <1>4, <1>5 DEF Frames

\* What a step inside an entry may change.
Inner == Scratch \cup {"stack"}

\* The next location is taken from those that are left.
Asked(s, o) == Use([s EXCEPT !.stack[Len(s.stack)].left = Tail(@)], "location", o)

LEMMA AskedIs ==
    ASSUME NEW s, Shape(s), NEW o
    PROVE  LET f == s.stack[Len(s.stack)] IN
           /\ Only(s, Asked(s, o), {"stack", "uses"})
           /\ Asked(s, o).stack = Retop(s.stack, [f EXCEPT !.left = Tail(f.left)])
           /\ Asked(s, o).uses = s.uses \cup {<<"location", o>>}
  <1> DEFINE f == s.stack[Len(s.stack)]
             S == [s.stack EXCEPT ![Len(s.stack)] = [f EXCEPT !.left = Tail(f.left)]]
             r == [s EXCEPT !.stack = S]
  <1>1. Asked(s, o) = Use(r, "location", o)
    BY DEF Asked
  <1>2. S = Retop(s.stack, [f EXCEPT !.left = Tail(f.left)])
    BY Zenon DEF Retop
  <1> HIDE DEF S
  <1>3. Only(s, r, {"stack"}) /\ r.stack = S
    BY DEF Only, Shape, Fields
  <1> HIDE DEF r
  <1>4. Only(r, Use(r, "location", o), {"uses"})
        /\ Use(r, "location", o).uses = r.uses \cup {<<"location", o>>}
    BY <1>3, UseIs DEF Only
  <1>5. Use(r, "location", o).stack = r.stack /\ r.uses = s.uses
    BY <1>3, <1>4 DEF Only, Fields
  <1>6. Only(s, Use(r, "location", o), {"stack"} \cup {"uses"})
    BY <1>3, <1>4, OnlyTransitive
  <1>7. {"stack"} \cup {"uses"} = {"stack", "uses"}
    OBVIOUS
  <1> QED
    BY <1>1, <1>2, <1>3, <1>4, <1>5, <1>6, <1>7

\* Only the stack of the whole has changed.
LEMMA StackTyped ==
    ASSUME NEW s, NEW t, ParseTyped(s), Only(s, t, {"stack", "uses"}), t.stack \in Stacks
    PROVE  ParseTyped(t) /\ Only(s, t, Inner)
  BY DEF ParseTyped, MemTyped, ReaderOK, FixTyped, Only, Fields, Inner, Scratch, Memory

LEMMA AskedTyped ==
    ASSUME NEW s, ParseTyped(s), s.out = "ok", s.stack # <<>>, Top(s).left # <<>>, NEW o
    PROVE  LET t == Asked(s, o) IN
           /\ ParseTyped(t) /\ Only(s, t, Inner) /\ t.out = "ok" /\ t.stack # <<>>
           /\ t.cache = s.cache
  <1> DEFINE f == Top(s)
             g == [f EXCEPT !.left = Tail(f.left)]
             t == Asked(s, o)
  <1>1. /\ f \in Frames /\ f = s.stack[Len(s.stack)] /\ Len(s.stack) \in Nat \ {0}
        /\ s.stack \in Stacks
    BY TopTyped DEF ParseTyped, FixTyped
  <1>2. g \in Frames /\ g.at = f.at
    BY <1>1, FrameTyped
  <1>3. Only(s, t, {"stack", "uses"}) /\ t.stack = Retop(s.stack, g)
    BY <1>1, AskedIs DEF ParseTyped, MemTyped, ReaderOK
  <1> HIDE DEF g
  <1>4. t.stack \in Stacks /\ t.stack # <<>>
    BY <1>1, <1>2, <1>3, RetopTyped
  <1>5. t.out = "ok" /\ t.cache = s.cache
    BY <1>3 DEF Only, Fields
  <1> QED
    BY <1>3, <1>4, <1>5, StackTyped

LEMMA DeliverTyped ==
    ASSUME NEW s, ParseTyped(s), s.stack # <<>>, NEW v \in Vals
    PROVE  ParseTyped(Deliver(s, v)) /\ Only(s, Deliver(s, v), Inner)
  <1> DEFINE f == Top(s)
             g == [f EXCEPT !.got = Append(f.got, v)]
             t == Deliver(s, v)
  <1>1. /\ f \in Frames /\ f = s.stack[Len(s.stack)] /\ Len(s.stack) \in Nat \ {0}
        /\ s.stack \in Stacks
    BY TopTyped DEF ParseTyped, FixTyped
  <1>2. g \in Frames /\ g.at = f.at
    BY <1>1, FrameTyped
  <1>3. Only(s, t, {"stack"}) /\ t.stack = Retop(s.stack, g)
    BY <1>1, DeliverIs DEF ParseTyped, MemTyped, ReaderOK
  <1> HIDE DEF g
  <1>4. t.stack \in Stacks
    BY <1>1, <1>2, <1>3, RetopTyped
  <1>5. Only(s, t, {"stack", "uses"})
    BY <1>3, OnlyMore
  <1> HIDE DEF t
  <1> QED
    BY <1>4, <1>5, StackTyped DEF t

LEMMA AppendTyped ==
    ASSUME NEW stack \in Stacks, NEW f \in Frames, f.at = -1 <=> stack = <<>>
    PROVE  Append(stack, f) \in Stacks
  <1>1. stack \in Seq(Frames) /\ Based(stack)
    BY DEF Stacks
  <1>2. /\ Append(stack, f) \in Seq(Frames) /\ Len(Append(stack, f)) = Len(stack) + 1
        /\ Append(stack, f)[Len(stack) + 1] = f
        /\ \A i \in 1..Len(stack) : Append(stack, f)[i] = stack[i]
    BY <1>1
  <1>3. Len(stack) \in Nat /\ (stack = <<>> <=> Len(stack) = 0)
    BY <1>1
  <1>4. Based(Append(stack, f))
    BY <1>1, <1>2, <1>3 DEF Based
  <1> QED
    BY <1>2, <1>4 DEF Stacks

LEMMA PushTyped ==
    ASSUME NEW s, ParseTyped(s), NEW at, NEW what, NEW left \in Seq(Word),
           \/ at = -1 /\ what \in Vals /\ s.stack = <<>>
           \/ at \in Word /\ what \in Records /\ s.stack # <<>>
    PROVE  ParseTyped(Push(s, at, what, left)) /\ Only(s, Push(s, at, what, left), Inner)
  <1> DEFINE f == [at |-> at, what |-> what, left |-> left, got |-> <<>>]
             t == Push(s, at, what, left)
  <1>1. f \in Frames
    BY DEF Frames, EntryFrames, LocationFrames
  <1>2. Only(s, t, {"stack"}) /\ t.stack = Append(s.stack, f)
    BY PushIs DEF ParseTyped, MemTyped, ReaderOK
  <1>a. f.at = -1 <=> s.stack = <<>>
    BY DEF Word
  <1> HIDE DEF f
  <1>3. t.stack \in Stacks
    BY <1>1, <1>2, <1>a, AppendTyped DEF ParseTyped, FixTyped
  <1>4. Only(s, t, {"stack", "uses"})
    BY <1>2, OnlyMore
  <1> HIDE DEF t
  <1> QED
    BY <1>3, <1>4, StackTyped DEF t

\* A part of a step leaves a parse typed.
LEMMA PartIsTyped ==
    ASSUME NEW s, NEW t, ParseTyped(s), PartTyped(s, t, Errors)
    PROVE  ParseTyped(t) /\ Only(s, t, Inner)
  <1>1. FixTyped(t)
    BY StepKeepsFixed DEF ParseTyped
  <1>2. t.out \in Outcome
    BY ErrorsAreOutcomes DEF PartTyped
  <1>3. Only(s, t, Inner)
    BY OnlyMore DEF PartTyped, Inner
  <1> QED
    BY <1>1, <1>2, <1>3 DEF ParseTyped, PartTyped

LEMMA ReadIsTyped ==
    ASSUME NEW s, NEW t, ParseTyped(s), StepTyped(s, t, {"read", "text"})
    PROVE  ParseTyped(t) /\ Only(s, t, Inner)
  <1>1. {"read", "text"} \subseteq Errors
    BY DEF Errors
  <1>2. PartTyped(s, t, Errors)
    BY <1>1, StepIsPart
  <1> QED
    BY <1>2, PartIsTyped

LEMMA FailIsTyped ==
    ASSUME NEW s, ParseTyped(s), NEW error \in Outcome
    PROVE  ParseTyped(Fail(s, error)) /\ Only(s, Fail(s, error), Inner)
  <1> DEFINE t == Fail(s, error)
  <1>1. Only(s, t, {"out", "val"}) /\ t.out = error
    BY FailIs DEF ParseTyped, MemTyped, ReaderOK
  <1> HIDE DEF t
  <1>2. ParseTyped(t) /\ Only(s, t, Inner)
    BY <1>1 DEF ParseTyped, MemTyped, ReaderOK, FixTyped, Only, Fields, Inner, Scratch, Memory
  <1> QED
    BY <1>2 DEF t

LEMMA InnerTransitive ==
    ASSUME NEW r, NEW s, NEW t, Only(r, s, Inner), Only(s, t, Inner)
    PROVE  Only(r, t, Inner)
  BY DEF Only

LEMMA NextTyped ==
    ASSUME DataOK, NEW s, ParseTyped(s), s.out = "ok", s.stack # <<>>, Top(s).left # <<>>
    PROVE  ParseTyped(NextLocation(s)) /\ Only(s, NextLocation(s), Inner)
  <1> DEFINE o == Head(Top(s).left)
             asked == Asked(s, o)
             x == ReadStructFrom(asked, 7, o)
             q == Texts(x, IF x.native THEN <<>> ELSE Names(x.val))
             a == ReadOffsetArray(q, q.val[4])
  <1>1. NextLocation(s)
          = IF Cached(s, o) THEN Deliver(asked, s.cache[o])
            ELSE IF o \in InProgress(s) THEN Fail(asked, "endless")
            ELSE IF q.out # "ok" THEN q
            ELSE IF a.out # "ok" THEN a
            ELSE Push(a, o, q.val, a.val)
    BY DEF NextLocation, Asked, Then, Texts
  <1>2. o \in Word /\ o \in Int /\ o <= NULL /\ 7 \in Nat
    BY TopTyped, FrameTyped DEF ParseTyped, FixTyped, Word, DataOK
  <1>3. /\ ParseTyped(asked) /\ Only(s, asked, Inner) /\ asked.out = "ok" /\ asked.stack # <<>>
        /\ asked.cache = s.cache
    BY AskedTyped
  <1> HIDE DEF asked, o
  <1>4. CASE Cached(s, o)
    <2>1. s.cache[o] \in Vals
      BY <1>4 DEF Cached, ParseTyped, MemTyped, CacheTyped
    <2> QED
      BY <1>1, <1>3, <1>4, <2>1, DeliverTyped, InnerTransitive
  <1>5. CASE ~Cached(s, o) /\ o \in InProgress(s)
    BY <1>1, <1>3, <1>5, FailIsTyped, InnerTransitive, ErrorsAreOutcomes
  <1>6. CASE ~Cached(s, o) /\ o \notin InProgress(s)
    <2>1. /\ StepTyped(asked, q, {"read", "text"})
          /\ q.out = "ok" => q.val \in Seq(Word) /\ Len(q.val) = 7
      <3>1. /\ StepTyped(asked, x, {"read", "text"})
            /\ x.out = "ok" => x.val \in Seq(Word) /\ Len(x.val) = 7
        BY <1>2, <1>3, StructFromTyped DEF ParseTyped
      <3> HIDE DEF x
      <3> QED
        BY <3>1, TextsTyped
    <2>2. ParseTyped(q) /\ Only(s, q, Inner)
      BY <1>3, <2>1, ReadIsTyped, InnerTransitive
    <2> HIDE DEF q
    <2>3. CASE q.out # "ok"
      BY <1>1, <1>6, <2>2, <2>3
    <2>4. CASE q.out = "ok"
      <3>1. q.val[4] \in Word /\ q.val \in Records
        BY <2>1, <2>4 DEF Records
      <3>2. StepTyped(q, a, {"read", "text"}) /\ (a.out = "ok" => a.val \in Seq(Word))
        BY <2>2, <2>4, <3>1, OffsetArrayTyped DEF ParseTyped
      <3>3. ParseTyped(a) /\ Only(s, a, Inner)
        BY <2>2, <3>2, ReadIsTyped, InnerTransitive
      <3>a. a.stack # <<>>
        BY <1>3, <2>1, <3>2 DEF StepTyped, Only, Memory, Fields
      <3> HIDE DEF a
      <3>4. CASE a.out # "ok"
        BY <1>1, <1>6, <2>4, <3>3, <3>4
      <3>5. CASE a.out = "ok"
        <4>1. ParseTyped(Push(a, o, q.val, a.val)) /\ Only(a, Push(a, o, q.val, a.val), Inner)
          BY <1>2, <3>1, <3>2, <3>3, <3>a, <3>5, PushTyped
        <4> QED
          BY <1>1, <1>6, <2>4, <3>3, <3>5, <4>1, InnerTransitive
      <3> QED
        BY <3>4, <3>5
    <2> QED
      BY <2>3, <2>4
  <1> QED
    BY <1>4, <1>5, <1>6

\* The location that is done leaves the stack and becomes one of those that there are.
Popped(s) == [s EXCEPT !.stack = Front(@)]

LEMMA PoppedIs ==
    ASSUME NEW s, Shape(s)
    PROVE  Only(s, Popped(s), {"stack"}) /\ Popped(s).stack = Front(s.stack)
  BY DEF Popped, Only, Shape, Fields

LEMMA FrontTyped ==
    ASSUME NEW stack \in Stacks, stack # <<>>
    PROVE  /\ Front(stack) \in Stacks /\ Len(Front(stack)) = Len(stack) - 1
           /\ \A i \in 1..Len(stack) - 1 : Front(stack)[i] = stack[i]
  <1>0. stack \in Seq(Frames) /\ Based(stack)
    BY DEF Stacks
  <1>1. PICK n \in Nat : n = Len(stack)
    BY <1>0
  <1>2. n # 0
    BY <1>0, <1>1
  <1>3. n - 1 \in Nat /\ n - 1 <= n /\ (n - 1 = 0 => 1 > n - 1)
    BY <1>2
  <1>4. Front(stack) = SubSeq(stack, 1, n - 1)
    BY <1>1 DEF Front
  <1>5. CASE n - 1 = 0
    BY <1>0, <1>1, <1>4, <1>5 DEF Stacks, Based
  <1>6. CASE n - 1 # 0
    <2>1. 1 \in 1..n + 1 /\ n - 1 \in 0..n
      BY <1>3
    <2>2. /\ SubSeq(stack, 1, n - 1) \in Seq(Frames) /\ Len(SubSeq(stack, 1, n - 1)) = n - 1
          /\ \A i \in 1..n - 1 : SubSeq(stack, 1, n - 1)[i] = stack[i]
      BY <1>0, <1>1, <1>3, <1>6
    <2> HIDE DEF Front
    <2>3. Based(Front(stack))
      BY <1>0, <1>1, <1>3, <1>4, <2>2 DEF Based
    <2> QED
      BY <1>1, <1>4, <2>2, <2>3 DEF Stacks
  <1> QED
    BY <1>5, <1>6

\* What is left of a location once its names are read.
Finished(s) ==
    LET f == Top(s) IN
    Then(DecodeObject(s, f.what[6]), LAMBDA x :
    Then(ReadSerializedType(x, f.what[7]), LAMBDA t :
    LET made == Make(t, "location", f.at, <<f.what, f.got, x.val, x.type, t.val>>)
    IN  Deliver(Popped(made), made.val)))

Unnamed(s) == Texts(s, IF s.native THEN Names(Top(s).what) ELSE <<>>)

LEMMA FinishIs ==
    ASSUME NEW s, Shape(s), s.out = "ok"
    PROVE  FinishLocation(s) = IF Unnamed(s).out = "ok" THEN Finished(s) ELSE Unnamed(s)
  <1> DEFINE n == Unnamed(s)
             f == Top(s)
             After(i) == Then(DecodeObject(i, f.what[6]), LAMBDA x :
                         Then(ReadSerializedType(x, f.what[7]), LAMBDA t :
                         LET made == Make(t, "location", f.at, <<f.what, f.got, x.val, x.type, t.val>>)
                         IN  Deliver(Popped(made), made.val)))
  <1>1. FinishLocation(s) = IF n.out = "ok" THEN After(n) ELSE n
    BY DEF FinishLocation, Popped, Unnamed, Texts, Then
  <1>2. n.out = "ok" => n = s
    BY TextsAre DEF Unnamed
  <1>3. After(s) = Finished(s)
    BY DEF Finished
  <1> HIDE DEF n, After
  <1>4. FinishLocation(s) = IF n.out = "ok" THEN Finished(s) ELSE n
    BY <1>1, <1>2, <1>3
  <1> QED
    BY <1>4 DEF n

LEMMA FinishedTyped ==
    ASSUME DataOK, NEW s, ParseTyped(s), s.out = "ok", s.stack # <<>>, Top(s).at # -1
    PROVE  ParseTyped(Finished(s)) /\ Only(s, Finished(s), Inner)
  <1> DEFINE f == Top(s)
             x == DecodeObject(s, f.what[6])
             t == ReadSerializedType(x, f.what[7])
             m == Make(t, "location", f.at, <<f.what, f.got, x.val, x.type, t.val>>)
             p == Popped(m)
  <1>1. Finished(s)
          = IF x.out # "ok" THEN x ELSE IF t.out # "ok" THEN t ELSE Deliver(p, m.val)
    BY DEF Finished, Then
  <1>2. /\ f \in Frames /\ f = s.stack[Len(s.stack)] /\ Len(s.stack) \in Nat \ {0}
        /\ s.stack \in Stacks
    BY TopTyped DEF ParseTyped, FixTyped
  <1>3. f.at \in Word /\ f.what[6] \in Word /\ f.what[7] \in Word
    <2> HIDE DEF f
    <2>1. f.at # -1
      BY DEF f
    <2>2. f \in LocationFrames
      BY <1>2, <2>1 DEF Frames, EntryFrames
    <2>3. f.what \in Seq(Word) /\ Len(f.what) = 7 /\ f.at \in Word
      BY <2>2 DEF LocationFrames, Records
    <2> QED
      BY <2>3
  <1>4. Len(s.stack) > 1
    BY <1>2 DEF Based, Stacks
  <1>5. PartTyped(s, x, Errors)
    BY <1>3, ObjectTyped DEF ParseTyped
  <1>6. ParseTyped(x) /\ Only(s, x, Inner) /\ x.stack = s.stack
    BY <1>5, PartIsTyped, StepKeepsFixed DEF ParseTyped
  <1> HIDE DEF x, f
  <1>7. CASE x.out # "ok"
    BY <1>1, <1>6, <1>7
  <1>8. CASE x.out = "ok"
    <2>1. StepTyped(x, t, {"read", "text"})
      BY <1>3, <1>6, <1>8, PairTyped DEF ReadSerializedType, ParseTyped
    <2>2. ParseTyped(t) /\ Only(s, t, Inner) /\ t.stack = s.stack
      BY <1>6, <2>1, ReadIsTyped, InnerTransitive DEF StepTyped, Only, Memory, Fields
    <2> HIDE DEF t
    <2>3. CASE t.out # "ok"
      BY <1>1, <1>8, <2>2, <2>3
    <2>4. CASE t.out = "ok"
      <3>1. StepTyped(t, m, {}) /\ m.val \in Vals
        BY <1>3, <2>2, <2>4, MakeTyped DEF ParseTyped
      <3>2. StepTyped(t, m, {"read", "text"})
        BY <3>1, StepTypedMore
      <3> HIDE DEF m
      <3>a. ParseTyped(m) /\ Only(t, m, Inner)
        BY <2>2, <3>2, ReadIsTyped
      <3>b. Only(s, m, Inner)
        BY <2>2, <3>a, InnerTransitive
      <3>c. m.stack = s.stack
        BY <2>2, <3>1 DEF StepTyped, Only, Memory, Fields
      <3>3. ParseTyped(m) /\ Only(s, m, Inner) /\ m.stack = s.stack
        BY <3>a, <3>b, <3>c
      <3> HIDE DEF m
      <3>4. Only(m, p, {"stack"}) /\ p.stack = Front(s.stack)
        BY <3>3, PoppedIs DEF ParseTyped, MemTyped, ReaderOK
      <3>5. p.stack \in Stacks /\ p.stack # <<>>
        <4>1. Front(s.stack) \in Stacks /\ Len(Front(s.stack)) = Len(s.stack) - 1
          BY <1>2, FrontTyped
        <4>2. Len(Front(s.stack)) # 0
          BY <1>2, <1>4, <4>1
        <4>3. Front(s.stack) # <<>>
          BY <4>2
        <4> HIDE DEF p
        <4>4. p.stack = Front(s.stack)
          BY <3>4
        <4> QED
          BY <4>1, <4>3, <4>4
      <3>6. Only(m, p, {"stack", "uses"})
        BY <3>4, OnlyMore
      <3> HIDE DEF p
      <3>7. ParseTyped(p) /\ Only(s, p, Inner)
        BY <3>3, <3>5, <3>6, StackTyped, InnerTransitive
      <3>8. ParseTyped(Deliver(p, m.val)) /\ Only(s, Deliver(p, m.val), Inner)
        BY <3>1, <3>5, <3>7, DeliverTyped, InnerTransitive
      <3> QED
        BY <1>1, <1>8, <2>4, <3>8
    <2> QED
      BY <2>3, <2>4
  <1> QED
    BY <1>7, <1>8

LEMMA UnnamedTyped ==
    ASSUME NEW s, ParseTyped(s)
    PROVE  StepTyped(s, Unnamed(s), {"text"} \cup {s.out}) /\ (Unnamed(s).out = "ok" => Unnamed(s) = s)
  <1>1. Shape(s) /\ MemTyped(s)
    BY DEF ParseTyped, MemTyped, ReaderOK
  <1>2. StepTyped(s, s, {"text"} \cup {s.out})
    BY <1>1, OnlyNone DEF StepTyped
  <1> QED
    BY <1>2, TextsTyped DEF Unnamed

LEMMA FinishLocationTyped ==
    ASSUME DataOK, NEW s, ParseTyped(s), s.out = "ok", s.stack # <<>>, Top(s).at # -1
    PROVE  ParseTyped(FinishLocation(s)) /\ Only(s, FinishLocation(s), Inner)
  <1> DEFINE n == Unnamed(s)
  <1>1. FinishLocation(s) = IF n.out = "ok" THEN Finished(s) ELSE n
    BY FinishIs DEF ParseTyped, MemTyped, ReaderOK
  <1>2. StepTyped(s, n, {"text"} \cup {s.out})
    BY UnnamedTyped
  <1> HIDE DEF n
  <1>3. StepTyped(s, n, {"read", "text"} \cup {"ok"})
    BY <1>2, StepTypedMore
  <1>4. StepTyped(s, n, {"read", "text"})
    BY <1>3 DEF StepTyped
  <1>5. ParseTyped(n) /\ Only(s, n, Inner)
    BY <1>4, ReadIsTyped
  <1> QED
    BY <1>1, <1>5, FinishedTyped

LEMMA StartEntryTyped ==
    ASSUME DataOK, NEW s, ParseTyped(s), s.out = "ok", s.pairs # <<>>, s.stack = <<>>
    PROVE  ParseTyped(StartEntry(s)) /\ Only(s, StartEntry(s), Inner)
  <1> DEFINE k == DecodeObject(s, s.pairs[1])
             a == ReadOffsetArray(k, k.pairs[2])
  <1>1. StartEntry(s)
          = IF k.out # "ok" THEN k ELSE IF a.out # "ok" THEN a ELSE Push(a, -1, k.val, a.val)
    BY DEF StartEntry, Then
  <1>2. s.pairs \in Seq(Word) /\ Len(s.pairs) >= 2
    <2>1. PICK n \in Nat : n = Len(s.pairs)
      BY DEF ParseTyped, FixTyped
    <2>2. n # 0
      BY <2>1 DEF ParseTyped, FixTyped
    <2>a. n % 2 = 0
      BY <2>1 DEF ParseTyped, FixTyped, Even
    <2>3. n >= 2
      <3>1. n = 1 => n % 2 = 1
        OBVIOUS
      <3> QED
        BY <2>2, <2>a, <3>1
    <2> QED
      BY <2>1, <2>3 DEF ParseTyped, FixTyped
  <1>3. s.pairs[1] \in Word /\ s.pairs[2] \in Word
    BY <1>2
  <1>4. PartTyped(s, k, Errors) /\ (k.out = "ok" => k.val \in Vals)
    BY <1>3, ObjectTyped DEF ParseTyped
  <1>5. ParseTyped(k) /\ Only(s, k, Inner) /\ k.pairs = s.pairs /\ k.stack = s.stack
    BY <1>4, PartIsTyped, StepKeepsFixed DEF ParseTyped
  <1> HIDE DEF k
  <1>6. CASE k.out # "ok"
    BY <1>1, <1>5, <1>6
  <1>7. CASE k.out = "ok"
    <2>1. StepTyped(k, a, {"read", "text"}) /\ (a.out = "ok" => a.val \in Seq(Word))
      BY <1>3, <1>5, <1>7, OffsetArrayTyped DEF ParseTyped
    <2>2. ParseTyped(a) /\ Only(s, a, Inner)
      BY <1>5, <2>1, ReadIsTyped, InnerTransitive
    <2>a. a.stack = <<>>
      BY <1>5, <2>1 DEF StepTyped, Only, Memory, Fields
    <2> HIDE DEF a
    <2>3. CASE a.out # "ok"
      BY <1>1, <1>7, <2>2, <2>3
    <2>4. CASE a.out = "ok"
      <3>1. ParseTyped(Push(a, -1, k.val, a.val)) /\ Only(a, Push(a, -1, k.val, a.val), Inner)
        BY <1>4, <1>7, <2>1, <2>2, <2>a, <2>4, PushTyped
      <3> QED
        BY <1>1, <1>7, <2>2, <2>4, <3>1, InnerTransitive
    <2> QED
      BY <2>3, <2>4
  <1> QED
    BY <1>6, <1>7

\* The entry that is done.
Done(s) == [s EXCEPT !.pairs = SubSeq(@, 3, Len(@)), !.stack = <<>>]

LEMMA DoneIs ==
    ASSUME NEW s, ParseTyped(s)
    PROVE  LET t == Done(s) IN
           /\ ParseTyped(t) /\ Only(s, t, {"pairs", "stack"})
           /\ t.stack = <<>> /\ t.pairs = SubSeq(s.pairs, 3, Len(s.pairs))
  <1> DEFINE t == Done(s)
             rest == SubSeq(s.pairs, 3, Len(s.pairs))
  <1>1. Only(s, t, {"pairs", "stack"}) /\ t.stack = <<>> /\ t.pairs = rest
    BY DEF Done, ParseTyped, MemTyped, ReaderOK, Only, Shape, Fields
  <1> HIDE DEF t
  <1>2. rest \in Seq(Word) /\ Even(rest)
    <2>1. PICK n \in Nat : n = Len(s.pairs)
      BY DEF ParseTyped, FixTyped
    <2>2. n % 2 = 0
      BY <2>1 DEF ParseTyped, FixTyped, Even
    <2>3. CASE n < 3
      <3>1. rest = <<>>
        BY <2>1, <2>3 DEF ParseTyped, FixTyped
      <3>2. 0 % 2 = 0 /\ <<>> \in Seq(Word) /\ Len(<<>>) = 0
        OBVIOUS
      <3> HIDE DEF rest
      <3> QED
        BY <3>1, <3>2 DEF Even
    <2>4. CASE n >= 3
      <3>1. rest \in Seq(Word) /\ Len(rest) = n - 2
        BY <2>1, <2>4 DEF ParseTyped, FixTyped
      <3>2. (n - 2) % 2 = 0
        BY <2>2
      <3> QED
        BY <3>1, <3>2 DEF Even
    <2> QED
      BY <2>3, <2>4
  <1> HIDE DEF rest
  <1>3. <<>> \in Stacks
    BY DEF Stacks, Based
  <1>4. ParseTyped(t)
    BY <1>1, <1>2, <1>3 DEF ParseTyped, MemTyped, ReaderOK, FixTyped, Only, Fields
  <1> QED
    BY <1>1, <1>4 DEF t, rest

LEMMA SetItemTyped ==
    ASSUME NEW s, ParseTyped(s), s.out = "ok", NEW key, NEW locations
    PROVE  LET t == SetItem(s, key, locations) IN
           /\ ParseTyped(t) /\ Only(s, t, {"out", "val", "table"})
           /\ t.out \in {"ok", "type"}
  <1> DEFINE same == {i \in DOMAIN s.table : s.table[i][1] = key}
             table == IF same = {} THEN Append(s.table, <<key, locations>>)
                      ELSE [s.table EXCEPT ![CHOOSE i \in same : TRUE] = <<key, locations>>]
             t == [s EXCEPT !.table = table]
  <1>1. SetItem(s, key, locations) = IF key.is \in Unhashable THEN Fail(s, "type") ELSE t
    BY DEF SetItem
  <1> HIDE DEF table
  <1>2. Only(s, t, {"table"})
    BY DEF ParseTyped, MemTyped, ReaderOK, Only, Shape, Fields
  <1> HIDE DEF t
  <1>3. ParseTyped(t) /\ t.out = "ok"
    BY <1>2 DEF ParseTyped, MemTyped, ReaderOK, FixTyped, Only, Fields
  <1>4. ParseTyped(Fail(s, "type")) /\ Only(s, Fail(s, "type"), {"out", "val"}) /\ Fail(s, "type").out = "type"
    BY FailIsTyped, ErrorsAreOutcomes, FailIs DEF ParseTyped, MemTyped, ReaderOK
  <1> QED
    BY <1>1, <1>2, <1>3, <1>4, OnlyMore

LEMMA FinishEntryTyped ==
    ASSUME NEW s, ParseTyped(s), s.out = "ok"
    PROVE  LET t == FinishEntry(s) IN
           ParseTyped(t) /\ Only(s, t, {"pairs", "stack", "out", "val", "table"}) /\ t.stack = <<>>
  <1> DEFINE d == Done(s)
             t == SetItem(d, Top(s).what, Top(s).got)
  <1>1. ParseTyped(d) /\ Only(s, d, {"pairs", "stack"}) /\ d.stack = <<>>
    BY DoneIs
  <1>2. d.out = "ok"
    BY <1>1 DEF Only, Fields
  <1>3. FinishEntry(s) = t
    BY DEF FinishEntry, Done
  <1> HIDE DEF d
  <1>4. ParseTyped(t) /\ Only(d, t, {"out", "val", "table"})
    BY <1>1, <1>2, SetItemTyped
  <1>5. Only(s, t, {"pairs", "stack"} \cup {"out", "val", "table"})
    BY <1>1, <1>4, OnlyTransitive
  <1>6. t.stack = <<>>
    BY <1>1, <1>4 DEF Only, Fields
  <1>7. {"pairs", "stack"} \cup {"out", "val", "table"} = {"pairs", "stack", "out", "val", "table"}
    OBVIOUS
  <1> QED
    BY <1>3, <1>4, <1>5, <1>6, <1>7

\* What parse_binary_catalog may change before the table.
Opening == Scratch \cup {"version", "header", "objects", "providers", "pairs", "native"}

LEMMA OpeningTransitive ==
    ASSUME NEW r, NEW s, NEW t, Only(r, s, Opening), Only(s, t, Opening)
    PROVE  Only(r, t, Opening)
  BY DEF Only

LEMMA OpeningTyped ==
    ASSUME NEW s, NEW t, ParseTyped(s),
           Only(s, t, {"version", "header", "objects", "providers", "pairs", "native"}),
           t.header \in Seq(Word), t.objects \in Seq(Word), t.pairs \in Seq(Word), Even(t.pairs),
           t.native \in BOOLEAN
    PROVE  ParseTyped(t) /\ Only(s, t, Opening)
  BY DEF ParseTyped, MemTyped, ReaderOK, FixTyped, Only, Fields, Opening, Scratch, Memory

LEMMA ReadIsOpening ==
    ASSUME NEW s, NEW t, ParseTyped(s), StepTyped(s, t, {"read", "text"})
    PROVE  /\ ParseTyped(t) /\ Only(s, t, Opening)
           /\ t.header = s.header /\ t.objects = s.objects /\ t.pairs = s.pairs
           /\ t.native = s.native /\ t.stack = s.stack
  <1>1. ParseTyped(t)
    BY ReadIsTyped
  <1> QED
    BY <1>1 DEF StepTyped, Only, Opening, Scratch, Memory, Fields

LEMMA ExactTyped ==
    ASSUME DataOK, NEW s, MemTyped(s), s.out = "ok", NEW n \in Nat
    PROVE  LET t == ReadExact(s, n) IN
           /\ StepTyped(s, t, {"read", "text"})
           /\ t.out = "ok" => t.val \in Seq(Word) /\ Len(t.val) = n
  <1> DEFINE t == ReadExact(s, n)
  <1>0. s.cursor \in Nat /\ WrittenOK(s.written) /\ NULL \in Nat
    BY DEF MemTyped, ReaderOK, Word, DataOK
  <1>1. /\ Only(s, t, Moved)
        /\ IF n >= 0 /\ (n = 0 \/ s.cursor + n <= Len(data))
           THEN t.out = "ok" /\ t.cursor = s.cursor + n /\ t.val = Stream(s.written, s.cursor, n)
           ELSE t.out = "read" /\ t.cursor \in Word
    BY ReadExactIs DEF MemTyped
  <1> HIDE DEF t
  <1>2. t.cursor \in Word
    BY <1>0, <1>1 DEF DataOK, Word, MemTyped, ReaderOK
  <1>3. t.out = "ok" => t.val \in Seq(Word) /\ Len(t.val) = n
    <2> SUFFICES ASSUME t.out = "ok"
                 PROVE  t.val \in Seq(Word) /\ Len(t.val) = n
      OBVIOUS
    <2>1. (n = 0 \/ s.cursor + n <= Len(data)) /\ t.val = Stream(s.written, s.cursor, n)
      BY <1>1
    <2> QED
      BY <1>0, <2>1, StreamTyped
  <1>4. ReaderOK(t)
    BY <1>1, <1>2 DEF MemTyped, ReaderOK, Only, Fields, Moved
  <1>5. StepTyped(s, t, {"read", "text"})
    BY <1>1, <1>4 DEF MemTyped, StepTyped, Only, Fields, Memory, Moved
  <1> QED
    BY <1>3, <1>5 DEF t

LEMMA AppendLength ==
    ASSUME NEW S, NEW q \in Seq(S), NEW e \in S
    PROVE  Len(Append(q, e)) = Len(q) + 1
  BY AppendProperties

LEMMA SixWords ==
    ASSUME DataOK, NEW a \in Seq(Word), Len(a) = 5, NEW b \in Seq(Word), Len(b) = 1
    PROVE  /\ Append(a, NULL) \in Seq(Word) /\ Len(Append(a, NULL)) = 6
           /\ a \o b \in Seq(Word) /\ Len(a \o b) = 6
  <1>1. NULL \in Word
    BY DEF Word, DataOK
  <1>2. Append(a, NULL) \in Seq(Word) /\ Len(Append(a, NULL)) = Len(a) + 1
    <2>1. Append(a, NULL) \in Seq(Word)
      BY <1>1
    <2>2. Len(Append(a, NULL)) = Len(a) + 1
      BY <1>1, AppendLength, Zenon
    <2> QED
      BY <2>1, <2>2
  <1>3. a \o b \in Seq(Word) /\ Len(a \o b) = Len(a) + Len(b)
    BY ConcatProperties
  <1>4. Len(a) + 1 = 6 /\ Len(a) + Len(b) = 6
    OBVIOUS
  <1> QED
    BY <1>2, <1>3, <1>4

LEMMA HeaderTyped ==
    ASSUME DataOK, NEW s, ParseTyped(s), s.out = "ok"
    PROVE  LET t == ReadHeader(s) IN
           ParseTyped(t) /\ Only(s, t, Opening \ {"native"}) /\ (t.out = "ok" => Len(t.header) = 6)
  <1> DEFINE q == ReadExact(s, 2)
             v == [q EXCEPT !.version = q.val[2]]
             h == ReadExact(v, 5)
             a == [h EXCEPT !.header = Append(h.val, NULL)]
             b == ReadExact(h, 1)
             c == [b EXCEPT !.header = h.val \o b.val]
             P(t) == ParseTyped(t) /\ Only(s, t, Opening) /\ t.native = s.native
  <1>1. ReadHeader(s)
          = IF q.out # "ok" THEN q
            ELSE IF q.val[2] \notin 1..3 THEN Fail(q, "version")
            ELSE IF h.out # "ok" THEN h
            ELSE IF h.version = 1 /\ h.val[1] = 8 THEN a
            ELSE IF b.out # "ok" THEN b ELSE c
    BY DEF ReadHeader, Then
  <1>2. StepTyped(s, q, {"read", "text"})
    BY ExactTyped DEF ParseTyped
  <1>3. P(q)
    BY <1>2, ReadIsOpening
  <1> HIDE DEF q
  <1>4. ASSUME q.out = "ok"
        PROVE  P(Fail(q, "version")) /\ Fail(q, "version").out = "version"
    <2> DEFINE f == Fail(q, "version")
    <2>1. ParseTyped(f) /\ Only(q, f, Inner)
      BY <1>3, FailIsTyped, ErrorsAreOutcomes
    <2>2. Only(q, f, {"out", "val"}) /\ f.out = "version"
      BY <1>3, FailIs DEF ParseTyped, MemTyped, ReaderOK
    <2> HIDE DEF f
    <2>3. Only(q, f, Opening) /\ f.native = q.native
      BY <2>2 DEF Only, Opening, Scratch, Memory, Fields
    <2>4. P(f)
      BY <1>3, <2>1, <2>3, OpeningTransitive
    <2> QED
      BY <2>2, <2>4 DEF f
  <1>5. ASSUME q.out = "ok"
        PROVE  P(v) /\ v.out = "ok"
    <2>1. Only(q, v, {"version"})
      BY <1>3 DEF ParseTyped, MemTyped, ReaderOK, Only, Shape, Fields
    <2> HIDE DEF v
    <2>2. /\ v.header \in Seq(Word) /\ v.objects \in Seq(Word) /\ v.pairs \in Seq(Word)
          /\ Even(v.pairs) /\ v.native \in BOOLEAN /\ v.out = q.out /\ v.native = q.native
      BY <1>3, <2>1 DEF ParseTyped, MemTyped, FixTyped, Only, Fields
    <2>3. Only(q, v, {"version", "header", "objects", "providers", "pairs", "native"})
      BY <2>1, OnlyMore
    <2>4. ParseTyped(v) /\ Only(q, v, Opening)
      BY <1>3, <2>2, <2>3, OpeningTyped
    <2> QED
      BY <1>3, <1>5, <2>2, <2>4, OpeningTransitive
  <1> HIDE DEF v
  <1>6. ASSUME q.out = "ok"
        PROVE  P(h) /\ (h.out = "ok" => h.val \in Seq(Word) /\ Len(h.val) = 5)
    <2>0. 5 \in Nat
      OBVIOUS
    <2>1. StepTyped(v, h, {"read", "text"}) /\ (h.out = "ok" => h.val \in Seq(Word) /\ Len(h.val) = 5)
      BY <1>5, <1>6, <2>0, ExactTyped DEF ParseTyped
    <2> HIDE DEF h
    <2>2. ParseTyped(h) /\ Only(v, h, Opening) /\ h.native = v.native
      BY <1>5, <1>6, <2>1, ReadIsOpening
    <2> QED
      BY <1>5, <1>6, <2>1, <2>2, OpeningTransitive
  <1> HIDE DEF h
  <1>w. <<0>> \in Seq(Word) /\ Len(<<0>>) = 1
    BY DEF Word, DataOK
  \* A header of six words.
  <1>7. ASSUME NEW r, P(r), NEW header \in Seq(Word), Len(header) = 6
        PROVE  P([r EXCEPT !.header = header]) /\ Len([r EXCEPT !.header = header].header) = 6
    <2> DEFINE t == [r EXCEPT !.header = header]
    <2>1. Only(r, t, {"header"}) /\ t.header = header
      BY <1>7 DEF ParseTyped, MemTyped, ReaderOK, Only, Shape, Fields
    <2> HIDE DEF t
    <2>2. /\ t.objects \in Seq(Word) /\ t.pairs \in Seq(Word)
          /\ Even(t.pairs) /\ t.native \in BOOLEAN /\ t.native = r.native
      BY <1>7, <2>1 DEF ParseTyped, MemTyped, FixTyped, Only, Fields
    <2>3. Only(r, t, {"version", "header", "objects", "providers", "pairs", "native"})
      BY <2>1, OnlyMore
    <2>4. ParseTyped(t) /\ Only(r, t, Opening)
      BY <1>7, <2>1, <2>2, <2>3, OpeningTyped
    <2>5. P(t)
      BY <1>7, <2>2, <2>4, OpeningTransitive
    <2> QED
      BY <1>7, <2>1, <2>5 DEF t
  <1>8. ASSUME q.out = "ok", h.out = "ok"
        PROVE  P(a) /\ Len(a.header) = 6
    <2>1. Append(h.val, NULL) \in Seq(Word) /\ Len(Append(h.val, NULL)) = 6
      <3>1. \A x \in Seq(Word) : Len(x) = 5 => Append(x, NULL) \in Seq(Word) /\ Len(Append(x, NULL)) = 6
        BY SixWords, <1>w
      <3> QED
        BY <1>6, <1>8, <3>1
    <2> QED
      BY <1>6, <1>7, <1>8, <2>1
  <1>9. ASSUME q.out = "ok", h.out = "ok"
        PROVE  P(b) /\ (b.out = "ok" => b.val \in Seq(Word) /\ Len(b.val) = 1)
    <2>0. 1 \in Nat
      OBVIOUS
    <2>1. StepTyped(h, b, {"read", "text"}) /\ (b.out = "ok" => b.val \in Seq(Word) /\ Len(b.val) = 1)
      BY <1>6, <1>9, <2>0, ExactTyped DEF ParseTyped
    <2> HIDE DEF b
    <2>2. ParseTyped(b) /\ Only(h, b, Opening) /\ b.native = h.native
      BY <1>6, <1>9, <2>1, ReadIsOpening
    <2> QED
      BY <1>6, <1>9, <2>1, <2>2, OpeningTransitive
  <1> HIDE DEF b
  <1>10. ASSUME q.out = "ok", h.out = "ok", b.out = "ok"
         PROVE  P(c) /\ Len(c.header) = 6
    <2>1. h.val \o b.val \in Seq(Word) /\ Len(h.val \o b.val) = 6
      BY <1>6, <1>9, <1>10, SixWords
    <2> QED
      BY <1>7, <1>9, <1>10, <2>1
  <1> HIDE DEF a, c, P
  <1> DEFINE t == ReadHeader(s)
  <1>11. P(t) /\ (t.out = "ok" => Len(t.header) = 6)
    BY <1>1, <1>3, <1>4, <1>6, <1>8, <1>9, <1>10
  <1> HIDE DEF t
  <1>12. Only(s, t, Opening \ {"native"})
    BY <1>11 DEF P, Only
  <1> QED
    BY <1>11, <1>12 DEF P, t

LEMMA ObjectsTyped ==
    ASSUME DataOK, NEW s, ParseTyped(s), s.out = "ok", Len(s.header) = 6
    PROVE  LET t == ReadObjects(s) IN ParseTyped(t) /\ Only(s, t, Memory \cup {"objects"})
  <1> DEFINE l == ReadOffsetArray(s, s.header[5])
             a == Texts(l, <<l.header[2], l.header[6]>>)
             objects == <<a.header[3], a.header[4]>> \o a.val
             t == [a EXCEPT !.objects = objects]
  <1>1. ReadObjects(s) = IF a.out # "ok" THEN a ELSE t
    BY DEF ReadObjects, Then, Texts
  <1>2. s.header \in Seq(Word) /\ s.header[5] \in Word /\ s.header[3] \in Word /\ s.header[4] \in Word
    BY DEF ParseTyped, FixTyped
  <1>a. StepTyped(s, l, {"read", "text"}) /\ (l.out = "ok" => l.val \in Seq(Word))
    BY <1>2, OffsetArrayTyped DEF ParseTyped
  <1> HIDE DEF l
  <1>3. StepTyped(s, a, {"read", "text"}) /\ (a.out = "ok" => a.val \in Seq(Word))
    BY <1>a, TextsTyped
  <1>4. ParseTyped(a) /\ Only(s, a, Memory) /\ a.header = s.header
    BY <1>3, ReadIsOpening DEF StepTyped
  <1> HIDE DEF a
  <1>5. CASE a.out # "ok"
    <2>1. Only(s, a, Memory \cup {"objects"})
      BY <1>4, OnlyMore
    <2> QED
      BY <1>1, <1>4, <1>5, <2>1
  <1>6. CASE a.out = "ok"
    <2>1. <<a.header[3], a.header[4]>> \in Seq(Word)
      BY <1>2, <1>4
    <2>2. objects \in Seq(Word)
      BY <1>3, <1>6, <2>1, ConcatProperties
    <2> HIDE DEF objects
    <2>3. Only(a, t, {"objects"}) /\ t.objects = objects
      BY <1>4 DEF ParseTyped, MemTyped, ReaderOK, Only, Shape, Fields
    <2> HIDE DEF t
    <2>4. /\ t.header \in Seq(Word) /\ t.pairs \in Seq(Word)
          /\ Even(t.pairs) /\ t.native \in BOOLEAN
      BY <1>4, <2>3 DEF ParseTyped, MemTyped, FixTyped, Only, Fields
    <2>5. Only(a, t, {"version", "header", "objects", "providers", "pairs", "native"})
      BY <2>3, OnlyMore
    <2>6. ParseTyped(t)
      BY <1>4, <2>2, <2>3, <2>4, <2>5, OpeningTyped
    <2>7. Only(s, t, Memory \cup {"objects"})
      BY <1>4, <2>3, OnlyTransitive
    <2> QED
      BY <1>1, <1>6, <2>6, <2>7
  <1> QED
    BY <1>5, <1>6

LEMMA ProviderTyped ==
    ASSUME DataOK, NEW s, ParseTyped(s), s.out = "ok", s.objects # <<>>
    PROVE  LET t == ReadProvider(s) IN
           ParseTyped(t) /\ Only(s, t, Memory \cup {"objects", "providers"})
  <1> DEFINE o == Head(s.objects)
             r == [s EXCEPT !.objects = Tail(@)]
             read == ReadStructFrom(r, 3, o)
             q == Texts(read, <<read.val[1]>>)
             type == ReadSerializedType(q, q.val[2])
             t == Texts(type, <<q.val[3]>>)
             p == [t EXCEPT !.providers = Append(@, <<q.val, t.val>>)]
             Changed == Memory \cup {"objects", "providers"}
  <1>1. ReadProvider(s) = IF q.out # "ok" THEN q ELSE IF t.out # "ok" THEN t ELSE p
    BY DEF ReadProvider, Then, Texts
  <1>2. o \in Word /\ Tail(s.objects) \in Seq(Word)
    BY DEF ParseTyped, FixTyped
  <1>3. o \in Int /\ o <= NULL /\ 3 \in Nat
    BY <1>2 DEF Word, DataOK
  <1>4. ParseTyped(r) /\ Only(s, r, Changed) /\ r.out = "ok"
    <2>1. Only(s, r, {"objects"}) /\ r.objects = Tail(s.objects) /\ r.out = s.out
      BY DEF ParseTyped, MemTyped, ReaderOK, Only, Shape, Fields
    <2> HIDE DEF r
    <2>2. /\ r.header \in Seq(Word) /\ r.pairs \in Seq(Word)
          /\ Even(r.pairs) /\ r.native \in BOOLEAN
      BY <2>1 DEF ParseTyped, MemTyped, FixTyped, Only, Fields
    <2>3. Only(s, r, {"version", "header", "objects", "providers", "pairs", "native"})
      BY <2>1, OnlyMore
    <2>4. ParseTyped(r) /\ Only(s, r, Changed)
      BY <1>2, <2>1, <2>2, <2>3, OpeningTyped, OnlyMore
    <2> QED
      BY <2>1, <2>4
  <1> HIDE DEF r, o
  <1>5. StepTyped(r, q, {"read", "text"}) /\ (q.out = "ok" => q.val \in Seq(Word) /\ Len(q.val) = 3)
    <2>1. /\ StepTyped(r, read, {"read", "text"})
          /\ read.out = "ok" => read.val \in Seq(Word) /\ Len(read.val) = 3
      BY <1>3, <1>4, StructFromTyped DEF ParseTyped
    <2> HIDE DEF read
    <2> QED
      BY <2>1, TextsTyped
  <1>6. ParseTyped(q) /\ Only(s, q, Changed)
    <2>1. Only(s, q, Changed \cup Memory)
      BY <1>4, <1>5, OnlyTransitive DEF StepTyped
    <2>2. Changed \cup Memory = Changed
      OBVIOUS
    <2> QED
      BY <1>4, <1>5, <2>1, <2>2, ReadIsOpening
  <1> HIDE DEF q
  <1>7. CASE q.out # "ok"
    BY <1>1, <1>6, <1>7
  <1>8. CASE q.out = "ok"
    <2>1. q.val[2] \in Word
      BY <1>5, <1>8
    <2>2. StepTyped(q, t, {"read", "text"})
      <3>1. StepTyped(q, type, {"read", "text"})
        BY <1>6, <1>8, <2>1, PairTyped DEF ParseTyped, ReadSerializedType
      <3> HIDE DEF type
      <3> QED
        BY <3>1, TextsTyped
    <2>3. ParseTyped(t) /\ Only(s, t, Changed)
      <3>1. Only(s, t, Changed \cup Memory)
        BY <1>6, <2>2, OnlyTransitive DEF StepTyped
      <3>2. Changed \cup Memory = Changed
        OBVIOUS
      <3> QED
        BY <1>6, <2>2, <3>1, <3>2, ReadIsOpening
    <2> HIDE DEF t
    <2>4. Only(t, p, {"providers"})
      BY <2>3 DEF ParseTyped, MemTyped, ReaderOK, Only, Shape, Fields
    <2> HIDE DEF p
    <2>5. /\ p.header \in Seq(Word) /\ p.pairs \in Seq(Word) /\ p.objects \in Seq(Word)
          /\ Even(p.pairs) /\ p.native \in BOOLEAN
      BY <2>3, <2>4 DEF ParseTyped, MemTyped, FixTyped, Only, Fields
    <2>6. Only(t, p, {"version", "header", "objects", "providers", "pairs", "native"})
      BY <2>4, OnlyMore
    <2>7. ParseTyped(p)
      BY <2>3, <2>5, <2>6, OpeningTyped
    <2>8. Only(s, p, Changed \cup {"providers"})
      BY <2>3, <2>4, OnlyTransitive
    <2>9. Changed \cup {"providers"} = Changed
      OBVIOUS
    <2> HIDE DEF Changed
    <2>10. ParseTyped(ReadProvider(s)) /\ Only(s, ReadProvider(s), Changed)
      BY <1>1, <1>8, <2>3, <2>7, <2>8, <2>9
    <2> QED
      BY <2>10 DEF Changed
  <1> QED
    BY <1>7, <1>8

\* What going over the key table in place comes to.
KeysInPlace(s, o) ==
    LET q == ReadStructAt(Use(s, "array", o), 1, o - 1)
    IN  IF q.out # "ok" THEN q
        ELSE IF q.val[1] = NULL \/ q.val[1] % 4 # 0 THEN Fail(q, "read")
        ELSE FromBuffer(q, q.val[1] \div 4, o)

LEMMA KeysInPlaceTyped ==
    ASSUME DataOK, NEW s, MemTyped(s), s.out = "ok", s.buffered, NEW o \in Word
    PROVE  LET t == KeysInPlace(s, o) IN
           StepTyped(s, t, {"read", "text"}) /\ (t.out = "ok" => t.val \in Seq(Word))
  <1> DEFINE u == Use(s, "array", o)
             q == ReadStructAt(u, 1, o - 1)
             size == q.val[1]
             a == FromBuffer(q, size \div 4, o)
  <1>0. o \in Nat /\ o - 1 \in Int /\ o - 1 <= NULL /\ 1 \in Nat
    BY DEF Word, DataOK
  <1>1. KeysInPlace(s, o) = IF q.out # "ok" THEN q
                            ELSE IF size = NULL \/ size % 4 # 0 THEN Fail(q, "read") ELSE a
    BY DEF KeysInPlace
  <1>2. StepTyped(s, u, {}) /\ u.out = "ok" /\ MemTyped(u) /\ u.buffered
    BY UseTyped DEF StepTyped, Only, Memory, Fields
  <1> HIDE DEF u
  <1>3. q = FromBuffer(u, 1, o - 1)
    BY <1>2 DEF ReadStructAt
  <1>4. StepTyped(u, q, {"read", "text"}) /\ (q.out = "ok" => q.val \in Seq(Word) /\ Len(q.val) = 1)
    <2> HIDE DEF q
    <2> DEFINE p == o - 1
               t == FromBuffer(u, 1, p)
    <2>1. p \in Int /\ 1 \in Nat /\ q = t
      BY <1>0, <1>3
    <2>2. MemTyped(u) /\ u.out = "ok"
      BY <1>2
    <2> HIDE DEF p
    <2>3. StepTyped(u, t, {"read", "text"}) /\ Answered(t, 1)
      BY <2>1, <2>2, FromBufferAnswers
    <2> HIDE DEF t
    <2> QED
      BY <2>1, <2>3 DEF Answered
  <1> HIDE DEF q
  <1>5. StepTyped(s, q, {"read", "text"}) /\ MemTyped(q)
    <2>1. MemTyped(q)
      BY <1>4 DEF StepTyped
    <2> QED
      BY <1>2, <1>4, <2>1, StepTypedTransitive
  <1>6. CASE q.out # "ok"
    BY <1>1, <1>5, <1>6
  <1>7. CASE q.out = "ok" /\ (size = NULL \/ size % 4 # 0)
    <2>1. StepTyped(q, Fail(q, "read"), {"read"}) /\ Fail(q, "read").out = "read"
      BY <1>5, FailTyped
    <2>2. StepTyped(q, Fail(q, "read"), {"read", "text"})
      BY <2>1, StepTypedMore
    <2> QED
      BY <1>1, <1>5, <1>7, <2>1, <2>2, StepTypedTransitive
  <1>8. CASE q.out = "ok" /\ ~(size = NULL \/ size % 4 # 0)
    <2>1. size \in Nat
      BY <1>4, <1>8, WordsAreInts
    <2>2. size \div 4 \in Nat
      BY <2>1
    <2> HIDE DEF size
    <2>3. StepTyped(q, a, {"read", "text"}) /\ (a.out = "ok" => a.val \in Seq(Word))
      BY <1>0, <1>5, <1>8, <2>2, FromBufferTyped
    <2> QED
      BY <1>1, <1>5, <1>8, <2>3, StepTypedTransitive
  <1> QED
    BY <1>6, <1>7, <1>8

LEMMA PairsTyped ==
    ASSUME DataOK, NEW s, ParseTyped(s), s.out = "ok", Len(s.header) = 6
    PROVE  LET t == ReadPairs(s) IN ParseTyped(t) /\ Only(s, t, Memory \cup {"pairs"})
  <1> DEFINE keys == s.header[1]
             inPlace == ~s.native /\ s.buffered /\ keys # NULL
             q == IF ~inPlace THEN ReadOffsetArray(s, keys) ELSE KeysInPlace(s, keys)
             t == [q EXCEPT !.pairs = q.val]
             Changed == Memory \cup {"pairs"}
  <1>1. ReadPairs(s) = IF q.out # "ok" THEN q ELSE IF Len(q.val) % 2 # 0 THEN Fail(q, "read") ELSE t
    BY DEF ReadPairs, KeysInPlace, Then
  <1>2. keys \in Word
    BY DEF ParseTyped, FixTyped
  <1>3. StepTyped(s, q, {"read", "text"}) /\ (q.out = "ok" => q.val \in Seq(Word))
    BY <1>2, OffsetArrayTyped, KeysInPlaceTyped DEF ParseTyped
  <1> HIDE DEF q
  <1>4. ParseTyped(q) /\ Only(s, q, Changed)
    BY <1>3, ReadIsOpening, OnlyMore DEF StepTyped
  <1>5. CASE q.out # "ok"
    BY <1>1, <1>4, <1>5
  <1>6. CASE q.out = "ok" /\ Len(q.val) % 2 # 0
    <2>1. ParseTyped(Fail(q, "read"))
      BY <1>4, FailIsTyped, ErrorsAreOutcomes DEF Errors
    <2>2. Only(q, Fail(q, "read"), {"out", "val"})
      BY <1>4, FailIs DEF ParseTyped, MemTyped, ReaderOK
    <2>3. Only(s, Fail(q, "read"), Changed \cup {"out", "val"})
      BY <1>4, <2>2, OnlyTransitive
    <2>4. Changed \cup {"out", "val"} = Changed
      BY DEF Memory
    <2> QED
      BY <1>1, <1>6, <2>1, <2>3, <2>4
  <1>7. CASE q.out = "ok" /\ ~(Len(q.val) % 2 # 0)
    <2>1. Only(q, t, {"pairs"}) /\ t.pairs = q.val
      BY <1>4 DEF ParseTyped, MemTyped, ReaderOK, Only, Shape, Fields
    <2> HIDE DEF t
    <2>2. /\ t.header \in Seq(Word) /\ t.objects \in Seq(Word) /\ t.native \in BOOLEAN
      BY <1>4, <2>1 DEF ParseTyped, MemTyped, FixTyped, Only, Fields
    <2>a. t.pairs \in Seq(Word) /\ Even(t.pairs)
      BY <1>3, <1>7, <2>1 DEF Even
    <2>3. Only(q, t, {"version", "header", "objects", "providers", "pairs", "native"})
      BY <2>1, OnlyMore
    <2>4. ParseTyped(t)
      BY <1>4, <2>2, <2>a, <2>3, OpeningTyped
    <2>5. Only(s, t, Changed \cup {"pairs"})
      BY <1>4, <2>1, OnlyTransitive
    <2>6. Changed \cup {"pairs"} = Changed
      OBVIOUS
    <2> QED
      BY <1>1, <1>7, <2>4, <2>5, <2>6
  <1> QED
    BY <1>5, <1>6, <1>7

LEMMA HandOverTyped ==
    ASSUME DataOK, NEW s, ParseTyped(s), s.out = "ok", Len(s.header) = 6
    PROVE  LET t == HandOver(s) IN ParseTyped(t) /\ Only(s, t, Memory \cup {"pairs", "native"})
  <1> DEFINE r == [s EXCEPT !.native = s.world \in {"private", "bridge", "fast"}]
             t == ReadPairs(r)
  <1>1. Only(s, r, {"native"}) /\ r.native \in BOOLEAN
    BY DEF ParseTyped, MemTyped, ReaderOK, Only, Shape, Fields
  <1>2. HandOver(s) = t
    BY DEF HandOver
  <1> HIDE DEF r
  <1>3. /\ r.header \in Seq(Word) /\ r.objects \in Seq(Word) /\ r.pairs \in Seq(Word)
        /\ Even(r.pairs) /\ r.out = s.out /\ r.header = s.header
    BY <1>1 DEF ParseTyped, FixTyped, Only, Fields
  <1>4. Only(s, r, {"version", "header", "objects", "providers", "pairs", "native"})
    BY <1>1, OnlyMore
  <1>5. ParseTyped(r)
    BY <1>1, <1>3, <1>4, OpeningTyped
  <1>6. ParseTyped(t) /\ Only(r, t, Memory \cup {"pairs"})
    BY <1>3, <1>5, PairsTyped
  <1> HIDE DEF t
  <1>7. Only(s, t, {"native"} \cup (Memory \cup {"pairs"}))
    BY <1>1, <1>6, OnlyTransitive
  <1>8. {"native"} \cup (Memory \cup {"pairs"}) = Memory \cup {"pairs", "native"}
    OBVIOUS
  <1> QED
    BY <1>2, <1>6, <1>7, <1>8

\* What the decoding of the table may change.
Tabling == Inner \cup {"pairs", "table"}

LEMMA StepIsTyped ==
    ASSUME DataOK, NEW s, ParseTyped(s), s.out = "ok", s.stack # <<>>
    PROVE  ParseTyped(Step(s)) /\ Only(s, Step(s), Tabling)
  <1>1. CASE Top(s).left # <<>>
    BY <1>1, NextTyped, OnlyMore DEF Step, Tabling
  <1>2. CASE Top(s).left = <<>> /\ Top(s).at = -1
    <2>1. {"pairs", "stack", "out", "val", "table"} \subseteq Tabling
      BY DEF Tabling, Inner, Scratch, Memory
    <2> QED
      BY <1>2, <2>1, FinishEntryTyped, OnlyMore DEF Step
  <1>3. CASE Top(s).left = <<>> /\ Top(s).at # -1
    BY <1>3, FinishLocationTyped, OnlyMore DEF Step, Tabling
  <1> QED
    BY <1>1, <1>2, <1>3

\* What may be kept: an object, a list of words, or None.
Offers == {None} \cup {v \in Vals : v.is = "custom" \/ (v.is = "array" /\ v.at \in Seq(Word))}

LEMMA CustomIs ==
    ASSUME NEW s, Shape(s), s.world # "plain", NEW o, NEW v
    PROVE  LET t == ReadCustom(s, o, v) IN
           IF Cached(s, o) \/ v = None THEN t = s
           ELSE /\ Only(s, t, {"cache", "foreign"})
                /\ t.cache = Plus(s.cache, o, v)
                /\ t.foreign = s.foreign \cup {o}
  <1> DEFINE r == Remember(s, o, v)
             t == [r EXCEPT !.foreign = @ \cup {o}]
  <1>1. ReadCustom(s, o, v) = IF Cached(s, o) \/ v = None THEN s ELSE t
    BY DEF ReadCustom
  <1>2. Only(s, r, {"cache"}) /\ r.cache = Plus(s.cache, o, v)
    BY RememberIs
  <1> HIDE DEF r
  <1>3. Only(r, t, {"foreign"}) /\ t.foreign = r.foreign \cup {o} /\ r.foreign = s.foreign /\ t.cache = r.cache
    BY <1>2 DEF Only, Shape, Fields
  <1> HIDE DEF t
  <1>4. Only(s, t, {"cache"} \cup {"foreign"})
    BY <1>2, <1>3, OnlyTransitive
  <1>5. {"cache"} \cup {"foreign"} = {"cache", "foreign"}
    OBVIOUS
  <1> QED
    BY <1>1, <1>2, <1>3, <1>4, <1>5

LEMMA CustomTyped ==
    ASSUME NEW s, ParseTyped(s), s.world # "plain", NEW o \in Word, NEW v \in Offers
    PROVE  LET t == ReadCustom(s, o, v) IN ParseTyped(t) /\ Only(s, t, {"cache", "foreign"})
  <1> DEFINE t == ReadCustom(s, o, v)
  <1>1. IF Cached(s, o) \/ v = None THEN t = s
        ELSE Only(s, t, {"cache", "foreign"}) /\ t.cache = Plus(s.cache, o, v)
    BY CustomIs DEF ParseTyped, MemTyped, ReaderOK
  <1>2. CASE Cached(s, o) \/ v = None
    BY <1>1, <1>2, OnlyNone DEF ParseTyped, MemTyped, ReaderOK
  <1>3. CASE ~(Cached(s, o) \/ v = None)
    <2>1. v \in Vals /\ (v.is = "array" => v.at \in Seq(Word))
      BY <1>3 DEF Offers
    <2> HIDE DEF t
    <2>2. CacheTyped(t.cache)
      BY <1>1, <1>3, <2>1, PlusTyped DEF ParseTyped, MemTyped
    <2>3. ParseTyped(t)
      BY <1>1, <1>3, <2>2 DEF ParseTyped, MemTyped, ReaderOK, FixTyped, Only, Fields
    <2> QED
      BY <1>1, <1>3, <2>3 DEF t
  <1> QED
    BY <1>2, <1>3

\* A custom decoder has written the word x at p, and left the cursor behind it.
Scribbled(s, p, x) == [s EXCEPT !.cursor = p + 1, !.written = [q \in {p} |-> x]]

LEMMA ScribbleTyped ==
    ASSUME DataOK, NEW s, ParseTyped(s), NEW p \in 0..Len(data) - 1, NEW x \in Word
    PROVE  LET t == Scribbled(s, p, x) IN
           /\ ParseTyped(t) /\ Only(s, t, {"cursor", "written"})
           /\ t.cursor = p + 1 /\ t.written = [q \in {p} |-> x]
  <1> DEFINE t == Scribbled(s, p, x)
  <1>1. /\ Only(s, t, {"cursor", "written"})
        /\ t.cursor = p + 1 /\ t.written = [q \in {p} |-> x]
    BY DEF Scribbled, ParseTyped, MemTyped, ReaderOK, Only, Shape, Fields
  <1> HIDE DEF t
  <1>2. t.cursor \in Word /\ WrittenOK(t.written)
    BY <1>1 DEF DataOK, Word, WrittenOK
  <1>3. ParseTyped(t)
    BY <1>1, <1>2 DEF ParseTyped, MemTyped, ReaderOK, FixTyped, Only, Fields
  <1> QED
    BY <1>1, <1>3 DEF t

-----------------------------------------------------------------------------
(* Direct calls to a reader *)

Calls == {"read", "from", "at", "bytes"}

\* A reader answers with the words that are there; no words are always there for a stream.
Answers(op, buffered, n, p) ==
    /\ n >= 0 /\ p >= 0
    /\ p + n <= Len(data) \/ (n = 0 /\ (op = "read" \/ ~buffered))

LEMMA StructAtIs ==
    ASSUME DataOK, NEW s, ReaderOK(s), s.out = "ok", s.written = Empty,
           NEW n \in Nat, NEW p \in Int, p <= NULL
    PROVE  LET t == ReadStructAt(s, n, p) IN
           /\ t.cursor = s.cursor
           /\ IF p >= 0 /\ (p + n <= Len(data) \/ (n = 0 /\ ~s.buffered))
              THEN t.out = "ok" /\ t.val = Words(p, n) ELSE t.out = "read" /\ t.val = <<>>
  <1>0. Len(data) \in Nat
    BY DEF DataOK
  <1>1. CASE s.buffered
    <2> DEFINE t == FromBuffer(s, n, p)
    <2>1. ReadStructAt(s, n, p) = t
      BY <1>1 DEF ReadStructAt
    <2>2. /\ Only(s, t, {"out", "val"})
          /\ IF Within(p, n) THEN t.out = "ok" /\ t.val = Words(p, n)
             ELSE t.out = "read" /\ t.val = <<>>
      BY FromBufferIs DEF ReaderOK
    <2> HIDE DEF t
    <2>3. t.cursor = s.cursor
      BY <2>2 DEF Only, Fields
    <2> QED
      BY <1>0, <1>1, <2>1, <2>2, <2>3 DEF Within
  <1>2. CASE ~s.buffered
    <2> DEFINE a == ReadAfterSeek(s, n, p)
               t == [a EXCEPT !.cursor = s.cursor]
    <2>1. ReadStructAt(s, n, p) = t
      BY <1>2 DEF ReadStructAt
    <2>2. /\ Only(s, a, Moved)
          /\ IF n >= 0 /\ p >= 0 /\ (n = 0 \/ p + n <= Len(data))
             THEN a.out = "ok" /\ a.cursor = p + n /\ a.val = Stream(s.written, p, n)
             ELSE a.out = "read" /\ a.cursor \in Word /\ a.val = <<>>
      <3>1. n \in Int
        OBVIOUS
      <3> HIDE DEF t
      <3> QED
        BY <3>1, ReadAfterSeekIs
    <2> HIDE DEF a
    <2>3. t.cursor = s.cursor /\ t.out = a.out /\ t.val = a.val
      BY <2>2 DEF Only, Shape, Fields
    <2> HIDE DEF t
    <2>4. CASE p >= 0 /\ (n = 0 \/ p + n <= Len(data))
      <3>1. Stream(s.written, p, n) = Words(p, n)
        BY <2>4, StreamIsBuffer
      <3> QED
        BY <1>0, <1>2, <2>1, <2>2, <2>3, <2>4, <3>1
    <2>5. CASE ~(p >= 0 /\ (n = 0 \/ p + n <= Len(data)))
      BY <1>0, <1>2, <2>1, <2>2, <2>3, <2>5
    <2> QED
      BY <2>4, <2>5
  <1> QED
    BY <1>1, <1>2

LEMMA SeekingIs ==
    ASSUME DataOK, NEW s, ReaderOK(s), s.out = "ok", s.written = Empty,
           NEW n \in Int, NEW p \in Int, p <= NULL
    PROVE  LET t == ReadAfterSeek(s, n, p) IN
           /\ t.cursor \in Word
           /\ IF n >= 0 /\ p >= 0 /\ (p + n <= Len(data) \/ n = 0)
              THEN t.out = "ok" /\ t.val = Words(p, n) ELSE t.out = "read" /\ t.val = <<>>
  <1> DEFINE t == ReadAfterSeek(s, n, p)
  <1>1. IF n >= 0 /\ p >= 0 /\ (n = 0 \/ p + n <= Len(data))
        THEN t.out = "ok" /\ t.cursor = p + n /\ t.val = Stream(s.written, p, n)
        ELSE t.out = "read" /\ t.cursor \in Word /\ t.val = <<>>
    BY ReadAfterSeekIs
  <1> HIDE DEF t
  <1>2. CASE n >= 0 /\ p >= 0 /\ (n = 0 \/ p + n <= Len(data))
    <2>1. Stream(s.written, p, n) = Words(p, n)
      BY <1>2, StreamIsBuffer
    <2>2. t.cursor \in Word
      BY <1>1, <1>2 DEF Word, DataOK
    <2> QED
      BY <1>1, <1>2, <2>1, <2>2 DEF t
  <1>3. CASE ~(n >= 0 /\ p >= 0 /\ (n = 0 \/ p + n <= Len(data)))
    BY <1>1, <1>3 DEF t
  <1> QED
    BY <1>2, <1>3

LEMMA PerformIs ==
    ASSUME DataOK, NEW s, ReaderOK(s), s.out = "ok", s.written = Empty,
           NEW op \in Calls, NEW n \in Int, op \in {"from", "at"} => n > 0,
           NEW p \in Int, p <= NULL
    PROVE  LET t == Perform(op, s, n, p) IN
           /\ t.cursor \in Word
           /\ op \in {"at", "bytes"} => t.cursor = s.cursor
           /\ IF Answers(op, s.buffered, n, p)
              THEN t.out = "ok" /\ t.val = Words(p, n) ELSE t.out = "read" /\ t.val = <<>>
  <1>0. s.cursor \in Word /\ Len(data) \in Nat /\ s.buffered \in BOOLEAN
    BY DEF ReaderOK, DataOK
  <1>1. CASE op = "read"
    <2>1. Perform(op, s, n, p) = ReadAfterSeek(s, n, p)
      BY <1>1 DEF Perform
    <2>2. LET t == ReadAfterSeek(s, n, p) IN
          /\ t.cursor \in Word
          /\ IF n >= 0 /\ p >= 0 /\ (p + n <= Len(data) \/ n = 0)
             THEN t.out = "ok" /\ t.val = Words(p, n) ELSE t.out = "read" /\ t.val = <<>>
      BY SeekingIs
    <2>3. Answers(op, s.buffered, n, p) <=> n >= 0 /\ p >= 0 /\ (p + n <= Len(data) \/ n = 0)
      BY <1>0, <1>1 DEF Answers
    <2> QED
      BY <1>1, <2>1, <2>2, <2>3
  <1>2. CASE op = "from"
    <2>1. Perform(op, s, n, p) = IF s.buffered THEN ReadStructAt(s, n, p) ELSE ReadAfterSeek(s, n, p)
      BY <1>2 DEF Perform, ReadStructFrom, ReadStructAt
    <2>2. n \in Nat /\ n # 0
      BY <1>2
    <2>3. LET t == ReadAfterSeek(s, n, p) IN
          /\ t.cursor \in Word
          /\ IF n >= 0 /\ p >= 0 /\ (p + n <= Len(data) \/ n = 0)
             THEN t.out = "ok" /\ t.val = Words(p, n) ELSE t.out = "read" /\ t.val = <<>>
      BY SeekingIs
    <2>4. LET t == ReadStructAt(s, n, p) IN
          /\ t.cursor = s.cursor
          /\ IF p >= 0 /\ (p + n <= Len(data) \/ (n = 0 /\ ~s.buffered))
             THEN t.out = "ok" /\ t.val = Words(p, n) ELSE t.out = "read" /\ t.val = <<>>
      BY <2>2, StructAtIs
    <2> QED
      BY <1>0, <1>2, <2>1, <2>2, <2>3, <2>4 DEF Answers
  <1>3. CASE op \in {"at", "bytes"}
    <2>1. CASE n < 0
      <3>1. Perform(op, s, n, p) = Fail(s, "read")
        BY <1>3, <2>1 DEF Perform, ReadBytesAt
      <3>2. Fail(s, "read").out = "read" /\ Fail(s, "read").val = <<>>
            /\ Fail(s, "read").cursor = s.cursor
        BY FailIs DEF ReaderOK, Only, Fields
      <3> QED
        BY <1>0, <2>1, <3>1, <3>2 DEF Answers
    <2>2. CASE n >= 0
      <3>1. Perform(op, s, n, p) = ReadStructAt(s, n, p)
        BY <1>3, <2>2 DEF Perform, ReadBytesAt
      <3>2. n \in Nat
        BY <2>2
      <3>3. LET t == ReadStructAt(s, n, p) IN
            /\ t.cursor = s.cursor
            /\ IF p >= 0 /\ (p + n <= Len(data) \/ (n = 0 /\ ~s.buffered))
               THEN t.out = "ok" /\ t.val = Words(p, n) ELSE t.out = "read" /\ t.val = <<>>
        BY <3>2, StructAtIs
      <3> QED
        BY <1>0, <1>3, <2>2, <3>1, <3>3 DEF Answers
    <2> QED
      BY <2>1, <2>2
  <1> QED
    BY <1>1, <1>2, <1>3 DEF Calls

-----------------------------------------------------------------------------
(* The types of the whole *)

Phases == {"header", "metadata", "providers", "entries", "done"}

\* The phases before the table, in which no custom decoder runs.
Early == {"header", "metadata", "providers"}

Whole(w, s, ph) ==
    /\ ParseTyped(s) /\ s.world = w /\ (s.buffered <=> w # "stream")
    /\ s.out = "ok" /\ ph # "header" => Len(s.header) = 6
    /\ w \notin WithRegistry \/ ph \in Early => s.written = Empty /\ s.foreign = {}
    /\ s.native => w \in {"private", "bridge", "fast"}

Acts == {"stream", "object", "list", "none"} \X (0..Len(data) - 1) \X Word

Typed ==
    /\ DataOK
    /\ phase \in Phases
    /\ calls \in Nat
    /\ acts \subseteq Acts
    /\ \A w \in World : Whole(w, parse[w], phase)

\* What only custom decoders and the first steps change.
Kept == {"world", "buffered", "header", "written", "foreign", "native"}

LEMMA WholeKept ==
    ASSUME NEW w, NEW s, NEW t, NEW from \in Phases, NEW to \in Phases, NEW changed,
           Whole(w, s, from), ParseTyped(t), s.out = "ok", Only(s, t, changed),
           changed \cap Kept = {},
           from = "header" => to = "header", to \in Early => from \in Early
    PROVE  Whole(w, t, to)
  <1>1. \A f \in Kept : t[f] = s[f]
    BY DEF Only, Kept, Fields
  <1> QED
    BY <1>1 DEF Whole, Kept

LEMMA SameWhole ==
    ASSUME NEW w, NEW s, NEW from \in Phases, NEW to \in Phases, Whole(w, s, from),
           from = "header" => s.out # "ok" \/ to = "header", to \in Early => from \in Early
    PROVE  Whole(w, s, to)
  BY DEF Whole

\* The steps of the parses that are going on.
LEMMA AdvanceIs ==
    ASSUME NEW from, NEW to, NEW who, NEW Work(_), Advance(from, to, who, Work)
    PROVE  /\ phase = from /\ phase' = to
           /\ \A w \in World : parse'[w] = IF w \in who THEN Work(parse[w]) ELSE parse[w]
           /\ data' = data /\ calls' = calls /\ acts' = acts /\ answers' = answers
  BY DEF Advance

LEMMA StartTyped ==
    ASSUME DataOK, NEW w \in World
    PROVE  Whole(w, Start(w), "header")
  <1> DEFINE s == Start(w)
  <1>1. Shape(s)
    BY DEF Start, Shape, Fields
  <1>2. /\ s.world = w /\ s.buffered = (w # "stream") /\ s.native = FALSE /\ s.cursor = 0
        /\ s.written = Empty /\ s.out = "ok" /\ s.cache = Empty /\ s.names = Empty
        /\ s.header = <<>> /\ s.objects = <<>> /\ s.pairs = <<>> /\ s.stack = <<>>
        /\ s.foreign = {}
    BY DEF Start
  <1> HIDE DEF s
  <1>3. DOMAIN Empty = {}
    BY DEF Empty
  <1>4. WrittenOK(Empty) /\ CacheTyped(Empty) /\ NamesTyped(Empty)
    BY <1>3 DEF WrittenOK, CacheTyped, NamesTyped
  <1>5. MemTyped(s)
    <2>1. 0 \in Word /\ (w # "stream") \in BOOLEAN /\ FALSE \in BOOLEAN
      BY DEF Word, DataOK
    <2>2. ReaderOK(s)
      BY <1>1, <1>2, <1>4, <2>1 DEF ReaderOK
    <2> QED
      BY <1>2, <1>4, <2>1, <2>2 DEF MemTyped
  <1>6. FixTyped(s)
    <2>1. <<>> \in Seq(Word) /\ <<>> \in Seq(Frames) /\ Even(<<>>) /\ Based(<<>>)
      BY DEF Even, Based
    <2> QED
      BY <1>2, <2>1 DEF FixTyped, Stacks
  <1>7. ParseTyped(s)
    BY <1>2, <1>5, <1>6 DEF ParseTyped, Outcome
  <1> QED
    BY <1>2, <1>7 DEF Whole, s

LEMMA InitTyped ==
    Init => Typed
  <1> SUFFICES ASSUME Init
               PROVE  Typed
    OBVIOUS
  <1>1. PICK c \in Catalogs : data = c.data /\ calls = c.calls /\ acts = c.acts
    BY DEF Init
  <1>2. DataOK /\ calls \in Nat /\ acts \subseteq Acts
    BY <1>1, CatalogsAssumption DEF DataOK, Word, Acts
  <1>3. \A w \in World : Whole(w, parse[w], phase)
    BY <1>2, StartTyped DEF Init
  <1> QED
    BY <1>2, <1>3 DEF Typed, Init, Phases

\* A step of the parses that are going on leaves everything typed if it does each of them.
\* What a parse is in the next state does not depend on the data but through their words.
LEMMA WholeNext ==
    ASSUME data' = data, NEW to, phase' = to, \A w \in World : Whole(w, parse'[w], to)
    PROVE  \A w \in World : Whole(w, parse[w], phase)'
  <1> SUFFICES ASSUME NEW w \in World
               PROVE  Whole(w, parse[w], phase)'
    OBVIOUS
  <1>1. Whole(w, parse'[w], to)
    OBVIOUS
  <1>2. MemTyped(parse'[w]) /\ FixTyped(parse'[w]) /\ parse'[w].out \in Outcome
    BY <1>1 DEF Whole, ParseTyped
  <1>3. MemTyped(parse[w])'
    <2>1. ReaderOK(parse[w])'
      BY <1>2 DEF MemTyped, ReaderOK, WrittenOK, Word
    <2>2. CacheTyped(parse[w].cache)'
      BY <1>2 DEF MemTyped, CacheTyped, Word
    <2>3. NamesTyped(parse[w].names)'
      BY <1>2 DEF MemTyped, NamesTyped
    <2> QED
      BY <1>2, <2>1, <2>2, <2>3 DEF MemTyped
  <1>4. FixTyped(parse[w])'
    <2>1. Word' = Word
      BY DEF Word
    <2>2. Records' = Records
      BY <2>1 DEF Records
    <2>3. EntryFrames' = EntryFrames /\ LocationFrames' = LocationFrames
      BY <2>1, <2>2 DEF EntryFrames, LocationFrames
    <2>4. Stacks' = Stacks
      BY <2>3 DEF Stacks, Frames
    <2> QED
      BY <1>2, <2>1, <2>4 DEF FixTyped
  <1>5. ParseTyped(parse[w])'
    BY <1>2, <1>3, <1>4 DEF ParseTyped
  <1> QED
    BY <1>1, <1>5 DEF Whole

LEMMA AdvanceTyped ==
    ASSUME Typed, NEW to \in Phases, NEW who, who \subseteq Going,
           data' = data, calls' = calls, acts' = acts, phase' = to,
           to \in Early => phase \in Early, phase = "header" => who = Going,
           \A w \in World \ who : parse'[w] = parse[w],
           \A w \in who : Whole(w, parse'[w], to)
    PROVE  Typed'
  <1>1. DataOK' /\ calls' \in Nat /\ acts' \subseteq Acts'
    BY DEF Typed, DataOK, Word, Acts
  <1>2. ASSUME NEW w \in World \ who
        PROVE  Whole(w, parse'[w], to)
    <2>1. phase = "header" => parse[w].out # "ok"
      BY <1>2 DEF Going
    <2>2. Whole(w, parse[w], phase) /\ phase \in Phases
      BY <1>2 DEF Typed
    <2> QED
      BY <1>2, <2>1, <2>2, SameWhole
  <1>3. \A w \in World : Whole(w, parse'[w], to)
    BY <1>2
  <1>4. \A w \in World : Whole(w, parse[w], phase)'
    BY <1>3, WholeNext
  <1> QED
    BY <1>1, <1>4 DEF Typed

LEMMA OpeningKept ==
    /\ (Memory \cup {"objects"}) \cap Kept = {}
    /\ (Memory \cup {"objects", "providers"}) \cap Kept = {}
    /\ (Memory \cup {"pairs"}) \cap Kept = {}
    /\ Tabling \cap Kept = {} /\ Inner \cap Kept = {}
  BY DEF Memory, Kept, Tabling, Inner, Scratch

LEMMA HandsOver ==
    ASSUME DataOK, NEW s, ParseTyped(s), s.out = "ok", Len(s.header) = 6
    PROVE  HandOver(s).native => s.world \in {"private", "bridge", "fast"}
  <1> DEFINE r == [s EXCEPT !.native = s.world \in {"private", "bridge", "fast"}]
             t == ReadPairs(r)
  <1>1. Only(s, r, {"native"}) /\ r.native = (s.world \in {"private", "bridge", "fast"})
    BY DEF ParseTyped, MemTyped, ReaderOK, Only, Shape, Fields
  <1>2. HandOver(s) = t
    BY DEF HandOver
  <1> HIDE DEF r
  <1>3. /\ r.header \in Seq(Word) /\ r.objects \in Seq(Word) /\ r.pairs \in Seq(Word)
        /\ Even(r.pairs) /\ r.out = s.out /\ r.header = s.header /\ r.native \in BOOLEAN
    BY <1>1 DEF ParseTyped, FixTyped, Only, Fields
  <1>4. Only(s, r, {"version", "header", "objects", "providers", "pairs", "native"})
    BY <1>1, OnlyMore
  <1>5. ParseTyped(r)
    BY <1>3, <1>4, OpeningTyped
  <1>6. Only(r, t, Memory \cup {"pairs"})
    BY <1>3, <1>5, PairsTyped
  <1> HIDE DEF t
  <1>7. t.native = r.native
    BY <1>6 DEF Only, Memory, Fields
  <1> QED
    BY <1>1, <1>2, <1>7

\* What a custom decoder does to one parse.
AfterAct(s, x) ==
    IF x[1] # "stream" THEN ReadCustom(s, x[2], Offered(x)) ELSE Scribbled(s, x[2], x[3])

LEMMA OneWord ==
    ASSUME DataOK, NEW y \in Word
    PROVE  <<y>> \in Seq(Int) /\ <<y>> \in Seq(Word)
  <1>1. y \in Int
    BY DEF Word, DataOK
  <1> QED
    BY <1>1

LEMMA OfferedTyped ==
    ASSUME DataOK, NEW x \in Acts, x[1] # "stream"
    PROVE  Offered(x) \in Offers
  <1>1. x[2] \in Word /\ x[3] \in Word /\ x[1] \in {"object", "list", "none"} /\ Word \subseteq Int
    BY DEF Acts, Word, DataOK
  <1>2. <<x[2]>> \in Seq(Int) /\ <<x[3]>> \in Seq(Int) /\ <<x[3]>> \in Seq(Word)
    BY <1>1, OneWord
  <1>3. CASE x[1] = "object"
    <2>1. Offered(x) = [is |-> "custom", at |-> <<x[2]>>]
      BY <1>3 DEF Offered, Value
    <2> QED
      BY <1>2, <2>1 DEF Offers, Vals, Sorts
  <1>4. CASE x[1] = "list"
    <2>1. Offered(x) = [is |-> "array", at |-> <<x[3]>>]
      BY <1>4 DEF Offered, Value
    <2>2. Offered(x) \in Vals
      BY <1>2, <2>1 DEF Vals, Sorts
    <2>3. Offered(x).is = "array" /\ Offered(x).at \in Seq(Word)
      BY <1>2, <2>1
    <2> QED
      BY <2>2, <2>3 DEF Offers
  <1>5. CASE x[1] = "none"
    BY <1>5 DEF Offered, Offers
  <1> QED
    BY <1>1, <1>3, <1>4, <1>5

LEMMA WholeCallback ==
    ASSUME DataOK, NEW w \in WithRegistry, NEW s, Whole(w, s, "entries"), NEW x \in Acts
    PROVE  Whole(w, AfterAct(s, x), "entries")
  <1> DEFINE v == Offered(x)
             c == ReadCustom(s, x[2], v)
             t == Scribbled(s, x[2], x[3])
  <1>1. x[2] \in 0..Len(data) - 1 /\ x[3] \in Word
    BY DEF Acts
  <1>a. x[1] # "stream" => v \in Offers
    BY OfferedTyped
  <1>2. x[2] \in Word
    BY <1>1 DEF Word, DataOK
  <1>3. ParseTyped(s) /\ s.world # "plain"
    BY DEF Whole, WithRegistry
  <1>4. x[1] # "stream" => ParseTyped(c) /\ Only(s, c, {"cache", "foreign"})
    BY <1>2, <1>3, <1>a, CustomTyped
  <1>5. ParseTyped(t) /\ Only(s, t, {"cursor", "written"})
    BY <1>1, <1>3, ScribbleTyped
  <1> HIDE DEF c, t
  <1>6. x[1] # "stream" => Whole(w, c, "entries")
    BY <1>4 DEF Whole, Early, Only, Fields
  <1>7. Whole(w, t, "entries")
    BY <1>5 DEF Whole, Early, Only, Fields
  <1> QED
    BY <1>6, <1>7 DEF c, t, v, AfterAct

LEMMA CallbackTyped ==
    ASSUME Typed, CallbackActs
    PROVE  Typed'
  <1>1. /\ phase = "entries" /\ phase' = "entries" /\ data' = data /\ calls' = calls /\ acts' = {}
    BY DEF CallbackActs
  <1>2. DataOK /\ \A w \in World : Whole(w, parse[w], "entries")
    BY <1>1 DEF Typed
  <1>3. PICK x \in acts :
           parse' = [w \in World |->
                IF w \notin WithRegistry \cap Going THEN parse[w]
                ELSE AfterAct(parse[w], x)]
    BY DEF CallbackActs, Scribbled, AfterAct
  <1>4. x \in Acts
    BY DEF Typed
  <1>5. ASSUME NEW w \in World
        PROVE  Whole(w, parse'[w], "entries")
    <2>1. CASE w \notin WithRegistry \cap Going
      BY <1>2, <1>3, <1>5, <2>1
    <2>2. CASE w \in WithRegistry \cap Going
      <3>1. parse'[w] = AfterAct(parse[w], x)
        BY <1>3, <1>5, <2>2
      <3>2. Whole(w, parse[w], "entries")
        BY <1>2, <1>5
      <3>3. Whole(w, AfterAct(parse[w], x), "entries")
        BY <1>2, <1>4, <2>2, <3>2, WholeCallback
      <3> QED
        BY <3>1, <3>3
    <2> QED
      BY <2>1, <2>2
  <1>6. \A w \in World : Whole(w, parse[w], phase)'
    BY <1>1, <1>5, WholeNext
  <1>7. DataOK' /\ phase' \in Phases /\ calls' \in Nat /\ acts' \subseteq Acts'
    BY <1>1 DEF Typed, DataOK, Word
  <1> QED
    BY <1>6, <1>7 DEF Typed

\* A call to the reader of a parse: what it answers, and where it leaves the cursor.
Called(w, op, n, p) == Perform(op, [parse[w] EXCEPT !.out = "ok"], n, p)

\* The answer is that of a reader with a buffer, or without.
Replied(t, buffered, op, n, p) ==
    IF Answers(op, buffered, n, p)
    THEN t.out = "ok" /\ t.val = Words(p, n) ELSE t.out = "read" /\ t.val = <<>>

LEMMA CallIs ==
    ASSUME Typed, phase = "metadata", NEW w \in World, NEW op \in Calls, NEW n \in Int,
           op \in {"from", "at"} => n > 0, NEW p \in Int, p <= NULL
    PROVE  LET t == Called(w, op, n, p) IN
           /\ t.cursor \in Word
           /\ op \in {"at", "bytes"} => t.cursor = parse[w].cursor
           /\ Replied(t, w # "stream", op, n, p)
  <1> DEFINE s == parse[w]
             r == [s EXCEPT !.out = "ok"]
             t == Perform(op, r, n, p)
  <1>1. DataOK /\ Whole(w, s, "metadata")
    BY DEF Typed
  <1> HIDE DEF s
  <1>2. ReaderOK(s) /\ s.written = Empty /\ (s.buffered <=> w # "stream") /\ s.buffered \in BOOLEAN
    BY <1>1 DEF Whole, ParseTyped, MemTyped, ReaderOK, Early
  <1>3. Only(s, r, {"out"}) /\ r.out = "ok"
    BY <1>2 DEF ReaderOK, Only, Shape, Fields
  <1> HIDE DEF r
  <1>4. ReaderOK(r) /\ r.written = Empty /\ r.buffered = s.buffered /\ r.cursor = s.cursor
    BY <1>2, <1>3 DEF ReaderOK, Only, Fields
  <1>5. /\ t.cursor \in Word
        /\ op \in {"at", "bytes"} => t.cursor = r.cursor
        /\ IF Answers(op, r.buffered, n, p)
           THEN t.out = "ok" /\ t.val = Words(p, n) ELSE t.out = "read" /\ t.val = <<>>
    BY <1>1, <1>3, <1>4, PerformIs
  <1> HIDE DEF t
  <1>6. Called(w, op, n, p) = t
    BY DEF Called, t, r, s
  <1>7. Replied(t, w # "stream", op, n, p)
    <2>1. CASE w = "stream"
      BY <1>2, <1>4, <1>5, <2>1 DEF Replied, Answers
    <2>2. CASE w # "stream"
      BY <1>2, <1>4, <1>5, <2>2 DEF Replied, Answers
    <2> QED
      BY <2>1, <2>2
  <1> QED
    BY <1>4, <1>5, <1>6, <1>7 DEF s

LEMMA CallTyped ==
    ASSUME Typed, NEW op \in Calls, NEW n \in Int, NEW p \in Int, p <= NULL, CallReader(op, n, p)
    PROVE  Typed'
  <1>1. /\ phase = "metadata" /\ phase' = "metadata" /\ data' = data /\ calls > 0 /\ calls' = calls - 1
        /\ acts' = acts /\ (op \in {"from", "at"} => n > 0)
        /\ \A w \in World : parse'[w] = [parse[w] EXCEPT !.cursor = Called(w, op, n, p).cursor]
    BY DEF CallReader, Called
  <1>2. ASSUME NEW w \in World
        PROVE  Whole(w, parse'[w], "metadata")
    <2> DEFINE s == parse[w]
               c == Called(w, op, n, p).cursor
               t == [s EXCEPT !.cursor = c]
    <2>1. Whole(w, s, "metadata") /\ c \in Word
      BY <1>1, <1>2, CallIs DEF Typed
    <2> HIDE DEF s, c
    <2>2. Only(s, t, {"cursor"}) /\ t.cursor = c
      BY <2>1 DEF Whole, ParseTyped, MemTyped, ReaderOK, Only, Shape, Fields
    <2> HIDE DEF t
    <2>3. ParseTyped(t)
      BY <2>1, <2>2 DEF Whole, ParseTyped, MemTyped, ReaderOK, FixTyped, Only, Fields
    <2>4. Whole(w, t, "metadata")
      BY <2>1, <2>2, <2>3 DEF Whole, Early, Only, Fields
    <2>5. parse'[w] = t
      BY <1>1, <1>2 DEF t, s, c
    <2> QED
      BY <2>4, <2>5
  <1>3. \A w \in World : Whole(w, parse[w], phase)'
    BY <1>1, <1>2, WholeNext
  <1>4. DataOK' /\ phase' \in Phases /\ calls' \in Nat /\ acts' \subseteq Acts'
    BY <1>1 DEF Typed, DataOK, Word, Acts
  <1> QED
    BY <1>3, <1>4 DEF Typed

LEMMA NextIsTyped ==
    ASSUME Typed, Next
    PROVE  Typed'
  <1>0. /\ DataOK /\ phase \in Phases /\ (\A w \in World : Whole(w, parse[w], phase))
        /\ {"header", "metadata", "providers"} = Early
        /\ {"header", "metadata", "providers", "entries", "done"} = Phases
    BY DEF Typed, Early, Phases
  <1>1. CASE DecodeHeader
    <2>1. /\ phase = "header" /\ phase' = "metadata"
          /\ \A w \in World : parse'[w] = IF w \in Going THEN ReadHeader(parse[w]) ELSE parse[w]
          /\ data' = data /\ calls' = calls /\ acts' = acts
      BY <1>1 DEF DecodeHeader, Advance
    <2>2. ASSUME NEW w \in Going
          PROVE  Whole(w, parse'[w], "metadata")
      <3> DEFINE s == parse[w]
                 t == ReadHeader(s)
      <3>1. w \in World /\ s.out = "ok" /\ Whole(w, s, "header")
        BY <1>0, <2>1, <2>2 DEF Going
      <3> HIDE DEF s
      <3>2. ParseTyped(t) /\ Only(s, t, Opening \ {"native"}) /\ (t.out = "ok" => Len(t.header) = 6)
        BY <1>0, <3>1, HeaderTyped DEF Whole
      <3> HIDE DEF t
      <3>3. /\ t.world = s.world /\ t.buffered = s.buffered /\ t.written = s.written
            /\ t.foreign = s.foreign /\ t.native = s.native
        BY <3>2 DEF Only, Opening, Scratch, Memory, Fields
      <3>4. Whole(w, t, "metadata")
        BY <3>1, <3>2, <3>3 DEF Whole, Early
      <3> QED
        BY <2>1, <3>1, <3>4 DEF s, t
    <2> QED
      BY <1>0, <2>1, <2>2, AdvanceTyped DEF Going
  <1>2. CASE DecodeMetadata
    <2>1. /\ phase = "metadata" /\ phase' = "providers"
          /\ \A w \in World : parse'[w] = IF w \in Going THEN ReadObjects(parse[w]) ELSE parse[w]
          /\ data' = data /\ calls' = calls /\ acts' = acts
      BY <1>2 DEF DecodeMetadata, Advance
    <2>2. ASSUME NEW w \in Going
          PROVE  Whole(w, parse'[w], "providers")
      <3> DEFINE s == parse[w]
                 t == ReadObjects(s)
      <3>1. w \in World /\ s.out = "ok" /\ Whole(w, s, "metadata")
        BY <1>0, <2>1, <2>2 DEF Going
      <3> HIDE DEF s
      <3>2. ParseTyped(t) /\ Only(s, t, Memory \cup {"objects"})
        BY <1>0, <3>1, ObjectsTyped DEF Whole
      <3>3. "metadata" # "header" /\ "metadata" \in Early /\ {"metadata", "providers"} \subseteq Phases
        BY DEF Early, Phases
      <3> HIDE DEF t
      <3>4. Whole(w, t, "providers")
        BY <3>1, <3>2, <3>3, WholeKept, OpeningKept
      <3> QED
        BY <2>1, <3>1, <3>4 DEF s, t
    <2> QED
      BY <1>0, <2>1, <2>2, AdvanceTyped DEF Going, Early
  <1>3. CASE DecodeProvider
    <2>1. /\ phase = "providers" /\ phase' = "providers"
          /\ \A w \in World : parse'[w] = IF w \in Reading THEN ReadProvider(parse[w]) ELSE parse[w]
          /\ data' = data /\ calls' = calls /\ acts' = acts
      BY <1>3 DEF DecodeProvider, Advance
    <2>2. ASSUME NEW w \in Reading
          PROVE  Whole(w, parse'[w], "providers")
      <3> DEFINE s == parse[w]
                 t == ReadProvider(s)
      <3>1. w \in World /\ s.out = "ok" /\ Whole(w, s, "providers") /\ s.objects # <<>>
        BY <1>0, <2>1, <2>2 DEF Going, Reading
      <3> HIDE DEF s
      <3>2. ParseTyped(t) /\ Only(s, t, Memory \cup {"objects", "providers"})
        BY <1>0, <3>1, ProviderTyped DEF Whole
      <3>3. "providers" # "header" /\ "providers" \in Phases
        BY DEF Phases
      <3> HIDE DEF t
      <3>4. Whole(w, t, "providers")
        BY <3>1, <3>2, <3>3, WholeKept, OpeningKept
      <3> QED
        BY <2>1, <3>1, <3>4 DEF s, t
    <2> QED
      BY <1>0, <2>1, <2>2, AdvanceTyped DEF Going, Reading, Early
  <1>4. CASE DecodeKeyTable
    <2>1. /\ phase = "providers" /\ phase' = "entries"
          /\ \A w \in World : parse'[w] = IF w \in Going THEN HandOver(parse[w]) ELSE parse[w]
          /\ data' = data /\ calls' = calls /\ acts' = acts
      BY <1>4 DEF DecodeKeyTable, Advance
    <2>2. ASSUME NEW w \in Going
          PROVE  Whole(w, parse'[w], "entries")
      <3> DEFINE s == parse[w]
                 t == HandOver(s)
      <3>1. w \in World /\ s.out = "ok" /\ Whole(w, s, "providers")
        BY <1>0, <2>1, <2>2 DEF Going
      <3> HIDE DEF s
      <3>2. ParseTyped(t) /\ Only(s, t, Memory \cup {"pairs", "native"})
        BY <1>0, <3>1, HandOverTyped DEF Whole
      <3>3. t.native => s.world \in {"private", "bridge", "fast"}
        BY <1>0, <3>1, HandsOver DEF Whole
      <3> HIDE DEF t
      <3>4. /\ t.world = s.world /\ t.buffered = s.buffered /\ t.written = s.written
            /\ t.foreign = s.foreign /\ t.header = s.header
        BY <3>2 DEF Only, Memory, Fields
      <3>5. Whole(w, t, "entries")
        BY <3>1, <3>2, <3>3, <3>4 DEF Whole, Early
      <3> QED
        BY <2>1, <3>1, <3>5 DEF s, t
    <2> QED
      BY <1>0, <2>1, <2>2, AdvanceTyped DEF Going, Early
  <1>5. CASE BeginEntry
    <2>1. /\ phase = "entries" /\ phase' = "entries" /\ Inside = {}
          /\ \A w \in World : parse'[w] = IF w \in Busy THEN StartEntry(parse[w]) ELSE parse[w]
          /\ data' = data /\ calls' = calls /\ acts' = acts
      BY <1>5 DEF BeginEntry, Advance
    <2>2. ASSUME NEW w \in Busy
          PROVE  Whole(w, parse'[w], "entries")
      <3> DEFINE s == parse[w]
                 t == StartEntry(s)
      <3>1. w \in World /\ s.out = "ok" /\ Whole(w, s, "entries") /\ s.pairs # <<>> /\ s.stack = <<>>
        BY <1>0, <2>1, <2>2 DEF Going, Busy, Inside
      <3> HIDE DEF s
      <3>2. ParseTyped(t) /\ Only(s, t, Inner)
        BY <1>0, <3>1, StartEntryTyped DEF Whole
      <3>3. "entries" # "header" /\ "entries" \in Phases
        BY DEF Phases
      <3> HIDE DEF t
      <3>4. Whole(w, t, "entries")
        BY <3>1, <3>2, <3>3, WholeKept, OpeningKept
      <3> QED
        BY <2>1, <3>1, <3>4 DEF s, t
    <2> QED
      BY <1>0, <2>1, <2>2, AdvanceTyped DEF Going, Busy, Early
  <1>6. CASE DecodeLocation
    <2>1. /\ phase = "entries" /\ phase' = "entries"
          /\ \A w \in World : parse'[w] = IF w \in Innermost THEN Step(parse[w]) ELSE parse[w]
          /\ data' = data /\ calls' = calls /\ acts' = acts
      BY <1>6 DEF DecodeLocation, Advance
    <2>2. ASSUME NEW w \in Innermost
          PROVE  Whole(w, parse'[w], "entries")
      <3> DEFINE s == parse[w]
                 t == Step(s)
      <3>0. w \in Going /\ parse[w].stack # <<>>
        BY <2>2 DEF Innermost, Inside, Busy
      <3>1. w \in World /\ s.out = "ok" /\ Whole(w, s, "entries") /\ s.stack # <<>>
        BY <1>0, <2>1, <3>0 DEF Going
      <3> HIDE DEF s
      <3>2. ParseTyped(t) /\ Only(s, t, Tabling)
        BY <1>0, <3>1, StepIsTyped DEF Whole
      <3>3. "entries" # "header" /\ "entries" \in Phases
        BY DEF Phases
      <3> HIDE DEF t
      <3>4. Whole(w, t, "entries")
        BY <3>1, <3>2, <3>3, WholeKept, OpeningKept
      <3> QED
        BY <2>1, <3>1, <3>4 DEF s, t
    <2>3. Innermost \subseteq Going
      BY DEF Innermost, Inside, Busy
    <2> HIDE DEF Innermost
    <2> QED
      BY <1>0, <2>1, <2>2, <2>3, AdvanceTyped DEF Going, Early
  <1>7. CASE Finish
    <2>1. /\ phase = "entries" /\ phase' = "done"
          /\ \A w \in World : parse'[w] = parse[w]
          /\ data' = data /\ calls' = calls /\ acts' = acts
      BY <1>7 DEF Finish, Advance
    <2>2. "done" \in Phases /\ "done" \notin Early
      BY DEF Phases, Early
    <2>3. \A w \in World : Whole(w, parse[w], "entries")
      BY <1>0, <2>1
    <2>4. \A w \in World : Whole(w, parse'[w], "done")
      BY <2>1, <2>2, <2>3 DEF Whole
    <2> DEFINE who == {}
    <2>5. /\ who \subseteq Going /\ (\A w \in World \ who : parse'[w] = parse[w])
          /\ \A w \in who : Whole(w, parse'[w], "done")
      BY <2>1
    <2> HIDE DEF who
    <2> QED
      BY <1>0, <2>1, <2>2, <2>5, AdvanceTyped
  <1>8. CASE CallbackActs
    BY <1>8, CallbackTyped
  <1>9. CASE \E op \in {"read", "from", "at", "bytes"}, n \in Counts, p \in Positions :
                CallReader(op, n, p)
    <2>1. PICK op \in {"read", "from", "at", "bytes"}, n \in Counts, p \in Positions :
                 CallReader(op, n, p)
      BY <1>9
    <2>2. Calls = {"read", "from", "at", "bytes"} /\ n \in Int /\ p \in Int /\ p <= NULL
      BY CatalogsAssumption DEF Calls
    <2> QED
      BY <2>1, <2>2, CallTyped
  <1> QED
    BY <1>1, <1>2, <1>3, <1>4, <1>5, <1>6, <1>7, <1>8, <1>9 DEF Next

\* Typed is an invariant.
LEMMA SpecTyped == Spec => []Typed
  <1>1. ASSUME Typed, UNCHANGED vars
        PROVE  Typed'
    <2>1. \A w \in World : Whole(w, parse[w], phase)'
      <3>1. data' = data /\ phase' = phase /\ parse' = parse
        BY <1>1 DEF vars
      <3>2. \A w \in World : Whole(w, parse'[w], phase)
        BY <1>1, <3>1 DEF Typed
      <3> QED
        BY <3>1, <3>2, WholeNext
    <2>2. DataOK' /\ phase' \in Phases /\ calls' \in Nat /\ acts' \subseteq Acts'
      BY <1>1 DEF vars, Typed, DataOK, Word, Acts
    <2> QED
      BY <2>1, <2>2 DEF Typed
  <1>2. Typed /\ [Next]_vars => Typed'
    BY <1>1, NextIsTyped
  <1> QED
    BY <1>2, InitTyped, PTL DEF Spec

\* Whatever the words of a catalog, every parse of it ends each of its phases with a known
\* outcome, a cursor within bounds, a header of six words and a key table of pairs.
THEOREM ParsesAreTyped == Spec => []TypeOK
  <1>1. Typed => TypeOK
    <2> SUFFICES ASSUME Typed
                 PROVE  TypeOK
      OBVIOUS
    <2>1. ASSUME NEW w \in World
          PROVE  /\ parse[w].out \in Outcome
                 /\ parse[w].cursor \in 0..NULL
                 /\ parse[w].out = "ok" /\ phase # "header" => Len(parse[w].header) = 6
                 /\ Len(parse[w].pairs) % 2 = 0
      BY <2>1 DEF Typed, Whole, ParseTyped, MemTyped, ReaderOK, FixTyped, Even, Word
    <2> QED
      BY <2>1 DEF Typed, TypeOK, Phases
  <1> QED
    BY <1>1, SpecTyped, PTL

LEMMA CallsAgree ==
    ASSUME Typed, NEW op \in Calls, NEW n \in Int, NEW p \in Int, p <= NULL, CallReader(op, n, p)
    PROVE  ReadersAgree'
  <1> DEFINE after == [w \in World |-> Perform(op, [parse[w] EXCEPT !.out = "ok"], n, p)]
  <1>1. /\ phase = "metadata" /\ data' = data /\ (op \in {"from", "at"} => n > 0)
        /\ answers' = [op |-> op, n |-> n, p |-> p,
                       of |-> [w \in World |-> <<after[w].out, after[w].val>>]]
    BY DEF CallReader
  <1>2. /\ after["buffer"] = Called("buffer", op, n, p)
        /\ after["stream"] = Called("stream", op, n, p)
    BY DEF World, Called
  <1> HIDE DEF after
  <1>3. /\ answers'.op = op /\ answers'.n = n /\ answers'.p = p
        /\ answers'.of["buffer"] = <<after["buffer"].out, after["buffer"].val>>
        /\ answers'.of["stream"] = <<after["stream"].out, after["stream"].val>>
    BY <1>1 DEF World
  <1>4. /\ IF Answers(op, TRUE, n, p)
           THEN after["buffer"].out = "ok" /\ after["buffer"].val = Words(p, n)
           ELSE after["buffer"].out = "read" /\ after["buffer"].val = <<>>
        /\ IF Answers(op, FALSE, n, p)
           THEN after["stream"].out = "ok" /\ after["stream"].val = Words(p, n)
           ELSE after["stream"].out = "read" /\ after["stream"].val = <<>>
    <2>1. "buffer" \in World /\ "stream" \in World
      BY DEF World
    <2>2. Replied(after["buffer"], "buffer" # "stream", op, n, p)
      BY <1>1, <1>2, <2>1, CallIs
    <2>3. Replied(after["stream"], "stream" # "stream", op, n, p)
      BY <1>1, <1>2, <2>1, CallIs
    <2> QED
      BY <2>2, <2>3 DEF Replied, Answers
  <1>5. ASSUME ~(op = "bytes" /\ n = 0 /\ p > Len(data))
        PROVE  Answers(op, TRUE, n, p) <=> Answers(op, FALSE, n, p)
    <2>1. Len(data) \in Nat
      BY DEF Typed, DataOK
    <2> QED
      BY <1>1, <1>5, <2>1 DEF Answers, Calls
  <1> QED
    BY <1>1, <1>3, <1>4, <1>5 DEF ReadersAgree

\* Whatever is asked of it, a stream reader answers as one with a buffer does: the same
\* bytes, or the same error.
THEOREM ReadersAlwaysAgree == Spec => []ReadersAgree
  <1>1. Init => ReadersAgree
    BY DEF Init, ReadersAgree
  <1>2. ASSUME Typed, ReadersAgree, [Next]_vars
        PROVE  ReadersAgree'
    <2>1. CASE \E op \in {"read", "from", "at", "bytes"}, n \in Counts, p \in Positions :
                  CallReader(op, n, p)
      <3>1. PICK op \in {"read", "from", "at", "bytes"}, n \in Counts, p \in Positions :
                   CallReader(op, n, p)
        BY <2>1
      <3>2. Calls = {"read", "from", "at", "bytes"} /\ n \in Int /\ p \in Int /\ p <= NULL
        BY CatalogsAssumption DEF Calls
      <3> QED
        BY <1>2, <3>1, <3>2, CallsAgree
    <2>2. CASE UNCHANGED vars
      BY <1>2, <2>2 DEF ReadersAgree, vars
    <2>3. CASE DecodeHeader \/ DecodeMetadata \/ DecodeProvider \/ DecodeKeyTable \/ BeginEntry
               \/ DecodeLocation \/ Finish \/ CallbackActs
      <3>1. answers' = answers /\ data' = data
        BY <2>3 DEF DecodeHeader, DecodeMetadata, DecodeProvider, DecodeKeyTable, BeginEntry,
                    DecodeLocation, Finish, CallbackActs, Advance
      <3> QED
        BY <1>2, <3>1 DEF ReadersAgree
    <2> QED
      BY <1>2, <2>1, <2>2, <2>3 DEF Next
  <1> QED
    BY <1>1, <1>2, SpecTyped, PTL DEF Spec

\* A read at an absolute position, even one that fails, leaves the cursor of a stream reader
\* where it was, for whoever reads on from there.
THEOREM AbsoluteReadsKeepTheCursor == Spec => AbsoluteReadsKeepCursor
  <1>1. ASSUME Typed, [Next]_vars
        PROVE  [calls' < calls /\ answers'.op \in {"at", "bytes"} =>
                  \A w \in World : parse'[w].cursor = parse[w].cursor]_vars
    <2>1. CASE \E op \in {"read", "from", "at", "bytes"}, n \in Counts, p \in Positions :
                  CallReader(op, n, p)
      <3>1. PICK op \in {"read", "from", "at", "bytes"}, n \in Counts, p \in Positions :
                   CallReader(op, n, p)
        BY <2>1
      <3>2. Calls = {"read", "from", "at", "bytes"} /\ n \in Int /\ p \in Int /\ p <= NULL
        BY CatalogsAssumption DEF Calls
      <3>3. /\ phase = "metadata" /\ answers'.op = op /\ (op \in {"from", "at"} => n > 0)
            /\ \A w \in World : parse'[w] = [parse[w] EXCEPT !.cursor = Called(w, op, n, p).cursor]
        BY <3>1 DEF CallReader, Called
      <3>4. ASSUME op \in {"at", "bytes"}, NEW w \in World
            PROVE  parse'[w].cursor = parse[w].cursor
        <4>1. Called(w, op, n, p).cursor = parse[w].cursor
          BY <1>1, <3>2, <3>3, <3>4, CallIs
        <4>2. Shape(parse[w])
          BY <1>1 DEF Typed, Whole, ParseTyped, MemTyped, ReaderOK
        <4> QED
          BY <3>3, <4>1, <4>2 DEF Shape, Fields
      <3> QED
        BY <3>3, <3>4
    <2>2. CASE UNCHANGED vars
      BY <2>2
    <2>3. CASE DecodeHeader \/ DecodeMetadata \/ DecodeProvider \/ DecodeKeyTable \/ BeginEntry
               \/ DecodeLocation \/ Finish \/ CallbackActs
      <3>1. calls' = calls
        BY <2>3 DEF DecodeHeader, DecodeMetadata, DecodeProvider, DecodeKeyTable, BeginEntry,
                    DecodeLocation, Finish, CallbackActs, Advance
      <3> QED
        BY <1>1, <3>1 DEF Typed
    <2> QED
      BY <1>1, <2>1, <2>2, <2>3 DEF Next
  <1> QED
    BY <1>1, SpecTyped, PTL DEF Spec, AbsoluteReadsKeepCursor

-----------------------------------------------------------------------------
(* Parses that keep what they read, side by side *)

\* The names of a record can be read.
Named(record) == \A i \in DOMAIN Names(record) : Names(record)[i] \notin Unreadable

\* No two kinds of record are asked for at one offset, and the names of the locations that
\* are asked for can be read.
Sep(uses) ==
    /\ \A u, v \in uses : u[2] = v[2] => u[1] = v[1]
    /\ \A o \in Int : <<"location", o>> \in uses /\ Within(o, 7) => Named(Words(o, 7))

RecKinds == {"type", "common", "bundle", "location"}

\* What a parse has to itself, whatever the others do.
Own == {"world", "buffered", "native", "cursor", "written", "val", "cache", "again", "foreign"}

\* What the readers of a record leave alone but for what they read.
Loose == {"cursor", "out", "val", "uses", "kind", "type", "version", "header", "objects",
          "providers", "pairs", "stack", "table"}

\* The offset array at o: a matter of the words of the catalog.
Size(o) == Words(o - 1, 1)[1]

ArrayReads(o) ==
    Within(o - 1, 1) /\ ~(Size(o) = NULL \/ Size(o) % 4 # 0) /\ Within(o, Size(o) \div 4)

ArrayAt(o) == Words(o, Size(o) \div 4)

\* What is kept under an offset was read from it, or put there by a custom decoder.
Proper(v, o, uses, foreign) ==
    \/ v.is = "array" /\ <<"array", o>> \in uses /\ ArrayReads(o) /\ v.at = ArrayAt(o)
    \/ v.is \in RecKinds /\ <<v.is, o>> \in uses /\ v = Value(v.is, <<o>>)
    \/ v.is \in {"custom", "array"} /\ o \in foreign

\* What is kept under the name of a type is that type.
NameKept(o, cache, names) ==
    o \in DOMAIN cache /\ cache[o].is = "type" /\ names[o][1] = cache[o]

Sound(s) ==
    /\ \A o \in DOMAIN s.cache : Proper(s.cache[o], o, s.uses, s.foreign)
    /\ \A o \in DOMAIN s.names : NameKept(o, s.cache, s.names)

\* Two caches have the same but for arrays, which Rust does not keep.
CacheAlike(s, t) ==
    \A o : <<"array", o>> \notin s.uses =>
        /\ o \in DOMAIN s.cache <=> o \in DOMAIN t.cache
        /\ o \in DOMAIN s.cache => t.cache[o] = s.cache[o]

Secluded == {"private", "stream"}

\* Custom decoders reach only a parse over a registry.
Placed(t) ==
    /\ t.world # "plain"
    /\ t.native => t.world \in {"private", "bridge", "fast"}
    /\ t.buffered \/ t.world = "stream"
    /\ t.world \in Secluded => t.written = Empty /\ t.foreign = {}
    /\ t.native \/ t.foreign = {}

Near(s, t) ==
    IF t.world \in Secluded THEN s.written = Empty /\ s.foreign = {}
    ELSE t.cursor = s.cursor /\ t.written = s.written

Twin(s, t) ==
    /\ s.world = "buffer" /\ ~s.native /\ s.buffered
    /\ Placed(t) /\ Near(s, t) /\ CacheAlike(s, t)
    /\ \A f \in Fields \ Own : t[f] = s[f]

\* What was constructed was constructed once, and is kept.
KeptAs(m, s) ==
    \E k \in RecKinds : \E o \in DOMAIN s.cache : m[1] = Value(k, <<o>>) /\ <<k, o>> \in s.uses

Once(s) == s.again = {} /\ \A m \in s.made : KeptAs(m, s)

Alone(s, t) == s.foreign = {} /\ t.foreign = {}

Lock(s, t) ==
    /\ MemTyped(s) /\ MemTyped(t)
    /\ Twin(s, t) /\ Sound(s) /\ Sound(t)
    /\ Alone(s, t) => Once(s) /\ Once(t)

LEMMA ValueIs ==
    ASSUME NEW k, NEW l, NEW o, NEW p
    PROVE  /\ Value(k, <<o>>).is = k
           /\ Value(k, <<o>>) = Value(l, <<p>>) <=> k = l /\ o = p
  <1>1. Value(k, <<o>>).is = k /\ Value(k, <<o>>).at = <<o>> /\ Value(l, <<p>>).is = l /\ Value(l, <<p>>).at = <<p>>
    BY DEF Value
  <1>2. <<o>> = <<p>> <=> o = p
    OBVIOUS
  <1>3. Value(k, <<o>>) = Value(l, <<p>>) => k = l /\ o = p
    BY <1>1, <1>2
  <1> QED
    BY <1>1, <1>3

LEMMA KindsApart == "array" \notin RecKinds /\ "custom" \notin RecKinds /\ RecKinds \subseteq Sorts
  BY DEF RecKinds, Sorts

\* Reading more takes nothing from what is kept.
LEMMA KeptMore ==
    ASSUME NEW s, Sound(s), NEW t, t.cache = s.cache, t.names = s.names, s.uses \subseteq t.uses,
           t.foreign = s.foreign
    PROVE  Sound(t)
  BY DEF Sound, Proper, NameKept

LEMMA OnceMore ==
    ASSUME NEW s, Once(s), NEW t, t.cache = s.cache, t.made = s.made, s.uses \subseteq t.uses,
           t.again = s.again
    PROVE  Once(t)
  BY DEF Once, KeptAs

\* A step of both with a change of the cache.
LEMMA LockBuilt ==
    ASSUME NEW s, NEW t, Lock(s, t), NEW p, NEW q, MemTyped(p), MemTyped(q),
           NEW A, Only(s, p, A), Only(t, q, A),
           A \cap {"world", "buffered", "native", "written", "foreign"} = {},
           \A f \in A \ Own : q[f] = p[f],
           t.world \notin Secluded => q.cursor = p.cursor,
           CacheAlike(p, q), Sound(p), Sound(q),
           Alone(s, t) => Once(p) /\ Once(q)
    PROVE  Lock(p, q)
  <1>1. /\ p.world = s.world /\ p.native = s.native /\ p.buffered = s.buffered
        /\ p.written = s.written /\ p.foreign = s.foreign
    BY DEF Only, Fields
  <1>2. /\ q.world = t.world /\ q.native = t.native /\ q.buffered = t.buffered
        /\ q.written = t.written /\ q.foreign = t.foreign
    BY DEF Only, Fields
  <1>3. Twin(s, t)
    BY DEF Lock
  <1>4. p.world = "buffer" /\ ~p.native /\ p.buffered /\ Placed(q)
    BY <1>1, <1>2, <1>3 DEF Twin, Placed
  <1>5. Near(p, q)
    BY <1>1, <1>2, <1>3 DEF Twin, Near
  <1>6. ASSUME NEW f \in Fields \ Own
        PROVE  q[f] = p[f]
    <2>1. CASE f \in A
      BY <1>6, <2>1
    <2>2. CASE f \notin A
      <3>1. p[f] = s[f] /\ q[f] = t[f]
        BY <1>6, <2>2 DEF Only
      <3> QED
        BY <1>3, <1>6, <3>1 DEF Twin
    <2> QED
      BY <2>1, <2>2
  <1>7. Twin(p, q)
    BY <1>4, <1>5, <1>6 DEF Twin
  <1>8. Alone(p, q) => Once(p) /\ Once(q)
    BY <1>1, <1>2 DEF Alone
  <1> QED
    BY <1>7, <1>8 DEF Lock

\* A step of both that leaves what they keep alone.
LEMMA LockMoved ==
    ASSUME NEW s, NEW t, Lock(s, t), NEW p, NEW q, MemTyped(p), MemTyped(q),
           NEW A, Only(s, p, A), Only(t, q, A), A \subseteq Loose,
           \A f \in A \ Own : q[f] = p[f],
           s.uses \subseteq p.uses,
           t.world \notin Secluded => q.cursor = p.cursor
    PROVE  Lock(p, q)
  <1>1. /\ p.cache = s.cache /\ p.names = s.names /\ p.made = s.made /\ p.again = s.again
        /\ p.foreign = s.foreign
    BY DEF Only, Fields, Loose
  <1>2. /\ q.cache = t.cache /\ q.names = t.names /\ q.made = t.made /\ q.again = t.again
        /\ q.foreign = t.foreign
    BY DEF Only, Fields, Loose
  <1>3. t.uses = s.uses
    BY DEF Lock, Twin, Fields, Own
  <1>4. q.uses = p.uses
    <2>1. CASE "uses" \in A
      BY <2>1 DEF Own
    <2>2. CASE "uses" \notin A
      BY <1>3, <2>2 DEF Only, Fields
    <2> QED
      BY <2>1, <2>2
  <1>5. Sound(p) /\ Sound(q)
    <2>1. Sound(s) /\ Sound(t) /\ t.uses \subseteq q.uses
      BY <1>3, <1>4 DEF Lock
    <2> QED
      BY <1>1, <1>2, <2>1, KeptMore
  <1>6. Alone(s, t) => Once(p) /\ Once(q)
    <2>1. Alone(s, t) => Once(s) /\ Once(t)
      BY DEF Lock
    <2> QED
      BY <1>1, <1>2, <1>3, <1>4, <2>1, OnceMore
  <1>7. CacheAlike(p, q)
    BY <1>1, <1>2 DEF Lock, Twin, CacheAlike
  <1>8. A \cap {"world", "buffered", "native", "written", "foreign"} = {}
    BY DEF Loose
  <1> QED
    BY <1>5, <1>6, <1>7, <1>8, LockBuilt

\* What two parses side by side have in common.
LEMMA LockSame ==
    ASSUME NEW s, NEW t, Lock(s, t)
    PROVE  /\ t.out = s.out /\ t.kind = s.kind /\ t.type = s.type
           /\ t.version = s.version /\ t.header = s.header /\ t.objects = s.objects
           /\ t.providers = s.providers /\ t.pairs = s.pairs /\ t.stack = s.stack
           /\ t.table = s.table /\ t.made = s.made /\ t.uses = s.uses /\ t.names = s.names
           /\ MemTyped(s) /\ MemTyped(t) /\ s.world = "buffer" /\ ~s.native /\ s.buffered
           /\ s.world # "plain" /\ t.world # "plain"
  BY DEF Lock, Twin, Placed, Fields, Own

LEMMA FailLocks ==
    ASSUME NEW s, NEW t, Lock(s, t), NEW error
    PROVE  Lock(Fail(s, error), Fail(t, error))
  <1> DEFINE p == Fail(s, error)
             q == Fail(t, error)
  <1>1. MemTyped(s) /\ MemTyped(t)
    BY DEF Lock
  <1>2. /\ Only(s, p, {"out", "val"}) /\ p.out = error /\ p.val = <<>>
        /\ Only(t, q, {"out", "val"}) /\ q.out = error /\ q.val = <<>>
    BY <1>1, FailIs DEF MemTyped, ReaderOK
  <1>3. MemTyped(p) /\ MemTyped(q)
    BY <1>1, FailTyped DEF StepTyped
  <1>4. t.world \notin Secluded => t.cursor = s.cursor
    BY DEF Lock, Twin, Near
  <1> HIDE DEF p, q
  <1>5. p.uses = s.uses /\ p.cursor = s.cursor /\ q.cursor = t.cursor
    BY <1>2 DEF Only, Fields
  <1>6. \A f \in {"out", "val"} \ Own : q[f] = p[f]
    BY <1>2
  <1>7. {"out", "val"} \subseteq Loose
    BY DEF Loose
  <1> QED
    BY <1>2, <1>3, <1>4, <1>5, <1>6, <1>7, LockMoved DEF p, q

\* Texts are read by both.
LEMMA TextsLock ==
    ASSUME NEW s, NEW t, Lock(s, t), NEW words
    PROVE  LET p == Texts(s, words)
               q == Texts(t, words)
           IN  /\ Lock(p, q) /\ Only(s, p, {"out", "val"}) /\ Only(t, q, {"out", "val"})
               /\ p.out = "ok" => s.out = "ok" /\ p = s /\ q = t
               /\ MemTyped(p) /\ MemTyped(q) /\ q.out = p.out
  <1>1. t.out = s.out /\ MemTyped(s) /\ MemTyped(t)
    BY LockSame
  <1>2. Lock(Fail(s, "text"), Fail(t, "text"))
    BY FailLocks
  <1>3. Lock(Texts(s, words), Texts(t, words))
    BY <1>1, <1>2 DEF Texts, ReadTexts
  <1>4. /\ Only(s, Texts(s, words), {"out", "val"}) /\ Only(t, Texts(t, words), {"out", "val"})
        /\ Texts(s, words).out = "ok" => s.out = "ok" /\ Texts(s, words) = s
        /\ Texts(t, words).out = "ok" => Texts(t, words) = t
    BY <1>1, TextsAre DEF MemTyped, ReaderOK
  <1>5. /\ Texts(t, words).out = Texts(s, words).out
        /\ MemTyped(Texts(s, words)) /\ MemTyped(Texts(t, words))
    BY <1>3, LockSame
  <1> QED
    BY <1>3, <1>4, <1>5

LEMMA GiveLocks ==
    ASSUME NEW s, NEW t, Lock(s, t), s.out = "ok", NEW v
    PROVE  Lock(Give(s, v), Give(t, v)) /\ Give(s, v).val = v /\ Give(t, v).val = v
  <1> DEFINE p == Give(s, v)
             q == Give(t, v)
  <1>1. MemTyped(s) /\ MemTyped(t) /\ t.out = "ok"
    BY LockSame
  <1>2. /\ Only(s, p, {"val"}) /\ p.val = v
        /\ Only(t, q, {"val"}) /\ q.val = v
    BY <1>1, GiveIs DEF MemTyped, ReaderOK
  <1>3. MemTyped(p) /\ MemTyped(q)
    BY <1>1, GiveTyped DEF StepTyped
  <1>4. t.world \notin Secluded => t.cursor = s.cursor
    BY DEF Lock, Twin, Near
  <1> HIDE DEF p, q
  <1>5. p.uses = s.uses /\ p.cursor = s.cursor /\ q.cursor = t.cursor
    BY <1>2 DEF Only, Fields
  <1>6. \A f \in {"val"} \ Own : q[f] = p[f]
    BY DEF Own
  <1>7. {"val"} \subseteq Loose
    BY DEF Loose
  <1> QED
    BY <1>2, <1>3, <1>4, <1>5, <1>6, <1>7, LockMoved DEF p, q

LEMMA UseLocks ==
    ASSUME NEW s, NEW t, Lock(s, t), s.out = "ok", NEW kind, NEW o
    PROVE  /\ Lock(Use(s, kind, o), Use(t, kind, o))
           /\ Use(s, kind, o).uses = s.uses \cup {<<kind, o>>}
           /\ Use(s, kind, o).out = "ok" /\ Use(s, kind, o).cache = s.cache
           /\ Only(s, Use(s, kind, o), {"uses"}) /\ Only(t, Use(t, kind, o), {"uses"})
  <1> DEFINE p == Use(s, kind, o)
             q == Use(t, kind, o)
  <1>1. MemTyped(s) /\ MemTyped(t) /\ t.out = "ok" /\ t.uses = s.uses
    BY LockSame
  <1>2. /\ Only(s, p, {"uses"}) /\ p.uses = s.uses \cup {<<kind, o>>}
        /\ Only(t, q, {"uses"}) /\ q.uses = s.uses \cup {<<kind, o>>}
    BY <1>1, UseIs DEF MemTyped, ReaderOK
  <1>3. MemTyped(p) /\ MemTyped(q)
    BY <1>1, UseTyped DEF StepTyped
  <1>4. t.world \notin Secluded => t.cursor = s.cursor
    BY DEF Lock, Twin, Near
  <1> HIDE DEF p, q
  <1>5. p.out = s.out /\ p.cache = s.cache /\ p.cursor = s.cursor /\ q.cursor = t.cursor
    BY <1>2 DEF Only, Fields
  <1>6. \A f \in {"uses"} \ Own : q[f] = p[f]
    BY <1>2
  <1>7. {"uses"} \subseteq Loose /\ s.uses \subseteq p.uses
    BY <1>2 DEF Loose
  <1>8. Lock(p, q)
    BY <1>2, <1>3, <1>4, <1>5, <1>6, <1>7, LockMoved
  <1> QED
    BY <1>2, <1>5, <1>8 DEF p, q

\* A parse whose structs are read from words nobody has written to.
Clean(s) == s.buffered \/ s.written = Empty

LEMMA LockClean ==
    ASSUME NEW s, NEW t, Lock(s, t)
    PROVE  Clean(s) /\ Clean(t)
  BY DEF Lock, Twin, Placed, Secluded, Clean

LEMMA StructIs ==
    ASSUME DataOK, NEW s, MemTyped(s), s.out = "ok", Clean(s),
           NEW n \in Nat, NEW p \in Int, p <= NULL, n # 0 \/ p <= Len(data)
    PROVE  LET t == ReadStructFrom(s, n, p) IN
           /\ Only(s, t, Moved)
           /\ IF Within(p, n) THEN t.out = "ok" /\ t.val = Words(p, n) ELSE t.out = "read" /\ t.val = <<>>
           /\ s.buffered => t.cursor = s.cursor
  <1> DEFINE t == ReadStructFrom(s, n, p)
  <1>1. CASE s.buffered
    <2>1. t = FromBuffer(s, n, p)
      BY <1>1 DEF ReadStructFrom
    <2>2. /\ Only(s, t, {"out", "val"})
          /\ IF Within(p, n) THEN t.out = "ok" /\ t.val = Words(p, n) ELSE t.out = "read" /\ t.val = <<>>
      BY <2>1, FromBufferIs DEF MemTyped, ReaderOK
    <2> HIDE DEF t
    <2>3. Only(s, t, Moved) /\ t.cursor = s.cursor
      BY <2>2 DEF Only, Fields, Moved
    <2> QED
      BY <2>2, <2>3 DEF t
  <1>2. CASE ~s.buffered
    <2>0. n \in Int
      OBVIOUS
    <2>1. t = ReadAfterSeek(s, n, p)
      BY <1>2 DEF ReadStructFrom
    <2>2. /\ Only(s, t, Moved)
          /\ IF n >= 0 /\ p >= 0 /\ (n = 0 \/ p + n <= Len(data))
             THEN t.out = "ok" /\ t.cursor = p + n /\ t.val = Stream(s.written, p, n)
             ELSE t.out = "read" /\ t.cursor \in Word /\ t.val = <<>>
      BY <2>0, <2>1, ReadAfterSeekIs DEF MemTyped
    <2> HIDE DEF t
    <2>3. Len(data) \in Nat
      BY DEF DataOK
    <2>4. (n >= 0 /\ p >= 0 /\ (n = 0 \/ p + n <= Len(data))) <=> Within(p, n)
      BY <2>3 DEF Within
    <2>5. CASE Within(p, n)
      <3>1. p \in Nat /\ s.written = Empty /\ (n = 0 \/ p + n <= Len(data))
        BY <1>2, <2>3, <2>5 DEF Clean, Within
      <3>2. Stream(s.written, p, n) = Words(p, n)
        BY <3>1, StreamIsBuffer
      <3> QED
        BY <1>2, <2>2, <2>4, <2>5, <3>2 DEF t
    <2>6. CASE ~Within(p, n)
      BY <1>2, <2>2, <2>4, <2>6 DEF t
    <2> QED
      BY <2>5, <2>6
  <1> QED
    BY <1>1, <1>2

LEMMA StructOnly ==
    ASSUME DataOK, NEW s, MemTyped(s), s.out = "ok", NEW n \in Nat, NEW p \in Int, p <= NULL
    PROVE  Only(s, ReadStructFrom(s, n, p), Moved)
  BY StructFromTyped

LEMMA StructLocks ==
    ASSUME DataOK, NEW s, NEW t, Lock(s, t), s.out = "ok",
           NEW n \in Nat, NEW p \in Int, p <= NULL, n # 0 \/ p <= Len(data)
    PROVE  /\ Lock(ReadStructFrom(s, n, p), ReadStructFrom(t, n, p))
           /\ ReadStructFrom(t, n, p).val = ReadStructFrom(s, n, p).val
  <1> DEFINE a == ReadStructFrom(s, n, p)
             b == ReadStructFrom(t, n, p)
  <1>1. MemTyped(s) /\ MemTyped(t) /\ t.out = "ok" /\ s.buffered /\ Clean(s) /\ Clean(t)
    BY LockSame, LockClean
  <1>2. /\ Only(s, a, Moved)
        /\ IF Within(p, n) THEN a.out = "ok" /\ a.val = Words(p, n) ELSE a.out = "read" /\ a.val = <<>>
        /\ a.cursor = s.cursor
    BY <1>1, StructIs
  <1>3. /\ Only(t, b, Moved)
        /\ IF Within(p, n) THEN b.out = "ok" /\ b.val = Words(p, n) ELSE b.out = "read" /\ b.val = <<>>
        /\ t.buffered => b.cursor = t.cursor
    BY <1>1, StructIs
  <1>4. MemTyped(a) /\ MemTyped(b)
    BY <1>1, StructFromTyped DEF StepTyped
  <1>5. t.world \notin Secluded => t.cursor = s.cursor /\ t.buffered
    BY DEF Lock, Twin, Near, Placed, Secluded
  <1> HIDE DEF a, b
  <1>6. a.out = b.out /\ a.val = b.val
    BY <1>2, <1>3
  <1>7. \A f \in Moved \ Own : b[f] = a[f]
    BY <1>6 DEF Moved, Own
  <1>8. Moved \subseteq Loose /\ a.uses = s.uses
    BY <1>2 DEF Loose, Moved, Only, Fields
  <1>9. t.world \notin Secluded => b.cursor = a.cursor
    BY <1>2, <1>3, <1>5
  <1> QED
    BY <1>2, <1>3, <1>4, <1>6, <1>7, <1>8, <1>9, LockMoved DEF a, b

\* A struct is read by both.
StructAlso(p, q) == Lock(p, q) /\ q.val = p.val

LEMMA StructsLock ==
    ASSUME DataOK, NEW s, NEW t, Lock(s, t), s.out = "ok", NEW n \in Nat, n # 0, NEW p \in Int, p <= NULL
    PROVE  StructAlso(ReadStructFrom(s, n, p), ReadStructFrom(t, n, p))
  BY StructLocks DEF StructAlso

-----------------------------------------------------------------------------
(* Arrays *)

\* What may be found in the cache after a step and not before was read by it.
Grown(s, t, kinds) ==
    \A x \in DOMAIN t.cache : x \in DOMAIN s.cache \/ \E k \in kinds : <<k, x>> \in t.uses

\* If a list is kept under o, it is the catalog's.
ArrayKept(s, o) ==
    CachedArray(s, o) => o \notin s.foreign /\ ArrayReads(o) /\ s.cache[o].at = ArrayAt(o)

LEMMA KeptArrays ==
    ASSUME NEW s, Sound(s), NEW o, CachedArray(s, o) => o \notin s.foreign
    PROVE  ArrayKept(s, o)
  BY DEF Sound, Proper, ArrayKept, CachedArray, Cached, RecKinds

LEMMA UseTwice ==
    ASSUME NEW s, Shape(s), NEW kind, NEW o
    PROVE  Use(Use(s, kind, o), kind, o) = Use(s, kind, o)
  BY DEF Use

\* What reading the array at o does, whether it is found or read.
LEMMA ArrayIs ==
    ASSUME DataOK, NEW s, MemTyped(s), s.out = "ok", Clean(s), NEW o \in Word, o # NULL,
           ArrayKept(s, o)
    PROVE  LET t == ReadOffsetArray(s, o) IN
           /\ Only(s, t, {"cursor", "out", "val", "cache", "uses"})
           /\ t.uses = s.uses \cup {<<"array", o>>}
           /\ IF ArrayReads(o) THEN t.out = "ok" /\ t.val = ArrayAt(o) ELSE t.out = "read" /\ t.val = <<>>
           /\ \/ t.cache = s.cache
              \/ /\ t.cache = Plus(s.cache, o, Value("array", ArrayAt(o))) /\ ArrayReads(o)
                 /\ s.world # "plain"
           /\ s.buffered => t.cursor = s.cursor
  <1> DEFINE u == Use(s, "array", o)
             q == ReadStructFrom(u, 1, o - 1)
             size == q.val[1]
             a == ReadStructFrom(q, size \div 4, o)
             v == Value("array", a.val)
             r == Remember(a, o, v)
             t == ReadOffsetArray(s, o)
             Big == {"cursor", "out", "val", "cache", "uses"}
  <1>0. o \in Nat /\ o - 1 \in Int /\ o - 1 <= NULL /\ o <= NULL /\ NULL \in Nat /\ Len(data) \in Nat
    BY DEF Word, DataOK
  <1>1. /\ Only(s, u, {"uses"}) /\ u.uses = s.uses \cup {<<"array", o>>} /\ MemTyped(u)
        /\ u.out = "ok" /\ u.cursor = s.cursor /\ u.cache = s.cache /\ u.buffered = s.buffered
        /\ Clean(u) /\ u.world = s.world /\ u.native = s.native
    <2>1. Only(s, u, {"uses"}) /\ u.uses = s.uses \cup {<<"array", o>>} /\ MemTyped(u)
      BY UseIs, UseTyped DEF MemTyped, ReaderOK, StepTyped
    <2> QED
      BY <2>1 DEF Only, Fields, Clean
  <1>2. CASE CachedArray(s, o)
    <2>2. ArrayReads(o) /\ s.cache[o].at = ArrayAt(o) /\ o \notin s.foreign
      BY <1>2 DEF ArrayKept
    <2>a. t = Give(Use(u, "array", o), s.cache[o].at)
      BY <1>2, <2>2 DEF ReadOffsetArray
    <2>b. Use(u, "array", o) = u
      BY <1>1, UseTwice DEF u, MemTyped, ReaderOK
    <2>1. t = Give(u, s.cache[o].at)
      BY <2>a, <2>b
    <2> HIDE DEF u
    <2>3. Only(u, t, {"val"}) /\ t.val = ArrayAt(o)
      BY <1>1, <2>1, <2>2, GiveIs DEF MemTyped, ReaderOK
    <2> HIDE DEF t
    <2>4. t.out = "ok" /\ t.cursor = s.cursor /\ t.cache = s.cache /\ t.uses = u.uses
      BY <1>1, <2>3 DEF Only, Fields
    <2>5. Only(s, t, Big)
      BY <1>1, <2>3 DEF Only
    <2> QED
      BY <1>1, <2>2, <2>3, <2>4, <2>5 DEF t
  <1>3. CASE ~CachedArray(s, o)
    <2>1. t = IF q.out = "ok"
              THEN IF size = NULL \/ size % 4 # 0 THEN Fail(q, "read")
                   ELSE IF a.out = "ok" THEN IF a.native THEN a ELSE Give(r, a.val)
                   ELSE a
              ELSE q
      BY <1>3 DEF ReadOffsetArray, Then
    <2> HIDE DEF u, t
    <2>2. /\ Only(u, q, Moved)
          /\ IF Within(o - 1, 1) THEN q.out = "ok" /\ q.val = Words(o - 1, 1) ELSE q.out = "read" /\ q.val = <<>>
          /\ u.buffered => q.cursor = u.cursor
      <3> DEFINE p == o - 1
      <3>1. p \in Int /\ p <= NULL /\ 1 \in Nat /\ (1 # 0 \/ p <= Len(data)) /\ q = ReadStructFrom(u, 1, p)
        BY <1>0
      <3>2. MemTyped(u) /\ u.out = "ok" /\ Clean(u)
        BY <1>1
      <3> HIDE DEF p, q
      <3>3. /\ Only(u, q, Moved)
            /\ IF Within(p, 1) THEN q.out = "ok" /\ q.val = Words(p, 1) ELSE q.out = "read" /\ q.val = <<>>
            /\ u.buffered => q.cursor = u.cursor
        BY <3>1, <3>2, StructIs
      <3> QED
        BY <3>3 DEF p
    <2>3. MemTyped(q)
      BY <1>0, <1>1, StructFromTyped DEF StepTyped
    <2> HIDE DEF q
    <2>4. /\ q.uses = u.uses /\ q.cache = s.cache /\ Only(s, q, Big) /\ Clean(q)
          /\ q.world = s.world /\ q.native = s.native /\ q.buffered = s.buffered
          /\ s.buffered => q.cursor = s.cursor
      BY <1>1, <2>2 DEF Only, Fields, Moved, Clean
    <2>5. CASE q.out # "ok"
      <3>1. ~ArrayReads(o) /\ q.out = "read" /\ q.val = <<>>
        BY <2>2, <2>5 DEF ArrayReads
      <3> QED
        BY <1>1, <2>1, <2>4, <2>5, <3>1 DEF t
    <2>6. CASE q.out = "ok" /\ (size = NULL \/ size % 4 # 0)
      <3>1. size = Size(o)
        BY <2>2, <2>6 DEF Size
      <3>2. ~ArrayReads(o)
        BY <2>6, <3>1 DEF ArrayReads
      <3>3. t = Fail(q, "read")
        BY <2>1, <2>6
      <3>4. Only(q, t, {"out", "val"}) /\ t.out = "read" /\ t.val = <<>>
        BY <2>3, <3>3, FailIs DEF MemTyped, ReaderOK
      <3>5. t.uses = q.uses /\ t.cache = q.cache /\ t.cursor = q.cursor /\ Only(s, t, Big)
        BY <2>4, <3>4 DEF Only, Fields
      <3> QED
        BY <1>1, <2>4, <3>2, <3>4, <3>5 DEF t
    <2>7. CASE q.out = "ok" /\ ~(size = NULL \/ size % 4 # 0)
      <3>1. Within(o - 1, 1) /\ size = Size(o)
        BY <2>2, <2>7 DEF Size
      <3>2. size \in Nat
        <4>1. 1 \in Nat /\ o - 1 \in Int
          BY <1>0
        <4>2. Words(o - 1, 1) \in Seq(Word) /\ Len(Words(o - 1, 1)) = 1
          BY <3>1, <4>1, WordsTyped
        <4>3. Words(o - 1, 1)[1] \in Nat
          BY <4>2, WordsAreInts
        <4> QED
          BY <3>1, <4>3 DEF Size
      <3>3. size \div 4 \in Nat /\ o <= Len(data)
        BY <1>0, <3>1, <3>2 DEF Within
      <3>4. Size(o) \div 4 = size \div 4
        BY <3>1
      <3>5. ArrayReads(o) <=> Within(o, size \div 4)
        BY <2>7, <3>1 DEF ArrayReads
      <3>6. ArrayAt(o) = Words(o, size \div 4)
        BY <3>4 DEF ArrayAt
      <3> HIDE DEF size
      <3>7. /\ Only(q, a, Moved)
            /\ IF Within(o, size \div 4) THEN a.out = "ok" /\ a.val = Words(o, size \div 4)
               ELSE a.out = "read" /\ a.val = <<>>
            /\ q.buffered => a.cursor = q.cursor
        BY <1>0, <2>3, <2>4, <2>7, <3>3, StructIs
      <3>8. MemTyped(a)
        BY <1>0, <2>3, <2>7, <3>3, StructFromTyped DEF StepTyped
      <3> HIDE DEF a
      <3>9. /\ a.uses = u.uses /\ a.cache = s.cache /\ Only(s, a, Big) /\ a.world = s.world
            /\ s.buffered => a.cursor = s.cursor
        BY <2>4, <3>7 DEF Only, Fields, Moved
      <3>10. CASE ~(a.out = "ok" /\ ~a.native)
        <4>1. t = a
          BY <2>1, <2>7, <3>10 DEF size
        <4> QED
          BY <1>1, <3>5, <3>6, <3>7, <3>9, <4>1 DEF t
      <3>11. CASE a.out = "ok" /\ ~a.native
        <4>1. t = Give(r, a.val)
          BY <2>1, <2>7, <3>11 DEF size
        <4>2. a.val = ArrayAt(o) /\ ArrayReads(o)
          BY <3>5, <3>6, <3>7, <3>11
        <4>3. /\ Only(a, r, {"cache"})
              /\ r.cache = IF a.world = "plain" THEN a.cache ELSE Plus(a.cache, o, v)
          BY <3>8, RememberIs DEF MemTyped, ReaderOK
        <4>4. v = Value("array", ArrayAt(o))
          BY <4>2
        <4> HIDE DEF r, v
        <4>5. Only(r, t, {"val"}) /\ t.val = ArrayAt(o)
          BY <4>1, <4>2, <4>3, GiveIs DEF Only
        <4>6. /\ t.uses = a.uses /\ t.cache = r.cache /\ t.out = "ok" /\ t.cursor = a.cursor
              /\ Only(s, t, Big)
          BY <3>9, <3>11, <4>3, <4>5 DEF Only, Fields
        <4> QED
          BY <1>1, <3>9, <4>2, <4>3, <4>4, <4>5, <4>6 DEF t
      <3> QED
        BY <3>10, <3>11
    <2> QED
      BY <2>5, <2>6, <2>7
  <1> QED
    BY <1>2, <1>3

\* What is kept stays proper when something proper is added.
LEMMA KeptPlus ==
    ASSUME NEW s, Sound(s), NEW t, NEW o, NEW v,
           t.cache = Plus(s.cache, o, v), t.names = s.names, s.uses \subseteq t.uses,
           t.foreign = s.foreign, Proper(v, o, t.uses, t.foreign),
           o \in DOMAIN s.names => v = s.cache[o]
    PROVE  Sound(t)
  <1>1. /\ DOMAIN t.cache = DOMAIN s.cache \cup {o} /\ t.cache[o] = v
        /\ \A x \in DOMAIN s.cache : x # o => t.cache[x] = s.cache[x]
    BY DEF Plus
  <1>2. ASSUME NEW x \in DOMAIN t.cache
        PROVE  Proper(t.cache[x], x, t.uses, t.foreign)
    <2>1. CASE x = o
      BY <1>1, <2>1
    <2>2. CASE x # o
      <3>1. x \in DOMAIN s.cache /\ t.cache[x] = s.cache[x]
        BY <1>1, <2>2
      <3>2. Proper(s.cache[x], x, s.uses, s.foreign)
        BY <3>1 DEF Sound
      <3> QED
        BY <3>1, <3>2 DEF Proper
    <2> QED
      BY <2>1, <2>2
  <1>3. ASSUME NEW x \in DOMAIN t.names
        PROVE  NameKept(x, t.cache, t.names)
    <2>1. NameKept(x, s.cache, s.names)
      BY <1>3 DEF Sound
    <2>2. t.cache[x] = s.cache[x] /\ x \in DOMAIN t.cache
      BY <1>1, <1>3, <2>1 DEF NameKept
    <2> QED
      BY <2>1, <2>2 DEF NameKept
  <1> QED
    BY <1>2, <1>3 DEF Sound

LEMMA OncePlus ==
    ASSUME NEW s, Once(s), NEW t, t.made = s.made, t.again = s.again, s.uses \subseteq t.uses,
           DOMAIN s.cache \subseteq DOMAIN t.cache
    PROVE  Once(t)
  BY DEF Once, KeptAs

LEMMA NameIs ==
    ASSUME NEW s, Sound(s), NEW o \in DOMAIN s.names
    PROVE  /\ <<"type", o>> \in s.uses /\ o \in DOMAIN s.cache /\ s.cache[o] = Value("type", <<o>>)
           /\ s.names[o][1] = s.cache[o] /\ s.cache[o].is = "type"
  <1>1. NameKept(o, s.cache, s.names)
    BY DEF Sound
  <1>2. Proper(s.cache[o], o, s.uses, s.foreign)
    BY <1>1 DEF Sound, NameKept
  <1> QED
    BY <1>1, <1>2 DEF NameKept, Proper

LEMMA SepIs ==
    ASSUME NEW uses, Sep(uses), NEW k, NEW l, NEW o, <<k, o>> \in uses, <<l, o>> \in uses
    PROVE  k = l
  <1>1. <<k, o>>[2] = <<l, o>>[2] /\ <<k, o>>[1] = k /\ <<l, o>>[1] = l
    OBVIOUS
  <1> QED
    BY <1>1 DEF Sep

LEMMA SepLess ==
    ASSUME NEW A, NEW B, Sep(B), A \subseteq B
    PROVE  Sep(A)
  BY DEF Sep

\* A step from s to t reads the array at o, and may keep it.
ArrayRead(s, t, o) ==
    /\ Only(s, t, {"cursor", "out", "val", "cache", "uses"})
    /\ t.uses = s.uses \cup {<<"array", o>>}
    /\ IF ArrayReads(o) THEN t.out = "ok" /\ t.val = ArrayAt(o) ELSE t.out = "read" /\ t.val = <<>>
    /\ \/ t.cache = s.cache
       \/ t.cache = Plus(s.cache, o, Value("array", ArrayAt(o))) /\ ArrayReads(o)
    /\ s.buffered => t.cursor = s.cursor

LEMMA ArrayIsRead ==
    ASSUME DataOK, NEW s, MemTyped(s), s.out = "ok", Clean(s), Sound(s), NEW o \in Word, o # NULL,
           CachedArray(s, o) => o \notin s.foreign
    PROVE  ArrayRead(s, ReadOffsetArray(s, o), o)
  <1>1. ArrayKept(s, o)
    BY KeptArrays
  <1> QED
    BY <1>1, ArrayIs DEF ArrayRead

\* A list a custom decoder has kept leaves a use of its own.
LEMMA ForeignArray ==
    ASSUME NEW s, MemTyped(s), NEW o, o # NULL, CachedArray(s, o), Sep(ReadOffsetArray(s, o).uses)
    PROVE  o \notin s.foreign
  <1> SUFFICES ASSUME o \in s.foreign
               PROVE  FALSE
    OBVIOUS
  <1> DEFINE u == Use(s, "array", o)
             w == Use(u, "list", o)
  <1>1. ReadOffsetArray(s, o) = Give(w, s.cache[o].at)
    BY DEF ReadOffsetArray
  <1>2. Only(s, u, {"uses"}) /\ u.uses = s.uses \cup {<<"array", o>>}
    BY UseIs DEF MemTyped, ReaderOK
  <1> HIDE DEF u
  <1>3. Only(u, w, {"uses"}) /\ w.uses = u.uses \cup {<<"list", o>>}
    BY <1>2, UseIs DEF Only
  <1> HIDE DEF w
  <1>4. Only(w, Give(w, s.cache[o].at), {"val"})
    BY <1>3, GiveIs DEF Only
  <1>5. Give(w, s.cache[o].at).uses = w.uses
    BY <1>4 DEF Only, Fields
  <1>6. Sep(w.uses) /\ <<"array", o>> \in w.uses /\ <<"list", o>> \in w.uses
    BY <1>1, <1>2, <1>3, <1>5
  <1> QED
    BY <1>6, SepIs

LEMMA ArrayKeeps ==
    ASSUME NEW s, Sound(s), NEW t, NEW o, ArrayRead(s, t, o), Sep(t.uses)
    PROVE  Sound(t) /\ (Once(s) => Once(t)) /\ Grown(s, t, {"array"})
  <1> DEFINE v == Value("array", ArrayAt(o))
  <1>1. /\ Only(s, t, {"cursor", "out", "val", "cache", "uses"})
        /\ t.uses = s.uses \cup {<<"array", o>>}
        /\ \/ t.cache = s.cache
           \/ t.cache = Plus(s.cache, o, v) /\ ArrayReads(o)
    BY DEF ArrayRead
  <1>2. /\ t.names = s.names /\ t.foreign = s.foreign /\ t.made = s.made /\ t.again = s.again
        /\ s.uses \subseteq t.uses /\ <<"array", o>> \in t.uses
    BY <1>1 DEF Only, Fields
  <1>3. CASE t.cache = s.cache
    BY <1>2, <1>3, KeptMore, OnceMore DEF Grown
  <1>4. CASE t.cache = Plus(s.cache, o, v) /\ ArrayReads(o)
    <2>1. v.is = "array" /\ v.at = ArrayAt(o)
      BY DEF Value
    <2>2. Proper(v, o, t.uses, t.foreign)
      BY <1>2, <1>4, <2>1 DEF Proper
    <2>3. o \notin DOMAIN s.names
      <3>1. SUFFICES ASSUME o \in DOMAIN s.names PROVE FALSE
        OBVIOUS
      <3>2. <<"type", o>> \in t.uses
        BY <1>2, <3>1, NameIs
      <3> QED
        BY <1>2, <3>2, SepIs
    <2>4. Sound(t)
      BY <1>2, <1>4, <2>2, <2>3, KeptPlus
    <2>5. DOMAIN t.cache = DOMAIN s.cache \cup {o}
      BY <1>4 DEF Plus
    <2>6. Once(s) => Once(t)
      BY <1>2, <2>5, OncePlus
    <2>7. Grown(s, t, {"array"})
      BY <1>2, <2>5 DEF Grown
    <2> QED
      BY <2>4, <2>6, <2>7
  <1> QED
    BY <1>1, <1>3, <1>4

LEMMA GrownNot ==
    ASSUME NEW s, NEW t, t.cache = s.cache, NEW kinds
    PROVE  Grown(s, t, kinds)
  BY DEF Grown

LEMMA GrownTransitive ==
    ASSUME NEW r, NEW s, NEW t, NEW J, NEW K, Grown(r, s, J), Grown(s, t, K), s.uses \subseteq t.uses
    PROVE  Grown(r, t, J \cup K)
  BY DEF Grown

\* An array is read by both.
LEMMA ArraysLock ==
    ASSUME DataOK, NEW s, NEW t, Lock(s, t), s.out = "ok", NEW o,
           NEW p, NEW q, MemTyped(p), MemTyped(q), ArrayRead(s, p, o), ArrayRead(t, q, o), Sep(p.uses)
    PROVE  Lock(p, q) /\ q.val = p.val /\ Grown(s, p, {"array"})
  <1> DEFINE A == {"cursor", "out", "val", "cache", "uses"}
  <1>1. t.uses = s.uses /\ s.buffered
    BY LockSame
  <1>2. /\ Only(s, p, A) /\ p.uses = s.uses \cup {<<"array", o>>}
        /\ IF ArrayReads(o) THEN p.out = "ok" /\ p.val = ArrayAt(o) ELSE p.out = "read" /\ p.val = <<>>
        /\ \/ p.cache = s.cache
           \/ p.cache = Plus(s.cache, o, Value("array", ArrayAt(o)))
        /\ p.cursor = s.cursor
    BY <1>1 DEF ArrayRead
  <1>3. /\ Only(t, q, A) /\ q.uses = t.uses \cup {<<"array", o>>}
        /\ IF ArrayReads(o) THEN q.out = "ok" /\ q.val = ArrayAt(o) ELSE q.out = "read" /\ q.val = <<>>
        /\ \/ q.cache = t.cache
           \/ q.cache = Plus(t.cache, o, Value("array", ArrayAt(o)))
        /\ t.buffered => q.cursor = t.cursor
    BY DEF ArrayRead
  <1>4. q.uses = p.uses
    BY <1>1, <1>2, <1>3
  <1>5. /\ Sound(s) /\ Sound(t) /\ (Alone(s, t) => Once(s) /\ Once(t))
        /\ CacheAlike(s, t)
    BY DEF Lock, Twin
  <1>6. Sound(p) /\ (Once(s) => Once(p)) /\ Grown(s, p, {"array"})
    BY <1>5, ArrayKeeps
  <1>7. Sound(q) /\ (Once(t) => Once(q))
    BY <1>4, <1>5, ArrayKeeps
  <1>8. t.world \notin Secluded => t.cursor = s.cursor /\ t.buffered
    BY DEF Lock, Twin, Near, Placed, Secluded
  <1>9. CacheAlike(p, q)
    <2>1. ASSUME NEW x, <<"array", x>> \notin p.uses
          PROVE  /\ x \in DOMAIN p.cache <=> x \in DOMAIN q.cache
                 /\ x \in DOMAIN p.cache => q.cache[x] = p.cache[x]
      <3>1. x # o /\ <<"array", x>> \notin s.uses
        BY <1>2, <2>1
      <3>2. /\ x \in DOMAIN p.cache <=> x \in DOMAIN s.cache
            /\ x \in DOMAIN s.cache => p.cache[x] = s.cache[x]
        BY <1>2, <3>1 DEF Plus
      <3>3. /\ x \in DOMAIN q.cache <=> x \in DOMAIN t.cache
            /\ x \in DOMAIN t.cache => q.cache[x] = t.cache[x]
        BY <1>3, <3>1 DEF Plus
      <3>4. /\ x \in DOMAIN s.cache <=> x \in DOMAIN t.cache
            /\ x \in DOMAIN s.cache => t.cache[x] = s.cache[x]
        BY <1>5, <3>1 DEF CacheAlike
      <3> QED
        BY <3>2, <3>3, <3>4
    <2> QED
      BY <2>1 DEF CacheAlike
  <1>10. q.out = p.out /\ q.val = p.val
    BY <1>2, <1>3
  <1>11. \A f \in A \ Own : q[f] = p[f]
    BY <1>4, <1>10 DEF Own
  <1>12. A \cap {"world", "buffered", "native", "written", "foreign"} = {}
    OBVIOUS
  <1>13. t.world \notin Secluded => q.cursor = p.cursor
    BY <1>2, <1>3, <1>8
  <1>14. Alone(s, t) => Once(p) /\ Once(q)
    BY <1>5, <1>6, <1>7
  <1>15. Lock(p, q)
    BY <1>2, <1>3, <1>6, <1>7, <1>9, <1>11, <1>12, <1>13, <1>14, LockBuilt
  <1> QED
    BY <1>6, <1>10, <1>15

LEMMA ArrayLocks ==
    ASSUME DataOK, NEW s, NEW t, Lock(s, t), s.out = "ok", NEW o \in Word,
           Sep(ReadOffsetArray(s, o).uses)
    PROVE  /\ Lock(ReadOffsetArray(s, o), ReadOffsetArray(t, o))
           /\ ReadOffsetArray(t, o).val = ReadOffsetArray(s, o).val
           /\ Grown(s, ReadOffsetArray(s, o), {"array"})
  <1> DEFINE p == ReadOffsetArray(s, o)
             q == ReadOffsetArray(t, o)
  <1>1. MemTyped(s) /\ MemTyped(t) /\ t.out = "ok" /\ Clean(s) /\ Clean(t) /\ Sound(s) /\ Sound(t)
    BY LockSame, LockClean DEF Lock
  <1>2. CASE o = NULL
    <2>1. p = Give(s, <<>>) /\ q = Give(t, <<>>)
      BY <1>2 DEF ReadOffsetArray
    <2>2. Give(s, <<>>).cache = s.cache
      BY <1>1, GiveIs DEF MemTyped, ReaderOK, Only, Fields
    <2> QED
      BY <2>1, <2>2, GiveLocks, GrownNot
  <1>3. CASE o # NULL
    <2>a. CachedArray(s, o) => o \notin s.foreign
      BY <1>1, <1>3, ForeignArray
    <2>b. CachedArray(t, o) => o \notin t.foreign
      BY DEF CachedArray, Lock, Twin, Placed
    <2>1. ArrayRead(s, p, o) /\ ArrayRead(t, q, o)
      BY <1>1, <1>3, <2>a, <2>b, ArrayIsRead
    <2>2. MemTyped(p) /\ MemTyped(q)
      BY <1>1, OffsetArrayTyped DEF StepTyped
    <2>3. Sep(p.uses)
      OBVIOUS
    <2> HIDE DEF p, q
    <2>4. Lock(p, q) /\ q.val = p.val /\ Grown(s, p, {"array"})
      BY <2>1, <2>2, <2>3, ArraysLock
    <2> QED
      BY <2>4 DEF p, q
  <1> QED
    BY <1>2, <1>3

-----------------------------------------------------------------------------
(* Objects *)

LEMMA MadeIs ==
    ASSUME NEW s, MemTyped(s), s.world # "plain", NEW is, NEW o, NEW fields
    PROVE  LET t == Make(s, is, o, fields) IN
           /\ Only(s, t, {"cache", "made", "again", "val"})
           /\ t.cache = Plus(s.cache, o, Value(is, <<o>>))
           /\ t.made = s.made \cup {<<Value(is, <<o>>), fields>>}
           /\ t.again = s.again \cup Before(s, Value(is, <<o>>))
           /\ t.val = Value(is, <<o>>)
           /\ t.uses = s.uses /\ t.out = s.out /\ t.foreign = s.foreign /\ t.cursor = s.cursor
  <1> DEFINE t == Make(s, is, o, fields)
  <1>1. Shape(s)
    BY DEF MemTyped, ReaderOK
  <1>2. /\ Only(s, t, {"cache", "made", "again", "val"})
        /\ t.cache = IF s.world = "plain" THEN s.cache ELSE Plus(s.cache, o, Value(is, <<o>>))
        /\ t.made = s.made \cup {<<Value(is, <<o>>), fields>>}
        /\ t.again = s.again \cup Before(s, Value(is, <<o>>))
        /\ t.val = Value(is, <<o>>)
    <2>1. Only(s, t, {"cache", "made", "again", "val"}) /\ t.val = Value(is, <<o>>)
      BY <1>1, MakeIs
    <2>2. t.cache = IF s.world = "plain" THEN s.cache ELSE Plus(s.cache, o, Value(is, <<o>>))
      BY <1>1, MakeIs
    <2>3. t.made = s.made \cup {<<Value(is, <<o>>), fields>>}
      BY <1>1, MakeIs
    <2>4. t.again = s.again \cup Before(s, Value(is, <<o>>))
      BY <1>1, MakeIs
    <2> QED
      BY <2>1, <2>2, <2>3, <2>4
  <1> HIDE DEF t
  <1>3. t.uses = s.uses /\ t.out = s.out /\ t.foreign = s.foreign /\ t.cursor = s.cursor
    BY <1>2 DEF Only, Fields
  <1> QED
    BY <1>2, <1>3 DEF t

LEMMA MadeLeaves ==
    ASSUME NEW s, MemTyped(s), NEW is, NEW o, NEW fields
    PROVE  LET t == Make(s, is, o, fields) IN
           t.uses = s.uses /\ t.out = s.out /\ t.foreign = s.foreign
  <1> DEFINE t == Make(s, is, o, fields)
  <1>1. Only(s, t, {"cache", "made", "again", "val"})
    BY MakeIs DEF MemTyped, ReaderOK
  <1> HIDE DEF t
  <1> QED
    BY <1>1 DEF t, Only, Fields

LEMMA MakeKeeps ==
    ASSUME NEW s, MemTyped(s), Sound(s), NEW o \in Word, NEW is \in RecKinds, NEW fields,
           s.world # "plain", <<is, o>> \in s.uses, Sep(s.uses)
    PROVE  LET t == Make(s, is, o, fields) IN
           /\ Sound(t) /\ DOMAIN t.cache = DOMAIN s.cache \cup {o}
           /\ Once(s) /\ o \notin DOMAIN s.cache => Once(t)
  <1> DEFINE t == Make(s, is, o, fields)
             v == Value(is, <<o>>)
  <1>1. /\ Only(s, t, {"cache", "made", "again", "val"})
        /\ t.cache = Plus(s.cache, o, v)
        /\ t.made = s.made \cup {<<v, fields>>}
        /\ t.again = s.again \cup Before(s, v)
    BY MadeIs
  <1> HIDE DEF t
  <1>2. t.names = s.names /\ t.foreign = s.foreign /\ t.uses = s.uses
    BY <1>1 DEF Only, Fields
  <1>3. v.is = is
    BY ValueIs
  <1> HIDE DEF v
  <1>4. Proper(v, o, t.uses, t.foreign)
    BY <1>2, <1>3 DEF Proper, v
  <1>5. o \in DOMAIN s.names => v = s.cache[o]
    <2>1. SUFFICES ASSUME o \in DOMAIN s.names PROVE v = s.cache[o]
      OBVIOUS
    <2>2. <<"type", o>> \in s.uses /\ s.cache[o] = Value("type", <<o>>)
      BY <2>1, NameIs
    <2>3. is = "type"
      BY <2>2, SepIs
    <2> QED
      BY <2>2, <2>3 DEF v
  <1>6. Sound(t)
    BY <1>1, <1>2, <1>4, <1>5, KeptPlus
  <1>7. DOMAIN t.cache = DOMAIN s.cache \cup {o}
    BY <1>1 DEF Plus
  <1>8. ASSUME Once(s), o \notin DOMAIN s.cache
        PROVE  Once(t)
    <2>1. ASSUME NEW m \in s.made
          PROVE  m[1] # v /\ KeptAs(m, t)
      <3>1. PICK k \in RecKinds, x \in DOMAIN s.cache : m[1] = Value(k, <<x>>) /\ <<k, x>> \in s.uses
        BY <1>8, <2>1 DEF Once, KeptAs
      <3>2. x # o
        BY <1>8, <3>1
      <3>3. m[1] # v
        BY <3>1, <3>2, ValueIs DEF v
      <3>4. x \in DOMAIN t.cache /\ <<k, x>> \in t.uses
        BY <1>2, <1>7, <3>1
      <3> QED
        BY <3>1, <3>3, <3>4 DEF KeptAs
    <2>2. Before(s, v) = {}
      BY <2>1 DEF Before
    <2>3. KeptAs(<<v, fields>>, t)
      <3>1. <<v, fields>>[1] = Value(is, <<o>>) /\ o \in DOMAIN t.cache /\ <<is, o>> \in t.uses
        BY <1>2, <1>7 DEF v
      <3> QED
        BY <3>1 DEF KeptAs
    <2>4. t.again = {}
      BY <1>1, <1>8, <2>2 DEF Once
    <2> QED
      BY <1>1, <2>1, <2>3, <2>4 DEF Once
  <1> QED
    BY <1>6, <1>7, <1>8 DEF t

\* A record is made by both.
MadeAlso(s, p, q, is, o) ==
    /\ Lock(p, q) /\ Grown(s, p, {is}) /\ p.val = Value(is, <<o>>) /\ q.val = p.val
    /\ o \in DOMAIN p.cache /\ p.cache[o] = p.val

LEMMA MakeLocks ==
    ASSUME NEW s, NEW t, Lock(s, t), s.out = "ok", NEW o \in Word, NEW is \in RecKinds, NEW fields,
           <<is, o>> \in s.uses, Sep(s.uses), Alone(s, t) => o \notin DOMAIN s.cache
    PROVE  MadeAlso(s, Make(s, is, o, fields), Make(t, is, o, fields), is, o)
  <1> DEFINE p == Make(s, is, o, fields)
             q == Make(t, is, o, fields)
             v == Value(is, <<o>>)
             A == {"cache", "made", "again", "val"}
  <1>1. /\ MemTyped(s) /\ MemTyped(t) /\ t.out = "ok" /\ t.uses = s.uses
        /\ s.world # "plain" /\ t.world # "plain" /\ t.made = s.made
    BY LockSame
  <1>2. Sound(s) /\ Sound(t) /\ (Alone(s, t) => Once(s) /\ Once(t)) /\ CacheAlike(s, t)
    BY DEF Lock, Twin
  <1>3. is \in {"type", "common", "bundle", "location"}
    BY DEF RecKinds
  <1>4. MemTyped(p) /\ MemTyped(q)
    BY <1>1, <1>3, MakeTyped DEF StepTyped
  <1>5. /\ Only(s, p, A) /\ p.cache = Plus(s.cache, o, v) /\ p.made = s.made \cup {<<v, fields>>} /\ p.val = v
        /\ Only(t, q, A) /\ q.cache = Plus(t.cache, o, v) /\ q.made = t.made \cup {<<v, fields>>} /\ q.val = v
    BY <1>1, MadeIs
  <1>6. /\ Sound(p) /\ DOMAIN p.cache = DOMAIN s.cache \cup {o}
        /\ Once(s) /\ o \notin DOMAIN s.cache => Once(p)
    BY <1>1, <1>2, MakeKeeps
  <1>7. /\ Sound(q)
        /\ Once(t) /\ o \notin DOMAIN t.cache => Once(q)
    BY <1>1, <1>2, MakeKeeps
  <1>8. o \in DOMAIN s.cache <=> o \in DOMAIN t.cache
    <2>1. <<"array", o>> \notin s.uses
      BY SepIs, KindsApart
    <2> QED
      BY <1>2, <2>1 DEF CacheAlike
  <1>9. t.world \notin Secluded => t.cursor = s.cursor
    BY DEF Lock, Twin, Near
  <1> HIDE DEF p, q, v
  <1>10. p.uses = s.uses /\ p.cursor = s.cursor /\ q.cursor = t.cursor
    BY <1>5 DEF Only, Fields
  <1>11. CacheAlike(p, q)
    <2>1. ASSUME NEW x, <<"array", x>> \notin p.uses
          PROVE  /\ x \in DOMAIN p.cache <=> x \in DOMAIN q.cache
                 /\ x \in DOMAIN p.cache => q.cache[x] = p.cache[x]
      <3>1. /\ x \in DOMAIN s.cache <=> x \in DOMAIN t.cache
            /\ x \in DOMAIN s.cache => t.cache[x] = s.cache[x]
        BY <1>2, <1>10, <2>1 DEF CacheAlike
      <3>2. CASE x = o
        BY <1>5, <3>2 DEF Plus
      <3>3. CASE x # o
        BY <1>5, <3>1, <3>3 DEF Plus
      <3> QED
        BY <3>2, <3>3
    <2> QED
      BY <2>1 DEF CacheAlike
  <1>12. \A f \in A \ Own : q[f] = p[f]
    <2>1. q.made = p.made /\ q.val = p.val
      BY <1>1, <1>5
    <2> QED
      BY <2>1 DEF Own
  <1>13. A \cap {"world", "buffered", "native", "written", "foreign"} = {}
    OBVIOUS
  <1>14. t.world \notin Secluded => q.cursor = p.cursor
    BY <1>9, <1>10
  <1>15. ASSUME Alone(s, t)
         PROVE  Once(p) /\ Once(q)
    <2>1. o \notin DOMAIN s.cache /\ o \notin DOMAIN t.cache /\ Once(s) /\ Once(t)
      BY <1>2, <1>8, <1>15
    <2> QED
      BY <1>6, <1>7, <2>1
  <1>16. Lock(p, q)
    BY <1>4, <1>5, <1>6, <1>7, <1>11, <1>12, <1>13, <1>14, <1>15, LockBuilt
  <1>17. Grown(s, p, {is})
    BY <1>6, <1>10 DEF Grown
  <1>18. o \in DOMAIN p.cache /\ p.cache[o] = v
    BY <1>5 DEF Plus
  <1> QED
    BY <1>5, <1>16, <1>17, <1>18 DEF p, q, v, MadeAlso

\* Both find a record, or neither does.
FoundAlso(s, t, is, o) ==
    /\ o \in DOMAIN s.cache <=> o \in DOMAIN t.cache
    /\ o \in DOMAIN s.cache => t.cache[o] = s.cache[o]
    /\ Alone(s, t) /\ o \in DOMAIN s.cache => s.cache[o] = Value(is, <<o>>)

LEMMA FoundAlike ==
    ASSUME NEW s, NEW t, Lock(s, t), NEW is \in RecKinds, NEW o, <<is, o>> \in s.uses, Sep(s.uses)
    PROVE  FoundAlso(s, t, is, o)
  <1>1. <<"array", o>> \notin s.uses
    BY SepIs, KindsApart
  <1>2. CacheAlike(s, t) /\ Sound(s)
    BY DEF Lock, Twin
  <1>3. ASSUME s.foreign = {}, o \in DOMAIN s.cache
        PROVE  s.cache[o] = Value(is, <<o>>)
    <2>1. Proper(s.cache[o], o, s.uses, s.foreign)
      BY <1>2, <1>3 DEF Sound
    <2>2. s.cache[o].is \in RecKinds /\ <<s.cache[o].is, o>> \in s.uses
          /\ s.cache[o] = Value(s.cache[o].is, <<o>>)
      BY <1>1, <1>3, <2>1 DEF Proper
    <2>3. s.cache[o].is = is
      BY <2>2, SepIs
    <2> QED
      BY <2>2, <2>3
  <1> QED
    BY <1>1, <1>2, <1>3 DEF CacheAlike, Alone, FoundAlso

LEMMA PairStep ==
    ASSUME DataOK, NEW s, MemTyped(s), s.out = "ok", NEW o \in Word, NEW is \in {"type", "common"}
    PROVE  StepTyped(s, ReadPair(s, is, o), {"read", "text"})
  BY PairTyped

\* A type or a common info is read by both.
PairAlso(s, t, p, q, is, o) ==
    /\ Lock(p, q)
    /\ Grown(s, p, {is}) /\ <<is, o>> \in p.uses
    /\ p.out = "ok" => q.val = p.val /\ o \in DOMAIN p.cache /\ p.cache[o] = p.val
    /\ Alone(s, t) /\ p.out = "ok" => p.val = Value(is, <<o>>)

LEMMA PairLocks ==
    ASSUME DataOK, NEW s, NEW t, Lock(s, t), s.out = "ok", NEW o \in Word,
           NEW is \in {"type", "common"}, Sep(ReadPair(s, is, o).uses)
    PROVE  PairAlso(s, t, ReadPair(s, is, o), ReadPair(t, is, o), is, o)
  <1> DEFINE u == Use(s, is, o)
             w == Use(t, is, o)
             c == ReadStructFrom(u, 2, o)
             d == ReadStructFrom(w, 2, o)
             a == Texts(c, IF is = "type" THEN c.val ELSE <<>>)
             b == Texts(d, IF is = "type" THEN d.val ELSE <<>>)
             p == ReadPair(s, is, o)
             q == ReadPair(t, is, o)
  <1>0. o \in Nat /\ o <= NULL /\ o \in Int /\ NULL \in Nat /\ is \in RecKinds
    BY DEF Word, DataOK, RecKinds
  <1>1. p = IF o \in DOMAIN s.cache THEN Give(u, s.cache[o])
            ELSE IF a.out = "ok" THEN Make(a, is, o, a.val) ELSE a
    BY DEF ReadPair, Then, Cached, Texts
  <1>2. q = IF o \in DOMAIN t.cache THEN Give(w, t.cache[o])
            ELSE IF b.out = "ok" THEN Make(b, is, o, b.val) ELSE b
    BY DEF ReadPair, Then, Cached, Texts
  <1>3. /\ Lock(u, w) /\ u.uses = s.uses \cup {<<is, o>>} /\ u.out = "ok" /\ u.cache = s.cache
        /\ Only(s, u, {"uses"}) /\ Only(t, w, {"uses"})
    BY UseLocks
  <1>4. w.cache = t.cache /\ u.foreign = s.foreign /\ w.foreign = t.foreign /\ MemTyped(u) /\ <<is, o>> \in u.uses
    BY <1>3, LockSame DEF Only, Fields
  <1> HIDE DEF u, w
  <1>5. /\ StepTyped(u, a, {"read", "text"}) /\ StepTyped(w, b, {"read", "text"})
        /\ Lock(a, b) /\ Only(u, a, Moved) /\ (a.out = "ok" => b.val = a.val)
    <2>1. /\ StepTyped(u, c, {"read", "text"}) /\ StepTyped(w, d, {"read", "text"})
          /\ Lock(c, d) /\ Only(u, c, Moved) /\ d.val = c.val
      BY <1>0, <1>3, <1>4, LockSame, StructLocks, StructFromTyped
    <2>2. /\ StepTyped(u, a, {"read", "text"}) /\ StepTyped(w, b, {"read", "text"})
      <3> HIDE DEF c, d
      <3> QED
        BY <2>1, TextsTyped
    <2> HIDE DEF c, d
    <2> DEFINE words == IF is = "type" THEN c.val ELSE <<>>
    <2>3. a = Texts(c, words) /\ b = Texts(d, words)
      BY <2>1
    <2> HIDE DEF a, b, words
    <2>4. Lock(a, b) /\ Only(c, a, {"out", "val"}) /\ (a.out = "ok" => a = c /\ b = d)
      BY <2>1, <2>3, TextsLock
    <2>5. Only(u, a, Moved)
      BY <2>1, <2>4 DEF Only, Moved
    <2> QED
      BY <2>1, <2>2, <2>4, <2>5
  <1> HIDE DEF a, b
  <1>6. a.uses = u.uses /\ a.cache = u.cache /\ a.foreign = u.foreign /\ b.out = a.out
    BY <1>5, LockSame DEF Only, Fields, Moved
  <1>7. w.cache = t.cache /\ b.foreign = t.foreign
    BY <1>4, <1>5 DEF StepTyped, Only, Fields, Memory
  <1>8. p.uses = u.uses /\ (o \in DOMAIN s.cache => p.val = s.cache[o] /\ p.cache = s.cache)
    <2>1. CASE o \in DOMAIN s.cache
      BY <1>1, <1>3, <1>4, <2>1, GiveIs DEF MemTyped, ReaderOK, Only, Fields
    <2>2. CASE o \notin DOMAIN s.cache /\ a.out = "ok"
      <3>1. p = Make(a, is, o, a.val) /\ MemTyped(a) /\ a.world # "plain"
        BY <1>1, <1>5, <2>2, LockSame
      <3> HIDE DEF a, p
      <3>2. Make(a, is, o, a.val).uses = a.uses
        BY <3>1, MadeLeaves
      <3> QED
        BY <1>6, <2>2, <3>1, <3>2
    <2>3. CASE o \notin DOMAIN s.cache /\ a.out # "ok"
      BY <1>1, <1>6, <2>3
    <2> QED
      BY <2>1, <2>2, <2>3
  <1>9. Sep(u.uses)
    BY <1>8
  <1>10. /\ o \in DOMAIN s.cache <=> o \in DOMAIN t.cache
         /\ o \in DOMAIN s.cache => t.cache[o] = s.cache[o]
         /\ Alone(s, t) /\ o \in DOMAIN s.cache => s.cache[o] = Value(is, <<o>>)
    <2>1. Alone(s, t) <=> Alone(u, w)
      BY <1>4 DEF Alone
    <2>2. FoundAlso(u, w, is, o)
      BY <1>0, <1>3, <1>4, <1>9, FoundAlike
    <2> QED
      BY <1>3, <1>4, <2>1, <2>2 DEF FoundAlso
  <1> HIDE DEF p, q
  <1>11. CASE o \in DOMAIN s.cache
    <2>1. p = Give(u, s.cache[o]) /\ q = Give(w, s.cache[o])
      BY <1>1, <1>2, <1>10, <1>11
    <2>2. Lock(p, q) /\ q.val = p.val
      BY <1>3, <2>1, GiveLocks
    <2> QED
      BY <1>4, <1>8, <1>10, <1>11, <2>2, GrownNot DEF p, q, PairAlso
  <1>12. CASE o \notin DOMAIN s.cache /\ a.out = "ok"
    <2>1. p = Make(a, is, o, a.val) /\ q = Make(b, is, o, a.val)
      BY <1>1, <1>2, <1>5, <1>6, <1>10, <1>12
    <2>a. <<is, o>> \in a.uses /\ Sep(a.uses) /\ (Alone(a, b) => o \notin DOMAIN a.cache)
      BY <1>3, <1>4, <1>6, <1>9, <1>12
    <2>b. MadeAlso(a, p, q, is, o)
      BY <1>0, <1>5, <1>12, <2>1, <2>a, MakeLocks
    <2>2. /\ Lock(p, q) /\ Grown(a, p, {is}) /\ p.val = Value(is, <<o>>) /\ q.val = p.val
          /\ o \in DOMAIN p.cache /\ p.cache[o] = p.val
      BY <2>b DEF MadeAlso
    <2>3. Grown(s, p, {is})
      BY <1>3, <1>6, <2>2 DEF Grown
    <2> QED
      BY <1>4, <1>8, <2>2, <2>3 DEF p, q, PairAlso
  <1>13. CASE o \notin DOMAIN s.cache /\ a.out # "ok"
    <2>1. p = a /\ q = b
      BY <1>1, <1>2, <1>6, <1>10, <1>13
    <2>2. Grown(s, p, {is})
      BY <1>3, <1>6, <2>1 DEF Grown
    <2> QED
      BY <1>4, <1>5, <1>8, <1>13, <2>1, <2>2 DEF p, q, PairAlso
  <1> QED
    BY <1>11, <1>12, <1>13

LEMMA VersionLocks ==
    ASSUME NEW s, NEW t, Lock(s, t), s.out = "ok", t.val = s.val, Alone(s, t) => s.val.is = "common"
    PROVE  /\ Lock(SetVersion(s), SetVersion(t))
           /\ SetVersion(s).out = "ok" => SetVersion(s) = s /\ SetVersion(t) = t
           /\ SetVersion(s).uses = s.uses /\ SetVersion(s).cache = s.cache
  <1>1. ~s.native /\ MemTyped(s)
    BY LockSame
  <1>2. t.world = "private" => Alone(s, t)
    BY DEF Lock, Twin, Placed, Near, Secluded, Alone
  <1>3. CASE s.val.is # "common"
    <2>1. SetVersion(s) = Fail(s, "attribute") /\ SetVersion(t) = Fail(t, "attribute")
      BY <1>1, <1>2, <1>3 DEF SetVersion
    <2>2. Fail(s, "attribute").uses = s.uses /\ Fail(s, "attribute").cache = s.cache
          /\ Fail(s, "attribute").out # "ok"
      BY <1>1, FailIs DEF MemTyped, ReaderOK, Only, Fields
    <2> QED
      BY <2>1, <2>2, FailLocks
  <1>4. CASE s.val.is = "common"
    <2>1. SetVersion(s) = s /\ SetVersion(t) = t
      BY <1>1, <1>4 DEF SetVersion
    <2> QED
      BY <2>1
  <1> QED
    BY <1>3, <1>4

\* The version is set, and the text of the bundle is read.
Versioned(s, words) == Texts(SetVersion(s), words)

LEMMA VersionedOnly ==
    ASSUME NEW s, MemTyped(s), s.out = "ok", NEW words
    PROVE  /\ Only(s, Versioned(s, words), {"out", "val"}) /\ MemTyped(Versioned(s, words))
           /\ Versioned(s, words).out = "ok" => Versioned(s, words) = s
  <1> DEFINE v == SetVersion(s)
  <1>1. Only(s, v, {"out", "val"}) /\ StepTyped(s, v, {"attribute", "text"}) /\ (v.out = "ok" => v = s)
    <2>1. StepTyped(s, v, {"attribute"}) /\ (v.out = "ok" => v = s)
      BY VersionTyped
    <2>2. Only(s, v, {"out", "val"})
      BY FailIs, OnlyNone DEF SetVersion, MemTyped, ReaderOK
    <2>3. {"attribute"} \subseteq {"attribute", "text"}
      OBVIOUS
    <2> HIDE DEF v
    <2> QED
      BY <2>1, <2>2, <2>3, StepTypedMore
  <1> HIDE DEF v
  <1>2. /\ StepTyped(s, Texts(v, words), {"attribute", "text"})
        /\ Texts(v, words).out = "ok" => v.out = "ok" /\ Texts(v, words) = v
    BY <1>1, TextsTyped
  <1>3. Only(v, Texts(v, words), {"out", "val"})
    BY <1>1, TextsAre DEF Only
  <1>4. Only(s, Texts(v, words), {"out", "val"})
    BY <1>1, <1>3 DEF Only
  <1> QED
    BY <1>1, <1>2, <1>4 DEF Versioned, StepTyped, v

LEMMA VersionedLocks ==
    ASSUME NEW s, NEW t, Lock(s, t), s.out = "ok", t.val = s.val, Alone(s, t) => s.val.is = "common",
           NEW words
    PROVE  /\ Lock(Versioned(s, words), Versioned(t, words))
           /\ Versioned(s, words).out = "ok" => Versioned(s, words) = s /\ Versioned(t, words) = t
           /\ Versioned(s, words).uses = s.uses /\ Versioned(s, words).cache = s.cache
  <1> DEFINE p == SetVersion(s)
             q == SetVersion(t)
  <1>1. /\ Lock(p, q) /\ (p.out = "ok" => p = s /\ q = t) /\ p.uses = s.uses /\ p.cache = s.cache
    BY VersionLocks
  <1> HIDE DEF p, q
  <1>2. /\ Lock(Texts(p, words), Texts(q, words)) /\ Only(p, Texts(p, words), {"out", "val"})
        /\ Texts(p, words).out = "ok" => p.out = "ok" /\ Texts(p, words) = p /\ Texts(q, words) = q
    BY <1>1, TextsLock
  <1>3. Texts(p, words).uses = p.uses /\ Texts(p, words).cache = p.cache
    BY <1>2 DEF Only, Fields
  <1> QED
    BY <1>1, <1>2, <1>3 DEF Versioned, p, q

LEMMA BundleLocks ==
    ASSUME DataOK, NEW s, NEW t, Lock(s, t), s.out = "ok", NEW o \in Word,
           Sep(ReadBundle(s, o).uses)
    PROVE  LET p == ReadBundle(s, o) IN
           /\ Lock(p, ReadBundle(t, o))
           /\ Grown(s, p, {"bundle", "common"}) /\ <<"bundle", o>> \in p.uses
           /\ p.out = "ok" => ReadBundle(t, o).val = p.val
  <1> DEFINE u == Use(s, "bundle", o)
             w == Use(t, "bundle", o)
             a == ReadStructFrom(u, 5, o)
             e == ReadStructFrom(w, 5, o)
             h == ReadStructFrom(a, 4, a.val[1])
             g == ReadStructFrom(e, 4, e.val[1])
             c == ReadCommonInfo(h, a.val[5])
             d == ReadCommonInfo(g, e.val[5])
             b == Versioned(c, <<a.val[2]>>)
             f == Versioned(d, <<e.val[2]>>)
             x == Make(b, "bundle", o, <<h.val, a.val, b.val>>)
             y == Make(f, "bundle", o, <<g.val, e.val, f.val>>)
             p == ReadBundle(s, o)
             q == ReadBundle(t, o)
             Ks == {"bundle", "common"}
  <1>0. o \in Nat /\ o <= NULL /\ o \in Int /\ NULL \in Nat /\ "bundle" \in RecKinds
        /\ 5 \in Nat /\ 4 \in Nat /\ 5 # 0 /\ 4 # 0
    BY DEF Word, DataOK, RecKinds
  <1>1. p = IF o \in DOMAIN s.cache THEN Give(u, s.cache[o])
            ELSE IF a.out # "ok" THEN a
            ELSE IF h.out # "ok" THEN h
            ELSE IF c.out # "ok" THEN c
            ELSE IF b.out # "ok" THEN b
            ELSE x
    BY DEF ReadBundle, Then, Cached, Versioned, Texts
  <1>2. q = IF o \in DOMAIN t.cache THEN Give(w, t.cache[o])
            ELSE IF e.out # "ok" THEN e
            ELSE IF g.out # "ok" THEN g
            ELSE IF d.out # "ok" THEN d
            ELSE IF f.out # "ok" THEN f
            ELSE y
    BY DEF ReadBundle, Then, Cached, Versioned, Texts
  <1>3. /\ Lock(u, w) /\ u.uses = s.uses \cup {<<"bundle", o>>} /\ u.out = "ok" /\ u.cache = s.cache
        /\ Only(s, u, {"uses"}) /\ Only(t, w, {"uses"})
    BY UseLocks
  <1>4. w.cache = t.cache /\ u.foreign = s.foreign /\ w.foreign = t.foreign /\ MemTyped(u) /\ MemTyped(w)
        /\ <<"bundle", o>> \in u.uses /\ w.out = "ok"
    BY <1>3, LockSame DEF Only, Fields
  <1> HIDE DEF u, w, p, q
  <1>5. CASE o \in DOMAIN s.cache
    <2>1. p = Give(u, s.cache[o])
      BY <1>1, <1>5
    <2>2. p.uses = u.uses /\ p.cache = s.cache
      BY <1>3, <1>4, <2>1, GiveIs DEF MemTyped, ReaderOK, Only, Fields
    <2>3. o \in DOMAIN t.cache /\ t.cache[o] = s.cache[o]
      <3>1. Sep(u.uses)
        BY <2>2 DEF p
      <3>2. FoundAlso(u, w, "bundle", o)
        BY <1>0, <1>3, <1>4, <3>1, FoundAlike
      <3> QED
        BY <1>3, <1>4, <1>5, <3>2 DEF FoundAlso
    <2>4. q = Give(w, s.cache[o])
      BY <1>2, <2>3
    <2>5. Lock(p, q) /\ q.val = p.val
      BY <1>3, <2>1, <2>4, GiveLocks
    <2> QED
      BY <1>4, <2>2, <2>5, GrownNot DEF p, q
  <1>6. CASE o \notin DOMAIN s.cache
    <2>1. /\ StepTyped(u, a, {"read", "text"}) /\ Lock(a, e) /\ Only(u, a, Moved) /\ Only(w, e, Moved)
          /\ a.out = "ok" => a.val \in Seq(Word) /\ Len(a.val) = 5
          /\ e.val = a.val
      <3>a. StructAlso(a, e)
        BY <1>0, <1>3, StructsLock
      <3>1. Lock(a, e) /\ e.val = a.val
        BY <3>a DEF StructAlso
      <3>2. StepTyped(u, a, {"read", "text"}) /\ Answered(a, 5)
        BY <1>0, <1>3, <1>4, StructFromAnswers
      <3>3. Only(u, a, Moved) /\ Only(w, e, Moved)
        BY <1>0, <1>3, <1>4, StructOnly
      <3> HIDE DEF a, e
      <3> QED
        BY <3>1, <3>2, <3>3 DEF Answered
    <2>2. /\ a.uses = u.uses /\ a.cache = s.cache /\ a.foreign = s.foreign /\ e.out = a.out
          /\ e.foreign = t.foreign /\ MemTyped(a) /\ MemTyped(e)
      BY <1>3, <1>4, <2>1, LockSame DEF Only, Fields, Moved
    <2> HIDE DEF a, e
    <2>3. o \notin DOMAIN t.cache
      <3>1. u.uses \subseteq p.uses
        <4>1. CASE a.out = "ok"
          <5>1. a.val[1] \in Word /\ a.val[1] \in Int /\ a.val[1] <= NULL /\ a.val[5] \in Word
            BY <2>1, <4>1, WordsAreInts DEF Word
          <5>2. StepTyped(a, h, {"read", "text"})
            BY <1>0, <2>2, <4>1, <5>1, StructFromTyped
          <5>3. MemTyped(h) /\ a.uses \subseteq h.uses
            BY <5>2 DEF StepTyped
          <5> HIDE DEF h
          <5>4. h.out = "ok" => StepTyped(h, c, {"read", "text"})
            BY <5>1, <5>3, PairTyped DEF ReadCommonInfo
          <5>5. h.out = "ok" => MemTyped(c) /\ h.uses \subseteq c.uses
            BY <5>4 DEF StepTyped
          <5> HIDE DEF c
          <5>6. h.out = "ok" /\ c.out = "ok" => Only(c, b, {"out", "val"}) /\ MemTyped(b)
            BY <5>5, VersionedOnly
          <5>7. h.out = "ok" /\ c.out = "ok" => MemTyped(b) /\ c.uses \subseteq b.uses
            BY <5>6 DEF Only, Fields
          <5> HIDE DEF b
          <5>8. h.out = "ok" /\ c.out = "ok" /\ b.out = "ok" => x.uses = b.uses
            BY <5>7, MadeLeaves
          <5> HIDE DEF x
          <5> QED
            BY <1>1, <1>6, <2>2, <4>1, <5>3, <5>5, <5>7, <5>8
        <4>2. CASE a.out # "ok"
          BY <1>1, <1>6, <2>2, <4>2
        <4> QED
          BY <4>1, <4>2
      <3>2. Sep(u.uses)
        BY <3>1, SepLess DEF p
      <3>3. FoundAlso(u, w, "bundle", o)
        BY <1>0, <1>3, <1>4, <3>2, FoundAlike
      <3> QED
        BY <1>3, <1>4, <1>6, <3>3 DEF FoundAlso
    <2>4. CASE a.out # "ok"
      <3>1. p = a /\ q = e
        BY <1>1, <1>2, <1>6, <2>2, <2>3, <2>4
      <3> QED
        BY <1>4, <2>1, <2>2, <3>1, GrownNot DEF p, q
    <2>5. CASE a.out = "ok"
      <3>1. a.val[1] \in Word /\ a.val[1] \in Int /\ a.val[1] <= NULL /\ a.val[5] \in Word
        BY <2>1, <2>5, WordsAreInts DEF Word
      <3>2. /\ StepTyped(a, h, {"read", "text"}) /\ Lock(h, g) /\ Only(a, h, Moved) /\ Only(e, g, Moved)
            /\ g.val = h.val
        BY <1>0, <2>1, <2>2, <2>5, <3>1, StructLocks, StructFromTyped
      <3>3. /\ h.uses = u.uses /\ h.cache = s.cache /\ h.foreign = s.foreign /\ g.out = h.out
            /\ g.foreign = t.foreign /\ MemTyped(h) /\ MemTyped(g)
        BY <2>2, <3>2, LockSame DEF Only, Fields, Moved
      <3> HIDE DEF h, g
      <3>4. CASE h.out # "ok"
        <4>1. p = h /\ q = g
          BY <1>1, <1>2, <1>6, <2>2, <2>3, <2>5, <3>3, <3>4
        <4> QED
          BY <1>4, <3>2, <3>3, <4>1, GrownNot DEF p, q
      <3>5. CASE h.out = "ok"
        <4>1. StepTyped(h, c, {"read", "text"}) /\ StepTyped(g, d, {"read", "text"})
          <5>1. c = ReadPair(h, "common", a.val[5]) /\ d = ReadPair(g, "common", a.val[5])
            BY <2>1 DEF ReadCommonInfo
          <5>2. g.out = "ok" /\ "common" \in {"type", "common"}
            BY <3>3, <3>5
          <5> HIDE DEF c, d
          <5> QED
            BY <3>1, <3>3, <3>5, <5>1, <5>2, PairStep
        <4>2. /\ MemTyped(c) /\ h.uses \subseteq c.uses /\ c.foreign = s.foreign /\ d.foreign = t.foreign
              /\ MemTyped(d)
          BY <3>3, <4>1 DEF StepTyped, Only, Fields, Memory
        <4>3. c.uses \subseteq p.uses
          <5> HIDE DEF c
          <5>1. c.out = "ok" => b.uses = c.uses /\ MemTyped(b)
            BY <4>2, VersionedOnly DEF Only, Fields
          <5> HIDE DEF b
          <5>2. c.out = "ok" /\ b.out = "ok" => x.uses = b.uses
            BY <5>1, MadeLeaves
          <5> HIDE DEF x
          <5> QED
            BY <1>1, <1>6, <2>5, <3>5, <5>1, <5>2
        <4>4. Sep(c.uses)
          BY <4>3, SepLess DEF p
        <4>5. /\ Lock(c, d) /\ Grown(h, c, {"common"}) /\ (c.out = "ok" => d.val = c.val)
              /\ Alone(h, g) /\ c.out = "ok" => c.val = Value("common", <<a.val[5]>>)
          <5>1. c = ReadPair(h, "common", a.val[5]) /\ d = ReadPair(g, "common", a.val[5])
            BY <2>1 DEF ReadCommonInfo
          <5>2. "common" \in {"type", "common"}
            OBVIOUS
          <5> HIDE DEF c, d
          <5>3. PairAlso(h, g, c, d, "common", a.val[5])
            BY <3>1, <3>2, <3>5, <4>4, <5>1, <5>2, PairLocks
          <5> QED
            BY <5>3 DEF PairAlso
        <4>6. Alone(c, d) => Alone(h, g)
          BY <3>3, <4>2 DEF Alone
        <4>7. Grown(s, c, Ks)
          BY <3>3, <4>5 DEF Grown
        <4>8. Alone(c, d) /\ c.out = "ok" => c.val.is = "common"
          BY <4>5, <4>6, ValueIs
        <4>9. d.out = c.out /\ <<"bundle", o>> \in c.uses
          BY <1>4, <3>3, <4>2, <4>5, LockSame
        <4>10. Alone(c, d) => o \notin DOMAIN c.cache
          <5>1. SUFFICES ASSUME o \in DOMAIN c.cache PROVE FALSE
            OBVIOUS
          <5>2. <<"common", o>> \in c.uses
            BY <1>6, <3>3, <4>5, <5>1 DEF Grown
          <5> QED
            BY <4>4, <4>9, <5>2, SepIs
        <4> HIDE DEF c, d
        <4>11. CASE c.out # "ok"
          <5>1. p = c /\ q = d
            BY <1>1, <1>2, <1>6, <2>2, <2>3, <2>5, <3>3, <3>5, <4>9, <4>11
          <5> QED
            BY <4>5, <4>7, <4>9, <5>1 DEF p, q
        <4>12. CASE c.out = "ok"
          <5>0. f = Versioned(d, <<a.val[2]>>)
            BY <2>1
          <5>1. /\ Lock(b, f) /\ (b.out = "ok" => b = c /\ f = d)
                /\ b.uses = c.uses /\ b.cache = c.cache
            BY <4>5, <4>8, <4>12, <5>0, VersionedLocks
          <5>2. f.out = b.out /\ (b.out = "ok" => f.val = b.val)
            BY <4>5, <4>12, <5>1, LockSame
          <5>3. b.foreign = c.foreign /\ f.foreign = d.foreign
            <6>1. Only(c, b, {"out", "val"}) /\ Only(d, f, {"out", "val"})
              BY <4>2, <4>9, <4>12, <5>0, VersionedOnly
            <6> QED
              BY <6>1 DEF Only, Fields
          <5> HIDE DEF b, f
          <5>4. CASE b.out # "ok"
            <6>1. p = b /\ q = f
              BY <1>1, <1>2, <1>6, <2>2, <2>3, <2>5, <3>3, <3>5, <4>9, <4>12, <5>2, <5>4
            <6>2. Grown(s, b, Ks)
              BY <4>7, <5>1 DEF Grown
            <6> QED
              BY <4>9, <5>1, <5>4, <6>1, <6>2 DEF p, q
          <5>5. CASE b.out = "ok"
            <6>1. p = x /\ q = Make(f, "bundle", o, <<h.val, a.val, b.val>>)
              <7>1. p = x
                BY <1>1, <1>6, <2>5, <3>5, <4>12, <5>5
              <7>2. q = y
                BY <1>2, <2>2, <2>3, <2>5, <3>3, <3>5, <4>9, <4>12, <5>2, <5>5
              <7>3. g.val = h.val /\ e.val = a.val /\ f.val = b.val
                BY <2>1, <3>2, <5>2, <5>5
              <7> QED
                BY <7>1, <7>2, <7>3
            <6>2. Alone(b, f) => o \notin DOMAIN b.cache
              BY <4>10, <5>1, <5>3 DEF Alone
            <6>a. <<"bundle", o>> \in b.uses /\ Sep(b.uses)
              BY <4>4, <4>9, <5>1
            <6>b. MadeAlso(b, p, q, "bundle", o)
              <7>1. MadeAlso(b, Make(b, "bundle", o, <<h.val, a.val, b.val>>),
                             Make(f, "bundle", o, <<h.val, a.val, b.val>>), "bundle", o)
                BY <1>0, <5>1, <5>5, <6>2, <6>a, MakeLocks
              <7> QED
                BY <6>1, <7>1
            <6>3. Lock(p, q) /\ Grown(b, p, {"bundle"}) /\ q.val = p.val
              BY <6>b DEF MadeAlso
            <6>4. p.uses = b.uses
              BY <5>1, <6>1, LockSame, MadeLeaves
            <6>5. Grown(s, p, Ks)
              BY <4>7, <5>1, <6>3, <6>4 DEF Grown
            <6> QED
              BY <4>9, <5>1, <6>3, <6>4, <6>5 DEF p, q
          <5> QED
            BY <5>4, <5>5
        <4> QED
          BY <4>11, <4>12
      <3> QED
        BY <3>4, <3>5
    <2> QED
      BY <2>4, <2>5
  <1> QED
    BY <1>5, <1>6

-----------------------------------------------------------------------------
(* Names of types *)

NameKind(s) == KindOf(s.version, data[s.val.at[1] + 1], data[s.val.at[1] + 2])

NameError(s) == IF s.val.is # "type" THEN "attribute" ELSE IF NameKind(s) = "value" THEN "value" ELSE "ok"

LEMMA MatchIs ==
    ASSUME NEW s, MemTyped(s), s.world # "plain", NEW o
    PROVE  LET t == MatchName(s, o) IN
           IF NameError(s) # "ok" THEN t = Fail(s, NameError(s))
           ELSE /\ Only(s, t, {"type", "kind", "names"})
                /\ t.type = s.val /\ t.kind = NameKind(s)
                /\ t.names = Plus(s.names, o, <<s.val, NameKind(s)>>)
  <1> DEFINE kind == NameKind(s)
             names == Plus(s.names, o, <<s.val, kind>>)
             t == [s EXCEPT !.type = s.val, !.kind = kind, !.names = names]
  <1>1. MatchName(s, o)
          = IF s.val.is # "type" THEN Fail(s, "attribute")
            ELSE IF kind = "value" THEN Fail(s, "value") ELSE t
    BY DEF MatchName, NameKind, Plus
  <1> HIDE DEF kind, names
  <1>2. Only(s, t, {"type", "kind", "names"}) /\ t.type = s.val /\ t.kind = kind /\ t.names = names
    BY DEF MemTyped, ReaderOK, Only, Shape, Fields
  <1> HIDE DEF t
  <1>3. CASE NameError(s) # "ok"
    BY <1>1, <1>3 DEF NameError, kind
  <1>4. CASE NameError(s) = "ok"
    <2>1. MatchName(s, o) = t
      BY <1>1, <1>4 DEF NameError, kind
    <2> QED
      BY <1>2, <1>4, <2>1 DEF kind, names
  <1> QED
    BY <1>3, <1>4

LEMMA NamedSound ==
    ASSUME NEW s, Sound(s), NEW t, t.cache = s.cache, t.uses = s.uses, t.foreign = s.foreign,
           NEW o \in DOMAIN s.cache, NEW v, t.names = Plus(s.names, o, v),
           v[1] = s.cache[o], s.cache[o].is = "type"
    PROVE  Sound(t)
  <1>1. ASSUME NEW x \in DOMAIN t.names
        PROVE  NameKept(x, t.cache, t.names)
    <2>1. CASE x = o
      <3>1. t.names[x] = v
        BY <2>1 DEF Plus
      <3> QED
        BY <2>1, <3>1 DEF NameKept
    <2>2. CASE x # o
      <3>1. x \in DOMAIN s.names /\ t.names[x] = s.names[x]
        BY <1>1, <2>2 DEF Plus
      <3>2. NameKept(x, s.cache, s.names)
        BY <3>1 DEF Sound
      <3> QED
        BY <3>1, <3>2 DEF NameKept
    <2> QED
      BY <2>1, <2>2
  <1> QED
    BY <1>1 DEF Sound

\* The same type is recognised by both, and kept under its name.
LEMMA MatchLocks ==
    ASSUME DataOK, NEW s, NEW t, Lock(s, t), s.out = "ok", t.val = s.val, s.val \in Vals, NEW o,
           o \in DOMAIN s.cache, s.cache[o] = s.val, o \in DOMAIN t.cache, t.cache[o] = s.val
    PROVE  /\ Lock(MatchName(s, o), MatchName(t, o))
           /\ MatchName(s, o).uses = s.uses /\ MatchName(s, o).cache = s.cache
  <1> DEFINE p == MatchName(s, o)
             q == MatchName(t, o)
             A == {"type", "kind", "names"}
             e == NameError(s)
             v == <<s.val, NameKind(s)>>
  <1>1. /\ MemTyped(s) /\ MemTyped(t) /\ t.out = "ok" /\ t.uses = s.uses /\ t.names = s.names
        /\ s.world # "plain" /\ t.world # "plain" /\ t.version = s.version
    BY LockSame
  <1>2. NameKind(t) = NameKind(s) /\ NameError(t) = e
    BY <1>1 DEF NameKind, NameError
  <1>3. CASE e # "ok"
    <2>1. p = Fail(s, e) /\ q = Fail(t, e)
      BY <1>1, <1>2, <1>3, MatchIs
    <2> HIDE DEF e, p, q
    <2>2. Fail(s, e).uses = s.uses /\ Fail(s, e).cache = s.cache
      BY <1>1, FailIs DEF MemTyped, ReaderOK, Only, Fields
    <2> QED
      BY <2>1, <2>2, FailLocks DEF p, q
  <1>4. CASE e = "ok"
    <2>1. /\ Only(s, p, A) /\ p.type = s.val /\ p.kind = NameKind(s) /\ p.names = Plus(s.names, o, v)
      BY <1>1, <1>4, MatchIs
    <2>2. /\ Only(t, q, A) /\ q.type = s.val /\ q.kind = NameKind(s) /\ q.names = Plus(s.names, o, v)
      BY <1>1, <1>2, <1>4, MatchIs
    <2>3. MemTyped(p) /\ MemTyped(q)
      BY <1>1, MatchNameTyped DEF PartTyped
    <2>4. s.val.is = "type" /\ v[1] = s.val
      BY <1>4 DEF NameError
    <2> HIDE DEF p, q, e, v
    <2>5. /\ p.uses = s.uses /\ p.cache = s.cache /\ p.cursor = s.cursor /\ p.foreign = s.foreign
          /\ p.made = s.made /\ p.again = s.again
          /\ q.uses = t.uses /\ q.cache = t.cache /\ q.cursor = t.cursor /\ q.foreign = t.foreign
          /\ q.made = t.made /\ q.again = t.again
      BY <2>1, <2>2 DEF Only, Fields
    <2>6. Sound(s) /\ Sound(t) /\ CacheAlike(s, t) /\ (Alone(s, t) => Once(s) /\ Once(t))
      BY DEF Lock, Twin
    <2>7. Sound(p)
      BY <2>1, <2>4, <2>5, <2>6, NamedSound
    <2>8. Sound(q)
      BY <1>1, <2>2, <2>4, <2>5, <2>6, NamedSound
    <2>9. CacheAlike(p, q)
      BY <2>5, <2>6 DEF CacheAlike
    <2>10. Alone(s, t) => Once(p) /\ Once(q)
      BY <2>5, <2>6, OnceMore
    <2>11. t.world \notin Secluded => q.cursor = p.cursor
      BY <2>5 DEF Lock, Twin, Near
    <2>12. \A f \in A \ Own : q[f] = p[f]
      BY <2>1, <2>2
    <2>13. A \cap {"world", "buffered", "native", "written", "foreign"} = {}
      OBVIOUS
    <2> HIDE DEF A
    <2>14. Lock(p, q)
      BY <2>1, <2>2, <2>3, <2>7, <2>8, <2>9, <2>10, <2>11, <2>12, <2>13, LockBuilt DEF A
    <2> QED
      BY <2>5, <2>14 DEF p, q
  <1> QED
    BY <1>3, <1>4

\* Both do the same work, and find in the cache what they have read.
Along(s, p, q, kinds) == Lock(p, q) /\ Grown(s, p, kinds)

LEMMA TypeNameLocks ==
    ASSUME DataOK, NEW s, NEW t, Lock(s, t), s.out = "ok", NEW o \in Word,
           Sep(ReadTypeName(s, o).uses)
    PROVE  Along(s, ReadTypeName(s, o), ReadTypeName(t, o), {"type"})
  <1> DEFINE a == ReadSerializedType(s, o)
             b == ReadSerializedType(t, o)
             k == [s EXCEPT !.type = s.names[o][1], !.kind = s.names[o][2]]
             l == [t EXCEPT !.type = t.names[o][1], !.kind = t.names[o][2]]
             n == [b EXCEPT !.type = b.val, !.kind = b.names[o][2]]
             p == ReadTypeName(s, o)
             q == ReadTypeName(t, o)
  <1>0. /\ MemTyped(s) /\ MemTyped(t) /\ t.out = "ok" /\ ~s.native /\ t.names = s.names /\ t.uses = s.uses
        /\ Sound(s) /\ Sound(t)
    BY LockSame DEF Lock
  <1>1. p = IF o \notin DOMAIN s.names THEN IF a.out = "ok" THEN MatchName(a, o) ELSE a ELSE k
    BY <1>0 DEF ReadTypeName, Then
  <1>2. q = IF o \notin DOMAIN s.names THEN IF b.out = "ok" THEN MatchName(b, o) ELSE b
            ELSE IF t.native /\ t.world # "bridge" THEN IF b.out = "ok" THEN n ELSE b
            ELSE l
    BY <1>0 DEF ReadTypeName, Then
  <1> HIDE DEF p, q
  <1>3. CASE o \notin DOMAIN s.names
    <2>1. a = ReadPair(s, "type", o) /\ b = ReadPair(t, "type", o) /\ "type" \in {"type", "common"}
      BY DEF ReadSerializedType
    <2> HIDE DEF a, b
    <2>2. StepTyped(s, a, {"read", "text"}) /\ (a.out = "ok" => a.val \in Vals)
      BY <1>0, <2>1, PairTyped
    <2>3. MemTyped(a)
      BY <2>2 DEF StepTyped
    <2>4. a.out = "ok" => MatchName(a, o).uses = a.uses
      <3>1. ASSUME a.out = "ok"
            PROVE  MatchName(a, o).uses = a.uses
        <4>1. a.world # "plain"
          BY <2>2, LockSame DEF StepTyped, Only, Fields, Memory
        <4>2. \/ MatchName(a, o) = Fail(a, NameError(a))
              \/ Only(a, MatchName(a, o), {"type", "kind", "names"})
          BY <2>3, <4>1, MatchIs
        <4>3. Fail(a, NameError(a)).uses = a.uses
          BY <2>3, FailIs DEF MemTyped, ReaderOK, Only, Fields
        <4> QED
          BY <4>2, <4>3 DEF Only, Fields
      <3> QED
        BY <3>1
    <2>5. Sep(a.uses)
      BY <1>1, <1>3, <2>4 DEF p
    <2>6. PairAlso(s, t, a, b, "type", o)
      BY <2>1, <2>5, PairLocks
    <2>7. Lock(a, b) /\ Grown(s, a, {"type"}) /\ b.out = a.out
      BY <2>6, LockSame DEF PairAlso
    <2>8. CASE a.out # "ok"
      <3>1. p = a /\ q = b
        BY <1>1, <1>2, <1>3, <2>7, <2>8
      <3> QED
        BY <2>7, <3>1 DEF p, q, Along
    <2>9. CASE a.out = "ok"
      <3>1. p = MatchName(a, o) /\ q = MatchName(b, o)
        BY <1>1, <1>2, <1>3, <2>7, <2>9
      <3>2. b.val = a.val /\ o \in DOMAIN a.cache /\ a.cache[o] = a.val /\ <<"type", o>> \in a.uses
        BY <2>6, <2>9 DEF PairAlso
      <3>3. o \in DOMAIN b.cache /\ b.cache[o] = a.val
        <4>1. "type" \in RecKinds
          BY DEF RecKinds
        <4>2. FoundAlso(a, b, "type", o)
          BY <2>5, <2>7, <3>2, <4>1, FoundAlike
        <4> QED
          BY <3>2, <4>2 DEF FoundAlso
      <3>4. Lock(p, q) /\ p.uses = a.uses /\ p.cache = a.cache
        BY <2>2, <2>7, <2>9, <3>1, <3>2, <3>3, MatchLocks
      <3>5. Grown(s, p, {"type"})
        BY <2>7, <3>4 DEF Grown
      <3> QED
        BY <3>4, <3>5 DEF p, q, Along
    <2> QED
      BY <2>8, <2>9
  <1>4. CASE o \in DOMAIN s.names
    <2> DEFINE A == {"uses", "val", "type", "kind"}
    <2>0. Shape(s) /\ Shape(t)
      BY <1>0 DEF MemTyped, ReaderOK
    <2>1. Only(s, k, {"type", "kind"}) /\ k.type = s.names[o][1] /\ k.kind = s.names[o][2]
      BY <1>0 DEF MemTyped, ReaderOK, Only, Shape, Fields
    <2>2. k.uses = s.uses /\ k.cursor = s.cursor /\ k.cache = s.cache /\ Only(s, k, A)
      BY <2>1 DEF Only, Fields
    <2>3. p = k
      BY <1>1, <1>4
    <2>4. MemTyped(p) /\ MemTyped(q)
      BY <1>0, TypeNameTyped DEF PartTyped, p, q
    <2> HIDE DEF k
    <2>5. /\ Only(t, q, A) /\ q.uses = s.uses /\ q.type = k.type /\ q.kind = k.kind /\ q.cursor = t.cursor
      <3>1. CASE ~(t.native /\ t.world # "bridge")
        <4>1. Only(t, l, {"type", "kind"}) /\ l.type = t.names[o][1] /\ l.kind = t.names[o][2]
          BY <1>0 DEF MemTyped, ReaderOK, Only, Shape, Fields
        <4>2. q = l
          BY <1>2, <1>4, <3>1
        <4> HIDE DEF l
        <4> QED
          BY <1>0, <2>1, <4>1, <4>2 DEF Only, Fields
      <3>2. CASE t.native /\ t.world # "bridge"
        <4>0. Sound(t) /\ o \in DOMAIN t.names
          BY <1>0, <1>4
        <4>1. /\ <<"type", o>> \in t.uses /\ o \in DOMAIN t.cache /\ t.names[o][1] = t.cache[o]
          BY <4>0, NameIs
        <4>2. b = Give(Use(t, "type", o), t.cache[o])
          BY <4>1 DEF ReadSerializedType, ReadPair, Cached
        <4> HIDE DEF p, q, l
        <4>3. Only(t, Use(t, "type", o), {"uses"}) /\ Use(t, "type", o).uses = t.uses \cup {<<"type", o>>}
          BY <1>0, UseIs DEF MemTyped, ReaderOK
        <4> HIDE DEF b
        <4>4. Only(Use(t, "type", o), b, {"val"}) /\ b.val = t.cache[o]
          BY <4>2, <4>3, GiveIs DEF Only
        <4>5. Only(t, b, {"uses", "val"}) /\ b.uses = t.uses /\ b.out = "ok" /\ b.names = t.names
          BY <1>0, <4>1, <4>3, <4>4 DEF Only, Fields
        <4>6. Only(b, n, {"type", "kind"}) /\ n.type = b.val /\ n.kind = b.names[o][2]
          BY <4>5 DEF Only, Shape, Fields
        <4>7. q = n
          BY <1>2, <1>4, <3>2, <4>5
        <4> HIDE DEF n
        <4>8. Only(t, n, A) /\ n.uses = t.uses /\ n.cursor = t.cursor
          BY <4>5, <4>6 DEF Only, Fields
        <4> QED
          BY <1>0, <2>1, <4>1, <4>4, <4>5, <4>6, <4>7, <4>8
      <3> QED
        BY <3>1, <3>2
    <2>6. \A f \in A \ Own : q[f] = p[f]
      BY <2>2, <2>3, <2>5 DEF Own
    <2>7. A \subseteq Loose
      BY DEF Loose
    <2>8. t.world \notin Secluded => q.cursor = p.cursor
      BY <2>2, <2>3, <2>5 DEF Lock, Twin, Near
    <2>9. Only(s, p, A) /\ Only(t, q, A) /\ s.uses \subseteq p.uses
      BY <2>2, <2>3, <2>5
    <2> HIDE DEF A
    <2>10. Lock(p, q)
      BY <2>4, <2>6, <2>7, <2>8, <2>9, LockMoved
    <2>11. Grown(s, p, {"type"})
      BY <2>2, <2>3, GrownNot
    <2> QED
      BY <2>10, <2>11 DEF p, q, Along
  <1> QED
    BY <1>3, <1>4

-----------------------------------------------------------------------------
(* Objects of the table *)

\* A stream answers the same from the same place, and leaves the cursor at the same place.
LEMMA ExactAlike ==
    ASSUME NEW s, Shape(s), NEW t, Shape(t), s.out = "ok", t.out = "ok",
           t.cursor = s.cursor, t.written = s.written, NEW n
    PROVE  LET p == ReadExact(s, n)
               q == ReadExact(t, n)
           IN  q.cursor = p.cursor /\ q.out = p.out /\ q.val = p.val
  <1> DEFINE r == [s EXCEPT !.cursor = @ + Available(s)]
             u == [t EXCEPT !.cursor = @ + Available(t)]
  <1>1. Available(t) = Available(s) /\ StreamWords(t, n) = StreamWords(s, n)
    BY DEF Available, StreamWords
  <1>2. CASE n < 0
    <2>1. ReadExact(s, n) = Fail(s, "read") /\ ReadExact(t, n) = Fail(t, "read")
      BY <1>2 DEF ReadExact
    <2> QED
      BY <2>1 DEF Fail, Shape, Fields
  <1>3. CASE ~(n < 0) /\ n > Available(s)
    <2>1. ReadExact(s, n) = Fail(r, "read") /\ ReadExact(t, n) = Fail(u, "read")
      BY <1>1, <1>3 DEF ReadExact
    <2>2. Shape(r) /\ Shape(u) /\ u.cursor = r.cursor
      BY <1>1 DEF Shape, Fields
    <2> HIDE DEF r, u
    <2> QED
      BY <2>1, <2>2 DEF Fail, Shape, Fields
  <1>4. CASE ~(n < 0) /\ ~(n > Available(s))
    <2>1. /\ ReadExact(s, n) = [s EXCEPT !.cursor = @ + n, !.val = StreamWords(s, n)]
          /\ ReadExact(t, n) = [t EXCEPT !.cursor = @ + n, !.val = StreamWords(t, n)]
      BY <1>1, <1>4 DEF ReadExact
    <2> QED
      BY <1>1, <2>1 DEF Shape, Fields
  <1> QED
    BY <1>2, <1>3, <1>4

LEMMA SeekAlike ==
    ASSUME NEW s, Shape(s), NEW t, Shape(t), s.out = "ok", t.out = "ok",
           t.written = s.written, NEW n, NEW p \in Word
    PROVE  LET a == ReadAfterSeek(s, n, p)
               b == ReadAfterSeek(t, n, p)
           IN  b.cursor = a.cursor /\ b.out = a.out /\ b.val = a.val
  <1> DEFINE r == [s EXCEPT !.cursor = p]
             u == [t EXCEPT !.cursor = p]
  <1>1. Seek(s, p) = r /\ Seek(t, p) = u
    BY DEF Seek, Word
  <1>2. /\ Shape(r) /\ r.cursor = p /\ r.out = "ok" /\ r.written = s.written
        /\ Shape(u) /\ u.cursor = p /\ u.out = "ok" /\ u.written = t.written
    BY DEF Shape, Fields
  <1>3. ReadAfterSeek(s, n, p) = ReadExact(r, n) /\ ReadAfterSeek(t, n, p) = ReadExact(u, n)
    BY <1>1, <1>2 DEF ReadAfterSeek, Then
  <1> HIDE DEF r, u
  <1> QED
    BY <1>2, <1>3, ExactAlike

\* Nobody has written to the stream: it answers what the buffer has.
LEMMA SeekIsBuffer ==
    ASSUME DataOK, NEW s, MemTyped(s), s.out = "ok", s.written = Empty, NEW n \in Nat \ {0}, NEW p \in Word
    PROVE  LET t == ReadAfterSeek(s, n, p) IN
           /\ Only(s, t, Moved)
           /\ IF Within(p, n) THEN t.out = "ok" /\ t.val = Words(p, n) ELSE t.out = "read" /\ t.val = <<>>
  <1>1. p \in Int /\ p \in Nat /\ p <= NULL /\ p >= 0 /\ n >= 0 /\ n \in Nat /\ n \in Int /\ n # 0
    BY DEF Word, DataOK
  <1> DEFINE t == ReadAfterSeek(s, n, p)
  <1>2. /\ Only(s, t, Moved)
        /\ IF n >= 0 /\ p >= 0 /\ (n = 0 \/ p + n <= Len(data))
           THEN t.out = "ok" /\ t.cursor = p + n /\ t.val = Stream(s.written, p, n)
           ELSE t.out = "read" /\ t.cursor \in Word /\ t.val = <<>>
    BY <1>1, ReadAfterSeekIs DEF MemTyped
  <1> HIDE DEF t
  <1>3. Within(p, n) => Stream(Empty, p, n) = Words(p, n)
    BY <1>1, StreamIsBuffer DEF Within
  <1> QED
    BY <1>1, <1>2, <1>3 DEF Within, t

LEMMA ScalarLocks ==
    ASSUME DataOK, NEW s, NEW t, Lock(s, t), s.out = "ok", NEW n \in Nat \ {0}, NEW p \in Word
    PROVE  StructAlso(ReadScalar(s, n, p), ReadScalar(t, n, p))
  <1> DEFINE a == ReadScalar(s, n, p)
             b == ReadScalar(t, n, p)
  <1>1. MemTyped(s) /\ MemTyped(t) /\ t.out = "ok" /\ ~s.native
    BY LockSame
  <1>2. /\ StepTyped(s, a, {"read", "text"}) /\ Only(s, a, Moved)
        /\ StepTyped(t, b, {"read", "text"}) /\ Only(t, b, Moved)
    BY <1>1, ScalarTyped
  <1>3. MemTyped(a) /\ MemTyped(b) /\ s.uses \subseteq a.uses
    BY <1>2 DEF StepTyped
  <1>4. a = ReadAfterSeek(s, n, p)
    BY <1>1 DEF ReadScalar
  <1>5. b.out = a.out /\ b.val = a.val /\ (t.world \notin Secluded => b.cursor = a.cursor)
    <2>1. CASE t.world \in Secluded
      <3>1. s.written = Empty /\ t.written = Empty
        BY <2>1 DEF Lock, Twin, Near, Placed
      <3>2. IF Within(p, n) THEN a.out = "ok" /\ a.val = Words(p, n) ELSE a.out = "read" /\ a.val = <<>>
        BY <1>1, <1>4, <3>1, SeekIsBuffer
      <3>3. IF Within(p, n) THEN b.out = "ok" /\ b.val = Words(p, n) ELSE b.out = "read" /\ b.val = <<>>
        <4>1. p \in Int /\ n \in Int
          BY DEF Word, DataOK
        <4>2. CASE t.native /\ t.world = "private"
          BY <1>1, <4>1, <4>2, FromBufferIs DEF ReadScalar, MemTyped, ReaderOK
        <4>3. CASE ~(t.native /\ t.world = "private")
          BY <1>1, <3>1, <4>3, SeekIsBuffer DEF ReadScalar
        <4> QED
          BY <4>2, <4>3
      <3> QED
        BY <2>1, <3>2, <3>3
    <2>2. CASE t.world \notin Secluded
      <3>1. t.written = s.written /\ t.world # "private"
        BY <2>2 DEF Lock, Twin, Near, Secluded
      <3>2. b = ReadAfterSeek(t, n, p)
        BY <3>1 DEF ReadScalar
      <3>3. Shape(s) /\ Shape(t)
        BY <1>1 DEF MemTyped, ReaderOK
      <3> HIDE DEF a, b
      <3> QED
        BY <1>1, <1>4, <3>1, <3>2, <3>3, SeekAlike
    <2> QED
      BY <2>1, <2>2
  <1> HIDE DEF a, b
  <1>6. \A f \in Moved \ Own : b[f] = a[f]
    BY <1>5 DEF Moved, Own
  <1>7. Moved \subseteq Loose
    BY DEF Loose, Moved
  <1>8. Lock(a, b)
    BY <1>2, <1>3, <1>5, <1>6, <1>7, LockMoved
  <1> QED
    BY <1>5, <1>8 DEF a, b, StructAlso

\* Both decode the same.
ObjectAlso(s, p, q, kinds) ==
    /\ Lock(p, q)
    /\ Grown(s, p, kinds)
    /\ p.out = "ok" => q.val = p.val

LEMMA PayloadLocks ==
    ASSUME DataOK, NEW s, NEW t, Lock(s, t), s.out = "ok", s.kind \in Kinds, NEW p \in Word,
           Sep(ReadPayload(s, p).uses)
    PROVE  ObjectAlso(s, ReadPayload(s, p), ReadPayload(t, p), {"bundle", "common"})
  <1> DEFINE a == ReadPayload(s, p)
             b == ReadPayload(t, p)
             kinds == {"bundle", "common"}
  <1>0. /\ t.kind = s.kind /\ t.out = "ok" /\ MemTyped(s) /\ MemTyped(t)
        /\ p \in Int /\ p <= NULL /\ 2 \in Nat /\ 2 # 0
    BY LockSame DEF Word, DataOK
  <1>1. CASE s.kind = "unsupported"
    <2>1. a = Fail(s, "unsupported") /\ b = Fail(t, "unsupported")
      BY <1>0, <1>1 DEF ReadPayload
    <2>2. Fail(s, "unsupported").cache = s.cache /\ Fail(s, "unsupported").out # "ok"
      BY <1>0, FailIs DEF MemTyped, ReaderOK, Only, Fields
    <2> HIDE DEF kinds, a, b
    <2>3. Lock(a, b) /\ Grown(s, a, kinds) /\ a.out # "ok"
      BY <2>1, <2>2, FailLocks, GrownNot
    <2> QED
      BY <2>3 DEF kinds, a, b, ObjectAlso
  <1>2. CASE s.kind # "unsupported" /\ p = NULL
    <2> DEFINE v == DefaultValue(s.kind)
    <2>1. a = Give(s, v) /\ b = Give(t, v)
      BY <1>0, <1>2 DEF ReadPayload
    <2> HIDE DEF v
    <2>2. Give(s, v).cache = s.cache
      BY <1>0, GiveIs DEF MemTyped, ReaderOK, Only, Fields
    <2> HIDE DEF kinds, a, b
    <2>3. Lock(a, b) /\ Grown(s, a, kinds) /\ b.val = a.val
      BY <2>1, <2>2, GiveLocks, GrownNot
    <2> QED
      BY <2>3 DEF kinds, a, b, ObjectAlso
  <1>3. CASE s.kind = "bundle" /\ p # NULL
    <2>1. a = ReadBundle(s, p) /\ b = ReadBundle(t, p)
      BY <1>0, <1>3 DEF ReadPayload
    <2> HIDE DEF a, b
    <2>2. Sep(ReadBundle(s, p).uses)
      BY <2>1 DEF a
    <2>3. /\ Lock(ReadBundle(s, p), ReadBundle(t, p))
          /\ Grown(s, ReadBundle(s, p), {"bundle", "common"})
          /\ ReadBundle(s, p).out = "ok" => ReadBundle(t, p).val = ReadBundle(s, p).val
      BY <2>2, BundleLocks
    <2>4. Lock(a, b) /\ Grown(s, a, kinds) /\ (a.out = "ok" => b.val = a.val)
      BY <2>1, <2>3
    <2> HIDE DEF kinds
    <2> QED
      BY <2>4 DEF ObjectAlso, a, b, kinds
  <1>4. CASE s.kind = "string" /\ p # NULL
    <2> DEFINE k == ReadStructFrom(s, 2, p)
               l == ReadStructFrom(t, 2, p)
               x == Texts(k, <<k.val[1]>>)
               y == Texts(l, <<l.val[1]>>)
               v == IF x.val[1] \in NoText THEN None ELSE Value("string", <<x.val[1]>>)
    <2>a. a = (IF x.out = "ok" THEN Give(x, v) ELSE x)
      BY <1>4 DEF ReadPayload, Then, Texts
    <2>b. b = (IF y.out = "ok" THEN Give(y, IF y.val[1] \in NoText THEN None ELSE Value("string", <<y.val[1]>>))
               ELSE y)
      BY <1>0, <1>4 DEF ReadPayload, Then, Texts
    <2>c. StructAlso(k, l) /\ Only(s, k, Moved)
      BY <1>0, StructsLock, StructOnly
    <2> HIDE DEF k, l, a, b
    <2>d. Lock(k, l) /\ l.val = k.val
      BY <2>c DEF StructAlso
    <2>e. Lock(x, y) /\ Only(k, x, {"out", "val"}) /\ (x.out = "ok" => x = k /\ y = l)
      BY <2>d, TextsLock
    <2>1. Lock(x, y) /\ Only(s, x, Moved) /\ (x.out = "ok" => y.val = x.val)
      BY <2>c, <2>d, <2>e DEF Only, Moved
    <2> HIDE DEF x, y
    <2>2. Lock(x, y) /\ (x.out = "ok" => y.val = x.val) /\ y.out = x.out /\ x.cache = s.cache
      BY <2>1, LockSame DEF Only, Moved, Fields
    <2>3. CASE x.out = "ok"
      <3>1. a = Give(x, v) /\ b = Give(y, v)
        BY <2>a, <2>b, <2>2, <2>3
      <3> HIDE DEF v
      <3>2. Give(x, v).cache = x.cache
        BY <2>2, GiveIs DEF Lock, MemTyped, ReaderOK, Only, Fields
      <3> HIDE DEF kinds, a, b
      <3>3. Lock(a, b) /\ b.val = a.val /\ a.cache = s.cache
        BY <2>2, <2>3, <3>1, <3>2, GiveLocks
      <3> QED
        BY <3>3, GrownNot DEF kinds, a, b, ObjectAlso
    <2>4. CASE x.out # "ok"
      <3>1. a = x /\ b = y
        BY <2>a, <2>b, <2>2, <2>4
      <3> QED
        BY <2>2, <2>4, <3>1, GrownNot DEF ObjectAlso, a, b
    <2> QED
      BY <2>3, <2>4
  <1>5. CASE s.kind \in {"int", "long", "bool", "hash"} /\ p # NULL
    <2> DEFINE n == ScalarSize[s.kind]
               x == ReadScalar(s, n, p)
               y == ReadScalar(t, n, p)
               v == ScalarValue(x.kind, x.val)
    <2>0. n \in Nat /\ n \in Nat \ {0}
      BY <1>5 DEF ScalarSize
    <2>a. a = (IF x.out = "ok" THEN Give(x, ScalarValue(x.kind, x.val)) ELSE x)
      BY <1>5 DEF ReadPayload, Then
    <2>b. b = (IF y.out = "ok" THEN Give(y, ScalarValue(y.kind, y.val)) ELSE y)
      BY <1>0, <1>5 DEF ReadPayload, Then
    <2> HIDE DEF n, a, b
    <2>1. StructAlso(x, y) /\ Only(s, x, Moved)
      BY <1>0, <2>0, ScalarLocks, ScalarTyped
    <2> HIDE DEF x, y
    <2>2. Lock(x, y) /\ y.val = x.val /\ y.out = x.out /\ y.kind = x.kind /\ x.cache = s.cache
      BY <2>1, LockSame DEF StructAlso, Only, Moved, Fields
    <2>3. CASE x.out = "ok"
      <3>1. a = Give(x, v) /\ b = Give(y, v)
        BY <2>a, <2>b, <2>2, <2>3
      <3> HIDE DEF v
      <3>2. Give(x, v).cache = x.cache
        BY <2>2, GiveIs DEF Lock, MemTyped, ReaderOK, Only, Fields
      <3> HIDE DEF kinds
      <3>3. Lock(a, b) /\ b.val = a.val /\ a.cache = s.cache
        BY <2>2, <2>3, <3>1, <3>2, GiveLocks
      <3> QED
        BY <3>3, GrownNot DEF kinds, a, b, ObjectAlso
    <2>4. CASE x.out # "ok"
      <3>1. a = x /\ b = y
        BY <2>a, <2>b, <2>2, <2>4
      <3> QED
        BY <2>2, <2>4, <3>1, GrownNot DEF ObjectAlso, a, b
    <2> QED
      BY <2>3, <2>4
  <1> QED
    BY <1>1, <1>2, <1>3, <1>4, <1>5 DEF Kinds

LEMMA ObjectLocks ==
    ASSUME DataOK, NEW s, NEW t, Lock(s, t), s.out = "ok", NEW o \in Word,
           Sep(DecodeObject(s, o).uses)
    PROVE  ObjectAlso(s, DecodeObject(s, o), DecodeObject(t, o), {"type", "bundle", "common"})
  <1> DEFINE a == DecodeObject(s, o)
             b == DecodeObject(t, o)
             n == [s EXCEPT !.val = None, !.type = None]
             m == [t EXCEPT !.val = None, !.type = None]
             x == ReadStructFrom(s, 2, o)
             y == ReadStructFrom(t, 2, o)
             u == ReadTypeName(x, x.val[1])
             w == ReadTypeName(y, y.val[1])
             p == ReadPayload(u, x.val[2])
             q == ReadPayload(w, y.val[2])
             kinds == {"type", "bundle", "common"}
  <1>0. /\ t.out = "ok" /\ MemTyped(s) /\ MemTyped(t) /\ t.type = s.type
        /\ o \in Int /\ o <= NULL /\ 2 \in Nat /\ 2 # 0
    BY LockSame DEF Word, DataOK
  <1>1. a = IF o = NULL THEN n ELSE IF x.out # "ok" THEN x ELSE IF u.out # "ok" THEN u ELSE p
    BY DEF DecodeObject, Then
  <1>2. b = IF o = NULL THEN m ELSE IF y.out # "ok" THEN y ELSE IF w.out # "ok" THEN w ELSE q
    BY DEF DecodeObject, Then
  <1>3. CASE o = NULL
    <2> DEFINE A == {"val", "type"}
    <2>1. /\ Only(s, n, A) /\ n.val = None /\ n.type = None
          /\ Only(t, m, A) /\ m.val = None /\ m.type = None
      BY <1>0 DEF MemTyped, ReaderOK, Only, Shape, Fields
    <2>2. a = n /\ b = m
      BY <1>1, <1>2, <1>3
    <2>3. MemTyped(a) /\ MemTyped(b)
      BY <1>0, ObjectTyped DEF PartTyped
    <2> HIDE DEF n, m, a, b
    <2>4. \A f \in A \ Own : m[f] = n[f]
      BY <2>1
    <2>5. A \subseteq Loose /\ n.cache = s.cache /\ n.uses = s.uses /\ n.cursor = s.cursor /\ m.cursor = t.cursor
      BY <2>1 DEF Loose, Only, Fields
    <2>6. t.world \notin Secluded => m.cursor = n.cursor
      BY <2>5 DEF Lock, Twin, Near
    <2>7. Lock(a, b)
      <3> HIDE DEF A
      <3> QED
        BY <2>1, <2>2, <2>3, <2>4, <2>5, <2>6, LockMoved
    <2> QED
      BY <2>1, <2>2, <2>5, <2>7, GrownNot DEF ObjectAlso, a, b
  <1>4. CASE o # NULL
    <2>1. StructAlso(x, y) /\ Only(s, x, Moved) /\ MemTyped(x)
          /\ (x.out = "ok" => x.val \in Seq(Word) /\ Len(x.val) = 2)
      BY <1>0, StructsLock, StructOnly, StructFromTyped DEF StepTyped
    <2> HIDE DEF x, y
    <2>2. Lock(x, y) /\ y.val = x.val /\ y.out = x.out /\ x.cache = s.cache
      BY <2>1, LockSame DEF StructAlso, Only, Moved, Fields
    <2>3. CASE x.out # "ok"
      <3>1. a = x /\ b = y
        BY <1>1, <1>2, <1>4, <2>2, <2>3
      <3> QED
        BY <2>2, <2>3, <3>1, GrownNot DEF ObjectAlso, a, b
    <2>4. CASE x.out = "ok"
      <3>1. x.val[1] \in Word /\ x.val[2] \in Word
        BY <2>1, <2>4, WordsAreInts
      <3>2. w = ReadTypeName(y, x.val[1]) /\ q = ReadPayload(w, x.val[2])
        BY <2>2
      <3>3. /\ PartTyped(x, u, {"read", "text", "attribute", "value"}) /\ MemTyped(u)
            /\ u.out = "ok" => u.type \in Vals /\ u.kind \in Kinds
        BY <2>1, <2>4, <3>1, TypeNameTyped DEF PartTyped
      <3> HIDE DEF w
      <3>a. u.out = "ok" => StepTyped(u, p, Errors)
        BY <3>1, <3>3, PayloadTyped
      <3> HIDE DEF p, q, u
      <3>4. u.uses \subseteq a.uses
        BY <1>1, <1>4, <2>4, <3>a DEF StepTyped
      <3>5. Sep(u.uses)
        BY <3>4, SepLess
      <3>6. Along(x, u, w, {"type"})
        BY <2>2, <2>4, <3>1, <3>2, <3>5, TypeNameLocks DEF u
      <3>7. Lock(u, w) /\ Grown(x, u, {"type"}) /\ w.out = u.out
        BY <3>6, LockSame DEF Along
      <3>8. Grown(s, u, {"type"})
        BY <2>2, <3>7 DEF Grown
      <3>9. CASE u.out # "ok"
        <4>1. a = u /\ b = w
          BY <1>1, <1>2, <1>4, <2>2, <2>4, <3>7, <3>9
        <4>2. Grown(s, u, kinds)
          BY <3>8 DEF Grown
        <4> QED
          BY <3>7, <3>9, <4>1, <4>2 DEF ObjectAlso, a, b
      <3>10. CASE u.out = "ok"
        <4>1. a = p /\ b = q
          BY <1>1, <1>2, <1>4, <2>2, <2>4, <3>7, <3>10
        <4>2. ObjectAlso(u, p, q, {"bundle", "common"})
          BY <3>1, <3>2, <3>3, <3>7, <3>10, <4>1, PayloadLocks DEF p
        <4>3. u.uses \subseteq p.uses
          BY <3>10, <3>a DEF StepTyped
        <4>4. Grown(s, p, {"type"} \cup {"bundle", "common"})
          BY <3>8, <4>2, <4>3, GrownTransitive DEF ObjectAlso
        <4>5. {"type"} \cup {"bundle", "common"} = kinds
          OBVIOUS
        <4> HIDE DEF kinds
        <4>6. Grown(s, p, kinds)
          BY <4>4, <4>5
        <4> QED
          BY <4>1, <4>2, <4>6 DEF ObjectAlso, a, b, kinds
      <3> QED
        BY <3>9, <3>10
    <2> QED
      BY <2>3, <2>4
  <1> QED
    BY <1>3, <1>4

-----------------------------------------------------------------------------
(* Locations *)

\* The same calls are in progress.
SameCalls(q, r) == Len(q) = Len(r) /\ \A i \in 1..Len(q) : q[i].at = r[i].at /\ q[i].what = r[i].what

\* The locations in progress have been asked for, each once, and are not there yet; their
\* names can be read.
Awaited(s) ==
    \A i \in 2..Len(s.stack) :
        /\ <<"location", s.stack[i].at>> \in s.uses
        /\ Named(s.stack[i].what)
        /\ s.foreign = {} => s.stack[i].at \notin DOMAIN s.cache
        /\ \A j \in 2..Len(s.stack) : s.stack[i].at = s.stack[j].at => i = j

LEMMA AwaitedMore ==
    ASSUME NEW s, Awaited(s), s.stack \in Stacks, NEW t, SameCalls(s.stack, t.stack), s.uses \subseteq t.uses,
           NEW kinds, Grown(s, t, kinds), "location" \notin kinds, Sep(t.uses), t.foreign = s.foreign
    PROVE  Awaited(t)
  <1>1. Len(t.stack) = Len(s.stack) /\ Len(s.stack) \in Nat
    BY DEF SameCalls, Stacks
  <1> SUFFICES ASSUME NEW i \in 2..Len(t.stack)
               PROVE  /\ <<"location", t.stack[i].at>> \in t.uses
                      /\ Named(t.stack[i].what)
                      /\ t.foreign = {} => t.stack[i].at \notin DOMAIN t.cache
                      /\ \A j \in 2..Len(t.stack) : t.stack[i].at = t.stack[j].at => i = j
    BY DEF Awaited
  <1>2. \A j \in 2..Len(t.stack) : j \in 2..Len(s.stack) /\ t.stack[j].at = s.stack[j].at
    BY <1>1 DEF SameCalls
  <1>3. i \in 2..Len(s.stack) /\ t.stack[i].at = s.stack[i].at /\ t.stack[i].what = s.stack[i].what
    BY <1>1, <1>2 DEF SameCalls
  <1>4. <<"location", t.stack[i].at>> \in t.uses /\ Named(t.stack[i].what)
    BY <1>3 DEF Awaited
  <1>5. ASSUME t.foreign = {}, t.stack[i].at \in DOMAIN t.cache
        PROVE  FALSE
    <2> DEFINE x == t.stack[i].at
    <2>1. x \notin DOMAIN s.cache
      BY <1>3, <1>5 DEF Awaited
    <2>2. PICK k \in kinds : <<k, x>> \in t.uses
      BY <1>5, <2>1 DEF Grown
    <2>3. k = "location"
      BY <1>4, <2>2, SepIs
    <2> QED
      BY <2>2, <2>3
  <1>6. \A j \in 2..Len(t.stack) : t.stack[i].at = t.stack[j].at => i = j
    BY <1>2, <1>3 DEF Awaited
  <1> QED
    BY <1>4, <1>5, <1>6

\* With nothing new in the cache.
LEMMA AwaitedSame ==
    ASSUME NEW s, Awaited(s), s.stack \in Stacks, NEW t, SameCalls(s.stack, t.stack), s.uses \subseteq t.uses,
           t.cache = s.cache, t.foreign = s.foreign
    PROVE  Awaited(t)
  <1>1. Len(t.stack) = Len(s.stack) /\ Len(s.stack) \in Nat
    BY DEF SameCalls, Stacks
  <1>2. \A j \in 2..Len(t.stack) : /\ j \in 2..Len(s.stack) /\ t.stack[j].at = s.stack[j].at
                                   /\ t.stack[j].what = s.stack[j].what
    BY <1>1 DEF SameCalls
  <1> QED
    BY <1>2 DEF Awaited

LEMMA RetopSame ==
    ASSUME NEW stack \in Stacks, stack # <<>>, NEW f \in Frames, f.at = stack[Len(stack)].at,
           f.what = stack[Len(stack)].what
    PROVE  SameCalls(stack, Retop(stack, f))
  <1>1. stack \in Seq(Frames)
    BY DEF Stacks
  <1> QED
    BY <1>1 DEF SameCalls, Retop

\* Both ask for the same location, and what is there is delivered to both.
LEMMA StackLocks ==
    ASSUME NEW s, NEW t, Lock(s, t), NEW p, NEW q, ParseTyped(p), ParseTyped(q),
           Only(s, p, {"stack", "uses"}), Only(t, q, {"stack", "uses"}), q.stack = p.stack, q.uses = p.uses,
           s.uses \subseteq p.uses
    PROVE  Lock(p, q)
  <1> DEFINE A == {"stack", "uses"}
  <1>1. MemTyped(p) /\ MemTyped(q)
    BY DEF ParseTyped
  <1>2. \A f \in A \ Own : q[f] = p[f]
    OBVIOUS
  <1>3. A \subseteq Loose
    BY DEF Loose
  <1>4. p.cursor = s.cursor /\ q.cursor = t.cursor
    BY DEF Only, Fields
  <1>5. t.world \notin Secluded => q.cursor = p.cursor
    BY <1>4 DEF Lock, Twin, Near
  <1>6. Only(s, p, A) /\ Only(t, q, A)
    OBVIOUS
  <1> HIDE DEF A
  <1> QED
    BY <1>1, <1>2, <1>3, <1>5, <1>6, LockMoved

\* What both have after a step inside an entry.
StepAlso(p, q) == Lock(p, q) /\ Awaited(p)

LEMMA DeliverLocks ==
    ASSUME NEW s, NEW t, ParseTyped(s), ParseTyped(t), StepAlso(s, t), s.stack # <<>>, NEW v \in Vals
    PROVE  StepAlso(Deliver(s, v), Deliver(t, v))
  <1> DEFINE p == Deliver(s, v)
             q == Deliver(t, v)
             f == s.stack[Len(s.stack)]
             g == [f EXCEPT !.got = Append(@, v)]
  <1>1. Lock(s, t) /\ Awaited(s) /\ t.stack = s.stack /\ t.uses = s.uses
    BY LockSame DEF StepAlso
  <1>2. /\ Only(s, p, {"stack"}) /\ p.stack = Retop(s.stack, g)
        /\ Only(t, q, {"stack"}) /\ q.stack = Retop(t.stack, [t.stack[Len(t.stack)] EXCEPT !.got = Append(@, v)])
    BY DeliverIs DEF ParseTyped, MemTyped, ReaderOK
  <1>3. q.stack = p.stack
    BY <1>1, <1>2
  <1>4. ParseTyped(p) /\ ParseTyped(q)
    BY <1>1, DeliverTyped
  <1>5. f \in Frames /\ s.stack \in Stacks
    BY TopTyped DEF ParseTyped, FixTyped
  <1>6. g \in Frames /\ g.at = f.at /\ g.what = f.what
    <2>1. g \in Frames /\ g.at = f.at
      BY <1>5, FrameTyped
    <2>2. g.what = f.what
      BY <1>5 DEF Frames, EntryFrames, LocationFrames
    <2> QED
      BY <2>1, <2>2
  <1> HIDE DEF p, q, g
  <1>7. p.uses = s.uses /\ q.uses = t.uses /\ p.cache = s.cache /\ p.foreign = s.foreign
    BY <1>2 DEF Only, Fields
  <1>8. Only(s, p, {"stack", "uses"}) /\ Only(t, q, {"stack", "uses"})
    BY <1>2, OnlyMore
  <1>9. Lock(p, q)
    BY <1>1, <1>3, <1>4, <1>7, <1>8, StackLocks
  <1>10. SameCalls(s.stack, p.stack)
    BY <1>2, <1>5, <1>6, RetopSame
  <1>11. Awaited(p)
    BY <1>1, <1>5, <1>7, <1>10, AwaitedSame
  <1> QED
    BY <1>9, <1>11 DEF StepAlso, p, q

LEMMA AskedLocks ==
    ASSUME NEW s, NEW t, ParseTyped(s), ParseTyped(t), StepAlso(s, t), s.out = "ok", s.stack # <<>>,
           Top(s).left # <<>>, NEW o
    PROVE  LET p == Asked(s, o) IN
           /\ StepAlso(p, Asked(t, o)) /\ <<"location", o>> \in p.uses
           /\ SameCalls(s.stack, p.stack) /\ p.cache = s.cache /\ p.foreign = s.foreign
  <1> DEFINE p == Asked(s, o)
             q == Asked(t, o)
             f == s.stack[Len(s.stack)]
             g == [f EXCEPT !.left = Tail(@)]
  <1>1. Lock(s, t) /\ Awaited(s) /\ t.stack = s.stack /\ t.uses = s.uses /\ t.out = s.out /\ Top(t) = Top(s)
    BY LockSame DEF StepAlso, Top
  <1>2. /\ Only(s, p, {"stack", "uses"}) /\ p.stack = Retop(s.stack, g)
        /\ p.uses = s.uses \cup {<<"location", o>>}
        /\ Only(t, q, {"stack", "uses"})
        /\ q.stack = Retop(t.stack, [t.stack[Len(t.stack)] EXCEPT !.left = Tail(t.stack[Len(t.stack)].left)])
        /\ q.uses = t.uses \cup {<<"location", o>>}
    BY AskedIs DEF ParseTyped, MemTyped, ReaderOK
  <1>3. q.stack = p.stack /\ q.uses = p.uses
    BY <1>1, <1>2
  <1>4. ParseTyped(p) /\ ParseTyped(q)
    BY <1>1, AskedTyped
  <1>5. f \in Frames /\ s.stack \in Stacks /\ f.left # <<>>
    BY TopTyped DEF ParseTyped, FixTyped
  <1>6. g \in Frames /\ g.at = f.at /\ g.what = f.what
    BY <1>5, FrameTyped
  <1> HIDE DEF p, q, g
  <1>7. s.uses \subseteq p.uses /\ p.cache = s.cache /\ p.foreign = s.foreign
    BY <1>2 DEF Only, Fields
  <1>9. Lock(p, q)
    BY <1>1, <1>2, <1>3, <1>4, <1>7, StackLocks
  <1>10. SameCalls(s.stack, p.stack)
    BY <1>2, <1>5, <1>6, RetopSame
  <1>11. Awaited(p)
    BY <1>1, <1>5, <1>7, <1>10, AwaitedSame
  <1> QED
    BY <1>2, <1>7, <1>9, <1>10, <1>11 DEF StepAlso, p, q

LEMMA PushLocks ==
    ASSUME NEW s, NEW t, ParseTyped(s), ParseTyped(t), StepAlso(s, t), NEW at, NEW what, NEW left \in Seq(Word),
           \/ at = -1 /\ what \in Vals /\ s.stack = <<>>
           \/ /\ at \in Word /\ what \in Records /\ s.stack # <<>>
              /\ <<"location", at>> \in s.uses /\ Named(what)
              /\ s.foreign = {} => at \notin DOMAIN s.cache
              /\ at \notin InProgress(s)
    PROVE  StepAlso(Push(s, at, what, left), Push(t, at, what, left))
  <1> DEFINE p == Push(s, at, what, left)
             q == Push(t, at, what, left)
             f == [at |-> at, what |-> what, left |-> left, got |-> <<>>]
             n == Len(s.stack)
  <1>1. Lock(s, t) /\ Awaited(s) /\ t.stack = s.stack /\ t.uses = s.uses
    BY LockSame DEF StepAlso
  <1>2. /\ Only(s, p, {"stack"}) /\ p.stack = Append(s.stack, f)
        /\ Only(t, q, {"stack"}) /\ q.stack = Append(t.stack, f)
    BY PushIs DEF ParseTyped, MemTyped, ReaderOK
  <1>3. ParseTyped(p) /\ ParseTyped(q)
    BY <1>1, PushTyped
  <1> HIDE DEF p, q
  <1>4. q.stack = p.stack /\ p.uses = s.uses /\ q.uses = t.uses /\ p.cache = s.cache /\ p.foreign = s.foreign
    BY <1>1, <1>2 DEF Only, Fields
  <1>5. Only(s, p, {"stack", "uses"}) /\ Only(t, q, {"stack", "uses"})
    BY <1>2, OnlyMore
  <1>6. Lock(p, q)
    BY <1>1, <1>3, <1>4, <1>5, StackLocks
  <1>7. /\ n \in Nat /\ Len(p.stack) = n + 1 /\ p.stack[n + 1].at = at /\ p.stack[n + 1].what = what
        /\ \A i \in 1..n : p.stack[i] = s.stack[i]
    <2>1. s.stack \in Seq(Frames)
      BY DEF ParseTyped, FixTyped, Stacks
    <2> HIDE DEF f
    <2>2. n \in Nat /\ Len(p.stack) = n + 1 /\ p.stack[n + 1] = f /\ \A i \in 1..n : p.stack[i] = s.stack[i]
      BY <1>2, <2>1
    <2>3. f.at = at /\ f.what = what
      BY DEF f
    <2> QED
      BY <2>2, <2>3
  <1>8. Awaited(p)
    <2>1. CASE s.stack = <<>>
      <3>1. n = 0
        BY <2>1
      <3> QED
        BY <1>7, <3>1 DEF Awaited
    <2>2. CASE s.stack # <<>>
      <3>1. /\ <<"location", at>> \in s.uses /\ (s.foreign = {} => at \notin DOMAIN s.cache)
            /\ Named(what) /\ \A i \in 1..n : s.stack[i].at # at
        <4>1. \A i \in 1..n : i \in DOMAIN s.stack
          BY DEF ParseTyped, FixTyped, Stacks
        <4> QED
          BY <2>2, <4>1 DEF InProgress
      <3> HIDE DEF n
      <3> SUFFICES ASSUME NEW i \in 2..n + 1
                   PROVE  /\ <<"location", p.stack[i].at>> \in p.uses
                          /\ Named(p.stack[i].what)
                          /\ p.foreign = {} => p.stack[i].at \notin DOMAIN p.cache
                          /\ \A j \in 2..n + 1 : p.stack[i].at = p.stack[j].at => i = j
        BY <1>7 DEF Awaited
      <3>2. \A j \in 2..n + 1 : j = n + 1 \/ (j \in 1..n /\ j \in 2..n)
        BY <1>7
      <3>3. \A j \in 2..n : /\ <<"location", s.stack[j].at>> \in s.uses
                            /\ Named(s.stack[j].what)
                            /\ s.foreign = {} => s.stack[j].at \notin DOMAIN s.cache
                            /\ \A k \in 2..n : s.stack[j].at = s.stack[k].at => j = k
        BY <1>1 DEF Awaited, n
      <3>4. \A j \in 1..n : p.stack[j].at = s.stack[j].at /\ p.stack[j].what = s.stack[j].what
        BY <1>7
      <3>5. p.stack[n + 1].at = at /\ p.stack[n + 1].what = what
        BY <1>7
      <3>6. CASE i = n + 1
        BY <1>4, <3>1, <3>2, <3>4, <3>5, <3>6
      <3>7. CASE i \in 1..n /\ i \in 2..n
        <4>1. \A j \in 2..n + 1 : p.stack[i].at = p.stack[j].at => i = j
          BY <3>1, <3>2, <3>3, <3>4, <3>5, <3>7
        <4> QED
          BY <1>4, <3>3, <3>4, <3>7, <4>1
      <3> QED
        BY <3>2, <3>6, <3>7
    <2> QED
      BY <2>1, <2>2
  <1> QED
    BY <1>6, <1>8 DEF StepAlso, p, q

\* Neither asks for anything.
LEMMA StackUses ==
    ASSUME NEW s, Shape(s), NEW v, NEW at, NEW what, NEW left
    PROVE  Deliver(s, v).uses = s.uses /\ Push(s, at, what, left).uses = s.uses
  <1>1. Only(s, Deliver(s, v), {"stack"}) /\ Only(s, Push(s, at, what, left), {"stack"})
    BY DeliverIs, PushIs
  <1>2. "uses" \in Fields \ {"stack"}
    BY DEF Fields
  <1> QED
    BY <1>1, <1>2 DEF Only

LEMMA NextLocks ==
    ASSUME DataOK, NEW s, NEW t, ParseTyped(s), ParseTyped(t), StepAlso(s, t), s.out = "ok", s.stack # <<>>,
           Top(s).left # <<>>, Sep(NextLocation(s).uses)
    PROVE  StepAlso(NextLocation(s), NextLocation(t))
  <1> DEFINE o == Head(Top(s).left)
             c == Asked(s, o)
             d == Asked(t, o)
             x == ReadStructFrom(c, 7, o)
             y == ReadStructFrom(d, 7, o)
             e == Texts(x, IF x.native THEN <<>> ELSE Names(x.val))
             r == Texts(y, IF y.native THEN <<>> ELSE Names(y.val))
             g == ReadOffsetArray(e, e.val[4])
             h == ReadOffsetArray(r, r.val[4])
             a == ReadOffsetArray(x, x.val[4])
             b == ReadOffsetArray(y, y.val[4])
             p == NextLocation(s)
             q == NextLocation(t)
  <1>0. /\ Lock(s, t) /\ t.stack = s.stack /\ t.out = s.out /\ Top(t) = Top(s) /\ InProgress(t) = InProgress(s)
    BY LockSame DEF StepAlso, Top, InProgress
  <1>a. p = IF Cached(s, o) THEN Deliver(c, s.cache[o])
            ELSE IF o \in InProgress(s) THEN Fail(c, "endless")
            ELSE IF e.out # "ok" THEN e
            ELSE IF g.out # "ok" THEN g
            ELSE Push(g, o, e.val, g.val)
    BY DEF NextLocation, Asked, Then, Texts
  <1>b. q = IF Cached(t, o) THEN Deliver(d, t.cache[o])
            ELSE IF o \in InProgress(s) THEN Fail(d, "endless")
            ELSE IF r.out # "ok" THEN r
            ELSE IF h.out # "ok" THEN h
            ELSE Push(h, o, r.val, h.val)
    BY <1>0 DEF NextLocation, Asked, Then, Texts
  <1>3. o \in Word /\ o \in Int /\ o <= NULL /\ 7 \in Nat /\ 7 # 0
    BY TopTyped, FrameTyped DEF ParseTyped, FixTyped, Word, DataOK
  <1>4. /\ StepAlso(c, d) /\ <<"location", o>> \in c.uses
        /\ SameCalls(s.stack, c.stack) /\ c.cache = s.cache /\ c.foreign = s.foreign
    BY AskedLocks
  <1>5. /\ ParseTyped(c) /\ Only(s, c, Inner) /\ c.out = "ok" /\ c.stack # <<>>
        /\ ParseTyped(d) /\ d.cache = t.cache
    BY <1>0, AskedTyped
  <1>6. StepTyped(c, x, {"read", "text"}) /\ Only(c, x, Moved) /\ MemTyped(x)
        /\ (x.out = "ok" => x.val \in Seq(Word) /\ Len(x.val) = 7)
    BY <1>3, <1>5, StructFromTyped, StructOnly DEF StepTyped, ParseTyped
  <1>7. ASSUME x.out = "ok"
        PROVE  /\ x.val[4] \in Word /\ x.val \in Records
               /\ StepTyped(x, a, {"read", "text"}) /\ (a.out = "ok" => a.val \in Seq(Word))
    <2> HIDE DEF x
    <2>1. x.val[4] \in Word /\ x.val \in Records
      BY <1>6, <1>7 DEF Records
    <2> QED
      BY <1>6, <1>7, <2>1, OffsetArrayTyped
  <1>8. \A v : Deliver(c, v).uses = c.uses
    BY <1>5, StackUses DEF ParseTyped, MemTyped, ReaderOK
  <1>9. Fail(c, "endless").uses = c.uses /\ Fail(c, "endless").cache = c.cache
        /\ Fail(c, "endless").stack = c.stack /\ Fail(c, "endless").foreign = c.foreign
    BY <1>5, FailIs DEF ParseTyped, MemTyped, ReaderOK, Only, Fields
  <1> HIDE DEF c, d, o, p, q, x, y, a, b
  <1>10. Sep(c.uses)
    <2>1. \A n, what, left : Shape(a) => Push(a, n, what, left).uses = a.uses
      BY StackUses
    <2>2. x.out = "ok" => Shape(a) /\ x.uses \subseteq a.uses
      BY <1>7 DEF StepTyped, MemTyped, ReaderOK
    <2>3. c.uses \subseteq x.uses
      BY <1>6 DEF StepTyped
    <2>4. StepTyped(c, e, {"read", "text"}) /\ (e.out = "ok" => x.out = "ok" /\ e = x)
      BY <1>6, TextsTyped
    <2>5. c.uses \subseteq e.uses
      BY <2>4 DEF StepTyped
    <2> HIDE DEF e
    <2>6. e.out = "ok" => g = a
      BY <2>4 DEF a
    <2> HIDE DEF g
    <2>7. c.uses \subseteq p.uses
      BY <1>a, <1>8, <1>9, <2>1, <2>2, <2>3, <2>4, <2>5, <2>6
    <2> QED
      BY <2>7, SepLess DEF p
  <1>n. StructAlso(x, y)
    BY <1>3, <1>4, <1>5, StructsLock DEF StepAlso, x, y
  <1>m. ASSUME x.out = "ok"
        PROVE  Named(x.val)
    <2>1. Clean(c) /\ MemTyped(c) /\ Within(o, 7) /\ x.val = Words(o, 7)
      <3>1. Clean(c) /\ MemTyped(c)
        BY <1>4, LockClean DEF StepAlso, Lock
      <3>2. IF Within(o, 7) THEN x.out = "ok" /\ x.val = Words(o, 7) ELSE x.out = "read" /\ x.val = <<>>
        BY <1>3, <1>5, <3>1, StructIs DEF x
      <3> QED
        BY <1>m, <3>1, <3>2
    <2> QED
      BY <1>3, <1>4, <1>10, <2>1 DEF Sep
  <1>v. y.val = x.val /\ y.out = x.out
    BY <1>n, LockSame DEF StructAlso
  <1>i. e = x /\ r = y
    BY <1>m, <1>v DEF Texts, ReadTexts, Named
  <1> HIDE DEF e, r
  <1>1. p = IF Cached(s, o) THEN Deliver(c, s.cache[o])
            ELSE IF o \in InProgress(s) THEN Fail(c, "endless")
            ELSE IF x.out # "ok" THEN x
            ELSE IF a.out # "ok" THEN a
            ELSE Push(a, o, x.val, a.val)
    BY <1>a, <1>i DEF a
  <1>2. q = IF Cached(t, o) THEN Deliver(d, t.cache[o])
            ELSE IF o \in InProgress(s) THEN Fail(d, "endless")
            ELSE IF y.out # "ok" THEN y
            ELSE IF b.out # "ok" THEN b
            ELSE Push(b, o, y.val, b.val)
    BY <1>b, <1>i DEF b
  <1> HIDE DEF g, h
  <1>11. FoundAlso(c, d, "location", o)
    <2>1. "location" \in RecKinds
      BY DEF RecKinds
    <2> QED
      BY <1>4, <1>10, <2>1, FoundAlike DEF StepAlso
  <1>12. Cached(t, o) <=> Cached(s, o)
    BY <1>4, <1>5, <1>11 DEF FoundAlso, Cached
  <1>13. CASE Cached(s, o)
    <2>1. s.cache[o] \in Vals
      BY <1>13 DEF Cached, ParseTyped, MemTyped, CacheTyped
    <2>2. t.cache[o] = s.cache[o]
      BY <1>4, <1>5, <1>11, <1>13 DEF FoundAlso, Cached
    <2>3. p = Deliver(c, s.cache[o]) /\ q = Deliver(d, s.cache[o])
      BY <1>1, <1>2, <1>12, <1>13, <2>2
    <2> QED
      BY <1>4, <1>5, <2>1, <2>3, DeliverLocks DEF p, q
  <1>14. CASE ~Cached(s, o) /\ o \in InProgress(s)
    <2>1. p = Fail(c, "endless") /\ q = Fail(d, "endless")
      BY <1>1, <1>2, <1>12, <1>14
    <2>2. Lock(p, q)
      BY <1>4, <2>1, FailLocks DEF StepAlso
    <2>3. SameCalls(c.stack, c.stack)
      BY DEF SameCalls
    <2>4. c.stack \in Stacks /\ Awaited(c)
      BY <1>4, <1>5 DEF ParseTyped, FixTyped, StepAlso
    <2>5. p.uses = c.uses /\ p.cache = c.cache /\ p.stack = c.stack /\ p.foreign = c.foreign
      BY <1>9, <2>1
    <2>6. Awaited(p)
      BY <2>3, <2>4, <2>5, AwaitedSame
    <2> QED
      BY <2>2, <2>6 DEF StepAlso, p, q
  <1>15. CASE ~Cached(s, o) /\ o \notin InProgress(s)
    <2>2. Lock(x, y) /\ y.val = x.val /\ y.out = x.out
      BY <1>n, <1>v DEF StructAlso
    <2>3. x.cache = c.cache /\ x.uses = c.uses /\ x.stack = c.stack /\ x.foreign = c.foreign
      BY <1>6 DEF Only, Moved, Fields
    <2>4. c.stack \in Stacks /\ Awaited(c) /\ SameCalls(c.stack, c.stack)
      BY <1>4, <1>5 DEF ParseTyped, FixTyped, StepAlso, SameCalls
    <2>5. Awaited(x)
      BY <2>3, <2>4, AwaitedSame
    <2>6. CASE x.out # "ok"
      <3>1. p = x /\ q = y
        BY <1>1, <1>2, <1>12, <1>15, <2>2, <2>6
      <3> QED
        BY <2>2, <2>5, <3>1 DEF StepAlso, p, q
    <2>7. CASE x.out = "ok"
      <3>1. b = ReadOffsetArray(y, x.val[4])
        BY <2>2 DEF b
      <3>2. x.val[4] \in Word
        BY <1>7, <2>7
      <3>3. a.uses \subseteq p.uses
        <4>1. Push(a, o, x.val, a.val).uses = a.uses
          BY <1>7, <2>7, StackUses DEF StepTyped, MemTyped, ReaderOK
        <4> QED
          BY <1>1, <1>15, <2>7, <4>1
      <3>4. Sep(a.uses)
        BY <3>3, SepLess DEF p
      <3> HIDE DEF b
      <3>5. Lock(a, b) /\ b.val = a.val /\ Grown(x, a, {"array"}) /\ b.out = a.out
        <4>1. Sep(ReadOffsetArray(x, x.val[4]).uses)
          BY <3>4 DEF a
        <4>2. /\ Lock(ReadOffsetArray(x, x.val[4]), ReadOffsetArray(y, x.val[4]))
              /\ ReadOffsetArray(y, x.val[4]).val = ReadOffsetArray(x, x.val[4]).val
              /\ Grown(x, ReadOffsetArray(x, x.val[4]), {"array"})
          BY <2>2, <2>7, <3>2, <4>1, ArrayLocks
        <4>3. Lock(a, b) /\ b.val = a.val /\ Grown(x, a, {"array"})
          BY <3>1, <4>2 DEF a
        <4> QED
          BY <4>3, LockSame
      <3>6. a.stack = x.stack /\ a.foreign = x.foreign /\ x.uses \subseteq a.uses
        BY <1>7, <2>7 DEF StepTyped, Only, Memory, Fields
      <3>7. Awaited(a)
        <4>1. x.stack \in Stacks /\ SameCalls(x.stack, a.stack) /\ "location" \notin {"array"}
          BY <2>3, <2>4, <3>6
        <4> QED
          BY <2>5, <3>4, <3>5, <3>6, <4>1, AwaitedMore
      <3>8. CASE a.out # "ok"
        <4>1. p = a /\ q = b
          BY <1>1, <1>2, <1>12, <1>15, <2>2, <2>7, <3>1, <3>5, <3>8 DEF b
        <4> QED
          BY <3>5, <3>7, <4>1 DEF StepAlso, p, q
      <3>9. CASE a.out = "ok"
        <4>1. p = Push(a, o, x.val, a.val) /\ q = Push(b, o, x.val, a.val)
          BY <1>1, <1>2, <1>12, <1>15, <2>2, <2>7, <3>1, <3>5, <3>9 DEF b
        <4>2. ParseTyped(x) /\ ParseTyped(y)
          <5>1. StepTyped(d, y, {"read", "text"})
            BY <1>3, <1>4, <1>5, LockSame, StructFromTyped DEF StepAlso, ParseTyped, y
          <5> QED
            BY <1>5, <1>6, <5>1, ReadIsTyped
        <4>3. ParseTyped(a) /\ ParseTyped(b)
          <5>1. StepTyped(y, b, {"read", "text"})
            BY <2>2, <2>7, <3>1, <3>2, <4>2, OffsetArrayTyped DEF ParseTyped
          <5> QED
            BY <1>7, <2>7, <4>2, <5>1, ReadIsTyped
        <4>4. o \in Word /\ x.val \in Records /\ a.stack # <<>> /\ a.val \in Seq(Word)
          BY <1>3, <1>5, <1>7, <2>3, <2>7, <3>6, <3>9
        <4>5. <<"location", o>> \in a.uses /\ Named(x.val)
          BY <1>4, <1>m, <2>3, <2>7, <3>6
        <4>6. a.foreign = {} => o \notin DOMAIN a.cache
          <5> SUFFICES ASSUME o \in DOMAIN a.cache
                       PROVE  FALSE
            OBVIOUS
          <5>1. o \notin DOMAIN x.cache
            BY <1>4, <1>15, <2>3 DEF Cached
          <5>2. <<"array", o>> \in a.uses
            BY <3>5, <5>1 DEF Grown
          <5>3. "array" = "location"
            BY <3>4, <4>5, <5>2, SepIs
          <5> QED
            BY <5>3
        <4>7. o \notin InProgress(a)
          <5>1. s.stack \in Stacks
            BY DEF ParseTyped, FixTyped
          <5>2. SameCalls(s.stack, a.stack) /\ a.stack \in Stacks
            BY <1>4, <2>3, <3>6, <4>3 DEF ParseTyped, FixTyped
          <5>3. \A i \in DOMAIN a.stack : i \in 1..Len(s.stack) /\ i \in DOMAIN s.stack /\ a.stack[i].at = s.stack[i].at
            <6>1. DOMAIN a.stack = 1..Len(a.stack) /\ DOMAIN s.stack = 1..Len(s.stack)
              BY <5>1, <5>2 DEF Stacks
            <6> QED
              BY <5>2, <6>1 DEF SameCalls
          <5> QED
            BY <1>15, <5>3 DEF InProgress
        <4>8. StepAlso(a, b)
          BY <3>5, <3>7 DEF StepAlso
        <4>9. StepAlso(Push(a, o, x.val, a.val), Push(b, o, x.val, a.val))
          BY <4>3, <4>4, <4>5, <4>6, <4>7, <4>8, PushLocks
        <4> QED
          BY <4>1, <4>9 DEF p, q
      <3> QED
        BY <3>8, <3>9
    <2> QED
      BY <2>6, <2>7
  <1> QED
    BY <1>13, <1>14, <1>15

\* The location that has been made is no longer in progress.
LEMMA PopLocks ==
    ASSUME NEW s, NEW t, ParseTyped(s), ParseTyped(t), Lock(s, t), Len(s.stack) > 1,
           NEW r, Awaited(r), r.stack = s.stack, r.uses = s.uses, r.foreign = s.foreign,
           s.foreign = {} => DOMAIN s.cache = DOMAIN r.cache \cup {Top(r).at}
    PROVE  /\ StepAlso(Popped(s), Popped(t)) /\ Popped(s).stack # <<>>
           /\ ParseTyped(Popped(s)) /\ ParseTyped(Popped(t))
           /\ Popped(s).uses = s.uses
  <1> DEFINE p == Popped(s)
             q == Popped(t)
  <1>1. PICK n \in Nat : n = Len(s.stack) - 1 /\ n # 0 /\ Len(s.stack) = n + 1
    <2>1. Len(s.stack) \in Nat
      BY DEF ParseTyped, FixTyped, Stacks
    <2> QED
      BY <2>1
  <1>2. /\ Only(s, p, {"stack"}) /\ p.stack = Front(s.stack)
        /\ Only(t, q, {"stack"}) /\ q.stack = Front(t.stack)
    BY PoppedIs DEF ParseTyped, MemTyped, ReaderOK
  <1>3. t.stack = s.stack /\ t.uses = s.uses /\ s.stack \in Stacks /\ s.stack # <<>>
    BY <1>1, LockSame DEF ParseTyped, FixTyped
  <1> HIDE DEF p, q
  <1>4. /\ q.stack = p.stack /\ p.stack \in Stacks /\ Len(p.stack) = n
        /\ \A i \in 1..n : p.stack[i] = s.stack[i]
    BY <1>1, <1>2, <1>3, FrontTyped
  <1>5. /\ p.uses = s.uses /\ q.uses = t.uses /\ p.cache = s.cache /\ p.foreign = s.foreign
        /\ Only(s, p, {"stack", "uses"}) /\ Only(t, q, {"stack", "uses"})
    BY <1>2, OnlyMore DEF Only, Fields
  <1>6. ParseTyped(p) /\ ParseTyped(q)
    BY <1>4, <1>5, StackTyped
  <1>7. Lock(p, q)
    BY <1>3, <1>4, <1>5, <1>6, StackLocks
  <1>8. Top(r).at = s.stack[n + 1].at
    <2>1. s.stack \in Seq(Frames)
      BY <1>3 DEF Stacks
    <2> QED
      BY <1>1, <2>1 DEF Top, Last
  <1>9. Awaited(p)
    <2>1. \A i \in 2..n : /\ i \in 2..n + 1 /\ i \in 1..n /\ i # n + 1 /\ p.stack[i].at = s.stack[i].at
                          /\ p.stack[i].what = s.stack[i].what
      BY <1>4
    <2>2. n + 1 \in 2..n + 1
      BY <1>1
    <2>3. \A i \in 2..n + 1 : /\ <<"location", s.stack[i].at>> \in s.uses
                              /\ Named(s.stack[i].what)
                              /\ s.foreign = {} => s.stack[i].at \notin DOMAIN r.cache
                              /\ \A j \in 2..n + 1 : s.stack[i].at = s.stack[j].at => i = j
      BY <1>1 DEF Awaited
    <2> SUFFICES ASSUME NEW i \in 2..n
                 PROVE  /\ <<"location", p.stack[i].at>> \in p.uses
                        /\ Named(p.stack[i].what)
                        /\ p.foreign = {} => p.stack[i].at \notin DOMAIN p.cache
                        /\ \A j \in 2..n : p.stack[i].at = p.stack[j].at => i = j
      BY <1>4 DEF Awaited
    <2>4. s.stack[i].at # Top(r).at
      BY <1>8, <2>1, <2>2, <2>3
    <2>5. \A j \in 2..n : p.stack[i].at = p.stack[j].at => i = j
      BY <2>1, <2>3
    <2>6. p.foreign = {} => p.stack[i].at \notin DOMAIN p.cache
      BY <1>5, <2>1, <2>3, <2>4
    <2> QED
      BY <1>5, <2>1, <2>3, <2>5, <2>6
  <1>10. p.stack # <<>>
    BY <1>1, <1>4
  <1> QED
    BY <1>5, <1>6, <1>7, <1>9, <1>10 DEF StepAlso, p, q

LEMMA MadeDomain ==
    ASSUME NEW s, MemTyped(s), s.world # "plain", NEW is, NEW o, NEW fields
    PROVE  DOMAIN Make(s, is, o, fields).cache = DOMAIN s.cache \cup {o}
  <1> DEFINE t == Make(s, is, o, fields)
  <1>1. t.cache = Plus(s.cache, o, Value(is, <<o>>))
    BY MadeIs
  <1> HIDE DEF t
  <1> QED
    BY <1>1 DEF Plus, t

LEMMA FinishLocks ==
    ASSUME DataOK, NEW s, NEW t, ParseTyped(s), ParseTyped(t), StepAlso(s, t), s.out = "ok", s.stack # <<>>,
           Top(s).at # -1, Sep(FinishLocation(s).uses)
    PROVE  StepAlso(FinishLocation(s), FinishLocation(t))
  <1> DEFINE f == Top(s)
             x == DecodeObject(s, f.what[6])
             y == DecodeObject(t, f.what[6])
             u == ReadSerializedType(x, f.what[7])
             w == ReadSerializedType(y, f.what[7])
             m == Make(u, "location", f.at, <<f.what, f.got, x.val, x.type, u.val>>)
             n == Make(w, "location", f.at, <<f.what, f.got, y.val, y.type, w.val>>)
             p == FinishLocation(s)
             q == FinishLocation(t)
  <1>0. Lock(s, t) /\ t.stack = s.stack /\ t.out = s.out /\ Top(t) = Top(s) /\ Awaited(s)
    BY LockSame DEF StepAlso, Top
  <1>3. /\ f \in Frames /\ f = s.stack[Len(s.stack)] /\ Len(s.stack) \in Nat \ {0}
        /\ s.stack \in Stacks
    BY TopTyped DEF ParseTyped, FixTyped
  <1>n. FinishLocation(s) = Finished(s) /\ FinishLocation(t) = Finished(t)
    <2>1. Len(s.stack) \in 2..Len(s.stack)
      BY <1>3 DEF Based, Stacks
    <2>2. Named(f.what)
      BY <1>0, <1>3, <2>1 DEF Awaited
    <2>3. Unnamed(s) = s /\ Unnamed(t) = t
      BY <1>0, <2>2 DEF Unnamed, Texts, ReadTexts, Named
    <2>4. Shape(s) /\ Shape(t)
      BY DEF ParseTyped, MemTyped, ReaderOK
    <2> QED
      BY <1>0, <2>3, <2>4, FinishIs
  <1>1. p = IF x.out # "ok" THEN x ELSE IF u.out # "ok" THEN u ELSE Deliver(Popped(m), m.val)
    BY <1>n DEF Finished, Then
  <1>2. q = IF y.out # "ok" THEN y ELSE IF w.out # "ok" THEN w ELSE Deliver(Popped(n), n.val)
    BY <1>0, <1>n DEF Finished, Then
  <1>4. f.at \in Word /\ f.what[6] \in Word /\ f.what[7] \in Word
    <2> HIDE DEF f
    <2>1. f.at # -1
      BY DEF f
    <2>2. f \in LocationFrames
      BY <1>3, <2>1 DEF Frames, EntryFrames
    <2>3. f.what \in Seq(Word) /\ Len(f.what) = 7 /\ f.at \in Word
      BY <2>2 DEF LocationFrames, Records
    <2> QED
      BY <2>3
  <1>5. Len(s.stack) > 1 /\ Len(s.stack) \in 2..Len(s.stack)
    BY <1>3 DEF Based, Stacks
  <1>6. PartTyped(s, x, Errors) /\ PartTyped(t, y, Errors)
    BY <1>0, <1>4, ObjectTyped DEF ParseTyped
  <1>7. ParseTyped(x) /\ x.stack = s.stack /\ ParseTyped(y)
    BY <1>6, PartIsTyped, StepKeepsFixed DEF ParseTyped
  <1> HIDE DEF f, p, q
  <1>8. x.out = "ok" => StepTyped(x, u, {"read", "text"})
    <2> HIDE DEF x
    <2> QED
      BY <1>4, <1>7, PairTyped DEF ReadSerializedType, ParseTyped
  <1> HIDE DEF x, y, u, w
  <1>9. x.uses \subseteq p.uses /\ (x.out = "ok" => u.uses \subseteq p.uses /\ x.uses \subseteq u.uses)
    <2>1. ASSUME x.out = "ok", u.out = "ok"
          PROVE  Deliver(Popped(m), m.val).uses = u.uses
      <3> DEFINE fields == <<f.what, f.got, x.val, x.type, u.val>>
      <3>a. m = Make(u, "location", f.at, fields) /\ MemTyped(u)
            /\ "location" \in {"type", "common", "bundle", "location"}
        BY <1>8, <2>1 DEF StepTyped
      <3> HIDE DEF m, fields
      <3>b. StepTyped(u, m, {})
        BY <1>4, <2>1, <3>a, MakeTyped
      <3>c. m.uses = u.uses
        BY <3>a, MadeLeaves
      <3>1. StepTyped(u, m, {}) /\ m.uses = u.uses
        BY <3>b, <3>c
      <3> HIDE DEF m
      <3>2. Shape(Popped(m)) /\ Popped(m).uses = m.uses
        BY <3>1, PoppedIs DEF StepTyped, Only, Fields
      <3> QED
        BY <3>1, <3>2, StackUses
    <2>2. x.out = "ok" => x.uses \subseteq u.uses
      BY <1>8 DEF StepTyped
    <2> HIDE DEF m
    <2> QED
      BY <1>1, <2>1, <2>2
  <1>10. Sep(p.uses)
    BY DEF p
  <1>11. Sep(x.uses)
    BY <1>9, <1>10, SepLess
  <1>12. ObjectAlso(s, x, y, {"type", "bundle", "common"})
    BY <1>0, <1>4, <1>11, ObjectLocks DEF x, y
  <1>13. Lock(x, y) /\ y.out = x.out /\ y.type = x.type /\ (x.out = "ok" => y.val = x.val)
    BY <1>12, LockSame DEF ObjectAlso
  <1>14. Awaited(x)
    <2>1. SameCalls(s.stack, x.stack) /\ s.uses \subseteq x.uses /\ x.foreign = s.foreign
          /\ "location" \notin {"type", "bundle", "common"}
      BY <1>6, <1>7 DEF SameCalls, PartTyped, Only, Fields, Scratch, Memory
    <2> QED
      BY <1>0, <1>3, <1>11, <1>12, <2>1, AwaitedMore DEF ObjectAlso
  <1>15. CASE x.out # "ok"
    <2>1. p = x /\ q = y
      BY <1>1, <1>2, <1>13, <1>15
    <2> QED
      BY <1>13, <1>14, <2>1 DEF StepAlso, p, q
  <1>16. CASE x.out = "ok"
    <2>1. Sep(u.uses)
      BY <1>9, <1>10, <1>16, SepLess
    <2>2. PairAlso(x, y, u, w, "type", f.what[7])
      BY <1>4, <1>13, <1>16, <2>1, PairLocks DEF u, w, ReadSerializedType
    <2>3. Lock(u, w) /\ w.out = u.out /\ (u.out = "ok" => w.val = u.val) /\ Grown(x, u, {"type"})
      BY <2>2, LockSame DEF PairAlso
    <2>4. u.stack = x.stack /\ u.foreign = x.foreign /\ x.uses \subseteq u.uses
      BY <1>8, <1>16 DEF StepTyped, Only, Memory, Fields
    <2>5. Awaited(u)
      <3>1. SameCalls(x.stack, u.stack) /\ "location" \notin {"type"} /\ x.stack \in Stacks
        BY <1>3, <1>7, <2>4 DEF SameCalls
      <3> QED
        BY <1>14, <2>1, <2>3, <2>4, <3>1, AwaitedMore
    <2>6. CASE u.out # "ok"
      <3>1. p = u /\ q = w
        BY <1>1, <1>2, <1>13, <1>16, <2>3, <2>6
      <3> QED
        BY <2>3, <2>5, <3>1 DEF StepAlso, p, q
    <2>7. CASE u.out = "ok"
      <3> DEFINE fields == <<f.what, f.got, x.val, x.type, u.val>>
      <3>1. fields = <<f.what, f.got, y.val, y.type, w.val>>
        BY <1>13, <1>16, <2>3, <2>7
      <3>2. m = Make(u, "location", f.at, fields) /\ n = Make(w, "location", f.at, fields)
        BY <3>1
      <3>3. /\ <<"location", f.at>> \in u.uses
            /\ u.foreign = {} => f.at \notin DOMAIN u.cache
            /\ Top(u).at = f.at
        <4>1. u.stack = s.stack /\ Top(u) = f
          BY <1>7, <2>4 DEF Top, f
        <4> QED
          BY <1>3, <1>5, <2>5, <4>1 DEF Awaited
      <3>4. "location" \in RecKinds /\ "location" \in {"type", "common", "bundle", "location"}
        BY DEF RecKinds
      <3> HIDE DEF fields, m, n
      <3>5. MadeAlso(u, m, n, "location", f.at)
        BY <1>4, <2>1, <2>3, <2>7, <3>2, <3>3, <3>4, MakeLocks DEF Alone
      <3>6. Lock(m, n) /\ m.val = Value("location", <<f.at>>) /\ n.val = m.val
        BY <3>5 DEF MadeAlso
      <3>7. StepTyped(u, m, {}) /\ m.val \in Vals /\ StepTyped(w, n, {})
        BY <1>4, <2>3, <2>7, <3>2, <3>4, MakeTyped DEF Lock
      <3>8. ParseTyped(u) /\ ParseTyped(w)
        <4>1. StepTyped(y, w, {"read", "text"})
          BY <1>4, <1>7, <1>13, <1>16, PairTyped DEF ReadSerializedType, ParseTyped, w
        <4> QED
          BY <1>7, <1>8, <1>16, <4>1, ReadIsTyped
      <3>9. ParseTyped(m) /\ ParseTyped(n)
        <4>1. StepTyped(u, m, {"read", "text"}) /\ StepTyped(w, n, {"read", "text"})
          BY <3>7, StepTypedMore
        <4> QED
          BY <3>8, <4>1, ReadIsTyped
      <3>10. u.stack = m.stack /\ u.uses = m.uses /\ u.foreign = m.foreign
             /\ DOMAIN m.cache = DOMAIN u.cache \cup {Top(u).at}
        <4>1. u.world # "plain" /\ MemTyped(u)
          BY <2>3, LockSame
        <4>2. DOMAIN m.cache = DOMAIN u.cache \cup {f.at} /\ m.uses = u.uses /\ m.foreign = u.foreign
          BY <3>2, <4>1, MadeDomain, MadeLeaves
        <4>3. m.stack = u.stack
          BY <3>7 DEF StepTyped, Only, Memory, Fields
        <4> QED
          BY <3>3, <4>2, <4>3
      <3>11. Len(m.stack) > 1
        BY <1>5, <1>7, <2>4, <3>10
      <3>12. /\ StepAlso(Popped(m), Popped(n)) /\ Popped(m).stack # <<>>
             /\ ParseTyped(Popped(m)) /\ ParseTyped(Popped(n))
        BY <2>5, <3>6, <3>9, <3>10, <3>11, PopLocks
      <3>13. StepAlso(Deliver(Popped(m), m.val), Deliver(Popped(n), m.val))
        BY <3>7, <3>12, DeliverLocks
      <3>14. p = Deliver(Popped(m), m.val) /\ q = Deliver(Popped(n), m.val)
        BY <1>1, <1>2, <1>13, <1>16, <2>3, <2>7, <3>6 DEF m, n
      <3> QED
        BY <3>13, <3>14 DEF p, q
    <2> QED
      BY <2>6, <2>7
  <1> QED
    BY <1>15, <1>16

-----------------------------------------------------------------------------
(* Entries *)

LEMMA PairsWords ==
    ASSUME NEW s, ParseTyped(s), s.pairs # <<>>
    PROVE  s.pairs[1] \in Word /\ s.pairs[2] \in Word
  <1>1. PICK n \in Nat : n = Len(s.pairs)
    BY DEF ParseTyped, FixTyped
  <1>2. n # 0
    BY <1>1 DEF ParseTyped, FixTyped
  <1>3. n % 2 = 0
    BY <1>1 DEF ParseTyped, FixTyped, Even
  <1>4. n >= 2
    <2>1. n = 1 => n % 2 = 1
      OBVIOUS
    <2> QED
      BY <1>2, <1>3, <2>1
  <1> QED
    BY <1>1, <1>4 DEF ParseTyped, FixTyped

LEMMA StartLocks ==
    ASSUME DataOK, NEW s, NEW t, ParseTyped(s), ParseTyped(t), Lock(s, t), s.out = "ok", s.pairs # <<>>,
           s.stack = <<>>, Sep(StartEntry(s).uses)
    PROVE  StepAlso(StartEntry(s), StartEntry(t))
  <1> DEFINE k == DecodeObject(s, s.pairs[1])
             l == DecodeObject(t, s.pairs[1])
             a == ReadOffsetArray(k, s.pairs[2])
             b == ReadOffsetArray(l, s.pairs[2])
             p == StartEntry(s)
             q == StartEntry(t)
  <1>0. t.pairs = s.pairs /\ t.stack = <<>> /\ t.out = "ok"
    BY LockSame
  <1>2. s.pairs[1] \in Word /\ s.pairs[2] \in Word
    BY PairsWords
  <1>3. /\ PartTyped(s, k, Errors) /\ (k.out = "ok" => k.val \in Vals)
        /\ PartTyped(t, l, Errors)
    BY <1>0, <1>2, ObjectTyped DEF ParseTyped
  <1>4. ParseTyped(k) /\ k.pairs = s.pairs /\ k.stack = <<>> /\ ParseTyped(l) /\ l.pairs = s.pairs
        /\ s.uses \subseteq k.uses
    BY <1>0, <1>3, PartIsTyped, StepKeepsFixed DEF ParseTyped, PartTyped
  <1>5. p = IF k.out # "ok" THEN k ELSE IF a.out # "ok" THEN a ELSE Push(a, -1, k.val, a.val)
    BY <1>4 DEF StartEntry, Then
  <1>6. q = IF l.out # "ok" THEN l ELSE IF b.out # "ok" THEN b ELSE Push(b, -1, l.val, b.val)
    BY <1>0, <1>4 DEF StartEntry, Then
  <1> HIDE DEF k, l, p, q
  <1>7. k.out = "ok" => StepTyped(k, a, {"read", "text"}) /\ (a.out = "ok" => a.val \in Seq(Word))
    BY <1>2, <1>4, OffsetArrayTyped DEF ParseTyped
  <1>8. l.out = "ok" => StepTyped(l, b, {"read", "text"})
    BY <1>2, <1>4, OffsetArrayTyped DEF ParseTyped
  <1> HIDE DEF a, b
  <1>9. k.uses \subseteq p.uses /\ (k.out = "ok" => a.uses \subseteq p.uses /\ k.uses \subseteq a.uses)
    <2>1. k.out = "ok" => Push(a, -1, k.val, a.val).uses = a.uses /\ k.uses \subseteq a.uses
      BY <1>7, StackUses DEF StepTyped, MemTyped, ReaderOK
    <2> QED
      BY <1>5, <2>1
  <1>10. Sep(k.uses) /\ (k.out = "ok" => Sep(a.uses))
    <2>1. Sep(p.uses)
      BY DEF p
    <2> QED
      BY <1>9, <2>1, SepLess
  <1>11. ObjectAlso(s, k, l, {"type", "bundle", "common"})
    BY <1>2, <1>10, ObjectLocks DEF k, l
  <1>12. Lock(k, l) /\ l.out = k.out /\ (k.out = "ok" => l.val = k.val)
    BY <1>11, LockSame DEF ObjectAlso
  <1>13. Awaited(k) /\ StepAlso(k, l)
    BY <1>4, <1>12 DEF Awaited, StepAlso
  <1>14. CASE k.out # "ok"
    BY <1>5, <1>6, <1>12, <1>13, <1>14 DEF p, q
  <1>15. CASE k.out = "ok"
    <2>1. Lock(a, b) /\ b.val = a.val /\ b.out = a.out
      <3>1. Sep(ReadOffsetArray(k, s.pairs[2]).uses)
        BY <1>10, <1>15 DEF a
      <3>2. /\ Lock(ReadOffsetArray(k, s.pairs[2]), ReadOffsetArray(l, s.pairs[2]))
            /\ ReadOffsetArray(l, s.pairs[2]).val = ReadOffsetArray(k, s.pairs[2]).val
        BY <1>2, <1>12, <1>15, <3>1, ArrayLocks
      <3>3. Lock(a, b) /\ b.val = a.val
        BY <3>2 DEF a, b
      <3> QED
        BY <3>3, LockSame
    <2>2. ParseTyped(a) /\ ParseTyped(b)
      BY <1>4, <1>7, <1>8, <1>12, <1>15, ReadIsTyped
    <2>3. a.stack = <<>>
      BY <1>4, <1>7, <1>15 DEF StepTyped, Only, Memory, Fields
    <2>4. StepAlso(a, b)
      BY <2>1, <2>3 DEF StepAlso, Awaited
    <2>6. CASE a.out # "ok"
      BY <1>5, <1>6, <1>12, <1>15, <2>1, <2>4, <2>6 DEF p, q
    <2>7. CASE a.out = "ok"
      <3>1. p = Push(a, -1, k.val, a.val) /\ q = Push(b, -1, k.val, a.val)
        BY <1>5, <1>6, <1>12, <1>15, <2>1, <2>7
      <3>2. StepAlso(Push(a, -1, k.val, a.val), Push(b, -1, k.val, a.val))
        BY <1>3, <1>7, <1>15, <2>2, <2>3, <2>4, <2>7, PushLocks
      <3> QED
        BY <3>1, <3>2 DEF p, q
    <2> QED
      BY <2>6, <2>7
  <1> QED
    BY <1>14, <1>15

LEMMA SetItemLocks ==
    ASSUME NEW s, NEW t, ParseTyped(s), ParseTyped(t), Lock(s, t), s.out = "ok", NEW key, NEW locations
    PROVE  Lock(SetItem(s, key, locations), SetItem(t, key, locations))
  <1> DEFINE same == {i \in DOMAIN s.table : s.table[i][1] = key}
             table == IF same = {} THEN Append(s.table, <<key, locations>>)
                      ELSE [s.table EXCEPT ![CHOOSE i \in same : TRUE] = <<key, locations>>]
             p == [s EXCEPT !.table = table]
             q == [t EXCEPT !.table = table]
  <1>0. t.table = s.table /\ t.out = "ok"
    BY LockSame
  <1>1. SetItem(s, key, locations) = IF key.is \in Unhashable THEN Fail(s, "type") ELSE p
    BY DEF SetItem
  <1>2. SetItem(t, key, locations) = IF key.is \in Unhashable THEN Fail(t, "type") ELSE q
    BY <1>0 DEF SetItem
  <1> HIDE DEF table, p, q
  <1>3. key.is \notin Unhashable => ParseTyped(p) /\ ParseTyped(q)
    BY <1>0, <1>1, <1>2, SetItemTyped
  <1>4. Only(s, p, {"table"}) /\ p.table = table /\ Only(t, q, {"table"}) /\ q.table = table
    BY DEF ParseTyped, MemTyped, ReaderOK, Only, Shape, Fields, p, q
  <1>5. key.is \notin Unhashable => Lock(p, q)
    <2> SUFFICES ASSUME key.is \notin Unhashable
                 PROVE  Lock(p, q)
      OBVIOUS
    <2> DEFINE A == {"table"}
    <2>1. p.cursor = s.cursor /\ q.cursor = t.cursor /\ s.uses \subseteq p.uses
      BY <1>4 DEF Only, Fields
    <2>2. t.world \notin Secluded => q.cursor = p.cursor
      BY <2>1 DEF Lock, Twin, Near
    <2>3. A \subseteq Loose /\ \A f \in A \ Own : q[f] = p[f]
      BY <1>4 DEF Loose
    <2>4. MemTyped(p) /\ MemTyped(q)
      BY <1>3 DEF ParseTyped
    <2>5. Only(s, p, A) /\ Only(t, q, A)
      BY <1>4
    <2> HIDE DEF A
    <2> QED
      BY <2>1, <2>2, <2>3, <2>4, <2>5, LockMoved
  <1> QED
    BY <1>1, <1>2, <1>5, FailLocks

LEMMA FinishEntryLocks ==
    ASSUME NEW s, NEW t, ParseTyped(s), ParseTyped(t), Lock(s, t), s.out = "ok"
    PROVE  StepAlso(FinishEntry(s), FinishEntry(t))
  <1> DEFINE p == Done(s)
             q == Done(t)
             A == {"pairs", "stack"}
  <1>0. t.pairs = s.pairs /\ t.stack = s.stack /\ t.out = "ok" /\ Top(t) = Top(s)
    BY LockSame DEF Top
  <1>1. /\ ParseTyped(p) /\ Only(s, p, A) /\ p.stack = <<>> /\ p.pairs = SubSeq(s.pairs, 3, Len(s.pairs))
        /\ ParseTyped(q) /\ Only(t, q, A) /\ q.stack = <<>> /\ q.pairs = SubSeq(s.pairs, 3, Len(s.pairs))
    BY <1>0, DoneIs
  <1>2. FinishEntry(s) = SetItem(p, Top(s).what, Top(s).got) /\ FinishEntry(t) = SetItem(q, Top(s).what, Top(s).got)
    BY <1>0 DEF FinishEntry, Done
  <1> HIDE DEF p, q
  <1>3. p.cursor = s.cursor /\ q.cursor = t.cursor /\ s.uses \subseteq p.uses /\ p.out = "ok"
    BY <1>1 DEF Only, Fields
  <1>4. t.world \notin Secluded => q.cursor = p.cursor
    BY <1>3 DEF Lock, Twin, Near
  <1>5. A \subseteq Loose /\ \A f \in A \ Own : q[f] = p[f]
    BY <1>1 DEF Loose
  <1>6. MemTyped(p) /\ MemTyped(q) /\ Only(s, p, A) /\ Only(t, q, A)
    BY <1>1 DEF ParseTyped
  <1> HIDE DEF A
  <1>7. Lock(p, q)
    BY <1>3, <1>4, <1>5, <1>6, LockMoved
  <1>8. Lock(FinishEntry(s), FinishEntry(t))
    BY <1>1, <1>2, <1>3, <1>7, SetItemLocks
  <1>9. FinishEntry(s).stack = <<>>
    BY FinishEntryTyped
  <1> QED
    BY <1>8, <1>9 DEF StepAlso, Awaited

LEMMA StepLocks ==
    ASSUME DataOK, NEW s, NEW t, ParseTyped(s), ParseTyped(t), StepAlso(s, t), s.out = "ok", s.stack # <<>>,
           Sep(Step(s).uses)
    PROVE  StepAlso(Step(s), Step(t))
  <1>0. Lock(s, t) /\ Top(t) = Top(s)
    BY LockSame DEF StepAlso, Top
  <1>1. CASE Top(s).left # <<>>
    BY <1>0, <1>1, NextLocks DEF Step
  <1>2. CASE Top(s).left = <<>> /\ Top(s).at = -1
    BY <1>0, <1>2, FinishEntryLocks DEF Step
  <1>3. CASE Top(s).left = <<>> /\ Top(s).at # -1
    BY <1>0, <1>3, FinishLocks DEF Step
  <1> QED
    BY <1>1, <1>2, <1>3

-----------------------------------------------------------------------------
(* No step forgets what has been asked for *)

More(s, t) == s.uses \subseteq t.uses

LEMMA NextMore ==
    ASSUME DataOK, NEW s, ParseTyped(s), s.out = "ok", s.stack # <<>>, Top(s).left # <<>>
    PROVE  More(s, NextLocation(s))
  <1> DEFINE o == Head(Top(s).left)
             c == Asked(s, o)
             x == ReadStructFrom(c, 7, o)
             e == Texts(x, IF x.native THEN <<>> ELSE Names(x.val))
             a == ReadOffsetArray(e, e.val[4])
             p == NextLocation(s)
  <1>1. p = IF Cached(s, o) THEN Deliver(c, s.cache[o])
            ELSE IF o \in InProgress(s) THEN Fail(c, "endless")
            ELSE IF x.out # "ok" THEN x
            ELSE IF e.out # "ok" THEN e
            ELSE IF a.out # "ok" THEN a
            ELSE Push(a, o, e.val, a.val)
    BY DEF NextLocation, Asked, Texts, Then
  <1>2. o \in Word /\ o \in Int /\ o <= NULL /\ 7 \in Nat
    BY TopTyped, FrameTyped DEF ParseTyped, FixTyped, Word, DataOK
  <1>3. ParseTyped(c) /\ c.out = "ok" /\ s.uses \subseteq c.uses
    BY AskedTyped, AskedIs DEF ParseTyped, MemTyped, ReaderOK
  <1> HIDE DEF c, o, p
  <1>4. StepTyped(c, x, {"read", "text"}) /\ (x.out = "ok" => x.val \in Seq(Word) /\ Len(x.val) = 7)
    BY <1>2, <1>3, StructFromTyped DEF ParseTyped
  <1> HIDE DEF x
  <1>10. StepTyped(c, e, {"read", "text"}) /\ (e.out = "ok" => x.out = "ok" /\ e = x)
    BY <1>4, TextsTyped
  <1> HIDE DEF e
  <1>5. e.out = "ok" => StepTyped(e, a, {"read", "text"})
    <2>1. e.out = "ok" => e.val[4] \in Word
      BY <1>4, <1>10
    <2> QED
      BY <1>10, <2>1, OffsetArrayTyped DEF StepTyped
  <1> HIDE DEF a
  <1>6. \A v : Deliver(c, v).uses = c.uses
    BY <1>3, StackUses DEF ParseTyped, MemTyped, ReaderOK
  <1>7. Fail(c, "endless").uses = c.uses
    BY <1>3, FailIs DEF ParseTyped, MemTyped, ReaderOK, Only, Fields
  <1>8. /\ c.uses \subseteq x.uses /\ c.uses \subseteq e.uses
        /\ e.out = "ok" => e.uses \subseteq a.uses /\ Push(a, o, e.val, a.val).uses = a.uses
    <2>1. c.uses \subseteq x.uses
      BY <1>4 DEF StepTyped
    <2>2. c.uses \subseteq e.uses
      BY <1>10 DEF StepTyped
    <2>3. e.out = "ok" => e.uses \subseteq a.uses /\ Shape(a)
      BY <1>5 DEF StepTyped, Only
    <2> QED
      BY <2>1, <2>2, <2>3, StackUses
  <1>9. c.uses \subseteq p.uses
    BY <1>1, <1>6, <1>7, <1>8
  <1> QED
    BY <1>3, <1>9 DEF More, p

LEMMA FinishMore ==
    ASSUME DataOK, NEW s, ParseTyped(s), s.out = "ok", s.stack # <<>>, Top(s).at # -1
    PROVE  More(s, FinishLocation(s))
  <1> DEFINE f == Top(s)
             x == DecodeObject(s, f.what[6])
             u == ReadSerializedType(x, f.what[7])
             fields == <<f.what, f.got, x.val, x.type, u.val>>
             m == Make(u, "location", f.at, fields)
             p == Finished(s)
  <1>1. p = IF x.out # "ok" THEN x ELSE IF u.out # "ok" THEN u ELSE Deliver(Popped(m), m.val)
    BY DEF Finished, Then
  <1>2. f.what[6] \in Word /\ f.what[7] \in Word
    <2>1. f \in Frames
      BY TopTyped DEF ParseTyped, FixTyped
    <2>2. f.at # -1
      OBVIOUS
    <2> HIDE DEF f
    <2>3. f.what \in Seq(Word) /\ Len(f.what) = 7
      BY <2>1, <2>2, FrameTyped
    <2> QED
      BY <2>3
  <1> HIDE DEF f, p
  <1>3. PartTyped(s, x, Errors)
    BY <1>2, ObjectTyped DEF ParseTyped
  <1> HIDE DEF x
  <1>4. x.out = "ok" => StepTyped(x, u, {"read", "text"})
    BY <1>2, <1>3, PairTyped DEF ReadSerializedType, PartTyped
  <1> HIDE DEF u, fields
  <1>5. x.out = "ok" => Deliver(Popped(m), m.val).uses = u.uses
    <2> SUFFICES ASSUME x.out = "ok"
                 PROVE  Deliver(Popped(m), m.val).uses = u.uses
      OBVIOUS
    <2>1. MemTyped(u)
      BY <1>4 DEF StepTyped
    <2>2. m.uses = u.uses
      BY <2>1, MadeLeaves
    <2>3. Shape(m)
      BY <2>1, MakeIs DEF MemTyped, ReaderOK, Only
    <2> HIDE DEF m
    <2>4. Shape(Popped(m)) /\ Popped(m).uses = m.uses
      BY <2>3, PoppedIs DEF Only, Fields
    <2> QED
      BY <2>2, <2>4, StackUses
  <1> HIDE DEF m
  <1>6. s.uses \subseteq Finished(s).uses
    BY <1>1, <1>3, <1>4, <1>5 DEF PartTyped, StepTyped, p
  <1>7. s.uses \subseteq Unnamed(s).uses
    BY UnnamedTyped DEF StepTyped
  <1>8. Shape(s)
    BY DEF ParseTyped, MemTyped, ReaderOK
  <1>9. FinishLocation(s) = IF Unnamed(s).out = "ok" THEN Finished(s) ELSE Unnamed(s)
    BY <1>8, FinishIs
  <1> QED
    BY <1>6, <1>7, <1>9 DEF More

LEMMA StepMore ==
    ASSUME DataOK, NEW s, ParseTyped(s), s.out = "ok", s.stack # <<>>
    PROVE  More(s, Step(s))
  <1>1. CASE Top(s).left # <<>>
    BY <1>1, NextMore DEF Step
  <1>2. CASE Top(s).left = <<>> /\ Top(s).at = -1
    <2>1. FinishEntry(s).uses = s.uses
      BY FinishEntryTyped DEF Only, Fields
    <2> QED
      BY <1>2, <2>1 DEF Step, More
  <1>3. CASE Top(s).left = <<>> /\ Top(s).at # -1
    BY <1>3, FinishMore DEF Step
  <1> QED
    BY <1>1, <1>2, <1>3

LEMMA StartMore ==
    ASSUME DataOK, NEW s, ParseTyped(s), s.out = "ok", s.pairs # <<>>
    PROVE  More(s, StartEntry(s))
  <1> DEFINE k == DecodeObject(s, s.pairs[1])
             a == ReadOffsetArray(k, s.pairs[2])
             p == StartEntry(s)
  <1>1. s.pairs[1] \in Word /\ s.pairs[2] \in Word
    BY PairsWords
  <1>2. PartTyped(s, k, Errors)
    BY <1>1, ObjectTyped DEF ParseTyped
  <1> HIDE DEF k, a, p
  <1>3. MemTyped(k) /\ k.pairs = s.pairs /\ s.uses \subseteq k.uses
    BY <1>2, StepKeepsFixed DEF ParseTyped, PartTyped
  <1>4. p = IF k.out # "ok" THEN k ELSE IF a.out # "ok" THEN a ELSE Push(a, -1, k.val, a.val)
    BY <1>3 DEF StartEntry, Then, k, a, p
  <1>5. k.out = "ok" => StepTyped(k, a, {"read", "text"})
    BY <1>1, <1>3, OffsetArrayTyped DEF a
  <1>6. k.out = "ok" => k.uses \subseteq a.uses /\ Push(a, -1, k.val, a.val).uses = a.uses
    BY <1>5, StackUses DEF StepTyped, MemTyped, ReaderOK
  <1> QED
    BY <1>3, <1>4, <1>6 DEF More, p

-----------------------------------------------------------------------------
(* What comes before the table *)

\* What a step may write beside what it reads.
Plain == {"out", "val", "version", "header", "objects", "providers", "pairs"}

LEMMA PlainTyped ==
    ASSUME NEW s, MemTyped(s), NEW t, NEW A, Only(s, t, A), A \subseteq Plain
    PROVE  MemTyped(t) /\ t.uses = s.uses /\ t.cursor = s.cursor /\ t.written = s.written
  BY DEF MemTyped, ReaderOK, Only, Fields, Plain

LEMMA PlainLocks ==
    ASSUME NEW s, NEW t, Lock(s, t), NEW p, NEW q, NEW A, Only(s, p, A), Only(t, q, A), A \subseteq Plain,
           \A f \in A \ Own : q[f] = p[f]
    PROVE  Lock(p, q)
  <1>1. MemTyped(s) /\ MemTyped(t)
    BY LockSame
  <1>2. /\ MemTyped(p) /\ p.uses = s.uses /\ p.cursor = s.cursor
        /\ MemTyped(q) /\ q.cursor = t.cursor
    BY <1>1, PlainTyped
  <1>3. A \subseteq Loose
    BY DEF Plain, Loose
  <1>4. t.world \notin Secluded => q.cursor = p.cursor
    BY <1>2 DEF Lock, Twin, Near
  <1> QED
    BY <1>2, <1>3, <1>4, LockMoved

\* Side by side at the same place of the stream.
Beside(s, t) == Lock(s, t) /\ t.cursor = s.cursor /\ t.written = s.written

LEMMA PlainBeside ==
    ASSUME NEW s, NEW t, Beside(s, t), NEW p, NEW q, NEW A, Only(s, p, A), Only(t, q, A), A \subseteq Plain,
           \A f \in A \ Own : q[f] = p[f]
    PROVE  Beside(p, q)
  <1>1. Lock(s, t) /\ MemTyped(s) /\ MemTyped(t)
    BY LockSame DEF Beside
  <1>2. /\ p.cursor = s.cursor /\ p.written = s.written
        /\ q.cursor = t.cursor /\ q.written = t.written
    BY <1>1, PlainTyped
  <1>3. Lock(p, q)
    BY <1>1, PlainLocks
  <1> QED
    BY <1>2, <1>3 DEF Beside

LEMMA FailBeside ==
    ASSUME NEW s, NEW t, Beside(s, t), NEW error
    PROVE  Beside(Fail(s, error), Fail(t, error))
  <1> DEFINE p == Fail(s, error)
             q == Fail(t, error)
  <1>1. Lock(p, q)
    BY FailLocks DEF Beside
  <1>2. Only(s, p, {"out", "val"}) /\ Only(t, q, {"out", "val"})
    BY FailIs, LockSame DEF Beside, MemTyped, ReaderOK
  <1> HIDE DEF p, q
  <1> QED
    BY <1>1, <1>2 DEF Beside, Only, Fields, p, q

\* The same words are read by both.
ExactAlso(p, q) == Beside(p, q) /\ q.val = p.val

LEMMA ExactLocks ==
    ASSUME DataOK, NEW s, NEW t, Beside(s, t), s.out = "ok", NEW n \in Nat
    PROVE  ExactAlso(ReadExact(s, n), ReadExact(t, n))
  <1> DEFINE p == ReadExact(s, n)
             q == ReadExact(t, n)
  <1>1. Lock(s, t) /\ MemTyped(s) /\ MemTyped(t) /\ t.out = "ok"
    BY LockSame DEF Beside
  <1>2. n \in Int
    OBVIOUS
  <1>3. Only(s, p, Moved) /\ Only(t, q, Moved)
    BY <1>1, <1>2, ReadExactIs DEF MemTyped
  <1>4. q.cursor = p.cursor /\ q.out = p.out /\ q.val = p.val
    BY <1>1, ExactAlike DEF Beside, MemTyped, ReaderOK
  <1>5. MemTyped(p) /\ MemTyped(q)
    BY <1>1, ExactTyped DEF StepTyped
  <1> HIDE DEF p, q
  <1>6. s.uses \subseteq p.uses /\ p.written = s.written /\ q.written = t.written
    BY <1>3 DEF Only, Moved, Fields
  <1>7. Moved \subseteq Loose /\ \A f \in Moved \ Own : q[f] = p[f]
    BY <1>4 DEF Moved, Own, Loose
  <1>8. Lock(p, q)
    BY <1>1, <1>3, <1>4, <1>5, <1>6, <1>7, LockMoved
  <1> QED
    BY <1>4, <1>6, <1>8 DEF Beside, ExactAlso, p, q

LEMMA HeaderLocks ==
    ASSUME DataOK, NEW s, NEW t, Beside(s, t), s.out = "ok"
    PROVE  Lock(ReadHeader(s), ReadHeader(t))
  <1> DEFINE x == ReadExact(s, 2)
             y == ReadExact(t, 2)
             v == [x EXCEPT !.version = x.val[2]]
             w == [y EXCEPT !.version = x.val[2]]
             h == ReadExact(v, 5)
             g == ReadExact(w, 5)
             a == [h EXCEPT !.header = Append(h.val, NULL)]
             d == [g EXCEPT !.header = Append(h.val, NULL)]
             b == ReadExact(h, 1)
             e == ReadExact(g, 1)
             c == [b EXCEPT !.header = h.val \o b.val]
             f == [e EXCEPT !.header = h.val \o b.val]
             p == ReadHeader(s)
             q == ReadHeader(t)
  <1>1. 2 \in Nat /\ 5 \in Nat /\ 1 \in Nat
    OBVIOUS
  <1>2. p = IF x.out # "ok" THEN x
            ELSE IF x.val[2] \notin 1..3 THEN Fail(x, "version")
            ELSE IF h.out # "ok" THEN h
            ELSE IF h.version = 1 /\ h.val[1] = 8 THEN a
            ELSE IF b.out # "ok" THEN b ELSE c
    BY DEF ReadHeader, Then
  <1>3. ExactAlso(x, y)
    BY <1>1, ExactLocks
  <1>4. y.val = x.val /\ Beside(x, y) /\ y.out = x.out
    <2> HIDE DEF x, y
    <2> QED
      BY <1>3, LockSame DEF ExactAlso, Beside
  <1>5. q = IF y.out # "ok" THEN y
            ELSE IF x.val[2] \notin 1..3 THEN Fail(y, "version")
            ELSE IF g.out # "ok" THEN g
            ELSE IF g.version = 1 /\ g.val[1] = 8 THEN [g EXCEPT !.header = Append(g.val, NULL)]
            ELSE IF e.out # "ok" THEN e ELSE [e EXCEPT !.header = g.val \o e.val]
    BY <1>4 DEF ReadHeader, Then
  <1> HIDE DEF x, y
  <1>6. CASE x.out # "ok"
    BY <1>2, <1>4, <1>5, <1>6 DEF Beside
  <1>7. CASE x.out = "ok" /\ x.val[2] \notin 1..3
    BY <1>2, <1>4, <1>5, <1>7, FailLocks DEF Beside
  <1>8. CASE x.out = "ok" /\ ~(x.val[2] \notin 1..3)
    <2>1. Shape(x) /\ Shape(y)
      BY <1>4, LockSame DEF Beside, MemTyped, ReaderOK
    <2>2. /\ Only(x, v, {"version"}) /\ v.version = x.val[2] /\ v.out = x.out
          /\ Only(y, w, {"version"}) /\ w.version = x.val[2]
      BY <2>1 DEF Only, Shape, Fields
    <2> HIDE DEF v, w
    <2>3. Beside(v, w)
      <3>1. {"version"} \subseteq Plain /\ \A k \in {"version"} \ Own : w[k] = v[k]
        BY <2>2 DEF Plain
      <3> QED
        BY <1>4, <2>2, <3>1, PlainBeside
    <2>4. ExactAlso(h, g)
      BY <1>1, <1>8, <2>2, <2>3, ExactLocks
    <2> HIDE DEF h, g
    <2>5. Beside(h, g) /\ g.val = h.val /\ g.out = h.out /\ g.version = h.version
      BY <2>4, LockSame DEF ExactAlso, Beside
    <2>6. CASE h.out # "ok"
      BY <1>2, <1>4, <1>5, <1>8, <2>5, <2>6 DEF Beside
    <2>7. Shape(h) /\ Shape(g) /\ {"header"} \subseteq Plain
      BY <2>5, LockSame DEF Beside, MemTyped, ReaderOK, Plain
    <2>8. CASE h.out = "ok" /\ h.version = 1 /\ h.val[1] = 8
      <3> DEFINE header == Append(h.val, NULL)
      <3>1. p = a /\ q = d
        BY <1>2, <1>4, <1>5, <1>8, <2>5, <2>8
      <3> HIDE DEF header
      <3>2. /\ Only(h, a, {"header"}) /\ a.header = header
            /\ Only(g, d, {"header"}) /\ d.header = header
        BY <2>7 DEF Only, Shape, Fields, header
      <3> HIDE DEF a, d
      <3>3. \A k \in {"header"} \ Own : d[k] = a[k]
        BY <3>2
      <3>4. Beside(a, d)
        BY <2>5, <2>7, <3>2, <3>3, PlainBeside
      <3> QED
        BY <3>1, <3>4 DEF Beside
    <2>9. CASE h.out = "ok" /\ ~(h.version = 1 /\ h.val[1] = 8)
      <3>1. ExactAlso(b, e)
        BY <1>1, <2>5, <2>9, ExactLocks
      <3> HIDE DEF b, e
      <3>2. Beside(b, e) /\ e.val = b.val /\ e.out = b.out
        BY <3>1, LockSame DEF ExactAlso, Beside
      <3>3. CASE b.out # "ok"
        BY <1>2, <1>4, <1>5, <1>8, <2>5, <2>9, <3>2, <3>3 DEF Beside
      <3>4. CASE b.out = "ok"
        <4> DEFINE header == h.val \o b.val
        <4>1. p = c /\ q = f
          BY <1>2, <1>4, <1>5, <1>8, <2>5, <2>9, <3>2, <3>4
        <4>2. Shape(b) /\ Shape(e)
          BY <3>2, LockSame DEF Beside, MemTyped, ReaderOK
        <4> HIDE DEF header
        <4>3. /\ Only(b, c, {"header"}) /\ c.header = header
              /\ Only(e, f, {"header"}) /\ f.header = header
          BY <4>2 DEF Only, Shape, Fields, header
        <4> HIDE DEF c, f
        <4>4. \A k \in {"header"} \ Own : f[k] = c[k]
          BY <4>3
        <4>5. Beside(c, f)
          BY <2>7, <3>2, <4>3, <4>4, PlainBeside
        <4> QED
          BY <4>1, <4>5 DEF Beside
      <3> QED
        BY <3>3, <3>4
    <2> QED
      BY <2>6, <2>8, <2>9
  <1> QED
    BY <1>6, <1>7, <1>8

LEMMA ObjectsMore ==
    ASSUME DataOK, NEW s, ParseTyped(s), s.out = "ok", Len(s.header) = 6
    PROVE  /\ More(s, ReadObjects(s))
           /\ ReadObjects(s).uses = ReadOffsetArray(s, s.header[5]).uses
  <1> DEFINE a == ReadOffsetArray(s, s.header[5])
             x == Texts(a, <<a.header[2], a.header[6]>>)
             t == [x EXCEPT !.objects = <<x.header[3], x.header[4]>> \o x.val]
  <1>1. ReadObjects(s) = IF a.out # "ok" THEN a ELSE IF x.out # "ok" THEN x ELSE t
    BY DEF ReadObjects, Texts, Then
  <1>2. s.header[5] \in Word
    BY DEF ParseTyped, FixTyped
  <1>3. StepTyped(s, a, {"read", "text"})
    BY <1>2, OffsetArrayTyped DEF ParseTyped
  <1> HIDE DEF a
  <1>4. Only(a, x, {"out", "val"})
    BY <1>3, TextsAre DEF StepTyped, Only
  <1> HIDE DEF x
  <1>5. x.uses = a.uses /\ t.uses = x.uses
    BY <1>4 DEF Only, Shape, Fields
  <1> HIDE DEF t
  <1> QED
    BY <1>1, <1>3, <1>5 DEF More, StepTyped, a

LEMMA ObjectsLocks ==
    ASSUME DataOK, NEW s, NEW t, ParseTyped(s), Lock(s, t), s.out = "ok", Len(s.header) = 6,
           Sep(ReadObjects(s).uses)
    PROVE  Lock(ReadObjects(s), ReadObjects(t))
  <1> DEFINE a == ReadOffsetArray(s, s.header[5])
             b == ReadOffsetArray(t, s.header[5])
             words == <<a.header[2], a.header[6]>>
             x == Texts(a, words)
             y == Texts(b, words)
             objects == <<x.header[3], x.header[4]>> \o x.val
             p == [x EXCEPT !.objects = objects]
             q == [y EXCEPT !.objects = objects]
  <1>0. t.header = s.header
    BY LockSame
  <1>1. s.header[5] \in Word
    BY DEF ParseTyped, FixTyped
  <1>2. Sep(a.uses)
    BY ObjectsMore
  <1>3. Lock(a, b) /\ b.val = a.val
    BY <1>1, <1>2, ArrayLocks
  <1>4. ReadObjects(s) = IF a.out # "ok" THEN a ELSE IF x.out # "ok" THEN x ELSE p
    BY DEF ReadObjects, Texts, Then
  <1>5. ReadObjects(t) = LET g == Texts(b, <<b.header[2], b.header[6]>>) IN
                         IF b.out # "ok" THEN b ELSE IF g.out # "ok" THEN g
                         ELSE [g EXCEPT !.objects = <<g.header[3], g.header[4]>> \o g.val]
    BY <1>0 DEF ReadObjects, Texts, Then
  <1> HIDE DEF a, b
  <1>6. b.out = a.out /\ b.header = a.header
    BY <1>3, LockSame
  <1>11. Lock(x, y) /\ (x.out = "ok" => x = a /\ y = b)
    BY <1>3, TextsLock
  <1>12. ReadObjects(t) = IF b.out # "ok" THEN b ELSE IF y.out # "ok" THEN y
                          ELSE [y EXCEPT !.objects = <<y.header[3], y.header[4]>> \o y.val]
    BY <1>5, <1>6
  <1> HIDE DEF x, y
  <1>13. y.out = x.out /\ y.header = x.header /\ (x.out = "ok" => y.val = x.val) /\ Shape(x) /\ Shape(y)
    BY <1>3, <1>11, LockSame DEF MemTyped, ReaderOK
  <1>7. ReadObjects(t) = IF a.out # "ok" THEN b ELSE IF x.out # "ok" THEN y ELSE q
    BY <1>6, <1>12, <1>13
  <1> HIDE DEF objects
  <1>8. /\ Only(x, p, {"objects"}) /\ p.objects = objects
        /\ Only(y, q, {"objects"}) /\ q.objects = objects
    BY <1>13 DEF Only, Shape, Fields
  <1> HIDE DEF p, q
  <1>9. {"objects"} \subseteq Plain /\ \A f \in {"objects"} \ Own : q[f] = p[f]
    BY <1>8 DEF Plain
  <1>10. Lock(p, q)
    BY <1>8, <1>9, <1>11, PlainLocks
  <1> QED
    BY <1>3, <1>4, <1>7, <1>10, <1>11

\* An object that is still to be read.
Rest(s) == [s EXCEPT !.objects = Tail(s.objects)]

LEMMA RestIs ==
    ASSUME NEW s, ParseTyped(s), s.objects # <<>>
    PROVE  /\ Only(s, Rest(s), {"objects"}) /\ Rest(s).objects = Tail(s.objects)
           /\ MemTyped(Rest(s)) /\ Rest(s).out = s.out /\ Rest(s).uses = s.uses
           /\ Head(s.objects) \in Word
  <1>1. Only(s, Rest(s), {"objects"}) /\ Rest(s).objects = Tail(s.objects)
    BY DEF Rest, ParseTyped, MemTyped, ReaderOK, Only, Shape, Fields
  <1>2. MemTyped(Rest(s)) /\ Rest(s).uses = s.uses
    <2>1. {"objects"} \subseteq Plain
      BY DEF Plain
    <2> QED
      BY <1>1, <2>1, PlainTyped DEF ParseTyped
  <1>3. Rest(s).out = s.out
    BY <1>1 DEF Only, Fields
  <1>4. Head(s.objects) \in Word
    BY DEF ParseTyped, FixTyped
  <1> QED
    BY <1>1, <1>2, <1>3, <1>4

LEMMA ProviderMore ==
    ASSUME DataOK, NEW s, ParseTyped(s), s.out = "ok", s.objects # <<>>
    PROVE  More(s, ReadProvider(s))
  <1> DEFINE o == Head(s.objects)
             r == Rest(s)
             read == ReadStructFrom(r, 3, o)
             x == Texts(read, <<read.val[1]>>)
             type == ReadSerializedType(x, x.val[2])
             u == Texts(type, <<x.val[3]>>)
             a == [u EXCEPT !.providers = Append(@, <<x.val, u.val>>)]
             p == ReadProvider(s)
  <1>1. p = IF x.out # "ok" THEN x ELSE IF u.out # "ok" THEN u ELSE a
    BY DEF ReadProvider, Rest, Texts, Then
  <1>2. MemTyped(r) /\ r.out = "ok" /\ r.uses = s.uses /\ o \in Word
    BY RestIs
  <1>3. o \in Int /\ o <= NULL /\ 3 \in Nat
    BY <1>2 DEF Word, DataOK
  <1> HIDE DEF r, o, p
  <1>4. StepTyped(r, x, {"read", "text"}) /\ (x.out = "ok" => x.val \in Seq(Word) /\ Len(x.val) = 3)
    <2>1. /\ StepTyped(r, read, {"read", "text"})
          /\ read.out = "ok" => read.val \in Seq(Word) /\ Len(read.val) = 3
      BY <1>2, <1>3, StructFromTyped
    <2> HIDE DEF read
    <2> QED
      BY <2>1, TextsTyped
  <1> HIDE DEF x
  <1>5. x.out = "ok" => StepTyped(x, u, {"read", "text"})
    <2>1. x.out = "ok" => x.val[2] \in Word
      BY <1>4
    <2>2. x.out = "ok" => StepTyped(x, type, {"read", "text"})
      BY <1>4, <2>1, PairTyped DEF ReadSerializedType, StepTyped
    <2> HIDE DEF type
    <2> QED
      BY <2>2, TextsTyped
  <1> HIDE DEF u
  <1>6. x.out = "ok" => a.uses = u.uses
    BY <1>5 DEF StepTyped, Only, Shape, Fields
  <1> HIDE DEF a
  <1> QED
    BY <1>1, <1>2, <1>4, <1>5, <1>6 DEF More, StepTyped, p

LEMMA ProviderLocks ==
    ASSUME DataOK, NEW s, NEW t, ParseTyped(s), ParseTyped(t), Lock(s, t), s.out = "ok", s.objects # <<>>,
           Sep(ReadProvider(s).uses)
    PROVE  Lock(ReadProvider(s), ReadProvider(t))
  <1> DEFINE o == Head(s.objects)
             r == Rest(s)
             k == Rest(t)
             read == ReadStructFrom(r, 3, o)
             other == ReadStructFrom(k, 3, o)
             x == Texts(read, <<read.val[1]>>)
             y == Texts(other, <<read.val[1]>>)
             c == ReadSerializedType(x, x.val[2])
             d == ReadSerializedType(y, x.val[2])
             u == Texts(c, <<x.val[3]>>)
             w == Texts(d, <<x.val[3]>>)
             item == <<x.val, u.val>>
             a == [u EXCEPT !.providers = Append(u.providers, item)]
             b == [w EXCEPT !.providers = Append(u.providers, item)]
             p == ReadProvider(s)
             q == ReadProvider(t)
  <1>0. t.objects = s.objects /\ t.out = "ok"
    BY LockSame
  <1>1. p = IF x.out # "ok" THEN x ELSE IF u.out # "ok" THEN u ELSE a
    BY DEF ReadProvider, Rest, Texts, Then
  <1>2. /\ MemTyped(r) /\ r.out = "ok" /\ o \in Word
        /\ Only(s, r, {"objects"}) /\ r.objects = Tail(s.objects)
        /\ Only(t, k, {"objects"}) /\ k.objects = Tail(s.objects)
    BY <1>0, RestIs
  <1>3. o \in Int /\ o <= NULL /\ 3 \in Nat /\ 3 # 0
    BY <1>2 DEF Word, DataOK
  <1>4. q = LET i == Texts(other, <<other.val[1]>>)
                z == Texts(ReadSerializedType(i, i.val[2]), <<i.val[3]>>)
            IN  IF i.out # "ok" THEN i
                ELSE IF z.out # "ok" THEN z ELSE [z EXCEPT !.providers = Append(@, <<i.val, z.val>>)]
    BY <1>0 DEF ReadProvider, Rest, Texts, Then
  <1> HIDE DEF r, k, o, p, q
  <1>5. Lock(r, k)
    <2>1. {"objects"} \subseteq Plain /\ \A f \in {"objects"} \ Own : k[f] = r[f]
      BY <1>2 DEF Plain
    <2> QED
      BY <1>2, <2>1, PlainLocks
  <1>10. /\ StructAlso(read, other) /\ StepTyped(r, read, {"read", "text"})
         /\ read.out = "ok" => read.val \in Seq(Word) /\ Len(read.val) = 3
    BY <1>2, <1>3, <1>5, StructsLock, StructFromTyped
  <1> HIDE DEF read, other
  <1>11. other.val = read.val /\ Lock(read, other)
    BY <1>10 DEF StructAlso
  <1>6. StepTyped(r, x, {"read", "text"}) /\ (x.out = "ok" => x.val \in Seq(Word) /\ Len(x.val) = 3)
    BY <1>10, TextsTyped
  <1>7. Lock(x, y) /\ y.out = x.out /\ (x.out = "ok" => y.val = x.val)
    BY <1>11, TextsLock
  <1>12. q = LET z == Texts(ReadSerializedType(y, y.val[2]), <<y.val[3]>>)
             IN  IF y.out # "ok" THEN y
                 ELSE IF z.out # "ok" THEN z ELSE [z EXCEPT !.providers = Append(@, <<y.val, z.val>>)]
    BY <1>4, <1>11
  <1> HIDE DEF x, y
  <1>8. CASE x.out # "ok"
    BY <1>1, <1>7, <1>8, <1>12 DEF p, q
  <1>9. CASE x.out = "ok"
    <2>1. x.val[2] \in Word
      BY <1>6, <1>9
    <2>10. StepTyped(x, c, {"read", "text"})
      BY <1>6, <1>9, <2>1, PairTyped DEF ReadSerializedType, StepTyped
    <2>3. q = IF w.out # "ok" THEN w ELSE [w EXCEPT !.providers = Append(@, <<x.val, w.val>>)]
      BY <1>7, <1>9, <1>12
    <2> HIDE DEF c, d
    <2>2. StepTyped(x, u, {"read", "text"})
      BY <2>10, TextsTyped
    <2>11. c.uses = u.uses
      BY <2>10, TextsAre DEF StepTyped, Only, Fields
    <2> HIDE DEF u, w
    <2>4. u.uses \subseteq p.uses
      <3>1. a.uses = u.uses
        BY <2>2 DEF StepTyped, Only, Shape, Fields
      <3> HIDE DEF a
      <3> QED
        BY <1>1, <1>9, <3>1
    <2>5. Sep(u.uses)
      BY <2>4, SepLess DEF p
    <2>6. PairAlso(x, y, c, d, "type", x.val[2])
      BY <1>7, <1>9, <2>1, <2>5, <2>11, PairLocks DEF ReadSerializedType, c, d
    <2>12. Lock(c, d) /\ (c.out = "ok" => d.val = c.val)
      BY <2>6 DEF PairAlso
    <2>13. Lock(u, w) /\ (u.out = "ok" => c.out = "ok" /\ u = c /\ w = d)
      BY <2>12, TextsLock DEF u, w
    <2>7. Lock(u, w) /\ w.out = u.out /\ w.providers = u.providers /\ (u.out = "ok" => w.val = u.val)
          /\ Shape(u) /\ Shape(w)
      BY <2>12, <2>13, LockSame DEF MemTyped, ReaderOK
    <2>8. CASE u.out # "ok"
      BY <1>1, <1>9, <2>3, <2>7, <2>8 DEF p, q
    <2>9. CASE u.out = "ok"
      <3>1. q = b /\ p = a
        BY <1>1, <1>9, <2>3, <2>7, <2>9
      <3> DEFINE providers == Append(u.providers, item)
      <3> HIDE DEF providers
      <3>2. /\ Only(u, a, {"providers"}) /\ a.providers = providers
            /\ Only(w, b, {"providers"}) /\ b.providers = providers
        BY <2>7 DEF Only, Shape, Fields, providers
      <3> HIDE DEF a, b
      <3>3. {"providers"} \subseteq Plain /\ \A f \in {"providers"} \ Own : b[f] = a[f]
        BY <3>2 DEF Plain
      <3>4. Lock(a, b)
        BY <2>7, <3>2, <3>3, PlainLocks
      <3> QED
        BY <3>1, <3>4 DEF p, q
    <2> QED
      BY <2>8, <2>9
  <1> QED
    BY <1>8, <1>9

\* Going over the keys in place reads the array that they are.
LEMMA KeysIsRead ==
    ASSUME DataOK, NEW s, MemTyped(s), s.out = "ok", s.buffered, NEW o \in Word
    PROVE  ArrayRead(s, KeysInPlace(s, o), o)
  <1> DEFINE u == Use(s, "array", o)
             x == ReadStructAt(u, 1, o - 1)
             size == x.val[1]
             a == FromBuffer(x, size \div 4, o)
             t == KeysInPlace(s, o)
             A == {"cursor", "out", "val", "cache", "uses"}
  <1>0. o \in Nat /\ o \in Int /\ o - 1 \in Int /\ 1 \in Int /\ 1 \in Nat
    BY DEF Word, DataOK
  <1>1. t = IF x.out # "ok" THEN x
            ELSE IF size = NULL \/ size % 4 # 0 THEN Fail(x, "read") ELSE a
    BY DEF KeysInPlace
  <1>2. Only(s, u, {"uses"}) /\ u.uses = s.uses \cup {<<"array", o>>} /\ Shape(u)
    BY UseIs DEF MemTyped, ReaderOK, Only
  <1>3. u.out = "ok" /\ u.buffered /\ u.cache = s.cache /\ u.cursor = s.cursor
    BY <1>2 DEF Only, Fields
  <1> HIDE DEF u, t
  <1>4. x = FromBuffer(u, 1, o - 1)
    BY <1>3 DEF ReadStructAt
  <1>5. /\ Only(u, x, {"out", "val"})
        /\ IF Within(o - 1, 1) THEN x.out = "ok" /\ x.val = Words(o - 1, 1) ELSE x.out = "read" /\ x.val = <<>>
    <2> DEFINE p == o - 1
               y == FromBuffer(u, 1, p)
    <2>1. p \in Int /\ 1 \in Int
      BY <1>0
    <2> HIDE DEF p, x
    <2>2. /\ Only(u, y, {"out", "val"})
          /\ IF Within(p, 1) THEN y.out = "ok" /\ y.val = Words(p, 1) ELSE y.out = "read" /\ y.val = <<>>
      BY <1>2, <1>3, <2>1, FromBufferIs
    <2> HIDE DEF y
    <2> QED
      BY <1>4, <2>2 DEF y, p
  <1> HIDE DEF x
  <1>6. x.uses = u.uses /\ x.cache = s.cache /\ x.cursor = s.cursor /\ Only(s, x, A) /\ Shape(x)
    BY <1>2, <1>3, <1>5 DEF Only, Fields
  <1>7. CASE x.out # "ok"
    <2>1. t = x /\ ~ArrayReads(o) /\ x.out = "read" /\ x.val = <<>>
      BY <1>1, <1>5, <1>7 DEF ArrayReads
    <2> QED
      BY <1>2, <1>6, <2>1 DEF ArrayRead, t
  <1>8. CASE x.out = "ok" /\ (size = NULL \/ size % 4 # 0)
    <2>1. size = Size(o)
      BY <1>5, <1>8 DEF Size
    <2>2. ~ArrayReads(o)
      BY <1>8, <2>1 DEF ArrayReads
    <2>3. t = Fail(x, "read")
      BY <1>1, <1>8
    <2>4. Only(x, t, {"out", "val"}) /\ t.out = "read" /\ t.val = <<>>
      BY <1>6, <2>3, FailIs
    <2>5. t.uses = x.uses /\ t.cache = x.cache /\ t.cursor = x.cursor /\ Only(s, t, A)
      BY <1>6, <2>4 DEF Only, Fields
    <2> QED
      BY <1>2, <1>6, <2>2, <2>4, <2>5 DEF ArrayRead, t
  <1>9. CASE x.out = "ok" /\ ~(size = NULL \/ size % 4 # 0)
    <2>1. Within(o - 1, 1) /\ size = Size(o)
      BY <1>5, <1>9 DEF Size
    <2>2. size \in Nat
      <3>1. Words(o - 1, 1) \in Seq(Word) /\ Len(Words(o - 1, 1)) = 1
        BY <1>0, <2>1, WordsTyped
      <3>2. Words(o - 1, 1)[1] \in Nat
        BY <3>1, WordsAreInts
      <3> QED
        BY <2>1, <3>2 DEF Size
    <2>3. size \div 4 \in Nat /\ size \div 4 \in Int
      BY <2>2
    <2>4. Size(o) \div 4 = size \div 4
      BY <2>1
    <2>5. ArrayReads(o) <=> Within(o, size \div 4)
      BY <1>9, <2>1 DEF ArrayReads
    <2>6. ArrayAt(o) = Words(o, size \div 4)
      BY <2>4 DEF ArrayAt
    <2> HIDE DEF size
    <2>7. /\ Only(x, a, {"out", "val"})
          /\ IF Within(o, size \div 4) THEN a.out = "ok" /\ a.val = Words(o, size \div 4)
             ELSE a.out = "read" /\ a.val = <<>>
      BY <1>0, <1>6, <1>9, <2>3, FromBufferIs
    <2> HIDE DEF a
    <2>8. a.uses = x.uses /\ a.cache = x.cache /\ a.cursor = x.cursor /\ Only(s, a, A)
      BY <1>6, <2>7 DEF Only, Fields
    <2>9. t = a
      BY <1>1, <1>9 DEF size
    <2> QED
      BY <1>2, <1>6, <2>5, <2>6, <2>7, <2>8, <2>9 DEF ArrayRead, t
  <1> QED
    BY <1>7, <1>8, <1>9

\* The key table, gone over in place or read as an array.
KeysOf(s, o) ==
    IF ~s.native /\ s.buffered /\ o # NULL THEN KeysInPlace(s, o) ELSE ReadOffsetArray(s, o)

LEMMA KeysOfTyped ==
    ASSUME DataOK, NEW s, MemTyped(s), s.out = "ok", NEW o \in Word
    PROVE  StepTyped(s, KeysOf(s, o), {"read", "text"})
  <1>1. CASE ~s.native /\ s.buffered /\ o # NULL
    BY <1>1, KeysInPlaceTyped DEF KeysOf
  <1>2. CASE ~(~s.native /\ s.buffered /\ o # NULL)
    BY <1>2, OffsetArrayTyped DEF KeysOf
  <1> QED
    BY <1>1, <1>2

LEMMA KeysOfRead ==
    ASSUME DataOK, NEW s, MemTyped(s), s.out = "ok", Clean(s), Sound(s), NEW o \in Word, o # NULL,
           s.foreign = {} \/ Sep(KeysOf(s, o).uses)
    PROVE  ArrayRead(s, KeysOf(s, o), o)
  <1>1. CASE ~s.native /\ s.buffered
    BY <1>1, KeysIsRead DEF KeysOf
  <1>2. CASE ~(~s.native /\ s.buffered)
    <2>1. KeysOf(s, o) = ReadOffsetArray(s, o)
      BY <1>2 DEF KeysOf
    <2>2. CachedArray(s, o) => o \notin s.foreign
      BY <2>1, ForeignArray
    <2> QED
      BY <2>1, <2>2, ArrayIsRead
  <1> QED
    BY <1>1, <1>2

LEMMA KeysLock ==
    ASSUME DataOK, NEW s, NEW t, Lock(s, t), s.out = "ok", NEW o \in Word, Sep(KeysOf(s, o).uses)
    PROVE  StructAlso(KeysOf(s, o), KeysOf(t, o))
  <1>1. MemTyped(s) /\ MemTyped(t) /\ t.out = "ok" /\ Clean(s) /\ Clean(t) /\ Sound(s) /\ Sound(t)
    BY LockSame, LockClean DEF Lock
  <1>4. CASE o # NULL /\ t.native
    <2> DEFINE p == KeysOf(s, o)
               q == KeysOf(t, o)
    <2>1. q = ReadOffsetArray(t, o) /\ ~CachedArray(t, o)
      BY <1>4 DEF KeysOf, CachedArray
    <2>2. MemTyped(p) /\ MemTyped(q) /\ ArrayRead(s, p, o) /\ ArrayRead(t, q, o)
      BY <1>1, <1>4, <2>1, KeysOfTyped, KeysOfRead, ArrayIsRead DEF StepTyped
    <2>3. Sep(p.uses)
      OBVIOUS
    <2> HIDE DEF p, q
    <2>4. Lock(p, q) /\ q.val = p.val
      BY <2>2, <2>3, ArraysLock
    <2> QED
      BY <2>4 DEF StructAlso, p, q
  <1>2. CASE o = NULL
    <2>1. KeysOf(s, o) = ReadOffsetArray(s, o) /\ KeysOf(t, o) = ReadOffsetArray(t, o)
      BY <1>2 DEF KeysOf
    <2> QED
      BY <2>1, ArrayLocks DEF StructAlso
  <1>3. CASE o # NULL /\ ~t.native
    <2> DEFINE p == KeysOf(s, o)
               q == KeysOf(t, o)
    <2>0. t.foreign = {}
      BY <1>3 DEF Lock, Twin, Placed
    <2>1. MemTyped(p) /\ MemTyped(q) /\ ArrayRead(s, p, o) /\ ArrayRead(t, q, o)
      BY <1>1, <1>3, <2>0, KeysOfTyped, KeysOfRead DEF StepTyped
    <2>2. Sep(p.uses)
      OBVIOUS
    <2> HIDE DEF p, q
    <2>3. Lock(p, q) /\ q.val = p.val
      BY <2>1, <2>2, ArraysLock
    <2> QED
      BY <2>3 DEF StructAlso, p, q
  <1> QED
    BY <1>2, <1>3, <1>4

LEMMA PairsIs ==
    ASSUME NEW s
    PROVE  LET a == KeysOf(s, s.header[1]) IN
           ReadPairs(s) = IF a.out # "ok" THEN a
                          ELSE IF Len(a.val) % 2 # 0 THEN Fail(a, "read") ELSE [a EXCEPT !.pairs = a.val]
  BY DEF ReadPairs, KeysOf, KeysInPlace, Then

LEMMA PairsMore ==
    ASSUME DataOK, NEW s, ParseTyped(s), s.out = "ok", Len(s.header) = 6
    PROVE  /\ More(s, ReadPairs(s))
           /\ ReadPairs(s).uses = KeysOf(s, s.header[1]).uses
  <1> DEFINE o == s.header[1]
             a == KeysOf(s, o)
             t == [a EXCEPT !.pairs = a.val]
  <1>1. ReadPairs(s) = IF a.out # "ok" THEN a ELSE IF Len(a.val) % 2 # 0 THEN Fail(a, "read") ELSE t
    BY PairsIs
  <1>2. o \in Word
    BY DEF ParseTyped, FixTyped
  <1>3. StepTyped(s, a, {"read", "text"})
    BY <1>2, KeysOfTyped DEF ParseTyped
  <1> HIDE DEF a
  <1>4. t.uses = a.uses /\ Fail(a, "read").uses = a.uses
    BY <1>3, FailIs DEF StepTyped, Only, Shape, Fields
  <1> HIDE DEF t
  <1> QED
    BY <1>1, <1>3, <1>4 DEF More, StepTyped, a

LEMMA PairsLocks ==
    ASSUME DataOK, NEW s, NEW t, ParseTyped(s), Lock(s, t), s.out = "ok", Len(s.header) = 6,
           Sep(ReadPairs(s).uses)
    PROVE  Lock(ReadPairs(s), ReadPairs(t))
  <1> DEFINE o == s.header[1]
             a == KeysOf(s, o)
             b == KeysOf(t, o)
             pairs == a.val
             p == [a EXCEPT !.pairs = pairs]
             q == [b EXCEPT !.pairs = pairs]
  <1>0. t.header = s.header
    BY LockSame
  <1>1. o \in Word
    BY DEF ParseTyped, FixTyped
  <1>2. Sep(a.uses)
    BY PairsMore
  <1>a. StructAlso(a, b)
    BY <1>1, <1>2, KeysLock
  <1>3. Lock(a, b) /\ b.val = a.val
    BY <1>a DEF StructAlso
  <1>4. ReadPairs(s) = IF a.out # "ok" THEN a ELSE IF Len(a.val) % 2 # 0 THEN Fail(a, "read") ELSE p
    BY PairsIs
  <1>5. ReadPairs(t) = IF b.out # "ok" THEN b
                       ELSE IF Len(b.val) % 2 # 0 THEN Fail(b, "read") ELSE [b EXCEPT !.pairs = b.val]
    BY <1>0, PairsIs
  <1> HIDE DEF a, b
  <1>6. b.out = a.out /\ Shape(a) /\ Shape(b)
    BY <1>3, LockSame DEF MemTyped, ReaderOK
  <1>7. ReadPairs(t) = IF a.out # "ok" THEN b ELSE IF Len(a.val) % 2 # 0 THEN Fail(b, "read") ELSE q
    BY <1>3, <1>5, <1>6
  <1> HIDE DEF pairs
  <1>8. /\ Only(a, p, {"pairs"}) /\ p.pairs = pairs
        /\ Only(b, q, {"pairs"}) /\ q.pairs = pairs
    BY <1>6 DEF Only, Shape, Fields
  <1> HIDE DEF p, q
  <1>9. {"pairs"} \subseteq Plain /\ \A f \in {"pairs"} \ Own : q[f] = p[f]
    BY <1>8 DEF Plain
  <1>10. Lock(p, q)
    BY <1>3, <1>8, <1>9, PlainLocks
  <1>11. Lock(Fail(a, "read"), Fail(b, "read"))
    BY <1>3, FailLocks
  <1> QED
    BY <1>3, <1>4, <1>7, <1>10, <1>11

\* From here on the resources are Rust's.
Handed(s) == [s EXCEPT !.native = s.world \in {"private", "bridge", "fast"}]

LEMMA HandedIs ==
    ASSUME NEW s, ParseTyped(s)
    PROVE  /\ Only(s, Handed(s), {"native"}) /\ ParseTyped(Handed(s))
           /\ Handed(s).native = (s.world \in {"private", "bridge", "fast"})
  <1> DEFINE r == Handed(s)
  <1>1. Only(s, r, {"native"}) /\ r.native = (s.world \in {"private", "bridge", "fast"})
    BY DEF Handed, ParseTyped, MemTyped, ReaderOK, Only, Shape, Fields
  <1>2. r.native \in BOOLEAN
    BY DEF Handed, ParseTyped, MemTyped, ReaderOK, Only, Shape, Fields
  <1> HIDE DEF r
  <1>3. /\ r.header \in Seq(Word) /\ r.objects \in Seq(Word) /\ r.pairs \in Seq(Word)
        /\ Even(r.pairs)
    BY <1>1 DEF ParseTyped, FixTyped, Only, Fields
  <1>4. Only(s, r, {"version", "header", "objects", "providers", "pairs", "native"})
    BY <1>1, OnlyMore
  <1>5. ParseTyped(r)
    BY <1>2, <1>3, <1>4, OpeningTyped
  <1> QED
    BY <1>1, <1>5 DEF r

LEMMA HandedLocks ==
    ASSUME NEW s, NEW t, ParseTyped(s), ParseTyped(t), Lock(s, t)
    PROVE  Lock(Handed(s), Handed(t))
  <1> DEFINE p == Handed(s)
             q == Handed(t)
  <1>1. /\ Only(s, p, {"native"}) /\ MemTyped(p) /\ p.native = (s.world \in {"private", "bridge", "fast"})
        /\ Only(t, q, {"native"}) /\ MemTyped(q) /\ q.native = (t.world \in {"private", "bridge", "fast"})
    BY HandedIs DEF ParseTyped
  <1> HIDE DEF p, q
  <1>2. /\ p.world = s.world /\ p.buffered = s.buffered /\ p.written = s.written /\ p.foreign = s.foreign
        /\ p.cursor = s.cursor /\ p.cache = s.cache /\ p.names = s.names /\ p.made = s.made
        /\ p.again = s.again /\ p.uses = s.uses
    BY <1>1 DEF Only, Fields
  <1>3. /\ q.world = t.world /\ q.buffered = t.buffered /\ q.written = t.written /\ q.foreign = t.foreign
        /\ q.cursor = t.cursor /\ q.cache = t.cache /\ q.names = t.names /\ q.made = t.made
        /\ q.again = t.again /\ q.uses = t.uses
    BY <1>1 DEF Only, Fields
  <1>4. Twin(s, t) /\ s.world = "buffer"
    BY DEF Lock, Twin
  <1>5. ~p.native
    BY <1>1, <1>4
  <1>6. Placed(q)
    <2>1. q.native => t.world \in {"private", "bridge", "fast"}
      BY <1>1
    <2>2. Placed(t)
      BY <1>4 DEF Twin
    <2>3. q.native \/ t.foreign = {}
      <3>1. t.native => t.world \in {"private", "bridge", "fast"}
        BY <2>2 DEF Placed
      <3>2. t.native \/ t.foreign = {}
        BY <2>2 DEF Placed
      <3> QED
        BY <1>1, <3>1, <3>2
    <2> QED
      BY <1>3, <2>1, <2>2, <2>3 DEF Placed
  <1>7. Near(p, q) /\ CacheAlike(p, q)
    BY <1>2, <1>3, <1>4 DEF Twin, Near, CacheAlike
  <1>8. \A f \in Fields \ Own : q[f] = p[f]
    <2>1. \A f \in Fields \ Own : f \notin {"native"}
      BY DEF Own
    <2> QED
      BY <1>1, <1>4, <2>1 DEF Twin, Only
  <1>9. Twin(p, q)
    BY <1>2, <1>4, <1>5, <1>6, <1>7, <1>8 DEF Twin
  <1>10. Sound(p) /\ Sound(q)
    BY <1>2, <1>3, KeptMore DEF Lock
  <1>11. Alone(p, q) => Once(p) /\ Once(q)
    <2>1. Alone(s, t) => Once(s) /\ Once(t)
      BY DEF Lock
    <2>2. Alone(p, q) <=> Alone(s, t)
      BY <1>2, <1>3 DEF Alone
    <2> QED
      BY <1>2, <1>3, <2>1, <2>2, OnceMore
  <1> QED
    BY <1>1, <1>9, <1>10, <1>11 DEF Lock, p, q

LEMMA HandOverMore ==
    ASSUME DataOK, NEW s, ParseTyped(s), s.out = "ok", Len(s.header) = 6
    PROVE  More(s, HandOver(s))
  <1> DEFINE r == Handed(s)
  <1>1. Only(s, r, {"native"}) /\ ParseTyped(r)
    BY HandedIs
  <1>2. HandOver(s) = ReadPairs(r)
    BY DEF HandOver, Handed
  <1> HIDE DEF r
  <1>3. r.out = "ok" /\ r.header = s.header /\ r.uses = s.uses
    BY <1>1 DEF Only, Fields
  <1>5. More(r, ReadPairs(r))
    BY <1>1, <1>3, PairsMore
  <1> QED
    BY <1>2, <1>3, <1>5 DEF More

LEMMA HandOverLocks ==
    ASSUME DataOK, NEW s, NEW t, ParseTyped(s), ParseTyped(t), Lock(s, t), s.out = "ok", Len(s.header) = 6,
           Sep(HandOver(s).uses)
    PROVE  Lock(HandOver(s), HandOver(t))
  <1> DEFINE r == Handed(s)
             k == Handed(t)
  <1>1. Only(s, r, {"native"}) /\ ParseTyped(r) /\ Lock(r, k)
    BY HandedIs, HandedLocks
  <1>2. HandOver(s) = ReadPairs(r) /\ HandOver(t) = ReadPairs(k)
    BY DEF HandOver, Handed
  <1> HIDE DEF r, k
  <1>3. r.out = "ok" /\ r.header = s.header
    BY <1>1 DEF Only, Fields
  <1> QED
    BY <1>1, <1>2, <1>3, PairsLocks

-----------------------------------------------------------------------------
(* What custom decoders and direct calls do to both *)

\* What a custom decoder keeps for itself takes nothing from what is kept.
LEMMA CustomSound ==
    ASSUME NEW s, Sound(s), NEW o, o \notin DOMAIN s.cache, NEW t, NEW v, v.is \in {"custom", "array"},
           t.cache = Plus(s.cache, o, v), t.foreign = s.foreign \cup {o},
           t.names = s.names, t.uses = s.uses
    PROVE  Sound(t)
  <1>1. /\ DOMAIN t.cache = DOMAIN s.cache \cup {o} /\ t.cache[o] = v
        /\ \A x \in DOMAIN s.cache : x # o /\ t.cache[x] = s.cache[x]
    BY DEF Plus
  <1>2. ASSUME NEW x \in DOMAIN t.cache
        PROVE  Proper(t.cache[x], x, t.uses, t.foreign)
    <2>1. CASE x = o
      BY <1>1, <2>1 DEF Proper
    <2>2. CASE x # o
      <3>1. x \in DOMAIN s.cache /\ t.cache[x] = s.cache[x]
        BY <1>1, <1>2, <2>2
      <3>2. Proper(s.cache[x], x, s.uses, s.foreign)
        BY <3>1 DEF Sound
      <3> QED
        BY <3>1, <3>2 DEF Proper
    <2> QED
      BY <2>1, <2>2
  <1>3. ASSUME NEW x \in DOMAIN t.names
        PROVE  NameKept(x, t.cache, t.names)
    <2>1. NameKept(x, s.cache, s.names)
      BY <1>3 DEF Sound
    <2>2. t.cache[x] = s.cache[x] /\ x \in DOMAIN t.cache
      BY <1>1, <1>3, <2>1 DEF NameKept
    <2> QED
      BY <2>1, <2>2 DEF NameKept
  <1> QED
    BY <1>2, <1>3 DEF Sound

\* Nothing but v under o, if there was nothing and v is something.
Added(s, t, o, v) ==
    /\ Only(s, t, {"cache", "foreign"})
    /\ v # None => v.is \in {"custom", "array"}
    /\ IF o \in DOMAIN s.cache \/ v = None THEN t.cache = s.cache /\ t.foreign = s.foreign
       ELSE t.cache = Plus(s.cache, o, v) /\ t.foreign = s.foreign \cup {o}

LEMMA CustomAdds ==
    ASSUME NEW s, ParseTyped(s), s.world # "plain", NEW o, NEW v \in Offers
    PROVE  Added(s, ReadCustom(s, o, v), o, v)
  <1>1. v # None => v.is \in {"custom", "array"}
    BY DEF Offers
  <1>2. Shape(s)
    BY DEF ParseTyped, MemTyped, ReaderOK
  <1> QED
    BY <1>1, <1>2, CustomIs, OnlyNone DEF Added, Cached

LEMMA AddedKeeps ==
    ASSUME NEW s, Sound(s), NEW t, NEW o, NEW v, Added(s, t, o, v)
    PROVE  /\ Sound(t) /\ t.uses = s.uses /\ t.stack = s.stack /\ t.world = s.world /\ t.cursor = s.cursor
           /\ t.written = s.written /\ t.native = s.native /\ t.buffered = s.buffered /\ t.names = s.names
           /\ t.made = s.made /\ t.again = s.again /\ t.out = s.out
  <1>1. /\ t.uses = s.uses /\ t.stack = s.stack /\ t.world = s.world /\ t.cursor = s.cursor
        /\ t.written = s.written /\ t.native = s.native /\ t.buffered = s.buffered /\ t.names = s.names
        /\ t.made = s.made /\ t.again = s.again /\ t.out = s.out
    BY DEF Added, Only, Fields
  <1>2. CASE o \in DOMAIN s.cache \/ v = None
    BY <1>1, <1>2, KeptMore DEF Added
  <1>3. CASE ~(o \in DOMAIN s.cache \/ v = None)
    <2>1. t.cache = Plus(s.cache, o, v) /\ t.foreign = s.foreign \cup {o} /\ v.is \in {"custom", "array"}
      BY <1>3 DEF Added
    <2> QED
      BY <1>1, <1>3, <2>1, CustomSound
  <1> QED
    BY <1>1, <1>2, <1>3

LEMMA CustomLocks ==
    ASSUME NEW s, NEW t, Lock(s, t), t.world \notin Secluded, t.native, NEW o, NEW v,
           NEW p, NEW q, MemTyped(p), MemTyped(q), Added(s, p, o, v), Added(t, q, o, v)
    PROVE  Lock(p, q)
  <1>1. Twin(s, t) /\ Sound(s) /\ Sound(t) /\ (Alone(s, t) => Once(s) /\ Once(t))
    BY DEF Lock
  <1>2. /\ Sound(p) /\ p.uses = s.uses /\ p.world = s.world /\ p.cursor = s.cursor
        /\ p.written = s.written /\ p.native = s.native /\ p.buffered = s.buffered
        /\ p.made = s.made /\ p.again = s.again
    BY <1>1, AddedKeeps
  <1>3. /\ Sound(q) /\ q.uses = t.uses /\ q.world = t.world /\ q.cursor = t.cursor
        /\ q.written = t.written /\ q.native = t.native /\ q.buffered = t.buffered
        /\ q.made = t.made /\ q.again = t.again
    BY <1>1, AddedKeeps
  <1>4. Placed(q)
    <2>1. Placed(t)
      BY <1>1 DEF Twin
    <2> QED
      BY <1>3, <2>1 DEF Placed
  <1>5. Near(p, q)
    BY <1>1, <1>2, <1>3 DEF Twin, Near
  <1>6. CacheAlike(p, q)
    <2>1. ASSUME NEW x, <<"array", x>> \notin p.uses
          PROVE  /\ x \in DOMAIN p.cache <=> x \in DOMAIN q.cache
                 /\ x \in DOMAIN p.cache => q.cache[x] = p.cache[x]
      <3>1. /\ x \in DOMAIN s.cache <=> x \in DOMAIN t.cache
            /\ x \in DOMAIN s.cache => t.cache[x] = s.cache[x]
        BY <1>1, <1>2, <2>1 DEF Twin, CacheAlike
      <3>2. CASE x = o /\ (x \in DOMAIN s.cache \/ v = None)
        BY <3>1, <3>2 DEF Added
      <3>3. CASE x = o /\ ~(x \in DOMAIN s.cache \/ v = None)
        BY <3>1, <3>3 DEF Added, Plus
      <3>4. CASE x # o
        <4>1. /\ x \in DOMAIN p.cache <=> x \in DOMAIN s.cache
              /\ x \in DOMAIN s.cache => p.cache[x] = s.cache[x]
          BY <3>4 DEF Added, Plus
        <4>2. /\ x \in DOMAIN q.cache <=> x \in DOMAIN t.cache
              /\ x \in DOMAIN t.cache => q.cache[x] = t.cache[x]
          BY <3>4 DEF Added, Plus
        <4> QED
          BY <3>1, <4>1, <4>2
      <3> QED
        BY <3>2, <3>3, <3>4
    <2> QED
      BY <2>1 DEF CacheAlike
  <1>7. \A f \in Fields \ Own : q[f] = p[f]
    <2>1. \A f \in Fields \ Own : f \in Fields \ {"cache", "foreign"}
      BY DEF Own
    <2>2. \A f \in Fields \ Own : p[f] = s[f] /\ q[f] = t[f] /\ t[f] = s[f]
      BY <1>1, <2>1 DEF Added, Only, Twin
    <2> QED
      BY <2>2
  <1>8. Twin(p, q)
    BY <1>1, <1>2, <1>4, <1>5, <1>6, <1>7 DEF Twin
  <1>9. Alone(p, q) => Once(p) /\ Once(q)
    <2> SUFFICES ASSUME Alone(p, q)
                 PROVE  Once(p) /\ Once(q)
      OBVIOUS
    <2>1. p.cache = s.cache /\ p.foreign = s.foreign
      BY DEF Added, Alone
    <2>2. q.cache = t.cache /\ q.foreign = t.foreign
      BY DEF Added, Alone
    <2>3. Once(s) /\ Once(t)
      BY <1>1, <2>1, <2>2 DEF Alone
    <2> QED
      BY <1>2, <1>3, <2>1, <2>2, <2>3, OnceMore
  <1> QED
    BY <1>2, <1>3, <1>8, <1>9 DEF Lock

LEMMA AddedAwaited ==
    ASSUME NEW s, Sound(s), Awaited(s), s.stack \in Stacks, NEW t, NEW o, NEW v, Added(s, t, o, v)
    PROVE  Awaited(t)
  <1>1. t.uses = s.uses /\ t.stack = s.stack
    BY AddedKeeps
  <1>2. CASE t.foreign = {}
    <2>1. t.cache = s.cache /\ t.foreign = s.foreign
      BY <1>2 DEF Added
    <2> QED
      BY <1>1, <2>1 DEF Awaited
  <1>3. CASE t.foreign # {}
    BY <1>1, <1>3 DEF Awaited
  <1> QED
    BY <1>2, <1>3

\* What a custom decoder writes is written for all who can see it.
LEMMA ScribbleLocks ==
    ASSUME NEW s, NEW t, Lock(s, t), t.world \notin Secluded, NEW p, NEW q, MemTyped(p), MemTyped(q),
           Only(s, p, {"cursor", "written"}), Only(t, q, {"cursor", "written"}),
           q.cursor = p.cursor, q.written = p.written
    PROVE  Lock(p, q)
  <1>1. Twin(s, t) /\ Sound(s) /\ Sound(t) /\ (Alone(s, t) => Once(s) /\ Once(t))
    BY DEF Lock
  <1>2. /\ p.world = s.world /\ p.native = s.native /\ p.buffered = s.buffered /\ p.uses = s.uses
        /\ p.cache = s.cache /\ p.names = s.names /\ p.made = s.made /\ p.again = s.again
        /\ p.foreign = s.foreign
    BY DEF Only, Fields
  <1>3. /\ q.world = t.world /\ q.native = t.native /\ q.buffered = t.buffered /\ q.uses = t.uses
        /\ q.cache = t.cache /\ q.names = t.names /\ q.made = t.made /\ q.again = t.again
        /\ q.foreign = t.foreign
    BY DEF Only, Fields
  <1>4. Placed(q) /\ Near(p, q)
    BY <1>1, <1>3 DEF Twin, Placed, Near
  <1>5. CacheAlike(p, q)
    BY <1>1, <1>2, <1>3 DEF Twin, CacheAlike
  <1>6. \A f \in Fields \ Own : q[f] = p[f]
    <2>1. \A f \in Fields \ Own : f \in Fields \ {"cursor", "written"}
      BY DEF Own
    <2>2. \A f \in Fields \ Own : p[f] = s[f] /\ q[f] = t[f] /\ t[f] = s[f]
      BY <1>1, <2>1 DEF Only, Twin
    <2> QED
      BY <2>2
  <1>7. Twin(p, q)
    BY <1>1, <1>2, <1>4, <1>5, <1>6 DEF Twin
  <1>8. Sound(p) /\ Sound(q)
    BY <1>1, <1>2, <1>3, KeptMore
  <1>9. Alone(p, q) => Once(p) /\ Once(q)
    <2>1. Alone(p, q) <=> Alone(s, t)
      BY <1>2, <1>3 DEF Alone
    <2> QED
      BY <1>1, <1>2, <1>3, <2>1, OnceMore
  <1> QED
    BY <1>7, <1>8, <1>9 DEF Lock

\* A direct call leaves the cursors of two readers with buffers at the same place.
LEMMA CursorsAlike ==
    ASSUME NEW s, Shape(s), NEW t, Shape(t), s.out = "ok", t.out = "ok", s.buffered, t.buffered,
           t.cursor = s.cursor, t.written = s.written, NEW op \in Calls, NEW n, NEW p \in Int, p <= NULL,
           NULL \in Nat
    PROVE  Perform(op, t, n, p).cursor = Perform(op, s, n, p).cursor
  <1> DEFINE a == FromBuffer(s, n, p)
             b == FromBuffer(t, n, p)
  <1>1. a.cursor = s.cursor /\ b.cursor = t.cursor
    BY DEF FromBuffer, Fail, Shape, Fields
  <1>2. Fail(s, "read").cursor = s.cursor /\ Fail(t, "read").cursor = t.cursor
    BY FailIs DEF Only, Fields
  <1>3. CASE op = "read"
    <2>1. Perform(op, s, n, p) = ReadAfterSeek(s, n, p) /\ Perform(op, t, n, p) = ReadAfterSeek(t, n, p)
      BY <1>3 DEF Perform
    <2>2. CASE p < 0
      <3>1. Fail(s, "read").out # "ok" /\ Fail(t, "read").out # "ok"
        BY FailIs
      <3>2. ReadAfterSeek(s, n, p) = Fail(s, "read") /\ ReadAfterSeek(t, n, p) = Fail(t, "read")
        BY <2>2, <3>1 DEF ReadAfterSeek, Seek, Then
      <3> QED
        BY <1>2, <2>1, <3>2
    <2>3. CASE ~(p < 0)
      <3>1. p \in Word
        BY <2>3 DEF Word
      <3> QED
        BY <2>1, <3>1, SeekAlike
    <2> QED
      BY <2>2, <2>3
  <1>4. CASE op \in {"from", "at"}
    <2>1. Perform(op, s, n, p) = a /\ Perform(op, t, n, p) = b
      BY <1>4 DEF Perform, ReadStructFrom, ReadStructAt
    <2> QED
      BY <1>1, <2>1
  <1>5. CASE op = "bytes"
    <2>1. /\ Perform(op, s, n, p) = IF n < 0 THEN Fail(s, "read") ELSE a
          /\ Perform(op, t, n, p) = IF n < 0 THEN Fail(t, "read") ELSE b
      BY <1>5 DEF Perform, ReadBytesAt, ReadStructAt
    <2> QED
      BY <1>1, <1>2, <2>1
  <1> QED
    BY <1>3, <1>4, <1>5 DEF Calls

\* A direct call moves nothing but the cursors.
LEMMA CursorLocks ==
    ASSUME NEW s, NEW t, Lock(s, t), NEW p, NEW q, Only(s, p, {"cursor"}), Only(t, q, {"cursor"}),
           p.cursor \in Word, q.cursor \in Word, t.world \notin Secluded => q.cursor = p.cursor
    PROVE  Lock(p, q)
  <1>1. MemTyped(s) /\ MemTyped(t)
    BY LockSame
  <1>2. MemTyped(p) /\ MemTyped(q)
    BY <1>1 DEF MemTyped, ReaderOK, Only, Fields
  <1>3. p.uses = s.uses
    BY DEF Only, Fields
  <1>4. {"cursor"} \subseteq Loose /\ \A f \in {"cursor"} \ Own : q[f] = p[f]
    BY DEF Loose, Own
  <1> QED
    BY <1>2, <1>3, <1>4, LockMoved

-----------------------------------------------------------------------------
(* The parses side by side *)

\* The parses that keep what they read, besides that of Python over a buffer.
Keepers == World \ {"plain", "buffer"}

\* A parse goes with that of Python over a buffer, unless custom decoders, which it does not
\* have, have changed that one.
Kin(s, t) ==
    t.world \notin Secluded \/ (s.written = Empty /\ s.foreign = {}) => StepAlso(s, t)

Alike(ps) == Sep(ps["buffer"].uses) => \A w \in Keepers : Kin(ps["buffer"], ps[w])

Opened ==
    /\ phase = "header" => \A w \in World : parse[w] = Start(w)
    /\ phase \in Early => parse["buffer"].stack = <<>>

\* From the table on the parses over a registry that go on are Rust's.
Rusted == phase \notin Early => \A w \in {"bridge", "fast"} : parse[w].out = "ok" => parse[w].native

Paired == Typed /\ Opened /\ Rusted /\ Alike(parse)

LEMMA StartsBeside ==
    ASSUME DataOK, NEW w \in Keepers
    PROVE  Beside(Start("buffer"), Start(w)) /\ Awaited(Start("buffer"))
  <1> DEFINE s == Start("buffer")
             t == Start(w)
  <1>1. MemTyped(s) /\ MemTyped(t)
    BY StartTyped DEF Whole, ParseTyped, World, Keepers
  <1>2. /\ s.world = "buffer" /\ s.native = FALSE /\ s.buffered = TRUE /\ s.cursor = 0 /\ s.written = Empty
        /\ s.cache = Empty /\ s.names = Empty /\ s.made = {} /\ s.again = {} /\ s.foreign = {}
        /\ s.stack = <<>>
    BY DEF Start
  <1>3. /\ t.world = w /\ t.native = FALSE /\ t.buffered = (w # "stream") /\ t.cursor = 0
        /\ t.written = Empty /\ t.cache = Empty /\ t.names = Empty /\ t.made = {} /\ t.again = {}
        /\ t.foreign = {}
    BY DEF Start
  <1>a. /\ t.out = s.out /\ t.kind = s.kind /\ t.type = s.type /\ t.version = s.version
        /\ t.header = s.header /\ t.objects = s.objects /\ t.providers = s.providers
        /\ t.pairs = s.pairs /\ t.stack = s.stack /\ t.table = s.table /\ t.made = s.made
        /\ t.uses = s.uses /\ t.names = s.names
    BY DEF Start
  <1> HIDE DEF s, t
  <1>4. \A f \in Fields \ Own : t[f] = s[f]
    BY <1>a DEF Fields, Own
  <1>5. DOMAIN Empty = {}
    BY DEF Empty
  <1>6. Sound(s) /\ Sound(t) /\ CacheAlike(s, t)
    BY <1>2, <1>3, <1>5 DEF Sound, CacheAlike
  <1>7. Once(s) /\ Once(t)
    BY <1>2, <1>3 DEF Once
  <1>8. Placed(t) /\ Near(s, t)
    BY <1>2, <1>3 DEF Placed, Near, Keepers
  <1>9. Twin(s, t)
    BY <1>2, <1>4, <1>6, <1>8 DEF Twin
  <1>10. Awaited(s)
    <2>1. Len(s.stack) = 0
      BY <1>2
    <2> QED
      BY <2>1 DEF Awaited
  <1> QED
    BY <1>1, <1>2, <1>3, <1>6, <1>7, <1>9, <1>10 DEF Beside, Lock, s, t

LEMMA AwaitedNone ==
    ASSUME NEW s, s.stack = <<>>
    PROVE  Awaited(s)
  <1>1. Len(s.stack) = 0
    OBVIOUS
  <1> QED
    BY <1>1 DEF Awaited

\* Parses side by side are at the same point.
LEMMA Abreast ==
    ASSUME NEW w \in World, Lock(parse["buffer"], parse[w])
    PROVE  /\ w \in Going <=> "buffer" \in Going
           /\ w \in Reading <=> "buffer" \in Reading
           /\ w \in Busy <=> "buffer" \in Busy
           /\ w \in Inside <=> "buffer" \in Inside
           /\ w \in Innermost <=> "buffer" \in Innermost
  <1>1. /\ parse[w].out = parse["buffer"].out /\ parse[w].objects = parse["buffer"].objects
        /\ parse[w].pairs = parse["buffer"].pairs /\ parse[w].stack = parse["buffer"].stack
    BY LockSame
  <1>2. "buffer" \in World
    BY DEF World
  <1>3. w \in Going <=> "buffer" \in Going
    BY <1>1, <1>2 DEF Going
  <1>4. w \in Reading <=> "buffer" \in Reading
    BY <1>1, <1>2, <1>3 DEF Reading
  <1>5. w \in Busy <=> "buffer" \in Busy
    BY <1>1, <1>2, <1>3 DEF Busy
  <1>6. w \in Inside <=> "buffer" \in Inside
    BY <1>1, <1>2, <1>5 DEF Inside
  <1>7. w \in Innermost <=> "buffer" \in Innermost
    BY <1>1, <1>6 DEF Innermost
  <1> QED
    BY <1>3, <1>4, <1>5, <1>6, <1>7

\* A step of those that are at the same point.
LEMMA AlikeStep ==
    ASSUME Typed, Alike(parse), NEW ps, NEW who, who \subseteq World,
           \A w \in World \ who : ps[w] = parse[w],
           \A w \in Keepers : Lock(parse["buffer"], parse[w]) => (w \in who <=> "buffer" \in who),
           \A w \in who : ps[w].world = w,
           "buffer" \in who =>
               /\ parse["buffer"].uses \subseteq ps["buffer"].uses
               /\ ps["buffer"].written = parse["buffer"].written
               /\ ps["buffer"].foreign = parse["buffer"].foreign,
           \A w \in who \ {"plain"} :
               "buffer" \in who /\ StepAlso(parse["buffer"], parse[w]) /\ Sep(ps["buffer"].uses)
                   => StepAlso(ps["buffer"], ps[w])
    PROVE  Alike(ps)
  <1>0. "buffer" \in World
    BY DEF World
  <1> SUFFICES ASSUME Sep(ps["buffer"].uses), NEW w \in Keepers,
                      ps[w].world \notin Secluded \/ (ps["buffer"].written = Empty /\ ps["buffer"].foreign = {})
               PROVE  StepAlso(ps["buffer"], ps[w])
    BY DEF Alike, Kin
  <1>1. /\ parse["buffer"].uses \subseteq ps["buffer"].uses
        /\ ps["buffer"].written = parse["buffer"].written
        /\ ps["buffer"].foreign = parse["buffer"].foreign
    BY <1>0
  <1>2. w \in World /\ w # "plain"
    BY DEF Keepers
  <1>3. parse[w].world = w
    BY <1>2 DEF Typed, Whole
  <1>4. ps[w].world = parse[w].world
    BY <1>2, <1>3
  <1>5. Sep(parse["buffer"].uses)
    BY <1>1, SepLess
  <1>6. StepAlso(parse["buffer"], parse[w])
    BY <1>1, <1>4, <1>5 DEF Alike, Kin
  <1>7. w \in who <=> "buffer" \in who
    BY <1>6 DEF StepAlso
  <1> QED
    BY <1>0, <1>2, <1>6, <1>7

\* What is alike does not depend on the data but through their words.
LEMMA AlikeNext ==
    ASSUME data' = data, Typed', Alike(parse')
    PROVE  Alike(parse)'
  <1> SUFFICES ASSUME Sep(parse["buffer"].uses)', NEW w \in Keepers,
                      (parse[w].world \notin Secluded \/ (parse["buffer"].written = Empty /\ parse["buffer"].foreign = {}))'
               PROVE  StepAlso(parse["buffer"], parse[w])'
    BY DEF Alike, Kin
  <1>0. Sep(parse'["buffer"].uses)
    <2>1. \A o : (Within(o, 7)' <=> Within(o, 7)) /\ Words(o, 7)' = Words(o, 7)
      BY DEF Within, Words
    <2>2. \A o \in Int : <<"location", o>> \in parse'["buffer"].uses /\ Within(o, 7) => Named(Words(o, 7))
      BY <2>1 DEF Sep, Named, Names
    <2>3. \A u, v \in parse'["buffer"].uses : u[2] = v[2] => u[1] = v[1]
      BY DEF Sep
    <2> QED
      BY <2>2, <2>3 DEF Sep
  <1>1. StepAlso(parse'["buffer"], parse'[w])
    BY <1>0 DEF Alike, Kin
  <1>2. /\ Twin(parse'["buffer"], parse'[w]) /\ Sound(parse'["buffer"]) /\ Sound(parse'[w])
        /\ Alone(parse'["buffer"], parse'[w]) => Once(parse'["buffer"]) /\ Once(parse'[w])
        /\ Awaited(parse'["buffer"])
    BY <1>1 DEF StepAlso, Lock
  <1>3. MemTyped(parse["buffer"])' /\ MemTyped(parse[w])'
    BY DEF Typed, Whole, ParseTyped, World, Keepers
  <1>4. \A o : (ArrayReads(o)' <=> ArrayReads(o)) /\ ArrayAt(o)' = ArrayAt(o)
    BY DEF ArrayReads, ArrayAt, Within, Size, Words
  <1>5. Sound(parse["buffer"])' /\ Sound(parse[w])'
    BY <1>2, <1>4 DEF Sound, Proper
  <1>6. /\ Twin(parse["buffer"], parse[w])' /\ Awaited(parse["buffer"])'
        /\ (Alone(parse["buffer"], parse[w]) => Once(parse["buffer"]) /\ Once(parse[w]))'
    BY <1>2 DEF Twin, Awaited, Alone, Once
  <1> QED
    BY <1>3, <1>5, <1>6 DEF StepAlso, Lock

LEMMA HeadersAlike ==
    ASSUME Typed, Opened, DecodeHeader
    PROVE  Alike(parse') /\ parse'["buffer"].stack = <<>>
  <1>1. /\ phase = "header"
        /\ \A w \in World : parse'[w] = IF w \in Going THEN ReadHeader(parse[w]) ELSE parse[w]
    BY DEF DecodeHeader, Advance
  <1>2. \A w \in World : parse[w] = Start(w) /\ parse[w].out = "ok"
    <2>1. \A w : Start(w).out = "ok"
      BY DEF Start
    <2> QED
      BY <1>1, <2>1 DEF Opened
  <1>3. \A w \in World : parse'[w] = ReadHeader(Start(w))
    BY <1>1, <1>2 DEF Going
  <1>4. DataOK /\ "buffer" \in World /\ Start("buffer").out = "ok"
    BY DEF Typed, World, Start
  <1>5. ReadHeader(Start("buffer")).stack = <<>>
    <2> DEFINE s == Start("buffer")
               p == ReadHeader(s)
    <2>1. ParseTyped(s) /\ s.stack = <<>> /\ s.out = "ok"
      BY <1>4, StartTyped DEF Whole, Start
    <2> HIDE DEF s
    <2>2. Only(s, p, Opening \ {"native"})
      BY <1>4, <2>1, HeaderTyped
    <2> HIDE DEF p
    <2>3. p.stack = s.stack
      BY <2>2 DEF Only, Fields, Opening, Scratch, Memory
    <2> QED
      BY <2>1, <2>3 DEF p, s
  <1>6. ASSUME NEW w \in Keepers
        PROVE  StepAlso(parse'["buffer"], parse'[w])
    <2>1. w \in World
      BY DEF Keepers
    <2>2. Lock(ReadHeader(Start("buffer")), ReadHeader(Start(w)))
      BY <1>4, StartsBeside, HeaderLocks
    <2> QED
      BY <1>3, <1>4, <1>5, <2>1, <2>2, AwaitedNone DEF StepAlso
  <1> QED
    BY <1>3, <1>4, <1>5, <1>6 DEF Alike, Kin

LEMMA ObjectsAlike ==
    ASSUME Typed, Opened, Alike(parse), Typed', DecodeMetadata
    PROVE  Alike(parse') /\ parse'["buffer"].stack = <<>>
  <1>1. /\ phase = "metadata"
        /\ \A w \in World : parse'[w] = IF w \in Going THEN ReadObjects(parse[w]) ELSE parse[w]
    BY DEF DecodeMetadata, Advance
  <1>2. DataOK /\ "buffer" \in World /\ Going \subseteq World /\ parse["buffer"].stack = <<>>
    BY <1>1 DEF Typed, World, Going, Opened, Early
  <1>3. ASSUME NEW w \in Going
        PROVE  /\ parse'[w] = ReadObjects(parse[w]) /\ parse[w].out = "ok" /\ ParseTyped(parse[w])
               /\ Len(parse[w].header) = 6 /\ parse'[w].world = w
    BY <1>1, <1>2 DEF Typed, Whole, Going
  <1>4. ASSUME "buffer" \in Going
        PROVE  /\ More(parse["buffer"], parse'["buffer"])
               /\ Only(parse["buffer"], parse'["buffer"], Memory \cup {"objects"})
    <2>1. More(parse["buffer"], parse'["buffer"])
      BY <1>2, <1>3, <1>4, ObjectsMore
    <2>2. Only(parse["buffer"], parse'["buffer"], Memory \cup {"objects"})
      BY <1>2, <1>3, <1>4, ObjectsTyped
    <2> QED
      BY <2>1, <2>2
  <1>5. parse'["buffer"].stack = <<>>
    <2>1. CASE "buffer" \in Going
      BY <1>2, <1>4, <2>1 DEF Only, Fields, Memory
    <2>2. CASE "buffer" \notin Going
      BY <1>1, <1>2, <2>2
    <2> QED
      BY <2>1, <2>2
  <1>6. ASSUME NEW w \in Going \ {"plain"}, "buffer" \in Going, StepAlso(parse["buffer"], parse[w]),
               Sep(parse'["buffer"].uses)
        PROVE  StepAlso(parse'["buffer"], parse'[w])
    <2> DEFINE s == parse["buffer"]
               t == parse[w]
    <2>1. /\ ParseTyped(s) /\ s.out = "ok" /\ Len(s.header) = 6 /\ Lock(s, t)
          /\ parse'["buffer"] = ReadObjects(s) /\ parse'[w] = ReadObjects(t)
      BY <1>3, <1>6 DEF StepAlso
    <2> HIDE DEF s, t
    <2>2. Lock(ReadObjects(s), ReadObjects(t))
      BY <1>2, <1>6, <2>1, ObjectsLocks
    <2> QED
      BY <1>5, <2>1, <2>2, AwaitedNone DEF StepAlso
  <1>7. "buffer" \in Going =>
               /\ parse["buffer"].uses \subseteq parse'["buffer"].uses
               /\ parse'["buffer"].written = parse["buffer"].written
               /\ parse'["buffer"].foreign = parse["buffer"].foreign
    BY <1>4 DEF More, Only, Fields, Memory
  <1>8. \A w \in Keepers : Lock(parse["buffer"], parse[w]) => (w \in Going <=> "buffer" \in Going)
    BY Abreast DEF Keepers
  <1>9. \A w \in World \ Going : parse'[w] = parse[w]
    BY <1>1
  <1>10. Alike(parse')
    BY <1>2, <1>3, <1>6, <1>7, <1>8, <1>9, AlikeStep
  <1> QED
    BY <1>5, <1>10

LEMMA ProvidersAlike ==
    ASSUME Typed, Opened, Alike(parse), Typed', DecodeProvider
    PROVE  Alike(parse') /\ parse'["buffer"].stack = <<>>
  <1>1. /\ phase = "providers"
        /\ \A w \in World : parse'[w] = IF w \in Reading THEN ReadProvider(parse[w]) ELSE parse[w]
    BY DEF DecodeProvider, Advance
  <1>2. DataOK /\ "buffer" \in World /\ Reading \subseteq World /\ parse["buffer"].stack = <<>>
    BY <1>1 DEF Typed, World, Going, Reading, Opened, Early
  <1>3. ASSUME NEW w \in Reading
        PROVE  /\ parse'[w] = ReadProvider(parse[w]) /\ parse[w].out = "ok" /\ ParseTyped(parse[w])
               /\ parse[w].objects # <<>> /\ parse'[w].world = w
    BY <1>1, <1>2 DEF Typed, Whole, Going, Reading
  <1>4. ASSUME "buffer" \in Reading
        PROVE  /\ More(parse["buffer"], parse'["buffer"])
               /\ Only(parse["buffer"], parse'["buffer"], Memory \cup {"objects", "providers"})
    <2>1. More(parse["buffer"], parse'["buffer"])
      BY <1>2, <1>3, <1>4, ProviderMore
    <2>2. Only(parse["buffer"], parse'["buffer"], Memory \cup {"objects", "providers"})
      BY <1>2, <1>3, <1>4, ProviderTyped
    <2> QED
      BY <2>1, <2>2
  <1>5. parse'["buffer"].stack = <<>>
    <2>1. CASE "buffer" \in Reading
      BY <1>2, <1>4, <2>1 DEF Only, Fields, Memory
    <2>2. CASE "buffer" \notin Reading
      BY <1>1, <1>2, <2>2
    <2> QED
      BY <2>1, <2>2
  <1>6. ASSUME NEW w \in Reading \ {"plain"}, "buffer" \in Reading, StepAlso(parse["buffer"], parse[w]),
               Sep(parse'["buffer"].uses)
        PROVE  StepAlso(parse'["buffer"], parse'[w])
    <2> DEFINE s == parse["buffer"]
               t == parse[w]
    <2>1. /\ ParseTyped(s) /\ ParseTyped(t) /\ s.out = "ok" /\ s.objects # <<>> /\ Lock(s, t)
          /\ parse'["buffer"] = ReadProvider(s) /\ parse'[w] = ReadProvider(t)
      BY <1>3, <1>6 DEF StepAlso
    <2> HIDE DEF s, t
    <2>2. Lock(ReadProvider(s), ReadProvider(t))
      BY <1>2, <1>6, <2>1, ProviderLocks
    <2> QED
      BY <1>5, <2>1, <2>2, AwaitedNone DEF StepAlso
  <1>7. "buffer" \in Reading =>
               /\ parse["buffer"].uses \subseteq parse'["buffer"].uses
               /\ parse'["buffer"].written = parse["buffer"].written
               /\ parse'["buffer"].foreign = parse["buffer"].foreign
    BY <1>4 DEF More, Only, Fields, Memory
  <1>8. \A w \in Keepers : Lock(parse["buffer"], parse[w]) => (w \in Reading <=> "buffer" \in Reading)
    BY Abreast DEF Keepers
  <1>9. \A w \in World \ Reading : parse'[w] = parse[w]
    BY <1>1
  <1>10. Alike(parse')
    BY <1>2, <1>3, <1>6, <1>7, <1>8, <1>9, AlikeStep
  <1> QED
    BY <1>5, <1>10

LEMMA KeysAlike ==
    ASSUME Typed, Opened, Alike(parse), Typed', DecodeKeyTable
    PROVE  Alike(parse')
  <1>1. /\ phase = "providers"
        /\ \A w \in World : parse'[w] = IF w \in Going THEN HandOver(parse[w]) ELSE parse[w]
    BY DEF DecodeKeyTable, Advance
  <1>2. DataOK /\ "buffer" \in World /\ Going \subseteq World /\ parse["buffer"].stack = <<>>
    BY <1>1 DEF Typed, World, Going, Opened, Early
  <1>3. ASSUME NEW w \in Going
        PROVE  /\ parse'[w] = HandOver(parse[w]) /\ parse[w].out = "ok" /\ ParseTyped(parse[w])
               /\ Len(parse[w].header) = 6 /\ parse'[w].world = w
    BY <1>1, <1>2 DEF Typed, Whole, Going
  <1>4. ASSUME "buffer" \in Going
        PROVE  /\ More(parse["buffer"], parse'["buffer"])
               /\ Only(parse["buffer"], parse'["buffer"], Memory \cup {"pairs", "native"})
    <2>1. More(parse["buffer"], parse'["buffer"])
      BY <1>2, <1>3, <1>4, HandOverMore
    <2>2. Only(parse["buffer"], parse'["buffer"], Memory \cup {"pairs", "native"})
      BY <1>2, <1>3, <1>4, HandOverTyped
    <2> QED
      BY <2>1, <2>2
  <1>5. parse'["buffer"].stack = <<>>
    <2>1. CASE "buffer" \in Going
      BY <1>2, <1>4, <2>1 DEF Only, Fields, Memory
    <2>2. CASE "buffer" \notin Going
      BY <1>1, <1>2, <2>2
    <2> QED
      BY <2>1, <2>2
  <1>6. ASSUME NEW w \in Going \ {"plain"}, "buffer" \in Going, StepAlso(parse["buffer"], parse[w]),
               Sep(parse'["buffer"].uses)
        PROVE  StepAlso(parse'["buffer"], parse'[w])
    <2> DEFINE s == parse["buffer"]
               t == parse[w]
    <2>1. /\ ParseTyped(s) /\ ParseTyped(t) /\ s.out = "ok" /\ Len(s.header) = 6 /\ Lock(s, t)
          /\ parse'["buffer"] = HandOver(s) /\ parse'[w] = HandOver(t)
      BY <1>3, <1>6 DEF StepAlso
    <2> HIDE DEF s, t
    <2>2. Lock(HandOver(s), HandOver(t))
      BY <1>2, <1>6, <2>1, HandOverLocks
    <2> QED
      BY <1>5, <2>1, <2>2, AwaitedNone DEF StepAlso
  <1>7. "buffer" \in Going =>
               /\ parse["buffer"].uses \subseteq parse'["buffer"].uses
               /\ parse'["buffer"].written = parse["buffer"].written
               /\ parse'["buffer"].foreign = parse["buffer"].foreign
    BY <1>4 DEF More, Only, Fields, Memory
  <1>8. \A w \in Keepers : Lock(parse["buffer"], parse[w]) => (w \in Going <=> "buffer" \in Going)
    BY Abreast DEF Keepers
  <1>9. \A w \in World \ Going : parse'[w] = parse[w]
    BY <1>1
  <1> QED
    BY <1>2, <1>3, <1>6, <1>7, <1>8, <1>9, AlikeStep

LEMMA EntriesAlike ==
    ASSUME Typed, Alike(parse), Typed', BeginEntry
    PROVE  Alike(parse')
  <1>1. /\ Inside = {}
        /\ \A w \in World : parse'[w] = IF w \in Busy THEN StartEntry(parse[w]) ELSE parse[w]
    BY DEF BeginEntry, Advance
  <1>2. DataOK /\ "buffer" \in World /\ Busy \subseteq World
    BY DEF Typed, World, Going, Busy
  <1>3. ASSUME NEW w \in Busy
        PROVE  /\ parse'[w] = StartEntry(parse[w]) /\ parse[w].out = "ok" /\ ParseTyped(parse[w])
               /\ parse[w].pairs # <<>> /\ parse[w].stack = <<>> /\ parse'[w].world = w
    BY <1>1, <1>2 DEF Typed, Whole, Going, Busy, Inside
  <1>4. ASSUME "buffer" \in Busy
        PROVE  /\ More(parse["buffer"], parse'["buffer"])
               /\ Only(parse["buffer"], parse'["buffer"], Inner)
    <2>1. More(parse["buffer"], parse'["buffer"])
      BY <1>2, <1>3, <1>4, StartMore
    <2>2. Only(parse["buffer"], parse'["buffer"], Inner)
      BY <1>2, <1>3, <1>4, StartEntryTyped
    <2> QED
      BY <2>1, <2>2
  <1>5. ASSUME NEW w \in Busy \ {"plain"}, "buffer" \in Busy, StepAlso(parse["buffer"], parse[w]),
               Sep(parse'["buffer"].uses)
        PROVE  StepAlso(parse'["buffer"], parse'[w])
    <2> DEFINE s == parse["buffer"]
               t == parse[w]
    <2>1. /\ ParseTyped(s) /\ ParseTyped(t) /\ s.out = "ok" /\ s.pairs # <<>> /\ s.stack = <<>> /\ Lock(s, t)
          /\ parse'["buffer"] = StartEntry(s) /\ parse'[w] = StartEntry(t)
      BY <1>3, <1>5 DEF StepAlso
    <2> HIDE DEF s, t
    <2>2. StepAlso(StartEntry(s), StartEntry(t))
      BY <1>2, <1>5, <2>1, StartLocks
    <2> QED
      BY <2>1, <2>2
  <1>6. "buffer" \in Busy =>
               /\ parse["buffer"].uses \subseteq parse'["buffer"].uses
               /\ parse'["buffer"].written = parse["buffer"].written
               /\ parse'["buffer"].foreign = parse["buffer"].foreign
    BY <1>4 DEF More, Only, Fields, Inner, Scratch, Memory
  <1>7. \A w \in Keepers : Lock(parse["buffer"], parse[w]) => (w \in Busy <=> "buffer" \in Busy)
    BY Abreast DEF Keepers
  <1>8. \A w \in World \ Busy : parse'[w] = parse[w]
    BY <1>1
  <1> QED
    BY <1>2, <1>3, <1>5, <1>6, <1>7, <1>8, AlikeStep

LEMMA LocationsAlike ==
    ASSUME Typed, Alike(parse), Typed', DecodeLocation
    PROVE  Alike(parse')
  <1>1. \A w \in World : parse'[w] = IF w \in Innermost THEN Step(parse[w]) ELSE parse[w]
    BY DEF DecodeLocation, Advance
  <1>2. DataOK /\ "buffer" \in World /\ Innermost \subseteq World
    BY DEF Typed, World, Going, Busy, Inside, Innermost
  <1>3. ASSUME NEW w \in Innermost
        PROVE  /\ parse'[w] = Step(parse[w]) /\ parse[w].out = "ok" /\ ParseTyped(parse[w])
               /\ parse[w].stack # <<>> /\ parse'[w].world = w
    <2>1. w \in World /\ parse[w].out = "ok" /\ parse[w].stack # <<>>
      BY <1>2, <1>3 DEF Going, Busy, Inside, Innermost
    <2>2. parse'[w] = Step(parse[w])
      BY <1>1, <1>3, <2>1
    <2> QED
      BY <2>1, <2>2 DEF Typed, Whole
  <1>4. ASSUME "buffer" \in Innermost
        PROVE  /\ More(parse["buffer"], parse'["buffer"])
               /\ Only(parse["buffer"], parse'["buffer"], Tabling)
    <2>1. More(parse["buffer"], parse'["buffer"])
      BY <1>2, <1>3, <1>4, StepMore
    <2>2. Only(parse["buffer"], parse'["buffer"], Tabling)
      BY <1>2, <1>3, <1>4, StepIsTyped
    <2> QED
      BY <2>1, <2>2
  <1>5. ASSUME NEW w \in Innermost \ {"plain"}, "buffer" \in Innermost, StepAlso(parse["buffer"], parse[w]),
               Sep(parse'["buffer"].uses)
        PROVE  StepAlso(parse'["buffer"], parse'[w])
    <2> DEFINE s == parse["buffer"]
               t == parse[w]
    <2>1. /\ ParseTyped(s) /\ ParseTyped(t) /\ s.out = "ok" /\ s.stack # <<>> /\ StepAlso(s, t)
          /\ parse'["buffer"] = Step(s) /\ parse'[w] = Step(t)
      BY <1>3, <1>5
    <2> HIDE DEF s, t
    <2>2. StepAlso(Step(s), Step(t))
      BY <1>2, <1>5, <2>1, StepLocks
    <2> QED
      BY <2>1, <2>2
  <1>6. "buffer" \in Innermost =>
               /\ parse["buffer"].uses \subseteq parse'["buffer"].uses
               /\ parse'["buffer"].written = parse["buffer"].written
               /\ parse'["buffer"].foreign = parse["buffer"].foreign
    BY <1>4 DEF More, Only, Fields, Tabling, Inner, Scratch, Memory
  <1>7. \A w \in Keepers : Lock(parse["buffer"], parse[w]) => (w \in Innermost <=> "buffer" \in Innermost)
    BY Abreast DEF Keepers
  <1>8. \A w \in World \ Innermost : parse'[w] = parse[w]
    BY <1>1
  <1> QED
    BY <1>2, <1>3, <1>5, <1>6, <1>7, <1>8, AlikeStep

\* After a custom decoder has acted, those that share its reader are alike, and no other.
LEMMA CallbacksAlike ==
    ASSUME Typed, Rusted, Alike(parse), Typed', CallbackActs
    PROVE  Alike(parse')
  <1>1. phase = "entries" /\ DataOK /\ "buffer" \in World /\ "buffer" \in WithRegistry
    BY DEF CallbackActs, Typed, World, WithRegistry
  <1>2. PICK x \in acts :
           parse' = [w \in World |->
                IF w \notin WithRegistry \cap Going THEN parse[w]
                ELSE AfterAct(parse[w], x)]
    BY DEF CallbackActs, Scribbled, AfterAct
  <1>3. x \in Acts /\ x[2] \in 0..Len(data) - 1 /\ x[3] \in Word
    BY DEF Typed, Acts
  <1>4. \A w \in World : ParseTyped(parse[w]) /\ parse[w].world = w /\ MemTyped(parse'[w]) /\ parse'[w].world = w
    <2>1. \A w \in World : ParseTyped(parse[w]) /\ parse[w].world = w
      BY DEF Typed, Whole
    <2>2. \A w \in World : (ParseTyped(parse[w]) /\ parse[w].world = w)'
      BY DEF Typed, Whole
    <2>3. \A w \in World : MemTyped(parse'[w])
      BY <2>2 DEF ParseTyped, MemTyped, ReaderOK, CacheTyped, NamesTyped, WrittenOK, Word
    <2> QED
      BY <2>1, <2>2, <2>3
  <1> DEFINE s == parse["buffer"]
             p == parse'["buffer"]
  <1>5. ParseTyped(s) /\ s.world = "buffer" /\ MemTyped(p)
    BY <1>1, <1>4
  <1>8. CASE "buffer" \notin Going
    <2>1. p = s
      BY <1>1, <1>2, <1>8
    <2> SUFFICES ASSUME Sep(p.uses), NEW w \in Keepers,
                        parse'[w].world \notin Secluded \/ (p.written = Empty /\ p.foreign = {})
                 PROVE  StepAlso(p, parse'[w])
      BY DEF Alike, Kin
    <2>2. w \in World /\ parse[w].world = w /\ parse'[w].world = w
      BY <1>4 DEF Keepers
    <2>3. StepAlso(s, parse[w])
      BY <2>1, <2>2 DEF Alike, Kin
    <2>4. w \notin Going
      BY <1>8, <2>2, <2>3, Abreast DEF StepAlso
    <2>5. parse'[w] = parse[w]
      BY <1>2, <2>2, <2>4
    <2> QED
      BY <2>1, <2>3, <2>5
  <1>6. CASE "buffer" \in Going /\ x[1] # "stream"
    <2> DEFINE v == Offered(x)
    <2>0. v \in Offers
      BY <1>1, <1>3, <1>6, OfferedTyped
    <2> HIDE DEF v
    <2>1. \A w \in WithRegistry \cap Going : parse'[w] = ReadCustom(parse[w], x[2], v)
      BY <1>2, <1>6 DEF WithRegistry, World, AfterAct, v
    <2>2. \A w \in WithRegistry \cap Going : Added(parse[w], parse'[w], x[2], v)
      BY <1>4, <2>0, <2>1, CustomAdds DEF WithRegistry, World
    <2>3. Added(s, p, x[2], v)
      BY <1>1, <1>6, <2>2
    <2> SUFFICES ASSUME Sep(p.uses), NEW w \in Keepers,
                        parse'[w].world \notin Secluded \/ (p.written = Empty /\ p.foreign = {})
                 PROVE  StepAlso(p, parse'[w])
      BY DEF Alike, Kin
    <2> DEFINE t == parse[w]
               q == parse'[w]
    <2>4. w \in World /\ MemTyped(q) /\ t.world = w /\ q.world = w
      BY <1>4 DEF Keepers
    <2>5. p.uses = s.uses /\ p.written = s.written /\ (p.foreign = {} => p.cache = s.cache /\ p.foreign = s.foreign)
      BY <2>3 DEF Added, Only, Fields
    <2>6. StepAlso(s, t)
      BY <2>4, <2>5 DEF Alike, Kin
    <2>7. Lock(s, t) /\ Awaited(s) /\ Sound(s) /\ s.stack \in Stacks
      BY <1>5, <2>6 DEF StepAlso, Lock, ParseTyped, FixTyped
    <2>8. CASE w \in WithRegistry
      <3>0. w \in Going
        BY <1>6, <2>4, <2>7, Abreast
      <3>1. Added(t, q, x[2], v) /\ t.world \notin Secluded
        BY <2>2, <2>4, <2>8, <3>0 DEF WithRegistry, Secluded
      <3>3. t.native
        <4>1. w \in {"bridge", "fast"}
          BY <2>8 DEF WithRegistry, Keepers
        <4>2. parse[w].out = "ok" /\ phase \notin Early
          BY <1>1, <3>0 DEF Going, Early
        <4> QED
          BY <4>1, <4>2 DEF Rusted
      <3> HIDE DEF s, t, p, q
      <3>2. Lock(p, q) /\ Awaited(p)
        BY <1>5, <2>3, <2>4, <2>7, <3>1, <3>3, CustomLocks, AddedAwaited
      <3> QED
        BY <3>2 DEF StepAlso, p, q
    <2>9. CASE w \notin WithRegistry
      <3>1. q = t /\ w \in Secluded
        BY <1>2, <2>4, <2>9 DEF WithRegistry, World, Secluded, Keepers
      <3>2. p = s
        <4>1. x[2] \in DOMAIN s.cache \/ v = None
          BY <2>3, <2>4, <3>1 DEF Added
        <4>2. p = ReadCustom(s, x[2], v)
          BY <1>1, <1>6, <2>1
        <4> QED
          BY <4>1, <4>2 DEF ReadCustom, Cached
      <3> QED
        BY <2>6, <3>1, <3>2
    <2> QED
      BY <2>8, <2>9
  <1>7. CASE "buffer" \in Going /\ x[1] = "stream"
    <2>1. \A w \in WithRegistry \cap Going : parse'[w] = Scribbled(parse[w], x[2], x[3])
      BY <1>2, <1>7 DEF WithRegistry, World, AfterAct
    <2>2. ASSUME NEW w \in WithRegistry \cap Going
          PROVE  /\ Only(parse[w], parse'[w], {"cursor", "written"})
                 /\ parse'[w].cursor = x[2] + 1 /\ parse'[w].written = [y \in {x[2]} |-> x[3]]
      <3> DEFINE o == x[2]
                 y == x[3]
                 u == parse[w]
                 v == Scribbled(u, o, y)
      <3>1. ParseTyped(u) /\ DataOK /\ o \in 0..Len(data) - 1 /\ y \in Word /\ parse'[w] = v
        BY <1>1, <1>3, <1>4, <2>1 DEF WithRegistry, World
      <3> HIDE DEF o, y, u
      <3>2. Only(u, v, {"cursor", "written"}) /\ v.cursor = o + 1 /\ v.written = [q \in {o} |-> y]
        BY <3>1 DEF Scribbled, ParseTyped, MemTyped, ReaderOK, Only, Shape, Fields
      <3> HIDE DEF v
      <3> QED
        BY <3>1, <3>2 DEF o, y, u
    <2>3. p.written # Empty
      <3>1. DOMAIN p.written = {x[2]} /\ DOMAIN Empty = {}
        BY <1>1, <1>7, <2>2 DEF Empty
      <3> QED
        BY <3>1
    <2> SUFFICES ASSUME Sep(p.uses), NEW w \in Keepers,
                        parse'[w].world \notin Secluded \/ (p.written = Empty /\ p.foreign = {})
                 PROVE  StepAlso(p, parse'[w])
      BY DEF Alike, Kin
    <2> DEFINE t == parse[w]
               q == parse'[w]
    <2>4. w \in World /\ MemTyped(q) /\ t.world = w /\ q.world = w
      BY <1>4 DEF Keepers
    <2>5. w \notin Secluded /\ w \in WithRegistry
      BY <2>3, <2>4 DEF Secluded, WithRegistry, World, Keepers
    <2>12. Only(s, p, {"cursor", "written"})
      BY <1>1, <1>7, <2>2
    <2>7. p.uses = s.uses /\ p.cache = s.cache /\ p.foreign = s.foreign /\ p.stack = s.stack
      BY <2>12 DEF Only, Fields
    <2>8. StepAlso(s, t)
      BY <2>4, <2>5, <2>7 DEF Alike, Kin
    <2>9. Lock(s, t) /\ Awaited(s) /\ t.world \notin Secluded
      BY <2>4, <2>5, <2>8 DEF StepAlso
    <2>13. w \in Going
      BY <1>7, <2>4, <2>9, Abreast
    <2>6. /\ Only(t, q, {"cursor", "written"})
          /\ q.cursor = p.cursor /\ q.written = p.written
      BY <1>1, <1>7, <2>2, <2>5, <2>13
    <2> HIDE DEF s, t, p, q
    <2>10. Lock(p, q)
      BY <1>5, <2>4, <2>6, <2>9, <2>12, ScribbleLocks
    <2>11. Awaited(p)
      BY <2>7, <2>9 DEF Awaited
    <2> QED
      BY <2>10, <2>11 DEF StepAlso, p, q
  <1> QED
    BY <1>6, <1>7, <1>8

LEMMA CallsAlike ==
    ASSUME Typed, Alike(parse), NEW op \in Calls, NEW n \in Int, NEW p \in Int, p <= NULL,
           CallReader(op, n, p)
    PROVE  Alike(parse') /\ parse'["buffer"].stack = parse["buffer"].stack
  <1>1. /\ phase = "metadata" /\ (op \in {"from", "at"} => n > 0)
        /\ \A w \in World : parse'[w] = [parse[w] EXCEPT !.cursor = Called(w, op, n, p).cursor]
    BY DEF CallReader, Called
  <1>2. DataOK /\ "buffer" \in World
    BY DEF Typed, World
  <1>3. ASSUME NEW w \in World
        PROVE  /\ Only(parse[w], parse'[w], {"cursor"}) /\ parse'[w].cursor = Called(w, op, n, p).cursor
               /\ parse'[w].cursor \in Word
    <2> DEFINE s == parse[w]
               c == Called(w, op, n, p).cursor
               t == [s EXCEPT !.cursor = c]
    <2>1. Whole(w, s, "metadata") /\ c \in Word
      BY <1>1, <1>3, CallIs DEF Typed
    <2> HIDE DEF s, c
    <2>2. Only(s, t, {"cursor"}) /\ t.cursor = c
      BY <2>1 DEF Whole, ParseTyped, MemTyped, ReaderOK, Only, Shape, Fields
    <2> HIDE DEF t
    <2>3. parse'[w] = t
      BY <1>1, <1>3 DEF t, s, c
    <2> QED
      BY <2>1, <2>2, <2>3 DEF s, c
  <1> DEFINE s == parse["buffer"]
             a == parse'["buffer"]
  <1>4. Only(s, a, {"cursor"}) /\ a.cursor \in Word
    BY <1>2, <1>3
  <1>5. a.uses = s.uses /\ a.written = s.written /\ a.foreign = s.foreign /\ a.stack = s.stack /\ a.cache = s.cache
    BY <1>4 DEF Only, Fields
  <1>6. Alike(parse')
    <2> SUFFICES ASSUME Sep(a.uses), NEW w \in Keepers,
                        parse'[w].world \notin Secluded \/ (a.written = Empty /\ a.foreign = {})
                 PROVE  StepAlso(a, parse'[w])
      BY DEF Alike, Kin
    <2> DEFINE t == parse[w]
               b == parse'[w]
    <2>1. w \in World /\ Only(t, b, {"cursor"}) /\ b.cursor \in Word
      BY <1>3 DEF Keepers
    <2>2. b.world = t.world
      BY <2>1 DEF Only, Fields
    <2>3. StepAlso(s, t)
      BY <1>5, <2>2 DEF Alike, Kin
    <2>4. Lock(s, t) /\ Awaited(s)
      BY <2>3 DEF StepAlso
    <2>5. ASSUME t.world \notin Secluded
          PROVE  b.cursor = a.cursor
      <3> DEFINE r == [s EXCEPT !.out = "ok"]
                 u == [t EXCEPT !.out = "ok"]
      <3>1. a.cursor = Perform(op, r, n, p).cursor /\ b.cursor = Perform(op, u, n, p).cursor
        BY <1>2, <1>3, <2>1 DEF Called
      <3>2. /\ Shape(s) /\ Shape(t) /\ s.buffered /\ t.buffered /\ t.cursor = s.cursor /\ t.written = s.written
        BY <2>4, <2>5, LockSame DEF MemTyped, ReaderOK, Lock, Twin, Near, Placed, Secluded
      <3> HIDE DEF s, t
      <3>3. /\ Shape(r) /\ r.out = "ok" /\ r.buffered /\ r.cursor = s.cursor /\ r.written = s.written
            /\ Shape(u) /\ u.out = "ok" /\ u.buffered /\ u.cursor = s.cursor /\ u.written = s.written
        BY <3>2 DEF Shape, Fields
      <3> HIDE DEF r, u
      <3> QED
        BY <1>2, <3>1, <3>3, CursorsAlike DEF DataOK
    <2> HIDE DEF s, t, a, b
    <2>6. Lock(a, b)
      BY <1>4, <2>1, <2>4, <2>5, CursorLocks
    <2>7. Awaited(a)
      BY <1>5, <2>4 DEF Awaited
    <2> QED
      BY <2>6, <2>7 DEF StepAlso, a, b
  <1> QED
    BY <1>5, <1>6

LEMMA AlikeAll ==
    ASSUME Typed, Opened, Rusted, Alike(parse), Typed', Next
    PROVE  Alike(parse') /\ Opened'
  <1>0. DataOK /\ Calls = {"read", "from", "at", "bytes"}
    BY DEF Typed, Calls
  <1>1. CASE DecodeHeader
    BY <1>1, HeadersAlike DEF Opened, DecodeHeader, Advance
  <1>2. CASE DecodeMetadata
    BY <1>2, ObjectsAlike DEF Opened, DecodeMetadata, Advance
  <1>3. CASE DecodeProvider
    BY <1>3, ProvidersAlike DEF Opened, DecodeProvider, Advance
  <1>4. CASE DecodeKeyTable
    BY <1>4, KeysAlike DEF Opened, DecodeKeyTable, Advance, Early
  <1>5. CASE BeginEntry
    BY <1>5, EntriesAlike DEF Opened, BeginEntry, Advance, Early
  <1>6. CASE DecodeLocation
    BY <1>6, LocationsAlike DEF Opened, DecodeLocation, Advance, Early
  <1>7. CASE Finish
    <2>1. phase' = "done" /\ \A w \in World : parse'[w] = parse[w]
      BY <1>7 DEF Finish, Advance
    <2>2. "buffer" \in World /\ Keepers \subseteq World
      BY DEF World, Keepers
    <2>3. Alike(parse')
      BY <2>1, <2>2 DEF Alike
    <2> QED
      BY <2>1, <2>3 DEF Opened, Early
  <1>8. CASE CallbackActs
    BY <1>8, CallbacksAlike DEF Opened, CallbackActs, Early
  <1>9. CASE \E op \in {"read", "from", "at", "bytes"}, n \in Counts, p \in Positions :
                CallReader(op, n, p)
    <2>1. PICK op \in {"read", "from", "at", "bytes"}, n \in Counts, p \in Positions :
                 CallReader(op, n, p)
      BY <1>9
    <2>2. op \in Calls /\ n \in Int /\ p \in Int /\ p <= NULL
      BY <1>0, CatalogsAssumption
    <2>3. phase = "metadata" /\ phase' = "metadata"
      BY <2>1 DEF CallReader
    <2>4. Alike(parse') /\ parse'["buffer"].stack = parse["buffer"].stack
      BY <2>1, <2>2, CallsAlike
    <2> QED
      BY <2>3, <2>4 DEF Opened, Early
  <1> QED
    BY <1>1, <1>2, <1>3, <1>4, <1>5, <1>6, <1>7, <1>8, <1>9 DEF Next

\* A step of some that are going on, none of which leaves its side.
LEMMA RustKept ==
    ASSUME Rusted, phase \notin Early, NEW who, who \subseteq Going,
           \A w \in World \ who : parse'[w] = parse[w],
           \A w \in who : parse'[w].native = parse[w].native
    PROVE  Rusted'
  <1> SUFFICES ASSUME NEW w \in {"bridge", "fast"}, parse'[w].out = "ok"
               PROVE  parse'[w].native
    BY DEF Rusted
  <1>1. w \in World
    BY DEF World
  <1>2. CASE w \in who
    <2>1. parse[w].out = "ok"
      BY <1>2 DEF Going
    <2> QED
      BY <1>2, <2>1 DEF Rusted
  <1>3. CASE w \notin who
    BY <1>1, <1>3 DEF Rusted
  <1> QED
    BY <1>2, <1>3

LEMMA RustedNext ==
    ASSUME Typed, Rusted, Next
    PROVE  Rusted'
  <1>0. DataOK /\ \A w \in World : ParseTyped(parse[w]) /\ parse[w].world = w
    BY DEF Typed, Whole
  <1>1. CASE DecodeHeader \/ DecodeMetadata \/ DecodeProvider
    BY <1>1 DEF DecodeHeader, DecodeMetadata, DecodeProvider, Advance, Rusted, Early
  <1>2. CASE DecodeKeyTable
    <2>1. /\ phase = "providers" /\ phase' = "entries"
          /\ \A w \in World : parse'[w] = IF w \in Going THEN HandOver(parse[w]) ELSE parse[w]
      BY <1>2 DEF DecodeKeyTable, Advance
    <2>2. ASSUME NEW w \in {"bridge", "fast"}, parse'[w].out = "ok"
          PROVE  parse'[w].native
      <3>1. w \in World
        BY DEF World
      <3>2. w \in Going
        BY <2>1, <2>2, <3>1 DEF Going
      <3>3. parse'[w] = ReadPairs(Handed(parse[w])) /\ parse[w].out = "ok" /\ Len(parse[w].header) = 6
        <4>1. parse[w].out = "ok" /\ Whole(w, parse[w], "providers")
          BY <2>1, <3>1, <3>2 DEF Going, Typed
        <4>2. Len(parse[w].header) = 6
          BY <4>1 DEF Whole
        <4> QED
          BY <2>1, <3>1, <3>2, <4>1, <4>2 DEF HandOver, Handed
      <3> DEFINE r == Handed(parse[w])
      <3>4. Only(parse[w], r, {"native"}) /\ ParseTyped(r) /\ r.native = TRUE
        BY <1>0, <3>1, HandedIs
      <3> HIDE DEF r
      <3>5. r.out = "ok" /\ Len(r.header) = 6
        BY <3>3, <3>4 DEF Only, Fields
      <3>6. Only(r, ReadPairs(r), Memory \cup {"pairs"})
        BY <1>0, <3>4, <3>5, PairsTyped
      <3>7. ReadPairs(r).native = r.native
        BY <3>6 DEF Only, Memory, Fields
      <3> QED
        BY <3>3, <3>4, <3>7 DEF r
    <2> QED
      BY <2>1, <2>2 DEF Rusted
  <1>3. CASE BeginEntry
    <2>1. /\ phase = "entries" /\ Inside = {} /\ Busy \subseteq Going
          /\ \A w \in World : parse'[w] = IF w \in Busy THEN StartEntry(parse[w]) ELSE parse[w]
      BY <1>3 DEF BeginEntry, Advance, Busy
    <2>2. ASSUME NEW w \in Busy
          PROVE  parse'[w].native = parse[w].native
      <3>1. /\ w \in World /\ parse[w].out = "ok" /\ parse[w].pairs # <<>> /\ parse[w].stack = <<>>
            /\ parse'[w] = StartEntry(parse[w])
        BY <2>1, <2>2 DEF Going, Busy, Inside
      <3>2. Only(parse[w], parse'[w], Inner)
        BY <1>0, <3>1, StartEntryTyped
      <3> QED
        BY <3>2 DEF Only, Inner, Scratch, Memory, Fields
    <2> QED
      BY <2>1, <2>2, RustKept DEF Early
  <1>4. CASE DecodeLocation
    <2>1. /\ phase = "entries" /\ Innermost \subseteq Going
          /\ \A w \in World : parse'[w] = IF w \in Innermost THEN Step(parse[w]) ELSE parse[w]
      BY <1>4 DEF DecodeLocation, Advance, Innermost, Inside, Busy
    <2>2. ASSUME NEW w \in Innermost
          PROVE  parse'[w].native = parse[w].native
      <3>1. /\ w \in World /\ parse[w].out = "ok" /\ parse[w].stack # <<>> /\ parse'[w] = Step(parse[w])
        BY <2>1, <2>2 DEF Going, Innermost, Inside
      <3>2. Only(parse[w], parse'[w], Tabling)
        BY <1>0, <3>1, StepIsTyped
      <3> QED
        BY <3>2 DEF Only, Tabling, Inner, Scratch, Memory, Fields
    <2> HIDE DEF Innermost
    <2> QED
      BY <2>1, <2>2, RustKept DEF Early
  <1>5. CASE Finish
    <2>1. phase = "entries" /\ \A w \in World : parse'[w] = parse[w]
      BY <1>5 DEF Finish, Advance
    <2> DEFINE who == {}
    <2>2. /\ who \subseteq Going /\ (\A w \in World \ who : parse'[w] = parse[w])
          /\ \A w \in who : parse'[w].native = parse[w].native
      BY <2>1
    <2> HIDE DEF who
    <2> QED
      BY <2>1, <2>2, RustKept DEF Early
  <1>6. CASE CallbackActs
    <2> DEFINE who == WithRegistry \cap Going
    <2>1. phase = "entries" /\ who \subseteq Going
      BY <1>6 DEF CallbackActs
    <2>2. PICK x \in acts :
             parse' = [w \in World |-> IF w \notin who THEN parse[w] ELSE AfterAct(parse[w], x)]
      BY <1>6 DEF CallbackActs, Scribbled, AfterAct
    <2>3. x \in Acts /\ x[2] \in 0..Len(data) - 1 /\ x[3] \in Word /\ x[2] \in Word
      BY <1>0 DEF Typed, Acts, Word, DataOK
    <2>4. ASSUME NEW w \in who
          PROVE  parse'[w].native = parse[w].native
      <3>1. w \in World /\ w # "plain"
        BY <2>4 DEF WithRegistry, World
      <3>2. parse'[w] = AfterAct(parse[w], x) /\ ParseTyped(parse[w]) /\ parse[w].world # "plain"
        BY <1>0, <2>2, <2>4, <3>1
      <3>3. CASE x[1] # "stream"
        <4>1. Offered(x) \in Offers
          BY <1>0, <2>3, <3>3, OfferedTyped
        <4>2. Only(parse[w], ReadCustom(parse[w], x[2], Offered(x)), {"cache", "foreign"})
          BY <2>3, <3>2, <4>1, CustomTyped
        <4> QED
          BY <3>2, <3>3, <4>2 DEF AfterAct, Only, Fields
      <3>4. CASE x[1] = "stream"
        <4>1. Only(parse[w], Scribbled(parse[w], x[2], x[3]), {"cursor", "written"})
          BY <1>0, <2>3, <3>2, ScribbleTyped
        <4> QED
          BY <3>2, <3>4, <4>1 DEF AfterAct, Only, Fields
      <3> QED
        BY <3>3, <3>4
    <2>5. \A w \in World \ who : parse'[w] = parse[w]
      BY <2>2
    <2> HIDE DEF who
    <2> QED
      BY <2>1, <2>4, <2>5, RustKept DEF Early
  <1>7. CASE \E op \in {"read", "from", "at", "bytes"}, n \in Counts, p \in Positions :
                CallReader(op, n, p)
    <2>1. phase' = "metadata"
      BY <1>7 DEF CallReader
    <2> QED
      BY <2>1 DEF Rusted, Early
  <1> QED
    BY <1>1, <1>2, <1>3, <1>4, <1>5, <1>6, <1>7 DEF Next

LEMMA NextKeepsData ==
    ASSUME Next
    PROVE  data' = data
  BY DEF Next, DecodeHeader, DecodeMetadata, DecodeProvider, DecodeKeyTable, BeginEntry, DecodeLocation,
         Finish, Advance, CallbackActs, CallReader

\* Paired is an invariant.
LEMMA SpecPaired == Spec => []Paired
  <1>1. Init => Paired
    <2> SUFFICES ASSUME Init
                 PROVE  Paired
      OBVIOUS
    <2>1. Typed
      BY InitTyped
    <2>2. \A w \in World : parse[w] = Start(w)
      BY DEF Init
    <2>3. Start("buffer").stack = <<>> /\ "buffer" \in World /\ Keepers \subseteq World
      BY DEF Start, World, Keepers
    <2>4. Opened /\ Rusted
      BY <2>2, <2>3 DEF Opened, Rusted, Init, Early
    <2>5. \A w \in Keepers : StepAlso(Start("buffer"), Start(w))
      BY <2>1, StartsBeside DEF Typed, Beside, StepAlso
    <2>6. Alike(parse)
      BY <2>2, <2>3, <2>5 DEF Alike, Kin
    <2> QED
      BY <2>1, <2>4, <2>6 DEF Paired
  <1>2. ASSUME Paired, Next
        PROVE  Paired'
    <2>1. Typed /\ Opened /\ Rusted /\ Alike(parse)
      BY <1>2 DEF Paired
    <2>2. Typed' /\ data' = data
      BY <1>2, <2>1, NextIsTyped, NextKeepsData
    <2>5. Rusted'
      BY <1>2, <2>1, RustedNext
    <2>3. Alike(parse') /\ Opened'
      BY <1>2, <2>1, <2>2, AlikeAll
    <2>4. Alike(parse)'
      BY <2>2, <2>3, AlikeNext
    <2> QED
      BY <2>2, <2>3, <2>4, <2>5 DEF Paired
  <1>3. ASSUME Paired, UNCHANGED vars
        PROVE  Paired'
    <2>1. data' = data /\ phase' = phase /\ parse' = parse /\ calls' = calls /\ acts' = acts
      BY <1>3 DEF vars
    <2>2. Typed'
      <3>1. \A w \in World : Whole(w, parse'[w], phase)
        BY <1>3, <2>1 DEF Paired, Typed
      <3>2. \A w \in World : Whole(w, parse[w], phase)'
        BY <2>1, <3>1, WholeNext
      <3> QED
        BY <1>3, <2>1, <3>2 DEF Paired, Typed, DataOK, Word, Acts
    <2>3. Opened' /\ Rusted'
      BY <1>3, <2>1 DEF Paired, Opened, Rusted
    <2>4. Alike(parse')
      BY <1>3, <2>1 DEF Paired
    <2>5. Alike(parse)'
      BY <2>1, <2>2, <2>4, AlikeNext
    <2> QED
      BY <2>2, <2>3, <2>5 DEF Paired
  <1>4. Paired /\ [Next]_vars => Paired'
    BY <1>2, <1>3
  <1> QED
    BY <1>1, <1>4, PTL DEF Spec

\* What parses side by side amount to.
LEMMA LockResult ==
    ASSUME NEW s, NEW t, Lock(s, t)
    PROVE  Result(t) = Result(s)
  BY LockSame DEF Result

\* What Separate and NamesRead say of a catalog is what the parses side by side need.
LEMMA SeparateSep ==
    ASSUME Typed, Separate, NamesRead(parse["buffer"])
    PROVE  Sep(parse["buffer"].uses)
  <1> DEFINE uses == parse["buffer"].uses
  <1>1. \A u, v \in uses : u[2] = v[2] => u[1] = v[1]
    BY DEF Separate
  <1>2. DataOK
    BY DEF Typed
  <1>3. ASSUME NEW o \in Int, <<"location", o>> \in uses, Within(o, 7)
        PROVE  Named(Words(o, 7))
    <2> DEFINE record == Words(o, 7)
    <2>1. o \in 0..Len(data) - 7
      BY <1>2, <1>3 DEF Within, DataOK
    <2>2. Len(record) = 7 /\ record \in Seq(Word) /\ \A i \in 1..7 : record[i] = data[o + i]
      <3>1. 7 \in Nat /\ Within(o, 7)
        BY <1>3
      <3> QED
        BY <1>2, <3>1, WordsTyped
    <2> HIDE DEF record
    <2>3. DOMAIN Names(record) = 1..3 /\ \A i \in 1..3 : Names(record)[i] = record[i]
      BY <2>2 DEF Names
    <2>4. \A i \in 1..3 : data[o + i] \notin Unreadable
      BY <1>3, <2>1 DEF NamesRead
    <2>5. \A i \in 1..3 : Names(record)[i] \notin Unreadable
      BY <2>2, <2>3, <2>4
    <2> QED
      BY <2>3, <2>5 DEF Named, record
  <1> QED
    BY <1>1, <1>3 DEF Sep

\* On a catalog in which no two records of different kinds begin at one offset, and the names
\* of whose locations can be read, Rust decodes to the same values, objects and errors as
\* Python does, with a registry: whatever custom decoders write to the stream or keep in the
\* cache, and the next decoder finds the cursor where Python would have left it.
THEOREM CallbacksAlwaysAgree == Spec => [](NamesRead(parse["buffer"]) => CallbacksAgree)
  <1>1. Paired /\ NamesRead(parse["buffer"]) => CallbacksAgree
    <2> SUFFICES ASSUME Paired, NamesRead(parse["buffer"]), Separate
                 PROVE  \A w \in WithRegistry :
                            /\ Result(parse[w]) = Result(parse["buffer"])
                            /\ parse[w].cursor = parse["buffer"].cursor
      BY DEF CallbacksAgree, Agree, WithRegistry
    <2> SUFFICES ASSUME NEW w \in WithRegistry \ {"buffer"}
                 PROVE  /\ Result(parse[w]) = Result(parse["buffer"])
                        /\ parse[w].cursor = parse["buffer"].cursor
      OBVIOUS
    <2>1. Sep(parse["buffer"].uses)
      BY SeparateSep DEF Paired
    <2>2. w \in World /\ w \in Keepers /\ w \notin Secluded
      BY DEF WithRegistry, World, Keepers, Secluded
    <2>3. parse[w].world = w
      BY <2>2 DEF Paired, Typed, Whole
    <2>4. Lock(parse["buffer"], parse[w])
      BY <2>1, <2>2, <2>3 DEF Paired, Alike, Kin, StepAlso
    <2>5. Result(parse[w]) = Result(parse["buffer"])
      BY <2>4, LockResult
    <2>6. parse[w].cursor = parse["buffer"].cursor
      BY <2>2, <2>3, <2>4 DEF Lock, Twin, Near
    <2> QED
      BY <2>5, <2>6
  <1> QED
    BY <1>1, SpecPaired, PTL

\* What BackendsAgree says of the five parses that keep what they read: with records of
\* different kinds apart and no custom decoder at work, a stream reader, Rust with caches of
\* its own, through the registry or with fast tables come to the same result as Python over
\* a buffer, and none constructs an object twice.
CachedParsesAgree ==
    Separate /\ Undisturbed =>
        \A w \in World \ {"plain"} :
            /\ Result(parse[w]) = Result(parse["buffer"])
            /\ parse[w].again = {}

\* The backends that keep what they read agree on every catalog the names of whose locations
\* can be read, and each constructs each object once: BackendsAgree but for the parse that
\* keeps nothing, and for names that cannot be read.
THEOREM CachedParsesAlwaysAgree == Spec => [](NamesRead(parse["buffer"]) => CachedParsesAgree)
  <1>1. Paired /\ NamesRead(parse["buffer"]) => CachedParsesAgree
    <2> SUFFICES ASSUME Paired, NamesRead(parse["buffer"]), Separate, Undisturbed
                 PROVE  \A w \in World \ {"plain"} :
                            /\ Result(parse[w]) = Result(parse["buffer"])
                            /\ parse[w].again = {}
      BY DEF CachedParsesAgree
    <2>1. Sep(parse["buffer"].uses)
      BY SeparateSep DEF Paired
    <2>2. ASSUME NEW w \in Keepers
          PROVE  /\ Result(parse[w]) = Result(parse["buffer"])
                 /\ parse[w].again = {} /\ parse["buffer"].again = {}
      <3>1. w \in World /\ "buffer" \in World
        BY DEF World, Keepers
      <3>2. /\ parse["buffer"].written = Empty /\ parse["buffer"].foreign = {}
            /\ parse[w].foreign = {}
        BY <3>1 DEF Undisturbed
      <3>3. Lock(parse["buffer"], parse[w])
        BY <2>1, <3>2 DEF Paired, Alike, Kin, StepAlso
      <3>4. Result(parse[w]) = Result(parse["buffer"])
        BY <3>3, LockResult
      <3>5. parse[w].again = {} /\ parse["buffer"].again = {}
        BY <3>2, <3>3 DEF Lock, Alone, Once
      <3> QED
        BY <3>4, <3>5
    <2>3. "private" \in Keepers
      BY DEF World, Keepers
    <2> QED
      BY <2>2, <2>3 DEF Keepers
  <1> QED
    BY <1>1, SpecPaired, PTL

=============================================================================
