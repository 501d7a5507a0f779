---------------------------- MODULE BinaryCatalog ----------------------------
(***************************************************************************)
(* parse_binary_catalog, from the header to the resource table, over the   *)
(* words of a catalog: every reader of a record, and the one dictionary,   *)
(* `_object_cache`, in which arrays, types, bundle options, common infos   *)
(* and locations are kept by offset alone.                                 *)
(*                                                                         *)
(* The same catalog is parsed in six ways at once:                         *)
(*   buffer   Python, with the buffer parse_binary gives its reader        *)
(*   stream   Python, over a stream reader                                 *)
(*   private  Rust without a registry, on a copy of the cache              *)
(*   bridge   Rust with a registry, objects decoded by Python              *)
(*   fast     Rust with a plain registry, built-in objects decoded by Rust *)
(*   plain    the Python readers without any cache, for reference          *)
(* The metadata is read by Python in all of them.                          *)
(*                                                                         *)
(* A word that names a string stands for its text, and reading it succeeds *)
(* or fails whoever does it (EncodedStrings says how it is read).  The     *)
(* calls that are in progress, of the entry of the table and of the        *)
(* locations it leads to, are kept on a stack in all six; that Rust's own  *)
(* stack decodes in the order of Python's recursion is what                *)
(* NativeTraversal shows.                                                  *)
(***************************************************************************)
EXTENDS ByteReader, SequencesExt

CONSTANTS
    NULL,        \* UINT32_MAX, a word beyond every position
    Unreadable,  \* the words that name no readable string
    Catalogs,    \* the catalogs, each with the calls to the reader allowed on it (bound)
                 \* and what a custom decoder may do to the reader
    Counts,      \* how many words, or bytes, a direct call may ask for (bound)
    Positions    \* and where (bound)

\* The words that stand for no string.
NoText == {NULL, NULL - 1}

ASSUME CatalogsAssumption ==
    /\ NULL \in Nat
    /\ Unreadable \cap NoText = {}
    /\ Counts \subseteq Int /\ Positions \subseteq {p \in Int : p <= NULL}
    /\ \A c \in Catalogs :
         /\ c.data \in Seq(0..NULL) /\ Len(c.data) < NULL
         /\ c.calls \in Nat
         /\ c.acts \subseteq {"stream", "object", "list", "none"} \X (0..Len(c.data) - 1) \X (0..NULL)

VARIABLES
    phase,    \* how far parse_binary_catalog is
    parse,    \* the state of each of the six parses
    calls,    \* direct calls to the reader left
    acts,     \* what a custom decoder may still do: <<what, position, word>>
    answers   \* what the last direct call was, and what the readers answered

vars == <<data, phase, parse, calls, acts, answers>>

World == {"buffer", "stream", "private", "bridge", "fast", "plain"}
WithRegistry == {"buffer", "bridge", "fast"}

Empty == [o \in {} |-> o]
Value(is, at) == [is |-> is, at |-> at]
None == Value("none", <<>>)

Start(w) ==
    [world |-> w, buffered |-> w # "stream", native |-> FALSE, cursor |-> 0, written |-> Empty,
     out |-> "ok", val |-> <<>>, cache |-> Empty, names |-> Empty, kind |-> "", type |-> None,
     version |-> 1, header |-> <<>>, objects |-> <<>>, providers |-> <<>>, pairs |-> <<>>,
     stack |-> <<>>, table |-> <<>>, made |-> {}, again |-> {}, uses |-> {},
     foreign |-> {}]

Init ==
    /\ \E c \in Catalogs : data = c.data /\ calls = c.calls /\ acts = c.acts
    /\ phase = "header"
    /\ parse = [w \in World |-> Start(w)]
    /\ answers = [op |-> "none", n |-> 0, p |-> 0, of |-> Empty]

-----------------------------------------------------------------------------
(* The object cache *)

Give(s, v) == [s EXCEPT !.val = v]

Cached(s, o) == o \in DOMAIN s.cache

Remember(s, o, v) ==
    IF s.world = "plain" THEN s ELSE [s EXCEPT !.cache = [x \in DOMAIN @ \cup {o} |->
                                                            IF x = o THEN v ELSE @[x]]]

\* An object is known by its kind and its offset; `made` is what was constructed, from
\* what, and `again` what was constructed before (history).
Make(s, is, o, fields) ==
    LET v == Value(is, <<o>>)
    IN  [Remember(s, o, v) EXCEPT !.made = @ \cup {<<v, fields>>}, !.val = v,
                                  !.again = @ \cup {m[1] : m \in {n \in s.made : n[1] = v}}]

\* Which kind of record is asked for at which offset (history).
Use(s, kind, o) == [s EXCEPT !.uses = @ \cup {<<kind, o>>}]

\* read_encoded_string, of each of these words.
ReadTexts(s, words) ==
    IF \E i \in DOMAIN words : words[i] \in Unreadable THEN Fail(s, "text") ELSE s

\* Python keeps lists and looks for them, Rust does neither.
CachedArray(s, o) == ~s.native /\ Cached(s, o) /\ s.cache[o].is = "array"

\* The list may be one a custom decoder has kept, which is a use of its own (history).
ReadOffsetArray(s, o) ==
    IF o = NULL THEN Give(s, <<>>)
    ELSE IF CachedArray(s, o)
    THEN Give(Use(Use(s, "array", o), IF o \in s.foreign THEN "list" ELSE "array", o), s.cache[o].at)
    ELSE Then(ReadStructFrom(Use(s, "array", o), 1, o - 1), LAMBDA q :
         LET size == q.val[1]
         IN  IF size = NULL \/ size % 4 # 0 THEN Fail(q, "read")
             ELSE Then(ReadStructFrom(q, size \div 4, o), LAMBDA a :
                  IF a.native THEN a
                  ELSE Give(Remember(a, o, Value("array", a.val)), a.val)))

\* Types and common infos have two words, which are texts in a type.
ReadPair(s, is, o) ==
    IF Cached(s, o) THEN Give(Use(s, is, o), s.cache[o])
    ELSE Then(ReadStructFrom(Use(s, is, o), 2, o), LAMBDA q :
         Then(ReadTexts(q, IF is = "type" THEN q.val ELSE <<>>), LAMBDA x : Make(x, is, o, x.val)))

ReadSerializedType(s, o) == ReadPair(s, "type", o)

ReadCommonInfo(s, o) == ReadPair(s, "common", o)

\* `common_info.version = 3`, which Rust does only in its fast mode.
SetVersion(s) ==
    IF s.val.is # "common" /\ ~(s.native /\ s.world = "private") THEN Fail(s, "attribute") ELSE s

ReadBundle(s, o) ==
    IF Cached(s, o) THEN Give(Use(s, "bundle", o), s.cache[o])
    ELSE Then(ReadStructFrom(Use(s, "bundle", o), 5, o), LAMBDA q : LET record == q.val IN
         Then(ReadStructFrom(q, 4, record[1]), LAMBDA h : LET hash == h.val IN
         Then(ReadCommonInfo(h, record[5]), LAMBDA c :
         Then(SetVersion(c), LAMBDA v :
         Then(ReadTexts(v, <<record[2]>>), LAMBDA b : Make(b, "bundle", o, <<hash, record, b.val>>))))))

-----------------------------------------------------------------------------
(* SerializedObjectDecoder._decode_v2 and Parser::object *)

\* Texts of class names; the first four have a name without assembly in version 3.
ClassKind == <<"int", "long", "bool", "string", "hash", "bundle">>

\* Assembly 1 is the name a built-in type is registered under, 2 the same with
\* ", Version=..." behind it.
KindOf(version, assembly, class) ==
    LET known == IF class \in DOMAIN ClassKind THEN ClassKind[class] ELSE "unsupported"
    IN  IF class \in NoText \/ (assembly \in NoText /\ version < 3) THEN "value"
        ELSE IF assembly \in NoText THEN IF class \in 1..4 THEN known ELSE "unsupported"
        ELSE IF assembly = 1 \/ (assembly = 2 /\ version <= 2) THEN known
        ELSE "unsupported"

MatchName(s, o) ==
    IF s.val.is # "type" THEN Fail(s, "attribute")
    ELSE LET t == s.val.at[1]
             kind == KindOf(s.version, data[t + 1], data[t + 2])
         IN  IF kind = "value" THEN Fail(s, "value")
             ELSE [s EXCEPT !.type = s.val, !.kind = kind,
                            !.names = IF s.world = "plain" THEN @
                                      ELSE [x \in DOMAIN @ \cup {o} |->
                                              IF x = o THEN <<s.val, kind>> ELSE @[x]]]

\* In Python the remembered type is used, Rust remembers only the kind.
ReadTypeName(s, o) ==
    IF o \notin DOMAIN s.names
    THEN Then(ReadSerializedType(s, o), LAMBDA q : MatchName(q, o))
    ELSE IF s.native /\ s.world # "bridge"
    THEN Then(ReadSerializedType(s, o), LAMBDA q : [q EXCEPT !.type = q.val, !.kind = q.names[o][2]])
    ELSE [s EXCEPT !.type = s.names[o][1], !.kind = s.names[o][2]]

ScalarSize == [int |-> 1, long |-> 2, bool |-> 1, hash |-> 4]

\* Seeded fault: with a registry, too, Rust reads scalars from its buffer.
ReadScalar_Buffer(s, n, p) ==
    IF s.native /\ s.world # "bridge" THEN FromBuffer(s, n, p) ELSE ReadAfterSeek(s, n, p)

\* Scalars are read through the stream, unless no code but the parser's can see it.
ReadScalar(s, n, p) ==
    IF s.native /\ s.world = "private" THEN FromBuffer(s, n, p) ELSE ReadAfterSeek(s, n, p)

\* An int is signed, True is 1 and False is 0.
ScalarValue(kind, words) ==
    CASE kind = "int"  -> Value("number", <<IF words[1] = NULL THEN -1 ELSE words[1]>>)
      [] kind = "long" -> Value("number", IF words[2] = 0 THEN <<words[1]>> ELSE words)
      [] kind = "bool" -> Value("number", <<IF words[1] = 0 THEN 0 ELSE 1>>)
      [] kind = "hash" -> Value("hash", words)

DefaultValue(kind) == IF kind \in {"int", "long", "bool"} THEN Value("number", <<0>>) ELSE None

ReadPayload(s, p) ==
    IF s.kind = "unsupported" THEN Fail(s, "unsupported")
    ELSE IF p = NULL THEN Give(s, DefaultValue(s.kind))
    ELSE IF s.kind = "bundle" THEN ReadBundle(s, p)
    ELSE IF s.kind = "string"
    THEN Then(ReadStructFrom(s, 2, p), LAMBDA q :
         Then(ReadTexts(q, <<q.val[1]>>), LAMBDA x :
         Give(x, IF x.val[1] \in NoText THEN None ELSE Value("string", <<x.val[1]>>))))
    ELSE Then(ReadScalar(s, ScalarSize[s.kind], p), LAMBDA q : Give(q, ScalarValue(q.kind, q.val)))

DecodeObject(s, o) ==
    IF o = NULL THEN [s EXCEPT !.val = None, !.type = None]
    ELSE Then(ReadStructFrom(s, 2, o), LAMBDA q : LET record == q.val IN
         Then(ReadTypeName(q, record[1]), LAMBDA t : ReadPayload(t, record[2])))

-----------------------------------------------------------------------------
(* Locations and the table *)

\* One frame for every call in progress, the innermost last: the offset of a location, or
\* -1 for an entry of the table; its record, or the key; the offsets of the locations that
\* are still to be asked for, and those there are.
Push(s, at, what, left) ==
    [s EXCEPT !.stack = Append(@, [at |-> at, what |-> what, left |-> left, got |-> <<>>])]

Top(s) == Last(s.stack)

InProgress(s) == {s.stack[i].at : i \in DOMAIN s.stack}

Deliver(s, v) == [s EXCEPT !.stack[Len(s.stack)].got = Append(@, v)]

\* The primary key, the internal id and the provider of a record.
Names(record) == SubSeq(record, 1, 3)

\* A location within itself ends both, and "endless" is both ends: Python recurses until
\* the interpreter stops it (RecursionError), Rust reports the cycle.  Python reads the
\* names of a location before its dependencies.
NextLocation(s) ==
    LET o == Head(Top(s).left)
        asked == Use([s EXCEPT !.stack[Len(s.stack)].left = Tail(@)], "location", o)
    IN  IF Cached(s, o) THEN Deliver(asked, s.cache[o])
        ELSE IF o \in InProgress(s) THEN Fail(asked, "endless")
        ELSE Then(ReadStructFrom(asked, 7, o), LAMBDA q :
             Then(ReadTexts(q, IF q.native THEN <<>> ELSE Names(q.val)), LAMBDA n :
             Then(ReadOffsetArray(n, n.val[4]), LAMBDA a : Push(a, o, n.val, a.val))))

\* Seeded fault: Rust asks for the names only of locations with dependencies.
FinishLocation_Nameless(s) ==
    LET f == Top(s) IN
    Then(ReadTexts(s, IF s.native /\ f.got # <<>> THEN Names(f.what) ELSE <<>>), LAMBDA n :
    Then(DecodeObject(n, f.what[6]), LAMBDA x :
    Then(ReadSerializedType(x, f.what[7]), LAMBDA t :
    LET made == Make(t, "location", f.at, <<f.what, f.got, x.val, x.type, t.val>>)
    IN  Deliver([made EXCEPT !.stack = Front(@)], made.val))))

\* Rust reads them when the dependencies are there.
FinishLocation(s) ==
    LET f == Top(s) IN
    Then(ReadTexts(s, IF s.native THEN Names(f.what) ELSE <<>>), LAMBDA n :
    Then(DecodeObject(n, f.what[6]), LAMBDA x :
    Then(ReadSerializedType(x, f.what[7]), LAMBDA t :
    LET made == Make(t, "location", f.at, <<f.what, f.got, x.val, x.type, t.val>>)
    IN  Deliver([made EXCEPT !.stack = Front(@)], made.val))))

Unhashable == {"array", "bundle", "common", "location"}

\* resources[key] = locations: a key that equals one in the table replaces its value.
SetItem(s, key, locations) ==
    IF key.is \in Unhashable THEN Fail(s, "type")
    ELSE LET same == {i \in DOMAIN s.table : s.table[i][1] = key}
         IN  [s EXCEPT !.table = IF same = {} THEN Append(@, <<key, locations>>)
                                 ELSE [@ EXCEPT ![CHOOSE i \in same : TRUE] = <<key, locations>>]]

StartEntry(s) ==
    Then(DecodeObject(s, s.pairs[1]), LAMBDA k :
    Then(ReadOffsetArray(k, k.pairs[2]), LAMBDA a : Push(a, -1, k.val, a.val)))

FinishEntry(s) ==
    SetItem([s EXCEPT !.pairs = SubSeq(@, 3, Len(@)), !.stack = <<>>], Top(s).what, Top(s).got)

Step(s) ==
    IF Top(s).left # <<>> THEN NextLocation(s)
    ELSE IF Top(s).at = -1 THEN FinishEntry(s)
    ELSE FinishLocation(s)

\* Seeded fault: only the size of the words is checked in place.
ReadPairs_Unpaired(s) ==
    IF s.native \/ ~s.buffered THEN Then(ReadOffsetArray(s, s.header[1]), LAMBDA q :
        IF Len(q.val) % 2 # 0 THEN Fail(q, "read") ELSE [q EXCEPT !.pairs = q.val])
    ELSE Then(ReadOffsetArray(s, s.header[1]), LAMBDA q : [q EXCEPT !.pairs = q.val])

\* The key table, read once.  With a buffer Python goes over its bytes and keeps no
\* list; its checks are those of an offset array and the pairing.
ReadPairs(s) ==
    LET keys == s.header[1]
        inPlace == ~s.native /\ s.buffered /\ keys # NULL
        checked == IF ~inPlace THEN ReadOffsetArray(s, keys)
                   ELSE Then(ReadStructAt(Use(s, "array", keys), 1, keys - 1), LAMBDA q :
                        IF q.val[1] = NULL \/ q.val[1] % 4 # 0 THEN Fail(q, "read")
                        ELSE FromBuffer(q, q.val[1] \div 4, keys))
    IN  Then(checked, LAMBDA q :
        IF Len(q.val) % 2 # 0 THEN Fail(q, "read") ELSE [q EXCEPT !.pairs = q.val])

-----------------------------------------------------------------------------
(* parse_binary_catalog *)

\* Magic, version, keys, id, instance, scene, init objects, and the build hash, which
\* early catalogs of version 1 do not have.
ReadHeader(s) ==
    Then(ReadExact(s, 2), LAMBDA q :
    IF q.val[2] \notin 1..3 THEN Fail(q, "version")
    ELSE Then(ReadExact([q EXCEPT !.version = q.val[2]], 5), LAMBDA h :
         IF h.version = 1 /\ h.val[1] = 8 THEN [h EXCEPT !.header = Append(h.val, NULL)]
         ELSE Then(ReadExact(h, 1), LAMBDA b : [b EXCEPT !.header = h.val \o b.val])))

\* The instance provider and the scene provider come before those of the array; the id
\* and the build hash are texts.
ReadObjects(s) ==
    Then(ReadOffsetArray(s, s.header[5]), LAMBDA a :
    Then(ReadTexts(a, <<a.header[2], a.header[6]>>), LAMBDA x :
    [x EXCEPT !.objects = <<x.header[3], x.header[4]>> \o x.val]))

ReadProvider(s) ==
    Then(ReadStructFrom([s EXCEPT !.objects = Tail(@)], 3, Head(s.objects)), LAMBDA q :
    Then(ReadTexts(q, <<q.val[1]>>), LAMBDA i :
    Then(ReadSerializedType(i, i.val[2]), LAMBDA t :
    Then(ReadTexts(t, <<i.val[3]>>), LAMBDA d :
    [d EXCEPT !.providers = Append(@, <<i.val, d.val>>)]))))

\* _decode_binary_resources: from here on the resources are Rust's, where they are.
HandOver(s) == ReadPairs([s EXCEPT !.native = s.world \in {"private", "bridge", "fast"}])

\* A parse that has failed is over.
Going == {w \in World : parse[w].out = "ok"}
Reading == {w \in Going : parse[w].objects # <<>>}
Busy == {w \in Going : parse[w].pairs # <<>>}
Inside == {w \in Busy : parse[w].stack # <<>>}

\* The innermost calls go on: a parse that reads again what others have kept is not left
\* behind by them.
Innermost == {w \in Inside : \A u \in Inside : Len(parse[u].stack) <= Len(parse[w].stack)}

\* These parses do the same piece of work.
Advance(from, to, who, Work(_)) ==
    /\ phase = from
    /\ phase' = to
    /\ parse' = [w \in World |-> IF w \in who THEN Work(parse[w]) ELSE parse[w]]
    /\ UNCHANGED <<data, calls, acts, answers>>

DecodeHeader == Advance("header", "metadata", Going, ReadHeader)
DecodeMetadata == Advance("metadata", "providers", Going, ReadObjects)
DecodeProvider == Reading # {} /\ Advance("providers", "providers", Reading, ReadProvider)
DecodeKeyTable == Reading = {} /\ Advance("providers", "entries", Going, HandOver)
BeginEntry ==
    Inside = {} /\ Busy # {} /\ Advance("entries", "entries", Busy, StartEntry)
DecodeLocation == Inside # {} /\ Advance("entries", "entries", Innermost, Step)
Finish == Busy = {} /\ Advance("entries", "done", {}, Step)

-----------------------------------------------------------------------------
(* What custom decoders and other callers do with a reader *)

\* What a custom decoder has to keep: an object of its own, a list of one word, or None.
Offered(x) ==
    CASE x[1] = "object" -> Value("custom", <<x[2]>>)
      [] x[1] = "list"   -> Value("array", <<x[3]>>)
      [] x[1] = "none"   -> None

\* read_custom; `foreign` is where it has kept something (history).  The entries of `cache`
\* are those that are not None: no reader, in Python or Rust, takes None for an entry.
ReadCustom(s, o, v) ==
    IF Cached(s, o) \/ v = None THEN s
    ELSE [Remember(s, o, v) EXCEPT !.foreign = @ \cup {o}]

\* A custom decoder moves the cursor and writes to the stream, or it keeps something under
\* an offset.
CallbackActs ==
    /\ phase = "entries"
    /\ \E x \in acts :
         /\ parse' = [w \in World |->
                IF w \notin WithRegistry \cap Going THEN parse[w]
                ELSE IF x[1] # "stream" THEN ReadCustom(parse[w], x[2], Offered(x))
                ELSE [parse[w] EXCEPT !.cursor = x[2] + 1, !.written = [p \in {x[2]} |-> x[3]]]]
         /\ acts' = {}
    /\ UNCHANGED <<data, phase, calls, answers>>

Perform(op, r, n, p) ==
    CASE op = "read"  -> ReadAfterSeek(r, n, p)
      [] op = "from"  -> ReadStructFrom(r, n, p)
      [] op = "at"    -> ReadStructAt(r, n, p)
      [] op = "bytes" -> ReadBytesAt(r, n, p)

\* One call on each reader; an exception is the caller's to handle.  No struct
\* is empty, a count of bytes may be anything.
CallReader(op, n, p) ==
    /\ phase = "metadata" /\ calls > 0
    /\ op \in {"from", "at"} => n > 0
    /\ LET after == [w \in World |-> Perform(op, [parse[w] EXCEPT !.out = "ok"], n, p)]
       IN  /\ parse' = [w \in World |-> [parse[w] EXCEPT !.cursor = after[w].cursor]]
           /\ answers' = [op |-> op, n |-> n, p |-> p,
                          of |-> [w \in World |-> <<after[w].out, after[w].val>>]]
    /\ calls' = calls - 1
    /\ UNCHANGED <<data, phase, acts>>

Next ==
    \/ DecodeHeader \/ DecodeMetadata \/ DecodeProvider \/ DecodeKeyTable
    \/ BeginEntry \/ DecodeLocation \/ Finish
    \/ CallbackActs
    \/ \E op \in {"read", "from", "at", "bytes"}, n \in Counts, p \in Positions :
         CallReader(op, n, p)

Spec == Init /\ [][Next]_vars

-----------------------------------------------------------------------------
(* Properties *)

Outcome == {"ok", "read", "version", "unsupported", "value", "type", "attribute", "text", "endless"}

TypeOK ==
    /\ phase \in {"header", "metadata", "providers", "entries", "done"}
    /\ calls \in Nat
    /\ \A w \in World :
         /\ parse[w].out \in Outcome
         /\ parse[w].cursor \in 0..NULL
         /\ parse[w].out = "ok" /\ phase # "header" => Len(parse[w].header) = 6
         /\ Len(parse[w].pairs) % 2 = 0

\* What a parse amounts to: its error, or the metadata and the table; and the objects
\* it constructed, with the objects they refer to.
Result(s) ==
    <<s.out, s.version, s.header, s.objects, s.providers, s.pairs, s.table, s.made>>

\* No two records of different kinds begin at the same offset, and no list a custom decoder
\* has kept is taken for the one of the catalog.
Separate ==
    \A w \in {"buffer", "bridge"} : \A u, v \in parse[w].uses : u[2] = v[2] => u[1] = v[1]

\* No custom decoder has changed anything.
Undisturbed == \A w \in World : parse[w].written = Empty /\ parse[w].foreign = {}

\* The names of every location that was asked for can be read.
NamesRead(s) ==
    \A o \in 0..Len(data) - 7 :
        <<"location", o>> \in s.uses => \A i \in 1..3 : data[o + i] \notin Unreadable

\* Python has stopped at the names of a location, which Rust reads only after the
\* dependencies: Rust may find another error below it, but never accepts the catalog, and
\* no entry of the table is added.
StoppedAtNames(s, t) ==
    /\ s.out = "text" /\ ~s.native /\ t.native /\ ~NamesRead(s)
    /\ t.table = s.table
    /\ phase = "done" => t.out # "ok"

Agree(s, t) == Result(t) = Result(s) \/ StoppedAtNames(s, t)

\* On such a catalog no cache can be told from its absence, a stream reader from one with
\* a buffer, Rust from Python but for the names of locations, nor Rust from Rust; and no
\* object is constructed twice.
BackendsAgree ==
    Separate /\ Undisturbed =>
        /\ \A w \in World : Agree(parse["buffer"], parse[w])
        /\ \A w \in {"private", "fast"} : Result(parse[w]) = Result(parse["bridge"])
        /\ \A w \in World \ {"plain"} : parse[w].again = {}

\* "Scalar reads preserve stream contents and cursor position, including callback
\* writes": after a custom decoder has written to the stream or kept something, too, the
\* same value is decoded by whichever side, and the next decoder finds the cursor at the
\* same place.
CallbacksAgree ==
    Separate =>
        /\ \A w \in WithRegistry : Agree(parse["buffer"], parse[w])
        /\ Result(parse["fast"]) = Result(parse["bridge"])
        /\ \A v, w \in WithRegistry :
             parse[v].out = "ok" /\ parse[w].out = "ok" => parse[v].cursor = parse[w].cursor

\* A read succeeds on a stream reader where it does on one with a buffer, with the same
\* bytes; only reading no bytes beyond the end is left to the stream.
ReadersAgree ==
    answers.op # "none" /\ ~(answers.op = "bytes" /\ answers.n = 0 /\ answers.p > Len(data)) =>
        answers.of["buffer"] = answers.of["stream"]

\* read_struct_at and read_bytes_at do not move the cursor, not even when they fail.
AbsoluteReadsKeepCursor ==
    [][calls' < calls /\ answers'.op \in {"at", "bytes"} =>
          \A w \in World : parse'[w].cursor = parse[w].cursor]_vars

\* models.py:161: "resources: dict[object, list[ResourceLocation]]".
TableHoldsLocations ==
    \A w \in World : \A i \in DOMAIN parse[w].table :
        \A v \in ToSet(parse[w].table[i][2]) : v.is = "location"
=============================================================================
