---------------------------- MODULE JsonBackends ----------------------------
(***************************************************************************)
(* The same JSON catalog decoded by both backends, one after the other:    *)
(* what parse_json(data, backend="python") gives is kept, then             *)
(* parse_json(data, backend="rust") begins anew.                           *)
(***************************************************************************)
EXTENDS JsonTables

VARIABLES
    parser,      \* the backend at work
    reference    \* what the Python backend gave

Python == INSTANCE JsonPython
Rust == INSTANCE JsonRust

BothInit ==
    /\ Init
    /\ parser = "python"
    /\ reference = [outcome |-> "running", resources |-> resources]

Ended == outcome # "running"

\* What the caller gets: the resource map, or an error.
Given == [outcome |-> outcome,
          resources |-> IF outcome = "done" THEN resources ELSE [k \in {} |-> k]]

PythonStep ==
    /\ parser = "python"
    /\ Python!Next
    /\ UNCHANGED <<parser, reference>>

StartRust ==
    /\ parser = "python" /\ Ended
    /\ parser' = "rust"
    /\ reference' = Given
    /\ pc' = "start"
    /\ cursor' = 1
    /\ buckets' = <<>> /\ keys' = <<>> /\ locations' = <<>>
    /\ mapped' = 0
    /\ resources' = [k \in {} |-> k]
    /\ outcome' = "running"
    /\ UNCHANGED catalog

RustStep ==
    /\ parser = "rust"
    /\ Rust!Next
    /\ UNCHANGED <<parser, reference>>

BothNext == PythonStep \/ StartRust \/ RustStep

Spec == BothInit /\ [][BothNext]_<<vars, parser, reference>>

-----------------------------------------------------------------------------
(* Which catalogs are well formed, read off the tables without a cursor. *)

\* The last word of the table header and of each bucket, in every way they can be cut
\* so that each bucket is as long as its count says: one way, or none.
Cuts ==
    LET words == catalog.words
    IN  IF words = <<>> \/ words[1] \notin 0..Len(words) THEN {}
        ELSE {last \in [0..words[1] -> 1..Len(words)] :
                /\ last[0] = 1
                /\ \A b \in 1..words[1] :
                     /\ last[b - 1] + 2 <= last[b]
                     /\ words[last[b - 1] + 1] >= 0
                     /\ words[last[b - 1] + 2] = last[b] - last[b - 1] - 2}

KeyOf(last, b) ==
    LET offset == catalog.words[last[b - 1] + 1]
    IN  IF offset < Len(catalog.keyRecords) THEN catalog.keyRecords[offset + 1] ELSE "bad kind"

EntriesOf(last, b) == SubSeq(catalog.words, last[b - 1] + 3, last[b])

EntryWellFormed(r, bucketCount) ==
    /\ r.internal \in 0..catalog.internals - 1
    /\ r.provider \in 0..catalog.providers - 1
    /\ r.type \in 0..catalog.types - 1
    /\ r.dependency < bucketCount
    /\ r.primary \in 0..(IF catalog.override THEN Len(catalog.display) ELSE bucketCount) - 1
    /\ r.data >= 0 =>
          r.data < Len(catalog.extra) /\ catalog.extra[r.data + 1] = "value"

WellFormed(last) ==
    LET bucketCount == catalog.words[1]
    IN  /\ catalog.keyHeader = <<bucketCount>>
        /\ catalog.entryHeader # <<>>
        /\ catalog.entryHeader[1] \in 0..Len(catalog.entries)
        /\ \A i \in 1..catalog.entryHeader[1] : EntryWellFormed(catalog.entries[i], bucketCount)
        /\ \A b \in 1..bucketCount :
              /\ KeyOf(last, b) \in Key
              /\ \A e \in 1..Len(EntriesOf(last, b)) :
                    EntriesOf(last, b)[e] \in 0..catalog.entryHeader[1] - 1

\* The last bucket with a key has its say.
Table(last) ==
    [k \in {KeyOf(last, b) : b \in 1..catalog.words[1]} |->
        LET b == CHOOSE b \in 1..catalog.words[1] :
                    /\ KeyOf(last, b) = k
                    /\ \A c \in b + 1..catalog.words[1] : KeyOf(last, c) # k
        IN  [i \in 1..Len(EntriesOf(last, b)) |->
                locations[EntriesOf(last, b)[i] + 1]]]

-----------------------------------------------------------------------------
(* Properties *)

TypeOK ==
    /\ pc \in {"start", "buckets", "keys", "locations"}
    /\ cursor \in 1..Len(catalog.words) + 1
    /\ IF parser = "python" THEN buckets \in Seq(Python!Bucket) ELSE buckets \in Seq(Rust!Bucket)
    /\ keys \in Seq(Key \cup {"options"})
    /\ mapped \in 0..Len(buckets)
    /\ DOMAIN resources \subseteq Key
    /\ outcome \in {"running", "done", "panic", "read", "catalog"} \cup IndexError

\* "assert results[0] == results[1]" in tests/test_native_json.py: on the same catalog,
\* however it is damaged, both backends give the same resource map or the same kind of
\* error, naming the same index when one is out of range, although they check the
\* indexes of a record in different ways and at different times.
BackendsAgree == parser = "rust" /\ Ended => Given = reference

\* json.rs indexes `locations` without a check of its own when it builds the map; it
\* never does so with an index that is out of range.
NoPanic == outcome # "panic"

\* A catalog is refused exactly when its tables are not well formed, and the map of an
\* accepted one has, for every key, the locations of the last bucket with that key:
\* no cursor, in either backend, ever leaves the bucket it should be in.
DecodesTheTables ==
    Ended =>
        LET good == {last \in Cuts : WellFormed(last)}
        IN  IF outcome = "done"
            THEN \E last \in good : resources = Table(last)
            ELSE good = {}
=============================================================================
