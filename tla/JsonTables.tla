----------------------------- MODULE JsonTables -----------------------------
(***************************************************************************)
(* The embedded tables of a JSON catalog, as both decoders read them, and  *)
(* the state a decoder keeps while it does.  Four tables are decoded one   *)
(* after the other: the buckets (a key offset and a list of location       *)
(* indexes each), the keys at those offsets, the location records, and the *)
(* resource map that joins them.                                           *)
(*                                                                         *)
(* The bucket table is a sequence of 32-bit words, so that it can be cut   *)
(* off anywhere.  A key or an extra object is abstracted to whether it can *)
(* be read, and how it fails.  Offsets and indexes count from 0.           *)
(***************************************************************************)
EXTENDS Integers, Sequences

CONSTANTS
    Key,        \* values of the keys
    Catalogs    \* the catalogs considered

\* "options" is an AssetBundleRequestOptions, which cannot be a dictionary key; the
\* others cannot be read.
Unusable == {"options", "cut string", "cut object", "bad kind"}

KeyRecord == Key \cup Unusable

ASSUME KeyAssumption == Key \cap Unusable = {}

ExtraRecord == {"value", "cut object", "bad kind"}

Entry == [internal : Int, provider : Int, dependency : Int, data : Int,
          primary : Int, type : Int]

\* The count a table begins with, or nothing when the table ends before it.
Header == {h \in Seq(Int) : Len(h) <= 1}

Catalog == [words : Seq(Int),
            keyHeader : Header, keyRecords : Seq(KeyRecord),
            entryHeader : Header, entries : Seq(Entry), extra : Seq(ExtraRecord),
            internals : Nat, providers : Nat, types : Nat,
            override : BOOLEAN, display : Seq(Key)]

ASSUME CatalogsAssumption == Catalogs \subseteq Catalog

VARIABLES
    catalog,    \* the tables; the lists of m_InternalIds etc. by their length
    pc,         \* which loop the decoder is in
    cursor,     \* position in the bucket table
    buckets, keys, locations,
    mapped,     \* buckets already in the resource map
    resources,
    outcome     \* "running", "done", "panic", or the error raised

progress == <<pc, cursor, buckets, keys, locations, mapped, resources>>
vars == <<catalog, progress, outcome>>

Init ==
    /\ catalog \in Catalogs
    /\ pc = "start"
    /\ cursor = 1
    /\ buckets = <<>> /\ keys = <<>> /\ locations = <<>>
    /\ mapped = 0
    /\ resources = [k \in {} |-> k]
    /\ outcome = "running"

At(loop) == outcome = "running" /\ pc = loop

\* "read" is BinaryReadError, "catalog" any other CatalogParseError; one for an index
\* out of range is known by the name of the index in its message.
IndexError ==
    {"internal ID", "provider ID", "dependency key", "primary key", "resource type",
     "bucket resource location"}

Fail(error) ==
    /\ outcome' = error
    /\ UNCHANGED <<catalog, progress>>

InRange(index, count) == 0 <= index /\ index < count

\* The first of a list of <<name, index, count>> whose index is out of range.
FirstBad(checks) ==
    LET bad == {i \in DOMAIN checks : ~InRange(checks[i][2], checks[i][3])}
    IN  IF bad = {} THEN "running"
        ELSE checks[CHOOSE i \in bad : \A j \in bad : i <= j][1]

EntryChecks(entries) ==
    [i \in DOMAIN entries |-> <<"bucket resource location", entries[i], Len(locations)>>]

\* m_Keys replaces the decoded keys as primary keys when the catalog has it.
PrimaryKeys == IF catalog.override THEN catalog.display ELSE keys

Location(r) ==
    [internal |-> r.internal, provider |-> r.provider, type |-> r.type,
     dependency |-> IF r.dependency < 0 THEN <<>> ELSE <<keys[r.dependency + 1]>>,
     data |-> IF r.data < 0 THEN <<>> ELSE <<catalog.extra[r.data + 1]>>,
     primary |-> PrimaryKeys[r.primary + 1]]

\* An equal key that came before is replaced.
Assign(key, entries) ==
    resources' = [k \in DOMAIN resources \cup {key} |->
                    IF k = key THEN [i \in DOMAIN entries |-> locations[entries[i] + 1]]
                    ELSE resources[k]]
=============================================================================
