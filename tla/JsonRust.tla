------------------------------ MODULE JsonRust ------------------------------
(***************************************************************************)
(* Parser::resources of native/src/json.rs: the same tables decoded in     *)
(* Rust.  A bucket keeps the range of its entries in the bucket table and  *)
(* reads them again when the resource map is built; an index that was not  *)
(* checked would be a panic there.                                         *)
(***************************************************************************)
EXTENDS JsonTables

Bucket == [key : Nat, from : Nat, to : Nat]

\* A count that the table cannot hold is refused before memory is reserved for it.
Start ==
    /\ At("start")
    /\ IF \/ catalog.words = <<>>
          \/ catalog.words[1] < 0
          \/ catalog.words[1] > (Len(catalog.words) - 1) \div 2
       THEN Fail("catalog")
       ELSE /\ pc' = "buckets"
            /\ cursor' = 2
            /\ UNCHANGED <<catalog, buckets, keys, locations, mapped, resources, outcome>>

\* `bytes(offset, count)`, in words.
Has(offset, count) == offset + count - 1 <= Len(catalog.words)

ReadBucket ==
    /\ At("buckets") /\ Len(buckets) < catalog.words[1]
    /\ LET header == cursor
           from == cursor + 2
       IN  IF \/ ~Has(header, 2)
              \/ catalog.words[header] < 0
              \/ catalog.words[header + 1] < 0
              \/ ~Has(from, catalog.words[header + 1])
           THEN Fail("catalog")
           ELSE LET to == from + catalog.words[header + 1]
                IN  /\ buckets' = Append(buckets,
                          [key |-> catalog.words[header], from |-> from, to |-> to])
                    /\ cursor' = to
                    /\ UNCHANGED <<catalog, pc, keys, locations, mapped, resources, outcome>>

KeyCount ==
    /\ At("buckets") /\ Len(buckets) = catalog.words[1]
    /\ IF catalog.keyHeader = <<>> THEN Fail("read")
       ELSE IF catalog.keyHeader[1] < 0 \/ catalog.keyHeader[1] # catalog.words[1]
       THEN Fail("catalog")
       ELSE /\ pc' = "keys"
            /\ UNCHANGED <<catalog, cursor, buckets, keys, locations, mapped, resources, outcome>>

\* The kind and a string are read by `bytes`, another object by `read_bytes`; what
\* ObjectType says of an unknown kind is raised as it is.
KeyOutcome(offset) ==
    IF offset >= Len(catalog.keyRecords) THEN "catalog"
    ELSE CASE catalog.keyRecords[offset + 1] = "cut string" -> "catalog"
           [] catalog.keyRecords[offset + 1] = "cut object" -> "read"
           [] catalog.keyRecords[offset + 1] = "bad kind"   -> "catalog"
           [] OTHER                                         -> "running"

ReadKey ==
    /\ At("keys") /\ Len(keys) < Len(buckets)
    /\ LET offset == buckets[Len(keys) + 1].key
       IN  IF KeyOutcome(offset) # "running" THEN Fail(KeyOutcome(offset))
           ELSE /\ keys' = Append(keys, catalog.keyRecords[offset + 1])
                /\ UNCHANGED <<catalog, pc, cursor, buckets, locations, mapped, resources, outcome>>

EntryCount ==
    /\ At("keys") /\ Len(keys) = Len(buckets)
    /\ IF \/ catalog.entryHeader = <<>>
          \/ catalog.entryHeader[1] < 0
          \/ catalog.entryHeader[1] > Len(catalog.entries)
       THEN Fail("catalog")
       ELSE /\ pc' = "locations"
            /\ UNCHANGED <<catalog, cursor, buckets, keys, locations, mapped, resources, outcome>>

\* Every index is checked where it is used, in the order of use.
IndexOutcome(r) ==
    FirstBad(<<<<"internal ID", r.internal, catalog.internals>>,
               <<"provider ID", r.provider, catalog.providers>>>>
             \o (IF r.dependency < 0
                 THEN <<>> ELSE <<<<"dependency key", r.dependency, Len(keys)>>>>)
             \o <<<<"primary key", r.primary, Len(PrimaryKeys)>>,
                  <<"resource type", r.type, catalog.types>>>>)

\* `object`: everything of an extra object is read by `read_bytes`.
ObjectOutcome(offset) ==
    IF offset >= Len(catalog.extra) THEN "read"
    ELSE CASE catalog.extra[offset + 1] = "cut object" -> "read"
           [] catalog.extra[offset + 1] = "bad kind"   -> "catalog"
           [] OTHER                                    -> "running"

ReadLocation ==
    /\ At("locations") /\ Len(locations) < catalog.entryHeader[1]
    /\ LET r == catalog.entries[Len(locations) + 1]
           error == IF IndexOutcome(r) # "running" THEN IndexOutcome(r)
                    ELSE IF r.data < 0 THEN "running" ELSE ObjectOutcome(r.data)
       IN  IF error # "running" THEN Fail(error)
           ELSE /\ locations' = Append(locations, Location(r))
                /\ UNCHANGED <<catalog, pc, cursor, buckets, keys, mapped, resources, outcome>>

\* Seeded fault: only the first entry of a bucket is checked.
EntriesOutcome_FirstOnly(entries) ==
    IF entries = <<>> THEN "running"
    ELSE IF FirstBad(EntryChecks(<<entries[1]>>)) # "running"
    THEN FirstBad(EntryChecks(<<entries[1]>>))
    ELSE IF \E i \in DOMAIN entries : ~InRange(entries[i], Len(locations)) THEN "panic"
    ELSE "running"

\* All entries are checked before `locations[..]` is indexed with any of them.
EntriesOutcome(entries) ==
    IF FirstBad(EntryChecks(entries)) # "running" THEN FirstBad(EntryChecks(entries))
    ELSE IF \E i \in DOMAIN entries : ~InRange(entries[i], Len(locations)) THEN "panic"
    ELSE "running"

MapBucket ==
    /\ At("locations") /\ Len(locations) = catalog.entryHeader[1]
    /\ mapped < Len(buckets)
    /\ LET key == keys[mapped + 1]
           bucket == buckets[mapped + 1]
           entries == SubSeq(catalog.words, bucket.from, bucket.to - 1)
       IN  IF EntriesOutcome(entries) # "running" THEN Fail(EntriesOutcome(entries))
           ELSE IF key = "options" THEN Fail("catalog")
           ELSE /\ Assign(key, entries)
                /\ mapped' = mapped + 1
                /\ UNCHANGED <<catalog, pc, cursor, buckets, keys, locations, outcome>>

Finish ==
    /\ At("locations") /\ Len(locations) = catalog.entryHeader[1]
    /\ mapped = Len(buckets)
    /\ outcome' = "done"
    /\ UNCHANGED <<catalog, progress>>

Next ==
    \/ Start \/ ReadBucket \/ KeyCount \/ ReadKey \/ EntryCount
    \/ ReadLocation \/ MapBucket \/ Finish
=============================================================================
