----------------------------- MODULE JsonPython -----------------------------
(***************************************************************************)
(* _decode_json_resources of catalog.py: the reference decoding of the     *)
(* tables.  A bucket keeps the tuple of its entries.                       *)
(***************************************************************************)
EXTENDS JsonTables, Functions, FiniteSetsExt

Bucket == [offset : Int, entries : Seq(Int)]

Start ==
    /\ At("start")
    /\ IF catalog.words = <<>> \/ catalog.words[1] < 0
       THEN Fail("catalog")
       ELSE /\ pc' = "buckets"
            /\ cursor' = 2
            /\ UNCHANGED <<catalog, buckets, keys, locations, mapped, resources, outcome>>

\* The words of the bucket at the cursor are there, its offset and count not negative.
Readable ==
    LET words == catalog.words
    IN  /\ cursor + 1 <= Len(words)
        /\ words[cursor] >= 0
        /\ words[cursor + 1] >= 0
        /\ cursor + 1 + words[cursor + 1] <= Len(words)

\* Seeded fault: the cursor moves over the header only.
ReadBucket_HeaderOnly ==
    /\ At("buckets") /\ Len(buckets) < catalog.words[1]
    /\ IF ~Readable THEN Fail("catalog")
       ELSE LET count == catalog.words[cursor + 1]
            IN  /\ buckets' = Append(buckets,
                      [offset |-> catalog.words[cursor],
                       entries |-> SubSeq(catalog.words, cursor + 2, cursor + 1 + count)])
                /\ cursor' = cursor + 2
                /\ UNCHANGED <<catalog, pc, keys, locations, mapped, resources, outcome>>

ReadBucket ==
    /\ At("buckets") /\ Len(buckets) < catalog.words[1]
    /\ IF ~Readable THEN Fail("catalog")
       ELSE LET count == catalog.words[cursor + 1]
            IN  /\ buckets' = Append(buckets,
                      [offset |-> catalog.words[cursor],
                       entries |-> SubSeq(catalog.words, cursor + 2, cursor + 1 + count)])
                /\ cursor' = cursor + 2 + count
                /\ UNCHANGED <<catalog, pc, keys, locations, mapped, resources, outcome>>

KeyCount ==
    /\ At("buckets") /\ Len(buckets) = catalog.words[1]
    /\ IF catalog.keyHeader = <<>> THEN Fail("read")
       ELSE IF catalog.keyHeader[1] # Len(buckets) THEN Fail("catalog")
       ELSE /\ pc' = "keys"
            /\ UNCHANGED <<catalog, cursor, buckets, keys, locations, mapped, resources, outcome>>

\* Seeded fault: the end of a string is not checked, slicing takes what there is.
KeyOutcome_Slices(offset) ==
    IF offset >= Len(catalog.keyRecords) THEN "catalog"
    ELSE LET record == catalog.keyRecords[offset + 1]
         IN  IF record = "bad kind" THEN "catalog"
             ELSE IF record = "cut object" THEN "read"
             ELSE "running"

\* A string is read from the bytes, anything else by decode_v1 through the reader.
KeyOutcome(offset) ==
    IF offset >= Len(catalog.keyRecords) THEN "catalog"
    ELSE LET record == catalog.keyRecords[offset + 1]
         IN  IF record \in {"cut string", "bad kind"} THEN "catalog"
             ELSE IF record = "cut object" THEN "read"
             ELSE "running"

ReadKey ==
    /\ At("keys") /\ Len(keys) < Len(buckets)
    /\ LET offset == buckets[Len(keys) + 1].offset
       IN  IF KeyOutcome(offset) # "running" THEN Fail(KeyOutcome(offset))
           ELSE /\ keys' = Append(keys, catalog.keyRecords[offset + 1])
                /\ UNCHANGED <<catalog, pc, cursor, buckets, locations, mapped, resources, outcome>>

EntryCount ==
    /\ At("keys") /\ Len(keys) = Len(buckets)
    /\ IF \/ catalog.entryHeader = <<>>
          \/ catalog.entryHeader[1] < 0
          \/ catalog.entryHeader[1] > Len(catalog.entries)
       THEN Fail("catalog")
       ELSE /\ pc' = "locations"
            /\ UNCHANGED <<catalog, cursor, buckets, keys, locations, mapped, resources, outcome>>

\* Seeded fault: a negative provider index takes the last provider.
FastTest_Negative(r) ==
    /\ InRange(r.internal, catalog.internals)
    /\ r.provider < catalog.providers
    /\ r.dependency < Len(keys)
    /\ InRange(r.primary, Len(PrimaryKeys))
    /\ InRange(r.type, catalog.types)

\* All indexes of a record at once; a negative dependency means there is none.
FastTest(r) ==
    /\ InRange(r.internal, catalog.internals)
    /\ InRange(r.provider, catalog.providers)
    /\ r.dependency < Len(keys)
    /\ InRange(r.primary, Len(PrimaryKeys))
    /\ InRange(r.type, catalog.types)

\* The slow path asks for them one by one, to name the one that is wrong.
SlowPath(r) ==
    FirstBad(<<<<"internal ID", r.internal, catalog.internals>>,
               <<"provider ID", r.provider, catalog.providers>>>>
             \o (IF r.dependency >= 0
                 THEN <<<<"dependency key", r.dependency, Len(keys)>>>> ELSE <<>>)
             \o <<<<"primary key", r.primary, Len(PrimaryKeys)>>,
                  <<"resource type", r.type, catalog.types>>>>)

DataOutcome(r) ==
    IF r.data < 0 THEN "running"
    ELSE IF r.data >= Len(catalog.extra) THEN "read"
    ELSE CASE catalog.extra[r.data + 1] = "cut object" -> "read"
           [] catalog.extra[r.data + 1] = "bad kind"   -> "catalog"
           [] OTHER                                    -> "running"

ReadLocation ==
    /\ At("locations") /\ Len(locations) < catalog.entryHeader[1]
    /\ LET r == catalog.entries[Len(locations) + 1]
           error == IF ~FastTest(r) /\ SlowPath(r) # "running" THEN SlowPath(r)
                    ELSE DataOutcome(r)
       IN  IF error # "running" THEN Fail(error)
           ELSE /\ locations' = Append(locations, Location(r))
                /\ UNCHANGED <<catalog, pc, cursor, buckets, keys, mapped, resources, outcome>>

\* One entry is tested by itself, several by their least and greatest.
EntriesOutcome(entries) ==
    IF Len(entries) = 1 THEN FirstBad(EntryChecks(entries))
    ELSE IF /\ entries # <<>>
            /\ Min(Range(entries)) < 0 \/ Max(Range(entries)) >= Len(locations)
    THEN FirstBad(EntryChecks(entries))
    ELSE "running"

MapBucket ==
    /\ At("locations") /\ Len(locations) = catalog.entryHeader[1]
    /\ mapped < Len(buckets)
    /\ LET key == keys[mapped + 1]
           entries == buckets[mapped + 1].entries
       IN  IF EntriesOutcome(entries) # "running" THEN Fail(EntriesOutcome(entries))
           ELSE IF key = "options" THEN Fail("catalog")
           ELSE /\ Assign(key, entries)
                /\ mapped' = mapped + 1
                /\ UNCHANGED <<catalog, pc, cursor, buckets, keys, locations, outcome>>

Finish ==
    /\ At("locations") /\ Len(locations) = catalog.entryHeader[1]
    /\ mapped = Len(buckets)
    /\ outcome' = "done"
    /\ UNCHANGED <<catalog, progress>>

Next ==
    \/ Start \/ ReadBucket \/ KeyCount \/ ReadKey \/ EntryCount
    \/ ReadLocation \/ MapBucket \/ Finish
=============================================================================
