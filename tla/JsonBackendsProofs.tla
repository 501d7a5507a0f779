------------------------- MODULE JsonBackendsProofs -------------------------
(***************************************************************************)
(* Proofs about the JSON decoders, for every catalog: tables of any length *)
(* with any word, index and record in them.                                *)
(*                                                                         *)
(* What a catalog deserves is read off its tables, without a cursor and    *)
(* without an order of steps (Verdict); each decoder is shown to end with  *)
(* it, and a catalog has only one.                                         *)
(***************************************************************************)
EXTENDS JsonBackends, SequenceTheorems, WellFoundedInduction, TLAPS

-----------------------------------------------------------------------------
(* What a catalog deserves *)

\* The first n buckets, cut as their counts say.
IsCut(last, n) ==
    /\ last \in [0..n -> 1..Len(catalog.words)]
    /\ last[0] = 1
    /\ \A b \in 1..n :
         /\ last[b - 1] + 2 <= last[b]
         /\ catalog.words[last[b - 1] + 1] >= 0
         /\ catalog.words[last[b - 1] + 2] = last[b] - last[b - 1] - 2

OffsetOf(last, b) == catalog.words[last[b - 1] + 1]

\* What reading the key at an offset comes to.
KeyError(offset) ==
    IF offset >= Len(catalog.keyRecords) THEN "catalog"
    ELSE IF catalog.keyRecords[offset + 1] \in {"cut string", "bad kind"} THEN "catalog"
    ELSE IF catalog.keyRecords[offset + 1] = "cut object" THEN "read"
    ELSE "running"

DataError(r) ==
    IF r.data < 0 THEN "running"
    ELSE IF r.data >= Len(catalog.extra) THEN "read"
    ELSE IF catalog.extra[r.data + 1] = "cut object" THEN "read"
    ELSE IF catalog.extra[r.data + 1] = "bad kind" THEN "catalog"
    ELSE "running"

\* What a location record comes to when keyCount keys have been read.
EntryError(r, keyCount) ==
    IF ~InRange(r.internal, catalog.internals) THEN "internal ID"
    ELSE IF ~InRange(r.provider, catalog.providers) THEN "provider ID"
    ELSE IF r.dependency >= keyCount THEN "dependency key"
    ELSE IF ~InRange(r.primary, IF catalog.override THEN Len(catalog.display) ELSE keyCount)
    THEN "primary key"
    ELSE IF ~InRange(r.type, catalog.types) THEN "resource type"
    ELSE DataError(r)

\* What a bucket comes to when there are locationCount locations.
BucketError(key, entries, locationCount) ==
    IF \E i \in DOMAIN entries : ~InRange(entries[i], locationCount)
    THEN "bucket resource location"
    ELSE IF key = "options" THEN "catalog"
    ELSE "running"

\* The error of the first record, of those from 1 to n, that has one.
FirstError(error, n, e) ==
    \E b \in 1..n : /\ error[b] = e /\ e # "running"
                    /\ \A c \in 1..b - 1 : error[c] = "running"

Sound(error, n) == \A b \in 1..n : error[b] = "running"

KeyErrors(last) == [b \in 1..catalog.words[1] |-> KeyError(OffsetOf(last, b))]

EntryErrors ==
    [i \in 1..Len(catalog.entries) |-> EntryError(catalog.entries[i], catalog.words[1])]

BucketErrors(last) ==
    [b \in 1..catalog.words[1] |->
        BucketError(KeyOf(last, b), EntriesOf(last, b), catalog.entryHeader[1])]

HeaderSound ==
    /\ catalog.entryHeader # <<>>
    /\ catalog.entryHeader[1] \in 0..Len(catalog.entries)

\* How the decoding of a catalog with this cut has to end.
CutVerdict(last, e) ==
    IF catalog.keyHeader = <<>> THEN e = "read"
    ELSE IF catalog.keyHeader[1] # catalog.words[1] THEN e = "catalog"
    ELSE IF ~Sound(KeyErrors(last), catalog.words[1])
    THEN FirstError(KeyErrors(last), catalog.words[1], e)
    ELSE IF ~HeaderSound THEN e = "catalog"
    ELSE IF ~Sound(EntryErrors, catalog.entryHeader[1])
    THEN FirstError(EntryErrors, catalog.entryHeader[1], e)
    ELSE IF ~Sound(BucketErrors(last), catalog.words[1])
    THEN FirstError(BucketErrors(last), catalog.words[1], e)
    ELSE e = "done"

Verdict(e) ==
    IF Cuts = {} THEN e = "catalog" ELSE \E last \in Cuts : CutVerdict(last, e)

\* The location of record i, of a catalog with this cut.
LocationOf(last, i) ==
    LET r == catalog.entries[i]
    IN  [internal |-> r.internal, provider |-> r.provider, type |-> r.type,
         dependency |-> IF r.dependency < 0 THEN <<>> ELSE <<KeyOf(last, r.dependency + 1)>>,
         data |-> IF r.data < 0 THEN <<>> ELSE <<catalog.extra[r.data + 1]>>,
         primary |-> IF catalog.override THEN catalog.display[r.primary + 1]
                     ELSE KeyOf(last, r.primary + 1)]

\* No bucket behind b, up to n, has its key.
LastOfKey(last, b, n) == \A c \in b + 1..n : KeyOf(last, c) # KeyOf(last, b)

\* The map of the first n buckets.
MapUpTo(last, n, map) ==
    /\ map = [k \in {KeyOf(last, b) : b \in 1..n} |-> map[k]]
    /\ \A b \in 1..n :
         LastOfKey(last, b, n) =>
            map[KeyOf(last, b)] =
                [i \in 1..Len(EntriesOf(last, b)) |-> LocationOf(last, EntriesOf(last, b)[i] + 1)]

-----------------------------------------------------------------------------
(* The invariant *)

BucketOffset(b) == IF parser = "python" THEN buckets[b].offset ELSE buckets[b].key

\* Rust keeps the place of the entries, Python the entries.
BucketEntries(b) ==
    IF parser = "python" THEN buckets[b].entries
    ELSE SubSeq(catalog.words, buckets[b].from, buckets[b].to - 1)

\* The buckets read so far are those of the one way to cut the table.
BucketsInv ==
    IF pc = "start" THEN buckets = <<>> /\ cursor = 1
    ELSE /\ catalog.words # <<>>
         /\ catalog.words[1] >= 0
         /\ Len(buckets) <= catalog.words[1]
         /\ \E last : /\ IsCut(last, Len(buckets))
                      /\ last[Len(buckets)] = cursor - 1
                      /\ \A b \in 1..Len(buckets) :
                            /\ BucketOffset(b) = OffsetOf(last, b)
                            /\ BucketEntries(b) = EntriesOf(last, b)

\* All that follows is about the whole cut.
KeysInv(last) ==
    /\ catalog.keyHeader # <<>> /\ catalog.keyHeader[1] = catalog.words[1]
    /\ Len(keys) <= Len(buckets)
    /\ Sound(KeyErrors(last), Len(keys))
    /\ \A b \in 1..Len(keys) : keys[b] = KeyOf(last, b)

LocationsInv(last) ==
    /\ Len(keys) = Len(buckets)
    /\ HeaderSound
    /\ Len(locations) <= catalog.entryHeader[1]
    /\ Sound(EntryErrors, Len(locations))
    /\ \A i \in 1..Len(locations) : locations[i] = LocationOf(last, i)
    /\ mapped > 0 => Len(locations) = catalog.entryHeader[1]
    /\ mapped <= Len(buckets)
    /\ Sound(BucketErrors(last), mapped)
    /\ MapUpTo(last, mapped, resources)

TablesInv ==
    /\ pc \in {"start", "buckets"} => keys = <<>>
    /\ pc # "locations" => locations = <<>> /\ mapped = 0 /\ resources = [k \in {} |-> k]
    /\ pc \in {"keys", "locations"} =>
          Len(buckets) = catalog.words[1] /\ \A last \in Cuts : KeysInv(last)
    /\ pc = "locations" => \A last \in Cuts : LocationsInv(last)

EndInv ==
    /\ Ended => Verdict(outcome)
    /\ outcome = "done" =>
          pc = "locations" /\ mapped = catalog.words[1]

ReferenceInv ==
    parser = "rust" =>
        /\ reference = [outcome |-> reference.outcome, resources |-> reference.resources]
        /\ reference.outcome # "running"
        /\ Verdict(reference.outcome)
        /\ IF reference.outcome = "done"
           THEN \A last \in Cuts : MapUpTo(last, catalog.words[1], reference.resources)
           ELSE reference.resources = [k \in {} |-> k]

\* What is known of the types, and more than the runs check of the locations.
LocationRecord ==
    [internal : Int, provider : Int, type : Int, dependency : Seq(Key \cup {"options"}),
     data : Seq(ExtraRecord), primary : Key \cup {"options"}]

TypedInv ==
    /\ TypeOK
    /\ catalog \in Catalog
    /\ parser \in {"python", "rust"}
    /\ locations \in Seq(LocationRecord)

JsonInv == TypedInv /\ BucketsInv /\ TablesInv /\ EndInv /\ ReferenceInv

-----------------------------------------------------------------------------
(* Lemmas about numbers and cuts *)

\* Some number of a set of natural numbers is the least.
LEMMA LeastExists ==
    ASSUME NEW T \in SUBSET Nat, T # {}
    PROVE  \E x \in T : \A y \in T : x <= y
<1>1. PICK x \in T : \A y \in T : ~(<<y, x>> \in OpToRel(<, Nat))
  BY NatLessThanWellFounded, WFMin
<1>2. \A y \in T : ~(y < x)
  BY <1>1 DEF OpToRel
<1>3. QED
  BY <1>2

\* The table of words has a length.
LEMMA WordCount ==
    ASSUME catalog \in Catalog
    PROVE  Len(catalog.words) \in Nat
  BY DEF Catalog

\* What a catalog is made of.
LEMMA CatalogTyped ==
    ASSUME catalog \in Catalog
    PROVE  /\ catalog.words \in Seq(Int) /\ Len(catalog.words) \in Nat
           /\ \A i \in 1..Len(catalog.words) : catalog.words[i] \in Int
           /\ catalog.words = <<>> <=> Len(catalog.words) = 0
           /\ Len(catalog.keyRecords) \in Nat
           /\ \A i \in 1..Len(catalog.keyRecords) : catalog.keyRecords[i] \in KeyRecord
           /\ catalog.keyHeader # <<>> =>
                 catalog.keyHeader[1] \in Int /\ catalog.keyHeader = <<catalog.keyHeader[1]>>
           /\ catalog.entryHeader # <<>> => catalog.entryHeader[1] \in Int
           /\ Len(catalog.entries) \in Nat
           /\ \A i \in 1..Len(catalog.entries) : catalog.entries[i] \in Entry
           /\ Len(catalog.extra) \in Nat
           /\ \A i \in 1..Len(catalog.extra) : catalog.extra[i] \in ExtraRecord
           /\ catalog.internals \in Nat /\ catalog.providers \in Nat /\ catalog.types \in Nat
           /\ catalog.override \in BOOLEAN
           /\ Len(catalog.display) \in Nat
           /\ \A i \in 1..Len(catalog.display) : catalog.display[i] \in Key
<1>1. /\ catalog.words \in Seq(Int) /\ catalog.keyRecords \in Seq(KeyRecord)
      /\ catalog.entries \in Seq(Entry) /\ catalog.extra \in Seq(ExtraRecord)
      /\ catalog.display \in Seq(Key)
      /\ catalog.internals \in Nat /\ catalog.providers \in Nat /\ catalog.types \in Nat
      /\ catalog.override \in BOOLEAN
  BY DEF Catalog
<1>2. /\ catalog.keyHeader \in Seq(Int) /\ Len(catalog.keyHeader) <= 1
      /\ catalog.entryHeader \in Seq(Int)
  BY DEF Catalog, Header
<1>3. ASSUME catalog.keyHeader # <<>>
      PROVE  catalog.keyHeader[1] \in Int /\ catalog.keyHeader = <<catalog.keyHeader[1]>>
  <2>1. Len(catalog.keyHeader) \in Nat /\ Len(catalog.keyHeader) # 0
    BY <1>2, <1>3
  <2>2. Len(catalog.keyHeader) = 1
    <3>1. \A k \in Nat : k # 0 /\ k <= 1 => k = 1
      OBVIOUS
    <3>2. QED
      BY ONLY <1>2, <2>1, <3>1
  <2>3. QED
    BY <1>2, <2>2
<1>4. catalog.entryHeader # <<>> => catalog.entryHeader[1] \in Int
  BY <1>2
<1>5. catalog.words = <<>> <=> Len(catalog.words) = 0
  BY <1>1
<1>6. QED
  BY <1>1, <1>2, <1>3, <1>4, <1>5

\* A bucket takes two words at least, its numbers are in the table.
LEMMA CutGrows ==
    ASSUME catalog \in Catalog, NEW n \in Nat, NEW last, IsCut(last, n)
    PROVE  /\ \A b \in 0..n : last[b] \in 1..Len(catalog.words) /\ last[b] >= 2 * b + 1
           /\ 2 * n + 1 <= Len(catalog.words)
<1>1. \A b \in 0..n : last[b] \in 1..Len(catalog.words)
  BY DEF IsCut
<1>2. ASSUME NEW T, T = {b \in 0..n : last[b] < 2 * b + 1}
      PROVE  T = {}
  <2>1. SUFFICES ASSUME T # {} PROVE FALSE
    OBVIOUS
  <2>2. PICK x \in T : \A y \in T : x <= y
    BY <1>2, <2>1, LeastExists
  <2>3. x # 0
    BY <1>2, <2>2 DEF IsCut
  <2>4. x \in 1..n /\ x - 1 \in 0..n /\ x - 1 \notin T
    BY <1>2, <2>2, <2>3
  <2>5. last[x - 1] >= 2 * (x - 1) + 1 /\ last[x - 1] + 2 <= last[x]
    BY <1>1, <1>2, <2>4, CatalogTyped DEF IsCut
  <2>6. last[x - 1] \in Int /\ last[x] \in Int /\ last[x] < 2 * x + 1 /\ x \in Int
    BY <1>1, <1>2, <2>2, <2>4, WordCount
  <2>7. QED
    BY <2>5, <2>6
<1>3. ASSUME NEW b \in 0..n PROVE last[b] >= 2 * b + 1
  <2>1. ~(last[b] < 2 * b + 1)
    BY <1>2
  <2>2. last[b] \in Int /\ b \in Int
    BY <1>1, WordCount
  <2>3. QED
    BY <2>1, <2>2
<1>4. n \in 0..n /\ last[n] <= Len(catalog.words) /\ last[n] >= 2 * n + 1
  BY <1>1, <1>3, WordCount
<1>5. QED
  BY <1>1, <1>3, <1>4, WordCount

\* The words of a bucket are in the table.
LEMMA BucketWords ==
    ASSUME catalog \in Catalog, NEW n \in Nat, NEW last, IsCut(last, n), NEW b \in 1..n
    PROVE  /\ last[b - 1] \in Nat /\ last[b] \in Nat
           /\ last[b - 1] >= 1 /\ last[b - 1] + 2 <= last[b]
           /\ last[b] <= Len(catalog.words)
           /\ catalog.words[last[b - 1] + 1] \in Nat
           /\ catalog.words[last[b - 1] + 2] \in Nat
           /\ last[b] = last[b - 1] + 2 + catalog.words[last[b - 1] + 2]
<1> DEFINE words == catalog.words
<1>1. PICK p, q, size : p = last[b - 1] /\ q = last[b] /\ size = Len(words)
  OBVIOUS
<1>2. b - 1 \in 0..n /\ b \in 0..n
  OBVIOUS
<1>3. size \in Nat /\ p \in 1..size /\ q \in 1..size
  BY <1>1, <1>2, WordCount DEF IsCut
<1>4. p + 2 <= q /\ words[p + 1] >= 0 /\ words[p + 2] = q - p - 2
  BY <1>1 DEF IsCut
<1>5. p + 1 \in 1..size /\ p + 2 \in 1..size
  BY <1>3, <1>4
<1>6. words[p + 1] \in Int /\ words[p + 2] \in Int
  BY <1>1, <1>5, CatalogTyped
<1>7. /\ words[p + 1] \in Nat /\ words[p + 2] \in Nat /\ q = p + 2 + words[p + 2]
      /\ p \in Nat /\ q \in Nat /\ p >= 1 /\ q <= size
  BY <1>3, <1>4, <1>6
<1>8. QED
  BY <1>1, <1>4, <1>7

\* There is one way to cut the table.
LEMMA OneCut ==
    ASSUME catalog \in Catalog, NEW n \in Nat, NEW k \in Nat, n <= k,
           NEW l, NEW m, IsCut(l, n), IsCut(m, k)
    PROVE  \A b \in 0..n : l[b] = m[b]
<1>1. ASSUME NEW T, T = {b \in 0..n : l[b] # m[b]}
      PROVE  T = {}
  <2>1. SUFFICES ASSUME T # {} PROVE FALSE
    OBVIOUS
  <2>2. PICK x \in T : \A y \in T : x <= y
    BY <1>1, <2>1, LeastExists
  <2>3. x # 0
    BY <1>1, <2>2 DEF IsCut
  <2>4. x \in 1..n /\ x \in 1..k /\ x - 1 \in 0..n /\ x - 1 \notin T
    BY <1>1, <2>2, <2>3
  <2>5. l[x - 1] = m[x - 1]
    BY <1>1, <2>4
  <2>6. /\ l[x] = l[x - 1] + 2 + catalog.words[l[x - 1] + 2]
        /\ m[x] = m[x - 1] + 2 + catalog.words[m[x - 1] + 2]
    BY <2>4, BucketWords
  <2>7. QED
    BY <1>1, <2>5, <2>6
<1>2. {b \in 0..n : l[b] # m[b]} = {}
  BY <1>1
<1>3. QED
  BY <1>2

\* The cuts of the whole table, and that there are not two.
LEMMA WholeCut ==
    ASSUME catalog \in Catalog
    PROVE  /\ \A l : l \in Cuts <=> /\ catalog.words # <<>> /\ catalog.words[1] \in Nat
                                    /\ IsCut(l, catalog.words[1])
           /\ \A l, m \in Cuts : l = m
<1>1. ASSUME NEW l
      PROVE  l \in Cuts <=> /\ catalog.words # <<>> /\ catalog.words[1] \in Nat
                            /\ IsCut(l, catalog.words[1])
  <2>1. CASE catalog.words = <<>> \/ catalog.words[1] \notin 0..Len(catalog.words)
    <3>1. Cuts = {}
      BY <2>1 DEF Cuts
    <3>2. ASSUME catalog.words # <<>>, catalog.words[1] \in Nat, IsCut(l, catalog.words[1])
          PROVE  FALSE
      <4>1. 2 * catalog.words[1] + 1 <= Len(catalog.words)
        BY <3>2, CutGrows
      <4>2. QED
        BY <2>1, <3>2, <4>1, CatalogTyped
    <3>3. QED
      BY <3>1, <3>2
  <2>2. CASE catalog.words # <<>> /\ catalog.words[1] \in 0..Len(catalog.words)
    BY <2>2 DEF Cuts, IsCut
  <2>3. QED
    BY <2>1, <2>2
<1>2. ASSUME NEW l \in Cuts, NEW m \in Cuts
      PROVE  l = m
  <2>1. \A b \in 0..catalog.words[1] : l[b] = m[b]
    BY <1>1, OneCut
  <2>2. l \in [0..catalog.words[1] -> 1..Len(catalog.words)]
        /\ m \in [0..catalog.words[1] -> 1..Len(catalog.words)]
    BY <1>1 DEF IsCut
  <2>3. /\ l = [b \in 0..catalog.words[1] |-> l[b]]
        /\ m = [b \in 0..catalog.words[1] |-> m[b]]
    BY <2>2, Zenon
  <2>4. QED
    BY <2>1, <2>3
<1>3. QED
  BY <1>1, <1>2

-----------------------------------------------------------------------------
(* Lemmas about what a catalog deserves *)

\* The entries of a bucket are words of the table.
LEMMA EntriesTyped ==
    ASSUME catalog \in Catalog, NEW n \in Nat, NEW last, IsCut(last, n), NEW b \in 1..n
    PROVE  /\ EntriesOf(last, b) \in Seq(Int)
           /\ Len(EntriesOf(last, b)) = last[b] - last[b - 1] - 2
           /\ Len(EntriesOf(last, b)) \in Nat
           /\ DOMAIN EntriesOf(last, b) = 1..Len(EntriesOf(last, b))
<1>1. PICK p, q : p = last[b - 1] /\ q = last[b]
  OBVIOUS
<1>2. p \in Nat /\ q \in Nat /\ p >= 1 /\ p + 2 <= q /\ q <= Len(catalog.words)
  BY <1>1, BucketWords
<1>3. catalog.words \in Seq(Int) /\ Len(catalog.words) \in Nat
  BY CatalogTyped
<1>4. EntriesOf(last, b) = SubSeq(catalog.words, p + 3, q)
  BY <1>1 DEF EntriesOf
<1>5. p + 3 \in 1..Len(catalog.words) + 1 /\ q \in (p + 3) - 1..Len(catalog.words)
  BY <1>2, <1>3
<1>6. /\ SubSeq(catalog.words, p + 3, q) \in Seq(Int)
      /\ Len(SubSeq(catalog.words, p + 3, q)) = q - p - 2
  BY <1>2, <1>3, <1>5, SubSeqProperties
<1>7. q - p - 2 \in Nat
  BY <1>2
<1>8. DOMAIN EntriesOf(last, b) = 1..Len(EntriesOf(last, b))
  BY <1>4, <1>6
<1>9. QED
  BY <1>1, <1>4, <1>6, <1>7, <1>8

\* A key that can be read is the value of its bucket.
LEMMA KeyErrorMeans ==
    ASSUME catalog \in Catalog, NEW n \in Nat, NEW last, IsCut(last, n), NEW b \in 1..n
    PROVE  /\ KeyError(OffsetOf(last, b)) \in {"running", "catalog", "read"}
           /\ KeyError(OffsetOf(last, b)) = "running" <=> KeyOf(last, b) \in Key \cup {"options"}
           /\ KeyError(OffsetOf(last, b)) = "running" =>
                 KeyOf(last, b) = catalog.keyRecords[OffsetOf(last, b) + 1]
<1>1. PICK offset : offset = OffsetOf(last, b)
  OBVIOUS
<1>2. offset \in Nat
  BY <1>1, BucketWords DEF OffsetOf
<1>3. KeyOf(last, b) = IF offset < Len(catalog.keyRecords) THEN catalog.keyRecords[offset + 1]
                       ELSE "bad kind"
  BY <1>1 DEF KeyOf, OffsetOf
<1>4. CASE offset >= Len(catalog.keyRecords)
  <2>1. ~(offset < Len(catalog.keyRecords))
    BY <1>2, <1>4, CatalogTyped
  <2>2. QED
    BY <1>1, <1>3, <1>4, <2>1, KeyAssumption DEF KeyError, Unusable
<1>5. CASE ~(offset >= Len(catalog.keyRecords))
  <2>1. offset < Len(catalog.keyRecords) /\ offset + 1 \in 1..Len(catalog.keyRecords)
    BY <1>2, <1>5, CatalogTyped
  <2>2. PICK record : record = catalog.keyRecords[offset + 1]
    OBVIOUS
  <2>3. record \in KeyRecord
    BY <2>1, <2>2, CatalogTyped
  <2>4. QED
    BY <1>1, <1>3, <1>5, <2>1, <2>2, <2>3, KeyAssumption DEF KeyError, KeyRecord, Unusable
<1>6. QED
  BY <1>4, <1>5

\* A record without an error is well formed.
LEMMA EntryErrorMeans ==
    ASSUME catalog \in Catalog, NEW r \in Entry, NEW n \in Nat
    PROVE  /\ EntryError(r, n) \in {"running", "catalog", "read"} \cup IndexError
           /\ EntryError(r, n) = "running" <=> EntryWellFormed(r, n)
<1>1. /\ r.internal \in Int /\ r.provider \in Int /\ r.dependency \in Int /\ r.data \in Int
      /\ r.primary \in Int /\ r.type \in Int
  BY DEF Entry
<1>2. DataError(r) = "running" <=>
        (r.data >= 0 => r.data < Len(catalog.extra) /\ catalog.extra[r.data + 1] = "value")
  <2>1. CASE r.data < 0
    BY <1>1, <2>1 DEF DataError
  <2>2. CASE ~(r.data < 0) /\ r.data >= Len(catalog.extra)
    BY <1>1, <2>2, CatalogTyped DEF DataError
  <2>3. CASE ~(r.data < 0) /\ ~(r.data >= Len(catalog.extra))
    <3>1. r.data >= 0 /\ r.data < Len(catalog.extra) /\ r.data + 1 \in 1..Len(catalog.extra)
      <4>1. Len(catalog.extra) \in Nat
        BY CatalogTyped
      <4>2. QED
        BY <1>1, <2>3, <4>1
    <3>2. catalog.extra[r.data + 1] \in {"value", "cut object", "bad kind"}
      BY <3>1, CatalogTyped DEF ExtraRecord
    <3>3. QED
      BY <2>3, <3>1, <3>2 DEF DataError
  <2>4. QED
    BY <2>1, <2>2, <2>3
<1>3. DataError(r) \in {"running", "catalog", "read"}
  BY DEF DataError
<1>4. \A i \in Int, k \in Nat : i \in 0..k - 1 <=> InRange(i, k)
  BY DEF InRange
<1>5. PICK shownCount \in Nat :
        shownCount = IF catalog.override THEN Len(catalog.display) ELSE n
  BY CatalogTyped
<1>6. /\ r.internal \in 0..catalog.internals - 1 <=> InRange(r.internal, catalog.internals)
      /\ r.provider \in 0..catalog.providers - 1 <=> InRange(r.provider, catalog.providers)
      /\ r.type \in 0..catalog.types - 1 <=> InRange(r.type, catalog.types)
      /\ r.primary \in 0..shownCount - 1 <=> InRange(r.primary, shownCount)
      /\ r.dependency < n <=> ~(r.dependency >= n)
  <2>1. catalog.internals \in Nat /\ catalog.providers \in Nat /\ catalog.types \in Nat
    BY CatalogTyped
  <2>2. QED
    BY <1>1, <1>4, <2>1
<1>7. /\ EntryWellFormed(r, n) <=>
            /\ InRange(r.internal, catalog.internals)
            /\ InRange(r.provider, catalog.providers)
            /\ InRange(r.type, catalog.types)
            /\ ~(r.dependency >= n)
            /\ InRange(r.primary, shownCount)
            /\ DataError(r) = "running"
  BY <1>2, <1>5, <1>6 DEF EntryWellFormed
<1>8. QED
  BY <1>3, <1>5, <1>7 DEF EntryError, IndexError

\* There is one first error.
LEMMA FirstErrorIsOne ==
    ASSUME NEW error, NEW n \in Int, NEW e, NEW f, FirstError(error, n, e), FirstError(error, n, f)
    PROVE  e = f
<1>1. PICK b \in 1..n : error[b] = e /\ e # "running" /\ \A c \in 1..b - 1 : error[c] = "running"
  BY DEF FirstError
<1>2. PICK d \in 1..n : error[d] = f /\ f # "running" /\ \A c \in 1..d - 1 : error[c] = "running"
  BY DEF FirstError
<1>3. ~(b < d) /\ ~(d < b)
  BY <1>1, <1>2
<1>4. QED
  BY <1>1, <1>2, <1>3

\* A catalog deserves one thing.
LEMMA OneVerdict ==
    ASSUME catalog \in Catalog, NEW e, NEW f, Verdict(e), Verdict(f)
    PROVE  e = f
<1>1. CASE Cuts = {}
  BY <1>1 DEF Verdict
<1>2. CASE Cuts # {}
  <2>1. PICK last \in Cuts : CutVerdict(last, e) /\ CutVerdict(last, f)
    BY <1>2, WholeCut DEF Verdict
  <2>2. catalog.words[1] \in Int
    BY WholeCut
  <2>3. CASE HeaderSound
    BY <2>1, <2>2, <2>3, FirstErrorIsOne DEF CutVerdict, HeaderSound
  <2>4. CASE ~HeaderSound
    BY <2>1, <2>2, <2>4, FirstErrorIsOne DEF CutVerdict
  <2>5. QED
    BY <2>3, <2>4
<1>3. QED
  BY <1>1, <1>2

\* A bucket without an error has a usable key, and entries that are locations.
LEMMA BucketErrorMeans ==
    ASSUME NEW key, NEW entries \in Seq(Int), NEW n \in Nat
    PROVE  /\ BucketError(key, entries, n) \in {"running", "catalog", "bucket resource location"}
           /\ BucketError(key, entries, n) = "running" <=>
                 /\ key # "options"
                 /\ \A e \in 1..Len(entries) : entries[e] \in 0..n - 1
<1>1. DOMAIN entries = 1..Len(entries) /\ \A i \in 1..Len(entries) : entries[i] \in Int
  OBVIOUS
<1>2. \A i \in Int : i \in 0..n - 1 <=> InRange(i, n)
  BY DEF InRange
<1>3. (\A e \in 1..Len(entries) : entries[e] \in 0..n - 1) <=>
      (\A i \in DOMAIN entries : InRange(entries[i], n))
  BY <1>1, <1>2
<1>4. QED
  BY <1>3 DEF BucketError

\* A well-formed catalog is one without an error.
LEMMA WellFormedIsSound ==
    ASSUME catalog \in Catalog, NEW last \in Cuts
    PROVE  WellFormed(last) <=>
              /\ catalog.keyHeader # <<>> /\ catalog.keyHeader[1] = catalog.words[1]
              /\ Sound(KeyErrors(last), catalog.words[1])
              /\ HeaderSound
              /\ Sound(EntryErrors, catalog.entryHeader[1])
              /\ Sound(BucketErrors(last), catalog.words[1])
<1>1. PICK n \in Nat : n = catalog.words[1]
  BY WholeCut
<1>2. IsCut(last, n)
  BY <1>1, WholeCut
<1>3. catalog.keyHeader = <<n>> <=> catalog.keyHeader # <<>> /\ catalog.keyHeader[1] = n
  <2>1. <<n>> # <<>> /\ <<n>>[1] = n
    OBVIOUS
  <2>2. catalog.keyHeader # <<>> => catalog.keyHeader = <<catalog.keyHeader[1]>>
    BY CatalogTyped
  <2>3. QED
    BY ONLY <2>1, <2>2
<1>4. Sound(KeyErrors(last), n) <=> \A b \in 1..n : KeyOf(last, b) \in Key \cup {"options"}
  BY <1>1, <1>2, KeyErrorMeans DEF Sound, KeyErrors
<1>5. ASSUME HeaderSound
      PROVE  /\ Sound(EntryErrors, catalog.entryHeader[1]) <=>
                  \A i \in 1..catalog.entryHeader[1] : EntryWellFormed(catalog.entries[i], n)
             /\ Sound(BucketErrors(last), n) <=>
                  \A b \in 1..n :
                     /\ KeyOf(last, b) # "options"
                     /\ \A e \in 1..Len(EntriesOf(last, b)) :
                           EntriesOf(last, b)[e] \in 0..catalog.entryHeader[1] - 1
  <2>1. PICK count \in Nat : count = catalog.entryHeader[1] /\ count <= Len(catalog.entries)
    BY <1>5, CatalogTyped DEF HeaderSound
  <2>2. \A i \in 1..count : /\ i \in 1..Len(catalog.entries)
                            /\ catalog.entries[i] \in Entry
    BY <2>1, CatalogTyped
  <2>3. \A i \in 1..count :
           /\ EntryErrors[i] = EntryError(catalog.entries[i], n)
           /\ EntryErrors[i] = "running" <=> EntryWellFormed(catalog.entries[i], n)
    BY <1>1, <2>2, EntryErrorMeans DEF EntryErrors
  <2>4. \A b \in 1..n :
           /\ BucketErrors(last)[b] = BucketError(KeyOf(last, b), EntriesOf(last, b), count)
           /\ EntriesOf(last, b) \in Seq(Int)
    BY <1>1, <1>2, <2>1, EntriesTyped DEF BucketErrors
  <2>5. ASSUME NEW b \in 1..n
        PROVE  BucketErrors(last)[b] = "running" <=>
                 /\ KeyOf(last, b) # "options"
                 /\ \A e \in 1..Len(EntriesOf(last, b)) : EntriesOf(last, b)[e] \in 0..count - 1
    <3>1. PICK key, entries : key = KeyOf(last, b) /\ entries = EntriesOf(last, b)
      OBVIOUS
    <3>2. entries \in Seq(Int) /\ BucketErrors(last)[b] = BucketError(key, entries, count)
      BY <2>4, <3>1
    <3>3. BucketError(key, entries, count) = "running" <=>
            key # "options" /\ \A e \in 1..Len(entries) : entries[e] \in 0..count - 1
      BY <3>2, BucketErrorMeans
    <3>4. QED
      BY <3>1, <3>2, <3>3
  <2>6. QED
    BY <2>1, <2>3, <2>5 DEF Sound
<1>6. "options" \notin Key
  BY KeyAssumption DEF Unusable
<1>7. WellFormed(last) <=>
        /\ catalog.keyHeader = <<n>>
        /\ HeaderSound
        /\ \A i \in 1..catalog.entryHeader[1] : EntryWellFormed(catalog.entries[i], n)
        /\ \A b \in 1..n : KeyOf(last, b) \in Key
        /\ \A b \in 1..n : \A e \in 1..Len(EntriesOf(last, b)) :
              EntriesOf(last, b)[e] \in 0..catalog.entryHeader[1] - 1
  BY <1>1 DEF WellFormed, HeaderSound
<1>8. (\A b \in 1..n : KeyOf(last, b) \in Key) <=>
        /\ \A b \in 1..n : KeyOf(last, b) \in Key \cup {"options"}
        /\ \A b \in 1..n : KeyOf(last, b) # "options"
  BY <1>6
<1>9. CASE ~HeaderSound
  BY <1>1, <1>7, <1>9
<1>10. CASE HeaderSound
  BY <1>1, <1>3, <1>4, <1>5, <1>7, <1>8, <1>10
<1>11. QED
  BY <1>9, <1>10

\* The errors of a part are those of records, keys or buckets: none of them is "done".
LEMMA VerdictMeans ==
    ASSUME catalog \in Catalog, NEW e, Verdict(e)
    PROVE  /\ e = "done" => Cuts # {} /\ \A last \in Cuts : WellFormed(last)
           /\ e # "done" => \A last \in Cuts : ~WellFormed(last)
           /\ e \in {"done", "catalog", "read"} \cup IndexError
<1>1. CASE Cuts = {}
  BY <1>1 DEF Verdict
<1>2. CASE Cuts # {}
  <2>1. PICK last \in Cuts : CutVerdict(last, e)
    BY <1>2 DEF Verdict
  <2>2. PICK n \in Nat : n = catalog.words[1] /\ IsCut(last, n)
    BY WholeCut
  <2>3. ASSUME FirstError(KeyErrors(last), n, e)
        PROVE  e \in {"catalog", "read"}
    BY <2>2, <2>3, KeyErrorMeans DEF FirstError, KeyErrors
  <2>4. ASSUME HeaderSound, FirstError(EntryErrors, catalog.entryHeader[1], e)
        PROVE  e \in {"catalog", "read"} \cup IndexError
    <3>1. PICK i \in 1..catalog.entryHeader[1] : EntryErrors[i] = e /\ e # "running"
      BY <2>4 DEF FirstError
    <3>2. i \in 1..Len(catalog.entries) /\ catalog.entries[i] \in Entry
      BY <2>4, <3>1, CatalogTyped DEF HeaderSound
    <3>3. e \in {"running", "catalog", "read"} \cup IndexError
      BY <2>2, <3>1, <3>2, EntryErrorMeans DEF EntryErrors
    <3>4. QED
      BY <3>1, <3>3
  <2>5. ASSUME HeaderSound, FirstError(BucketErrors(last), n, e)
        PROVE  e \in {"catalog", "read"} \cup IndexError
    <3>1. PICK b \in 1..n : BucketErrors(last)[b] = e /\ e # "running"
      BY <2>5 DEF FirstError
    <3>2. EntriesOf(last, b) \in Seq(Int) /\ catalog.entryHeader[1] \in Nat
      <4>1. EntriesOf(last, b) \in Seq(Int)
        BY <2>2, EntriesTyped
      <4>2. catalog.entryHeader[1] \in Nat
        BY <2>5, CatalogTyped DEF HeaderSound
      <4>3. QED
        BY <4>1, <4>2
    <3>3. e = BucketError(KeyOf(last, b), EntriesOf(last, b), catalog.entryHeader[1])
      BY <2>2, <3>1 DEF BucketErrors
    <3>4. QED
      BY <3>1, <3>2, <3>3, BucketErrorMeans DEF IndexError
  <2>6. e = "done" <=> WellFormed(last)
    <3>1. \A x \in {"catalog", "read"} \cup IndexError : x # "done"
      BY DEF IndexError
    <3>2. CASE HeaderSound
      BY <2>1, <2>2, <2>3, <2>4, <2>5, <3>1, <3>2, WellFormedIsSound DEF CutVerdict
    <3>3. CASE ~HeaderSound
      BY <2>1, <2>2, <2>3, <3>1, <3>3, WellFormedIsSound DEF CutVerdict
    <3>4. QED
      BY <3>2, <3>3
  <2>7. e \in {"done", "catalog", "read"} \cup IndexError
    <3>1. CASE HeaderSound
      BY <2>1, <2>2, <2>3, <2>4, <2>5, <3>1 DEF CutVerdict
    <3>2. CASE ~HeaderSound
      BY <2>1, <2>2, <2>3, <3>2 DEF CutVerdict
    <3>3. QED
      BY <3>1, <3>2
  <2>8. \A l \in Cuts : l = last
    BY WholeCut
  <2>9. QED
    BY <1>2, <2>6, <2>7, <2>8
<1>3. QED
  BY <1>1, <1>2

-----------------------------------------------------------------------------
(* Lemmas about how the decoders find an error *)

\* Checks that all hold give no error.
LEMMA NoneBad ==
    ASSUME NEW checks, \A i \in DOMAIN checks : InRange(checks[i][2], checks[i][3])
    PROVE  FirstBad(checks) = "running"
  BY DEF FirstBad

\* The first check that does not hold names the error.
LEMMA ThisIsBad ==
    ASSUME NEW checks, DOMAIN checks \subseteq Nat,
           NEW i \in DOMAIN checks, ~InRange(checks[i][2], checks[i][3]),
           \A j \in DOMAIN checks : j < i => InRange(checks[j][2], checks[j][3])
    PROVE  FirstBad(checks) = checks[i][1]
<1> DEFINE bad == {k \in DOMAIN checks : ~InRange(checks[k][2], checks[k][3])}
<1>1. i \in bad /\ \A j \in bad : i <= j
  OBVIOUS
<1>2. \A k \in bad : (\A j \in bad : k <= j) => k = i
  BY <1>1
<1>3. (CHOOSE k \in bad : \A j \in bad : k <= j) = i
  <2> HIDE DEF bad
  <2>1. QED
    BY <1>1, <1>2
<1>4. QED
  BY <1>1, <1>3 DEF FirstBad

\* Five checks, one after the other.
LEMMA FiveChecks ==
    ASSUME NEW a, NEW b, NEW c, NEW d, NEW e, NEW checks, checks = <<a, b, c, d, e>>
    PROVE  FirstBad(checks) =
              IF ~InRange(a[2], a[3]) THEN a[1] ELSE IF ~InRange(b[2], b[3]) THEN b[1]
              ELSE IF ~InRange(c[2], c[3]) THEN c[1] ELSE IF ~InRange(d[2], d[3]) THEN d[1]
              ELSE IF ~InRange(e[2], e[3]) THEN e[1] ELSE "running"
<1>1. /\ DOMAIN checks = 1..5
      /\ checks[1] = a /\ checks[2] = b /\ checks[3] = c /\ checks[4] = d /\ checks[5] = e
  OBVIOUS
<1>2. DOMAIN checks \subseteq Nat /\ {1, 2, 3, 4, 5} = DOMAIN checks
  BY <1>1
<1>3. CASE ~InRange(a[2], a[3])
  <2>1. ~InRange(checks[1][2], checks[1][3]) /\ \A j \in DOMAIN checks : ~(j < 1)
    BY <1>1, <1>3
  <2>2. FirstBad(checks) = checks[1][1]
    BY <1>2, <2>1, ThisIsBad
  <2>3. QED
    BY <1>1, <1>3, <2>2
<1>4. CASE InRange(a[2], a[3]) /\ ~InRange(b[2], b[3])
  <2>1. /\ ~InRange(checks[2][2], checks[2][3])
        /\ \A j \in DOMAIN checks : j < 2 => InRange(checks[j][2], checks[j][3])
    BY <1>1, <1>2, <1>4
  <2>2. FirstBad(checks) = checks[2][1]
    BY <1>2, <2>1, ThisIsBad
  <2>3. QED
    BY <1>1, <1>4, <2>2
<1>5. CASE InRange(a[2], a[3]) /\ InRange(b[2], b[3]) /\ ~InRange(c[2], c[3])
  <2>1. /\ ~InRange(checks[3][2], checks[3][3])
        /\ \A j \in DOMAIN checks : j < 3 => InRange(checks[j][2], checks[j][3])
    BY <1>1, <1>2, <1>5
  <2>2. FirstBad(checks) = checks[3][1]
    BY <1>2, <2>1, ThisIsBad
  <2>3. QED
    BY <1>1, <1>5, <2>2
<1>6. CASE /\ InRange(a[2], a[3]) /\ InRange(b[2], b[3]) /\ InRange(c[2], c[3])
           /\ ~InRange(d[2], d[3])
  <2>1. /\ ~InRange(checks[4][2], checks[4][3])
        /\ \A j \in DOMAIN checks : j < 4 => InRange(checks[j][2], checks[j][3])
    BY <1>1, <1>2, <1>6
  <2>2. FirstBad(checks) = checks[4][1]
    BY <1>2, <2>1, ThisIsBad
  <2>3. QED
    BY <1>1, <1>6, <2>2
<1>7. CASE /\ InRange(a[2], a[3]) /\ InRange(b[2], b[3]) /\ InRange(c[2], c[3])
           /\ InRange(d[2], d[3]) /\ ~InRange(e[2], e[3])
  <2>1. /\ ~InRange(checks[5][2], checks[5][3])
        /\ \A j \in DOMAIN checks : j < 5 => InRange(checks[j][2], checks[j][3])
    BY <1>1, <1>2, <1>7
  <2>2. FirstBad(checks) = checks[5][1]
    BY <1>2, <2>1, ThisIsBad
  <2>3. QED
    BY <1>1, <1>7, <2>2
<1>8. CASE /\ InRange(a[2], a[3]) /\ InRange(b[2], b[3]) /\ InRange(c[2], c[3])
           /\ InRange(d[2], d[3]) /\ InRange(e[2], e[3])
  <2>1. \A j \in DOMAIN checks : InRange(checks[j][2], checks[j][3])
    BY <1>1, <1>2, <1>8
  <2>2. QED
    BY <1>8, <2>1, NoneBad
<1>9. QED
  BY <1>3, <1>4, <1>5, <1>6, <1>7, <1>8

\* Four checks, one after the other.
LEMMA FourChecks ==
    ASSUME NEW a, NEW b, NEW c, NEW d, NEW checks, checks = <<a, b, c, d>>
    PROVE  FirstBad(checks) =
              IF ~InRange(a[2], a[3]) THEN a[1] ELSE IF ~InRange(b[2], b[3]) THEN b[1]
              ELSE IF ~InRange(c[2], c[3]) THEN c[1] ELSE IF ~InRange(d[2], d[3]) THEN d[1]
              ELSE "running"
<1>1. /\ DOMAIN checks = 1..4
      /\ checks[1] = a /\ checks[2] = b /\ checks[3] = c /\ checks[4] = d
  OBVIOUS
<1>2. DOMAIN checks \subseteq Nat /\ {1, 2, 3, 4} = DOMAIN checks
  BY <1>1
<1>3. CASE ~InRange(a[2], a[3])
  <2>1. ~InRange(checks[1][2], checks[1][3]) /\ \A j \in DOMAIN checks : ~(j < 1)
    BY <1>1, <1>3
  <2>2. FirstBad(checks) = checks[1][1]
    BY <1>2, <2>1, ThisIsBad
  <2>3. QED
    BY <1>1, <1>3, <2>2
<1>4. CASE InRange(a[2], a[3]) /\ ~InRange(b[2], b[3])
  <2>1. /\ ~InRange(checks[2][2], checks[2][3])
        /\ \A j \in DOMAIN checks : j < 2 => InRange(checks[j][2], checks[j][3])
    BY <1>1, <1>2, <1>4
  <2>2. FirstBad(checks) = checks[2][1]
    BY <1>2, <2>1, ThisIsBad
  <2>3. QED
    BY <1>1, <1>4, <2>2
<1>5. CASE InRange(a[2], a[3]) /\ InRange(b[2], b[3]) /\ ~InRange(c[2], c[3])
  <2>1. /\ ~InRange(checks[3][2], checks[3][3])
        /\ \A j \in DOMAIN checks : j < 3 => InRange(checks[j][2], checks[j][3])
    BY <1>1, <1>2, <1>5
  <2>2. FirstBad(checks) = checks[3][1]
    BY <1>2, <2>1, ThisIsBad
  <2>3. QED
    BY <1>1, <1>5, <2>2
<1>6. CASE /\ InRange(a[2], a[3]) /\ InRange(b[2], b[3]) /\ InRange(c[2], c[3])
           /\ ~InRange(d[2], d[3])
  <2>1. /\ ~InRange(checks[4][2], checks[4][3])
        /\ \A j \in DOMAIN checks : j < 4 => InRange(checks[j][2], checks[j][3])
    BY <1>1, <1>2, <1>6
  <2>2. FirstBad(checks) = checks[4][1]
    BY <1>2, <2>1, ThisIsBad
  <2>3. QED
    BY <1>1, <1>6, <2>2
<1>7. CASE /\ InRange(a[2], a[3]) /\ InRange(b[2], b[3]) /\ InRange(c[2], c[3])
           /\ InRange(d[2], d[3])
  <2>1. \A j \in DOMAIN checks : InRange(checks[j][2], checks[j][3])
    BY <1>1, <1>2, <1>7
  <2>2. QED
    BY <1>7, <2>1, NoneBad
<1>8. QED
  BY <1>3, <1>4, <1>5, <1>6, <1>7

\* The index of the dependency is checked when there is one.
LEMMA Joined ==
    ASSUME NEW a, NEW b, NEW c, NEW d, NEW e
    PROVE  /\ <<a, b>> \o <<c>> \o <<d, e>> = <<a, b, c, d, e>>
           /\ <<a, b>> \o <<>> \o <<d, e>> = <<a, b, d, e>>
<1> DEFINE S == {a, b, c, d, e}
<1>1. /\ <<a, b>> \in Seq(S) /\ <<c>> \in Seq(S) /\ <<d, e>> \in Seq(S)
      /\ <<a, b, c, d, e>> \in Seq(S) /\ <<a, b, d, e>> \in Seq(S)
  OBVIOUS
<1>2. PICK s : s = <<a, b>> \o <<c>>
  OBVIOUS
<1>3. s \in Seq(S) /\ Len(s) = 3 /\ s[1] = a /\ s[2] = b /\ s[3] = c
  <2>1. /\ s \in Seq(S) /\ Len(s) = Len(<<a, b>>) + Len(<<c>>)
        /\ \A i \in 1..Len(<<a, b>>) + Len(<<c>>) :
              s[i] = IF i <= Len(<<a, b>>) THEN <<a, b>>[i] ELSE <<c>>[i - Len(<<a, b>>)]
    BY <1>1, <1>2, ConcatProperties
  <2>2. Len(<<a, b>>) = 2 /\ Len(<<c>>) = 1
    OBVIOUS
  <2>3. QED
    BY <2>1, <2>2
<1>4. PICK t : t = s \o <<d, e>>
  OBVIOUS
<1>5. /\ t \in Seq(S) /\ Len(t) = 5
      /\ t[1] = a /\ t[2] = b /\ t[3] = c /\ t[4] = d /\ t[5] = e
  <2>1. /\ t \in Seq(S) /\ Len(t) = Len(s) + Len(<<d, e>>)
        /\ \A i \in 1..Len(s) + Len(<<d, e>>) :
              t[i] = IF i <= Len(s) THEN s[i] ELSE <<d, e>>[i - Len(s)]
    <3>1. s \in Seq(S) /\ <<d, e>> \in Seq(S)
      BY <1>1, <1>3
    <3>2. QED
      BY <1>4, <3>1, ConcatProperties
  <2>2. Len(<<d, e>>) = 2
    OBVIOUS
  <2>3. QED
    BY <1>3, <2>1, <2>2
<1>6. t = <<a, b, c, d, e>>
  <2>1. Len(<<a, b, c, d, e>>) = 5 /\ 1..5 = {1, 2, 3, 4, 5}
    OBVIOUS
  <2>2. \A i \in {1, 2, 3, 4, 5} : t[i] = <<a, b, c, d, e>>[i]
    BY <1>5
  <2>3. QED
    BY <1>1, <1>5, <2>1, <2>2, SeqEqual
<1>7. <<a, b>> \o <<>> = <<a, b>>
  BY <1>1, ConcatEmptySeq
<1>8. PICK u : u = <<a, b>> \o <<d, e>>
  OBVIOUS
<1>9. /\ u \in Seq(S) /\ Len(u) = 4
      /\ u[1] = a /\ u[2] = b /\ u[3] = d /\ u[4] = e
  <2>1. /\ u \in Seq(S) /\ Len(u) = Len(<<a, b>>) + Len(<<d, e>>)
        /\ \A i \in 1..Len(<<a, b>>) + Len(<<d, e>>) :
              u[i] = IF i <= Len(<<a, b>>) THEN <<a, b>>[i] ELSE <<d, e>>[i - Len(<<a, b>>)]
    BY <1>1, <1>8, ConcatProperties
  <2>2. Len(<<a, b>>) = 2 /\ Len(<<d, e>>) = 2
    OBVIOUS
  <2>3. QED
    BY <2>1, <2>2
<1>10. u = <<a, b, d, e>>
  <2>1. Len(<<a, b, d, e>>) = 4 /\ 1..4 = {1, 2, 3, 4}
    OBVIOUS
  <2>2. \A i \in {1, 2, 3, 4} : u[i] = <<a, b, d, e>>[i]
    BY <1>9
  <2>3. QED
    BY <1>1, <1>9, <2>1, <2>2, SeqEqual
<1>11. QED
  BY <1>2, <1>4, <1>6, <1>7, <1>8, <1>10

\* The instances speak of the same operators.
LEMMA SharedOperators ==
    /\ \A checks : Python!FirstBad(checks) = FirstBad(checks)
    /\ \A checks : Rust!FirstBad(checks) = FirstBad(checks)
    /\ \A s : Python!EntryChecks(s) = EntryChecks(s)
    /\ \A s : Rust!EntryChecks(s) = EntryChecks(s)
    /\ \A i, n : Python!InRange(i, n) <=> InRange(i, n)
    /\ \A i, n : Rust!InRange(i, n) <=> InRange(i, n)
    /\ Python!PrimaryKeys = PrimaryKeys /\ Rust!PrimaryKeys = PrimaryKeys
    /\ \A r : Python!Location(r) = Location(r)
    /\ \A r : Rust!Location(r) = Location(r)
  BY DEF Python!FirstBad, Rust!FirstBad, FirstBad, Python!EntryChecks, Rust!EntryChecks,
         EntryChecks, Python!InRange, Rust!InRange, InRange, Python!PrimaryKeys,
         Rust!PrimaryKeys, PrimaryKeys, Python!Location, Rust!Location, Location

\* The index of a record that both backends name, or "running".
IndexErrorOf(r) ==
    IF ~InRange(r.internal, catalog.internals) THEN "internal ID"
    ELSE IF ~InRange(r.provider, catalog.providers) THEN "provider ID"
    ELSE IF r.dependency >= Len(keys) THEN "dependency key"
    ELSE IF ~InRange(r.primary, Len(PrimaryKeys)) THEN "primary key"
    ELSE IF ~InRange(r.type, catalog.types) THEN "resource type"
    ELSE "running"

\* The slow path of Python and the checks of Rust name the same index.
LEMMA ChecksAgree ==
    ASSUME NEW r \in Entry, Len(keys) \in Nat
    PROVE  Python!SlowPath(r) = IndexErrorOf(r) /\ Rust!IndexOutcome(r) = IndexErrorOf(r)
<1> DEFINE a == <<"internal ID", r.internal, catalog.internals>>
           b == <<"provider ID", r.provider, catalog.providers>>
           c == <<"dependency key", r.dependency, Len(keys)>>
           d == <<"primary key", r.primary, Len(PrimaryKeys)>>
           e == <<"resource type", r.type, catalog.types>>
<1>1. r.dependency \in Int
  BY DEF Entry
<1>2. CASE r.dependency < 0
  <2>1. /\ Python!SlowPath(r) = FirstBad(<<a, b>> \o <<>> \o <<d, e>>)
        /\ Rust!IndexOutcome(r) = FirstBad(<<a, b>> \o <<>> \o <<d, e>>)
    <3>1. ~(r.dependency >= 0)
      BY <1>1, <1>2
    <3>2. QED
      BY <1>2, <3>1, SharedOperators DEF Python!SlowPath, Rust!IndexOutcome
  <2>2. FirstBad(<<a, b>> \o <<>> \o <<d, e>>) = FirstBad(<<a, b, d, e>>)
    <3> HIDE DEF a, b, d, e
    <3>1. QED
      BY Joined
  <2>3. FirstBad(<<a, b, d, e>>) =
          IF ~InRange(a[2], a[3]) THEN a[1] ELSE IF ~InRange(b[2], b[3]) THEN b[1]
          ELSE IF ~InRange(d[2], d[3]) THEN d[1] ELSE IF ~InRange(e[2], e[3]) THEN e[1]
          ELSE "running"
    <3> HIDE DEF a, b, d, e
    <3>1. QED
      BY FourChecks
  <2>4. ~(r.dependency >= Len(keys))
    BY <1>1, <1>2
  <2>5. QED
    BY <2>1, <2>2, <2>3, <2>4 DEF IndexErrorOf
<1>3. CASE ~(r.dependency < 0)
  <2>1. /\ Python!SlowPath(r) = FirstBad(<<a, b>> \o <<c>> \o <<d, e>>)
        /\ Rust!IndexOutcome(r) = FirstBad(<<a, b>> \o <<c>> \o <<d, e>>)
    <3>1. r.dependency >= 0
      BY <1>1, <1>3
    <3>2. QED
      BY <1>3, <3>1, SharedOperators DEF Python!SlowPath, Rust!IndexOutcome
  <2>2. FirstBad(<<a, b>> \o <<c>> \o <<d, e>>) = FirstBad(<<a, b, c, d, e>>)
    <3> HIDE DEF a, b, c, d, e
    <3>1. <<a, b>> \o <<c>> \o <<d, e>> = <<a, b, c, d, e>>
      BY Joined
    <3>2. QED
      BY <3>1, Zenon
  <2>3. FirstBad(<<a, b, c, d, e>>) =
          IF ~InRange(a[2], a[3]) THEN a[1] ELSE IF ~InRange(b[2], b[3]) THEN b[1]
          ELSE IF ~InRange(c[2], c[3]) THEN c[1] ELSE IF ~InRange(d[2], d[3]) THEN d[1]
          ELSE IF ~InRange(e[2], e[3]) THEN e[1] ELSE "running"
    <3> HIDE DEF a, b, c, d, e
    <3>1. QED
      BY FiveChecks
  <2>4. ~InRange(c[2], c[3]) <=> r.dependency >= Len(keys)
    BY <1>1, <1>3 DEF InRange
  <2>5. QED
    BY <2>1, <2>2, <2>3, <2>4 DEF IndexErrorOf
<1>4. QED
  BY <1>2, <1>3

\* What a location record comes to, in either backend.
LEMMA EntryOutcomes ==
    ASSUME NEW r \in Entry, Len(keys) \in Nat
    PROVE  /\ (IF ~Python!FastTest(r) /\ Python!SlowPath(r) # "running" THEN Python!SlowPath(r)
               ELSE Python!DataOutcome(r)) = EntryError(r, Len(keys))
           /\ (IF Rust!IndexOutcome(r) # "running" THEN Rust!IndexOutcome(r)
               ELSE IF r.data < 0 THEN "running" ELSE Rust!ObjectOutcome(r.data))
                = EntryError(r, Len(keys))
<1>1. Len(PrimaryKeys) = IF catalog.override THEN Len(catalog.display) ELSE Len(keys)
  BY DEF PrimaryKeys
<1>2. EntryError(r, Len(keys)) = IF IndexErrorOf(r) # "running" THEN IndexErrorOf(r)
                                 ELSE DataError(r)
  BY <1>1 DEF EntryError, IndexErrorOf
<1>3. Python!FastTest(r) <=> IndexErrorOf(r) = "running"
  <2>1. r.dependency < Len(keys) <=> ~(r.dependency >= Len(keys))
    BY DEF Entry
  <2>2. QED
    BY <2>1, SharedOperators DEF Python!FastTest, IndexErrorOf
<1>4. Python!DataOutcome(r) = DataError(r)
  BY DEF Python!DataOutcome, DataError
<1>5. (IF r.data < 0 THEN "running" ELSE Rust!ObjectOutcome(r.data)) = DataError(r)
  BY DEF Rust!ObjectOutcome, DataError
<1>6. QED
  BY <1>2, <1>3, <1>4, <1>5, ChecksAgree

\* A sequence of numbers that is not empty has a least and a greatest one.
LEMMA Extremes ==
    ASSUME NEW s \in Seq(Int), s # <<>>
    PROVE  /\ \E i \in 1..Len(s) : \A j \in 1..Len(s) : s[i] <= s[j]
           /\ \E i \in 1..Len(s) : \A j \in 1..Len(s) : s[i] >= s[j]
<1>1. Len(s) \in Nat /\ Len(s) >= 1 /\ \A i \in 1..Len(s) : s[i] \in Int
  OBVIOUS
<1>2. PICK n \in Nat : n = Len(s) /\ n >= 1
  BY <1>1
<1>3. ASSUME NEW T, T = {m \in 1..n : ~\E i \in 1..m : \A j \in 1..m : s[i] <= s[j]}
      PROVE  T = {}
  <2>1. SUFFICES ASSUME T # {} PROVE FALSE
    OBVIOUS
  <2>0. T \in SUBSET (1..n)
    BY <1>3
  <2>2. PICK x \in T : \A y \in T : x <= y
    BY <2>0, <2>1, LeastExists
  <2>3. x # 1
    BY <1>1, <1>2, <1>3, <2>2
  <2>4. x \in 1..n /\ x - 1 \in 1..n /\ x - 1 \notin T
    BY <2>0, <2>2, <2>3
  <2>5. PICK i \in 1..x - 1 : \A j \in 1..x - 1 : s[i] <= s[j]
    BY <1>3, <2>4
  <2>6. /\ s[i] \in Int /\ s[x] \in Int
    BY <1>1, <1>2, <2>4, <2>5
  <2>7. CASE s[i] <= s[x]
    <3>1. \A j \in 1..x : j \in 1..x - 1 \/ j = x
      BY <2>4
    <3>2. i \in 1..x /\ \A j \in 1..x : s[i] <= s[j]
      BY <2>4, <2>5, <2>7, <3>1
    <3>3. QED
      BY <1>3, <2>2, <3>2
  <2>8. CASE s[x] < s[i]
    <3>1. \A j \in 1..x : j \in 1..x - 1 \/ j = x
      BY <2>4
    <3>2. \A j \in 1..x - 1 : s[j] \in Int
      BY <1>1, <1>2, <2>4
    <3>3. x \in 1..x /\ \A j \in 1..x : s[x] <= s[j]
      BY <2>4, <2>5, <2>6, <2>8, <3>1, <3>2
    <3>4. QED
      BY <1>3, <2>2, <3>3
  <2>9. QED
    BY <2>6, <2>7, <2>8
<1>4. ASSUME NEW T, T = {m \in 1..n : ~\E i \in 1..m : \A j \in 1..m : s[i] >= s[j]}
      PROVE  T = {}
  <2>1. SUFFICES ASSUME T # {} PROVE FALSE
    OBVIOUS
  <2>0. T \in SUBSET (1..n)
    BY <1>4
  <2>2. PICK x \in T : \A y \in T : x <= y
    BY <2>0, <2>1, LeastExists
  <2>3. x # 1
    BY <1>1, <1>2, <1>4, <2>2
  <2>4. x \in 1..n /\ x - 1 \in 1..n /\ x - 1 \notin T
    BY <2>0, <2>2, <2>3
  <2>5. PICK i \in 1..x - 1 : \A j \in 1..x - 1 : s[i] >= s[j]
    BY <1>4, <2>4
  <2>6. /\ s[i] \in Int /\ s[x] \in Int
    BY <1>1, <1>2, <2>4, <2>5
  <2>7. CASE s[i] >= s[x]
    <3>1. \A j \in 1..x : j \in 1..x - 1 \/ j = x
      BY <2>4
    <3>2. i \in 1..x /\ \A j \in 1..x : s[i] >= s[j]
      BY <2>4, <2>5, <2>7, <3>1
    <3>3. QED
      BY <1>4, <2>2, <3>2
  <2>8. CASE s[x] > s[i]
    <3>1. \A j \in 1..x : j \in 1..x - 1 \/ j = x
      BY <2>4
    <3>2. \A j \in 1..x - 1 : s[j] \in Int
      BY <1>1, <1>2, <2>4
    <3>3. x \in 1..x /\ \A j \in 1..x : s[x] >= s[j]
      BY <2>4, <2>5, <2>6, <2>8, <3>1, <3>2
    <3>4. QED
      BY <1>4, <2>2, <3>3
  <2>9. QED
    BY <2>6, <2>7, <2>8
<1>5. /\ n \in 1..n
      /\ n \notin {m \in 1..n : ~\E i \in 1..m : \A j \in 1..m : s[i] <= s[j]}
      /\ n \notin {m \in 1..n : ~\E i \in 1..m : \A j \in 1..m : s[i] >= s[j]}
  <2>1. {m \in 1..n : ~\E i \in 1..m : \A j \in 1..m : s[i] <= s[j]} = {}
    BY <1>3, Zenon
  <2>2. {m \in 1..n : ~\E i \in 1..m : \A j \in 1..m : s[i] >= s[j]} = {}
    BY <1>4, Zenon
  <2>3. n \in 1..n
    BY <1>2
  <2>4. QED
    BY <2>1, <2>2, <2>3, Zenon
<1>6. QED
  BY <1>2, <1>5

\* What the entries of a bucket come to, in either backend: Python's least and greatest
\* entry say the same as Rust's look at each, and Rust never indexes without it.
LEMMA EntriesOutcomes ==
    ASSUME NEW entries \in Seq(Int), Len(locations) \in Nat
    PROVE  LET error == IF \E i \in DOMAIN entries : ~InRange(entries[i], Len(locations))
                        THEN "bucket resource location" ELSE "running"
           IN  Python!EntriesOutcome(entries) = error /\ Rust!EntriesOutcome(entries) = error
<1> DEFINE bad == {i \in DOMAIN entries : ~InRange(entries[i], Len(locations))}
<1>1. DOMAIN entries = 1..Len(entries) /\ Len(entries) \in Nat
      /\ \A i \in DOMAIN entries : entries[i] \in Int
  OBVIOUS
<1>2. FirstBad(EntryChecks(entries)) = IF bad = {} THEN "running"
                                       ELSE "bucket resource location"
  <2>1. /\ DOMAIN EntryChecks(entries) = DOMAIN entries
        /\ \A i \in DOMAIN entries :
              /\ EntryChecks(entries)[i][1] = "bucket resource location"
              /\ EntryChecks(entries)[i][2] = entries[i]
              /\ EntryChecks(entries)[i][3] = Len(locations)
    BY DEF EntryChecks
  <2>2. {i \in DOMAIN EntryChecks(entries) :
            ~InRange(EntryChecks(entries)[i][2], EntryChecks(entries)[i][3])} = bad
    BY <2>1
  <2>3. ASSUME bad # {}
        PROVE  EntryChecks(entries)[CHOOSE i \in bad : \A j \in bad : i <= j][1]
                 = "bucket resource location"
    <3>1. bad \in SUBSET Nat
      BY <1>1
    <3>2. \E i \in bad : \A j \in bad : i <= j
      <4> HIDE DEF bad
      <4>1. QED
        BY <2>3, <3>1, LeastExists
    <3>3. (CHOOSE i \in bad : \A j \in bad : i <= j) \in bad
      <4> HIDE DEF bad
      <4>1. QED
        BY <3>2
    <3>4. QED
      BY <2>1, <3>3
  <2>4. QED
    BY <2>2, <2>3 DEF FirstBad
<1>3. Rust!EntriesOutcome(entries) = IF bad = {} THEN "running" ELSE "bucket resource location"
  BY <1>2, SharedOperators DEF Rust!EntriesOutcome
<1>4. ASSUME entries # <<>>, Len(entries) # 1
      PROVE  (Python!Min(Python!Range(entries)) < 0
                 \/ Python!Max(Python!Range(entries)) >= Len(locations)) <=> bad # {}
  <2>1. \A x : x \in Python!Range(entries) <=> \E i \in 1..Len(entries) : x = entries[i]
    BY <1>1 DEF Python!Range
  <2>2. PICK low \in Python!Range(entries) : \A x \in Python!Range(entries) : low <= x
    <3>1. PICK i \in 1..Len(entries) : \A j \in 1..Len(entries) : entries[i] <= entries[j]
      BY <1>4, Extremes
    <3>2. QED
      BY <2>1, <3>1
  <2>3. PICK high \in Python!Range(entries) : \A x \in Python!Range(entries) : high >= x
    <3>1. PICK i \in 1..Len(entries) : \A j \in 1..Len(entries) : entries[i] >= entries[j]
      BY <1>4, Extremes
    <3>2. QED
      BY <2>1, <3>1
  <2>4. PICK min : min = Python!Min(Python!Range(entries))
    OBVIOUS
  <2>5. PICK max : max = Python!Max(Python!Range(entries))
    OBVIOUS
  <2>6. min \in Python!Range(entries) /\ \A x \in Python!Range(entries) : min <= x
    BY <2>2, <2>4 DEF Python!Min
  <2>7. max \in Python!Range(entries) /\ \A x \in Python!Range(entries) : max >= x
    BY <2>3, <2>5 DEF Python!Max
  <2>8. \A x \in Python!Range(entries) : x \in Int
    BY <1>1, <2>1
  <2>9. (min < 0 \/ max >= Len(locations)) <=>
          \E x \in Python!Range(entries) : ~InRange(x, Len(locations))
    BY <2>6, <2>7, <2>8 DEF InRange
  <2>10. QED
    BY <1>1, <2>1, <2>4, <2>5, <2>9
<1>5. Python!EntriesOutcome(entries) = IF bad = {} THEN "running"
                                       ELSE "bucket resource location"
  <2>1. CASE entries = <<>>
    BY <1>1, <1>2, <2>1, SharedOperators DEF Python!EntriesOutcome
  <2>2. CASE Len(entries) = 1
    BY <1>2, <2>2, SharedOperators DEF Python!EntriesOutcome
  <2>3. CASE entries # <<>> /\ Len(entries) # 1
    BY <1>2, <1>4, <2>3, SharedOperators DEF Python!EntriesOutcome
  <2>4. QED
    BY <2>1, <2>2, <2>3
<1>6. QED
  BY <1>3, <1>5

-----------------------------------------------------------------------------
(* What a step of either backend comes to *)

Start ==
    /\ At("start")
    /\ \/ Fail("catalog") /\ Cuts = {}
       \/ /\ catalog.words # <<>> /\ catalog.words[1] >= 0
          /\ pc' = "buckets" /\ cursor' = 2
          /\ UNCHANGED <<catalog, buckets, keys, locations, mapped, resources, outcome>>

\* The bucket at the cursor is in the table.
Readable ==
    LET words == catalog.words
    IN  /\ cursor + 1 <= Len(words)
        /\ words[cursor] >= 0
        /\ words[cursor + 1] >= 0
        /\ cursor + 1 + words[cursor + 1] <= Len(words)

BucketType == IF parser = "python" THEN Python!Bucket ELSE Rust!Bucket

ReadBucket ==
    /\ At("buckets") /\ Len(buckets) < catalog.words[1]
    /\ \/ Fail("catalog") /\ ~Readable
       \/ /\ Readable
          /\ cursor' = cursor + 2 + catalog.words[cursor + 1]
          /\ buckets' \in Seq(BucketType)
          /\ Len(buckets') = Len(buckets) + 1
          /\ \A b \in 1..Len(buckets) : buckets'[b] = buckets[b]
          /\ BucketOffset(Len(buckets))' = catalog.words[cursor]
          /\ BucketEntries(Len(buckets))' = SubSeq(catalog.words, cursor + 2, cursor' - 1)
          /\ UNCHANGED <<catalog, pc, keys, locations, mapped, resources, outcome>>

KeyCount ==
    /\ At("buckets") /\ Len(buckets) = catalog.words[1]
    /\ IF catalog.keyHeader = <<>> THEN Fail("read")
       ELSE IF catalog.keyHeader[1] # catalog.words[1] THEN Fail("catalog")
       ELSE /\ pc' = "keys"
            /\ UNCHANGED <<catalog, cursor, buckets, keys, locations, mapped, resources, outcome>>

ReadKey ==
    /\ At("keys") /\ Len(keys) < Len(buckets)
    /\ LET offset == BucketOffset(Len(keys) + 1)
       IN  IF KeyError(offset) # "running" THEN Fail(KeyError(offset))
           ELSE /\ keys' = Append(keys, catalog.keyRecords[offset + 1])
                /\ UNCHANGED <<catalog, pc, cursor, buckets, locations, mapped, resources, outcome>>

EntryCount ==
    /\ At("keys") /\ Len(keys) = Len(buckets)
    /\ IF ~HeaderSound THEN Fail("catalog")
       ELSE /\ pc' = "locations"
            /\ UNCHANGED <<catalog, cursor, buckets, keys, locations, mapped, resources, outcome>>

ReadLocation ==
    /\ At("locations") /\ Len(locations) < catalog.entryHeader[1]
    /\ LET r == catalog.entries[Len(locations) + 1]
           error == EntryError(r, Len(keys))
       IN  IF error # "running" THEN Fail(error)
           ELSE /\ locations' = Append(locations, Location(r))
                /\ UNCHANGED <<catalog, pc, cursor, buckets, keys, mapped, resources, outcome>>

MapBucket ==
    /\ At("locations") /\ Len(locations) = catalog.entryHeader[1]
    /\ mapped < Len(buckets)
    /\ LET key == keys[mapped + 1]
           entries == BucketEntries(mapped + 1)
           error == BucketError(key, entries, Len(locations))
       IN  IF error # "running" THEN Fail(error)
           ELSE /\ Assign(key, entries)
                /\ mapped' = mapped + 1
                /\ UNCHANGED <<catalog, pc, cursor, buckets, keys, locations, outcome>>

Finish ==
    /\ At("locations") /\ Len(locations) = catalog.entryHeader[1]
    /\ mapped = Len(buckets)
    /\ outcome' = "done"
    /\ UNCHANGED <<catalog, progress>>

Decode ==
    \/ Start \/ ReadBucket \/ KeyCount \/ ReadKey \/ EntryCount
    \/ ReadLocation \/ MapBucket \/ Finish

\* A bucket has no more words than the table: Rust refuses no count that Python could use.
LEMMA CountTooLarge ==
    ASSUME catalog \in Catalog, catalog.words # <<>>,
           catalog.words[1] > (Len(catalog.words) - 1) \div 2
    PROVE  Cuts = {}
<1>1. SUFFICES ASSUME NEW last \in Cuts PROVE FALSE
  OBVIOUS
<1>2. catalog.words[1] \in Nat /\ 2 * catalog.words[1] + 1 <= Len(catalog.words)
  BY WholeCut, CutGrows
<1>3. PICK n \in Nat, size \in Nat : n = catalog.words[1] /\ size = Len(catalog.words)
  BY <1>2, WordCount
<1>4. 2 * n + 1 <= size /\ n > (size - 1) \div 2
  BY <1>2, <1>3
<1>5. QED
  BY <1>4

\* What is known of the positions before a step.
LEMMA Positions ==
    ASSUME JsonInv
    PROVE  /\ catalog \in Catalog
           /\ parser \in {"python", "rust"}
           /\ cursor \in Nat /\ cursor >= 1 /\ cursor <= Len(catalog.words) + 1
           /\ Len(catalog.words) \in Nat
           /\ buckets \in Seq(BucketType) /\ Len(buckets) \in Nat
           /\ keys \in Seq(Key \cup {"options"}) /\ Len(keys) \in Nat
           /\ locations \in Seq(LocationRecord) /\ Len(locations) \in Nat
           /\ mapped \in Nat /\ mapped <= Len(buckets)
<1>1. /\ TypeOK /\ catalog \in Catalog /\ parser \in {"python", "rust"}
      /\ locations \in Seq(LocationRecord)
  BY DEF JsonInv, TypedInv
<1>2. buckets \in Seq(BucketType)
  BY <1>1 DEF TypeOK, BucketType
<1>3. Len(buckets) \in Nat
  BY <1>2
<1>4. Len(locations) \in Nat
  BY <1>1
<1>5. keys \in Seq(Key \cup {"options"}) /\ Len(keys) \in Nat
  BY <1>1 DEF TypeOK
<1>6. cursor \in Nat /\ cursor >= 1 /\ cursor <= Len(catalog.words) + 1
  BY <1>1, WordCount DEF TypeOK
<1>7. mapped \in Nat /\ mapped <= Len(buckets)
  BY <1>1, <1>3 DEF TypeOK
<1>8. QED
  BY <1>1, <1>2, <1>3, <1>4, <1>5, <1>6, <1>7, WordCount

\* The same, of the numbers alone.
LEMMA Numbers ==
    ASSUME JsonInv
    PROVE  /\ cursor \in Nat /\ cursor >= 1 /\ cursor <= Len(catalog.words) + 1
           /\ Len(catalog.words) \in Nat
           /\ Len(buckets) \in Nat /\ Len(keys) \in Nat /\ Len(locations) \in Nat
           /\ mapped \in Nat /\ mapped <= Len(buckets)
  BY Positions

\* And so are the counts of its tables.
LEMMA CatalogNumbers ==
    ASSUME JsonInv
    PROVE  /\ catalog.words # <<>> => catalog.words[1] \in Int
           /\ Len(catalog.words) \in Nat
           /\ catalog.keyHeader # <<>> => catalog.keyHeader[1] \in Int
           /\ catalog.entryHeader # <<>> => catalog.entryHeader[1] \in Int
           /\ Len(catalog.entries) \in Nat /\ Len(catalog.display) \in Nat
<1>1. catalog \in Catalog
  BY Positions
<1>2. catalog.words # <<>> => catalog.words[1] \in Int
  <2>1. catalog.words # <<>> => 1 \in 1..Len(catalog.words)
    BY <1>1, CatalogTyped
  <2>2. QED
    BY <1>1, <2>1, CatalogTyped
<1>3. QED
  BY <1>1, <1>2, CatalogTyped

\* The cut the decoder has followed is that of the whole table once it has all buckets.
LEMMA TheCut ==
    ASSUME JsonInv, pc # "start", Len(buckets) = catalog.words[1]
    PROVE  \E last \in Cuts :
              /\ IsCut(last, Len(buckets))
              /\ \A b \in 1..Len(buckets) :
                    /\ BucketOffset(b) = OffsetOf(last, b)
                    /\ BucketEntries(b) = EntriesOf(last, b)
              /\ pc \in {"keys", "locations"} => KeysInv(last)
              /\ pc = "locations" => LocationsInv(last)
<1>1. PICK last : /\ IsCut(last, Len(buckets))
                  /\ \A b \in 1..Len(buckets) :
                        /\ BucketOffset(b) = OffsetOf(last, b)
                        /\ BucketEntries(b) = EntriesOf(last, b)
  BY DEF JsonInv, BucketsInv
<1>2. catalog.words # <<>> /\ Len(buckets) \in Nat
  BY Positions DEF JsonInv, BucketsInv
<1>3. last \in Cuts
  BY <1>1, <1>2, Positions, WholeCut
<1>4. QED
  BY <1>1, <1>3 DEF JsonInv, TablesInv

\* What one more bucket leaves of a sequence of them.
LEMMA OneMore ==
    ASSUME NEW S, NEW seq \in Seq(S), NEW x \in S
    PROVE  /\ Append(seq, x) \in Seq(S)
           /\ Len(Append(seq, x)) = Len(seq) + 1
           /\ \A i \in 1..Len(seq) : Append(seq, x)[i] = seq[i]
           /\ Append(seq, x)[Len(seq) + 1] = x
           /\ Len(seq) \in Nat
  BY AppendProperties

\* The words at the cursor, when there are such.
LEMMA WordsAtCursor ==
    ASSUME JsonInv, cursor + 1 <= Len(catalog.words)
    PROVE  catalog.words[cursor] \in Int /\ catalog.words[cursor + 1] \in Int
<1>1. cursor \in 1..Len(catalog.words) /\ cursor + 1 \in 1..Len(catalog.words)
  BY Positions
<1>2. QED
  BY <1>1, Positions, CatalogTyped

\* The actions of Python, one by one.
LEMMA PythonDecodes ==
    ASSUME JsonInv, PythonStep
    PROVE  Decode /\ UNCHANGED <<parser, reference>>
<1> USE DEF Python!At, At, Python!Fail, Fail, Python!progress, progress
<1>1. /\ parser = "python" /\ parser' = "python" /\ reference' = reference
      /\ Python!Next
  BY DEF PythonStep
<1>2. ASSUME Python!Start PROVE Start
  <2>1. catalog.words = <<>> \/ catalog.words[1] < 0 => Cuts = {}
    <3>1. catalog.words # <<>> => catalog.words[1] \in Int
      BY Positions, CatalogTyped
    <3>2. QED
      BY <3>1, Positions, WholeCut
  <2>2. catalog.words # <<>> /\ ~(catalog.words[1] < 0) => catalog.words[1] >= 0
    BY CatalogNumbers
  <2>3. QED
    BY <1>2, <2>1, <2>2 DEF Python!Start, Start
<1>3. ASSUME Python!ReadBucket PROVE ReadBucket
  <2>1. Python!Readable <=> Readable
    BY DEF Python!Readable, Readable
  <2>2. CASE ~Readable
    BY <1>3, <2>1, <2>2 DEF Python!ReadBucket, ReadBucket
  <2>3. CASE Readable
    <3>1. PICK count, offset, entries :
            /\ count = catalog.words[cursor + 1] /\ offset = catalog.words[cursor]
            /\ entries = SubSeq(catalog.words, cursor + 2, cursor + 1 + count)
      OBVIOUS
    <3>2. /\ count \in Nat /\ offset \in Int /\ cursor + 1 + count <= Len(catalog.words)
      BY <2>3, <3>1, WordsAtCursor DEF Readable
    <3>3. entries \in Seq(Int)
      <4>1. \A i \in cursor + 2..cursor + 1 + count : i \in 1..Len(catalog.words)
        BY <3>2, Positions
      <4>2. \A i \in cursor + 2..cursor + 1 + count : catalog.words[i] \in Int
        BY <4>1, Positions, CatalogTyped
      <4>3. cursor + 2 \in Int /\ cursor + 1 + count \in Int
        BY <3>2, Positions
      <4>4. QED
        BY <3>1, <4>2, <4>3, SubSeqProperties
    <3>4. PICK bucket : bucket = [offset |-> offset, entries |-> entries]
      OBVIOUS
    <3>5. bucket \in BucketType /\ bucket.offset = offset /\ bucket.entries = entries
      BY <1>1, <3>2, <3>3, <3>4 DEF BucketType, Python!Bucket
    <3>6. /\ buckets' = Append(buckets, bucket) /\ cursor' = cursor + 2 + count
          /\ UNCHANGED <<catalog, pc, keys, locations, mapped, resources, outcome>>
          /\ At("buckets") /\ Len(buckets) < catalog.words[1]
      BY <1>3, <2>1, <2>3, <3>1, <3>4 DEF Python!ReadBucket
    <3>7. /\ Len(buckets') = Len(buckets) + 1 /\ buckets' \in Seq(BucketType)
          /\ \A b \in 1..Len(buckets) : buckets'[b] = buckets[b]
          /\ buckets'[Len(buckets) + 1] = bucket
      BY <3>5, <3>6, Positions, OneMore
    <3>8. BucketOffset(Len(buckets))' = offset /\ BucketEntries(Len(buckets))' = entries
      BY <1>1, <3>5, <3>7 DEF BucketOffset, BucketEntries
    <3>9. cursor' - 1 = cursor + 1 + count
      BY <3>2, <3>6, Positions
    <3>10. QED
      BY <2>3, <3>1, <3>6, <3>7, <3>8, <3>9 DEF ReadBucket
  <2>4. QED
    BY <2>2, <2>3
<1>4. ASSUME Python!KeyCount PROVE KeyCount
  BY <1>4 DEF Python!KeyCount, KeyCount
<1>5. ASSUME Python!ReadKey PROVE ReadKey
  <2>1. \A offset : Python!KeyOutcome(offset) = KeyError(offset)
    BY DEF Python!KeyOutcome, KeyError
  <2>2. BucketOffset(Len(keys) + 1) = buckets[Len(keys) + 1].offset
    BY <1>1 DEF BucketOffset
  <2>3. QED
    BY <1>5, <2>1, <2>2 DEF Python!ReadKey, ReadKey
<1>6. ASSUME Python!EntryCount PROVE EntryCount
  <2>1. HeaderSound <=> ~(\/ catalog.entryHeader = <<>>
                          \/ catalog.entryHeader[1] < 0
                          \/ catalog.entryHeader[1] > Len(catalog.entries))
    BY CatalogNumbers DEF HeaderSound
  <2>2. QED
    BY <1>6, <2>1 DEF Python!EntryCount, EntryCount
<1>7. ASSUME Python!ReadLocation PROVE ReadLocation
  <2>1. PICK r : r = catalog.entries[Len(locations) + 1]
    OBVIOUS
  <2>2. r \in Entry
    <3>1. PICK last \in Cuts : LocationsInv(last)
      BY <1>7, TheCut DEF Python!ReadLocation, JsonInv, TablesInv
    <3>2. catalog.entryHeader[1] \in Int /\ catalog.entryHeader[1] <= Len(catalog.entries)
      BY <3>1, CatalogNumbers DEF LocationsInv, HeaderSound
    <3>3. Len(locations) \in Nat /\ Len(locations) < catalog.entryHeader[1]
      BY <1>7, Numbers DEF Python!ReadLocation
    <3>4. Len(locations) + 1 \in 1..Len(catalog.entries)
      BY <3>2, <3>3, CatalogNumbers
    <3>5. QED
      BY <2>1, <3>4, Positions, CatalogTyped
  <2>3. (IF ~Python!FastTest(r) /\ Python!SlowPath(r) # "running" THEN Python!SlowPath(r)
         ELSE Python!DataOutcome(r)) = EntryError(r, Len(keys))
    BY <2>2, EntryOutcomes, Positions
  <2>4. QED
    BY <1>7, <2>1, <2>3, SharedOperators DEF Python!ReadLocation, ReadLocation
<1>8. ASSUME Python!MapBucket PROVE MapBucket
  <2>1. PICK key, entries : key = keys[mapped + 1] /\ entries = buckets[mapped + 1].entries
    OBVIOUS
  <2>2. entries \in Seq(Int) /\ entries = BucketEntries(mapped + 1)
    <3>1. mapped + 1 \in 1..Len(buckets)
      BY <1>8, Positions DEF Python!MapBucket
    <3>2. buckets[mapped + 1] \in Python!Bucket
      BY <1>1, <3>1, Positions, ElementOfSeq DEF BucketType
    <3>3. QED
      BY <1>1, <2>1, <3>2 DEF Python!Bucket, BucketEntries
  <2>3. BucketError(key, entries, Len(locations)) =
          IF Python!EntriesOutcome(entries) # "running" THEN Python!EntriesOutcome(entries)
          ELSE IF key = "options" THEN "catalog" ELSE "running"
    BY <2>2, EntriesOutcomes, Positions DEF BucketError
  <2>4. Python!Assign(key, entries) <=> Assign(key, entries)
    BY DEF Python!Assign, Assign
  <2>5. QED
    BY <1>8, <2>1, <2>2, <2>3, <2>4 DEF Python!MapBucket, MapBucket
<1>9. ASSUME Python!Finish PROVE Finish
  BY <1>9 DEF Python!Finish, Finish
<1>10. QED
  BY <1>1, <1>2, <1>3, <1>4, <1>5, <1>6, <1>7, <1>8, <1>9 DEF Python!Next, Decode

\* The actions of Rust, one by one.
LEMMA RustDecodes ==
    ASSUME JsonInv, RustStep
    PROVE  Decode /\ UNCHANGED <<parser, reference>>
<1> USE DEF Rust!At, At, Rust!Fail, Fail, Rust!progress, progress
<1>1. /\ parser = "rust" /\ parser' = "rust" /\ reference' = reference
      /\ parser # "python" /\ parser' # "python"
      /\ Rust!Next
  BY DEF RustStep
<1>2. ASSUME Rust!Start PROVE Start
  <2>1. (\/ catalog.words = <<>> \/ catalog.words[1] < 0
         \/ catalog.words[1] > (Len(catalog.words) - 1) \div 2) => Cuts = {}
    <3>1. catalog.words # <<>> => catalog.words[1] \in Int
      BY Positions, CatalogTyped
    <3>2. catalog.words # <<>> /\ catalog.words[1] > (Len(catalog.words) - 1) \div 2
            => Cuts = {}
      BY Positions, CountTooLarge
    <3>3. catalog.words = <<>> \/ catalog.words[1] < 0 => Cuts = {}
      BY <3>1, Positions, WholeCut
    <3>4. QED
      BY <3>2, <3>3
  <2>2. catalog.words # <<>> /\ ~(catalog.words[1] < 0) => catalog.words[1] >= 0
    BY CatalogNumbers
  <2>3. QED
    BY <1>2, <2>1, <2>2 DEF Rust!Start, Start
<1>3. ASSUME Rust!ReadBucket PROVE ReadBucket
  <2>1. PICK count, offset : /\ count = catalog.words[cursor + 1]
                             /\ offset = catalog.words[cursor]
    OBVIOUS
  <2>2. CASE \/ ~Rust!Has(cursor, 2) \/ offset < 0 \/ count < 0
             \/ ~Rust!Has(cursor + 2, count)
    <3>1. Fail("catalog") /\ At("buckets") /\ Len(buckets) < catalog.words[1]
      BY <1>3, <2>1, <2>2 DEF Rust!ReadBucket
    <3>2. ASSUME Readable PROVE FALSE
      <4>1. /\ count \in Int /\ offset \in Int /\ offset >= 0 /\ count >= 0
            /\ cursor + 1 + count <= Len(catalog.words)
            /\ cursor + 1 <= Len(catalog.words)
        BY <2>1, <3>2, WordsAtCursor DEF Readable
      <4>2. QED
        BY <2>2, <4>1, Positions DEF Rust!Has
    <3>3. QED
      BY <3>1, <3>2 DEF ReadBucket
  <2>3. CASE ~(\/ ~Rust!Has(cursor, 2) \/ offset < 0 \/ count < 0
               \/ ~Rust!Has(cursor + 2, count))
    <3>1. /\ cursor + 1 <= Len(catalog.words) /\ offset \in Nat /\ count \in Nat
          /\ cursor + 1 + count <= Len(catalog.words)
      <4>1. cursor + 1 <= Len(catalog.words)
        BY <2>3, Positions DEF Rust!Has
      <4>2. offset \in Int /\ count \in Int
        BY <2>1, <4>1, WordsAtCursor
      <4>3. QED
        BY <2>3, <4>1, <4>2, Positions DEF Rust!Has
    <3>2. Readable
      BY <2>1, <3>1 DEF Readable
    <3>3. PICK bucket : bucket = [key |-> offset, from |-> cursor + 2, to |-> cursor + 2 + count]
      OBVIOUS
    <3>4. /\ bucket \in BucketType
          /\ bucket.key = offset /\ bucket.from = cursor + 2 /\ bucket.to = cursor + 2 + count
      <4>1. cursor + 2 \in Nat /\ cursor + 2 + count \in Nat
        <5>1. count \in Nat
          BY <3>1
        <5>2. cursor \in Nat
          BY Positions
        <5>3. QED
          BY <5>1, <5>2
      <4>2. QED
        BY <1>1, <3>1, <3>3, <4>1 DEF BucketType, Rust!Bucket
    <3>5. /\ buckets' = Append(buckets, bucket) /\ cursor' = cursor + 2 + count
          /\ UNCHANGED <<catalog, pc, keys, locations, mapped, resources, outcome>>
          /\ At("buckets") /\ Len(buckets) < catalog.words[1]
      BY <1>3, <2>1, <2>3, <3>3 DEF Rust!ReadBucket
    <3>6. /\ Len(buckets') = Len(buckets) + 1 /\ buckets' \in Seq(BucketType)
          /\ \A b \in 1..Len(buckets) : buckets'[b] = buckets[b]
          /\ buckets'[Len(buckets) + 1] = bucket
      BY <3>4, <3>5, Positions, OneMore
    <3>7. /\ BucketOffset(Len(buckets))' = offset
          /\ BucketEntries(Len(buckets))' = SubSeq(catalog.words, cursor + 2, cursor' - 1)
      BY <1>1, <3>4, <3>5, <3>6 DEF BucketOffset, BucketEntries
    <3>8. QED
      BY <2>1, <3>2, <3>5, <3>6, <3>7 DEF ReadBucket
  <2>4. QED
    BY <2>2, <2>3
<1>4. ASSUME Rust!KeyCount PROVE KeyCount
  <2>1. catalog.words[1] >= 0
    BY <1>4 DEF Rust!KeyCount, JsonInv, BucketsInv
  <2>2. catalog.keyHeader # <<>> /\ catalog.keyHeader[1] < 0
          => catalog.keyHeader[1] # catalog.words[1]
    BY <2>1, CatalogNumbers
  <2>3. QED
    BY <1>4, <2>2 DEF Rust!KeyCount, KeyCount
<1>5. ASSUME Rust!ReadKey PROVE ReadKey
  <2>1. \A offset : Rust!KeyOutcome(offset) = KeyError(offset)
    BY DEF Rust!KeyOutcome, KeyError
  <2>2. BucketOffset(Len(keys) + 1) = buckets[Len(keys) + 1].key
    BY <1>1 DEF BucketOffset
  <2>3. QED
    BY <1>5, <2>1, <2>2 DEF Rust!ReadKey, ReadKey
<1>6. ASSUME Rust!EntryCount PROVE EntryCount
  <2>1. HeaderSound <=> ~(\/ catalog.entryHeader = <<>>
                          \/ catalog.entryHeader[1] < 0
                          \/ catalog.entryHeader[1] > Len(catalog.entries))
    BY CatalogNumbers DEF HeaderSound
  <2>2. QED
    BY <1>6, <2>1 DEF Rust!EntryCount, EntryCount
<1>7. ASSUME Rust!ReadLocation PROVE ReadLocation
  <2>1. PICK r : r = catalog.entries[Len(locations) + 1]
    OBVIOUS
  <2>2. r \in Entry
    <3>1. PICK last \in Cuts : LocationsInv(last)
      BY <1>7, TheCut DEF Rust!ReadLocation, JsonInv, TablesInv
    <3>2. catalog.entryHeader[1] \in Int /\ catalog.entryHeader[1] <= Len(catalog.entries)
      BY <3>1, CatalogNumbers DEF LocationsInv, HeaderSound
    <3>3. Len(locations) \in Nat /\ Len(locations) < catalog.entryHeader[1]
      BY <1>7, Numbers DEF Rust!ReadLocation
    <3>4. Len(locations) + 1 \in 1..Len(catalog.entries)
      BY <3>2, <3>3, CatalogNumbers
    <3>5. QED
      BY <2>1, <3>4, Positions, CatalogTyped
  <2>3. (IF Rust!IndexOutcome(r) # "running" THEN Rust!IndexOutcome(r)
         ELSE IF r.data < 0 THEN "running" ELSE Rust!ObjectOutcome(r.data))
          = EntryError(r, Len(keys))
    BY <2>2, EntryOutcomes, Positions
  <2>4. QED
    BY <1>7, <2>1, <2>3, SharedOperators DEF Rust!ReadLocation, ReadLocation
<1>8. ASSUME Rust!MapBucket PROVE MapBucket
  <2>1. PICK key, entries : key = keys[mapped + 1] /\ entries = BucketEntries(mapped + 1)
    OBVIOUS
  <2>2. entries = SubSeq(catalog.words, buckets[mapped + 1].from, buckets[mapped + 1].to - 1)
    BY <1>1, <2>1 DEF BucketEntries
  <2>3. entries \in Seq(Int)
    <3>1. pc # "start" /\ Len(buckets) = catalog.words[1] /\ mapped + 1 \in 1..Len(buckets)
      BY <1>8, Positions DEF Rust!MapBucket, JsonInv, TablesInv
    <3>2. PICK last \in Cuts : /\ IsCut(last, Len(buckets))
                               /\ entries = EntriesOf(last, mapped + 1)
      BY <2>1, <3>1, TheCut
    <3>3. QED
      BY <3>1, <3>2, Positions, EntriesTyped
  <2>4. BucketError(key, entries, Len(locations)) =
          IF Rust!EntriesOutcome(entries) # "running" THEN Rust!EntriesOutcome(entries)
          ELSE IF key = "options" THEN "catalog" ELSE "running"
    BY <2>3, EntriesOutcomes, Positions DEF BucketError
  <2>5. Rust!Assign(key, entries) <=> Assign(key, entries)
    BY DEF Rust!Assign, Assign
  <2>6. QED
    BY <1>8, <2>1, <2>2, <2>4, <2>5 DEF Rust!MapBucket, MapBucket
<1>9. ASSUME Rust!Finish PROVE Finish
  BY <1>9 DEF Rust!Finish, Finish
<1>10. QED
  BY <1>1, <1>2, <1>3, <1>4, <1>5, <1>6, <1>7, <1>8, <1>9 DEF Rust!Next, Decode

-----------------------------------------------------------------------------
(* The steps keep the invariant *)

\* What a catalog deserves does not change while it is decoded.
LEMMA CatalogStays ==
    ASSUME catalog' = catalog
    PROVE  /\ Cuts' = Cuts
           /\ \A last, n : IsCut(last, n)' <=> IsCut(last, n)
           /\ \A last, b : OffsetOf(last, b)' = OffsetOf(last, b)
           /\ \A last, b : KeyOf(last, b)' = KeyOf(last, b)
           /\ \A last, b : EntriesOf(last, b)' = EntriesOf(last, b)
           /\ \A last, i : LocationOf(last, i)' = LocationOf(last, i)
           /\ \A last : KeyErrors(last)' = KeyErrors(last)
           /\ EntryErrors' = EntryErrors
           /\ \A last : BucketErrors(last)' = BucketErrors(last)
           /\ HeaderSound' <=> HeaderSound
           /\ \A e : Verdict(e)' <=> Verdict(e)
           /\ \A last, n, map : MapUpTo(last, n, map)' <=> MapUpTo(last, n, map)
  BY DEF Cuts, IsCut, OffsetOf, KeyOf, EntriesOf, LocationOf, KeyErrors, KeyError, EntryErrors,
         EntryError, DataError, BucketErrors, BucketError, HeaderSound, Verdict, CutVerdict,
         MapUpTo, LastOfKey, InRange

\* A step that keeps all the tables refuses the catalog as it deserves, or accepts it so.
LEMMA EndsWell ==
    ASSUME JsonInv, UNCHANGED <<catalog, progress, parser, reference>>,
           outcome' # "running", Verdict(outcome'),
           outcome' = "done" => pc = "locations" /\ mapped = catalog.words[1]
    PROVE  JsonInv'
<1> USE DEF progress
<1>1. TypedInv'
  <2>1. outcome' \in {"done", "catalog", "read"} \cup IndexError
    BY Positions, VerdictMeans
  <2>2. QED
    BY <2>1 DEF JsonInv, TypedInv, TypeOK
<1>2. BucketsInv'
  BY DEF JsonInv, BucketsInv, IsCut, OffsetOf, EntriesOf, BucketOffset, BucketEntries
<1>3. TablesInv'
  <2>1. Cuts' = Cuts /\ \A last : KeysInv(last)' <=> KeysInv(last)
    BY CatalogStays DEF KeysInv, Sound
  <2>2. \A last : LocationsInv(last)' <=> LocationsInv(last)
    BY CatalogStays DEF LocationsInv, Sound
  <2>3. QED
    BY <2>1, <2>2 DEF JsonInv, TablesInv
<1>4. EndInv'
  BY CatalogStays DEF EndInv
<1>5. ReferenceInv'
  BY CatalogStays DEF JsonInv, ReferenceInv
<1>6. QED
  BY <1>1, <1>2, <1>3, <1>4, <1>5 DEF JsonInv

\* The header of the buckets.
LEMMA StartKeeps ==
    ASSUME JsonInv, Start, UNCHANGED <<parser, reference>>
    PROVE  JsonInv'
<1>1. CASE Fail("catalog") /\ Cuts = {}
  <2>1. Verdict("catalog")
    BY <1>1 DEF Verdict
  <2>2. QED
    BY <1>1, <2>1, EndsWell DEF Fail
<1>2. CASE /\ catalog.words # <<>> /\ catalog.words[1] >= 0
           /\ pc' = "buckets" /\ cursor' = 2
           /\ UNCHANGED <<catalog, buckets, keys, locations, mapped, resources, outcome>>
  <2>1. /\ pc = "start" /\ outcome = "running" /\ buckets = <<>> /\ cursor = 1
        /\ keys = <<>> /\ locations = <<>> /\ mapped = 0 /\ resources = [k \in {} |-> k]
    BY DEF Start, At, JsonInv, BucketsInv, TablesInv
  <2>2. TypedInv'
    <3>1. Len(catalog.words) >= 1 /\ Len(catalog.words) \in Nat
      BY <1>2, Positions, CatalogTyped
    <3>2. cursor' \in 1..Len(catalog.words) + 1
      BY <1>2, <3>1
    <3>3. QED
      BY <1>2, <3>2 DEF JsonInv, TypedInv, TypeOK
  <2>3. BucketsInv'
    <3>1. PICK last : last = [b \in 0..0 |-> 1]
      OBVIOUS
    <3>2. IsCut(last, 0) /\ last[0] = cursor' - 1
      BY <1>2, <3>1, Positions, CatalogTyped DEF IsCut
    <3>3. Len(buckets') = 0 /\ catalog.words[1] \in Int
      BY <1>2, <2>1, Positions, CatalogTyped
    <3>4. (/\ IsCut(last, Len(buckets))
           /\ last[Len(buckets)] = cursor - 1
           /\ \A b \in 1..Len(buckets) :
                 /\ BucketOffset(b) = OffsetOf(last, b)
                 /\ BucketEntries(b) = EntriesOf(last, b))'
      BY <1>2, <3>2, <3>3 DEF IsCut
    <3>5. pc' # "start" /\ catalog.words'[1] >= 0 /\ Len(buckets') <= catalog.words'[1]
          /\ catalog.words' # <<>>
      BY <1>2, <3>3
    <3>6. QED
      BY <3>4, <3>5 DEF BucketsInv
  <2>4. TablesInv'
    BY <1>2, <2>1 DEF TablesInv
  <2>5. EndInv' /\ ReferenceInv'
    BY <1>2, <2>1, CatalogStays DEF EndInv, Ended, JsonInv, ReferenceInv
  <2>6. QED
    BY <2>2, <2>3, <2>4, <2>5 DEF JsonInv
<1>3. QED
  BY <1>1, <1>2 DEF Start

\* A bucket, at the cursor and nowhere else.
LEMMA BucketKeeps ==
    ASSUME JsonInv, ReadBucket, UNCHANGED <<parser, reference>>
    PROVE  JsonInv'
<1>0. PICK at \in Nat, size \in Nat :
        at = cursor /\ size = Len(catalog.words) /\ at >= 1 /\ at <= size + 1
  BY Numbers
<1>1. /\ pc = "buckets" /\ outcome = "running" /\ Len(buckets) < catalog.words[1]
      /\ catalog.words # <<>> /\ catalog.words[1] >= 0 /\ catalog.words[1] \in Int
  BY CatalogNumbers DEF ReadBucket, At, JsonInv, BucketsInv
<1>2. PICK last : /\ IsCut(last, Len(buckets))
                  /\ last[Len(buckets)] = cursor - 1
                  /\ \A b \in 1..Len(buckets) :
                        /\ BucketOffset(b) = OffsetOf(last, b)
                        /\ BucketEntries(b) = EntriesOf(last, b)
  BY <1>1 DEF JsonInv, BucketsInv
<1>3. PICK n \in Nat : n = Len(buckets)
  BY Positions
<1>4. CASE Fail("catalog") /\ ~Readable
  <2>1. ASSUME NEW l \in Cuts PROVE FALSE
    <3>1. IsCut(l, catalog.words[1]) /\ catalog.words[1] \in Nat
      BY Positions, WholeCut
    <3>2. l[n] = cursor - 1
      BY <1>1, <1>2, <1>3, <3>1, OneCut, Positions
    <3>3. n + 1 \in 1..catalog.words[1] /\ (n + 1) - 1 = n
      BY <1>1, <1>3, <3>1
    <3>4. /\ l[n + 1] \in Nat /\ l[n] + 2 <= l[n + 1] /\ l[n + 1] <= Len(catalog.words)
          /\ catalog.words[l[n] + 1] \in Nat /\ catalog.words[l[n] + 2] \in Nat
          /\ l[n + 1] = l[n] + 2 + catalog.words[l[n] + 2]
      <4>1. PICK b : b = n + 1
        OBVIOUS
      <4>2. b \in 1..catalog.words[1] /\ b - 1 = n
        BY <3>3, <4>1
      <4>3. /\ l[b] \in Nat /\ l[b - 1] + 2 <= l[b] /\ l[b] <= Len(catalog.words)
            /\ catalog.words[l[b - 1] + 1] \in Nat /\ catalog.words[l[b - 1] + 2] \in Nat
            /\ l[b] = l[b - 1] + 2 + catalog.words[l[b - 1] + 2]
        BY <3>1, <4>2, BucketWords, Positions
      <4>4. QED
        BY <4>1, <4>2, <4>3
    <3>5. l[n] + 1 = cursor /\ l[n] + 2 = cursor + 1
      BY <3>2, Positions
    <3>6. Readable
      <4>1. PICK count \in Nat : count = catalog.words[cursor + 1]
        BY <3>4, <3>5
      <4>2. l[n + 1] = at - 1 + 2 + count /\ l[n + 1] <= size
        BY <1>0, <3>2, <3>4, <3>5, <4>1
      <4>3. at + 1 + count <= size /\ at + 1 <= size
        BY <1>0, <4>2
      <4>4. catalog.words[cursor] >= 0 /\ count >= 0
        BY <3>4, <3>5, <4>1
      <4>5. QED
        BY <1>0, <4>1, <4>3, <4>4 DEF Readable
    <3>7. QED
      BY <1>4, <3>6
  <2>2. Verdict("catalog")
    BY <2>1 DEF Verdict
  <2>3. QED
    BY <1>4, <2>2, EndsWell DEF Fail
<1>5. CASE /\ Readable
           /\ cursor' = cursor + 2 + catalog.words[cursor + 1]
           /\ buckets' \in Seq(BucketType)
           /\ Len(buckets') = Len(buckets) + 1
           /\ \A b \in 1..Len(buckets) : buckets'[b] = buckets[b]
           /\ BucketOffset(Len(buckets))' = catalog.words[cursor]
           /\ BucketEntries(Len(buckets))' = SubSeq(catalog.words, cursor + 2, cursor' - 1)
           /\ UNCHANGED <<catalog, pc, keys, locations, mapped, resources, outcome>>
  <2>1. PICK count \in Nat :
          /\ count = catalog.words[cursor + 1] /\ catalog.words[cursor] >= 0
          /\ cursor + 1 + count <= Len(catalog.words) /\ cursor' = cursor + 2 + count
    BY <1>5, WordsAtCursor DEF Readable
  <2>1a. /\ cursor + 1 + count = at + 1 + count /\ cursor' = at + 2 + count
        /\ at + 1 + count <= size
    BY <1>0, <2>1
  <2>2. keys = <<>> /\ locations = <<>> /\ mapped = 0 /\ resources = [k \in {} |-> k]
    BY <1>1 DEF JsonInv, TablesInv
  <2>3. TypedInv'
    <3>1. cursor' \in 1..Len(catalog.words) + 1
      BY <1>0, <2>1a
    <3>2. IF parser' = "python" THEN buckets' \in Seq(Python!Bucket)
          ELSE buckets' \in Seq(Rust!Bucket)
      BY <1>5 DEF BucketType
    <3>3. mapped' \in 0..Len(buckets')
      BY <1>3, <1>5, <2>2
    <3>4. QED
      BY <1>5, <3>1, <3>2, <3>3 DEF JsonInv, TypedInv, TypeOK
  <2>4. BucketsInv'
    <3>1. PICK more : more = [b \in 0..n + 1 |-> IF b = n + 1 THEN cursor + 1 + count ELSE last[b]]
      OBVIOUS
    <3>2. /\ more[n + 1] = cursor + 1 + count
          /\ \A b \in 0..n : more[b] = last[b]
      BY <1>3, <3>1
    <3>3. last[n] = cursor - 1 /\ more[n] = cursor - 1
      BY <1>2, <1>3, <3>2
    <3>4. IsCut(more, n + 1)
      <4>1. more \in [0..n + 1 -> 1..Len(catalog.words)]
        <5>1. ASSUME NEW b \in 0..n + 1
              PROVE  (IF b = n + 1 THEN cursor + 1 + count ELSE last[b]) \in 1..Len(catalog.words)
          <6>1. CASE b = n + 1
            BY <1>0, <2>1a, <6>1
          <6>2. CASE b # n + 1
            <7>1. b \in 0..n
              BY <6>2
            <7>2. last[b] \in 1..Len(catalog.words)
              BY <1>2, <1>3, <7>1 DEF IsCut
            <7>3. QED
              BY <6>2, <7>2
          <6>3. QED
            BY <6>1, <6>2
        <5>2. QED
          BY <3>1, <5>1
      <4>2. more[0] = 1
        BY <1>2, <1>3, <3>2 DEF IsCut
      <4>3. ASSUME NEW b \in 1..n + 1
            PROVE  /\ more[b - 1] + 2 <= more[b]
                   /\ catalog.words[more[b - 1] + 1] >= 0
                   /\ catalog.words[more[b - 1] + 2] = more[b] - more[b - 1] - 2
        <5>1. CASE b = n + 1
          <6>1. b - 1 = n /\ more[b - 1] = cursor - 1 /\ more[b] = cursor + 1 + count
            BY <1>3, <3>2, <3>3, <5>1
          <6>2. more[b - 1] + 1 = cursor /\ more[b - 1] + 2 = cursor + 1
            BY <6>1, Positions
          <6>3. more[b] - more[b - 1] - 2 = count /\ more[b - 1] + 2 <= more[b]
            <7>1. more[b - 1] = at - 1 /\ more[b] = at + 1 + count
              BY <1>0, <2>1a, <6>1
            <7>2. QED
              BY <1>0, <7>1
          <6>4. QED
            BY <2>1, <6>2, <6>3
        <5>2. CASE b # n + 1
          <6>1. b \in 1..n /\ b \in 0..n /\ b - 1 \in 0..n
            BY <5>2
          <6>2. more[b] = last[b] /\ more[b - 1] = last[b - 1]
            BY <3>2, <6>1
          <6>3. QED
            BY <1>2, <1>3, <6>1, <6>2 DEF IsCut
        <5>3. QED
          BY <5>1, <5>2
      <4>4. QED
        BY <4>1, <4>2, <4>3 DEF IsCut
    <3>5. more[n + 1] = cursor' - 1
      BY <1>0, <2>1a, <3>2
    <3>6. ASSUME NEW b \in 1..n + 1
          PROVE  /\ BucketOffset(b)' = OffsetOf(more, b)
                 /\ BucketEntries(b)' = EntriesOf(more, b)
      <4>1. CASE b = n + 1
        <5>1. b - 1 = n /\ more[b - 1] + 1 = cursor /\ more[b - 1] + 3 = cursor + 2
              /\ more[b] = cursor' - 1
          BY <3>3, <3>5, <4>1, Positions
        <5>2. BucketOffset(b)' = catalog.words[cursor]
              /\ BucketEntries(b)' = SubSeq(catalog.words, cursor + 2, cursor' - 1)
          BY <1>3, <1>5, <4>1
        <5>3. QED
          BY <5>1, <5>2 DEF OffsetOf, EntriesOf
      <4>2. CASE b # n + 1
        <5>1. b \in 1..n /\ b \in 0..n /\ b - 1 \in 0..n
          BY <4>2
        <5>2. more[b] = last[b] /\ more[b - 1] = last[b - 1] /\ buckets'[b] = buckets[b]
          BY <1>3, <1>5, <3>2, <5>1
        <5>3. BucketOffset(b)' = BucketOffset(b) /\ BucketEntries(b)' = BucketEntries(b)
          BY <1>5, <5>2 DEF BucketOffset, BucketEntries
        <5>4. QED
          BY <1>2, <1>3, <5>1, <5>2, <5>3 DEF OffsetOf, EntriesOf
      <4>3. QED
        BY <4>1, <4>2
    <3>7. Len(buckets') = n + 1 /\ Len(buckets') <= catalog.words[1]
      BY <1>1, <1>3, <1>5
    <3>8. \A b : /\ OffsetOf(more, b)' = OffsetOf(more, b)
                 /\ EntriesOf(more, b)' = EntriesOf(more, b)
      BY <1>5, CatalogStays
    <3>9. IsCut(more, Len(buckets))'
      BY <1>5, <3>4, <3>7 DEF IsCut
    <3>10. (/\ IsCut(more, Len(buckets))
            /\ more[Len(buckets)] = cursor - 1
            /\ \A b \in 1..Len(buckets) :
                 /\ BucketOffset(b) = OffsetOf(more, b)
                 /\ BucketEntries(b) = EntriesOf(more, b))'
      BY <3>5, <3>6, <3>7, <3>8, <3>9
    <3>11. pc' # "start" /\ catalog.words'[1] >= 0 /\ catalog.words' # <<>>
           /\ Len(buckets') <= catalog.words'[1]
      BY <1>1, <1>5, <3>7
    <3>12. QED
      BY <3>10, <3>11 DEF BucketsInv
  <2>5. TablesInv'
    BY <1>1, <1>5, <2>2 DEF TablesInv
  <2>6. EndInv' /\ ReferenceInv'
    BY <1>1, <1>5, CatalogStays DEF EndInv, Ended, JsonInv, ReferenceInv
  <2>7. QED
    BY <2>3, <2>4, <2>5, <2>6 DEF JsonInv
<1>6. QED
  BY <1>4, <1>5 DEF ReadBucket

\* A step that adds no bucket keeps what is known of them.
LEMMA BucketsStay ==
    ASSUME JsonInv, UNCHANGED <<catalog, cursor, buckets, parser>>,
           pc # "start", pc' # "start"
    PROVE  /\ BucketsInv'
           /\ \A b : BucketOffset(b)' = BucketOffset(b)
           /\ \A b : BucketEntries(b)' = BucketEntries(b)
<1>1. /\ \A b : BucketOffset(b)' = BucketOffset(b)
      /\ \A b : BucketEntries(b)' = BucketEntries(b)
  BY DEF BucketOffset, BucketEntries
<1>2. BucketsInv
  BY DEF JsonInv
<1>3. BucketsInv'
  BY <1>1, <1>2, CatalogStays DEF BucketsInv
<1>4. QED
  BY <1>1, <1>3

\* A step on which the decoder goes on has nothing to do with its end.
LEMMA GoesOn ==
    ASSUME JsonInv, UNCHANGED <<catalog, outcome, parser, reference>>, outcome = "running"
    PROVE  EndInv' /\ ReferenceInv'
  BY CatalogStays DEF EndInv, Ended, JsonInv, ReferenceInv

\* The count of the keys.
LEMMA KeyCountKeeps ==
    ASSUME JsonInv, KeyCount, UNCHANGED <<parser, reference>>
    PROVE  JsonInv'
<1>1. /\ pc = "buckets" /\ outcome = "running" /\ Len(buckets) = catalog.words[1]
      /\ keys = <<>> /\ locations = <<>> /\ mapped = 0 /\ resources = [k \in {} |-> k]
  BY DEF KeyCount, At, JsonInv, TablesInv
<1>2. PICK last \in Cuts : IsCut(last, Len(buckets))
  BY <1>1, TheCut
<1>3. CASE catalog.keyHeader = <<>>
  <2>1. Verdict("read")
    BY <1>2, <1>3 DEF Verdict, CutVerdict
  <2>2. QED
    BY <1>3, <2>1, EndsWell DEF KeyCount, Fail
<1>4. CASE catalog.keyHeader # <<>> /\ catalog.keyHeader[1] # catalog.words[1]
  <2>1. Verdict("catalog")
    BY <1>2, <1>4 DEF Verdict, CutVerdict
  <2>2. QED
    BY <1>4, <2>1, EndsWell DEF KeyCount, Fail
<1>5. CASE catalog.keyHeader # <<>> /\ catalog.keyHeader[1] = catalog.words[1]
  <2>1. /\ pc' = "keys"
        /\ UNCHANGED <<catalog, cursor, buckets, keys, locations, mapped, resources, outcome>>
    BY <1>5 DEF KeyCount
  <2>2. TypedInv'
    BY <2>1 DEF JsonInv, TypedInv, TypeOK
  <2>3. BucketsInv'
    BY <1>1, <2>1, BucketsStay
  <2>4. TablesInv'
    <3>1. Len(keys') = 0
      BY <1>1, <2>1
    <3>2. ASSUME NEW l PROVE KeysInv(l)'
      <4>1. Len(keys') <= Len(buckets') /\ 1..0 = {}
        BY <2>1, <3>1, Numbers
      <4>2. QED
        BY <1>5, <2>1, <3>1, <4>1 DEF KeysInv, Sound
    <3>3. QED
      BY <1>1, <2>1, <3>2 DEF TablesInv
  <2>5. QED
    BY <1>1, <2>1, <2>2, <2>3, <2>4, GoesOn DEF JsonInv
<1>6. QED
  BY <1>3, <1>4, <1>5

\* A key, at the offset its bucket gives.
LEMMA KeyKeeps ==
    ASSUME JsonInv, ReadKey, UNCHANGED <<parser, reference>>
    PROVE  JsonInv'
<1>1. /\ pc = "keys" /\ outcome = "running" /\ Len(buckets) = catalog.words[1]
      /\ locations = <<>> /\ mapped = 0 /\ resources = [k \in {} |-> k]
  BY DEF ReadKey, At, JsonInv, TablesInv
<1>2. PICK last \in Cuts :
        /\ IsCut(last, Len(buckets)) /\ KeysInv(last)
        /\ \A b \in 1..Len(buckets) : BucketOffset(b) = OffsetOf(last, b)
  BY <1>1, TheCut
<1>3. PICK n \in Nat, count \in Nat : n = Len(keys) /\ count = Len(buckets) /\ n < count
  BY Numbers DEF ReadKey
<1>4. PICK b : b = n + 1
  OBVIOUS
<1>5. b \in 1..count /\ \A c \in 1..b - 1 : c \in 1..n
  BY <1>3, <1>4
<1>6. /\ KeyErrors(last)[b] = KeyError(OffsetOf(last, b))
      /\ BucketOffset(Len(keys) + 1) = OffsetOf(last, b)
  BY <1>1, <1>2, <1>3, <1>4, <1>5 DEF KeyErrors
<1>7. /\ KeyError(OffsetOf(last, b)) = "running" <=> KeyOf(last, b) \in Key \cup {"options"}
      /\ KeyError(OffsetOf(last, b)) = "running" =>
            KeyOf(last, b) = catalog.keyRecords[OffsetOf(last, b) + 1]
  BY <1>2, <1>3, <1>5, KeyErrorMeans, Positions
<1>8. CASE KeyError(OffsetOf(last, b)) # "running"
  <2>1. PICK error : error = KeyError(OffsetOf(last, b))
    OBVIOUS
  <2>2. FirstError(KeyErrors(last), catalog.words[1], error)
    BY <1>1, <1>2, <1>3, <1>5, <1>6, <1>8, <2>1 DEF FirstError, KeysInv, Sound
  <2>3. ~Sound(KeyErrors(last), catalog.words[1])
    BY <2>2 DEF FirstError, Sound
  <2>4. Verdict(error)
    BY <1>2, <2>2, <2>3 DEF Verdict, CutVerdict, KeysInv
  <2>5. error # "done"
    BY <1>2, <1>3, <1>5, <2>1, KeyErrorMeans, Positions
  <2>6. outcome' = error /\ UNCHANGED <<catalog, progress>>
    BY <1>6, <1>8, <2>1 DEF ReadKey, Fail
  <2>7. QED
    BY <1>8, <2>1, <2>4, <2>5, <2>6, EndsWell
<1>9. CASE KeyError(OffsetOf(last, b)) = "running"
  <2>1. /\ keys' = Append(keys, KeyOf(last, b))
        /\ UNCHANGED <<catalog, pc, cursor, buckets, locations, mapped, resources, outcome>>
    BY <1>6, <1>7, <1>9 DEF ReadKey
  <2>2. /\ keys' \in Seq(Key \cup {"options"}) /\ Len(keys') = n + 1
        /\ \A c \in 1..n : keys'[c] = keys[c]
        /\ keys'[n + 1] = KeyOf(last, b)
    BY <1>3, <1>7, <1>9, <2>1, Positions, OneMore
  <2>3. TypedInv'
    BY <2>1, <2>2 DEF JsonInv, TypedInv, TypeOK
  <2>4. BucketsInv'
    BY <1>1, <2>1, BucketsStay
  <2>5. KeysInv(last)'
    <3>1. Len(keys') <= Len(buckets')
      BY <1>3, <2>1, <2>2
    <3>2. \A c \in 1..n + 1 : c \in 1..n \/ c = n + 1
      OBVIOUS
    <3>3. Sound(KeyErrors(last), n + 1)
      BY <1>2, <1>3, <1>4, <1>6, <1>9, <3>2 DEF KeysInv, Sound
    <3>4. \A c \in 1..n + 1 : keys'[c] = KeyOf(last, c)
      BY <1>2, <1>3, <1>4, <2>2, <3>2 DEF KeysInv
    <3>5. /\ KeyErrors(last)' = KeyErrors(last)
          /\ \A c : KeyOf(last, c)' = KeyOf(last, c)
      BY <2>1, CatalogStays
    <3>6. QED
      BY <1>2, <2>1, <2>2, <3>1, <3>3, <3>4, <3>5 DEF KeysInv, Sound
  <2>6. TablesInv'
    <3>1. Cuts' = Cuts /\ \A l \in Cuts : l = last
      BY <1>2, <2>1, CatalogStays, WholeCut, Positions
    <3>2. QED
      BY <1>1, <2>1, <2>5, <3>1 DEF TablesInv
  <2>7. QED
    BY <1>1, <2>1, <2>3, <2>4, <2>6, GoesOn DEF JsonInv
<1>10. QED
  BY <1>8, <1>9

\* The count of the locations.
LEMMA EntryCountKeeps ==
    ASSUME JsonInv, EntryCount, UNCHANGED <<parser, reference>>
    PROVE  JsonInv'
<1>1. /\ pc = "keys" /\ outcome = "running" /\ Len(buckets) = catalog.words[1]
      /\ Len(keys) = Len(buckets)
      /\ locations = <<>> /\ mapped = 0 /\ resources = [k \in {} |-> k]
  BY DEF EntryCount, At, JsonInv, TablesInv
<1>2. PICK last \in Cuts : KeysInv(last)
  BY <1>1, TheCut
<1>3. CASE ~HeaderSound
  <2>1. Verdict("catalog")
    BY <1>1, <1>2, <1>3 DEF Verdict, CutVerdict, KeysInv
  <2>2. QED
    BY <1>3, <2>1, EndsWell DEF EntryCount, Fail
<1>4. CASE HeaderSound
  <2>1. /\ pc' = "locations"
        /\ UNCHANGED <<catalog, cursor, buckets, keys, locations, mapped, resources, outcome>>
    BY <1>4 DEF EntryCount
  <2>2. TypedInv'
    BY <2>1 DEF JsonInv, TypedInv, TypeOK
  <2>3. BucketsInv'
    BY <1>1, <2>1, BucketsStay
  <2>4. KeysInv(last)'
    BY <1>2, <2>1, CatalogStays DEF KeysInv, Sound
  <2>5. LocationsInv(last)'
    <3>1. Len(locations') = 0 /\ 1..0 = {} /\ Len(buckets') \in Nat
      BY <1>1, <2>1, Numbers
    <3>2. catalog.entryHeader[1] >= 0
      BY <1>4, Positions, CatalogTyped DEF HeaderSound
    <3>3. MapUpTo(last, 0, resources')
      <4>1. {KeyOf(last, b) : b \in 1..0} = {}
        BY <3>1
      <4>2. QED
        BY <1>1, <2>1, <3>1, <4>1 DEF MapUpTo
    <3>4. MapUpTo(last, mapped, resources)'
      BY <1>1, <2>1, <3>3 DEF MapUpTo, LastOfKey, KeyOf, EntriesOf, LocationOf
    <3>5. HeaderSound'
      BY <1>4, <2>1, CatalogStays
    <3>6. QED
      BY <1>1, <2>1, <3>1, <3>2, <3>4, <3>5 DEF LocationsInv, Sound
  <2>6. TablesInv'
    <3>1. Cuts' = Cuts /\ \A l \in Cuts : l = last
      BY <1>2, <2>1, CatalogStays, WholeCut, Positions
    <3>2. QED
      BY <1>1, <2>1, <2>4, <2>5, <3>1 DEF TablesInv
  <2>7. QED
    BY <1>1, <2>1, <2>2, <2>3, <2>6, GoesOn DEF JsonInv
<1>5. QED
  BY <1>3, <1>4

\* A location record whose indexes are in range gives the location they say.
LEMMA LocationRead ==
    ASSUME JsonInv, NEW last \in Cuts, KeysInv(last), Len(keys) = catalog.words[1],
           NEW i \in 1..Len(catalog.entries),
           EntryError(catalog.entries[i], Len(keys)) = "running"
    PROVE  Location(catalog.entries[i]) = LocationOf(last, i)
           /\ Location(catalog.entries[i]) \in LocationRecord
<1>1. PICK r : r = catalog.entries[i]
  OBVIOUS
<1>2. r \in Entry /\ EntryWellFormed(r, Len(keys))
  BY <1>1, EntryErrorMeans, CatalogTyped, Positions
<1>3. /\ r.internal \in Int /\ r.provider \in Int /\ r.dependency \in Int /\ r.data \in Int
      /\ r.primary \in Int /\ r.type \in Int
  BY <1>2 DEF Entry
<1>4. \A b \in 1..Len(keys) : keys[b] = KeyOf(last, b) /\ keys[b] \in Key \cup {"options"}
  BY Positions, ElementOfSeq DEF KeysInv
<1>5. PICK dependency :
        dependency = IF r.dependency < 0 THEN <<>> ELSE <<keys[r.dependency + 1]>>
  OBVIOUS
<1>6. /\ dependency = IF r.dependency < 0 THEN <<>> ELSE <<KeyOf(last, r.dependency + 1)>>
      /\ dependency \in Seq(Key \cup {"options"})
  <2>1. CASE r.dependency < 0
    BY <1>5, <2>1
  <2>2. CASE ~(r.dependency < 0)
    <3>1. r.dependency + 1 \in 1..Len(keys)
      <4>1. r.dependency < Len(keys)
        BY <1>2 DEF EntryWellFormed
      <4>2. PICK d \in Int, n \in Nat : d = r.dependency /\ n = Len(keys)
        BY <1>3, Numbers
      <4>3. d + 1 \in 1..n
        BY <2>2, <4>1, <4>2
      <4>4. QED
        BY <4>2, <4>3
    <3>2. PICK key : key = keys[r.dependency + 1]
      OBVIOUS
    <3>3. key \in Key \cup {"options"} /\ key = KeyOf(last, r.dependency + 1)
      BY <1>4, <3>1, <3>2
    <3>4. <<key>> \in Seq(Key \cup {"options"})
      BY <3>3
    <3>5. QED
      BY <1>5, <2>2, <3>2, <3>3, <3>4
  <2>3. QED
    BY <2>1, <2>2
<1>7. PICK data : data = IF r.data < 0 THEN <<>> ELSE <<catalog.extra[r.data + 1]>>
  OBVIOUS
<1>8. data \in Seq(ExtraRecord)
  <2>1. CASE r.data < 0
    BY <1>7, <2>1
  <2>2. CASE ~(r.data < 0)
    <3>1. r.data >= 0
      BY <1>3, <2>2
    <3>2. catalog.extra[r.data + 1] = "value"
      BY <1>2, <3>1 DEF EntryWellFormed
    <3>3. <<"value">> \in Seq(ExtraRecord)
      BY DEF ExtraRecord
    <3>4. QED
      BY <1>7, <2>2, <3>2, <3>3
  <2>3. QED
    BY <2>1, <2>2
<1>9. PICK primary : primary = PrimaryKeys[r.primary + 1]
  OBVIOUS
<1>10. /\ primary = IF catalog.override THEN catalog.display[r.primary + 1]
                    ELSE KeyOf(last, r.primary + 1)
       /\ primary \in Key \cup {"options"}
  <2>1. CASE catalog.override
    <3>1. r.primary \in 0..Len(catalog.display) - 1
      BY <1>2, <2>1 DEF EntryWellFormed
    <3>2. Len(catalog.display) \in Nat
      BY Positions, CatalogTyped
    <3>3. r.primary + 1 \in 1..Len(catalog.display)
      BY <3>1, <3>2
    <3>4. catalog.display[r.primary + 1] \in Key
      BY <3>3, Positions, CatalogTyped
    <3>5. QED
      BY <1>9, <2>1, <3>4 DEF PrimaryKeys
  <2>2. CASE ~catalog.override
    <3>1. r.primary \in 0..Len(keys) - 1
      BY <1>2, <2>2 DEF EntryWellFormed
    <3>2. Len(keys) \in Nat
      BY Numbers
    <3>3. r.primary + 1 \in 1..Len(keys)
      BY <3>1, <3>2
    <3>4. QED
      BY <1>4, <1>9, <2>2, <3>3 DEF PrimaryKeys
  <2>3. QED
    BY <2>1, <2>2
<1>11. Location(r) = [internal |-> r.internal, provider |-> r.provider, type |-> r.type,
                      dependency |-> dependency, data |-> data, primary |-> primary]
  BY <1>5, <1>7, <1>9 DEF Location
<1>12. LocationOf(last, i) = [internal |-> r.internal, provider |-> r.provider, type |-> r.type,
                              dependency |-> dependency, data |-> data, primary |-> primary]
  BY <1>1, <1>6, <1>7, <1>10 DEF LocationOf
<1>13. Location(r) \in LocationRecord
  BY <1>3, <1>6, <1>8, <1>10, <1>11 DEF LocationRecord
<1>14. QED
  BY <1>1, <1>11, <1>12, <1>13

\* A location record.
LEMMA LocationKeeps ==
    ASSUME JsonInv, ReadLocation, UNCHANGED <<parser, reference>>
    PROVE  JsonInv'
<1>1. /\ pc = "locations" /\ outcome = "running" /\ Len(buckets) = catalog.words[1]
  BY DEF ReadLocation, At, JsonInv, TablesInv
<1>2. PICK last \in Cuts : KeysInv(last) /\ LocationsInv(last)
  BY <1>1, TheCut
<1>3. Len(keys) = catalog.words[1] /\ HeaderSound
  BY <1>1, <1>2 DEF LocationsInv
<1>4. PICK n \in Nat, count \in Nat :
        /\ n = Len(locations) /\ count = catalog.entryHeader[1] /\ n < count
        /\ count <= Len(catalog.entries)
  BY <1>3, Numbers, CatalogNumbers DEF ReadLocation, HeaderSound
<1>5. PICK i : i = n + 1
  OBVIOUS
<1>6. i \in 1..count /\ i \in 1..Len(catalog.entries) /\ \A c \in 1..i - 1 : c \in 1..n
  <2>1. Len(catalog.entries) \in Nat
    BY Positions, CatalogTyped
  <2>2. QED
    BY <1>4, <1>5, <2>1
<1>7. EntryErrors[i] = EntryError(catalog.entries[i], Len(keys))
  BY <1>3, <1>6 DEF EntryErrors
<1>8. catalog.entries[i] \in Entry
  BY <1>6, Positions, CatalogTyped
<1>9. CASE EntryError(catalog.entries[i], Len(keys)) # "running"
  <2>1. PICK error : error = EntryError(catalog.entries[i], Len(keys))
    OBVIOUS
  <2>2. FirstError(EntryErrors, count, error)
    BY <1>2, <1>4, <1>6, <1>7, <1>9, <2>1 DEF FirstError, LocationsInv, Sound
  <2>3. ~Sound(EntryErrors, count)
    BY <2>2 DEF FirstError, Sound
  <2>4. Verdict(error)
    BY <1>2, <1>3, <1>4, <2>2, <2>3 DEF Verdict, CutVerdict, KeysInv
  <2>5. error # "done"
    BY <1>8, <2>1, EntryErrorMeans, Numbers, Positions DEF IndexError
  <2>6. outcome' = error /\ UNCHANGED <<catalog, progress>>
    BY <1>4, <1>5, <1>9, <2>1 DEF ReadLocation, Fail
  <2>7. QED
    BY <1>9, <2>1, <2>4, <2>5, <2>6, EndsWell
<1>10. CASE EntryError(catalog.entries[i], Len(keys)) = "running"
  <2>1. /\ locations' = Append(locations, LocationOf(last, i))
        /\ UNCHANGED <<catalog, pc, cursor, buckets, keys, mapped, resources, outcome>>
        /\ LocationOf(last, i) \in LocationRecord
    BY <1>2, <1>3, <1>4, <1>5, <1>6, <1>10, LocationRead DEF ReadLocation
  <2>2. /\ locations' \in Seq(LocationRecord) /\ Len(locations') = n + 1
        /\ \A c \in 1..n : locations'[c] = locations[c]
        /\ locations'[n + 1] = LocationOf(last, i)
    BY <1>4, <2>1, Positions, OneMore
  <2>3. TypedInv'
    BY <2>1, <2>2 DEF JsonInv, TypedInv, TypeOK
  <2>4. BucketsInv'
    BY <1>1, <2>1, BucketsStay
  <2>5. KeysInv(last)'
    BY <1>2, <2>1, CatalogStays DEF KeysInv, Sound
  <2>6. LocationsInv(last)'
    <3>1. \A c \in 1..n + 1 : c \in 1..n \/ c = n + 1
      OBVIOUS
    <3>2. Sound(EntryErrors, n + 1)
      BY <1>2, <1>4, <1>5, <1>7, <1>10, <3>1 DEF LocationsInv, Sound
    <3>3. \A c \in 1..n + 1 : locations'[c] = LocationOf(last, c)
      BY <1>2, <1>4, <1>5, <2>2, <3>1 DEF LocationsInv
    <3>4. /\ EntryErrors' = EntryErrors
          /\ \A c : LocationOf(last, c)' = LocationOf(last, c)
          /\ BucketErrors(last)' = BucketErrors(last)
          /\ HeaderSound'
          /\ MapUpTo(last, mapped, resources)' <=> MapUpTo(last, mapped, resources)
      BY <1>3, <2>1, CatalogStays
    <3>5. ~(mapped > 0) /\ n + 1 <= count
      BY <1>2, <1>4 DEF LocationsInv
    <3>6. QED
      BY <1>2, <1>4, <2>1, <2>2, <3>2, <3>3, <3>4, <3>5 DEF LocationsInv, Sound
  <2>7. TablesInv'
    <3>1. Cuts' = Cuts /\ \A l \in Cuts : l = last
      BY <1>2, <2>1, CatalogStays, WholeCut, Positions
    <3>2. QED
      BY <1>1, <2>1, <2>5, <2>6, <3>1 DEF TablesInv
  <2>8. QED
    BY <1>1, <2>1, <2>3, <2>4, <2>7, GoesOn DEF JsonInv
<1>11. QED
  BY <1>9, <1>10

\* A bucket put into the resource map: a key that came before gives way.
LEMMA MapKeeps ==
    ASSUME JsonInv, MapBucket, UNCHANGED <<parser, reference>>
    PROVE  JsonInv'
<1>1. /\ pc = "locations" /\ outcome = "running" /\ Len(buckets) = catalog.words[1]
  BY DEF MapBucket, At, JsonInv, TablesInv
<1>2. PICK last \in Cuts :
        /\ IsCut(last, Len(buckets)) /\ KeysInv(last) /\ LocationsInv(last)
        /\ \A b \in 1..Len(buckets) : BucketEntries(b) = EntriesOf(last, b)
  BY <1>1, TheCut
<1>3. Len(keys) = catalog.words[1] /\ HeaderSound /\ MapUpTo(last, mapped, resources)
  BY <1>1, <1>2 DEF LocationsInv
<1>4. PICK m \in Nat, n \in Nat, count \in Nat :
        /\ m = mapped /\ n = Len(buckets) /\ m < n
        /\ count = catalog.entryHeader[1] /\ count = Len(locations)
  BY Numbers DEF MapBucket
<1>5. PICK b : b = m + 1
  OBVIOUS
<1>6. b \in 1..n /\ \A c \in 1..b - 1 : c \in 1..m
  BY <1>4, <1>5
<1>7. PICK key, entries : key = KeyOf(last, b) /\ entries = EntriesOf(last, b)
  OBVIOUS
<1>8. keys[mapped + 1] = key /\ BucketEntries(mapped + 1) = entries
  BY <1>1, <1>2, <1>3, <1>4, <1>5, <1>6, <1>7 DEF KeysInv
<1>9. key \in Key \cup {"options"}
  <2>1. b \in 1..Len(keys)
    BY <1>1, <1>3, <1>4, <1>6
  <2>2. keys[b] \in Key \cup {"options"}
    BY <2>1, Positions, ElementOfSeq
  <2>3. QED
    BY <1>4, <1>5, <1>8, <2>2
<1>10. entries \in Seq(Int) /\ Len(entries) \in Nat /\ DOMAIN entries = 1..Len(entries)
  BY <1>2, <1>4, <1>6, <1>7, EntriesTyped, Positions
<1>11. BucketErrors(last)[b] = BucketError(key, entries, count)
  BY <1>1, <1>4, <1>6, <1>7 DEF BucketErrors
<1>12. CASE BucketError(key, entries, count) # "running"
  <2>1. PICK error : error = BucketError(key, entries, count)
    OBVIOUS
  <2>2. FirstError(BucketErrors(last), n, error)
    BY <1>2, <1>4, <1>6, <1>11, <1>12, <2>1 DEF FirstError, LocationsInv, Sound
  <2>3. ~Sound(BucketErrors(last), n)
    BY <2>2 DEF FirstError, Sound
  <2>4. Sound(KeyErrors(last), n) /\ Sound(EntryErrors, count)
    BY <1>1, <1>2, <1>3, <1>4 DEF KeysInv, LocationsInv
  <2>5. Verdict(error)
    BY <1>1, <1>2, <1>3, <1>4, <2>2, <2>3, <2>4 DEF Verdict, CutVerdict, KeysInv
  <2>6. error # "done"
    BY <1>10, <2>1, BucketErrorMeans
  <2>7. outcome' = error /\ UNCHANGED <<catalog, progress>>
    BY <1>4, <1>8, <1>12, <2>1 DEF MapBucket, Fail
  <2>8. QED
    BY <1>12, <2>1, <2>5, <2>6, <2>7, EndsWell
<1>13. CASE BucketError(key, entries, count) = "running"
  <2>1. /\ Assign(key, entries) /\ mapped' = m + 1
        /\ UNCHANGED <<catalog, pc, cursor, buckets, keys, locations, outcome>>
    BY <1>4, <1>8, <1>13 DEF MapBucket
  <2>2. /\ key \in Key
        /\ \A e \in 1..Len(entries) : entries[e] \in 0..count - 1
    BY <1>9, <1>10, <1>13, BucketErrorMeans
  <2>3. PICK value : value = [i \in 1..Len(entries) |-> LocationOf(last, entries[i] + 1)]
    OBVIOUS
  <2>4. [i \in DOMAIN entries |-> locations[entries[i] + 1]] = value
    <3>1. \A i \in 1..Len(entries) : entries[i] + 1 \in 1..Len(locations)
      BY <1>4, <2>2
    <3>2. \A i \in 1..Len(entries) : locations[entries[i] + 1] = LocationOf(last, entries[i] + 1)
      BY <1>2, <3>1 DEF LocationsInv
    <3>3. QED
      BY <1>10, <2>3, <3>2
  <2>5. resources' = [k \in DOMAIN resources \cup {key} |->
                        IF k = key THEN value ELSE resources[k]]
    BY <2>1, <2>4 DEF Assign
  <2>6. DOMAIN resources = {KeyOf(last, c) : c \in 1..m}
    BY <1>3, <1>4 DEF MapUpTo
  <2>7. \A c \in 1..m + 1 : c \in 1..m \/ c = b
    BY <1>5
  <2>8. MapUpTo(last, m + 1, resources')
    <3>1. DOMAIN resources \cup {key} = {KeyOf(last, c) : c \in 1..m + 1}
      <4>1. \A c \in 1..m : c \in 1..m + 1
        OBVIOUS
      <4>2. b \in 1..m + 1
        BY <1>5
      <4>3. QED
        BY <1>7, <2>6, <2>7, <4>1, <4>2
    <3>2. resources' = [k \in {KeyOf(last, c) : c \in 1..m + 1} |-> resources'[k]]
      BY <2>5, <3>1
    <3>3. ASSUME NEW c \in 1..m + 1, LastOfKey(last, c, m + 1)
          PROVE  resources'[KeyOf(last, c)] =
                   [i \in 1..Len(EntriesOf(last, c)) |->
                       LocationOf(last, EntriesOf(last, c)[i] + 1)]
      <4>1. CASE c = b
        BY <1>7, <2>3, <2>5, <4>1
      <4>2. CASE c # b
        <5>1. c \in 1..m
          BY <2>7, <4>2
        <5>2. KeyOf(last, c) # key
          <6>1. b \in c + 1..m + 1
            BY <1>5, <5>1
          <6>2. QED
            BY <1>7, <3>3, <6>1 DEF LastOfKey
        <5>3. LastOfKey(last, c, m)
          <6>1. \A d \in c + 1..m : d \in c + 1..m + 1
            BY <5>1
          <6>2. QED
            BY <3>3, <6>1 DEF LastOfKey
        <5>4. resources'[KeyOf(last, c)] = resources[KeyOf(last, c)]
          BY <2>5, <2>6, <5>1, <5>2
        <5>5. QED
          BY <1>3, <1>4, <5>1, <5>3, <5>4 DEF MapUpTo
      <4>3. QED
        BY <4>1, <4>2
    <3>4. QED
      BY <3>2, <3>3 DEF MapUpTo
  <2>9. TypedInv'
    <3>1. mapped' \in 0..Len(buckets')
      BY <1>4, <2>1
    <3>2. DOMAIN resources' \subseteq Key
      BY <2>2, <2>5 DEF JsonInv, TypedInv, TypeOK
    <3>3. QED
      BY <2>1, <3>1, <3>2 DEF JsonInv, TypedInv, TypeOK
  <2>10. BucketsInv'
    BY <1>1, <2>1, BucketsStay
  <2>11. KeysInv(last)'
    BY <1>2, <2>1, CatalogStays DEF KeysInv, Sound
  <2>12. LocationsInv(last)'
    <3>1. Sound(BucketErrors(last), m + 1)
      BY <1>2, <1>4, <1>11, <1>13, <2>7 DEF LocationsInv, Sound
    <3>2. /\ EntryErrors' = EntryErrors
          /\ \A c : LocationOf(last, c)' = LocationOf(last, c)
          /\ BucketErrors(last)' = BucketErrors(last)
          /\ HeaderSound'
      BY <1>3, <2>1, CatalogStays
    <3>3. MapUpTo(last, mapped, resources)'
      <4>1. /\ \A c : KeyOf(last, c)' = KeyOf(last, c)
            /\ \A c : EntriesOf(last, c)' = EntriesOf(last, c)
            /\ \A c : LocationOf(last, c)' = LocationOf(last, c)
        BY <2>1, CatalogStays
      <4>2. mapped' = m + 1
        BY <2>1
      <4>3. \A c, k : LastOfKey(last, c, k)' <=> LastOfKey(last, c, k)
        BY <4>1 DEF LastOfKey
      <4>4. QED
        BY <2>8, <4>1, <4>2, <4>3 DEF MapUpTo
    <3>4. mapped' <= Len(buckets') /\ Len(locations') = catalog.entryHeader'[1]
      <4>1. m + 1 <= n
        BY <1>4
      <4>2. QED
        BY <1>4, <2>1, <4>1
    <3>5. QED
      BY <1>2, <1>4, <2>1, <3>1, <3>2, <3>3, <3>4 DEF LocationsInv, Sound
  <2>13. TablesInv'
    <3>1. Cuts' = Cuts /\ \A l \in Cuts : l = last
      BY <1>2, <2>1, CatalogStays, WholeCut, Positions
    <3>2. QED
      BY <1>1, <2>1, <2>11, <2>12, <3>1 DEF TablesInv
  <2>14. EndInv' /\ ReferenceInv'
    BY <1>1, <2>1, GoesOn
  <2>15. QED
    BY <2>9, <2>10, <2>13, <2>14 DEF JsonInv
<1>14. QED
  BY <1>12, <1>13

\* The end of the map.
LEMMA FinishKeeps ==
    ASSUME JsonInv, Finish, UNCHANGED <<parser, reference>>
    PROVE  JsonInv'
<1>1. /\ pc = "locations" /\ outcome = "running" /\ Len(buckets) = catalog.words[1]
      /\ Len(locations) = catalog.entryHeader[1] /\ mapped = catalog.words[1]
  BY DEF Finish, At, JsonInv, TablesInv
<1>2. PICK last \in Cuts : KeysInv(last) /\ LocationsInv(last)
  BY <1>1, TheCut
<1>3. Verdict("done")
  BY <1>1, <1>2 DEF Verdict, CutVerdict, KeysInv, LocationsInv
<1>4. QED
  BY <1>1, <1>3, EndsWell DEF Finish

\* Rust begins, with what Python gave kept.
LEMMA StartRustKeeps ==
    ASSUME JsonInv, StartRust
    PROVE  JsonInv'
<1>1. /\ parser = "python" /\ Ended /\ parser' = "rust" /\ reference' = Given
      /\ pc' = "start" /\ cursor' = 1 /\ buckets' = <<>> /\ keys' = <<>> /\ locations' = <<>>
      /\ mapped' = 0 /\ resources' = [k \in {} |-> k] /\ outcome' = "running"
      /\ catalog' = catalog
  BY DEF StartRust
<1>2. TypedInv'
  <2>1. /\ buckets' \in Seq(Rust!Bucket) /\ keys' \in Seq(Key \cup {"options"})
        /\ locations' \in Seq(LocationRecord)
        /\ Len(buckets') = 0 /\ DOMAIN resources' = {}
    BY <1>1
  <2>2. cursor' \in 1..Len(catalog.words) + 1
    BY <1>1, Numbers
  <2>3. mapped' \in 0..Len(buckets')
    BY <1>1, <2>1
  <2>4. TypeOK'
    BY <1>1, <2>1, <2>2, <2>3 DEF TypeOK
  <2>5. QED
    BY <1>1, <2>1, <2>4, Positions DEF TypedInv
<1>3. BucketsInv' /\ TablesInv' /\ EndInv'
  BY <1>1 DEF BucketsInv, TablesInv, EndInv, Ended
<1>4. ReferenceInv'
  <2>1. /\ Given.outcome = outcome
        /\ Given.resources = IF outcome = "done" THEN resources ELSE [k \in {} |-> k]
        /\ Given = [outcome |-> Given.outcome, resources |-> Given.resources]
    BY DEF Given
  <2>2. Verdict(outcome) /\ outcome # "running"
    BY <1>1 DEF JsonInv, EndInv, Ended
  <2>3. ASSUME outcome = "done", NEW last \in Cuts
        PROVE  MapUpTo(last, catalog.words[1], resources)
    BY <2>3 DEF JsonInv, EndInv, TablesInv, LocationsInv
  <2>4. /\ Cuts' = Cuts
        /\ Verdict(outcome)' <=> Verdict(outcome')
        /\ \A e : Verdict(e)' <=> Verdict(e)
        /\ \A last, n, map : MapUpTo(last, n, map)' <=> MapUpTo(last, n, map)
    BY <1>1, CatalogStays
  <2>5. QED
    BY <1>1, <2>1, <2>2, <2>3, <2>4 DEF ReferenceInv
<1>5. QED
  BY <1>2, <1>3, <1>4 DEF JsonInv

\* Every catalog that is looked at can be decoded from the start.
LEMMA JsonInitially ==
    ASSUME BothInit
    PROVE  JsonInv
<1>1. /\ parser = "python" /\ catalog \in Catalog
      /\ pc = "start" /\ cursor = 1 /\ buckets = <<>> /\ keys = <<>> /\ locations = <<>>
      /\ mapped = 0 /\ resources = [k \in {} |-> k] /\ outcome = "running"
  BY CatalogsAssumption DEF BothInit, Init
<1>2. TypedInv
  <2>1. /\ buckets \in Seq(Python!Bucket) /\ keys \in Seq(Key \cup {"options"})
        /\ locations \in Seq(LocationRecord)
        /\ Len(buckets) = 0 /\ DOMAIN resources = {}
    BY <1>1
  <2>2. cursor \in 1..Len(catalog.words) + 1
    BY <1>1, WordCount
  <2>3. mapped \in 0..Len(buckets)
    BY <1>1, <2>1
  <2>4. TypeOK
    BY <1>1, <2>1, <2>2, <2>3 DEF TypeOK
  <2>5. QED
    BY <1>1, <2>1, <2>4 DEF TypedInv
<1>3. BucketsInv /\ TablesInv /\ EndInv /\ ReferenceInv
  BY <1>1 DEF BucketsInv, TablesInv, EndInv, Ended, ReferenceInv
<1>4. QED
  BY <1>2, <1>3 DEF JsonInv

\* A step that changes nothing.
LEMMA JsonStutters ==
    ASSUME JsonInv, UNCHANGED <<vars, parser, reference>>
    PROVE  JsonInv'
<1> USE DEF vars, progress
<1>1. TypedInv'
  BY DEF JsonInv, TypedInv, TypeOK
<1>2. BucketsInv'
  BY DEF JsonInv, BucketsInv, IsCut, OffsetOf, EntriesOf, BucketOffset, BucketEntries
<1>3. TablesInv'
  <2>1. Cuts' = Cuts /\ \A last : KeysInv(last)' <=> KeysInv(last)
    BY CatalogStays DEF KeysInv, Sound
  <2>2. \A last : LocationsInv(last)' <=> LocationsInv(last)
    BY CatalogStays DEF LocationsInv, Sound
  <2>3. QED
    BY <2>1, <2>2 DEF JsonInv, TablesInv
<1>4. EndInv' /\ ReferenceInv'
  BY CatalogStays DEF EndInv, Ended, JsonInv, ReferenceInv
<1>5. QED
  BY <1>1, <1>2, <1>3, <1>4 DEF JsonInv

-----------------------------------------------------------------------------
(* The theorems *)

\* The invariant holds of every state of both parses: what has been read so far is what
\* the one way to cut the bucket table says, and a backend that has ended ended as the
\* tables deserve.
THEOREM JsonInvariant == Spec => []JsonInv
<1>1. BothInit => JsonInv
  BY JsonInitially
<1>2. JsonInv /\ [BothNext]_<<vars, parser, reference>> => JsonInv'
  <2>1. SUFFICES ASSUME JsonInv, [BothNext]_<<vars, parser, reference>>
                 PROVE  JsonInv'
    OBVIOUS
  <2>2. ASSUME Decode, UNCHANGED <<parser, reference>> PROVE JsonInv'
    BY <2>1, <2>2, StartKeeps, BucketKeeps, KeyCountKeeps, KeyKeeps, EntryCountKeeps,
       LocationKeeps, MapKeeps, FinishKeeps DEF Decode
  <2>3. CASE PythonStep
    BY <2>1, <2>2, <2>3, PythonDecodes
  <2>4. CASE StartRust
    BY <2>1, <2>4, StartRustKeeps
  <2>5. CASE RustStep
    BY <2>1, <2>2, <2>5, RustDecodes
  <2>6. CASE UNCHANGED <<vars, parser, reference>>
    BY <2>1, <2>6, JsonStutters
  <2>7. QED
    BY <2>1, <2>3, <2>4, <2>5, <2>6 DEF BothNext
<1>3. QED
  BY <1>1, <1>2, PTL DEF Spec

\* Types and ranges of both decoders' state; the cursor never leaves the bucket table by
\* more than one word.
THEOREM TypeCorrect == Spec => []TypeOK
<1>1. JsonInv => TypeOK
  BY DEF JsonInv, TypedInv
<1>2. QED
  BY <1>1, JsonInvariant, PTL

\* json.rs indexes `locations` while it builds the map without a check of its own, and
\* never does so with an index that is out of range.
THEOREM NeverPanics == Spec => []NoPanic
<1>1. ASSUME JsonInv PROVE NoPanic
  <2>1. CASE Ended
    <3>1. outcome \in {"done", "catalog", "read"} \cup IndexError
      BY <1>1, <2>1, VerdictMeans, Positions DEF JsonInv, EndInv
    <3>2. QED
      BY <3>1 DEF NoPanic, IndexError
  <2>2. CASE ~Ended
    BY <2>2 DEF Ended, NoPanic
  <2>3. QED
    BY <2>1, <2>2
<1>2. QED
  BY <1>1, JsonInvariant, PTL

\* Of the buckets with a key there is a last one.
LEMMA LastBucket ==
    ASSUME NEW n \in Nat, NEW last, NEW b \in 1..n
    PROVE  \E c \in 1..n : KeyOf(last, c) = KeyOf(last, b) /\ LastOfKey(last, c, n)
<1>1. PICK T : T = {m \in 0..n : \E c \in 1..n : m = n - c /\ KeyOf(last, c) = KeyOf(last, b)}
  OBVIOUS
<1>2. T \in SUBSET Nat /\ n - b \in T
  BY <1>1
<1>3. PICK m \in T : \A k \in T : m <= k
  BY <1>2, LeastExists
<1>4. PICK c \in 1..n : m = n - c /\ KeyOf(last, c) = KeyOf(last, b)
  BY <1>1, <1>3
<1>5. ASSUME NEW d \in c + 1..n, KeyOf(last, d) = KeyOf(last, c)
      PROVE  FALSE
  <2>1. d \in 1..n /\ n - d \in 0..n /\ n - d < n - c
    BY <1>4
  <2>2. n - d \in T
    BY <1>1, <1>4, <1>5, <2>1
  <2>3. m <= n - d
    BY <1>3, <2>2
  <2>4. QED
    BY <1>4, <2>1, <2>3
<1>6. QED
  BY <1>4, <1>5 DEF LastOfKey

\* The map that the buckets up to n give is one.
LEMMA OneMap ==
    ASSUME NEW n \in Nat, NEW last, NEW f, NEW g, MapUpTo(last, n, f), MapUpTo(last, n, g)
    PROVE  f = g
<1>1. ASSUME NEW k \in {KeyOf(last, b) : b \in 1..n}
      PROVE  f[k] = g[k]
  <2>1. PICK b \in 1..n : k = KeyOf(last, b)
    OBVIOUS
  <2>2. PICK c \in 1..n : KeyOf(last, c) = k /\ LastOfKey(last, c, n)
    BY <2>1, LastBucket
  <2>3. QED
    BY <2>2 DEF MapUpTo
<1>2. /\ f = [k \in {KeyOf(last, b) : b \in 1..n} |-> f[k]]
      /\ g = [k \in {KeyOf(last, b) : b \in 1..n} |-> g[k]]
  BY DEF MapUpTo
<1>3. QED
  BY <1>1, <1>2

\* A catalog is refused exactly when its tables are not well formed, and the map of an
\* accepted one is the table of its last buckets.
THEOREM DecodesRight == Spec => []DecodesTheTables
<1>1. ASSUME JsonInv PROVE DecodesTheTables
  <2>1. SUFFICES ASSUME Ended
                 PROVE  IF outcome = "done"
                        THEN \E last \in {l \in Cuts : WellFormed(l)} : resources = Table(last)
                        ELSE {l \in Cuts : WellFormed(l)} = {}
    BY DEF DecodesTheTables
  <2>2. Verdict(outcome)
    BY <1>1, <2>1 DEF JsonInv, EndInv
  <2>3. CASE outcome # "done"
    BY <1>1, <2>2, <2>3, VerdictMeans, Positions
  <2>4. CASE outcome = "done"
    <3>1. PICK last \in Cuts : WellFormed(last)
      BY <1>1, <2>2, <2>4, VerdictMeans, Positions
    <3>2. PICK n \in Nat : n = catalog.words[1] /\ IsCut(last, n)
      BY <1>1, WholeCut, Positions
    <3>3. LocationsInv(last) /\ mapped = n
      BY <1>1, <2>4, <3>2 DEF JsonInv, EndInv, TablesInv
    <3>4. MapUpTo(last, n, resources)
      BY <3>3 DEF LocationsInv
    <3>5. MapUpTo(last, n, Table(last))
      <4>1. Table(last) = [k \in {KeyOf(last, b) : b \in 1..n} |-> Table(last)[k]]
        BY <3>2 DEF Table
      <4>2. ASSUME NEW b \in 1..n, LastOfKey(last, b, n)
            PROVE  Table(last)[KeyOf(last, b)] =
                     [i \in 1..Len(EntriesOf(last, b)) |->
                         LocationOf(last, EntriesOf(last, b)[i] + 1)]
        <5>1. PICK k : k = KeyOf(last, b)
          OBVIOUS
        <5> DEFINE LastWith(x) == CHOOSE e \in 1..n :
                                    /\ KeyOf(last, e) = x
                                    /\ \A d \in e + 1..n : KeyOf(last, d) # x
        <5>2. PICK c : c = LastWith(k)
          OBVIOUS
        <5>3. b \in 1..n /\ KeyOf(last, b) = k /\ \A d \in b + 1..n : KeyOf(last, d) # k
          BY <4>2, <5>1 DEF LastOfKey
        <5>4. c \in 1..n /\ KeyOf(last, c) = k /\ \A d \in c + 1..n : KeyOf(last, d) # k
          BY <5>2, <5>3
        <5>5. c = b
          <6>1. ~(b < c) /\ ~(c < b)
            BY <5>3, <5>4
          <6>2. QED
            BY <5>4, <6>1
        <5>6. Table(last)[k] = [i \in 1..Len(EntriesOf(last, b)) |->
                                  locations[EntriesOf(last, b)[i] + 1]]
          <6>1. Table(last) = [x \in {KeyOf(last, e) : e \in 1..n} |->
                                 [i \in 1..Len(EntriesOf(last, LastWith(x))) |->
                                    locations[EntriesOf(last, LastWith(x))[i] + 1]]]
            BY <3>2 DEF Table
          <6>2. k \in {KeyOf(last, e) : e \in 1..n}
            BY <5>3
          <6>3. LastWith(k) = b
            BY <5>2, <5>5
          <6> HIDE DEF LastWith
          <6>4. QED
            BY <6>1, <6>2, <6>3
        <5>7. ASSUME NEW i \in 1..Len(EntriesOf(last, b))
              PROVE  locations[EntriesOf(last, b)[i] + 1] =
                       LocationOf(last, EntriesOf(last, b)[i] + 1)
          <6>1. PICK j : j = EntriesOf(last, b)[i]
            OBVIOUS
          <6>2. j \in 0..catalog.entryHeader[1] - 1
            BY <3>1, <3>2, <6>1 DEF WellFormed
          <6>3. Len(locations) = catalog.entryHeader[1]
            BY <3>2, <3>3 DEF LocationsInv
          <6>4. j + 1 \in 1..Len(locations)
            BY <1>1, <6>2, <6>3, Numbers
          <6>5. QED
            BY <3>3, <6>1, <6>4 DEF LocationsInv
        <5>8. QED
          BY <5>1, <5>6, <5>7
      <4>3. QED
        BY <4>1, <4>2 DEF MapUpTo
    <3>6. resources = Table(last)
      BY <3>4, <3>5, OneMap
    <3>7. QED
      BY <2>4, <3>1, <3>6
  <2>5. QED
    BY <2>3, <2>4
<1>2. QED
  BY <1>1, JsonInvariant, PTL

\* Whatever is in its tables, both backends give a catalog the same resource map or the
\* same error.
THEOREM BackendsGiveTheSame == Spec => []BackendsAgree
<1>1. ASSUME JsonInv PROVE BackendsAgree
  <2>1. SUFFICES ASSUME parser = "rust", Ended
                 PROVE  Given = reference
    BY DEF BackendsAgree
  <2>2. /\ reference = [outcome |-> reference.outcome, resources |-> reference.resources]
        /\ Verdict(reference.outcome)
        /\ IF reference.outcome = "done"
           THEN \A last \in Cuts : MapUpTo(last, catalog.words[1], reference.resources)
           ELSE reference.resources = [k \in {} |-> k]
    BY <1>1, <2>1 DEF JsonInv, ReferenceInv
  <2>3. Verdict(outcome)
    BY <1>1, <2>1 DEF JsonInv, EndInv
  <2>4. outcome = reference.outcome
    BY <1>1, <2>2, <2>3, OneVerdict, Positions
  <2>5. CASE outcome = "done"
    <3>1. PICK last \in Cuts : WellFormed(last)
      BY <1>1, <2>3, <2>5, VerdictMeans, Positions
    <3>2. MapUpTo(last, catalog.words[1], resources) /\ catalog.words[1] \in Nat
      BY <1>1, <2>5, <3>1, WholeCut, Positions DEF JsonInv, EndInv, TablesInv, LocationsInv
    <3>3. MapUpTo(last, catalog.words[1], reference.resources)
      BY <2>2, <2>4, <2>5, <3>1
    <3>4. resources = reference.resources
      BY <3>2, <3>3, OneMap
    <3>5. QED
      BY <2>2, <2>4, <2>5, <3>4 DEF Given
  <2>6. CASE outcome # "done"
    BY <2>2, <2>4, <2>6 DEF Given
  <2>7. QED
    BY <2>5, <2>6
<1>2. QED
  BY <1>1, JsonInvariant, PTL
=============================================================================
