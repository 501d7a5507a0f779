--------------------------- MODULE CompatWrappers ---------------------------
(***************************************************************************)
(* The objects of the deprecated API: wrappers around the objects of a     *)
(* catalog, which read some properties from them, keep others as long as   *)
(* their source stays the same, and hand out copies of lists.              *)
(*                                                                         *)
(* Objects live in a heap, those of the catalog first, and are known by    *)
(* their index in it.  A value without identity is an object of class      *)
(* "scalar"; the class of a wrapper is "wrapper".                          *)
(***************************************************************************)
EXTENDS Integers, FiniteSets, Functions, SequencesExt

CONSTANTS
    Catalog,   \* the objects of a catalog, by index; the first is the catalog itself
    Values     \* <<object, field, value>>: what the program may assign to its fields

Container == {"list", "dict"}

\* The items of a list are objects, those of a dict pairs of two, a key and what it maps to.
ASSUME CatalogAssumption ==
    /\ Catalog # <<>> /\ Catalog[1].class = "catalog"
    /\ \A c \in Values : c[1] \in DOMAIN Catalog /\ c[3] \in DOMAIN Catalog

VARIABLES
    heap,
    answer,   \* the last read: of which wrapper, which property, and what it gave
    held,     \* what each kept property gave last, since its source was replaced (history)
    stale     \* containers edited in place, and the copies made of them before (history)

wrappers == <<heap, answer, held, stale>>

Unread == [of |-> 0, property |-> "", gives |-> 0, before |-> {}]

WrappersInit ==
    /\ heap = Append(Catalog, [class |-> "wrapper", of |-> 1, type |-> 0, slots |-> <<>>])
    /\ answer = Unread
    /\ held = <<>>
    /\ stale = {}

-----------------------------------------------------------------------------
(* wrap_legacy *)

\* The classes, by what they do with their properties: read them from the object, a list
\* being its own list; wrap them anew each time; or keep what they gave.  A field has the
\* name of its property, and the objects of a model need not have all of them.
CompatSerializedType == [live |-> {"AssemblyName", "ClassName"}, anew |-> {}, kept |-> {}]
CompatTypeReference == [live |-> {"Clsid"}, anew |-> {}, kept |-> {}]
CompatHash128 == [live |-> {"Value"}, anew |-> {}, kept |-> {}]
CompatClassJsonObject == [live |-> {"JsonText"}, anew |-> {"Type"}, kept |-> {}]
CompatObjectInitializationData == [live |-> {"Id", "Data"}, anew |-> {"ObjectType"}, kept |-> {}]
CompatCommonInfo ==
    [live |-> {"Timeout", "RedirectLimit", "RetryCount", "AssetLoadMode", "ChunkedTransfer", "Version",
               "UseCrcForCachedBundle", "UseUnityWebRequestForLocalBundles",
               "ClearOtherCachedVersionsWhenLoaded"}, anew |-> {}, kept |-> {}]
CompatAssetBundleRequestOptions ==
    [live |-> {"Hash", "Crc", "BundleName", "BundleSize"}, anew |-> {}, kept |-> {"ComInfo"}]
CompatResourceLocation ==
    [live |-> {"InternalId", "ProviderId", "HashCode", "DependencyHashCode", "PrimaryKey"},
     anew |-> {"DependencyKey"}, kept |-> {"Dependencies", "Data", "Type"}]
CompatCatalog ==
    [live |-> {"Version", "LocatorId", "BuildResultHash", "ProviderIds", "InternalIds", "Keys",
               "InternalIdPrefixes"},
     anew |-> {"InstanceProviderData", "SceneProviderData", "ResourceProviderData", "ResourceTypes"},
     kept |-> {"Resources"}]

Class ==
    [type |-> CompatSerializedType, reference |-> CompatTypeReference, hash |-> CompatHash128,
     json |-> CompatClassJsonObject, init |-> CompatObjectInitializationData,
     common |-> CompatCommonInfo, bundle |-> CompatAssetBundleRequestOptions,
     location |-> CompatResourceLocation, catalog |-> CompatCatalog]

\* An object with its serialized type, which both are kept.
CompatWrappedSerializedObject == {"Type", "Object"}

ClassOf(w) == Class[heap[heap[w].of].class]

\* An operation on the heap returns it with the object the operation gives.
New(h, object) == <<Append(h, object), Len(h) + 1>>
NewWrapper(h, v, type) == New(h, [class |-> "wrapper", of |-> v, type |-> type, slots |-> <<>>])

RECURSIVE Wrap(_, _)

WrapAll(h, values) ==
    FoldLeft(LAMBDA acc, v : LET w == Wrap(acc[1], v) IN <<w[1], Append(acc[2], w[2])>>,
             <<h, <<>>>>, values)

\* Scalars and what is wrapped already stay as they are, a container is copied with
\* its items, and the keys of a dict, wrapped.
Wrap(h, v) ==
    CASE h[v].class \in {"scalar", "wrapper"} -> <<h, v>>
      [] h[v].class = "list" ->
            LET all == WrapAll(h, h[v].items)
            IN  New(all[1], [class |-> "list", items |-> all[2], copy |-> v])
      [] h[v].class = "dict" ->
            LET all == WrapAll(h, FlattenSeq(h[v].items))
            IN  New(all[1], [class |-> "dict", copy |-> v,
                             items |-> [i \in DOMAIN h[v].items |-> <<all[2][2 * i - 1], all[2][2 * i]>>]])
      [] OTHER -> NewWrapper(h, v, 0)

-----------------------------------------------------------------------------
(* The properties *)

Slot(h, w, p) == h[w].slots[p]
HasSlot(h, w, p) == p \in DOMAIN h[w].slots
Without(f, keys) == [k \in DOMAIN f \ keys |-> f[k]]
Drop(h, w, p) == [h EXCEPT ![w].slots = Without(@, {p})]
With(f, k, v) == [x \in DOMAIN f \cup {k} |-> IF x = k THEN v ELSE f[x]]
Keep(r, w, p, source, type) ==
    <<[r[1] EXCEPT ![w].slots = With(@, p, <<source, type, r[2]>>)], r[2]>>

\* A container is wrapped anew each time; another value is kept until it, or its
\* serialized type, is replaced by another.
WrapCached(h, w, p, v, type) ==
    IF h[v].class \in Container THEN Wrap(Drop(h, w, p), v)
    ELSE IF HasSlot(h, w, p) /\ Slot(h, w, p)[1] = v /\ Slot(h, w, p)[2] = type
    THEN <<h, Slot(h, w, p)[3]>>
    ELSE Keep(IF type # 0 THEN NewWrapper(h, v, type) ELSE Wrap(h, v), w, p, v, type)

\* Seeded fault: the list of dependencies is kept whatever becomes of its source.
Dependencies_Blind(h, w, source) ==
    IF HasSlot(h, w, "Dependencies") THEN <<h, Slot(h, w, "Dependencies")[3]>>
    ELSE Keep(Wrap(h, source), w, "Dependencies", source, 0)

Dependencies(h, w, source) ==
    IF HasSlot(h, w, "Dependencies") /\ Slot(h, w, "Dependencies")[1] = source
    THEN <<h, Slot(h, w, "Dependencies")[3]>>
    ELSE Keep(Wrap(h, source), w, "Dependencies", source, 0)

\* A location under several keys is wrapped once, also if it is there twice: `acc` is
\* the heap and the wrappers there are, by location.
WrapLocation(acc, l) ==
    IF l \in DOMAIN acc[2] THEN acc
    ELSE LET n == Wrap(acc[1], l) IN <<n[1], With(acc[2], l, n[2])>>

\* Seeded fault: each key has wrappers of its own.
Resources_Unshared(h, w, source) ==
    IF HasSlot(h, w, "Resources") THEN <<h, Slot(h, w, "Resources")[3]>>
    ELSE Keep(Wrap(h, source), w, "Resources", source, 0)

\* cached_property: kept until it is deleted.
Resources(h, w, source) ==
    IF HasSlot(h, w, "Resources") THEN <<h, Slot(h, w, "Resources")[3]>>
    ELSE LET Add(acc, entry) ==
                 LET locations == h[entry[2]].items
                     done == FoldLeft(WrapLocation, <<acc[1], acc[2]>>, locations)
                     list == New(done[1], [class |-> "list", copy |-> entry[2],
                                           items |-> [i \in DOMAIN locations |-> done[2][locations[i]]]])
                     key == Wrap(list[1], entry[1])
                 IN  <<key[1], done[2], Append(acc[3], <<key[2], list[2]>>)>>
             all == FoldLeft(Add, <<h, <<>>, <<>>>>, h[source].items)
         IN  Keep(New(all[1], [class |-> "dict", items |-> all[3], copy |-> source]),
                  w, "Resources", source, 0)

PropertyNames(w) ==
    IF heap[w].type # 0 THEN CompatWrappedSerializedObject
    ELSE DOMAIN heap[heap[w].of] \cap (ClassOf(w).live \cup ClassOf(w).anew \cup ClassOf(w).kept)

IsKept(w, p) == heap[w].type # 0 \/ p \in ClassOf(w).kept

\* The value behind a property.
Source(w, p) ==
    LET wrapper == heap[w]
    IN  IF wrapper.type = 0 THEN heap[wrapper.of][p]
        ELSE IF p = "Type" THEN wrapper.type ELSE wrapper.of

\* Bundle options are wrapped together with the type they were decoded by.
TypeWith(w, p) ==
    IF p = "Data" /\ heap[w].type = 0 /\ heap[Source(w, p)].class = "bundle"
    THEN heap[heap[w].of].data_type ELSE 0

ReadOf(w, p) ==
    LET v == Source(w, p)
    IN  CASE p = "Resources" -> Resources(heap, w, v)
          [] p = "Dependencies" -> Dependencies(heap, w, v)
          [] IsKept(w, p) /\ p \notin {"Resources", "Dependencies"} ->
                WrapCached(heap, w, p, v, TypeWith(w, p))
          [] ~IsKept(w, p) -> IF p \in ClassOf(w).anew THEN Wrap(heap, v) ELSE <<heap, v>>

-----------------------------------------------------------------------------
(* What the program does *)

Wrapper == {w \in DOMAIN heap : heap[w].class = "wrapper"}

Read(w, p) ==
    LET read == ReadOf(w, p)
        gives == read[2]
        keeps == IsKept(w, p) /\ ~(p # "Dependencies" /\ p # "Resources" /\
                                  heap[Source(w, p)].class \in Container)
    IN  /\ heap' = read[1]
        /\ answer' = [of |-> w, property |-> p, gives |-> gives,
                      before |-> IF <<w, p>> \in DOMAIN held THEN {held[<<w, p>>]} ELSE {}]
        /\ held' = IF keeps THEN With(held, <<w, p>>, gives) ELSE held
        /\ UNCHANGED stale

Delete(w, p) ==
    /\ p \in {"Resources", "Dependencies"} /\ HasSlot(heap, w, p)
    /\ heap' = Drop(heap, w, p)
    /\ held' = Without(held, {<<w, p>>})
    /\ answer' = Unread
    /\ UNCHANGED stale

CopiesOf(o) == {c \in DOMAIN heap : heap[c].class \in Container /\ heap[c].copy = o}

\* A field of the catalog's objects gets another value.
Assign(o, f, v) ==
    /\ heap[o][f] # v
    /\ heap' = [heap EXCEPT ![o][f] = v]
    /\ held' = Without(held, {k \in DOMAIN held :
                    f # "Resources" /\ k[2] = f /\ heap[k[1]].of = o /\ heap[k[1]].type = 0})
    /\ stale' = IF f = "Resources" THEN stale \cup CopiesOf(heap[o][f]) ELSE stale
    /\ answer' = Unread

\* container.pop(): on a list of the catalog or on one the wrappers have given out.
Pop(c) ==
    /\ heap[c].class \in Container /\ heap[c].items # <<>>
    /\ heap' = [heap EXCEPT ![c].items = Front(@)]
    /\ stale' = stale \cup {c} \cup CopiesOf(c)
    /\ answer' = Unread
    /\ UNCHANGED held

WrappersNext ==
    \/ \E w \in Wrapper : \E p \in PropertyNames(w) : Read(w, p) \/ Delete(w, p)
    \/ \E c \in Values : Assign(c[1], c[2], c[3])
    \/ \E c \in DOMAIN heap : Pop(c)

-----------------------------------------------------------------------------

\* A container that was edited, or has a list in it that was.
Edited(a) ==
    a \in stale \/ (heap[a].class = "dict" /\ \E i \in DOMAIN heap[a].items : heap[a].items[i][2] \in stale)

RECURSIVE Reflects(_, _)

\* An answer shows an object of the catalog as it is now, wrapped if it is one with fields,
\* and no list or dictionary in it is the catalog's own.
Reflects(a, v) ==
    LET shown == heap[a]
        object == heap[v]
    IN  IF object.class = "scalar" THEN a = v
        ELSE IF object.class \notin Container THEN shown.class = "wrapper" /\ shown.of = v
        ELSE /\ a \notin DOMAIN Catalog
             /\ Edited(a) \/
                  /\ shown.class = object.class /\ Len(shown.items) = Len(object.items)
                  /\ \A i \in DOMAIN shown.items :
                        IF object.class = "list" THEN Reflects(shown.items[i], object.items[i])
                        ELSE \A j \in 1..2 : Reflects(shown.items[i][j], object.items[i][j])

\* README.md:217-235: what a property gives is what the object holds now, whatever was
\* replaced and read before; only a copy of a list or dictionary may differ from it, after
\* an edit in place of either; and such an edit never reaches the catalog.
ReadsAreCurrent ==
    answer # Unread =>
        LET v == Source(answer.of, answer.property)
        IN  IF ~IsKept(answer.of, answer.property) /\ answer.property \in ClassOf(answer.of).live
            THEN answer.gives = v
            ELSE /\ Reflects(answer.gives, v)
                 /\ heap[v].class \notin Container \cup {"scalar"} =>
                       heap[answer.gives].type = TypeWith(answer.of, answer.property)

\* Repeated reads give the same wrapper until its source is replaced, and in a resource
\* snapshot a location has one wrapper under all its keys.
ReadsAreStable ==
    answer # Unread =>
        /\ answer.before \subseteq {answer.gives}
        /\ answer.property = "Resources" /\ heap[answer.gives].class = "dict" =>
              LET shown == UNION {ToSet(heap[e[2]].items) : e \in ToSet(heap[answer.gives].items)}
              IN  \A u, v \in shown : heap[u].of = heap[v].of => u = v
=============================================================================
