# A formal model of AddressablesToolsPy

AddressablesToolsPy decodes the content catalogs of Unity's Addressables. A
catalog comes as JSON or as a binary file; either becomes a
`ContentCatalogData`, whose `resources` maps every key to its
`ResourceLocation`s. There are two implementations of the decoding, a Python
reference and a Rust extension, which are meant to be indistinguishable, and an
interface by which callers decode objects of types the library does not know.

This directory holds TLA+ modules translated from that code, the TLC
configurations that check them on small instances, and proofs checked by TLAPS
for all instances. Paths below are relative to the repository.

## 1. Inventory

| Component | Where | State it keeps | Operations |
| --- | --- | --- | --- |
| Rust location traversal | `native/src/binary.rs` 86-117, 408-528 | `objects` (cache by offset), `pending` (stack), `active` (set) | `resources`, `location`, `build_location` |
| Python location traversal | `src/addressablestools/catalog.py` 416-499 | `reader._object_cache`, the interpreter's call stack | `_decode_binary_resources_python`, `_resource_location_from_binary` |
| Registry bridge | `binary.rs` 235-245, 545-584; `catalog.py` 388-408 | the shared object cache, Rust's suspended stack | `decode_object` callback, nested Python traversal |
| Decoder registry | `decoder.py` 50-110 | `_decoders`, `_aliases`, `_revision` | `register`, `alias`, `_resolve`, `_get` |
| Fast registry dispatch | `binary.rs` 246-319 | `kinds`, `revision` | `Parser::object` |
| Encoded strings | `binary.py` 179-256; `binary.rs` 155-221 | `_string_cache`, `_dynamic_tail_cache`; `strings` | `read_encoded_string`; `Parser::string` |
| Object cache, typed readers | `binary.py` 162-177, 258-305; `decoder.py` 256-266, 332-336 | `_object_cache`, `_type_name_cache` | `read_offset_array`, `read_serialized_type`, `read_custom`, bundle options, common infos, locations |
| Byte reader, header | `binary.py` 28-150, 308-343 | stream cursor, buffer | seeks, sequential and absolute reads, `CatalogBinaryHeader.read` |
| Object values | `decoder.py` 138-379 | none of its own | `decode_v1`, `_decode_v2`, bundle options |
| JSON catalog | `catalog.py` 41-88, 123-358; `native/src/json.rs` | cursors into four tables, the lists decoded so far | buckets, keys, locations, prefixes |
| Backend selection | `_native.py`; `catalog.py` 376-413 | capabilities found at import | `select_decoder`, `available_backends` |
| Legacy layer | `src/AddressablesTools.py` | wrappers and snapshots kept in wrappers | PascalCase properties, their deleters, `patcher`/`handler` |
| Public API, data classes | `parser.py`, `__init__.py`, `models.py`, `exceptions.py` | none | argument checks |

**How they interact.** `parse_binary_catalog` makes one reader per parse, reads
the header, and hands the reader to `_decode_binary_resources`, which chooses
among four ways to decode the resource table:

1. *Python*: recursion over the dependency graph, everything in
   `reader._object_cache`.
2. *Rust without a registry*: the parser copies that cache into one of its own
   and never runs Python code of the caller.
3. *Rust with a registry, plain bridge*: the traversal is Rust's, the cache is
   Python's dictionary, and every data object is decoded by calling back.
4. *Rust with a registry, fast*: as 3, but the object is decoded in Rust unless
   the registry has a custom decoder for it; what the registry answered is
   remembered per type and registry revision.

In 1, 3 and 4 a custom decoder is arbitrary code, run for the data of a location or
for a key of the table: it gets the reader, may decode other locations through it
(`tests/test_native_registry.py:212`), catch what that raises, keep objects in the
reader's cache, and change the registry it was found in.

**What is hard.** Nothing is persisted and nothing is sent; the difficulty is in
re-entrancy and in what is remembered. An entry waits on a stack while its
dependency is built through another parent. A decoder runs half-way through the
construction of a location, over the same cache. A decision is used after the
registry it came from has changed. A cached string tail is used by strings it was
not learnt from. An offset that two kinds of record share is answered from one
dictionary. A wrapper outlives the object it was made for. And two implementations that work differently must agree,
refusals included. `PROJECT.json` lists these hazards with their lines and the
properties that would notice.

**What correctness means, by component.**

- *Traversals*: every location is constructed once, after its dependencies, and
  every reference to it is to that one object; a table comes out only if
  everything below the roots could be decoded; the parse is refused only for a
  reason the catalog has below the root being asked for; the traversal ends; the
  Rust one does not panic.
- *Registry bridge*: the same over the shared cache, with decoders that ask for
  locations; nothing Rust has collected goes missing while they run.
- *Registry and dispatch*: a remembered decision is what the registry would say
  now, once the changes made to it are counted; an alias chain resolves to its end or is refused as a cycle.
- *Strings*: remembering never changes an answer; both parsers answer alike.
- *Binary catalogs, values included*: with a cache or without one, from a buffer or
  a stream, in Rust or in Python, the same table from the same objects or the same
  error, which may be another one only where the order of reads differs; a custom decoder that writes to the stream or keeps objects of its own
  changes nothing about that.
- *Byte reader*: the two variants of a read refuse the same positions; an absolute
  read leaves the cursor alone.
- *Backend selection*: the backend asked for, or the documented error.
- *Legacy layer*: a property gives what the object holds now, the same wrapper each
  time until it is replaced, and never the catalog's own list where it promises a
  copy.
- *JSON*: whatever the tables hold, both decoders give the same map or the same
  error, accept what is well formed and nothing else, and never panic.

## 2. Modules

```
CatalogGraph ──┬── LocationGraph            what decoding a table promises
               ├── NativeTraversal          the Rust stack       ── MCNativeTraversal
               │      └── NativeTraversalProofs ─────┐
               ├── PythonTraversal          the Python recursion ── MCPythonTraversal
               │      └── PythonTraversalProofs ─────┤
               └── RegistryTraversal        both over one cache  ── MCRegistryTraversal
                      └── RegistryTraversalProofs ◄──┘
DecoderRegistry ─┬─ LiveDispatch            what a registry promises
                 └─ FastDispatch            the cache of Parser::object
                        └── FastDispatchProofs
EncodedStrings                              strings, tails, both parsers
       └── EncodedStringsProofs
JsonTables ─┬── JsonPython                  _decode_json_resources
            ├── JsonRust                    Parser::resources of json.rs
            └── JsonBackends                one after the other  ── MCJsonBackends
                   └── JsonBackendsProofs
ByteReader ──── BinaryCatalog               a whole catalog, in six ways ── MCBinaryCatalog
                      └── BinaryCatalogProofs
BackendSelection ┬── BackendSelectionProofs
CompatWrappers ──┴── LegacySession          a program using both ── MCLegacySession
```

**CatalogGraph** is the catalog as the traversals see it, chosen once and for
all in `Init`: `deps` (the dependency array of each location), `roots` (the
location offsets of the key table, in order) and `fault` (whether the record, one
of its strings or its data object is damaged). `DepLists`, `RootLists` and
`FaultMaps` are the sets they are chosen from. `Reach(o)` is what lies below `o`.

**LocationGraph** is the abstract specification: `Decode(o)` constructs any
location below the current root whose dependencies exist, `Deliver` gives the
root's object to the table, `Reject` ends the parse for a reason that is there.
An object is the serial number of its construction, so identity is equality of
numbers. It knows neither stack nor recursion; `RejectDepth(limit)`, which is not one
of its steps, is what a recursive decoder does besides: it refuses a path of more
locations than it has calls for.

**NativeTraversal** is the Rust traversal with a private cache. `pending` and
`active` are the code's variables; `frame` and `child` are the position of the
`for` loop that pushes the dependencies of one entry. Actions: `LocationCached`,
`LocationTruncated`, `LocationReady` and `LocationStart` are the four ways a call of
`location` begins (lines 409-425); `PopCached`, `PopTruncated`, `PopCycle`,
`PopExpand` and `PopBuild` the five things an iteration of the `while` loop may do
(426-448); `PushChild` one iteration of the inner loop (439-444);
`LocationReturn` and `Finish` the two returns. `BuildOutcome` follows the order
in which `build_location` meets errors: strings, dependencies, data object.

**PythonTraversal** is the recursion, with the frames of
`_resource_location_from_binary` made explicit. `got` is the list comprehension
of a frame so far. `limit` is how many nested calls the interpreter has left for the
parse, any positive number: about 1000 in practice, far fewer than a catalog has
locations. A call beyond it (`CallTooDeep`) raises RecursionError, on a cycle and on a
chain that is just too long. Custom decoders run in two places: in a frame of phase
`"custom"`, for the data of a location whose dependencies are there
(`LocationDecoderRuns`), and between two calls of the table's loop, for a key
(`KeyDecoderRuns`; the table is flattened, so there may be a key before every
location and behind the last). `asker` says who made the outermost call. A decoder
may call the function for any offset (`CustomDecoderCalls`), raise (`DecoderRaises`),
catch the exception of a call it made and go on (`Raise` unwinds everything or up to a
decoder on the way), put an object of its own under an offset (`DecoderPuts`:
`cache_and_return`, `read_custom`) or None (`DecoderRemoves`), `MaxCalls` times in a
parse. `calls.strayed` is history: whether one has written an entry, or asked for a
location that leads back to one in progress. The `Disciplined...` invariants speak of
parses in which none has; `calls.wrote` says which kinds of writes there were.

**RegistryTraversal** composes the two: the Rust actions of NativeTraversal with
`build_location` over the shared cache, and, while a decoder runs, the
actions of PythonTraversal: on top of a frame that stands for the waiting
`build_location`, or, for the decoder of a key, between two calls of `location`. An
exception that nobody catches goes through Rust and ends the parse; one that a decoder
catches leaves Rust's stack waiting over whatever the nested calls have built
(`NestedRaise`). It models the plain bridge and the fast mode alike: they differ
in who decodes built-in objects, not in the order of cache accesses.

**DecoderRegistry** has the writes of `register` and `alias`, `_resolve` and `_get`; a
decoder is reduced to the fact that a name has one. **LiveDispatch** decodes every object by
asking the registry as it is then. **FastDispatch** is `Parser::object`: it reads
`_revision` (`BeginObject`), calls `_resolve` (`ResolveName`) and `_get`
(`GetDecoder`), and uses what it remembers (`UseBuiltin`, `UseCustom`); each is a
step, because each is a call into Python between which another thread may change
the registry. `concurrent`, fixed in `Init`, says whether the registry is shared with
other threads at all; a custom decoder may change it in any case. `register` and
`alias` take no lock (`decoder.py:87-88`, `96-97`), so a change is three steps: the
write to the dictionary (`WriteRegistry`), and the read and the write of
`_revision += 1` (`ReadRevision`, `WriteRevision`). The steps of any two threads, and of
the parser, interleave freely; `lost` is history and says that two increments
have overlapped and one is lost. `Coherent` speaks of moments when every change begun has been
counted (`Settled`): between a write and its count the parser may well remember
under the old revision what the registry no longer says, and uses it until the count moves.
After a lost increment it may do so for good, which the property does not deny.

**EncodedStrings** has the part chains of a catalog, the two caches of the Python
reader and the one of the Rust parser; `Read` asks both for one string. A text is
known by the record that names it and a string is the sequence of what was
joined, so two strings are equal only if they were joined from the same parts in
the same order with the same separator. `Meaning` says, without caches or a walk,
what a string is.

**JsonTables** has the four embedded tables of a JSON catalog and the state a
decoder keeps while it reads them; **JsonPython** and **JsonRust** are the two
decoders, each with the same eight actions, one per loop iteration or table header:
`Start` and `ReadBucket` for the bucket table, `KeyCount` and `ReadKey`,
`EntryCount` and `ReadLocation`, `MapBucket` and `Finish`. They differ where the code does: how a
bucket's entries are kept, when a count is refused, in which order indexes are
looked at, what is read by which reader. The bucket table is a sequence of words,
so that it can be cut off and misread anywhere; a key or an extra object is
abstracted to whether and how it fails to be read. **JsonBackends** runs
`parse_json` with `backend="python"` and then with `backend="rust"` on the same
catalog and compares; `Cuts`, `WellFormed` and `Table` say without a
cursor what the tables mean.

**ByteReader** is `BinaryReader`: a cursor, a stream, and a buffer with the same
bytes or none. An operation takes a reader (a record) and returns it as the call
leaves it, with what was read or the exception. The unit is the word of four
bytes; a read that starts inside a word is not represented.

**BinaryCatalog** is `parse_binary_catalog` over the words of a catalog. Its state
is that of six parses of one catalog, all advanced together: `buffer` and `stream`
are Python's, `private`, `bridge` and `fast` Rust's three entry points, and `plain`
reads without any cache, for reference. `DecodeHeader`, `DecodeMetadata`
(the offsets of the providers), `DecodeProvider` (one of them), `DecodeKeyTable`,
`BeginEntry` (the key of one pair of the key table) and `Finish` are the stages of
the function; the metadata is read by Python in all six. `DecodeLocation` is one step
of the recursion below an entry: the next location is asked for (`NextLocation`), or
the innermost call has all its dependencies and returns (`FinishLocation`), or the
entry has its locations (`FinishEntry`). The calls in progress are on `stack`. The
six go together as long as they are equally deep; `plain`, which reads again what
the others have kept, goes alone while it is deeper (`Innermost`). Below these is an
operator per reader of a record, from `ReadOffsetArray` to `DecodeObject`, with
one cache by offset alone. `CallbackActs` is what a custom decoder may do to the
shared reader at any of these points: move the cursor and write to the stream, or
keep an object under an offset with `read_custom`. `CallReader` is a direct call of an
absolute read.

Three fields of a parse are history. `uses` has every kind of record asked for at every
offset, found in the cache or not: `BackendsAgree` speaks of catalogs in which no two
kinds share an offset (`Separate`), and finding 3 of one in which they do. `again`
has what was constructed twice. `foreign` has the offsets at which a custom decoder
has kept something: `BackendsAgree` speaks of parses in which it did not, and it has to be
the history that says so, because the location that is being constructed at such an
offset overwrites the object when it is done.

A word that names a string stands for its text, and reading it fails when it is in
`Unreadable`; *when* it is read is as in the code. That is where the backends differ:
Python reads the three names of a location before it goes into its dependencies
(`catalog.py:474`), Rust when it builds the location (`binary.rs:456`). A catalog with an
unreadable name above another kind of damage is refused by both with different errors.
`StoppedAtNames` says what the properties demand then: the table so far is the same
and Rust accepts the catalog no more than Python does. Everywhere else the errors
are equal, and Rust's three modes are equal always.

A custom decoder may keep an object of its own, a list, or None. A list is found by
Python's `read_offset_array` (`binary.py:261`), while Rust reads the array from the
bytes (`binary.rs:144`); so a list kept where an array is read later makes the
backends differ. Such a use of a list is recorded as a kind of its own, which makes the
catalog not `Separate`: the properties exclude the one case and nothing else about
lists. None is never taken for an entry, by either side. A location within itself is
refused by both, by Python with RecursionError and by Rust with the cycle; the model
gives both ends one name, `"endless"`. That Python also gives up on a chain that
does not end soon enough is in PythonTraversal.

**BackendSelection** has the extension that is installed (any version, any set of
functions), what `_native.py` takes from it at import, and one call of the public, the
deprecated or the internal interface, with a registry that may be a subclass or have
methods overridden in its instance.

**CompatWrappers** is the deprecated object model. The objects of a catalog and the
wrappers are in one heap, so that identity is the index; the keys of a dictionary are
objects, and are wrapped like its items. A class says which of its
properties are read from the object, which are wrapped anew each time and which are
kept; `WrapCached`, `Dependencies` and `Resources` are the three ways of keeping.
The program may replace a field (`Assign`), edit a container in place (`Pop`), delete
a snapshot (`Delete`) and read any property of any wrapper (`Read`). **LegacySession**
composes the two: a call, and then a program that works with what it returned.

Definitions preceded by "Seeded fault" are not used by any specification: each is
a plausible mistake in the definition it stands next to, kept to show that a
property would notice it.

## 3. Model checking

| Run | Catalogs or bounds | What it shows |
| --- | --- | --- |
| `native_traversal` | 3 locations, up to 2 dependencies each, 1-2 roots, at most one damaged location; about 311,000 states | the explicit stack implements LocationGraph, never panics, and its inductive invariant holds |
| `native_termination` | the same graphs, sound, one root | the traversal ends, on cyclic graphs too |
| `python_traversal` | the graphs of `native_traversal`, with 4 calls left, and the sound ones with 2; with decoders of one location or of the keys, or of both, graphs without repeated dependencies, 2 calls or writes by decoders; about 3,960,000 states | the recursion implements LocationGraph but for paths beyond the limit; RecursionError only on one; disciplined decoders keep identity and completeness, whatever they catch |
| `python_recursion` | 2 locations | **violated**: a cycle raises RecursionError (finding 1) |
| `registry_reentrant` | graphs without repeated dependencies; decoders of two locations, of one and the keys, or of the keys and two requests, on sound graphs; of one location with one damaged record or two requests; 2 calls or writes by decoders; about 1,510,000 states | nothing collected or awaited is missing and no cycle is made up, unless a decoder sets an entry to None; key table entries share objects unless one overwrites an entry; identity and completeness as long as decoders are disciplined |
| `registry_identity` | 2 locations, 1 call | **violated**: a re-entrant decoder leaves a parent with another object (finding 2) |
| `dispatch` | 3 names, 2 types, two threads; no change of the registry is begun once the revision is 2, each is three steps at any point | once counted, remembered decisions are current unless increments overlapped; alias chains end; as long as only decoders change the registry, FastDispatch implements LiveDispatch |
| `strings` | 3 part records, every chain and content, versions 1 and 2, 2 separators and none, 3 reads | caches and tails never change an answer; the parsers agree |
| `json` | three families of catalogs, below; about 203,000 states | both decoders give the same map or the same error, accept exactly the well-formed tables, and Rust never indexes out of range |
| `binary` | one sound catalog of 72 words and about 1,630 changes of it, below; about 54,100 states | no cache, no reader and no backend can be told from another, but for the error where names are read in another order; buffer and stream refuse the same reads; absolute reads leave the cursor |
| `binary_adjacent` | the sound catalog with an empty array before a location | **violated**: the table holds a list where a location should be (finding 3) |
| `session` | every extension and call; 2 locations, 6 steps of a program; about 984,000 states | the backend asked for is the one that decodes; wrappers are current and stable |

**Why the bounds are enough to be interesting.** Three locations with two
dependencies each give chains, diamonds (a location reached along two paths, so
that stack entries go stale), repeated dependencies, self-loops and cycles of
length two and three, with and without an entry outside the cycle. Two roots let
a call of `location` begin with a cache the previous one filled, or repeat it.
One damaged location at a time suffices because the first one that is met ends
the parse. Of the two recursion limits, 2 is less than an acyclic chain of three
locations needs, which is then refused with RecursionError although it is sound, and 4
is enough for every acyclic graph, so that only a cycle is; under both, a refusal of anything
shorter is noticed. No claim is made about which limit a catalog fits in: the
interpreter's has nothing to do with the catalog, and the proofs are for any. Two calls
or writes of decoders allow one to fill the cache and another to stray, one to catch
an exception and go on, or to remove what the other has added. With decoders the graphs
have no repeated dependency and never several of several decoders, several requests
and a damaged record at once (`MCInit`); the proofs are for all of these together. Changes of
the registry that are begun before the revision is 2 allow a
chain of aliases, a cycle of two, and with increments that overlap or are pending
any two threads' changes between any two calls of the parser; two threads are the
fewest that can lose an increment. Three reads allow a
tail to be learnt from one string, used by a second, and its result asked
for again; three records allow two heads with a common tail and a chain that
runs into its own middle. The JSON catalogs are every bucket table of up to six words
over -1..2 (two buckets and everything that looks like them, with different and
with equal keys), every key table of up to two records with missing, negative,
small and large headers before keys and entries, and every location record with
each index before, at and after the ends of its list, with and without an
override of the primary keys. `SYMMETRY` over offsets is used only in runs without
liveness; the modules never compare or order offsets.

**The binary catalogs.** The sound catalog has a record of every kind, two of most, and
every sharing the format allows: a list of dependencies that is also a list of the
table, a type named by objects, locations and providers, two bundles with one common
info. `Objects` gives one object every type, however it is named, in every version and
with every payload; `Sharing` varies what is shared, with equal and unhashable keys
and dependencies that form a cycle; `Damaged` cuts the catalog after every word
and replaces every word by offsets, sizes and values at the boundaries and by the name of an
unreadable string (`Torn`), so every record is once beyond the end and every string once
cannot be read; `Nameless` has each of the three names of a location unreadable above
a dependency that is sound, of an unsupported type, a cycle, or behind a damaged list,
which are the cases in which Python and Rust
report different errors; `ShortHeader` is the older layout; `Scribbled` lets a
custom decoder write to a scalar, a type or a hash, or keep an object, a list or None where
a record is; `Called` is read directly at every position around its end, twice, since a call
may find the cursor where the last one left it. A custom decoder acts between two locations; what one may
do between the parts of a location is the subject of RegistryTraversal.

**The session.** Every version of the extension with every subset of its functions,
every call, and every kind of registry with at most one method defined or
overridden. Six steps are enough to read a property, replace its source, read it,
replace the source by the first again, read again, and delete; or to edit a copy and
see that its source is as it was. After which call the program goes on makes no
difference to the wrappers, so it goes on after one (`Example`).

**Fairness.** Termination assumes weak fairness of `Next`: a traversal is one
thread that computes and never waits. Only `native_termination` uses it. The
Python module states the same `FairSpec`, as far as custom decoders return, and no run
relies on it. Nothing else here waits for anything.

**Deadlock** is not checked: a parse ends, and bounds on reads, calls, steps and
registry changes end the rest.

### Findings

1. *RecursionError on a cyclic catalog.* `parser.py:26-27` documents
   `CatalogParseError` for invalid catalog data. A dependency cycle makes the
   Python backend raise `RecursionError` (`catalog.py:480`), which is none; the
   Rust backend raises `BinaryReadError`. Run `python_recursion`; on the real
   code a record that is its own dependency shows it. A chain of dependencies longer than
   the interpreter's limit has the same end in Python, although nothing is wrong
   with it, while `tests/test_native.py:216` decodes one of 1500 locations by Rust.
2. *Identity across a re-entrant callback.* `binary.rs:240` says the shared cache
   preserves identity across Python and Rust traversal. If the decoder running
   for `x` asks for a parent of `x`, the nested traversal constructs `x` and the
   parent refers to that object; then the waiting `build_location` constructs `x`
   again and overwrites the cache. Run `registry_identity`, in which no decoder writes
   an entry itself (`UnwrittenIdentity`); the Python backend
   behaves the same, `parent.dependencies[0] is x` is false. What is left is
   stated by `RequestsShareObjects` and holds.
3. *A list in place of a location.* `read_offset_array` keeps its lists in the
   dictionary in which `_resource_location_from_binary` looks for locations, and
   neither looks at what kind of object it finds (`catalog.py:458`, `binary.py:288`).
   An empty array takes no bytes behind its size, so a location record written
   directly behind it has the array's offset. If the array is read first, the list is
   put into the table as if it were the location; `models.py:161` declares the table
   as `dict[object, list[ResourceLocation]]`. The Rust backends keep no arrays
   and decode the location, so the backends differ as well. Run `binary_adjacent`; a
   catalog built this way shows it on the real code. `BackendsAgree` says that
   nothing of the kind can happen unless two kinds of record share an offset.

## 4. Proofs

TLAPS checks the following for every value of the constants that the named
assumptions allow.

The three proofs about traversals assume of the catalog what `GraphAssumption` says (the
lists are sequences over `Offset`, the faults are from `FaultKind`); `Offset` may be
infinite. Each begins with the facts about the graph it needs: what `Reach` contains
and that no step changes it, and that a set closed under dependencies contains what
its members lead to.

**NativeTraversalProofs** rests on `TraversalInv`:

- what is in the cache is sound, has all its dependencies in the cache with
  smaller serials, and links to exactly them (`CacheInv`), and the results are
  the cached objects of the roots (`ResultsInv`);
- the expanded entries of the stack form a path of the graph from the root: each
  is a dependency of the expanded entry below it, the entries between two of them
  are dependencies of the lower one, and `active` is exactly the set of
  unbuilt expanded offsets, without repetition;
- every dependency of an expanded entry is cached, or still to be pushed, or on
  the stack above it.

The last part is what makes `NoPanic` true: when an expanded entry is on top,
nothing is above it, so all its dependencies are cached. It is not inductive
alone: that an entry popped as cached may be dropped needs the first part, and
that an expanded entry is not cached before its turn needs the second, for only
an offset in `active` could be built below it, and finding one is a cycle. The
second also gives `CycleIsReal`: an offset met again while active lies on a path
from itself. `OneObjectPerOffset`, `AcceptedIsDecoded` and `Refinement` (every
step is a step of LocationGraph or a stutter) follow from the invariant. The parts
about the stack are kept apart as `ControlInv`, `ActiveInv` and `EntriesInv`, so that
they can be used without those about the cache.

**PythonTraversalProofs** adds `RecursionAssumption` (limits above 0, some sets of custom
locations, a bound on the calls of decoders). Nothing relates a limit to the catalog. Types
hold whatever decoders do; the rest of `DisciplinedInv` holds until one strays. It says that
the location of a frame is not cached and that the frame has collected the cached objects of
the dependencies it is past (`GotInv`), that it waits for the next of them or for a custom
decoder below which nothing leads back to it (`WaitingInv`), and, without custom decoders,
that it is reached from the location asked for (`ReachInv`). One location may be called for
twice, the second call below the first, but only one of the two can return: the one that
returns has all dependencies cached, and the one further out waits for one that is not. An
exception that is caught leaves a beginning of the frames, for which all of this still
holds, and a cache to which complete locations only have been added. That RecursionError
means a path longer than the limit (`RecursionsAreDeep`) comes from `WaitingInv` without custom
decoders: each frame is for a dependency of the one before, so the frames and the refused call
are such a path (`DepthInv`). `Refinement` is for parses without custom decoders, which
LocationGraph knows nothing about: every step is one of LocationGraph or a stutter, but the
one that exceeds the limit, which is `RejectDepth(limit)`.

**RegistryTraversalProofs** cites both proofs (`Stack` and `Recursion`), under
`RegistryAssumption`. What it adds is what the cache shared with decoders
does to them. A decoder may add to the cache, overwrite an entry, or set one to None. All of
`EntriesInv` survives the first two except one thing: an active offset may now be
cached before its turn. `SharedActiveInv` allows it, and with that the stack is in
order whatever decoders do, which gives `NothingMissing` and `CycleIsReal` as long as no
entry is set to None (`"removed"`). After that a dependency may be missing, and
`cache_and_return(dependency, None)` makes Rust report exactly that, so
these two cannot say more. Types, the shape of the stack and `BridgeInv` hold then, too.
`BridgeInv` says that the outermost nested frame is the `build_location` that waits, unless the
decoder of a key has made that call, and then nothing of Rust's is waiting; and
`DeliveredInv` that an object given to an entry of the key table is never constructed
again: it is cached when it is given, a call for a cached location only returns it, and none of
the calls in progress then is for it. That gives `RequestsShareObjects`, as long as decoders
only add to the cache. Identity and completeness hold as long as no decoder strays, as for Python.

**JsonBackendsProofs** assumes that the catalogs are of the form JsonTables gives
(`CatalogsAssumption`) and that the values of keys are none of the markers for
records that have no value (`KeyAssumption`). The two decoders check things in
different orders, so the proof does not follow one along the other. It has a
verdict instead: `Verdict(e)` says, without a cursor, what a catalog deserves, and
no catalog deserves two (`OneVerdict`), because a bucket table can be cut in at most
one way (`OneCut`). Every action of either backend is an action of a common
decoder, `Decode` (`PythonDecodes`, `RustDecodes`), which leaves open what they do
differently and no more, and `JsonInv` is invariant under it: the buckets read are the
beginning of that cut (`BucketsInv`), the keys and locations are those of it
(`TablesInv`), and a parse that has ended ended in the verdict (`EndInv`). That both
backends agree, that either decodes what the tables mean, and that Rust never indexes
out of range all follow.

**FastDispatchProofs** assumes `NameAssumption` and `DispatchAssumption`, with any
number of names, types, threads and revisions. `DispatchInv` adds to `Coherent` what holds
between the three calls: when every change is counted and the revision noted is still the
registry's, the name just resolved is what resolving it now gives. A change that is begun
ends that until it is counted; its count moves the revision,
which makes the remembered decision harmless, because `Coherent` only speaks of the
current revision and the next object forgets the rest. That needs `parserRevision <=
revision` as long as no increment is lost, so that a later count never brings an old revision back;
without lost increments a thread that has read the revision finds it unchanged when it writes,
which is what `lost` records. `AloneInv` is for a registry no other thread has: there a change is
counted before the parser goes on, no increment is lost, and the revision noted is the
registry's until the object is decoded.
`DispatchRefinement` speaks of registries that are not shared: with another
thread a decision may be used that the registry has moved on from.
`AliasesResolve` is about what resolving computes. The prover can use neither
RECURSIVE operators nor induction theorems that take an operator, so the loop of
`_resolve` is a function (`IsLoop`), and what it returns is said without a loop
(`Resolved`): what a name leads to has at most one end, and a chain that has one never
returns to a name (`EndFacts`). Were the two different anywhere, there would be a
point where they are with the fewest aliases left to visit; the turn after it has one
less (`LoopEnds`, from the least element of a set of naturals). The invariant it needs
is that there are finitely many aliases: they are made one at a time.

**EncodedStringsProofs** assumes `StringAssumption`: part records are finitely many,
the end is not one of them, and `"\0"` is not among the separators. A chain is its
first record and the chain after it (`ChainFacts`); one that ends never returns to its
first record (`NoReturn`); and the parts of one that ends are those of its first
record and those that follow (`PartsStep`), because each text behind the first is one
place further on. The loop over a chain is treated like that of `_resolve`, with the
records not yet visited growing fewer (`LoopMeans`): where it is reached with every
record visited decodable and leading on (`Reached`), its answer does not depend on
which tails are known, as long as these are tails of chains that end and can be
decoded (`KnownOK`). That last condition is the strengthening `StringsInv` adds to
`TailsAreChains`: a tail that is right but behind which a part cannot be decoded would
turn an error into an answer. The caches of strings hold what strings mean
(`CacheOK`), so `CachesInvisible` and `ParsersReadAlike` follow, for any number of
reads in any order.

**BackendSelectionProofs** assumes that calls are of the form the interface has
(`RequestsAssumption`), with any registry. A program may make any number of calls.
Three lemmas say what `_decode_binary_resources`, `parse_json_catalog` and
`parse_binary_catalog` come to, one that a registry without methods of its own is the
only one Rust answers for, and `BackendAlwaysHonoured` follows with `NativeInv`: the
entry points known are functions of the extension, of its version or an earlier one.

**BinaryCatalogProofs** assumes of the catalogs what `CatalogsAssumption` says: words
up to `NULL`, fewer of them than that, any number of calls and any acts of custom
decoders. `Whole` adds to `TypeOK` what every reader of a record needs of the state it
is called in and leaves behind (`MemTyped`): what is in the caches, on the stack and in
the lists still to be read are objects and words of the right form, an offset in
progress is a word, and the frame at the bottom, and only it, is an entry of the table
(`Stacks`). Each operator has one lemma of the form `StepTyped(s, t, errors)`: from a
state in order comes a state in order, or one of these errors; they are put together by
`StepTypedTransitive` as the operators are by `Then`. That the lists are as long as the
accesses to them assume (a header has six words, a record as many as its reader asks
for, the keys an even number) is `ParsesAreTyped`; without it a read out of range would
have no meaning in the model. `ReadersAgree` and `AbsoluteReadsKeepCursor` follow from
what one read does (`ReadExactIs`, `StructAtIs`, `PerformIs`): before the key table nothing
has been written, and a stream to which nothing was written has the words of the buffer
(`StreamIsBuffer`).

`CallbacksAgree` needs a relation between the parses, `Lock(s, t)`, of Python over a
buffer (s) and any other that keeps what it reads (t). Both have the same stack, lists,
key, errors and objects made; the same is kept under every offset, but for arrays, which
Rust does not keep (`CacheAlike`); and what is kept under an offset is the record that
was read there, or was put there by a custom decoder (`Sound`). Without the last part the
relation is not inductive: Rust reads an array again where Python has it, and gets the same
only if what Python has was read from the same words. For the same reason the theorem is
about catalogs in which no two kinds of record begin at one offset (`Separate`, the
hypothesis of the property itself): where a type is read at the offset of an array, or an array where a custom decoder has kept
a list, one side finds it and the other does not. And it is about catalogs the names of whose
locations can be read (`NamesRead`): with one that cannot, Python has stopped at the location
while Rust goes on into its dependencies, and the parses are in step no more. `uses` only grows,
so what is separate and readable at the end was so at every step before, and the invariant may
assume it (`Sep`, `Alike`). A parse that custom decoders do
not reach, over a stream or in Rust alone, stays in the relation until a decoder writes
or keeps something (`Kin`). `Awaited` says that a location is constructed in one call at a
time, and that it is not kept yet as long as no custom decoder has kept objects itself. Each
reader has a lemma with `Lock` of two parses before and after it, and each step one of the
form `LocationsAlike`; `Paired` joins these to `Whole`, with what tells the parses
apart (`Opened`: all begin alike; `Rusted`: from the table on those over a registry that go on
are Rust's), and is inductive (`SpecPaired`).

From `Paired` follows also `CachedParsesAgree`, which is what `BackendsAgree` says of the
five parses that keep what they read, with the same hypothesis: same result, and nothing
constructed twice. `ReadersAgree` and `AbsoluteReadsKeepCursor` hold for every set of
`Counts` and `Positions` (up to `NULL`, as offsets are); the direct calls they speak of
come before the key table, and `ReadersAgree` excepts reading no bytes beyond the end, which a
stream allows and a buffer refuses.

**Only model-checked**: termination of the traversals (liveness under fairness, and
that a step is enabled, are out of the prover's reach). Of `BackendsAgree`, that the sixth
parse, without caches, has the same result: it goes alone through locations that the others
have kept, and a proof needs that reading a location again makes what was made before,
dependencies included, and ends; that is an induction over the locations. Of `BackendsAgree`
and `CallbacksAgree`, what they say of a catalog with an unreadable name of a location
(`StoppedAtNames`, and that Rust's three modes agree there too). And
`ReadsAreCurrent` and `ReadsAreStable` of CompatWrappers, which wraps objects by RECURSIVE
operators: the prover does not take them, and what they do to an object of any depth would be
an induction over data.

## 5. What is not modelled, and why

- *Parts of words and text.* ByteReader counts in words of four bytes, and a word
  that names a string stands for its text, which can be read or cannot: reads of one or two
  bytes, records whose fields are not aligned, and which exception the decoding of text
  raises (it may be `UnicodeDecodeError`) are not represented. EncodedStrings has the caches
  of strings, BinaryCatalog has not.
- *Values in JSON catalogs*: a record of the extra table is sound or fails; the fields
  of `AssetBundleRequestOptions` taken from JSON text are a pure mapping.
- *JSON outside the tables*: the metadata, the expansion of ID prefixes, and Base64
  text that only one of the decoders might accept. The fields of a location that
  are copied without a check (hashes, the text of the primary key) are left out.
- *The rest of the legacy layer*: comparison, hashing and printing of wrappers, which
  are those of the wrapped object; `CompatCatalogBinaryReader` and
  `CompatSerializedObjectDecoder`, which call the code modelled here.
- *Queries*: `locate`, `iter_locations`, `data_is`, `data_as` read a finished catalog.
- *Recursion through other functions.* `limit` counts frames of one
  function; the constant number of interpreter frames each stands for is left out.
  BinaryCatalog gives the end of a cycle one name for both backends; that Python's is another
  exception is finding 1. It has no recursion limit: that Python refuses a deep sound catalog
  which Rust decodes is in PythonTraversal and NativeTraversal only.
- *What a custom decoder gets of the traversal.* In RegistryTraversal and PythonTraversal
  a decoder may ask for locations, catch, raise, and put its own object or None under the
  offset of a location; the arrays and types it may overwrite as well are in BinaryCatalog,
  where `cache_and_return` over an entry that is there is not, and a decoder that acts does so
  once in a parse. Its decoders raise nothing and ask for no location.
- *Lists kept by a custom decoder* under the offset of an array: BinaryCatalog has them, and
  the two backends do differ there (`binary.py:261` returns the list, `binary.rs:144` reads the
  array), so `Separate` leaves this case out of what `CallbacksAgree` promises.
- *One call into Python as several steps.* `_resolve` and `_get` are one step each in
  FastDispatch, and so is the callback of a custom decoder up to its decision; another thread
  changes the registry between them. What `_resolve` would make of an alias
  written in the middle of its loop is not represented; that alias is not counted
  yet, and its count makes the parser forget the answer.
- *Direct writes to `_decoders` and `_aliases`*, which change the registry without moving
  `_revision`, which `native/README.md` declares
  unsupported, and registry subclasses, which do not use FastDispatch.
- *Extension glue, packaging, workflows, benchmarks*: no behaviour of the parser.

## 6. Plan

Done: the traversals and their promise, the bridge, the registry and its cache,
encoded strings, the tables of a JSON catalog, whole binary catalogs over the shared
cache and the byte reader, the choice of the backend, and the wrappers of the
deprecated interface. What is left, the most important first:

1. **BinaryCatalog**: the parse without caches in `BackendsAgree`, by what a record is
   for its words alone and a rank of the locations that are kept, which bounds how often
   one is read again.
2. **CompatWrappers**: that a kept wrapper is one for the source it was made from
   (`ReadsAreStable`), once wrapping is a function too.
3. **JSON**: what is left around the tables: metadata, prefix expansion with its slow
   path, Base64.
