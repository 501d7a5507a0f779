----------------------- MODULE BackendSelectionProofs -----------------------
(***************************************************************************)
(* Whatever extension is installed and whatever is asked for, the backend  *)
(* is the one the caller chose.                                            *)
(***************************************************************************)
EXTENDS BackendSelection, TLAPS

\* A program that makes any calls, any number of times.
SelectionNext == \E q \in Requests : Call(q)

SelectionSpec == SelectionInit /\ [][SelectionNext]_selection

\* What the choice rests on: only entry points that exist, and that came with the version
\* of the extension or an earlier one, are ever known.
NativeInv ==
    /\ extension \in Extension
    /\ native \subseteq extension.functions \cap Entry
    /\ \A f \in native : Since[f] <= extension.version

SelectionInv == NativeInv /\ BackendHonoured

\* An installed extension of any version gives such entry points.
LEMMA LoadedIsInstalled == SelectionInit => NativeInv
  BY DEF SelectionInit, NativeInv, Loaded, Extension, Entry, Since

\* What _decode_binary_resources may come to.
LEMMA BinaryHonours ==
    ASSUME NEW backend, NEW data, NEW registry
    PROVE  LET r == DecodeBinaryResources(data, registry, backend)
           IN  /\ backend = "rust" => r.by # "python"
               /\ backend = "python" => r.by \in {"python", "nobody"}
               /\ r.error = "unavailable" => backend = "rust"
               /\ r.by \in Entry => r.by \in native
               /\ r.by # "json"
               /\ r.by = "resources" => registry.class = "none"
               /\ r.by = "registry_fast" => Dispatchable(registry)
               /\ r.by = "registry" =>
                     /\ registry.class # "none"
                     /\ "registry_fast" \in native => ~Dispatchable(registry)
               /\ registry.class = "none" /\ backend = "rust" /\ data = "bytes" =>
                     (r.by = "resources" <=> "resources" \in native)
  <1>1. CASE registry.class = "none"
    BY <1>1 DEF DecodeBinaryResources, Select, DecodedBy, Raise, Entry, Since
  <1>2. CASE registry.class # "none"
    BY <1>2 DEF DecodeBinaryResources, Select, DecodedBy, Raise, Entry, Since
  <1> QED BY <1>1, <1>2

\* What parse_json_catalog may come to.
LEMMA JsonHonours ==
    ASSUME NEW q \in Request
    PROVE  LET r == ParseJson(q)
           IN  /\ q.backend = "rust" => r.by # "python"
               /\ q.backend = "python" => r.by \in {"python", "nobody"}
               /\ r.error = "unavailable" => q.backend = "rust"
               /\ r.by \in Entry => r.by = "json" /\ "json" \in native
               /\ q.backend = "rust" /\ q.sound => (r.by = "json" <=> "json" \in native)
  BY DEF ParseJson, Select, DecodedBy, Raise, Entry, Since, Request

\* parse_binary either refuses the call or does what _decode_binary_resources does.
LEMMA ParseBinaryHonours ==
    ASSUME NEW q \in Request, NEW registry
    PROVE  LET r == ParseBinary(q, registry)
           IN  \/ /\ r.by = "nobody" /\ r.error # "unavailable"
                  /\ ~(q.sound /\ q.data = "bytes" /\ q.backend = "rust")
               \/ r = DecodeBinaryResources(q.data, registry, q.backend)
  BY DEF ParseBinary, Raise, Request

\* What the methods of a registry are is told by its class and its instance dictionary;
\* that of the deprecated API has one of its own.
LEMMA DispatchableIsPlain ==
    ASSUME NEW q \in Request
    PROVE  /\ Dispatchable(q.registry) => Foreign(q.registry) = {}
           /\ q.registry.class # "none" /\ ~Dispatchable(q.registry) =>
                 q.registry.class = "subclass" \/ Foreign(q.registry) # {}
           /\ ~Dispatchable(LegacyRegistry(q))
           /\ LegacyRegistry(q).class = "none" <=> q.registry.class = "none"
  BY DEF Dispatchable, Foreign, LegacyRegistry, NoRegistry, Request

\* A call is one of parse_json_catalog, of parse_binary_catalog or of
\* _decode_binary_resources, or it is refused.
LEMMA PerformIsOneOf ==
    ASSUME NEW q \in Request,
           NEW registry, registry = IF q.legacy THEN LegacyRegistry(q) ELSE q.registry
    PROVE  \/ /\ q.api = "parse_json" \/ q.data = "str"
              /\ q.data # "bytes" \/ q.api = "parse_json"
              /\ Perform(q) = ParseJson(q)
           \/ /\ Perform(q) = DecodeBinaryResources(q.data, registry, q.backend)
              /\ ~(q.api = "parse" /\ q.data = "str")
           \/ /\ Perform(q).by = "nobody" /\ Perform(q).error # "unavailable"
              /\ ~(q.api = "parse" /\ q.sound /\ q.data \in {"str", "bytes"} /\ q.backend = "rust")
  <1>1. CASE q.api = "parse_json"
    BY <1>1 DEF Perform
  <1>2. CASE q.api = "parse_binary"
    BY <1>2, ParseBinaryHonours DEF Perform
  <1>3. CASE q.api = "parse"
    BY <1>3, ParseBinaryHonours DEF Perform, Raise, Request
  <1>4. CASE q.api = "_decode_binary_resources"
    BY <1>4 DEF Perform
  <1> QED BY <1>1, <1>2, <1>3, <1>4 DEF Request

\* Every call keeps its promise.
LEMMA CallHonours ==
    ASSUME NativeInv, NEW q \in Requests, Call(q)
    PROVE  BackendHonoured'
  <1> DEFINE registry == IF q.legacy THEN LegacyRegistry(q) ELSE q.registry
             r == Perform(q)
  <1>1. q \in Request
    BY RequestsAssumption
  <1>2. /\ outcome'.by = r.by /\ outcome'.error = r.error /\ outcome'.call = {q}
        /\ extension' = extension /\ native' = native
    BY DEF Call
  <1>3. /\ q.backend = "rust" => r.by # "python"
        /\ q.backend = "python" => r.by \in {"python", "nobody"}
        /\ q.backend # "rust" => r.error # "unavailable"
        /\ r.by \in Entry => r.by \in native
    BY <1>1, BinaryHonours, JsonHonours, PerformIsOneOf DEF Entry, Since
  <1>4. r.by \in {"resources", "json"} /\ q.data # "str" /\ q.api # "parse_json" =>
           q.registry.class = "none"
    BY <1>1, BinaryHonours, JsonHonours, PerformIsOneOf, DispatchableIsPlain DEF Entry, Since
  <1>5. r.by = "registry_fast" => Foreign(q.registry) = {} /\ ~q.legacy
    BY <1>1, BinaryHonours, JsonHonours, PerformIsOneOf, DispatchableIsPlain DEF Entry, Since
  <1>6. r.by = "registry" /\ "registry_fast" \in native =>
           q.legacy \/ q.registry.class = "subclass" \/ Foreign(q.registry) # {}
    BY <1>1, BinaryHonours, JsonHonours, PerformIsOneOf, DispatchableIsPlain DEF Entry, Since
  <1>7. r.by \in Entry => r.by \in extension.functions /\ Since[r.by] <= extension.version
    BY <1>3 DEF NativeInv
  <1>8. ASSUME q.backend = "rust", q.api = "parse", q.registry.class = "none", q.sound
        PROVE  /\ q.data = "str" => (r.by = "json" <=> "json" \in native)
               /\ q.data = "bytes" => (r.by = "resources" <=> "resources" \in native)
    BY <1>1, <1>8, BinaryHonours, JsonHonours, PerformIsOneOf, DispatchableIsPlain DEF Entry, Since
  <1>9. ("rust" \in AvailableBackends("json"))' <=> "json" \in native
    BY <1>2 DEF AvailableBackends
  <1>10. ("rust" \in AvailableBackends("binary"))' <=> "resources" \in native
    BY <1>2 DEF AvailableBackends
  <1> HIDE DEF r
  <1> QED BY <1>2, <1>3, <1>4, <1>5, <1>6, <1>7, <1>8, <1>9, <1>10 DEF BackendHonoured

\* README.md:81-87: whatever is installed and whichever calls are made, `rust` never falls
\* back, `python` and `auto` never fail for want of it, and a registry is given to code
\* that asks it.
THEOREM BackendAlwaysHonoured == SelectionSpec => []BackendHonoured
  <1>1. SelectionInit => SelectionInv
    BY LoadedIsInstalled DEF SelectionInit, SelectionInv, BackendHonoured, Asked
  <1>2. SelectionInv /\ [SelectionNext]_selection => SelectionInv'
    <2> SUFFICES ASSUME SelectionInv, [SelectionNext]_selection
                 PROVE  SelectionInv'
      OBVIOUS
    <2>1. CASE SelectionNext
      <3>1. PICK q \in Requests : Call(q)
        BY <2>1 DEF SelectionNext
      <3>2. NativeInv'
        BY <3>1 DEF Call, SelectionInv, NativeInv
      <3>3. BackendHonoured'
        BY <3>1, CallHonours DEF SelectionInv
      <3> QED BY <3>2, <3>3 DEF SelectionInv
    <2>2. CASE UNCHANGED selection
      BY <2>2 DEF selection, SelectionInv, NativeInv, BackendHonoured, AvailableBackends
    <2> QED BY <2>1, <2>2
  <1>3. SelectionInv => BackendHonoured
    BY DEF SelectionInv
  <1> QED BY <1>1, <1>2, <1>3, PTL DEF SelectionSpec
=============================================================================
