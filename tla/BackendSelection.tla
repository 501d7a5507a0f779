-------------------------- MODULE BackendSelection --------------------------
(***************************************************************************)
(* Which code decodes the resources of a catalog: what _native.py finds in *)
(* the extension when it is imported, what a call of the public or of the  *)
(* deprecated API asks for, and what _decode_binary_resources and          *)
(* parse_json_catalog make of the two.                                     *)
(***************************************************************************)
EXTENDS Naturals, FiniteSets

CONSTANT Requests   \* the calls made, members of Request

VARIABLES
    extension,  \* addressablestools._rust as it is installed
    native,     \* the entry points _native.py has taken from it
    outcome     \* what the last call came to

selection == <<extension, native, outcome>>

\* Entry points, and the API version each came with.
Since == [resources |-> 1, json |-> 2, registry |-> 3, registry_fast |-> 3]
Entry == DOMAIN Since

\* The extension may fail to import (version 0), or lack any function.
Extension == [version : 0..4, functions : SUBSET Entry]

Method == {"_resolve", "_get", "register", "alias"}
NoRegistry == [class |-> "none", defines |-> {}, overrides |-> {}]

\* A registry defines methods in its class, if that is a subclass, and overrides methods
\* in its instance dictionary.  `sound` is a catalog that can be parsed.
Request ==
    [api : {"parse", "parse_json", "parse_binary", "_decode_binary_resources"},
     legacy : BOOLEAN, data : {"str", "bytes", "subclass", "bytearray", "stream"},
     sound : BOOLEAN, backend : {"auto", "python", "rust", "other"},
     registry : [class : {"none", "DecoderRegistry", "subclass"},
                 defines : SUBSET Method, overrides : SUBSET Method]]

ASSUME RequestsAssumption == Requests \subseteq Request

Asked == [by |-> "nobody", error |-> "none", call |-> {}]
Raise(error) == [by |-> "nobody", error |-> error]
DecodedBy(who) == [by |-> who, error |-> "none"]

-----------------------------------------------------------------------------
(* Import *)

Loaded(x) == IF x.version \in 1..3 THEN {f \in x.functions : Since[f] <= x.version} ELSE {}

AvailableBackends(format) ==
    IF (IF format = "binary" THEN "resources" ELSE "json") \in native
    THEN {"python", "rust"} ELSE {"python"}

SelectionInit ==
    /\ extension \in Extension
    /\ native = Loaded(extension)
    /\ outcome = Asked

-----------------------------------------------------------------------------
(* A call *)

\* Seeded fault: a restriction always means Python.
Select_Silent(backend, f, restricted) ==
    IF backend = "other" THEN Raise("value")
    ELSE IF backend = "python" \/ restricted THEN DecodedBy("python")
    ELSE IF f \in native THEN DecodedBy(f)
    ELSE IF backend = "rust" THEN Raise("unavailable") ELSE DecodedBy("python")

\* select_decoder, `f` the entry point asked for; the two reasons Rust may be out of the
\* question differ in the message only.
Select(backend, f, restricted) ==
    IF backend = "other" THEN Raise("value")
    ELSE IF backend = "python" THEN DecodedBy("python")
    ELSE IF restricted \/ f \notin native
    THEN IF backend = "rust" THEN Raise("unavailable") ELSE DecodedBy("python")
    ELSE DecodedBy(f)

\* Only a plain registry, with its own methods, is dispatched in Rust.
Dispatchable(r) == r.class = "DecoderRegistry" /\ r.overrides \cap Method = {}

DecodeBinaryResources(data, registry, backend) ==
    LET restricted == data # "bytes"
        choice == Select(backend, "registry", restricted)
    IN  IF registry.class = "none" THEN Select(backend, "resources", restricted)
        ELSE IF choice.by = "registry" /\ "registry_fast" \in native /\ Dispatchable(registry)
        THEN DecodedBy("registry_fast")
        ELSE choice

\* The header and the metadata are read first: they find most faults of a catalog.
ParseBinary(q, registry) ==
    IF q.backend = "other" THEN Raise("value")
    ELSE IF q.data = "str" THEN Raise("type")
    ELSE IF ~q.sound THEN Raise("parse")
    ELSE DecodeBinaryResources(q.data, registry, q.backend)

ParseJson(q) ==
    IF q.backend = "other" THEN Raise("value")
    ELSE IF ~q.sound THEN Raise("parse")
    ELSE Select(q.backend, "json", FALSE)

\* A patcher or a handler makes a registry of a subclass with a _resolve of its own.
LegacyRegistry(q) ==
    IF q.registry.class = "none" THEN NoRegistry
    ELSE [class |-> "subclass", defines |-> {"_resolve"}, overrides |-> {}]

\* The deprecated parse takes whatever is no text for binary, the public one only bytes.
Perform(q) ==
    LET registry == IF q.legacy THEN LegacyRegistry(q) ELSE q.registry
    IN  IF q.api = "parse_json" \/ (q.api = "parse" /\ q.data = "str") THEN ParseJson(q)
        ELSE IF q.api = "parse" /\ ~q.legacy /\ q.data = "bytearray" THEN Raise("parse")
        ELSE IF q.api = "_decode_binary_resources"
        THEN DecodeBinaryResources(q.data, registry, q.backend)
        ELSE ParseBinary(q, registry)

Call(q) ==
    /\ outcome' = [by |-> Perform(q).by, error |-> Perform(q).error, call |-> {q}]
    /\ UNCHANGED <<extension, native>>

-----------------------------------------------------------------------------

\* The methods a registry really answers with.
Foreign(registry) ==
    registry.overrides \cup (IF registry.class = "subclass" THEN registry.defines ELSE {})

\* README.md:81-87: "`auto` uses Python when the bundled extension is missing or
\* incompatible", "`rust` requires native support and raises
\* `NativeBackendUnavailableError` instead of silently falling back".  Every registry is
\* given to code that asks it, one with methods of its own to code that asks for every
\* object, and a format is listed as available exactly when asking for Rust succeeds.
BackendHonoured ==
    \A q \in outcome.call :
        /\ q.backend = "rust" => outcome.by # "python"
        /\ q.backend = "python" => outcome.by \in {"python", "nobody"}
        /\ q.backend # "rust" => outcome.error # "unavailable"
        /\ outcome.by \in {"resources", "json"} /\ q.data # "str" /\ q.api # "parse_json" =>
              q.registry.class = "none"
        /\ outcome.by = "registry_fast" => Foreign(q.registry) = {} /\ ~q.legacy
        /\ outcome.by = "registry" /\ "registry_fast" \in native =>
              q.legacy \/ q.registry.class = "subclass" \/ Foreign(q.registry) # {}
        /\ outcome.by \in Entry => outcome.by \in extension.functions /\ Since[outcome.by] <= extension.version
        /\ q.backend = "rust" /\ q.api = "parse" /\ q.registry.class = "none" /\ q.sound =>
              /\ q.data = "str" => (outcome.by = "json" <=> "rust" \in AvailableBackends("json"))
              /\ q.data = "bytes" => (outcome.by = "resources" <=> "rust" \in AvailableBackends("binary"))
=============================================================================
