--------------------------- MODULE DecoderRegistry ---------------------------
(***************************************************************************)
(* DecoderRegistry of decoder.py: the custom decoders and type aliases a   *)
(* caller supplies for one parse and may change at any time, also from     *)
(* inside a custom decoder.  A decoder is abstracted to the fact that the  *)
(* name has one.  That `register` and `alias` go on to count the change in *)
(* `_revision`, in a statement of its own, matters to FastDispatch only.   *)
(***************************************************************************)
EXTENDS Integers, Functions

CONSTANTS
    Name,      \* match names of serialized types
    Builtin,   \* those the library decodes itself
    Cycle,     \* what resolving raises on an alias cycle
    Custom,    \* the decision to call a custom decoder
    Unsupported

ASSUME NameAssumption ==
    /\ Builtin \subseteq Name
    /\ {Cycle, Custom, Unsupported} \cap Name = {}
    /\ Cycle # Custom /\ Cycle # Unsupported /\ Custom # Unsupported

VARIABLES
    aliases,    \* `_aliases`
    decoders    \* the keys of `_decoders`

registry == <<aliases, decoders>>

RegistryInit ==
    /\ aliases = [n \in {} |-> n]
    /\ decoders = {}

RegistryTypeOK ==
    /\ DOMAIN aliases \subseteq Name
    /\ \A n \in DOMAIN aliases : aliases[n] \in Name
    /\ decoders \in SUBSET Name

-----------------------------------------------------------------------------
(* _resolve and _get, and what _decode_v2 makes of them *)

\* Seeded fault: an alias of an alias is not followed.
ResolveIn_OneHop(map, name) == IF name \in DOMAIN map THEN map[name] ELSE name

\* The loop of `_resolve`, over the names visited and the name resolved so far.
ResolveIn(map, name) ==
    LET Loop[at \in [visited : SUBSET Name, resolved : Name]] ==
          IF at.resolved \notin DOMAIN map THEN at.resolved
          ELSE IF at.resolved \in at.visited THEN Cycle
          ELSE Loop[[visited |-> at.visited \cup {at.resolved}, resolved |-> map[at.resolved]]]
    IN  Loop[[visited |-> {}, resolved |-> name]]

Resolve(name) == ResolveIn(aliases, name)

\* How an object whose type resolves to `resolved` is decoded.
Kind(resolved) ==
    IF resolved = Cycle THEN Cycle
    ELSE IF resolved \in decoders THEN Custom
    ELSE IF resolved \in Builtin THEN resolved
    ELSE Unsupported

Decision(name) == Kind(Resolve(name))

-----------------------------------------------------------------------------
(* register and alias: the writes to the dictionaries *)

Register(name) ==
    /\ decoders' = decoders \cup {name}
    /\ UNCHANGED aliases

Alias(name, target) ==
    /\ aliases' = [n \in DOMAIN aliases \cup {name} |->
                      IF n = name THEN target ELSE aliases[n]]
    /\ UNCHANGED decoders

Mutate ==
    \E name \in Name : Register(name) \/ \E target \in Name : Alias(name, target)

-----------------------------------------------------------------------------

\* Following aliases ends at the name the chain leads to, if it leads to one that
\* is not an alias itself, and is refused exactly when it does not.
ResolveEndsChain ==
    \A name \in Name :
        LET closed == {S \in SUBSET Name : \A n \in S \cap DOMAIN aliases : aliases[n] \in S}
            reached == {n \in Name : \A S \in closed : name \in S => n \in S}
            ends == reached \ DOMAIN aliases
        IN  IF ends = {} THEN Resolve(name) = Cycle ELSE ends = {Resolve(name)}
=============================================================================
