---------------------------- MODULE FastDispatch ----------------------------
(***************************************************************************)
(* Dispatch on the type of a data object in Parser::object of              *)
(* native/src/binary.rs, in the mode that keeps built-in decoding in Rust  *)
(* for a plain DecoderRegistry.  What the registry said of a type is       *)
(* remembered in `kinds` and forgotten when `_revision` has moved.         *)
(*                                                                         *)
(* The registry belongs to the caller: a custom decoder may change it, and *)
(* if `concurrent` so may other threads, whenever Rust calls into Python   *)
(* (to read `_revision`, for `_resolve`, for `_get`).  Nothing is locked:  *)
(* a change is the write to the dictionary and then `_revision += 1`,      *)
(* which reads and writes, and any of the three may be followed by a step  *)
(* of another thread.                                                      *)
(***************************************************************************)
EXTENDS DecoderRegistry

CONSTANTS
    Type,          \* offsets of serialized types in the buffer
    Thread,        \* threads that may hold the registry
    Parsing,       \* the one that parses
    MaxRevision    \* bound: no change is begun once the revision is this

ASSUME DispatchAssumption ==
    /\ Parsing \in Thread
    /\ MaxRevision \in Nat
    /\ Type \cap {Cycle} = {}

VARIABLES
    names,           \* type offset -> match name in this catalog
    concurrent,      \* whether the registry is shared with the other threads
    revision,        \* `_revision`
    stage,           \* thread -> how far it is with a call of `register` or `alias`:
                     \* "none", "written" to the dictionary, "read" the revision
    seen,            \* thread -> the revision it has read
    lost,            \* whether an increment was lost between two threads (history)
    last,            \* the object decoded last: its type, and how it was decoded
    kinds,           \* Parser.kinds: type offset -> kind
    parserRevision,  \* Parser.revision
    pc,              \* where `object` is
    type,            \* type_offset of the object being decoded
    resolved         \* the name `_resolve` returned

parser == <<kinds, parserRevision, pc, type, resolved>>
given == <<names, concurrent>>
counting == <<revision, stage, seen, lost>>
vars == <<registry, counting, given, last, parser>>

Live == INSTANCE LiveDispatch

Init ==
    /\ Live!Init
    /\ concurrent \in BOOLEAN
    /\ revision = 0
    /\ stage = [c \in Thread |-> "none"]
    /\ seen = [c \in Thread |-> 0]
    /\ lost = FALSE
    /\ kinds = [t \in {} |-> t]
    /\ parserRevision = 0
    /\ pc = "setup"
    /\ type \in Type
    /\ resolved = Cycle

Decoded(decision) == last' = [type |-> type, decision |-> decision]

-----------------------------------------------------------------------------
(* register and alias, called before the parse, in a custom decoder, or at any time *)
(* from another thread                                                            *)

MayChange(c) == IF c = Parsing THEN pc \in {"setup", "callback"} ELSE concurrent

WriteRegistry(c) ==
    /\ MayChange(c)
    /\ stage[c] = "none"
    /\ revision < MaxRevision
    /\ Mutate
    /\ stage' = [stage EXCEPT ![c] = "written"]
    /\ UNCHANGED <<revision, seen, lost, given, last, parser>>

ReadRevision(c) ==
    /\ stage[c] = "written"
    /\ stage' = [stage EXCEPT ![c] = "read"]
    /\ seen' = [seen EXCEPT ![c] = revision]
    /\ UNCHANGED <<registry, revision, lost, given, last, parser>>

\* Seeded fault: the call returns without counting the change.
WriteRevision_Uncounted(c) ==
    /\ stage[c] = "read"
    /\ stage' = [stage EXCEPT ![c] = "none"]
    /\ UNCHANGED <<registry, revision, seen, lost, given, last, parser>>

WriteRevision(c) ==
    /\ stage[c] = "read"
    /\ revision' = seen[c] + 1
    /\ lost' = (lost \/ seen[c] # revision)
    /\ stage' = [stage EXCEPT ![c] = "none"]
    /\ seen' = [seen EXCEPT ![c] = 0]
    /\ UNCHANGED <<registry, given, last, parser>>

ChangeRegistry == \E c \in Thread : WriteRegistry(c) \/ ReadRevision(c) \/ WriteRevision(c)

\* The program comes back from the calls it made.
Returned == stage[Parsing] = "none"

StartParse ==
    /\ pc = "setup"
    /\ Returned
    /\ pc' = "idle"
    /\ UNCHANGED <<registry, counting, given, last, kinds, parserRevision, type, resolved>>

-----------------------------------------------------------------------------
(* Parser::object *)

Forgotten == [t \in {} |-> t]

\* Seeded fault: the revision is noted but the decisions are kept.
BeginObject_KeepsKinds(t) ==
    /\ pc = "idle"
    /\ type' = t
    /\ parserRevision' = revision
    /\ pc' = IF t \in DOMAIN kinds THEN "use" ELSE "resolve"
    /\ UNCHANGED <<registry, counting, given, last, kinds, resolved>>

\* `_revision` is read, decisions of an older revision are forgotten.
BeginObject(t) ==
    /\ pc = "idle"
    /\ type' = t
    /\ parserRevision' = revision
    /\ kinds' = IF parserRevision # revision THEN Forgotten ELSE kinds
    /\ pc' = IF t \in DOMAIN kinds' THEN "use" ELSE "resolve"
    /\ UNCHANGED <<registry, counting, given, last, resolved>>

\* Seeded fault: what `_resolve` raised on a cycle is taken for a name.
ResolveName_Unchecked ==
    /\ pc = "resolve"
    /\ resolved' = Resolve(names[type])
    /\ pc' = "get"
    /\ UNCHANGED <<registry, counting, given, last, kinds, parserRevision, type>>

\* `_resolve` is called; an alias cycle raises ValueError and ends the parse.
ResolveName ==
    /\ pc = "resolve"
    /\ resolved' = Resolve(names[type])
    /\ IF resolved' = Cycle
       THEN pc' = "failed" /\ Decoded(Cycle)
       ELSE pc' = "get" /\ UNCHANGED last
    /\ UNCHANGED <<registry, counting, given, kinds, parserRevision, type>>

\* Seeded fault: the decoder is looked up under the name before aliasing.
GetDecoder_Unresolved ==
    /\ pc = "get"
    /\ kinds' = [t \in DOMAIN kinds \cup {type} |->
                    IF t # type THEN kinds[t]
                    ELSE IF names[type] \in decoders THEN Custom
                    ELSE IF resolved \in Builtin THEN resolved ELSE Unsupported]
    /\ pc' = "use"
    /\ UNCHANGED <<registry, counting, given, last, parserRevision, type, resolved>>

\* `_get` is called and the kind remembered.
GetDecoder ==
    /\ pc = "get"
    /\ kinds' = [t \in DOMAIN kinds \cup {type} |->
                    IF t = type THEN Kind(resolved) ELSE kinds[t]]
    /\ pc' = "use"
    /\ UNCHANGED <<registry, counting, given, last, parserRevision, type, resolved>>

\* Built-in kinds are decoded in Rust, an unsupported one ends the parse.
UseBuiltin ==
    /\ pc = "use"
    /\ kinds[type] # Custom
    /\ Decoded(kinds[type])
    /\ pc' = IF kinds[type] = Unsupported THEN "failed" ELSE "idle"
    /\ UNCHANGED <<registry, counting, given, kinds, parserRevision, type, resolved>>

\* The callback into `_decode_v2`, which asks the registry again.
UseCustom ==
    /\ pc = "use"
    /\ kinds[type] = Custom
    /\ LET decision == Decision(names[type])
       IN  /\ Decoded(decision)
           /\ pc' = IF decision = Custom THEN "callback"
                    ELSE IF decision \in {Cycle, Unsupported} THEN "failed" ELSE "idle"
    /\ UNCHANGED <<registry, counting, given, kinds, parserRevision, type, resolved>>

\* The custom decoder returns, or raises, which ends the parse.
CallbackReturn ==
    /\ pc = "callback"
    /\ Returned
    /\ pc' \in {"idle", "failed"}
    /\ UNCHANGED <<registry, counting, given, last, kinds, parserRevision, type, resolved>>

Next ==
    \/ ChangeRegistry \/ StartParse
    \/ \E t \in Type : BeginObject(t)
    \/ ResolveName \/ GetDecoder \/ UseBuiltin \/ UseCustom \/ CallbackReturn

Spec == Init /\ [][Next]_vars

-----------------------------------------------------------------------------
(* Properties *)

TypeOK ==
    /\ RegistryTypeOK
    /\ names \in [Type -> Name]
    /\ concurrent \in BOOLEAN
    /\ revision \in Nat
    /\ stage \in [Thread -> {"none", "written", "read"}]
    /\ seen \in [Thread -> Nat]
    /\ lost \in BOOLEAN
    /\ DOMAIN kinds \subseteq Type
    /\ \A t \in DOMAIN kinds : kinds[t] \in Builtin \cup {Custom, Unsupported}
    /\ parserRevision \in Nat
    /\ pc \in {"setup", "idle", "resolve", "get", "use", "callback", "failed"}
    /\ type \in Type

\* Every change made so far has been counted.
Settled == ~lost /\ \A c \in Thread : stage[c] = "none"

\* "Calls to register() and alias() invalidate cached dispatch decisions": once all calls
\* have returned, what the parser remembers under the revision it has noted is what the
\* registry says, even if other threads changed it between `_resolve` and `_get`, or
\* between a change and its count the parser remembered something.  Only two threads whose
\* increments overlap can undo that: then one revision stands for two changes.
Coherent ==
    Settled /\ parserRevision = revision => \A t \in DOMAIN kinds : kinds[t] = Decision(names[t])

\* As long as only custom decoders change the registry, remembering decisions is
\* invisible: every object is decoded as if the registry had been asked just then.
ImplementsLiveDispatch == Live!Init /\ [][concurrent \/ Live!Next]_(Live!vars)

-----------------------------------------------------------------------------
(* The inductive invariant. *)

\* Without other threads a change is counted before the parser goes on.
AloneInv ==
    /\ ~lost
    /\ \A c \in Thread \ {Parsing} : stage[c] = "none"
    /\ pc \notin {"setup", "callback"} => Returned
    /\ stage[Parsing] = "read" => seen[Parsing] = revision
    /\ pc \in {"resolve", "get", "use"} => parserRevision = revision

DispatchInv ==
    /\ Coherent
    /\ ~lost => parserRevision <= revision
    /\ pc = "get" => resolved # Cycle
    /\ pc = "get" /\ Settled /\ parserRevision = revision => resolved = Resolve(names[type])
    /\ pc = "use" => type \in DOMAIN kinds
    /\ ~concurrent => AloneInv
=============================================================================
