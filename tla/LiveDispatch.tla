---------------------------- MODULE LiveDispatch ----------------------------
(***************************************************************************)
(* What the registry promises: every object is decoded in the way the      *)
(* registry, as it is when the object's turn comes, says it should be.     *)
(* This is also what `_decode_v2` of decoder.py does for every object.     *)
(***************************************************************************)
EXTENDS DecoderRegistry

CONSTANT Type   \* offsets of serialized types in the buffer

VARIABLES
    names,   \* the match name of each, as the catalog has it
    last     \* the object decoded last: its type, and how it was decoded

vars == <<registry, names, last>>

Nothing == [type |-> Cycle, decision |-> Cycle]

Init ==
    /\ RegistryInit
    /\ names \in [Type -> Name]
    /\ last = Nothing

Decode(t) ==
    /\ last' = [type |-> t, decision |-> Decision(names[t])]
    /\ UNCHANGED <<registry, names>>

Next ==
    \/ Mutate /\ UNCHANGED <<names, last>>
    \/ \E t \in Type : Decode(t)

Spec == Init /\ [][Next]_vars
=============================================================================
