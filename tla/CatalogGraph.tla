---------------------------- MODULE CatalogGraph ----------------------------
(***************************************************************************)
(* The part of a binary catalog both decoders read: for every offset of    *)
(* the buffer a ResourceLocation record, its dependency offset array, and  *)
(* the location offsets the key table asks for, in table order.            *)
(*                                                                         *)
(* The bytes of a record (its strings, its data object, its type) are      *)
(* abstracted to whether reading them fails, and at which point of the     *)
(* handler: a truncated record or dependency array ("record"), an encoded  *)
(* string that cannot be read ("string"), or a data object or type that    *)
(* cannot be decoded ("object").                                           *)
(***************************************************************************)
EXTENDS Integers, Sequences, Functions

CONSTANTS
    Offset,     \* offsets of the buffer at which a location may be asked for
    DepLists,   \* the dependency offset arrays a record may point to
    RootLists,  \* the location offsets of the key table, flattened
    FaultMaps   \* which records are damaged, and where

FaultKind == {"none", "record", "string", "object"}

ASSUME GraphAssumption ==
    /\ DepLists \subseteq Seq(Offset)
    /\ RootLists \subseteq Seq(Offset)
    /\ FaultMaps \subseteq [Offset -> FaultKind]

VARIABLES deps, fault, roots

\* The catalog is immutable input: no step changes it.
catalog == <<deps, fault, roots>>

CatalogInit ==
    /\ deps \in [Offset -> DepLists]
    /\ fault \in FaultMaps
    /\ roots \in RootLists

CatalogTypeOK ==
    /\ deps \in [Offset -> Seq(Offset)]
    /\ fault \in [Offset -> FaultKind]
    /\ roots \in Seq(Offset)

\* The locations the record at o leads to; a damaged record leads nowhere.
Children(o) == IF fault[o] = "record" THEN {} ELSE Range(deps[o])

Closed(S) == \A x \in S : Children(x) \subseteq S

\* Everything a decoder may visit when asked for the location at o.
Reach(o) == {x \in Offset : \A S \in SUBSET Offset : o \in S /\ Closed(S) => x \in S}

\* A set no member of which can be decoded first: a cycle, or several.
Stuck(C) == C # {} /\ \A x \in C : Children(x) \cap C # {}
=============================================================================
