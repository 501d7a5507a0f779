--------------------------- MODULE LegacySession ---------------------------
(***************************************************************************)
(* A program that uses the library: the extension is whatever is           *)
(* installed, the program parses a catalog by one call, and if that was a  *)
(* call of the deprecated API it works with the catalog and its wrappers.  *)
(***************************************************************************)
EXTENDS BackendSelection, CompatWrappers

CONSTANTS
    Example,  \* the call after which the program goes on
    Steps     \* steps it takes then (bound)

VARIABLE steps

vars == <<selection, wrappers, steps>>

Init ==
    /\ SelectionInit
    /\ WrappersInit
    /\ steps = Steps

Parse ==
    /\ outcome = Asked
    /\ \E q \in Requests : Call(q)
    /\ UNCHANGED <<wrappers, steps>>

\* Which call returned the catalog makes no difference to its wrappers.
Use ==
    /\ steps > 0 /\ native = Entry /\ outcome.error = "none" /\ outcome.call = {Example}
    /\ steps' = steps - 1
    /\ WrappersNext
    /\ UNCHANGED selection

Next == Parse \/ Use

Spec == Init /\ [][Next]_vars
=============================================================================
