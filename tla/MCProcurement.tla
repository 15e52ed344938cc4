--------------------------- MODULE MCProcurement ---------------------------
(***************************************************************************)
(* Small instances of Procurement for TLC.                                 *)
(***************************************************************************)
EXTENDS Procurement

CONSTANTS a1, b1, a2, t1, t2

\* Two suppliers on the first draft, one of them again on another.
TwoLists == {{a1, b1}, {a2}}
OneList == {{a1, b1}}

Interchangeable == Permutations({a1, b1}) \cup Permutations({t1, t2})
=============================================================================
