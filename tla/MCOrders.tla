------------------------------ MODULE MCOrders ------------------------------
(***************************************************************************)
(* Small instances of Orders for TLC.                                      *)
(***************************************************************************)
EXTENDS Orders, TLC

CONSTANTS v1, v2, p1, p2

\* Each product sold in one form, or both variants of one product.
SimpleProducts == (v1 :> p1) @@ (v2 :> p2)
OneProduct == (v1 :> p1) @@ (v2 :> p1)

\* Enough for one cart of each kind, and for one unit of each variant.
ScarceStock == (v1 :> 3) @@ (v2 :> 2)
OneEach == (v1 :> 1) @@ (v2 :> 1)

\* The checkouts are alike, and so are the tabs of the dashboard.
Alike == Permutations(Checkouts) \cup Permutations(NoteRequests)

L(v, q) == [variant |-> v, quantity |-> q]

\* Carts that name the variants in opposite orders, and one the shop refuses.
MCCarts == {<<L(v1, 1), L(v2, 1)>>, <<L(v2, 1), L(v1, 2)>>, <<L(v1, 1), L(v1, 1)>>}
FewCarts == {<<L(v2, 1), L(v1, 1)>>, <<L(v1, 1)>>}
LastUnit == {<<L(v1, 1)>>}
EitherVariant == {<<L(v1, 1)>>, <<L(v2, 1)>>}
=============================================================================
