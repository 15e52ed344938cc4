----------------------------- MODULE OrderRules -----------------------------
(***************************************************************************)
(* The rules an order obeys whoever applies them: its status machine, its  *)
(* payment rule and the shape of its lines.                                *)
(***************************************************************************)
EXTENDS Sequences, FiniteSetsExt

Status == {"pending", "confirmed", "shipped", "delivered", "cancelled"}

ORDER_STATUS_TRANSITIONS ==
    [pending   |-> {"confirmed", "cancelled"},
     confirmed |-> {"shipped", "cancelled"},
     shipped   |-> {"delivered", "cancelled"},
     delivered |-> {},
     cancelled |-> {}]

STOCK_RESTORING_STATUSES == {"pending", "confirmed"}

CUSTOMER_CANCELLABLE_STATUSES == {"pending"}

PaymentMethod == {"cod", "card"}

\* assertTransition, as the condition under which it does not throw.
LegalTransition(from, to) ==
    from \in Status /\ to \in ORDER_STATUS_TRANSITIONS[from]

\* Cancelling puts the goods back unless they have left the shop.
RestoresStock(from, to) == to = "cancelled" /\ from \in STOCK_RESTORING_STATUSES

\* Mutant of PaysOrder: the order is paid when it ships.
PaysOnShipping(order, to) == to = "shipped" /\ order.method = "cod" /\ ~order.paid

\* Delivering a cash-on-delivery order is what gets it paid.
PaysOrder(order, to) == to = "delivered" /\ order.method = "cod" /\ ~order.paid

\* assertNoDuplicateVariants
NoDuplicateVariants(lines) ==
    \A i, j \in DOMAIN lines : lines[i].variant = lines[j].variant => i = j

\* The quantity of variant v in an order's lines.
Units(lines, v) ==
    IF \E i \in DOMAIN lines : lines[i].variant = v
    THEN lines[CHOOSE i \in DOMAIN lines : lines[i].variant = v].quantity
    ELSE 0

\* No order yet: the row a checkout will insert.
AbsentOrder == [status |-> "absent", number |-> 0, paid |-> FALSE,
                method |-> "cod", cart |-> <<>>]

NewOrder(number, method, lines) ==
    [status |-> "pending", number |-> number, paid |-> FALSE,
     method |-> method, cart |-> lines]
=============================================================================
