------------------------------ MODULE OrderBook ------------------------------
(***************************************************************************)
(* What the order module promises, with every request a single step: an    *)
(* order is placed with all its units or not at all, takes the next        *)
(* number, and moves along the status machine, giving its units back       *)
(* exactly when it is called off before it ships.                          *)
(***************************************************************************)
EXTENDS OrderRules

CONSTANTS Variant, Order, InitialStock, Carts

VARIABLES
    shelf,  \* units for sale of each variant
    book,   \* the orders
    next    \* the number of the next order

Init ==
    /\ shelf = InitialStock
    /\ book = [o \in Order |-> AbsentOrder]
    /\ next = 1

Place(o, lines, method) ==
    /\ book[o].status = "absent"
    /\ NoDuplicateVariants(lines)
    /\ \A v \in Variant : Units(lines, v) <= shelf[v]
    /\ shelf' = [v \in Variant |-> shelf[v] - Units(lines, v)]
    /\ book' = [book EXCEPT ![o] = NewOrder(next, method, lines)]
    /\ next' = next + 1

Move(o, to) ==
    /\ LegalTransition(book[o].status, to)
    /\ shelf' = IF RestoresStock(book[o].status, to)
                THEN [v \in Variant |-> shelf[v] + Units(book[o].cart, v)]
                ELSE shelf
    /\ book' = [book EXCEPT ![o].status = to,
                            ![o].paid = @ \/ PaysOrder(book[o], to)]
    /\ UNCHANGED next

Next ==
    \E o \in Order :
      \/ \E lines \in Carts : Place(o, lines, "cod")
      \/ \E to \in Status : Move(o, to)

Spec == Init /\ [][Next]_<<shelf, book, next>>
=============================================================================
