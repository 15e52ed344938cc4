---------------------------- MODULE PurchaseDeal ----------------------------
(***************************************************************************)
(* What a purchase request promises, with every commit a single step: it   *)
(* moves along its status machine, its recipients change while it is a     *)
(* draft only, offers are answered only, and the step that confirms it     *)
(* picks one of them and declines all others.                              *)
(***************************************************************************)
CONSTANTS Offer, Recipients, None

VARIABLES
    status,   \* of the request, None before it is drafted
    answers   \* the status of each offer, None where there is none

Init == status = None /\ answers = [o \in Offer |-> None]

Listed == {o \in Offer : answers[o] # None}

List(list) == answers' = [o \in Offer |-> IF o \in list THEN "awaiting" ELSE None]

Draft ==
    /\ status \in {None, "draft"}
    /\ status' = "draft"
    /\ \E list \in Recipients : List(list)

Send == status = "draft" /\ status' = "sent" /\ UNCHANGED answers

\* An answer may be entered on a draft too: the owner heard it on the phone.
Answer(o) ==
    /\ status # "confirmed"
    /\ o \in Listed
    /\ answers' = [answers EXCEPT ![o] = "received"]
    /\ UNCHANGED status

FirstAnswer ==
    /\ status = "sent"
    /\ status' = "replied"
    /\ UNCHANGED answers

CallOff ==
    /\ status \in {"draft", "sent", "replied"}
    /\ status' = "cancelled"
    /\ UNCHANGED answers

Strike(winner) ==
    /\ status = "replied"
    /\ status' = "confirmed"
    /\ winner \in Listed
    /\ answers' = [o \in Offer |-> IF o = winner THEN "won"
                                   ELSE IF o \in Listed THEN "declined" ELSE None]

Next == Draft \/ Send \/ FirstAnswer \/ CallOff \/ \E o \in Offer : Answer(o) \/ Strike(o)

Spec == Init /\ [][Next]_<<status, answers>>
=============================================================================
