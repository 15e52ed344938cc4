------------------------------ MODULE FaqList ------------------------------
(***************************************************************************)
(* A list the owner arranges: the FAQs of a store, which he adds, edits,   *)
(* removes and puts in order from several tabs.  Categories, attributes,   *)
(* values and images are put in order by the same code.                    *)
(*                                                                         *)
(* A reordering is one transaction of an UPDATE per entry: each is a step, *)
(* keeps its row locked, and is seen by nobody before the commit.          *)
(***************************************************************************)
EXTENDS Naturals, FiniteSets, SequencesExt, Records

CONSTANTS
    Faq,         \* ids, given in the order of their numbers
    FirstFaqs,   \* those there at first, in the order of their ids
    Editor,      \* the owner's tabs
    MaxFaqs,     \* MAX_FAQS_PER_STORE
    MaxErrands,  \* bounds the requests
    MaxBroken    \* bounds the connections lost during a reordering

ASSUME FaqsAreNumbered == Faq \subseteq Nat /\ FirstFaqs \subseteq Faq /\ IsFiniteSet(FirstFaqs)
ASSUME FaqBounds == {MaxFaqs, MaxErrands, MaxBroken} \subseteq Nat

VARIABLES
    faqs,       \* the rows, as committed
    used,       \* ids that were given
    errand,     \* what each request has in memory, and its uncommitted moves
    arranged,   \* history: the order last asked for and committed
    overtaken,  \* history: those whose position a save brought back since
    errands,    \* requests so far
    broken      \* lost connections so far

listVars == <<faqs, used, errand, arranged, overtaken, errands, broken>>

NoErrand == [phase |-> "none"]
Listed == DOMAIN faqs

InitList ==
    /\ faqs = [f \in FirstFaqs |->
         [position |-> Cardinality({e \in FirstFaqs : e < f}), shown |-> TRUE, createdAt |-> f]]
    /\ used = FirstFaqs
    /\ errand = [h \in Editor |-> NoErrand]
    /\ arranged = <<>>
    /\ overtaken = {}
    /\ errands = 0
    /\ broken = 0

Doing(h, phase) == errand[h].phase = phase
Continues(h, memory) == errand' = [errand EXCEPT ![h] = memory]

BeginErrand(h) ==
    /\ Doing(h, "none")
    /\ errands < MaxErrands
    /\ errands' = errands + 1

\* Rows a reordering has moved and not committed.
HeldBy(h) == IF Doing(h, "move") THEN errand[h].moved ELSE {}
Free(h, f) == \A g \in Editor \ {h} : f \notin HeldBy(g)

Now == 0
WithFaq(f, row) == Spread([g \in {f} |-> [row EXCEPT !.createdAt = IF @ = Now THEN f ELSE @]], faqs)
NewId == {f \in Faq \ used : \A e \in Faq \ used : f <= e}

-----------------------------------------------------------------------------
\* create: the count, the last position and the insert are three statements.

CountFaqs(h) ==
    /\ BeginErrand(h)
    /\ Cardinality(Listed) < MaxFaqs
    /\ Continues(h, [phase |-> "last"])
    /\ UNCHANGED <<faqs, used, arranged, overtaken, broken>>

\* findNextPosition
NextPosition == Max({faqs[f].position + 1 : f \in Listed} \cup {0})

FindLast(h) ==
    /\ Doing(h, "last")
    /\ Continues(h, [phase |-> "insert", row |-> [position |-> NextPosition, shown |-> TRUE, createdAt |-> Now]])
    /\ UNCHANGED <<faqs, used, arranged, overtaken, errands, broken>>

InsertFaq(h) ==
    /\ Doing(h, "insert")
    /\ \E f \in NewId :
         /\ faqs' = WithFaq(f, errand[h].row)
         /\ used' = used \cup {f}
    /\ Continues(h, NoErrand)
    /\ UNCHANGED <<arranged, overtaken, errands, broken>>

-----------------------------------------------------------------------------
\* update: it loads an entry and saves it, which compares it with the row again.

LoadFaq(h) ==
    /\ BeginErrand(h)
    /\ \E f \in Listed :
         Continues(h, [phase |-> "compare", id |-> f, row |-> [faqs[f] EXCEPT !.shown = ~@]])
    /\ UNCHANGED <<faqs, used, arranged, overtaken, broken>>

\* A removed entry is inserted again, and generateId gives it a new id.
CompareFaq(h) ==
    /\ Doing(h, "compare")
    /\ LET edit == errand[h]
       IN  Continues(h, IF edit.id \in Listed
                      THEN [phase |-> "write", id |-> edit.id, row |-> edit.row,
                            stale |-> edit.row.position # faqs[edit.id].position]
                      ELSE [phase |-> "insert", row |-> edit.row])
    /\ UNCHANGED <<faqs, used, arranged, overtaken, errands, broken>>

\* The columns that differed are written, a position moved meanwhile among them.
WriteFaq(h) ==
    /\ Doing(h, "write")
    /\ LET edit == errand[h]
       IN  /\ Free(h, edit.id)
           /\ faqs' = [f \in Listed |->
                IF f # edit.id THEN faqs[f]
                ELSE IF edit.stale THEN edit.row
                ELSE [faqs[f] EXCEPT !.shown = edit.row.shown]]
           /\ overtaken' = overtaken \cup (IF edit.stale THEN {edit.id} ELSE {})
    /\ Continues(h, NoErrand)
    /\ UNCHANGED <<used, arranged, errands, broken>>

RemoveFaq(h) ==
    /\ BeginErrand(h)
    /\ \E f \in Listed :
         /\ Free(h, f)
         /\ faqs' = [e \in Listed \ {f} |-> faqs[e]]
    /\ UNCHANGED <<used, errand, arranged, overtaken, broken>>

-----------------------------------------------------------------------------
\* reorder

\* The whole list, in any order; every id is there when it is asked for.
AskForOrder(h) ==
    /\ BeginErrand(h)
    /\ \E order \in SetToSeqs(Listed) :
         /\ order # <<>>
         /\ Continues(h, [phase |-> "move", order |-> order, next |-> 1, moved |-> {}])
    /\ UNCHANGED <<faqs, used, arranged, overtaken, broken>>

\* Mutant of SeenByOthers: every UPDATE of a reordering commits by itself.
SeenAtOnce(f, place) == [faqs EXCEPT ![f].position = place - 1]

\* What an UPDATE in the transaction changes for others.
SeenByOthers(f, place) == faqs

Move(h) ==
    /\ Doing(h, "move")
    /\ errand[h].next <= Len(errand[h].order)
    /\ LET place == errand[h].next
           f == errand[h].order[place]
       IN  /\ Free(h, f)
           /\ faqs' = IF f \in Listed THEN SeenByOthers(f, place) ELSE faqs
           /\ Continues(h, [errand[h] EXCEPT !.next = @ + 1, !.moved = @ \cup ({f} \cap Listed)])
    /\ UNCHANGED <<used, arranged, overtaken, errands, broken>>

PlaceIn(order, f) == (CHOOSE i \in DOMAIN order : order[i] = f) - 1

CommitOrder(h) ==
    /\ Doing(h, "move")
    /\ LET ask == errand[h]
       IN  /\ ask.next > Len(ask.order)
           /\ faqs' = [f \in Listed |-> IF f \in ask.moved
                                        THEN [faqs[f] EXCEPT !.position = PlaceIn(ask.order, f)]
                                        ELSE faqs[f]]
           /\ arranged' = ask.order
           /\ overtaken' = overtaken \ ask.moved
    /\ Continues(h, NoErrand)
    /\ UNCHANGED <<used, errands, broken>>

\* The row the transaction waits for, and whether its holder waits in turn.
WaitsFor(h, g) ==
    /\ Doing(h, "move")
    /\ errand[h].next <= Len(errand[h].order)
    /\ errand[h].order[errand[h].next] \in HeldBy(g)

\* PostgreSQL ends one of two reorderings that wait for each other.
EndDeadlock(h) ==
    /\ \E g \in Editor \ {h} : WaitsFor(h, g) /\ WaitsFor(g, h)
    /\ Continues(h, NoErrand)
    /\ UNCHANGED <<faqs, used, arranged, overtaken, errands, broken>>

BreakOff(h) ==
    /\ Doing(h, "move")
    /\ broken < MaxBroken
    /\ broken' = broken + 1
    /\ Continues(h, NoErrand)
    /\ UNCHANGED <<faqs, used, arranged, overtaken, errands>>

NextList ==
    \E h \in Editor :
        \/ CountFaqs(h) \/ FindLast(h) \/ InsertFaq(h)
        \/ LoadFaq(h) \/ CompareFaq(h) \/ WriteFaq(h) \/ RemoveFaq(h)
        \/ AskForOrder(h) \/ Move(h) \/ CommitOrder(h) \/ EndDeadlock(h) \/ BreakOff(h)

-----------------------------------------------------------------------------
\* Properties.

\* listOrdered sorts by position, and by age where positions are equal.
ComesFirst(f, g) ==
    \/ faqs[f].position < faqs[g].position
    \/ faqs[f].position = faqs[g].position /\ faqs[f].createdAt < faqs[g].createdAt

\* The owner finds his entries in the order he asked for last: two orders never
\* mix and none is carried out in part, whatever meets what in the database and
\* wherever a connection is lost.  Only a save of an entry loaded before takes
\* that entry back to where it was.
ArrangedOrderHolds ==
    \A i, j \in DOMAIN arranged :
        i < j /\ {arranged[i], arranged[j]} \subseteq Listed \ overtaken
            => ComesFirst(arranged[i], arranged[j])
=============================================================================
