--------------------------- MODULE Catalog_proofs ---------------------------
(***************************************************************************)
(* About the owner's edits of the catalog from several tabs at once, for   *)
(* any number of tabs and entries: an order he asked for holds, whatever   *)
(* it meets in the database; an edit of a value that nothing disturbs      *)
(* keeps its style and its colours together; the images that are shown and *)
(* the assets that are kept are the same ones; only a handler that was     *)
(* overtaken between its checks and its write makes a matrix of variants   *)
(* that no shopper could buy from; the counts beside the shop's filters    *)
(* are what a click on them lists; a slug that is taken meanwhile is       *)
(* survived once; and what Gemini proposes is applied, and applied once.   *)
(***************************************************************************)
EXTENDS FaqList, Swatches, StoreImages, ProductMatrix, Storefront, CatalogNames, SequenceTheorems,
        Sums_proofs

-----------------------------------------------------------------------------
\* The list of FaqList.

ListSpec == InitList /\ [][NextList]_listVars

EntryColumn == {"position", "shown", "createdAt"}

\* Ids in the order the owner gave them, each once, and none that is still free.
IsOrder(order) ==
    /\ order \in Seq(used)
    /\ \A i, j \in DOMAIN order : order[i] = order[j] => i = j

\* A reordering has moved those of its entries that it came past and that are there.
MoveOK(h) ==
    Doing(h, "move") =>
      /\ errand[h] \in [phase : {"move"}, order : Seq(used), next : Nat \ {0}, moved : SUBSET used]
      /\ IsOrder(errand[h].order)
      /\ \A i \in DOMAIN errand[h].order :
           i < errand[h].next /\ errand[h].order[i] \in Listed
             => errand[h].order[i] \in errand[h].moved

\* A save holds an entry with all its columns.
RowOK(h) ==
    errand[h].phase \in {"insert", "compare", "write"} => DOMAIN errand[h].row = EntryColumn

ListTypeOK ==
    /\ Listed \subseteq used /\ used \subseteq Faq /\ IsFiniteSet(used)
    /\ \A f \in Listed : DOMAIN faqs[f] = EntryColumn
    /\ DOMAIN errand = Editor
    /\ \A h \in Editor : MoveOK(h) /\ RowOK(h)
    /\ IsOrder(arranged)

\* What was arranged and not brought back is where it was put.
StaysArranged ==
    \A i \in DOMAIN arranged :
        arranged[i] \in Listed \ overtaken => faqs[arranged[i]].position = i - 1

ListInv == ListTypeOK /\ StaysArranged

\* An order that was asked for stays one while ids are given.
LEMMA OrderStays ==
    ASSUME NEW order, IsOrder(order), used \subseteq used'
    PROVE  IsOrder(order)'
BY SeqMonotonic DEF IsOrder

\* An id that was given does not come back, and rows keep their columns.
EntriesGoOn ==
    /\ used \subseteq used' /\ used' \subseteq Faq /\ IsFiniteSet(used')
    /\ Listed' \subseteq used' /\ Listed' \cap used \subseteq Listed
    /\ \A f \in Listed' : DOMAIN faqs'[f] = EntryColumn

\* What the step of one tab leaves to the others, and to its own memory.
LEMMA ErrandsGoOn ==
    ASSUME ListTypeOK, NEW h \in Editor, NEW memory, errand' = [errand EXCEPT ![h] = memory],
           EntriesGoOn
    PROVE  /\ DOMAIN errand' = Editor /\ errand'[h] = memory
           /\ \A g \in Editor \ {h} : MoveOK(g)' /\ RowOK(g)'
<1>1. DOMAIN errand' = Editor /\ errand'[h] = memory
  BY DEF ListTypeOK
<1>2. ASSUME NEW g \in Editor \ {h} PROVE MoveOK(g)' /\ RowOK(g)'
  <2>1. errand'[g] = errand[g] /\ MoveOK(g) /\ RowOK(g)
    BY DEF ListTypeOK
  <2>2. RowOK(g)'
    BY <2>1 DEF RowOK
  <2>3. MoveOK(g)'
    <3>1. SUFFICES ASSUME Doing(g, "move") PROVE MoveOK(g)'
      BY <2>1 DEF MoveOK, Doing
    <3>2. IsOrder(errand[g].order)'
      BY <2>1, <3>1, OrderStays DEF MoveOK, EntriesGoOn
    <3>3. errand[g].order \in Seq(used')
      BY <2>1, <3>1, SeqMonotonic DEF MoveOK, EntriesGoOn
    <3>4. \A i \in DOMAIN errand[g].order : errand[g].order[i] \in used
      BY <2>1, <3>1, ElementOfSeq, LenProperties DEF MoveOK
    <3>5. errand[g] \in [phase : {"move"}, order : Seq(used'), next : Nat \ {0}, moved : SUBSET used']
      BY <2>1, <3>1, <3>3 DEF MoveOK, EntriesGoOn
    <3>6. QED
      BY <2>1, <3>1, <3>2, <3>4, <3>5 DEF MoveOK, EntriesGoOn, Doing
  <2>4. QED
    BY <2>2, <2>3
<1>3. QED
  BY <1>1, <1>2

\* A step whose own memory is no reordering, and holds a whole entry if any.
LEMMA ListTypeStep ==
    ASSUME ListTypeOK, NEW h \in Editor, NEW memory, errand' = [errand EXCEPT ![h] = memory],
           EntriesGoOn, IsOrder(arranged)',
           memory.phase # "move",
           memory.phase \in {"insert", "compare", "write"} => DOMAIN memory.row = EntryColumn
    PROVE  ListTypeOK'
<1>1. /\ DOMAIN errand' = Editor /\ errand'[h] = memory
      /\ \A g \in Editor \ {h} : MoveOK(g)' /\ RowOK(g)'
  BY ErrandsGoOn
<1>2. MoveOK(h)' /\ RowOK(h)'
  BY <1>1 DEF MoveOK, RowOK, Doing
<1>3. QED
  BY <1>1, <1>2 DEF ListTypeOK, EntriesGoOn

\* A step that arranges nothing and moves no entry, unless it notes that.
LEMMA StillArranged ==
    ASSUME ListInv, EntriesGoOn, arranged' = arranged, overtaken \subseteq overtaken',
           \A f \in Listed \cap Listed' : f \in overtaken' \/ faqs'[f].position = faqs[f].position
    PROVE  IsOrder(arranged)' /\ StaysArranged'
<1>1. IsOrder(arranged)'
  BY OrderStays DEF ListInv, ListTypeOK, EntriesGoOn
<1>2. \A i \in DOMAIN arranged : arranged[i] \in used
  BY ElementOfSeq, LenProperties DEF ListInv, ListTypeOK, IsOrder
<1>3. QED
  BY <1>1, <1>2 DEF ListInv, StaysArranged, EntriesGoOn

\* Nothing of the list changes: what one tab has in memory does.
LEMMA ListUnchanged ==
    ASSUME ListInv, UNCHANGED <<faqs, used, arranged>>, overtaken' = overtaken
    PROVE  EntriesGoOn /\ IsOrder(arranged)' /\ StaysArranged'
<1>1. EntriesGoOn
  BY DEF ListInv, ListTypeOK, EntriesGoOn, Listed
<1>2. QED
  BY <1>1, StillArranged DEF Listed

LEMMA ThinkingStep ==
    ASSUME ListInv, NEW h \in Editor, NEW memory, errand' = [errand EXCEPT ![h] = memory],
           UNCHANGED <<faqs, used, arranged, overtaken>>,
           memory.phase # "move",
           memory.phase \in {"insert", "compare", "write"} => DOMAIN memory.row = EntryColumn
    PROVE  ListInv'
<1>1. EntriesGoOn /\ IsOrder(arranged)' /\ StaysArranged'
  BY ListUnchanged
<1>2. QED
  BY <1>1, ListTypeStep DEF ListInv

-----------------------------------------------------------------------------
\* One lemma per action of the list.

\* A tab that is done has nothing in memory.
LEMMA DoneErrand == NoErrand.phase = "none"
BY DEF NoErrand

\* Beginning, looking and giving up.
LEMMA ThinkingSteps ==
    ASSUME ListInv, NEW h \in Editor,
           \/ CountFaqs(h) \/ FindLast(h) \/ LoadFaq(h) \/ CompareFaq(h)
           \/ EndDeadlock(h) \/ BreakOff(h)
    PROVE  ListInv'
<1>1. CASE CountFaqs(h)
  <2> DEFINE memory == [phase |-> "last"]
  <2>1. memory.phase = "last"
    OBVIOUS
  <2>2. errand' = [errand EXCEPT ![h] = memory]
    BY <1>1 DEF CountFaqs, Continues
  <2> HIDE DEF memory
  <2>3. QED
    BY <1>1, <2>1, <2>2, ThinkingStep DEF CountFaqs
<1>2. CASE FindLast(h)
  <2> DEFINE row == [position |-> NextPosition, shown |-> TRUE, createdAt |-> Now]
             memory == [phase |-> "insert", row |-> row]
  <2>1. DOMAIN row = EntryColumn /\ memory.row = row /\ memory.phase = "insert"
    BY DEF EntryColumn
  <2>2. errand' = [errand EXCEPT ![h] = memory]
    BY <1>2 DEF FindLast, Continues
  <2> HIDE DEF row, memory
  <2>3. QED
    BY <1>2, <2>1, <2>2, ThinkingStep DEF FindLast
<1>3. CASE LoadFaq(h)
  <2>1. PICK f \in Listed :
          Continues(h, [phase |-> "compare", id |-> f, row |-> [faqs[f] EXCEPT !.shown = ~@]])
    BY <1>3 DEF LoadFaq
  <2> DEFINE row == [faqs[f] EXCEPT !.shown = ~@]
             memory == [phase |-> "compare", id |-> f, row |-> row]
  <2>2. DOMAIN row = EntryColumn /\ memory.row = row /\ memory.phase = "compare"
    BY DEF ListInv, ListTypeOK
  <2>3. errand' = [errand EXCEPT ![h] = memory]
    BY <2>1 DEF Continues
  <2> HIDE DEF row, memory
  <2>4. QED
    BY <1>3, <2>2, <2>3, ThinkingStep DEF LoadFaq
<1>4. CASE CompareFaq(h)
  <2> DEFINE e == errand[h]
             changed == [phase |-> "write", id |-> e.id, row |-> e.row,
                         stale |-> e.row.position # faqs[e.id].position]
             again == [phase |-> "insert", row |-> e.row]
             memory == IF e.id \in Listed THEN changed ELSE again
  <2>1. DOMAIN e.row = EntryColumn
    BY <1>4 DEF CompareFaq, Doing, ListInv, ListTypeOK, RowOK
  <2>2. memory.row = e.row /\ memory.phase \in {"write", "insert"}
    <3>1. changed.row = e.row /\ changed.phase = "write"
      OBVIOUS
    <3>2. again.row = e.row /\ again.phase = "insert"
      OBVIOUS
    <3>3. QED
      BY <3>1, <3>2
  <2>3. errand' = [errand EXCEPT ![h] = memory]
    BY <1>4 DEF CompareFaq, Continues
  <2> HIDE DEF memory
  <2>4. QED
    BY <1>4, <2>1, <2>2, <2>3, ThinkingStep DEF CompareFaq
<1>5. CASE EndDeadlock(h) \/ BreakOff(h)
  <2>1. errand' = [errand EXCEPT ![h] = NoErrand]
    BY <1>5 DEF EndDeadlock, BreakOff, Continues
  <2>2. QED
    BY <1>5, <2>1, DoneErrand, ThinkingStep DEF EndDeadlock, BreakOff
<1>6. QED
  BY <1>1, <1>2, <1>3, <1>4, <1>5

\* A new entry takes an id that was never given.
LEMMA InsertFaqStep ==
    ASSUME ListInv, NEW h \in Editor, InsertFaq(h)
    PROVE  ListInv'
<1> DEFINE row == errand[h].row
<1>1. PICK f \in NewId : faqs' = WithFaq(f, row) /\ used' = used \cup {f}
  BY DEF InsertFaq
<1>2. f \in Faq /\ f \notin used /\ DOMAIN row = EntryColumn
  BY DEF NewId, InsertFaq, Doing, ListInv, ListTypeOK, RowOK
<1>3. f \notin Listed
  BY <1>2 DEF ListInv, ListTypeOK
<1>4. /\ Listed' = Listed \cup {f}
      /\ \A g \in Listed : faqs'[g] = faqs[g]
      /\ DOMAIN faqs'[f] = EntryColumn
  <2> DEFINE new == [row EXCEPT !.createdAt = IF @ = Now THEN f ELSE @]
             one == [g \in {f} |-> new]
  <2>1. DOMAIN one = {f} /\ one[f] = new /\ DOMAIN new = EntryColumn
    BY <1>2
  <2>2. faqs' = Spread(one, faqs)
    BY <1>1 DEF WithFaq
  <2> HIDE DEF one, new
  <2>3. QED
    BY <1>3, <2>1, <2>2 DEF Spread, Listed
<1>5. EntriesGoOn
  BY <1>1, <1>2, <1>4, FS_AddElement DEF ListInv, ListTypeOK, EntriesGoOn
<1>6. IsOrder(arranged)' /\ StaysArranged'
  BY <1>3, <1>4, <1>5, StillArranged DEF InsertFaq
<1>7. ListTypeOK'
  <2>1. errand' = [errand EXCEPT ![h] = NoErrand]
    BY DEF InsertFaq, Continues
  <2>2. QED
    BY <1>5, <1>6, <2>1, DoneErrand, ListTypeStep DEF ListInv
<1>8. QED
  BY <1>6, <1>7 DEF ListInv

\* A save brings a position back, or leaves it where it is.
LEMMA WriteFaqStep ==
    ASSUME ListInv, NEW h \in Editor, WriteFaq(h)
    PROVE  ListInv'
<1> DEFINE e == errand[h]
<1>1. DOMAIN e.row = EntryColumn
  BY DEF WriteFaq, Doing, ListInv, ListTypeOK, RowOK
<1>2. /\ faqs' = [f \in Listed |->
             IF f # e.id THEN faqs[f]
             ELSE IF e.stale THEN e.row
             ELSE [faqs[f] EXCEPT !.shown = e.row.shown]]
      /\ overtaken' = overtaken \cup (IF e.stale THEN {e.id} ELSE {})
      /\ used' = used /\ arranged' = arranged
  BY DEF WriteFaq
<1>3. Listed' = Listed
  BY <1>2 DEF Listed
<1>4. ASSUME NEW f \in Listed
      PROVE  /\ DOMAIN faqs'[f] = EntryColumn
             /\ f \in overtaken' \/ faqs'[f].position = faqs[f].position
  <2>1. DOMAIN faqs[f] = EntryColumn
    BY DEF ListInv, ListTypeOK
  <2>2. CASE f # e.id
    BY <1>2, <2>1, <2>2
  <2>3. CASE f = e.id /\ e.stale
    BY <1>1, <1>2, <2>3
  <2>4. CASE f = e.id /\ ~e.stale
    <3>1. faqs'[f] = [faqs[f] EXCEPT !.shown = e.row.shown]
      BY <1>2, <2>4
    <3>2. QED
      BY <2>1, <3>1 DEF EntryColumn
  <2>5. QED
    BY <2>2, <2>3, <2>4
<1>5. EntriesGoOn
  BY <1>2, <1>3, <1>4 DEF ListInv, ListTypeOK, EntriesGoOn
<1>6. IsOrder(arranged)' /\ StaysArranged'
  BY <1>2, <1>4, <1>5, StillArranged
<1>7. ListTypeOK'
  <2>1. errand' = [errand EXCEPT ![h] = NoErrand]
    BY DEF WriteFaq, Continues
  <2>2. QED
    BY <1>5, <1>6, <2>1, DoneErrand, ListTypeStep DEF ListInv
<1>8. QED
  BY <1>6, <1>7 DEF ListInv

\* An entry that is removed is arranged no more.
LEMMA RemoveFaqStep ==
    ASSUME ListInv, NEW h \in Editor, RemoveFaq(h)
    PROVE  ListInv'
<1>1. PICK f \in Listed : faqs' = [e \in Listed \ {f} |-> faqs[e]]
  BY DEF RemoveFaq
<1>2. /\ Listed' = Listed \ {f} /\ \A e \in Listed' : faqs'[e] = faqs[e]
      /\ UNCHANGED <<used, errand, arranged, overtaken>>
  BY <1>1 DEF RemoveFaq, Listed
<1>3. EntriesGoOn
  BY <1>2 DEF ListInv, ListTypeOK, EntriesGoOn
<1>4. IsOrder(arranged)' /\ StaysArranged'
  BY <1>2, <1>3, StillArranged
<1>5. \A g \in Editor : MoveOK(g)' /\ RowOK(g)'
  <2>1. \A g \in Editor : IsOrder(errand[g].order) => IsOrder(errand[g].order)'
    BY <1>2 DEF IsOrder
  <2>2. QED
    BY <1>2, <2>1 DEF ListInv, ListTypeOK, MoveOK, RowOK, Doing
<1>6. QED
  BY <1>2, <1>3, <1>4, <1>5 DEF ListInv, ListTypeOK, EntriesGoOn

\* A list names each of its entries once.
LEMMA AskForOrderStep ==
    ASSUME ListInv, NEW h \in Editor, AskForOrder(h)
    PROVE  ListInv'
<1>1. PICK order \in SetToSeqs(Listed) :
        Continues(h, [phase |-> "move", order |-> order, next |-> 1, moved |-> {}])
  BY DEF AskForOrder
<1> DEFINE memory == [phase |-> "move", order |-> order, next |-> 1, moved |-> {}]
<1>2. UNCHANGED <<faqs, used, arranged, overtaken>>
  BY DEF AskForOrder
<1>3. Cardinality(Listed) \in Nat
  BY FS_Subset, FS_CardinalityType DEF ListInv, ListTypeOK
<1>4. IsOrder(order)
  <2>1. /\ order \in [1..Cardinality(Listed) -> Listed]
        /\ \A i, j \in 1..Cardinality(Listed) : i # j => order[i] # order[j]
    BY DEF SetToSeqs
  <2>2. order \in Seq(Listed)
    BY <1>3, <2>1, SeqDef
  <2>3. order \in Seq(used)
    BY <2>2, SeqMonotonic DEF ListInv, ListTypeOK
  <2>4. QED
    BY <2>1, <2>3 DEF IsOrder
<1>5. EntriesGoOn /\ IsOrder(arranged)' /\ StaysArranged'
  BY <1>2, ListUnchanged
<1>6. errand' = [errand EXCEPT ![h] = memory]
  BY <1>1 DEF Continues
<1>7. /\ DOMAIN errand' = Editor /\ errand'[h] = memory
      /\ \A g \in Editor \ {h} : MoveOK(g)' /\ RowOK(g)'
  BY <1>5, <1>6, ErrandsGoOn DEF ListInv
<1>8. MoveOK(h)' /\ RowOK(h)'
  <2>1. memory \in [phase : {"move"}, order : Seq(used), next : Nat \ {0}, moved : SUBSET used]
    BY <1>4 DEF IsOrder
  <2>2. IsOrder(order)'
    BY <1>2, <1>4 DEF IsOrder
  <2>3. \A i \in DOMAIN order : ~(i < 1)
    BY <1>4, LenProperties DEF IsOrder
  <2>4. QED
    BY <1>2, <1>7, <2>1, <2>2, <2>3 DEF MoveOK, RowOK, Doing
<1>9. QED
  BY <1>5, <1>7, <1>8 DEF ListInv, ListTypeOK, EntriesGoOn

\* A reordering comes past one entry more, and moves it if it is there.
LEMMA MoveStep ==
    ASSUME ListInv, NEW h \in Editor, Move(h)
    PROVE  ListInv'
<1> DEFINE ask == errand[h]
           f == ask.order[ask.next]
           memory == [ask EXCEPT !.next = @ + 1, !.moved = @ \cup ({f} \cap Listed)]
<1>1. /\ UNCHANGED <<faqs, used, arranged, overtaken>>
      /\ errand' = [errand EXCEPT ![h] = memory]
      /\ ask.next <= Len(ask.order) /\ Doing(h, "move")
  BY DEF Move, SeenByOthers, Continues
<1>2. /\ ask \in [phase : {"move"}, order : Seq(used), next : Nat \ {0}, moved : SUBSET used]
      /\ IsOrder(ask.order)
      /\ \A i \in DOMAIN ask.order :
           i < ask.next /\ ask.order[i] \in Listed => ask.order[i] \in ask.moved
  BY <1>1 DEF ListInv, ListTypeOK, MoveOK
<1>3. /\ memory \in [phase : {"move"}, order : Seq(used), next : Nat \ {0}, moved : SUBSET used]
      /\ memory.order = ask.order /\ memory.next = ask.next + 1
      /\ memory.moved = ask.moved \cup ({f} \cap Listed)
  <2> DEFINE next == ask.next + 1
             moved == ask.moved \cup ({f} \cap Listed)
  <2>1. next \in Nat \ {0} /\ moved \in SUBSET used
    BY <1>2 DEF ListInv, ListTypeOK
  <2>2. memory = [ask EXCEPT !.next = next, !.moved = moved]
    OBVIOUS
  <2> HIDE DEF next, moved, memory
  <2>3. /\ memory \in [phase : {"move"}, order : Seq(used), next : Nat \ {0}, moved : SUBSET used]
        /\ memory.order = ask.order /\ memory.next = next /\ memory.moved = moved
    BY <1>2, <2>1, <2>2
  <2>4. QED
    BY <2>3 DEF next, moved
<1>4. EntriesGoOn /\ IsOrder(arranged)' /\ StaysArranged'
  BY <1>1, ListUnchanged
<1> HIDE DEF memory
<1>5. /\ DOMAIN errand' = Editor /\ errand'[h] = memory
      /\ \A g \in Editor \ {h} : MoveOK(g)' /\ RowOK(g)'
  BY <1>1, <1>4, ErrandsGoOn DEF ListInv
<1>6. \A i \in DOMAIN ask.order :
        i < ask.next + 1 /\ ask.order[i] \in Listed => ask.order[i] \in memory.moved
  <2>1. \A i \in DOMAIN ask.order : i \in Nat
    BY <1>2, LenProperties
  <2>2. \A i \in DOMAIN ask.order : i < ask.next + 1 => i < ask.next \/ i = ask.next
    BY <1>2, <2>1
  <2>3. QED
    BY <1>2, <1>3, <2>2
<1>7. MoveOK(h)' /\ RowOK(h)'
  <2>1. IsOrder(errand[h].order)'
    BY <1>1, <1>2, <1>3, <1>5 DEF IsOrder
  <2>2. Listed' = Listed /\ used' = used
    BY <1>1 DEF Listed
  <2>3. memory.phase = "move"
    BY <1>3
  <2>4. QED
    BY <1>3, <1>5, <1>6, <2>1, <2>2, <2>3 DEF MoveOK, RowOK, Doing
<1>8. QED
  BY <1>4, <1>5, <1>7 DEF ListInv, ListTypeOK, EntriesGoOn

\* A reordering that came past every entry puts each in its place.
LEMMA CommitOrderStep ==
    ASSUME ListInv, NEW h \in Editor, CommitOrder(h)
    PROVE  ListInv'
<1> DEFINE ask == errand[h]
<1>1. /\ Doing(h, "move") /\ ask.next > Len(ask.order)
      /\ faqs' = [f \in Listed |-> IF f \in ask.moved
                                   THEN [faqs[f] EXCEPT !.position = PlaceIn(ask.order, f)]
                                   ELSE faqs[f]]
      /\ arranged' = ask.order /\ overtaken' = overtaken \ ask.moved /\ used' = used
      /\ errand' = [errand EXCEPT ![h] = NoErrand]
  BY DEF CommitOrder, Continues
<1>2. /\ ask \in [phase : {"move"}, order : Seq(used), next : Nat \ {0}, moved : SUBSET used]
      /\ IsOrder(ask.order)
      /\ \A i \in DOMAIN ask.order :
           i < ask.next /\ ask.order[i] \in Listed => ask.order[i] \in ask.moved
  BY <1>1 DEF ListInv, ListTypeOK, MoveOK
<1>3. Listed' = Listed
  BY <1>1 DEF Listed
<1>4. \A f \in Listed : DOMAIN faqs'[f] = EntryColumn
  BY <1>1 DEF ListInv, ListTypeOK
<1>5. EntriesGoOn
  BY <1>1, <1>3, <1>4 DEF ListInv, ListTypeOK, EntriesGoOn
<1>6. IsOrder(arranged)'
  BY <1>1, <1>2 DEF IsOrder
<1>7. ASSUME NEW i \in DOMAIN ask.order, ask.order[i] \in Listed
      PROVE  faqs'[ask.order[i]].position = i - 1
  <2> DEFINE f == ask.order[i]
  <2>1. f \in ask.moved
    BY <1>1, <1>2, <1>7, LenProperties
  <2>2. PlaceIn(ask.order, f) = i - 1
    <3>1. (CHOOSE j \in DOMAIN ask.order : ask.order[j] = f) = i
      BY <1>2 DEF IsOrder
    <3>2. QED
      BY <3>1 DEF PlaceIn
  <2>3. faqs'[f] = [faqs[f] EXCEPT !.position = i - 1]
    BY <1>1, <1>7, <2>1, <2>2
  <2>4. DOMAIN faqs[f] = EntryColumn
    BY <1>7 DEF ListInv, ListTypeOK
  <2>5. QED
    BY <2>3, <2>4 DEF EntryColumn
<1>8. StaysArranged'
  BY <1>1, <1>3, <1>7 DEF StaysArranged
<1>9. ListTypeOK'
  BY <1>1, <1>5, <1>6, DoneErrand, ListTypeStep DEF ListInv
<1>10. QED
  BY <1>8, <1>9 DEF ListInv

\* At first nothing was arranged.
LEMMA InitListInv ==
    InitList => ListInv
<1> SUFFICES ASSUME InitList PROVE ListInv
  OBVIOUS
<1>1. /\ used = FirstFaqs /\ arranged = <<>> /\ errand = [h \in Editor |-> NoErrand]
      /\ Listed = FirstFaqs
  BY DEF InitList, Listed
<1>2. \A f \in Listed : DOMAIN faqs[f] = EntryColumn
  BY DEF InitList, Listed, EntryColumn
<1>3. IsOrder(arranged) /\ StaysArranged
  BY <1>1, EmptySeq DEF IsOrder, StaysArranged
<1>4. \A h \in Editor : MoveOK(h) /\ RowOK(h)
  BY <1>1, DoneErrand DEF MoveOK, RowOK, Doing
<1>5. QED
  BY <1>1, <1>2, <1>3, <1>4, FaqsAreNumbered DEF ListInv, ListTypeOK

\* Every step of every tab keeps the list.
LEMMA NextListInv ==
    ListInv /\ [NextList]_listVars => ListInv'
<1> SUFFICES ASSUME ListInv, [NextList]_listVars PROVE ListInv'
  OBVIOUS
<1>1. CASE NextList
  BY <1>1, ThinkingSteps, InsertFaqStep, WriteFaqStep, RemoveFaqStep, AskForOrderStep,
     MoveStep, CommitOrderStep DEF NextList
<1>2. CASE UNCHANGED listVars
  <2>1. UNCHANGED <<faqs, used, arranged, overtaken, errand>>
    BY <1>2 DEF listVars
  <2>2. EntriesGoOn /\ IsOrder(arranged)' /\ StaysArranged'
    BY <2>1, ListUnchanged
  <2>3. \A h \in Editor : MoveOK(h)' /\ RowOK(h)'
    BY <2>1 DEF ListInv, ListTypeOK, MoveOK, RowOK, Doing, IsOrder, Listed
  <2>4. QED
    BY <2>1, <2>2, <2>3 DEF ListInv, ListTypeOK, EntriesGoOn
<1>3. QED
  BY <1>1, <1>2

\* The owner finds his entries in the order he asked for last, whatever
\* reorderings, saves, removals, deadlocks and lost connections interleave:
\* only an entry that a stale save brought back may be out of its place.
THEOREM ArrangedOrderStays == ListSpec => []ArrangedOrderHolds
<1>1. ListInv => ArrangedOrderHolds
  <2> SUFFICES ASSUME ListInv, NEW i \in DOMAIN arranged, NEW j \in DOMAIN arranged, i < j,
                      {arranged[i], arranged[j]} \subseteq Listed \ overtaken
               PROVE  ComesFirst(arranged[i], arranged[j])
    BY DEF ArrangedOrderHolds
  <2>1. i \in Nat /\ j \in Nat
    BY LenProperties DEF ListInv, ListTypeOK, IsOrder
  <2>2. faqs[arranged[i]].position = i - 1 /\ faqs[arranged[j]].position = j - 1
    BY DEF ListInv, StaysArranged
  <2>3. QED
    BY <2>1, <2>2 DEF ComesFirst
<1>2. QED
  BY <1>1, InitListInv, NextListInv, PTL DEF ListSpec


-----------------------------------------------------------------------------
\* The swatches of Swatches.

SwatchSpec == InitSwatches /\ [][NextSwatches]_swatchVars

\* What an edit's memory says of what it read, by how far it has come.
StrokeOK(s) ==
    \/ s = NoStroke
    \/ s.at = "key" /\ (s.drawn = s.style \/ Pairs(s.drawn, HexesOf(s.read)))
    \/ s.at = "clear" /\ s.drawn = "list" /\ {"at", "read", "drawn"} \subseteq DOMAIN s
    \/ s.at = "cleared" /\ s.drawn = "list" /\ Pairs("list", HexesOf(s.read))
    \/ s.at = "add" /\ s.value \in Tint /\ Pairs(s.style, {s.hex})
    \/ /\ s.at = "paint" /\ s.value \in Tint
       /\ \/ s.given = "hex" /\ s.hex = "hex" /\ Pairs(s.style, {"hex"})
          \/ s.given = "null"
          \/ s.given = "absent" /\ s.hex = s.read[s.value]

SwatchInv ==
    /\ DOMAIN colour = Tint
    /\ DOMAIN stroke = Painter
    /\ \A p \in Painter : StrokeOK(stroke[p])


\* An edit remembers what it read, beside what it was asked for.
LEMMA BegunStroke ==
    ASSUME SwatchInv, NEW p \in Painter, NEW at, NEW memory, BeginStroke(p, at, memory)
    PROVE  /\ stroke'[p] = Spread([at |-> at, style |-> style, read |-> colour], memory)
           /\ \A q \in Painter \ {p} : stroke'[q] = stroke[q]
           /\ DOMAIN stroke' = Painter /\ style' = style /\ colour' = colour
           /\ StrokeAt(p, "idle")
BY DEF BeginStroke, SwatchInv

\* The memory of an edit of the attribute.
LEMMA AttributeStroke ==
    ASSUME NEW at, NEW drawn, NEW key
    PROVE  LET s == Spread([at |-> at, style |-> style, read |-> colour], [drawn |-> drawn, key |-> key])
           IN  /\ s.at = at /\ s.style = style /\ s.read = colour /\ s.drawn = drawn /\ s.key = key
               /\ {"at", "read", "drawn"} \subseteq DOMAIN s
<1> DEFINE read == [at |-> at, style |-> style, read |-> colour]
           asked == [drawn |-> drawn, key |-> key]
<1>1. DOMAIN read = {"at", "style", "read"} /\ DOMAIN asked = {"drawn", "key"}
  OBVIOUS
<1>2. /\ read.at = at /\ read.style = style /\ read.read = colour
      /\ asked.drawn = drawn /\ asked.key = key
  OBVIOUS
<1> HIDE DEF read, asked
<1>3. DOMAIN Spread(read, asked) = {"at", "style", "read", "drawn", "key"}
  BY <1>1 DEF Spread
<1>4. \A f \in {"at", "style", "read", "drawn", "key"} :
        Spread(read, asked)[f] = IF f \in {"at", "style", "read"} THEN read[f] ELSE asked[f]
  BY <1>1 DEF Spread
<1>5. QED
  BY <1>2, <1>3, <1>4 DEF read, asked

\* The memory of an edit of a value.
LEMMA TintStroke ==
    ASSUME NEW at, NEW tint, NEW hex, NEW given
    PROVE  LET s == Spread([at |-> at, style |-> style, read |-> colour],
                           [value |-> tint, hex |-> hex, given |-> given])
           IN  /\ s.at = at /\ s.style = style /\ s.read = colour
               /\ s.value = tint /\ s.hex = hex /\ s.given = given
<1> DEFINE read == [at |-> at, style |-> style, read |-> colour]
           asked == [value |-> tint, hex |-> hex, given |-> given]
<1>1. DOMAIN read = {"at", "style", "read"} /\ DOMAIN asked = {"value", "hex", "given"}
  OBVIOUS
<1>2. /\ read.at = at /\ read.style = style /\ read.read = colour
      /\ asked.value = tint /\ asked.hex = hex /\ asked.given = given
  OBVIOUS
<1> HIDE DEF read, asked
<1>3. DOMAIN Spread(read, asked) = {"at", "style", "read", "value", "hex", "given"}
  BY <1>1 DEF Spread
<1>4. \A f \in {"at", "style", "read", "value", "hex", "given"} :
        Spread(read, asked)[f] = IF f \in {"at", "style", "read"} THEN read[f] ELSE asked[f]
  BY <1>1 DEF Spread
<1>5. QED
  BY <1>2, <1>3, <1>4 DEF read, asked

\* What a step of tab p shows: its memory is in order, the others' are as they
\* were, and it leaves the pair whole if it ends an edit that nothing disturbed.
StrokeSteps(p) ==
    /\ DOMAIN colour' = Tint /\ DOMAIN stroke' = Painter
    /\ StrokeOK(stroke'[p])
    /\ \A q \in Painter \ {p} : stroke'[q] = stroke[q]
    /\ EndsUndisturbed(p) /\ ~RefusedLate(p) /\ ~Blanks(p) => Whole'

\* No edit ends as it begins.
LEMMA BeginIsNoEnd ==
    ASSUME NEW p, StrokeAt(p, "idle") \/ StrokeAt(p, "clear")
    PROVE  ~EndsUndisturbed(p)
BY DEF StrokeAt, EndsUndisturbed

LEMMA LoadAttributeStep ==
    ASSUME SwatchInv, NEW p \in Painter, NEW key,
           (\E drawn \in Style : LoadAttribute(p, drawn, key)) \/ LoadToRename(p, key)
    PROVE  StrokeSteps(p)
<1>1. ASSUME NEW at, NEW drawn, BeginStroke(p, at, [drawn |-> drawn, key |-> key]),
             \/ at = "key" /\ (drawn = style \/ Pairs(drawn, HexesOf(colour)))
             \/ at = "clear" /\ drawn = "list"
      PROVE  StrokeSteps(p)
  <2> DEFINE s == Spread([at |-> at, style |-> style, read |-> colour], [drawn |-> drawn, key |-> key])
  <2>1. /\ stroke'[p] = s /\ \A q \in Painter \ {p} : stroke'[q] = stroke[q]
        /\ DOMAIN stroke' = Painter /\ colour' = colour /\ StrokeAt(p, "idle")
    BY <1>1, BegunStroke
  <2>2. /\ s.at = at /\ s.style = style /\ s.read = colour /\ s.drawn = drawn
        /\ {"at", "read", "drawn"} \subseteq DOMAIN s
    BY AttributeStroke
  <2> HIDE DEF s
  <2>3. StrokeOK(s)
    BY <1>1, <2>2 DEF StrokeOK
  <2>4. QED
    BY <2>1, <2>3, BeginIsNoEnd DEF StrokeSteps, SwatchInv
<1>2. ASSUME NEW drawn \in Style, LoadAttribute(p, drawn, key) PROVE StrokeSteps(p)
  <2>1. CASE drawn = "swatch"
    BY <1>1, <1>2, <2>1 DEF LoadAttribute, MayBecome
  <2>2. CASE drawn = "list"
    BY <1>1, <1>2, <2>2 DEF LoadAttribute
  <2>3. QED
    BY <2>1, <2>2 DEF Style
<1>3. CASE LoadToRename(p, key)
  BY <1>1, <1>3 DEF LoadToRename
<1>4. QED
  BY <1>2, <1>3

LEMMA LoadTintStep ==
    ASSUME SwatchInv, NEW p \in Painter, NEW v \in Tint,
           \/ \E hex \in {"hex", "null"} : LoadToAdd(p, v, hex)
           \/ \E given \in {"hex", "null", "absent"} : LoadToPaint(p, v, given)
    PROVE  StrokeSteps(p)
<1>1. ASSUME NEW at, NEW hex, NEW given, BeginStroke(p, at, [value |-> v, hex |-> hex, given |-> given]),
             \/ at = "add" /\ Pairs(style, {hex})
             \/ /\ at = "paint"
                /\ \/ given = "hex" /\ hex = "hex" /\ Pairs(style, {"hex"})
                   \/ given = "null"
                   \/ given = "absent" /\ hex = colour[v]
      PROVE  StrokeSteps(p)
  <2> DEFINE s == Spread([at |-> at, style |-> style, read |-> colour],
                         [value |-> v, hex |-> hex, given |-> given])
  <2>1. /\ stroke'[p] = s /\ \A q \in Painter \ {p} : stroke'[q] = stroke[q]
        /\ DOMAIN stroke' = Painter /\ colour' = colour /\ StrokeAt(p, "idle")
    BY <1>1, BegunStroke
  <2>2. /\ s.at = at /\ s.style = style /\ s.read = colour
        /\ s.value = v /\ s.hex = hex /\ s.given = given
    BY TintStroke
  <2> HIDE DEF s
  <2>3. StrokeOK(s)
    BY <1>1, <2>2 DEF StrokeOK
  <2>4. QED
    BY <2>1, <2>3, BeginIsNoEnd DEF StrokeSteps, SwatchInv
<1>2. ASSUME NEW hex, LoadToAdd(p, v, hex) PROVE StrokeSteps(p)
  BY <1>1, <1>2 DEF LoadToAdd
<1>3. ASSUME NEW given \in {"hex", "null", "absent"}, LoadToPaint(p, v, given) PROVE StrokeSteps(p)
  BY <1>1, <1>3 DEF LoadToPaint, Checked, Painted
<1>4. QED
  BY <1>2, <1>3


\* The end of an edit.
LEMMA EndedStroke ==
    ASSUME SwatchInv, NEW p \in Painter, EndStroke(p)
    PROVE  /\ DOMAIN stroke' = Painter /\ StrokeOK(stroke'[p])
           /\ \A q \in Painter \ {p} : stroke'[q] = stroke[q]
BY DEF SwatchInv, EndStroke, StrokeOK

\* What an undisturbed edit of a whole pair read is what is there.
LEMMA UndisturbedRead ==
    ASSUME NEW p, EndsUndisturbed(p)
    PROVE  /\ stroke[p].style = style /\ stroke[p].read = colour
           /\ Pairs(style, HexesOf(colour)) \/ StrokeAt(p, "cleared")
BY DEF EndsUndisturbed, OvertakenStroke, FoundWhole

LEMMA ClearColoursStep ==
    ASSUME SwatchInv, NEW p \in Painter, ClearColours(p)
    PROVE  StrokeSteps(p)
<1> DEFINE s == stroke[p]
           none == Uncoloured(s.read)
           t == [s EXCEPT !.at = "cleared", !.read = none]
<1>1. StrokeAt(p, "clear") /\ s.drawn = "list" /\ {"at", "read", "drawn"} \subseteq DOMAIN s
  <2>1. StrokeAt(p, "clear") /\ s.at = "clear" /\ StrokeOK(s) /\ s # NoStroke
    BY DEF ClearColours, StrokeAt, SwatchInv, NoStroke
  <2>2. QED
    BY <2>1 DEF StrokeOK
<1>2. stroke' = [stroke EXCEPT ![p] = t]
  BY DEF ClearColours
<1>3. DOMAIN none = Tint /\ \A v \in Tint : none[v] \in {"absent", "null"}
  BY DEF Uncoloured
<1>4. t.at = "cleared" /\ t.read = none /\ t.drawn = "list"
  BY <1>1
<1>5. Pairs("list", HexesOf(none))
  BY <1>3 DEF Pairs, HexesOf
<1> HIDE DEF t, none
<1>6. StrokeOK(t)
  BY <1>4, <1>5 DEF StrokeOK
<1>7. DOMAIN colour' = Tint
  BY DEF ClearColours, Uncoloured
<1>8. QED
  BY <1>1, <1>2, <1>6, <1>7, BeginIsNoEnd DEF StrokeSteps, SwatchInv

LEMMA KeyStep ==
    ASSUME SwatchInv, NEW p \in Painter, RefuseKey(p) \/ SaveAttribute(p)
    PROVE  StrokeSteps(p)
<1> DEFINE s == stroke[p]
<1>1. EndStroke(p) /\ colour' = colour /\ AtTheKey(p)
  BY DEF RefuseKey, SaveAttribute
<1>2. ASSUME EndsUndisturbed(p), ~RefusedLate(p) PROVE Whole'
  <2>1. /\ s.style = style /\ s.read = colour
        /\ Pairs(style, HexesOf(colour)) \/ s.at = "cleared"
    BY <1>2, UndisturbedRead DEF StrokeAt
  <2>2. CASE RefuseKey(p)
    <3>1. s.at = "key" /\ style' = style
      BY <1>2, <2>2 DEF RefuseKey, AtTheKey, RefusedLate, StrokeAt
    <3>2. QED
      BY <1>1, <2>1, <3>1 DEF Whole, HexesOf
  <2>3. CASE SaveAttribute(p)
    <3>1. style' = s.drawn
      BY <2>1, <2>3 DEF SaveAttribute
    <3>2. Pairs(s.drawn, HexesOf(colour))
      <4>1. StrokeOK(s) /\ s.at \in {"key", "cleared"}
        BY <1>1 DEF SwatchInv, AtTheKey
      <4>2. QED
        BY <2>1, <4>1 DEF StrokeOK, NoStroke
    <3>3. QED
      BY <1>1, <3>1, <3>2 DEF Whole, HexesOf
  <2>4. QED
    BY <2>2, <2>3
<1>3. QED
  BY <1>1, <1>2, EndedStroke DEF StrokeSteps, SwatchInv

\* One value more that goes with the style leaves a whole pair whole.
LEMMA OneTintMore ==
    ASSUME DOMAIN colour = Tint, NEW v \in Tint, NEW hex, colour' = [colour EXCEPT ![v] = hex],
           style' = style, Pairs(style, HexesOf(colour)), Pairs(style, {hex})
    PROVE  Whole'
<1>1. \A u \in Tint : colour'[u] = IF u = v THEN hex ELSE colour[u]
  OBVIOUS
<1>2. QED
  BY <1>1 DEF Whole, Pairs, HexesOf

LEMMA InsertTintStep ==
    ASSUME SwatchInv, NEW p \in Painter, InsertTint(p)
    PROVE  StrokeSteps(p)
<1> DEFINE s == stroke[p]
<1>1. /\ EndStroke(p) /\ s.at = "add" /\ style' = style
      /\ \/ colour[s.value] = "absent" /\ colour' = [colour EXCEPT ![s.value] = s.hex]
         \/ colour' = colour
  BY DEF InsertTint, StrokeAt
<1>2. s.value \in Tint /\ Pairs(s.style, {s.hex})
  <2>1. StrokeOK(s) /\ s # NoStroke
    BY <1>1 DEF SwatchInv, NoStroke
  <2>2. QED
    BY <1>1, <2>1 DEF StrokeOK
<1>3. ASSUME EndsUndisturbed(p) PROVE Whole'
  <2>1. s.style = style /\ Pairs(style, HexesOf(colour))
    BY <1>1, <1>3, UndisturbedRead DEF StrokeAt
  <2>2. CASE colour' = [colour EXCEPT ![s.value] = s.hex]
    BY <1>1, <1>2, <2>1, <2>2, OneTintMore DEF SwatchInv
  <2>3. CASE colour' = colour
    BY <1>1, <2>1, <2>3 DEF Whole, HexesOf
  <2>4. QED
    BY <1>1, <2>2, <2>3
<1>4. DOMAIN colour' = Tint
  BY <1>1 DEF SwatchInv
<1>5. QED
  BY <1>1, <1>3, <1>4, EndedStroke DEF StrokeSteps

LEMMA SaveTintStep ==
    ASSUME SwatchInv, NEW p \in Painter, SaveTint(p)
    PROVE  StrokeSteps(p)
<1> DEFINE s == stroke[p]
<1>1. /\ EndStroke(p) /\ s.at = "paint" /\ style' = style
      /\ colour' = [colour EXCEPT ![s.value] = s.hex]
  BY DEF SaveTint, StrokeAt
<1>2. /\ s.value \in Tint
      /\ \/ s.given = "hex" /\ s.hex = "hex" /\ Pairs(s.style, {"hex"})
         \/ s.given = "null"
         \/ s.given = "absent" /\ s.hex = s.read[s.value]
  <2>1. StrokeOK(s) /\ s # NoStroke
    BY <1>1 DEF SwatchInv, NoStroke
  <2>2. QED
    BY <1>1, <2>1 DEF StrokeOK
<1>3. ASSUME EndsUndisturbed(p), ~Blanks(p) PROVE Whole'
  <2>1. s.style = style /\ s.read = colour /\ Pairs(style, HexesOf(colour))
    BY <1>1, <1>3, UndisturbedRead DEF StrokeAt
  <2>2. s.given # "null"
    BY <1>1, <1>3 DEF Blanks, StrokeAt
  <2>3. Pairs(style, {s.hex})
    BY <1>2, <2>1, <2>2 DEF Pairs, HexesOf
  <2>4. QED
    BY <1>1, <1>2, <2>1, <2>3, OneTintMore DEF SwatchInv
<1>4. DOMAIN colour' = Tint
  BY <1>1 DEF SwatchInv
<1>5. QED
  BY <1>1, <1>3, <1>4, EndedStroke DEF StrokeSteps

\* A step of one tab, and what it means for all of them.
LEMMA SwatchStep ==
    ASSUME SwatchInv, NEW p \in Painter, StrokeSteps(p)
    PROVE  /\ SwatchInv'
           /\ \A q \in Painter : EndsUndisturbed(q) /\ ~RefusedLate(q) /\ ~Blanks(q) => Whole'
<1>1. SwatchInv'
  BY DEF SwatchInv, StrokeSteps
<1>2. \A q \in Painter \ {p} : ~EndsUndisturbed(q)
  BY DEF StrokeSteps, EndsUndisturbed, NoStroke
<1>3. QED
  BY <1>1, <1>2 DEF StrokeSteps

LEMMA NextSwatchesSteps ==
    ASSUME SwatchInv, NextSwatches
    PROVE  \E p \in Painter : StrokeSteps(p)
<1>1. PICK p \in Painter :
       \/ \E key \in {"kept", "refused"} :
            \/ \E drawn \in Style : LoadAttribute(p, drawn, key)
            \/ LoadToRename(p, key)
       \/ ClearColours(p) \/ RefuseKey(p) \/ SaveAttribute(p)
       \/ \E v \in Tint : \/ \E hex \in {"hex", "null"} : LoadToAdd(p, v, hex)
                          \/ \E given \in {"hex", "null", "absent"} : LoadToPaint(p, v, given)
       \/ InsertTint(p) \/ SaveTint(p)
  BY DEF NextSwatches
<1>2. StrokeSteps(p)
  BY <1>1, LoadAttributeStep, LoadTintStep, ClearColoursStep, KeyStep, InsertTintStep, SaveTintStep
<1>3. QED
  BY <1>2

\* However the owner's tabs edit an attribute and its values at once, an edit
\* that nobody overtook leaves style and colours together if it found them so,
\* but for the two the property names.
THEOREM UndisturbedEditsKeepThePairHolds == SwatchSpec => UndisturbedEditsKeepThePair
<1>1. InitSwatches => SwatchInv
  BY DEF InitSwatches, SwatchInv, StrokeOK
<1>2. SwatchInv /\ [NextSwatches]_swatchVars =>
        /\ SwatchInv'
        /\ UNCHANGED swatchVars \/
           \A p \in Painter : EndsUndisturbed(p) /\ ~RefusedLate(p) /\ ~Blanks(p) => Whole'
  <2>1. ASSUME SwatchInv, NextSwatches
        PROVE  /\ SwatchInv'
               /\ \A p \in Painter : EndsUndisturbed(p) /\ ~RefusedLate(p) /\ ~Blanks(p) => Whole'
    BY <2>1, NextSwatchesSteps, SwatchStep
  <2>2. ASSUME SwatchInv, UNCHANGED swatchVars PROVE SwatchInv'
    BY <2>2 DEF swatchVars, SwatchInv
  <2>3. QED
    BY <2>1, <2>2
<1>3. QED
  BY <1>1, <1>2, PTL DEF SwatchSpec, UndisturbedEditsKeepThePair

-----------------------------------------------------------------------------
\* The images of StoreImages.

ImageSpec == InitImages /\ [][NextImages]_imageVars

\* The assets a call has uploaded and not yet entered anywhere.
Pending(t) == IF shot[t].phase = "save" \/ (shot[t].phase = "destroy" /\ DestroysFirst(t))
              THEN shot[t].new ELSE {}

\* A call that is to destroy what nothing shows any more.
CleansUp(t) == shot[t].phase = "destroy" /\ ~DestroysFirst(t)

\* What each kind of call has in memory, and where it may be.
ShotOK(t) ==
    \/ shot[t] = NoShot
    \/ /\ shot[t].new \in SUBSET (1..uploaded) /\ shot[t].old \in 0..uploaded
       /\ {"phase", "kind", "new", "old"} \subseteq DOMAIN shot[t]
       /\ \/ /\ shot[t].kind = "add" /\ shot[t].phase \in {"upload", "save"}
             /\ {"files", "rows"} \subseteq DOMAIN shot[t]
             /\ shot[t].old = 0 /\ shot[t].files \in 1..2
             /\ IsFiniteSet(shot[t].rows) /\ Cardinality(shot[t].rows) + shot[t].files <= MaxImages
             /\ IsFiniteSet(shot[t].new)
             /\ Cardinality(shot[t].new) = IF shot[t].phase = "save" THEN shot[t].files ELSE 0
          \/ /\ shot[t].kind = "text" /\ shot[t].phase = "save"
             /\ shot[t].new = {} /\ "row" \in DOMAIN shot[t] /\ shot[t].row = shot[t].old /\ shot[t].old # 0
          \/ /\ shot[t].kind = "drop" /\ shot[t].phase \in {"drop", "destroy"}
             /\ shot[t].new = {} /\ "row" \in DOMAIN shot[t] /\ shot[t].row = shot[t].old /\ shot[t].old # 0
          \/ /\ shot[t].kind = "replace" /\ shot[t].phase \in {"upload", "save", "destroy"}
             /\ {"files", "column"} \subseteq DOMAIN shot[t]
             /\ shot[t].files = 1 /\ shot[t].column \in Column
             /\ IF shot[t].phase = "upload" THEN shot[t].new = {} ELSE \E a \in 1..uploaded : shot[t].new = {a}
             /\ shot[t].phase = "destroy" => shot[t].old # 0
          \/ /\ shot[t].kind = "clear" /\ shot[t].phase \in {"save", "destroy"}
             /\ shot[t].new = {} /\ "column" \in DOMAIN shot[t] /\ shot[t].column = "category"
             /\ shot[t].phase = "destroy" => shot[t].old # 0
          \/ /\ shot[t].kind = "edit" /\ shot[t].phase = "save"
             /\ shot[t].new = {} /\ "column" \in DOMAIN shot[t] /\ shot[t].column \in Column

ImageTypes ==
    /\ uploaded \in Nat /\ cloud \subseteq 1..uploaded /\ doubtful \subseteq 1..uploaded
    /\ IsFiniteSet(Rows) /\ Rows \subseteq 1..uploaded /\ images = [a \in Rows |-> a]
    /\ shown \in [Column -> 0..uploaded]
    /\ DOMAIN shot = ImageTab /\ \A t \in ImageTab : ShotOK(t)

\* Of the assets that nothing doubtful happened to: what is pointed to is there, or
\* in updateHero's moment; it is pointed to once; what is there is pointed to or in
\* some call's hands; what a call drops from the rows is not shown elsewhere.
AssetOK(a) ==
    /\ a \in Pointed => a \in cloud \/ InHeroWindow(a)
    /\ a \in Rows => a \notin Range(shown)
    /\ shown["category"] # a \/ shown["hero"] # a
    /\ a \in cloud => \/ a \in Pointed
                      \/ \E t \in ImageTab : a \in Pending(t) \/ (CleansUp(t) /\ shot[t].old = a)
    /\ \A t \in ImageTab : /\ CleansUp(t) /\ shot[t].old = a => a \notin Pointed
                           /\ At(t, "drop", {"drop"}) /\ shot[t].old = a => a \notin Range(shown)
                           /\ At(t, "save", {"replace"}) /\ DestroysFirst(t) /\ shot[t].old = a => a \notin cloud

\* What a call has just uploaded is there and nobody else knows of it.
OnlyItsOwn(t, a) ==
    /\ a \in cloud /\ a \notin Pointed
    /\ \A u \in ImageTab : shot[u] # NoShot => shot[u].old # a /\ (u # t => a \notin Pending(u))

ImageInv ==
    /\ ImageTypes
    /\ \A a \in 1..uploaded \ doubtful : AssetOK(a)
    /\ \A t \in ImageTab : \A a \in Pending(t) : OnlyItsOwn(t, a)


\* Where the calls of the others are.
OthersStay(t) ==
    /\ DOMAIN shot' = ImageTab
    /\ \A u \in ImageTab \ {t} :
         /\ shot'[u] = shot[u] /\ Pending(u)' = Pending(u) /\ (CleansUp(u)' <=> CleansUp(u))
         /\ (DestroysFirst(u)' <=> DestroysFirst(u))
         /\ \A phase, kinds : At(u, phase, kinds)' <=> At(u, phase, kinds)
         /\ ShotOK(u)'

-----------------------------------------------------------------------------
\* What the steps have in common.

LEMMA WhatIsPointedTo ==
    ASSUME ImageTypes
    PROVE  /\ Range(shown) = {shown["category"], shown["hero"]}
           /\ \A a : a \in Pointed <=> a \in Rows \/ (a # 0 /\ a \in {shown["category"], shown["hero"]})
<1>1. Range(images) = Rows
  BY DEF ImageTypes, Range, Rows
<1>2. Range(shown) = {shown["category"], shown["hero"]}
  BY DEF ImageTypes, Range, Column
<1>3. QED
  BY <1>1, <1>2 DEF Pointed

LEMMA ACallMoves ==
    ASSUME ImageTypes, NEW t \in ImageTab, NEW r, shot' = [shot EXCEPT ![t] = r]
    PROVE  /\ shot'[t] = r /\ DOMAIN shot' = ImageTab
           /\ \A u \in ImageTab \ {t} : shot'[u] = shot[u]
BY DEF ImageTypes

\* The calls of the others are where they were.
LEMMA OtherCallsStay ==
    ASSUME NEW u \in ImageTab, shot'[u] = shot[u]
    PROVE  /\ Pending(u)' = Pending(u) /\ (CleansUp(u)' <=> CleansUp(u))
           /\ (DestroysFirst(u)' <=> DestroysFirst(u))
           /\ \A phase, kinds : At(u, phase, kinds)' <=> At(u, phase, kinds)
           /\ uploaded \in Nat /\ uploaded' \in Nat /\ uploaded <= uploaded' /\ ShotOK(u) => ShotOK(u)'
<1>1. DestroysFirst(u)' <=> DestroysFirst(u)
  BY DEF DestroysFirst
<1>2. Pending(u)' = Pending(u) /\ (CleansUp(u)' <=> CleansUp(u))
  BY <1>1 DEF Pending, CleansUp
<1>3. \A phase, kinds : At(u, phase, kinds)' <=> At(u, phase, kinds)
  BY DEF At
<1>4. ASSUME uploaded \in Nat, uploaded' \in Nat, uploaded <= uploaded', ShotOK(u) PROVE ShotOK(u)'
  <2>1. 1..uploaded \subseteq 1..uploaded' /\ 0..uploaded \subseteq 0..uploaded'
    BY <1>4
  <2>2. QED
    BY <1>4, <2>1 DEF ShotOK
<1>5. QED
  BY <1>1, <1>2, <1>3, <1>4

\* No call, or one that has only loaded, has anything in its hands.
LEMMA NothingInHand ==
    ASSUME NEW t \in ImageTab, \/ shot[t].phase \in {"none", "upload", "drop"}
                               \/ shot[t].phase = "save" /\ shot[t].new = {}
    PROVE  Pending(t) = {} /\ ~CleansUp(t)
BY DEF Pending, CleansUp

LEMMA IdleCalls == NoShot.phase = "none" /\ \A t \in ImageTab : shot[t].phase # "none" => shot[t] # NoShot
BY DEF NoShot

\* A call that starts knows what is pointed to.
LEMMA LoadKeeps ==
    ASSUME ImageInv, NEW t \in ImageTab, NEW r, shot[t] = NoShot, shot' = [shot EXCEPT ![t] = r],
           UNCHANGED <<images, shown, cloud, uploaded, doubtful>>,
           r.new = {}, r.phase \in {"upload", "drop", "save"}, r.phase = "save" => r.kind # "replace",
           r.old \in Pointed \cup {0}, r.phase = "drop" => r.old \in Rows, ShotOK(t)'
    PROVE  ImageInv'
<1>1. ImageTypes /\ uploaded \in Nat
  BY DEF ImageInv, ImageTypes
<1>2. /\ shot'[t] = r /\ DOMAIN shot' = ImageTab
      /\ \A u \in ImageTab \ {t} : shot'[u] = shot[u]
  BY <1>1, ACallMoves
<1>3. Rows' = Rows /\ Pointed' = Pointed
  BY DEF Rows, Pointed
<1>4. \A u \in ImageTab \ {t} :
        /\ Pending(u)' = Pending(u) /\ (CleansUp(u)' <=> CleansUp(u))
        /\ (DestroysFirst(u)' <=> DestroysFirst(u))
        /\ \A phase, kinds : At(u, phase, kinds)' <=> At(u, phase, kinds)
        /\ ShotOK(u) => ShotOK(u)'
  BY <1>1, <1>2, OtherCallsStay
<1>5. Pending(t)' = {} /\ ~CleansUp(t)' /\ ~At(t, "save", {"replace"})'
  BY <1>2 DEF Pending, CleansUp, At
<1>6. Pending(t) = {} /\ ~CleansUp(t) /\ ~At(t, "save", {"replace"})
  BY NothingInHand, IdleCalls DEF At
<1>7. ImageTypes'
  BY <1>1, <1>2, <1>3, <1>4 DEF ImageTypes
<1>8. ASSUME NEW a \in 1..uploaded \ doubtful PROVE AssetOK(a)'
  <2>1. AssetOK(a)
    BY DEF ImageInv
  <2>2. InHeroWindow(a) => InHeroWindow(a)'
    BY <1>2, <1>4, <1>6 DEF InHeroWindow
  <2>3. At(t, "drop", {"drop"})' /\ shot'[t].old = a => a \notin Range(shown')
    BY <1>2, <2>1 DEF AssetOK, At
  <2>4. QED
    BY <1>2, <1>3, <1>4, <1>5, <1>6, <2>1, <2>2, <2>3 DEF AssetOK
<1>9. ASSUME NEW u \in ImageTab, NEW a \in Pending(u)' PROVE OnlyItsOwn(u, a)'
  <2>1. u # t /\ a \in Pending(u) /\ OnlyItsOwn(u, a)
    BY <1>4, <1>5, <1>9 DEF ImageInv
  <2>2. r.old # a
    <3>1. a \in 1..uploaded
      BY <1>1, <2>1 DEF OnlyItsOwn, ImageTypes
    <3>2. QED
      BY <2>1, <3>1 DEF OnlyItsOwn
  <2>3. \A v \in ImageTab : shot'[v] # NoShot => shot'[v].old # a
    BY <1>2, <2>1, <2>2 DEF OnlyItsOwn
  <2>4. \A v \in ImageTab : shot'[v] # NoShot /\ v # u => a \notin Pending(v)'
    BY <1>2, <1>4, <1>5, <2>1 DEF OnlyItsOwn
  <2>5. QED
    BY <1>3, <2>1, <2>3, <2>4 DEF OnlyItsOwn
<1>10. QED
  BY <1>7, <1>8, <1>9 DEF ImageInv

LEMMA ACallGoesOn ==
    ASSUME ImageTypes, NEW t \in ImageTab, NEW r, shot' = [shot EXCEPT ![t] = r],
           uploaded' \in Nat, uploaded <= uploaded'
    PROVE  /\ shot'[t] = r /\ DOMAIN shot' = ImageTab
           /\ \A u \in ImageTab \ {t} :
                /\ shot'[u] = shot[u] /\ Pending(u)' = Pending(u) /\ (CleansUp(u)' <=> CleansUp(u))
                /\ (DestroysFirst(u)' <=> DestroysFirst(u))
                /\ \A phase, kinds : At(u, phase, kinds)' <=> At(u, phase, kinds)
                /\ ShotOK(u)'
<1>1. /\ shot'[t] = r /\ DOMAIN shot' = ImageTab
      /\ \A u \in ImageTab \ {t} : shot'[u] = shot[u]
  BY ACallMoves
<1>2. uploaded \in Nat /\ \A u \in ImageTab : ShotOK(u)
  BY DEF ImageTypes
<1>3. QED
  BY <1>1, <1>2, OtherCallsStay

-----------------------------------------------------------------------------
\* The steps that load.

\* A call's entity, when it has loaded m.
StartsWith(t, r, m, phase, old) ==
    /\ shot[t] = NoShot /\ shot' = [shot EXCEPT ![t] = r]
    /\ UNCHANGED <<images, shown, cloud, uploaded, doubtful>>
    /\ r.phase = phase /\ r.new = {} /\ r.old = old
    /\ DOMAIN r = DOMAIN m \cup {"phase", "new", "old"}
    /\ \A c \in DOMAIN m : r[c] = m[c]

LEMMA LoadedShot ==
    ASSUME NEW t \in ImageTab, NEW phase, NEW memory, Load(t, phase, memory),
           NEW old, IF "old" \in DOMAIN memory THEN memory.old = old ELSE old = 0,
           "new" \notin DOMAIN memory, "phase" \notin DOMAIN memory
    PROVE  \E r : StartsWith(t, r, memory, phase, old)
<1>1. PICK r : r = Spread(memory, [phase |-> phase, new |-> {}, old |-> 0])
  OBVIOUS
<1>2. /\ DOMAIN r = DOMAIN memory \cup {"phase", "new", "old"}
      /\ \A c \in DOMAIN r : r[c] = IF c \in DOMAIN memory THEN memory[c]
                                    ELSE [phase |-> phase, new |-> {}, old |-> 0][c]
  BY <1>1 DEF Spread
<1>3. r.phase = phase /\ r.new = {} /\ r.old = old
  BY <1>2
<1>4. QED
  BY <1>1, <1>2, <1>3 DEF Load, StartsWith

LEMMA LoadForAddKeeps == ASSUME ImageInv, NEW t \in ImageTab, LoadForAdd(t) PROVE ImageInv'
<1>1. ImageTypes
  BY DEF ImageInv
<1>2. PICK files \in 1..2 : /\ LeavesRoom(Cardinality(Rows), files)
                            /\ Load(t, "upload", [kind |-> "add", files |-> files, rows |-> Rows])
  BY DEF LoadForAdd
<1>3. PICK m : m = [kind |-> "add", files |-> files, rows |-> Rows]
  OBVIOUS
<1>4. Load(t, "upload", m) /\ DOMAIN m = {"kind", "files", "rows"}
  BY <1>2, <1>3
<1>5. PICK r : StartsWith(t, r, m, "upload", 0)
  BY <1>4, LoadedShot
<1>6. /\ shot[t] = NoShot /\ shot' = [shot EXCEPT ![t] = r]
      /\ UNCHANGED <<images, shown, cloud, uploaded, doubtful>>
      /\ r.phase = "upload" /\ r.new = {} /\ r.old = 0
      /\ r.kind = "add" /\ r.files = files /\ r.rows = Rows
      /\ DOMAIN r = {"kind", "files", "rows", "phase", "new", "old"}
  BY <1>3, <1>4, <1>5 DEF StartsWith
<1>7. IsFiniteSet(Rows) /\ Cardinality(Rows) + files <= MaxImages /\ Cardinality({}) = 0 /\ IsFiniteSet({})
  BY <1>1, <1>2, FS_EmptySet DEF ImageTypes, LeavesRoom
<1>8. ShotOK(t)'
  <2>1. shot'[t] = r /\ uploaded' \in Nat /\ Rows' = Rows
    BY <1>1, <1>6, ACallMoves DEF ImageTypes, Rows
  <2>2. QED
    BY <1>6, <1>7, <2>1 DEF ShotOK
<1>9. QED
  BY <1>6, <1>8, LoadKeeps

LEMMA LoadOfARowKeeps == ASSUME ImageInv, NEW t \in ImageTab, LoadForText(t) \/ LoadForRemoval(t) PROVE ImageInv'
<1>1. ImageTypes
  BY DEF ImageInv
<1>2. PICK i \in Rows : \/ Load(t, "save", [kind |-> "text", row |-> i, old |-> images[i]])
                        \/ Load(t, "drop", [kind |-> "drop", row |-> i, old |-> images[i]])
  BY DEF LoadForText, LoadForRemoval
<1>3. images[i] = i /\ i \in 1..uploaded /\ i \in Pointed
  BY <1>1, <1>2, WhatIsPointedTo DEF ImageTypes
<1>4. PICK what, phase, m : /\ \/ what = "text" /\ phase = "save"
                               \/ what = "drop" /\ phase = "drop"
                            /\ m = [kind |-> what, row |-> i, old |-> i] /\ Load(t, phase, m)
  BY <1>2, <1>3
<1>5. DOMAIN m = {"kind", "row", "old"} /\ m.old = i
  BY <1>4
<1>6. PICK r : StartsWith(t, r, m, phase, i)
  BY <1>4, <1>5, LoadedShot
<1>7. /\ shot[t] = NoShot /\ shot' = [shot EXCEPT ![t] = r]
      /\ UNCHANGED <<images, shown, cloud, uploaded, doubtful>>
      /\ r.new = {} /\ r.old = i /\ r.row = i /\ r.kind = what /\ r.phase = phase
      /\ {"kind", "row", "phase", "new", "old"} \subseteq DOMAIN r
  BY <1>4, <1>5, <1>6 DEF StartsWith
<1>8. ShotOK(t)'
  <2>1. shot'[t] = r /\ uploaded' \in Nat /\ i \in 0..uploaded' /\ i # 0
    BY <1>1, <1>3, <1>7, ACallMoves DEF ImageTypes
  <2>2. QED
    BY <1>4, <1>7, <2>1 DEF ShotOK
<1>9. QED
  BY <1>3, <1>4, <1>7, <1>8, LoadKeeps

LEMMA LoadOfAColumnKeeps ==
    ASSUME ImageInv, NEW t \in ImageTab, LoadForReplace(t) \/ LoadForClear(t) \/ LoadForEdit(t)
    PROVE  ImageInv'
<1>1. ImageTypes /\ "category" \in Column
  BY DEF ImageInv, Column
<1>2. PICK c \in Column :
        \/ Load(t, "upload", [kind |-> "replace", column |-> c, files |-> 1, old |-> shown[c]])
        \/ Load(t, "save", [kind |-> "clear", column |-> "category", old |-> shown[c]]) /\ c = "category"
        \/ Load(t, "save", [kind |-> "edit", column |-> c, old |-> shown[c]])
  BY <1>1 DEF LoadForReplace, LoadForClear, LoadForEdit
<1>3. PICK old : old = shown[c]
  OBVIOUS
<1>4. old \in 0..uploaded /\ old \in Pointed \cup {0}
  BY <1>1, <1>2, <1>3, WhatIsPointedTo DEF ImageTypes, Column
<1>5. PICK phase, m :
        /\ \/ phase = "upload" /\ m = [kind |-> "replace", column |-> c, files |-> 1, old |-> old]
           \/ phase = "save" /\ m = [kind |-> "clear", column |-> c, old |-> old] /\ c = "category"
           \/ phase = "save" /\ m = [kind |-> "edit", column |-> c, old |-> old]
        /\ Load(t, phase, m)
  BY <1>2, <1>3
<1>6. /\ {"kind", "column", "old"} \subseteq DOMAIN m /\ m.old = old /\ m.column = c
      /\ "phase" \notin DOMAIN m /\ "new" \notin DOMAIN m
      /\ \/ phase = "upload" /\ m.kind = "replace" /\ "files" \in DOMAIN m /\ m.files = 1
         \/ phase = "save" /\ m.kind = "clear" /\ c = "category"
         \/ phase = "save" /\ m.kind = "edit"
  BY <1>5
<1>7. PICK r : StartsWith(t, r, m, phase, old)
  BY <1>5, <1>6, LoadedShot
<1>8. /\ shot[t] = NoShot /\ shot' = [shot EXCEPT ![t] = r]
      /\ UNCHANGED <<images, shown, cloud, uploaded, doubtful>>
      /\ r.new = {} /\ r.old = old /\ r.column = c /\ r.phase = phase
      /\ {"kind", "column", "phase", "new", "old"} \subseteq DOMAIN r
      /\ \/ phase = "upload" /\ r.kind = "replace" /\ "files" \in DOMAIN r /\ r.files = 1
         \/ phase = "save" /\ r.kind = "clear" /\ c = "category"
         \/ phase = "save" /\ r.kind = "edit"
  BY <1>6, <1>7 DEF StartsWith
<1>9. ShotOK(t)'
  <2>1. shot'[t] = r /\ uploaded' \in Nat /\ old \in 0..uploaded'
    BY <1>1, <1>4, <1>8, ACallMoves DEF ImageTypes
  <2>2. QED
    BY <1>2, <1>8, <2>1 DEF ShotOK
<1>10. QED
  <2>1. r.phase \in {"upload", "drop", "save"} /\ (r.phase = "save" => r.kind # "replace")
    BY <1>8
  <2>2. QED
    BY <1>4, <1>8, <1>9, <2>1, LoadKeeps

\* A call goes on with what it had, but for its phase and its new assets.
GoesOn(t, r, phase, new) ==
    /\ shot' = [shot EXCEPT ![t] = r] /\ r.phase = phase /\ r.new = new
    /\ DOMAIN r = DOMAIN shot[t]
    /\ \A c \in DOMAIN shot[t] \ {"phase", "new"} : r[c] = shot[t][c]

LEMMA ACallKeepsItsMemory ==
    ASSUME ImageTypes, NEW t \in ImageTab, shot[t] # NoShot, NEW phase, NEW new,
           \/ shot' = [shot EXCEPT ![t].new = new, ![t].phase = phase]
           \/ shot' = [shot EXCEPT ![t].phase = phase] /\ new = shot[t].new
    PROVE  \E r : GoesOn(t, r, phase, new)
<1>1. {"phase", "kind", "new", "old"} \subseteq DOMAIN shot[t]
  BY DEF ImageTypes, ShotOK
<1>2. DOMAIN shot = ImageTab
  BY DEF ImageTypes
<1>3. PICK m : m = shot[t]
  OBVIOUS
<1>4. CASE shot' = [shot EXCEPT ![t].new = new, ![t].phase = phase]
  <2>1. PICK r : r = [m EXCEPT !.new = new, !.phase = phase]
    OBVIOUS
  <2>2. r.phase = phase /\ r.new = new /\ DOMAIN r = DOMAIN m /\ \A c \in DOMAIN m \ {"phase", "new"} : r[c] = m[c]
    BY <1>1, <1>3, <2>1
  <2>3. shot' = [shot EXCEPT ![t] = r]
    BY <1>2, <1>3, <1>4, <2>1
  <2>4. QED
    BY <1>3, <2>2, <2>3 DEF GoesOn
<1>5. CASE shot' = [shot EXCEPT ![t].phase = phase] /\ new = shot[t].new
  <2>1. PICK r : r = [m EXCEPT !.phase = phase]
    OBVIOUS
  <2>2. r.phase = phase /\ r.new = new /\ DOMAIN r = DOMAIN m /\ \A c \in DOMAIN m \ {"phase", "new"} : r[c] = m[c]
    BY <1>1, <1>3, <1>5, <2>1
  <2>3. shot' = [shot EXCEPT ![t] = r]
    BY <1>2, <1>3, <1>5, <2>1
  <2>4. QED
    BY <1>3, <2>2, <2>3 DEF GoesOn
<1>6. QED
  BY <1>4, <1>5

-----------------------------------------------------------------------------
\* The uploads.

LEMMA NewAssets ==
    ASSUME NEW n \in 0..2, uploaded \in Nat
    PROVE  /\ uploaded + n \in Nat /\ uploaded <= uploaded + n
           /\ IsFiniteSet(uploaded + 1..uploaded + n) /\ Cardinality(uploaded + 1..uploaded + n) = n
           /\ n = 1 => uploaded + 1..uploaded + n = {uploaded + 1}
           /\ 1..uploaded + n = 1..uploaded \cup uploaded + 1..uploaded + n
           /\ \A a \in uploaded + 1..uploaded + n : a \notin 1..uploaded /\ a # 0
<1>1. IsFiniteSet(uploaded + 1..uploaded + n) /\ Cardinality(uploaded + 1..uploaded + n) = n
  BY FS_Interval
<1>2. QED
  BY <1>1

LEMMA UploadKeeps == ASSUME ImageInv, NEW t \in ImageTab, Upload(t) PROVE ImageInv'
<1>1. ImageTypes /\ shot[t].phase = "upload" /\ shot[t].kind \in {"add", "replace"} /\ shot[t] # NoShot
  BY IdleCalls DEF ImageInv, Upload, At
<1>2. ShotOK(t) /\ uploaded \in Nat /\ cloud \subseteq 1..uploaded /\ doubtful \subseteq 1..uploaded
  BY <1>1 DEF ImageTypes
<1>3. shot[t].files \in 1..2 /\ (shot[t].kind = "replace" => shot[t].files = 1) /\ shot[t].old \in 0..uploaded
  BY <1>1, <1>2 DEF ShotOK
<1>4. PICK n \in 1..2 : n = shot[t].files
  BY <1>3
<1>5. PICK new : new = uploaded + 1..uploaded + n
  OBVIOUS
<1>6. PICK phase : phase = IF DestroysFirst(t) THEN "destroy" ELSE "save"
  OBVIOUS
<1>7. /\ cloud' = cloud \cup new /\ uploaded' = uploaded + n
      /\ shot' = [shot EXCEPT ![t].new = new, ![t].phase = phase]
      /\ UNCHANGED <<images, shown, doubtful>>
  BY <1>4, <1>5, <1>6 DEF Upload
<1>8. /\ uploaded' \in Nat /\ uploaded <= uploaded' /\ 1..uploaded' = 1..uploaded \cup new
      /\ IsFiniteSet(new) /\ Cardinality(new) = n /\ (n = 1 => new = {uploaded'})
      /\ \A a \in new : a \notin 1..uploaded /\ a # 0
  <2>1. n \in 0..2
    OBVIOUS
  <2>2. QED
    BY <1>2, <1>5, <1>7, <2>1, NewAssets
<1>9. PICK r : /\ shot' = [shot EXCEPT ![t] = r] /\ r.phase = phase /\ r.new = new
               /\ DOMAIN r = DOMAIN shot[t]
               /\ \A c \in DOMAIN shot[t] \ {"phase", "new"} : r[c] = shot[t][c]
  <2>1. \E r : GoesOn(t, r, phase, new)
    BY <1>1, <1>7, ACallKeepsItsMemory
  <2>2. QED
    BY <2>1 DEF GoesOn
<1>10. /\ shot'[t] = r /\ DOMAIN shot' = ImageTab
       /\ \A u \in ImageTab \ {t} :
            /\ shot'[u] = shot[u] /\ Pending(u)' = Pending(u) /\ (CleansUp(u)' <=> CleansUp(u))
            /\ (DestroysFirst(u)' <=> DestroysFirst(u))
            /\ \A p, kinds : At(u, p, kinds)' <=> At(u, p, kinds)
            /\ ShotOK(u)'
  BY <1>1, <1>8, <1>9, ACallGoesOn
<1>11. /\ r.kind = shot[t].kind /\ r.old = shot[t].old
       /\ r.kind = "replace" => r.column = shot[t].column /\ r.files = 1
       /\ r.kind = "add" => r.files = n /\ r.rows = shot[t].rows
  BY <1>1, <1>2, <1>4, <1>9 DEF ShotOK
<1>12. DestroysFirst(t)' <=> DestroysFirst(t)
  BY <1>10, <1>11 DEF DestroysFirst
<1>13. Pending(t)' = new /\ ~CleansUp(t)' /\ ~At(t, "drop", {"drop"})' /\ ~(At(t, "save", {"replace"})' /\ DestroysFirst(t)')
  BY <1>6, <1>9, <1>10, <1>12 DEF Pending, CleansUp, At
<1>14. Pending(t) = {} /\ ~CleansUp(t) /\ ~At(t, "save", {"replace"})
  BY <1>1 DEF Pending, CleansUp, At
<1>15. Rows' = Rows /\ Pointed' = Pointed
  BY <1>7 DEF Rows, Pointed
<1>16. ShotOK(t)'
  <2>1. 0..uploaded \subseteq 0..uploaded' /\ new \subseteq 1..uploaded' /\ (n = 1 => uploaded' \in 1..uploaded')
    BY <1>2, <1>8
  <2>2. DestroysFirst(t) => shot[t].kind = "replace" /\ shot[t].old # 0
    BY DEF DestroysFirst
  <2>3. CASE shot[t].kind = "add"
    BY <1>1, <1>2, <1>4, <1>6, <1>8, <1>9, <1>10, <1>11, <2>1, <2>2, <2>3 DEF ShotOK
  <2>4. CASE shot[t].kind = "replace"
    BY <1>1, <1>2, <1>4, <1>6, <1>8, <1>9, <1>10, <1>11, <2>1, <2>2, <2>4 DEF ShotOK
  <2>5. QED
    BY <1>1, <2>3, <2>4
<1>17. ImageTypes'
  BY <1>1, <1>2, <1>7, <1>8, <1>10, <1>15, <1>16 DEF ImageTypes
<1>18. \A a \in new : /\ a \notin Pointed /\ a \notin Rows /\ a \notin Range(shown)
                       /\ shown["category"] # a /\ shown["hero"] # a /\ a \notin doubtful
                       /\ \A u \in ImageTab : shot[u] # NoShot => shot[u].old # a /\ a \notin Pending(u)
  <2>1. Rows \subseteq 1..uploaded /\ {shown["category"], shown["hero"]} \subseteq 0..uploaded
    BY <1>1 DEF ImageTypes, Column
  <2>2. \A u \in ImageTab : shot[u] # NoShot => shot[u].old \in 0..uploaded /\ Pending(u) \subseteq 1..uploaded
    BY <1>1 DEF ImageTypes, ShotOK, Pending
  <2>3. \A a \in new : a \notin 0..uploaded
    BY <1>8, <1>2
  <2>4. QED
    BY <1>1, <1>2, <1>8, <2>1, <2>2, <2>3, WhatIsPointedTo
<1>19. ASSUME NEW a \in 1..uploaded' \ doubtful' PROVE AssetOK(a)'
  <2>1. CASE a \in new
    <3>1. \A u \in ImageTab : CleansUp(u)' \/ (At(u, "save", {"replace"})' /\ DestroysFirst(u)') => shot'[u].old # a
      <4>1. ASSUME NEW u \in ImageTab \ {t}, CleansUp(u) \/ At(u, "save", {"replace"}) PROVE shot[u].old # a
        BY <1>18, <2>1, <4>1, IdleCalls DEF CleansUp, At
      <4>2. QED
        BY <1>10, <1>13, <4>1
    <3>2. QED
      BY <1>7, <1>10, <1>13, <1>15, <1>18, <2>1, <3>1 DEF AssetOK
  <2>2. CASE a \notin new
    <3>1. a \in 1..uploaded \ doubtful /\ AssetOK(a)
      BY <1>7, <1>8, <1>19, <2>2 DEF ImageInv
    <3>2. InHeroWindow(a) => InHeroWindow(a)'
      BY <1>10, <1>14 DEF InHeroWindow
    <3>3. QED
      BY <1>7, <1>10, <1>13, <1>14, <1>15, <2>2, <3>1, <3>2 DEF AssetOK
  <2>3. QED
    BY <2>1, <2>2
<1>20. ASSUME NEW u \in ImageTab, NEW a \in Pending(u)' PROVE OnlyItsOwn(u, a)'
  <2>1. CASE u = t
    <3>1. a \in new
      BY <1>13, <1>20, <2>1
    <3>2. \A v \in ImageTab : shot'[v] # NoShot => shot'[v].old # a
      BY <1>1, <1>10, <1>11, <1>18, <3>1
    <3>3. \A v \in ImageTab : shot'[v] # NoShot /\ v # u => a \notin Pending(v)'
      BY <1>10, <1>18, <2>1, <3>1
    <3>4. QED
      BY <1>7, <1>15, <1>18, <3>1, <3>2, <3>3 DEF OnlyItsOwn
  <2>2. CASE u # t
    <3>1. a \in Pending(u) /\ OnlyItsOwn(u, a)
      BY <1>10, <1>20, <2>2 DEF ImageInv
    <3>2. a \notin new
      BY <1>2, <1>8, <3>1 DEF OnlyItsOwn
    <3>3. \A v \in ImageTab : shot'[v] # NoShot => shot'[v].old # a
      BY <1>1, <1>10, <1>11, <3>1 DEF OnlyItsOwn
    <3>4. \A v \in ImageTab : shot'[v] # NoShot /\ v # u => a \notin Pending(v)'
      BY <1>10, <1>13, <3>1, <3>2 DEF OnlyItsOwn
    <3>5. QED
      BY <1>7, <1>15, <3>1, <3>3, <3>4 DEF OnlyItsOwn
  <2>3. QED
    BY <2>1, <2>2
<1>21. QED
  BY <1>17, <1>19, <1>20 DEF ImageInv

-----------------------------------------------------------------------------
\* What the later steps have in common.

\* A call that is over has nothing in its hands.
LEMMA ACallEnds ==
    ASSUME ImageTypes, NEW t \in ImageTab, End(t), uploaded' \in Nat, uploaded <= uploaded'
    PROVE  /\ OthersStay(t) /\ shot'[t] = NoShot /\ ShotOK(t)'
           /\ Pending(t)' = {} /\ ~CleansUp(t)'
           /\ \A phase, kinds : At(t, phase, kinds)' => phase = "none"
<1>1. shot' = [shot EXCEPT ![t] = NoShot]
  BY DEF End
<1>2. shot'[t] = NoShot /\ OthersStay(t)
  BY <1>1, ACallGoesOn DEF OthersStay
<1>3. NoShot.phase = "none"
  BY IdleCalls
<1>4. QED
  BY <1>2, <1>3 DEF Pending, CleansUp, At, ShotOK

\* A call that goes on to save or to destroy has what it had.
LEMMA ACallGoesTo ==
    ASSUME ImageTypes, NEW t \in ImageTab, shot[t] # NoShot, NEW phase, NowAt(t, phase), uploaded' = uploaded,
           \/ shot[t].kind = "drop" /\ phase = "destroy"
           \/ shot[t].kind = "clear" /\ phase = "destroy" /\ shot[t].old # 0
           \/ shot[t].kind = "replace" /\ phase \in {"destroy", "save"} /\ shot[t].phase # "upload" /\ shot[t].old # 0
    PROVE  /\ OthersStay(t) /\ ShotOK(t)' /\ shot'[t] # NoShot
           /\ shot'[t].phase = phase /\ shot'[t].kind = shot[t].kind
           /\ shot'[t].old = shot[t].old /\ shot'[t].new = shot[t].new
           /\ (DestroysFirst(t)' <=> DestroysFirst(t))
<1>1. ShotOK(t) /\ uploaded \in Nat
  BY DEF ImageTypes
<1>2. PICK r : GoesOn(t, r, phase, shot[t].new)
  <2>1. PICK new : new = shot[t].new
    OBVIOUS
  <2>2. shot' = [shot EXCEPT ![t].phase = phase]
    BY DEF NowAt
  <2>3. \E r : GoesOn(t, r, phase, new)
    BY <2>1, <2>2, ACallKeepsItsMemory
  <2>4. QED
    BY <2>1, <2>3
<1>3. /\ shot' = [shot EXCEPT ![t] = r] /\ r.phase = phase /\ r.new = shot[t].new
      /\ DOMAIN r = DOMAIN shot[t]
      /\ \A c \in DOMAIN shot[t] \ {"phase", "new"} : r[c] = shot[t][c]
  BY <1>2 DEF GoesOn
<1>4. shot'[t] = r /\ OthersStay(t)
  <2>1. uploaded' \in Nat /\ uploaded <= uploaded'
    BY <1>1
  <2>2. QED
    BY <1>3, <2>1, ACallGoesOn DEF OthersStay
<1>5. r.kind = shot[t].kind /\ r.old = shot[t].old
  BY <1>1, <1>3 DEF ShotOK
<1>6. r.kind \in {"replace", "clear"} => r.column = shot[t].column
  BY <1>1, <1>3, <1>5 DEF ShotOK
<1>7. DestroysFirst(t)' <=> DestroysFirst(t)
  BY <1>4, <1>5, <1>6 DEF DestroysFirst
<1>8. r # NoShot
  BY <1>3, IdleCalls
<1>9. ShotOK(t)'
  <2>1. CASE shot[t].kind = "drop" /\ phase = "destroy"
    BY <1>1, <1>3, <1>4, <1>5, <2>1 DEF ShotOK
  <2>2. CASE shot[t].kind = "clear" /\ phase = "destroy" /\ shot[t].old # 0
    BY <1>1, <1>3, <1>4, <1>5, <1>6, <2>2 DEF ShotOK
  <2>3. CASE shot[t].kind = "replace" /\ phase \in {"destroy", "save"} /\ shot[t].phase # "upload" /\ shot[t].old # 0
    BY <1>1, <1>3, <1>4, <1>5, <1>6, <2>3 DEF ShotOK
  <2>4. QED
    BY <2>1, <2>2, <2>3
<1>10. QED
  BY <1>3, <1>4, <1>5, <1>7, <1>8, <1>9

\* What a call has uploaded stays its own while it learns of nothing new.
LEMMA OwnAssetsStay ==
    ASSUME ImageInv, NEW t \in ImageTab, OthersStay(t), shot[t] # NoShot,
           shot'[t] # NoShot => shot'[t].old = shot[t].old, Pending(t)' \subseteq Pending(t),
           NEW u \in ImageTab, NEW a, a \in Pending(u)', a \in cloud', a \notin Pointed'
    PROVE  OnlyItsOwn(u, a)'
<1>1. a \in Pending(u) /\ OnlyItsOwn(u, a)
  BY DEF ImageInv, OthersStay
<1>2. \A v \in ImageTab : shot'[v] # NoShot => shot'[v].old # a
  BY <1>1 DEF OnlyItsOwn, OthersStay
<1>3. \A v \in ImageTab : v # u /\ shot'[v] # NoShot => a \notin Pending(v)'
  BY <1>1 DEF OnlyItsOwn, OthersStay
<1>4. QED
  BY <1>2, <1>3 DEF OnlyItsOwn

\* So what another call has uploaded is none of a call's business.
LEMMA OthersAssets ==
    ASSUME ImageInv, NEW t \in ImageTab, OthersStay(t), shot[t] # NoShot, Pending(t)' \subseteq Pending(t),
           NEW u \in ImageTab, NEW a, a \in Pending(u)'
    PROVE  /\ a \in Pending(u) /\ a \in cloud /\ a \notin Pointed /\ a # shot[t].old
           /\ u # t => a \notin Pending(t)
BY DEF ImageInv, OnlyItsOwn, OthersStay

-----------------------------------------------------------------------------
\* The rows.

LEMMA UploadFailsKeeps == ASSUME ImageInv, NEW t \in ImageTab, UploadFails(t) PROVE ImageInv'
<1>1. /\ ImageTypes /\ shot[t].phase = "upload" /\ shot[t].kind \in {"add", "replace"} /\ shot[t] # NoShot
      /\ End(t) /\ UNCHANGED <<images, shown>>
  BY IdleCalls DEF ImageInv, UploadFails, At
<1>2. ShotOK(t) /\ uploaded \in Nat /\ cloud \subseteq 1..uploaded /\ doubtful \subseteq 1..uploaded
  BY <1>1 DEF ImageTypes
<1>3. PICK n \in 0..2 : /\ cloud' = cloud \cup (uploaded + 1..uploaded + n) /\ uploaded' = uploaded + n
                        /\ doubtful' = doubtful \cup (uploaded + 1..uploaded + n)
  <2>1. shot[t].files \in 1..2
    BY <1>1, <1>2 DEF ShotOK
  <2>2. 0..(shot[t].files - 1) \subseteq 0..2
    BY <2>1
  <2>3. QED
    BY <2>2 DEF UploadFails
<1>4. PICK new : new = uploaded + 1..uploaded + n
  OBVIOUS
<1>5. /\ uploaded' \in Nat /\ uploaded <= uploaded' /\ 1..uploaded' = 1..uploaded \cup new
      /\ \A a \in new : a \notin 1..uploaded
  BY <1>2, <1>3, <1>4, NewAssets
<1>6. /\ OthersStay(t) /\ shot'[t] = NoShot /\ ShotOK(t)' /\ Pending(t)' = {} /\ ~CleansUp(t)'
      /\ \A phase, kinds : At(t, phase, kinds)' => phase = "none"
  BY <1>1, <1>5, ACallEnds
<1>7. Rows' = Rows /\ Pointed' = Pointed
  BY <1>1 DEF Rows, Pointed
<1>8. Pending(t) = {} /\ ~CleansUp(t) /\ ~At(t, "save", {"replace"})
  BY <1>1 DEF Pending, CleansUp, At
<1>9. ImageTypes'
  <2>1. 0..uploaded \subseteq 0..uploaded'
    BY <1>2, <1>5
  <2>2. QED
    BY <1>1, <1>2, <1>3, <1>4, <1>5, <1>6, <1>7, <2>1 DEF ImageTypes, OthersStay
<1>10. ASSUME NEW a \in 1..uploaded' \ doubtful' PROVE AssetOK(a)'
  <2>1. a \in 1..uploaded \ doubtful /\ a \notin new /\ AssetOK(a)
    BY <1>3, <1>4, <1>5, <1>10 DEF ImageInv
  <2>2. InHeroWindow(a) => InHeroWindow(a)'
    BY <1>6, <1>8 DEF InHeroWindow, OthersStay
  <2>3. QED
    BY <1>1, <1>3, <1>4, <1>6, <1>7, <1>8, <2>1, <2>2 DEF AssetOK, OthersStay
<1>11. ASSUME NEW u \in ImageTab, NEW a \in Pending(u)' PROVE OnlyItsOwn(u, a)'
  <2>1. a \in cloud' /\ a \notin Pointed'
    BY <1>1, <1>3, <1>6, <1>7, <1>11, OthersAssets
  <2>2. QED
    BY <1>1, <1>6, <1>11, <2>1, OwnAssetsStay
<1>12. QED
  BY <1>9, <1>10, <1>11 DEF ImageInv

LEMMA SaveImagesKeeps == ASSUME ImageInv, NEW t \in ImageTab, SaveImages(t) PROVE ImageInv'
<1>1. /\ ImageTypes /\ shot[t].phase = "save" /\ shot[t].kind = "add" /\ shot[t] # NoShot
      /\ End(t) /\ UNCHANGED <<shown, cloud, uploaded, doubtful>>
      /\ images' = Spread([a \in shot[t].new |-> a], images)
  BY IdleCalls DEF ImageInv, SaveImages, At
<1>2. ShotOK(t) /\ uploaded \in Nat /\ images = [a \in Rows |-> a] /\ Rows \subseteq 1..uploaded /\ IsFiniteSet(Rows)
  BY <1>1 DEF ImageTypes
<1>3. PICK new : new = shot[t].new
  OBVIOUS
<1>4. new \subseteq 1..uploaded /\ IsFiniteSet(new)
  BY <1>1, <1>2, <1>3 DEF ShotOK
<1>5. images' = [a \in Rows \cup new |-> a]
  BY <1>1, <1>2, <1>3 DEF Spread, Rows
<1>6. Rows' = Rows \cup new /\ images' = [a \in Rows' |-> a] /\ IsFiniteSet(Rows')
  BY <1>2, <1>4, <1>5, FS_Union DEF Rows
<1>7. uploaded' \in Nat /\ uploaded <= uploaded'
  BY <1>1, <1>2
<1>8. /\ OthersStay(t) /\ shot'[t] = NoShot /\ ShotOK(t)' /\ Pending(t)' = {} /\ ~CleansUp(t)'
      /\ \A phase, kinds : At(t, phase, kinds)' => phase = "none"
  BY <1>1, <1>7, ACallEnds
<1>9. ImageTypes'
  BY <1>1, <1>2, <1>4, <1>6, <1>8 DEF ImageTypes, OthersStay
<1>10. \A a : a \in Pointed' <=> a \in Pointed \cup new
  <2>1. 0 \notin new
    BY <1>4
  <2>2. Range(images') = Rows \cup new /\ Range(images) = Rows
    BY <1>2, <1>6 DEF Range
  <2>3. Range(shown') = Range(shown)
    BY <1>1
  <2>4. Pointed' = Range(images') \cup (Range(shown') \ {0})
    BY DEF Pointed, Range
  <2>5. QED
    BY <2>1, <2>2, <2>3, <2>4 DEF Pointed
<1>11. Pending(t) = new /\ ~CleansUp(t) /\ ~At(t, "save", {"replace"}) /\ ~At(t, "drop", {"drop"})
  BY <1>1, <1>3 DEF Pending, CleansUp, At
<1>12. ASSUME NEW a \in 1..uploaded' \ doubtful' PROVE AssetOK(a)'
  <2>1. AssetOK(a)
    BY <1>1, <1>12 DEF ImageInv
  <2>2. InHeroWindow(a) => InHeroWindow(a)'
    BY <1>8, <1>11 DEF InHeroWindow, OthersStay
  <2>3. CASE a \notin new
    BY <1>1, <1>6, <1>8, <1>10, <1>11, <2>1, <2>2, <2>3 DEF AssetOK, OthersStay
  <2>4. CASE a \in new
    <3>1. /\ a \in cloud /\ a \notin Range(shown) /\ shown["category"] # a /\ shown["hero"] # a
          /\ \A u \in ImageTab : shot[u] # NoShot => shot[u].old # a
      <4>1. OnlyItsOwn(t, a) /\ a # 0
        BY <1>4, <1>11, <2>4 DEF ImageInv
      <4>2. QED
        BY <1>1, <4>1, WhatIsPointedTo DEF OnlyItsOwn
    <3>2. \A u \in ImageTab : CleansUp(u)' \/ At(u, "save", {"replace"})' => shot'[u].old # a
      <4>1. ASSUME NEW u \in ImageTab \ {t}, CleansUp(u) \/ At(u, "save", {"replace"}) PROVE shot[u].old # a
        BY <3>1, <4>1, IdleCalls DEF CleansUp, At
      <4>2. QED
        BY <1>8, <4>1 DEF OthersStay
    <3>3. QED
      BY <1>1, <1>8, <1>10, <2>4, <3>1, <3>2 DEF AssetOK
  <2>5. QED
    BY <2>3, <2>4
<1>13. ASSUME NEW u \in ImageTab, NEW a \in Pending(u)' PROVE OnlyItsOwn(u, a)'
  <2>1. u # t
    BY <1>8, <1>13
  <2>2. a \in cloud' /\ a \notin Pointed'
    BY <1>1, <1>8, <1>10, <1>11, <1>13, <2>1, OthersAssets
  <2>3. QED
    BY <1>1, <1>8, <1>13, <2>2, OwnAssetsStay
<1>14. QED
  BY <1>9, <1>12, <1>13 DEF ImageInv

LEMMA SaveTextKeeps == ASSUME ImageInv, NEW t \in ImageTab, SaveText(t) PROVE ImageInv'
<1>1. /\ ImageTypes /\ shot[t].phase = "save" /\ shot[t].kind = "text" /\ shot[t] # NoShot
      /\ End(t) /\ UNCHANGED <<shown, cloud, uploaded>>
      /\ images' = Spread([i \in {shot[t].row} |-> shot[t].old], images)
      /\ doubtful' = IF shot[t].row \in Rows THEN doubtful ELSE doubtful \cup Handled(t)
  BY IdleCalls DEF ImageInv, SaveText, At
<1>2. ShotOK(t) /\ uploaded \in Nat /\ images = [a \in Rows |-> a] /\ Rows \subseteq 1..uploaded /\ IsFiniteSet(Rows)
  BY <1>1 DEF ImageTypes
<1>3. PICK row : row = shot[t].row
  OBVIOUS
<1>4. shot[t].old = row /\ row \in 1..uploaded /\ shot[t].new = {}
  BY <1>1, <1>2, <1>3 DEF ShotOK
<1>5. images' = [a \in Rows \cup {row} |-> a]
  BY <1>1, <1>2, <1>3, <1>4 DEF Spread, Rows
<1>6. Rows' = Rows \cup {row} /\ images' = [a \in Rows' |-> a] /\ IsFiniteSet(Rows')
  BY <1>2, <1>5, FS_AddElement DEF Rows
<1>7. doubtful' = (IF row \in Rows THEN doubtful ELSE doubtful \cup {row})
  BY <1>1, <1>3, <1>4 DEF Handled
<1>8. uploaded' \in Nat /\ uploaded <= uploaded'
  BY <1>1, <1>2
<1>9. /\ OthersStay(t) /\ shot'[t] = NoShot /\ ShotOK(t)' /\ Pending(t)' = {} /\ ~CleansUp(t)'
      /\ \A phase, kinds : At(t, phase, kinds)' => phase = "none"
  BY <1>1, <1>8, ACallEnds
<1>10. ImageTypes'
  BY <1>1, <1>2, <1>4, <1>6, <1>7, <1>9 DEF ImageTypes, OthersStay
<1>11. \A a : a \in Pointed' <=> a \in Pointed \cup {row}
  <2>1. 0 # row
    BY <1>4
  <2>2. QED
    BY <1>1, <1>6, <1>10, <2>1, WhatIsPointedTo DEF ImageTypes, Pointed, Range
<1>12. Pending(t) = {} /\ ~CleansUp(t) /\ ~At(t, "save", {"replace"})
  BY <1>1, <1>4 DEF Pending, CleansUp, At
<1>13. ASSUME NEW a \in 1..uploaded' \ doubtful' PROVE AssetOK(a)'
  <2>1. a \notin doubtful /\ a \in 1..uploaded /\ AssetOK(a) /\ (a = row => row \in Rows)
    BY <1>1, <1>7, <1>13 DEF ImageInv
  <2>2. (a \in Rows' <=> a \in Rows) /\ (a \in Pointed' <=> a \in Pointed)
    BY <1>1, <1>6, <1>11, <2>1, WhatIsPointedTo
  <2>3. InHeroWindow(a) => InHeroWindow(a)'
    BY <1>9, <1>12 DEF InHeroWindow, OthersStay
  <2>4. QED
    BY <1>1, <1>9, <1>12, <2>1, <2>2, <2>3 DEF AssetOK, OthersStay
<1>14. ASSUME NEW u \in ImageTab, NEW a \in Pending(u)' PROVE OnlyItsOwn(u, a)'
  <2>1. a \in cloud' /\ a \notin Pointed'
    BY <1>1, <1>4, <1>9, <1>11, <1>14, OthersAssets
  <2>2. QED
    BY <1>1, <1>9, <1>14, <2>1, OwnAssetsStay
<1>15. QED
  BY <1>10, <1>13, <1>14 DEF ImageInv

LEMMA DropRowKeeps == ASSUME ImageInv, NEW t \in ImageTab, DropRow(t) PROVE ImageInv'
<1>1. /\ ImageTypes /\ At(t, "drop", {"drop"}) /\ shot[t].phase = "drop" /\ shot[t].kind = "drop" /\ shot[t] # NoShot
      /\ NowAt(t, "destroy") /\ UNCHANGED <<shown, cloud, uploaded, doubtful>>
      /\ images' = Restrict(images, Rows \ {shot[t].row})
  BY IdleCalls DEF ImageInv, DropRow, At
<1>2. ShotOK(t) /\ uploaded \in Nat /\ images = [a \in Rows |-> a] /\ Rows \subseteq 1..uploaded /\ IsFiniteSet(Rows)
  BY <1>1 DEF ImageTypes
<1>3. PICK row : row = shot[t].row
  OBVIOUS
<1>4. shot[t].old = row /\ row \in 1..uploaded /\ shot[t].new = {}
  BY <1>1, <1>2, <1>3 DEF ShotOK
<1>5. images' = [a \in Rows \ {row} |-> a]
  BY <1>1, <1>2, <1>3 DEF Restrict
<1>6. Rows' = Rows \ {row} /\ images' = [a \in Rows' |-> a] /\ IsFiniteSet(Rows')
  BY <1>2, <1>5, FS_Subset DEF Rows
<1>7. /\ OthersStay(t) /\ ShotOK(t)' /\ shot'[t] # NoShot
      /\ shot'[t].phase = "destroy" /\ shot'[t].kind = "drop" /\ shot'[t].old = row /\ shot'[t].new = {}
  BY <1>1, <1>4, ACallGoesTo
<1>8. Pending(t)' = {} /\ CleansUp(t)' /\ ~At(t, "save", {"replace"})' /\ ~At(t, "drop", {"drop"})'
  BY <1>7 DEF Pending, CleansUp, At, DestroysFirst
<1>9. Pending(t) = {} /\ ~CleansUp(t) /\ ~At(t, "save", {"replace"})
  BY <1>1 DEF Pending, CleansUp, At
<1>10. ImageTypes'
  BY <1>1, <1>2, <1>4, <1>6, <1>7 DEF ImageTypes, OthersStay
<1>11. /\ \A a : a \in Pointed' => a \in Pointed
       /\ \A a : a # row => (a \in Pointed' <=> a \in Pointed)
       /\ row \in Pointed' <=> row \in Range(shown)
  <2>1. 0 # row
    BY <1>4
  <2>2. \A a : a \in Pointed <=> a \in Rows \/ (a # 0 /\ a \in {shown["category"], shown["hero"]})
    BY <1>1, WhatIsPointedTo
  <2>3. /\ Range(shown) = {shown["category"], shown["hero"]}
        /\ \A a : a \in Pointed' <=> a \in Rows' \/ (a # 0 /\ a \in {shown["category"], shown["hero"]})
    <3>1. Range(images') = Rows'
      BY <1>6 DEF Range, Rows
    <3>2. QED
      BY <1>1, <3>1, WhatIsPointedTo DEF Pointed
  <2>4. QED
    BY <1>6, <2>1, <2>2, <2>3
<1>12. ASSUME NEW a \in 1..uploaded' \ doubtful' PROVE AssetOK(a)'
  <2>1. AssetOK(a)
    BY <1>1, <1>12 DEF ImageInv
  <2>2. InHeroWindow(a) => InHeroWindow(a)'
    BY <1>7, <1>9 DEF InHeroWindow, OthersStay
  <2>3. a = row => a \notin Pointed'
    BY <1>1, <1>4, <1>11, <2>1 DEF AssetOK
  <2>4. \A u \in ImageTab : CleansUp(u)' /\ shot'[u].old = a => a \notin Pointed'
    BY <1>7, <1>8, <1>11, <2>1, <2>3 DEF AssetOK, OthersStay
  <2>5. a \in cloud => \/ a \in Pointed'
                       \/ \E u \in ImageTab : a \in Pending(u)' \/ (CleansUp(u)' /\ shot'[u].old = a)
    BY <1>7, <1>8, <1>9, <1>11, <2>1 DEF AssetOK, OthersStay
  <2>6. QED
    BY <1>1, <1>6, <1>7, <1>8, <1>11, <2>1, <2>2, <2>4, <2>5 DEF AssetOK, OthersStay
<1>13. ASSUME NEW u \in ImageTab, NEW a \in Pending(u)' PROVE OnlyItsOwn(u, a)'
  <2>1. a \in cloud' /\ a \notin Pointed'
    BY <1>1, <1>7, <1>8, <1>11, <1>13, OthersAssets
  <2>2. QED
    BY <1>1, <1>4, <1>7, <1>8, <1>13, <2>1, OwnAssetsStay
<1>14. QED
  BY <1>10, <1>12, <1>13 DEF ImageInv

-----------------------------------------------------------------------------
\* The columns, and what is destroyed.

\* What a save writes, and what that column showed; the two are the call's old
\* image again, or the save was overtaken.
LEMMA WhatIsWritten ==
    ASSUME ImageInv, NEW t \in ImageTab, SaveColumn(t)
    PROVE  \E c \in Column, b \in 0..uploaded :
             /\ c = shot[t].column /\ shown' = [shown EXCEPT ![c] = b]
             /\ \/ shot[t].kind = "replace" /\ b # 0 /\ shot[t].new = {b}
                \/ shot[t].kind = "clear" /\ b = 0 /\ shot[t].new = {}
                \/ shot[t].kind = "edit" /\ b = shot[t].old /\ shot[t].new = {}
<1>1. /\ ImageTypes /\ shot[t].phase = "save" /\ shot[t].kind \in {"replace", "clear", "edit"} /\ shot[t] # NoShot
      /\ shown' = [shown EXCEPT ![shot[t].column] = Written(t)]
  BY IdleCalls DEF ImageInv, SaveColumn, At
<1>2. ShotOK(t) /\ uploaded \in Nat
  BY <1>1 DEF ImageTypes
<1>3. shot[t].column \in Column
  BY <1>1, <1>2 DEF ShotOK, Column
<1>4. CASE shot[t].kind = "replace"
  <2>1. PICK b \in 1..uploaded : shot[t].new = {b}
    BY <1>1, <1>2, <1>4 DEF ShotOK
  <2>2. Written(t) = b
    BY <1>4, <2>1 DEF Written
  <2>3. b \in 0..uploaded /\ b # 0
    OBVIOUS
  <2>4. QED
    BY <1>1, <1>3, <1>4, <2>1, <2>2, <2>3
<1>5. CASE shot[t].kind = "clear"
  <2>1. Written(t) = 0 /\ 0 \in 0..uploaded /\ shot[t].new = {}
    BY <1>1, <1>2, <1>5 DEF Written, ShotOK
  <2>2. QED
    BY <1>1, <1>3, <1>5, <2>1
<1>6. CASE shot[t].kind = "edit"
  <2>1. Written(t) = shot[t].old /\ shot[t].old \in 0..uploaded /\ shot[t].new = {}
    BY <1>1, <1>2, <1>6 DEF Written, ShotOK
  <2>2. QED
    BY <1>1, <1>3, <1>6, <2>1
<1>7. QED
  BY <1>1, <1>4, <1>5, <1>6

\* Where the call is after that.
LEMMA ASavedCall ==
    ASSUME ImageInv, NEW t \in ImageTab, SaveColumn(t)
    PROVE  /\ OthersStay(t) /\ ShotOK(t)' /\ Pending(t)' = {}
           /\ ~At(t, "save", {"replace"})' /\ ~At(t, "drop", {"drop"})'
           /\ shot'[t] # NoShot => shot'[t].old = shot[t].old
           /\ CleansUp(t)' <=> LeavesBehind(t)
           /\ CleansUp(t)' => shot'[t].old = shot[t].old
<1>1. /\ ImageTypes /\ shot[t].phase = "save" /\ shot[t].kind \in {"replace", "clear", "edit"} /\ shot[t] # NoShot
      /\ uploaded' = uploaded /\ IF LeavesBehind(t) THEN NowAt(t, "destroy") ELSE End(t)
  BY IdleCalls DEF ImageInv, SaveColumn, At
<1>2. uploaded' \in Nat /\ uploaded <= uploaded'
  BY <1>1 DEF ImageTypes
<1>3. CASE LeavesBehind(t)
  <2>1. shot[t].kind # "edit" /\ shot[t].old # 0 /\ ~DestroysFirst(t)
    BY <1>3 DEF LeavesBehind
  <2>2. /\ OthersStay(t) /\ ShotOK(t)' /\ shot'[t] # NoShot /\ shot'[t].phase = "destroy"
        /\ shot'[t].old = shot[t].old /\ (DestroysFirst(t)' <=> DestroysFirst(t))
    BY <1>1, <1>3, <2>1, ACallGoesTo
  <2>3. QED
    BY <1>3, <2>1, <2>2 DEF Pending, CleansUp, At
<1>4. CASE ~LeavesBehind(t)
  BY <1>1, <1>2, <1>4, ACallEnds
<1>5. QED
  BY <1>3, <1>4

LEMMA SaveColumnKeeps == ASSUME ImageInv, NEW t \in ImageTab, SaveColumn(t) PROVE ImageInv'
<1>1. /\ ImageTypes /\ shot[t].phase = "save" /\ shot[t].kind \in {"replace", "clear", "edit"} /\ shot[t] # NoShot
      /\ UNCHANGED <<images, cloud, uploaded>>
      /\ doubtful' = IF shown[shot[t].column] = shot[t].old THEN doubtful
                     ELSE doubtful \cup Handled(t) \cup ({shown[shot[t].column]} \ {0})
  BY IdleCalls DEF ImageInv, SaveColumn, At
<1>2. ShotOK(t) /\ uploaded \in Nat /\ shown \in [Column -> 0..uploaded] /\ Rows' = Rows
  BY <1>1 DEF ImageTypes, Rows
<1>3. PICK c \in Column, b \in 0..uploaded :
        /\ c = shot[t].column /\ shown' = [shown EXCEPT ![c] = b]
        /\ \/ shot[t].kind = "replace" /\ b # 0 /\ shot[t].new = {b}
           \/ shot[t].kind = "clear" /\ b = 0 /\ shot[t].new = {}
           \/ shot[t].kind = "edit" /\ b = shot[t].old /\ shot[t].new = {}
  BY WhatIsWritten
<1>4. PICK old : old = shot[t].old
  OBVIOUS
<1>5. /\ OthersStay(t) /\ ShotOK(t)' /\ Pending(t)' = {}
      /\ ~At(t, "save", {"replace"})' /\ ~At(t, "drop", {"drop"})'
      /\ shot'[t] # NoShot => shot'[t].old = old
      /\ CleansUp(t)' <=> LeavesBehind(t)
      /\ CleansUp(t)' => shot'[t].old = old
  BY <1>4, ASavedCall
<1>6. old \in 0..uploaded /\ shown[c] \in 0..uploaded /\ shot[t].new \subseteq 1..uploaded
  BY <1>1, <1>2, <1>3, <1>4 DEF ShotOK
<1>7. shown' \in [Column -> 0..uploaded] /\ shown'[c] = b /\ \A d \in Column \ {c} : shown'[d] = shown[d]
  BY <1>2, <1>3
<1>8. doubtful' = IF shown[c] = old THEN doubtful
                  ELSE doubtful \cup shot[t].new \cup ({old} \ {0}) \cup ({shown[c]} \ {0})
  BY <1>1, <1>3, <1>4 DEF Handled
<1>9. ImageTypes'
  <2>1. doubtful' \subseteq 1..uploaded
    <3>1. \A x \in {old, shown[c]} : x # 0 => x \in 1..uploaded
      BY <1>2, <1>6
    <3>2. QED
      BY <1>1, <1>6, <1>8, <3>1 DEF ImageTypes
  <2>2. QED
    BY <1>1, <1>2, <1>5, <1>7, <2>1 DEF ImageTypes, OthersStay
<1>10. /\ \A a : a \in Pointed <=> a \in Rows \/ (a # 0 /\ \E d \in Column : shown[d] = a)
       /\ \A a : a \in Pointed' <=> a \in Rows \/ (a # 0 /\ \E d \in Column : shown'[d] = a)
  <2>1. Range(images) = Rows /\ Range(images') = Rows
    BY <1>1, <1>9 DEF ImageTypes, Rows, Range
  <2>2. DOMAIN shown = Column /\ DOMAIN shown' = Column
    BY <1>2, <1>7
  <2>3. QED
    BY <2>1, <2>2 DEF Pointed, Range
<1>11. \A a : a # b => (a \in Pointed' => a \in Pointed) /\ (a \in Range(shown') => a \in Range(shown))
  <2>1. DOMAIN shown = Column /\ DOMAIN shown' = Column
    BY <1>2, <1>7
  <2>2. QED
    BY <1>7, <1>10, <2>1 DEF Range
<1>12. \A a : a \in Pending(t) <=> a = b /\ shot[t].kind = "replace"
  BY <1>1, <1>3 DEF Pending
<1>13. ~CleansUp(t)
  BY <1>1 DEF CleansUp
<1>14. ASSUME NEW a \in 1..uploaded' \ doubtful' PROVE AssetOK(a)'
  <2>1. a \in 1..uploaded /\ a \notin doubtful /\ AssetOK(a) /\ a # 0
    BY <1>1, <1>2, <1>8, <1>14 DEF ImageInv
  <2>2. CASE a # b /\ shown[c] # a
    <3>1. a \in Pointed' <=> a \in Pointed
      BY <1>7, <1>10, <2>2
    <3>2. a \in Range(shown') => a \in Range(shown)
      BY <1>11, <2>2
    <3>3. (shown["category"] # a \/ shown["hero"] # a) => (shown'["category"] # a \/ shown'["hero"] # a)
      BY <1>7, <2>2 DEF Column
    <3>4. a \in Pointed => a \in cloud \/ InHeroWindow(a)'
      <4>1. CASE ~(At(t, "save", {"replace"}) /\ DestroysFirst(t) /\ shot[t].old = a)
        BY <1>5, <2>1, <4>1 DEF AssetOK, InHeroWindow, OthersStay
      <4>2. CASE At(t, "save", {"replace"}) /\ DestroysFirst(t) /\ shot[t].old = a
        <5>1. old = a /\ shown[c] = old
          BY <1>4, <1>8, <1>14, <2>1, <4>2
        <5>2. QED
          BY <2>2, <5>1
      <4>3. QED
        BY <4>1, <4>2
    <3>5. a \in cloud => \/ a \in Pointed'
                         \/ \E u \in ImageTab : a \in Pending(u)' \/ (CleansUp(u)' /\ shot'[u].old = a)
      BY <1>5, <1>12, <1>13, <2>1, <2>2, <3>1 DEF AssetOK, OthersStay
    <3>6. \A u \in ImageTab : CleansUp(u)' /\ shot'[u].old = a => a \notin Pointed'
      <4>1. CleansUp(t)' /\ shot'[t].old = a => FALSE
        BY <1>5, <1>8, <1>14, <2>1, <2>2
      <4>2. QED
        BY <1>5, <2>1, <3>1, <4>1 DEF AssetOK, OthersStay
    <3>7. QED
      BY <1>1, <1>2, <1>5, <2>1, <3>1, <3>2, <3>3, <3>4, <3>5, <3>6 DEF AssetOK, OthersStay
  <2>3. CASE a # b /\ shown[c] = a
    <3>1. old = a
      BY <1>8, <1>14, <2>1, <2>3
    <3>2. /\ a \in Pointed /\ a \notin Rows /\ \A d \in Column \ {c} : shown[d] # a
      <4>1. a \in Range(shown)
        BY <1>2, <2>3 DEF Range
      <4>2. QED
        BY <1>10, <2>1, <2>3, <4>1 DEF AssetOK, Column
    <3>3. a \notin Pointed' /\ \A d \in Column : shown'[d] # a
      BY <1>7, <1>10, <2>3, <3>2
    <3>4. a \notin Range(shown')
      BY <1>7, <3>3 DEF Range
    <3>5. shot[t].kind # "edit"
      BY <1>3, <1>4, <2>3, <3>1
    <3>6. a \in cloud => CleansUp(t)' /\ shot'[t].old = a
      <4>1. CASE DestroysFirst(t)
        <5>1. At(t, "save", {"replace"})
          BY <1>1, <4>1 DEF At, DestroysFirst
        <5>2. QED
          BY <1>4, <2>1, <3>1, <4>1, <5>1 DEF AssetOK
      <4>2. CASE ~DestroysFirst(t)
        BY <1>4, <1>5, <2>1, <3>1, <3>5, <4>2 DEF LeavesBehind
      <4>3. QED
        BY <4>1, <4>2
    <3>7. QED
      BY <1>1, <1>2, <1>5, <2>1, <3>2, <3>3, <3>4, <3>6 DEF AssetOK, OthersStay, Column
  <2>4. CASE a = b /\ shot[t].kind = "replace"
    <3>1. /\ OnlyItsOwn(t, a) /\ a \notin Rows /\ \A d \in Column : shown[d] # a
      BY <1>10, <1>12, <2>1, <2>4 DEF ImageInv, OnlyItsOwn
    <3>2. /\ a \in Pointed' /\ \A d \in Column \ {c} : shown'[d] # a
      BY <1>7, <1>10, <2>1, <2>4, <3>1
    <3>3. \A u \in ImageTab : CleansUp(u)' \/ At(u, "save", {"replace"})' \/ At(u, "drop", {"drop"})' => shot'[u].old # a
      <4>1. ASSUME NEW u \in ImageTab \ {t}, CleansUp(u) \/ At(u, "save", {"replace"}) \/ At(u, "drop", {"drop"})
            PROVE  shot[u].old # a
        BY <3>1, <4>1, IdleCalls DEF CleansUp, At, OnlyItsOwn
      <4>2. old # a
        BY <1>1, <1>4, <3>1 DEF OnlyItsOwn
      <4>3. QED
        BY <1>5, <4>1, <4>2 DEF OthersStay
    <3>4. QED
      BY <1>1, <1>2, <3>1, <3>2, <3>3 DEF AssetOK, OnlyItsOwn, Column
  <2>5. CASE a = b /\ shot[t].kind = "edit"
    <3>1. old = a /\ shown[c] = a
      BY <1>3, <1>4, <1>8, <1>14, <2>1, <2>5
    <3>2. shown' = shown
      BY <1>2, <1>3, <2>5, <3>1
    <3>3. Pointed' = Pointed
      BY <1>1, <3>2 DEF Pointed
    <3>4. ~CleansUp(t)' /\ ~At(t, "save", {"replace"}) /\ Pending(t) = {}
      BY <1>3, <1>5, <1>12, <2>5 DEF LeavesBehind, At
    <3>5. InHeroWindow(a) => InHeroWindow(a)'
      BY <1>5, <3>4 DEF InHeroWindow, OthersStay
    <3>6. QED
      BY <1>1, <1>2, <1>5, <1>13, <2>1, <3>2, <3>3, <3>4, <3>5 DEF AssetOK, OthersStay
  <2>6. QED
    BY <1>3, <2>1, <2>2, <2>3, <2>4, <2>5
<1>15. ASSUME NEW u \in ImageTab, NEW a \in Pending(u)' PROVE OnlyItsOwn(u, a)'
  <2>1. a \in cloud /\ a \notin Pointed /\ a # old /\ a \notin Pending(t) /\ a # 0
    <3>1. a \in Pending(u) /\ a \in cloud /\ a \notin Pointed /\ a # old /\ (u # t => a \notin Pending(t)) /\ u # t
      BY <1>1, <1>4, <1>5, <1>15, OthersAssets
    <3>2. QED
      BY <1>1, <1>2, <3>1 DEF ImageTypes
  <2>2. a # b
    BY <1>3, <1>4, <1>12, <2>1
  <2>3. a \in cloud' /\ a \notin Pointed'
    BY <1>1, <1>11, <2>1, <2>2
  <2>4. QED
    BY <1>1, <1>4, <1>5, <1>15, <2>3, OwnAssetsStay
<1>16. QED
  BY <1>9, <1>14, <1>15 DEF ImageInv

LEMMA DestroyOldKeeps == ASSUME ImageInv, NEW t \in ImageTab, DestroyOld(t) PROVE ImageInv'
<1>1. /\ ImageTypes /\ shot[t].phase = "destroy" /\ shot[t] # NoShot
      /\ UNCHANGED <<images, shown, uploaded>>
      /\ \/ cloud' = cloud \ {shot[t].old} /\ UNCHANGED doubtful
         \/ doubtful' = doubtful \cup {shot[t].old} /\ UNCHANGED cloud
      /\ IF DestroysFirst(t) THEN NowAt(t, "save") ELSE End(t)
  BY IdleCalls DEF ImageInv, DestroyOld
<1>2. ShotOK(t) /\ uploaded \in Nat /\ uploaded' \in Nat /\ uploaded <= uploaded'
  BY <1>1 DEF ImageTypes
<1>3. PICK old : old = shot[t].old
  OBVIOUS
<1>4. old \in 1..uploaded
  <2>1. old \in 0..uploaded /\ old # 0
    BY <1>1, <1>2, <1>3 DEF ShotOK
  <2>2. QED
    BY <1>2, <2>1
<1>5. Pending(t) = (IF DestroysFirst(t) THEN shot[t].new ELSE {}) /\ (CleansUp(t) <=> ~DestroysFirst(t))
  BY <1>1 DEF Pending, CleansUp
<1>6. /\ OthersStay(t) /\ ShotOK(t)' /\ Pending(t)' = Pending(t) /\ ~CleansUp(t)' /\ ~At(t, "drop", {"drop"})'
      /\ shot'[t] # NoShot => shot'[t].old = old
      /\ DestroysFirst(t) => At(t, "save", {"replace"})' /\ DestroysFirst(t)' /\ shot'[t].old = old
      /\ ~DestroysFirst(t) => ~At(t, "save", {"replace"})'
  <2>1. CASE DestroysFirst(t)
    <3>1. shot[t].kind = "replace" /\ shot[t].old # 0
      BY <2>1 DEF DestroysFirst
    <3>2. /\ OthersStay(t) /\ ShotOK(t)' /\ shot'[t] # NoShot
          /\ shot'[t].phase = "save" /\ shot'[t].kind = "replace"
          /\ shot'[t].old = old /\ shot'[t].new = shot[t].new /\ DestroysFirst(t)'
      BY <1>1, <1>3, <2>1, <3>1, ACallGoesTo
    <3>3. QED
      BY <1>5, <2>1, <3>2 DEF Pending, CleansUp, At
  <2>2. CASE ~DestroysFirst(t)
    BY <1>1, <1>2, <1>5, <2>2, ACallEnds
  <2>3. QED
    BY <2>1, <2>2
<1>7. Rows' = Rows /\ Pointed' = Pointed
  BY <1>1 DEF Rows, Pointed
<1>8. ~At(t, "save", {"replace"})
  BY <1>1 DEF At
<1>9. ImageTypes'
  BY <1>1, <1>3, <1>4, <1>6, <1>7 DEF ImageTypes, OthersStay
<1>10. /\ cloud' \subseteq cloud /\ \A a \in cloud \ cloud' : a = old
       /\ old \in doubtful' \/ old \notin cloud'
       /\ doubtful \subseteq doubtful'
  BY <1>1, <1>3
<1>11. ASSUME NEW a \in 1..uploaded' \ doubtful' PROVE AssetOK(a)'
  <2>1. AssetOK(a) /\ (a = old => a \notin cloud')
    BY <1>1, <1>10, <1>11 DEF ImageInv
  <2>2. a \in Pointed => a \in cloud' \/ InHeroWindow(a)'
    <3>1. CASE a # old
      <4>1. InHeroWindow(a) => InHeroWindow(a)'
        BY <1>6, <1>8 DEF InHeroWindow, OthersStay
      <4>2. QED
        BY <1>10, <2>1, <3>1, <4>1 DEF AssetOK
    <3>2. CASE a = old /\ DestroysFirst(t)
      BY <1>6, <3>2 DEF InHeroWindow
    <3>3. CASE a = old /\ ~DestroysFirst(t)
      BY <1>3, <1>5, <2>1, <3>3 DEF AssetOK
    <3>4. QED
      BY <3>1, <3>2, <3>3
  <2>3. a \in cloud' => \/ a \in Pointed
                        \/ \E u \in ImageTab : a \in Pending(u)' \/ (CleansUp(u)' /\ shot'[u].old = a)
    BY <1>3, <1>6, <1>10, <2>1 DEF AssetOK, OthersStay
  <2>4. \A u \in ImageTab : At(u, "save", {"replace"})' /\ DestroysFirst(u)' /\ shot'[u].old = a => a \notin cloud'
    BY <1>6, <1>10, <2>1 DEF AssetOK, OthersStay
  <2>5. QED
    BY <1>1, <1>6, <1>7, <2>1, <2>2, <2>3, <2>4 DEF AssetOK, OthersStay
<1>12. ASSUME NEW u \in ImageTab, NEW a \in Pending(u)' PROVE OnlyItsOwn(u, a)'
  <2>1. Pending(t)' \subseteq Pending(t)
    BY <1>6
  <2>2. a \in cloud /\ a \notin Pointed /\ a # old
    BY <1>1, <1>3, <1>6, <1>12, <2>1, OthersAssets
  <2>3. a \in cloud' /\ a \notin Pointed'
    BY <1>7, <1>10, <2>2
  <2>4. QED
    BY <1>1, <1>3, <1>6, <1>12, <2>1, <2>3, OwnAssetsStay
<1>13. QED
  BY <1>9, <1>11, <1>12 DEF ImageInv

LEMMA CutOffKeeps == ASSUME ImageInv, NEW t \in ImageTab, CutOff(t) PROVE ImageInv'
<1>1. /\ ImageTypes /\ shot[t].phase \in {"save", "destroy"} /\ shot[t] # NoShot
      /\ UNCHANGED <<images, shown, cloud, uploaded>> /\ End(t)
      /\ doubtful' = doubtful \cup shot[t].new \cup ({shot[t].old} \ {0})
  BY IdleCalls DEF ImageInv, CutOff, Handled
<1>2. ShotOK(t) /\ uploaded \in Nat /\ uploaded' \in Nat /\ uploaded <= uploaded'
  BY <1>1 DEF ImageTypes
<1>3. PICK old : old = shot[t].old
  OBVIOUS
<1>4. shot[t].new \subseteq 1..uploaded /\ (old # 0 => old \in 1..uploaded)
  <2>1. old \in 0..uploaded /\ shot[t].new \subseteq 1..uploaded
    BY <1>1, <1>2, <1>3 DEF ShotOK
  <2>2. QED
    BY <1>2, <2>1
<1>5. /\ OthersStay(t) /\ shot'[t] = NoShot /\ ShotOK(t)' /\ Pending(t)' = {} /\ ~CleansUp(t)'
      /\ \A phase, kinds : At(t, phase, kinds)' => phase = "none"
  BY <1>1, <1>2, ACallEnds
<1>6. Rows' = Rows /\ Pointed' = Pointed
  BY <1>1 DEF Rows, Pointed
<1>7. ImageTypes'
  BY <1>1, <1>3, <1>4, <1>5, <1>6 DEF ImageTypes, OthersStay
<1>8. Pending(t) \subseteq shot[t].new
  BY DEF Pending
<1>9. ASSUME NEW a \in 1..uploaded' \ doubtful' PROVE AssetOK(a)'
  <2>1. AssetOK(a) /\ a # shot[t].old /\ a \notin Pending(t)
    <3>1. a \in 1..uploaded /\ a \notin doubtful /\ a # 0
      BY <1>1, <1>2, <1>9
    <3>2. QED
      BY <1>1, <1>8, <1>9, <3>1 DEF ImageInv
  <2>2. InHeroWindow(a) => InHeroWindow(a)'
    BY <1>5, <2>1 DEF InHeroWindow, OthersStay
  <2>3. QED
    BY <1>1, <1>5, <1>6, <2>1, <2>2 DEF AssetOK, OthersStay
<1>10. ASSUME NEW u \in ImageTab, NEW a \in Pending(u)' PROVE OnlyItsOwn(u, a)'
  <2>1. a \in cloud' /\ a \notin Pointed'
    BY <1>1, <1>5, <1>6, <1>10, OthersAssets
  <2>2. QED
    BY <1>1, <1>5, <1>10, <2>1, OwnAssetsStay
<1>11. QED
  BY <1>7, <1>9, <1>10 DEF ImageInv

-----------------------------------------------------------------------------
\* The invariant.

LEMMA ImagesStart == InitImages => ImageInv
<1> SUFFICES ASSUME InitImages PROVE ImageInv
  OBVIOUS
<1>1. images = [n \in {1} |-> 1] /\ Rows = {1} /\ IsFiniteSet({1})
  BY FS_Singleton DEF InitImages, Rows
<1>2. \A a \in {1} : images[a] = a
  BY <1>1
<1>3. images = [a \in Rows |-> a]
  BY <1>1, <1>2
<1>4. ImageTypes
  BY <1>1, <1>3 DEF InitImages, ImageTypes, ShotOK
<1>5. /\ \A t \in ImageTab : shot[t] = NoShot /\ Pending(t) = {} /\ ~CleansUp(t)
      /\ \A t \in ImageTab : ~At(t, "save", {"replace"}) /\ ~At(t, "drop", {"drop"})
  BY IdleCalls DEF InitImages, Pending, CleansUp, At
<1>6. shown["category"] = 0 /\ shown["hero"] = 0 /\ uploaded = 1 /\ cloud = {1}
  BY DEF InitImages, Column
<1>7. \A a : a \in Pointed <=> a = 1
  BY <1>1, <1>4, <1>6, WhatIsPointedTo
<1>8. \A a \in 1..uploaded : AssetOK(a)
  <2>1. \A a \in 1..uploaded : a = 1 /\ a \notin Range(shown)
    BY <1>4, <1>6, WhatIsPointedTo
  <2>2. QED
    BY <1>5, <1>6, <1>7, <2>1 DEF AssetOK
<1>9. QED
  BY <1>4, <1>5, <1>8 DEF ImageInv

LEMMA ImagesStutter == ASSUME ImageInv, UNCHANGED imageVars PROVE ImageInv'
<1>1. UNCHANGED <<images, shown, cloud, uploaded, shot, doubtful>>
  BY DEF imageVars
<1>2. ImageTypes' <=> ImageTypes
  BY <1>1 DEF ImageTypes, ShotOK, Rows
<1>3. \A a : AssetOK(a)' <=> AssetOK(a)
  BY <1>1 DEF AssetOK, InHeroWindow, Pointed, Rows, CleansUp, Pending, DestroysFirst, At
<1>4. \A t, a : (OnlyItsOwn(t, a)' <=> OnlyItsOwn(t, a)) /\ (a \in Pending(t)' <=> a \in Pending(t))
  BY <1>1 DEF OnlyItsOwn, Pointed, Pending, DestroysFirst
<1>5. QED
  BY <1>1, <1>2, <1>3, <1>4 DEF ImageInv

LEMMA ImagesStay == ImageInv /\ [NextImages]_imageVars => ImageInv'
<1> SUFFICES ASSUME ImageInv, [NextImages]_imageVars PROVE ImageInv'
  OBVIOUS
<1>1. CASE NextImages
  <2> PICK t \in ImageTab :
        \/ LoadForAdd(t) \/ Upload(t) \/ UploadFails(t) \/ SaveImages(t)
        \/ LoadForText(t) \/ SaveText(t) \/ LoadForRemoval(t) \/ DropRow(t)
        \/ LoadForReplace(t) \/ LoadForClear(t) \/ LoadForEdit(t) \/ SaveColumn(t)
        \/ DestroyOld(t) \/ CutOff(t)
    BY <1>1 DEF NextImages
  <2>1. CASE LoadForAdd(t)
    BY <2>1, LoadForAddKeeps
  <2>2. CASE Upload(t)
    BY <2>2, UploadKeeps
  <2>3. CASE UploadFails(t)
    BY <2>3, UploadFailsKeeps
  <2>4. CASE SaveImages(t)
    BY <2>4, SaveImagesKeeps
  <2>5. CASE LoadForText(t) \/ LoadForRemoval(t)
    BY <2>5, LoadOfARowKeeps
  <2>6. CASE SaveText(t)
    BY <2>6, SaveTextKeeps
  <2>7. CASE DropRow(t)
    BY <2>7, DropRowKeeps
  <2>8. CASE LoadForReplace(t) \/ LoadForClear(t) \/ LoadForEdit(t)
    BY <2>8, LoadOfAColumnKeeps
  <2>9. CASE SaveColumn(t)
    BY <2>9, SaveColumnKeeps
  <2>10. CASE DestroyOld(t)
    BY <2>10, DestroyOldKeeps
  <2>11. CASE CutOff(t)
    BY <2>11, CutOffKeeps
  <2>12. QED
    BY <2>1, <2>2, <2>3, <2>4, <2>5, <2>6, <2>7, <2>8, <2>9, <2>10, <2>11
<1>2. CASE UNCHANGED imageVars
  BY <1>2, ImagesStutter
<1>3. QED
  BY <1>1, <1>2

LEMMA ImageInvHolds == ImageSpec => []ImageInv
<1>1. QED
  BY ImagesStart, ImagesStay, PTL DEF ImageSpec

\* No page shows an image that is gone and no asset is kept that nothing shows, for
\* any number of callers who add, replace, remove and edit images at once, with
\* failing uploads and deletes and with restarts.
THEOREM AssetsMatchRowsHolds == ImageSpec => []AssetsMatchRows
<1>1. ImageInv => AssetsMatchRows
  <2> SUFFICES ASSUME ImageInv, NEW a \in 1..uploaded \ doubtful
               PROVE  /\ a \in Pointed => a \in cloud \/ InHeroWindow(a)
                      /\ Idle /\ a \in cloud => a \in Pointed
    BY DEF AssetsMatchRows
  <2>1. AssetOK(a)
    BY DEF ImageInv
  <2>2. Idle => \A t \in ImageTab : Pending(t) = {} /\ ~CleansUp(t)
    BY IdleCalls DEF Idle, Pending, CleansUp
  <2>3. QED
    BY <2>1, <2>2 DEF AssetOK
<1>2. QED
  BY <1>1, ImageInvHolds, PTL

\* A product gets more images than it may have only by a call that counted before
\* another one inserted, or that inserts a removed row again, for any number of callers.
THEOREM CapIsPassedOnlyByOvertakenCountsHolds == ImageSpec => CapIsPassedOnlyByOvertakenCounts
<1> DEFINE Step == \/ Cardinality(DOMAIN images') <= MaxImages
                   \/ DOMAIN images' \subseteq Rows
                   \/ \E t \in ImageTab :
                        /\ shot'[t] = NoShot
                        /\ \/ At(t, "save", {"add"}) /\ ~(Rows \subseteq shot[t].rows)
                           \/ At(t, "save", {"text"}) /\ shot[t].row \notin Rows
<1>1. ImageInv /\ NextImages => Step
  <2> SUFFICES ASSUME ImageInv, NextImages PROVE Step
    OBVIOUS
  <2>1. CASE UNCHANGED images
    BY <2>1 DEF Rows
  <2>2. ASSUME NEW t \in ImageTab, SaveImages(t) PROVE Step
    <3>1. /\ At(t, "save", {"add"}) /\ End(t) /\ ImageTypes /\ ShotOK(t)
          /\ images' = Spread([a \in shot[t].new |-> a], images)
      BY <2>2 DEF SaveImages, ImageInv, ImageTypes
    <3>2. shot'[t] = NoShot /\ DOMAIN images' = Rows \cup shot[t].new
      BY <3>1 DEF End, ImageTypes, Spread, Rows
    <3>3. CASE Rows \subseteq shot[t].rows
      <4>1. /\ IsFiniteSet(shot[t].rows) /\ IsFiniteSet(shot[t].new) /\ shot[t].files \in 1..2
            /\ Cardinality(shot[t].rows) + shot[t].files <= MaxImages /\ Cardinality(shot[t].new) = shot[t].files
        BY <3>1, IdleCalls DEF ShotOK, At
      <4>2. PICK rows, new : rows = shot[t].rows /\ new = shot[t].new
        OBVIOUS
      <4>3. /\ Cardinality(rows) \in Nat /\ Cardinality(new) \in Nat /\ Cardinality(rows) + Cardinality(new) <= MaxImages
            /\ IsFiniteSet(rows) /\ IsFiniteSet(new)
        BY <4>1, <4>2, FS_CardinalityType
      <4>4. /\ IsFiniteSet(rows \cup new) /\ IsFiniteSet(rows \cap new)
            /\ Cardinality(rows \cup new) = Cardinality(rows) + Cardinality(new) - Cardinality(rows \cap new)
        BY <4>3, FS_Union, FS_Intersection
      <4>5. Cardinality(rows \cap new) \in Nat /\ Cardinality(rows \cup new) \in Nat
        BY <4>4, FS_CardinalityType
      <4>6. DOMAIN images' \subseteq rows \cup new
        BY <3>2, <3>3, <4>2
      <4>7. /\ Cardinality(DOMAIN images') <= Cardinality(rows \cup new)
            /\ Cardinality(DOMAIN images') \in Nat
        BY <4>4, <4>6, FS_Subset, FS_CardinalityType
      <4>8. MaxImages \in Nat
        BY ImageBounds
      <4>9. Cardinality(DOMAIN images') <= MaxImages
        BY <4>3, <4>4, <4>5, <4>7, <4>8
      <4>10. QED
        BY <4>9
    <3>4. CASE ~(Rows \subseteq shot[t].rows)
      BY <3>1, <3>2, <3>4
    <3>5. QED
      BY <3>3, <3>4
  <2>3. ASSUME NEW t \in ImageTab, SaveText(t) PROVE Step
    <3>1. /\ At(t, "save", {"text"}) /\ End(t) /\ ImageTypes
          /\ images' = Spread([i \in {shot[t].row} |-> shot[t].old], images)
      BY <2>3 DEF SaveText, ImageInv
    <3>2. shot'[t] = NoShot /\ DOMAIN images' = Rows \cup {shot[t].row}
      BY <3>1 DEF End, ImageTypes, Spread, Rows
    <3>3. QED
      BY <3>1, <3>2
  <2>4. ASSUME NEW t \in ImageTab, DropRow(t) PROVE Step
    BY <2>4 DEF DropRow, Restrict
  <2>5. QED
    BY <2>1, <2>2, <2>3, <2>4 DEF NextImages, LoadForAdd, Upload, UploadFails, LoadForText, LoadForRemoval,
      LoadForReplace, LoadForClear, LoadForEdit, SaveColumn, DestroyOld, CutOff, Load
<1>2. ImageInv /\ [NextImages]_imageVars => [Step]_imageVars
  BY <1>1
<1>3. QED
  BY <1>2, ImageInvHolds, PTL DEF ImageSpec, CapIsPassedOnlyByOvertakenCounts
-----------------------------------------------------------------------------
\* The variants of ProductMatrix.  What a handler has checked is said of the rows
\* it read: rows is <<product, variant, value, attribute, described>>.

LiveIn(rows) == {x \in Value : rows[3][x] = "live"}
ThereIn(rows) == {v \in Variant : rows[2][v].there}
LinkedIn(rows, v) == rows[2][v].links
ExistingIn(rows) == [v \in ThereIn(rows) |-> LinkedIn(rows, v) \cap LiveIn(rows)]

CombinationIn(rows, combination) ==
    /\ Cardinality(combination) <= MaxAxes
    /\ \A x \in combination : x \in LiveIn(rows) /\ AttributeOf[x] \in Axes /\ rows[4][AttributeOf[x]] = "live"
    /\ Cardinality(Signature(combination)) = Cardinality(combination)

ValidIn(rows, matrix) ==
    /\ Cardinality(DOMAIN matrix) \in 1..MaxVariants
    /\ \A v \in DOMAIN matrix : CombinationIn(rows, matrix[v])
    /\ OneShape(matrix)
    /\ BareIsAlone(matrix)
    /\ IsInjective(matrix)

\* The names of the rows a product has and of those it is to get.
Names(rows, combinations) == ({"row"} \X ThereIn(rows)) \cup ({"new"} \X combinations)
Joined(rows, combinations) ==
    [e \in Names(rows, combinations) |-> IF e[1] = "row" THEN ExistingIn(rows)[e[2]] ELSE e[2]]

InUseIn(rows, values) ==
    /\ rows[1] = "live"
    /\ \/ rows[5] \cap values # {}
       \/ \E v \in ThereIn(rows) : LinkedIn(rows, v) \cap values # {}

SoundIn(rows) ==
    /\ rows[1] = "live" =>
         /\ ValidIn(rows, ExistingIn(rows))
         /\ \A v \in ThereIn(rows) : LinkedIn(rows, v) \subseteq LiveIn(rows)
         /\ rows[5] \subseteq LiveIn(rows)
    /\ \A x \in LiveIn(rows) : rows[4][AttributeOf[x]] = "live"

\* What each handler has found before it writes.
PassesChecks(e, rows) ==
    \/ /\ e.op = "create" /\ rows[1] = "none"
       /\ ValidIn(rows, [c \in e.insert |-> c])
    \/ /\ e.op = "insert" /\ rows[1] = "live"
       /\ ValidIn(rows, Joined(rows, e.insert))
    \/ /\ e.op = "update" /\ rows[1] = "live"
       /\ e.target \in ThereIn(rows) /\ e.links = ExistingIn(rows)[e.target]
    \/ /\ e.op = "remove" /\ rows[1] = "live"
       /\ e.target \in ThereIn(rows) /\ Cardinality(ThereIn(rows)) # 1
    \/ e.op = "describe" /\ rows[1] = "live" /\ e.insert \subseteq LiveIn(rows)
    \/ e.op = "remove product" /\ rows[1] = "live"
    \/ e.op = "remove value" /\ ~InUseIn(rows, {e.target})
    \/ e.op = "remove attribute" /\ ~InUseIn(rows, {x \in LiveIn(rows) : AttributeOf[x] = e.target})
    \/ e.op = "add value" /\ rows[4][AttributeOf[e.target]] = "live"

\* What is in a handler's memory, whoever wrote in the meantime.
EditOK(t) ==
    \/ edit[t] = NoEdit
    \/ /\ edit[t].op \in {"create", "insert"}
       /\ edit[t].insert \in SUBSET SUBSET Value
    \/ /\ edit[t].op = "update"
       /\ edit[t].target \in Variant /\ edit[t].target <= born
       /\ edit[t].links \in SUBSET Value /\ edit[t].key \in SUBSET Value
    \/ edit[t].op = "remove" /\ edit[t].target \in Variant
    \/ edit[t].op = "describe" /\ edit[t].insert \in SUBSET Value
    \/ edit[t].op = "remove product"
    \/ edit[t].op \in {"remove value", "add value"} /\ edit[t].target \in Value
    \/ edit[t].op = "remove attribute" /\ edit[t].target \in Attribute

BeforeAProduct == {"none", "create", "remove value", "remove attribute", "add value"}

MatrixTypes ==
    /\ product \in {"none", "live", "removed"}
    /\ variant \in [Variant -> [there : BOOLEAN, key : SUBSET Value, links : SUBSET Value]]
    /\ value \in [Value -> {"unborn", "live", "removed"}]
    /\ attribute \in [Attribute -> {"live", "removed"}]
    /\ described \subseteq Value
    /\ born \in Nat
    /\ DOMAIN edit = Tab /\ \A t \in Tab : EditOK(t)

\* Ids are given in order; a product that is not there yet has nothing.
MatrixInv ==
    /\ MatrixTypes
    /\ \A v \in There : v <= born
    /\ product = "none" => There = {} /\ described = {} /\ \A t \in Tab : edit[t].op \in BeforeAProduct
    /\ \A t \in Tab : edit[t].op = "none" \/ PassesChecks(edit[t], edit[t].rows)

-----------------------------------------------------------------------------
\* What SetToSeq makes of a set, and what of a matrix its rows' names do not matter to.

LEMMA Listing ==
    ASSUME NEW S, IsFiniteSet(S)
    PROVE  \E n \in Nat : \E list : /\ n = Cardinality(S) /\ list = SetToSeq(S)
                                    /\ list \in [1..n -> S]
                                    /\ \A i, j \in 1..n : list[i] = list[j] => i = j
                                    /\ \A x \in S : \E i \in 1..n : list[i] = x
<1>1. PICK n \in Nat : n = Cardinality(S) /\ ExistsBijection(1..n, S)
  BY FS_CardinalityType
<1>2. PICK f : f \in [1..n -> S] /\ IsInjective(f)
  BY <1>1 DEF ExistsBijection, Bijection, Injection, IsInjective
<1>3. PICK list : list = SetToSeq(S)
  OBVIOUS
<1>4. list \in [1..n -> S] /\ IsInjective(list)
  BY <1>1, <1>2, <1>3 DEF SetToSeq
<1>5. list \in Injection(1..n, S)
  BY <1>4 DEF Injection, IsInjective
<1>6. list \in Surjection(1..n, S)
  <2>1. IsFiniteSet(1..n) /\ Cardinality(1..n) = n
    BY FS_Interval
  <2>2. QED
    BY <1>1, <1>5, <2>1, FS_Injection
<1>7. QED
  BY <1>1, <1>3, <1>4, <1>6 DEF Surjection, IsInjective

\* One matrix is another one whose rows got other names.
Renames(g, n, m) ==
    /\ g \in [DOMAIN n -> DOMAIN m]
    /\ \A v, w \in DOMAIN n : g[v] = g[w] => v = w
    /\ \A d \in DOMAIN m : \E v \in DOMAIN n : g[v] = d
    /\ \A v \in DOMAIN n : n[v] = m[g[v]]

LEMMA RenamedMatrix ==
    ASSUME NEW rows, NEW m, NEW n, NEW g, Renames(g, n, m), IsFiniteSet(DOMAIN m), ValidIn(rows, m)
    PROVE  ValidIn(rows, n)
<1>1. IsFiniteSet(DOMAIN n) /\ Cardinality(DOMAIN n) = Cardinality(DOMAIN m)
  <2>1. g \in Injection(DOMAIN n, DOMAIN m) /\ g \in Surjection(DOMAIN n, DOMAIN m)
    BY DEF Renames, Injection, Surjection, IsInjective
  <2>2. QED
    BY <2>1, FS_Injection
<1>2. \A v \in DOMAIN n : g[v] \in DOMAIN m /\ n[v] = m[g[v]]
  BY DEF Renames
<1>3. \A v \in DOMAIN n : CombinationIn(rows, n[v])
  BY <1>2 DEF ValidIn
<1>4. OneShape(n)
  BY <1>2 DEF ValidIn, OneShape
<1>5. BareIsAlone(n)
  BY <1>1, <1>2 DEF ValidIn, BareIsAlone, Range
<1>6. IsInjective(n)
  BY <1>2 DEF ValidIn, IsInjective, Renames
<1>7. QED
  BY <1>1, <1>3, <1>4, <1>5, <1>6 DEF ValidIn

\* What is left of a matrix.
LEMMA SmallerMatrix ==
    ASSUME NEW rows, NEW m, NEW n, IsFiniteSet(DOMAIN m), ValidIn(rows, m), MaxVariants \in Nat,
           DOMAIN n \subseteq DOMAIN m, DOMAIN n # {}, \A v \in DOMAIN n : n[v] = m[v]
    PROVE  ValidIn(rows, n)
<1>1. /\ Cardinality(DOMAIN n) \in Nat /\ Cardinality(DOMAIN n) <= Cardinality(DOMAIN m)
      /\ Cardinality(DOMAIN n) # 0 /\ Cardinality(DOMAIN m) \in Nat
  <2>1. IsFiniteSet(DOMAIN n)
    BY FS_Subset
  <2>2. QED
    BY <2>1, FS_Subset, FS_CardinalityType, FS_EmptySet
<1>2. Cardinality(DOMAIN n) \in 1..MaxVariants
  <2>1. Cardinality(DOMAIN m) \in 1..MaxVariants
    BY DEF ValidIn
  <2>2. PICK i, j : i = Cardinality(DOMAIN n) /\ j = Cardinality(DOMAIN m)
    OBVIOUS
  <2>3. i \in Nat /\ i <= j /\ i # 0 /\ j \in 1..MaxVariants
    BY <1>1, <2>1, <2>2
  <2>4. i \in 1..MaxVariants
    BY <2>3
  <2>5. QED
    BY <2>2, <2>4
<1>3. OneShape(n)
  BY DEF ValidIn, OneShape
<1>4. BareIsAlone(n)
  <2>1. Range(n) \subseteq Range(m)
    BY DEF Range
  <2>2. {} \in Range(n) => Cardinality(DOMAIN m) = 1
    BY <2>1 DEF ValidIn, BareIsAlone
  <2>3. PICK i, j : i = Cardinality(DOMAIN n) /\ j = Cardinality(DOMAIN m)
    OBVIOUS
  <2>4. i \in Nat /\ i <= j /\ i # 0
    BY <1>1, <2>3
  <2>5. j = 1 => i = 1
    BY <2>4
  <2>6. QED
    BY <2>2, <2>3, <2>5 DEF BareIsAlone
<1>5. IsInjective(n)
  BY DEF ValidIn, IsInjective
<1>6. QED
  BY <1>2, <1>3, <1>4, <1>5 DEF ValidIn

\* Soundness and the checks, said of the rows there are.
LEMMA WhatTheRowsAre ==
    /\ LiveIn(matrixRows) = LiveValues /\ ThereIn(matrixRows) = There
    /\ \A v : LinkedIn(matrixRows, v) = variant[v].links
    /\ ExistingIn(matrixRows) = Existing
    /\ matrixRows[1] = product /\ matrixRows[3] = value /\ matrixRows[4] = attribute /\ matrixRows[5] = described
<1>1. /\ matrixRows[1] = product /\ matrixRows[2] = variant /\ matrixRows[3] = value
      /\ matrixRows[4] = attribute /\ matrixRows[5] = described
  BY DEF matrixRows
<1>2. LiveIn(matrixRows) = LiveValues /\ ThereIn(matrixRows) = There
  BY <1>1 DEF LiveIn, LiveValues, ThereIn, There
<1>3. \A v : LinkedIn(matrixRows, v) = variant[v].links
  BY <1>1 DEF LinkedIn
<1>4. ExistingIn(matrixRows) = Existing
  BY <1>2, <1>3 DEF ExistingIn, Existing
<1>5. QED
  BY <1>1, <1>2, <1>3, <1>4

LEMMA ValidityOfTheRows == \A m : ValidMatrix(m) <=> ValidIn(matrixRows, m)
<1>1. \A c : IsCombination(c) <=> CombinationIn(matrixRows, c)
  BY WhatTheRowsAre DEF IsCombination, IsAxisValue, CombinationIn
<1>2. QED
  BY <1>1 DEF ValidMatrix, ValidIn

LEMMA SoundnessOfTheRows == Sound <=> SoundIn(matrixRows)
BY WhatTheRowsAre, ValidityOfTheRows DEF Sound, SoundIn

LEMMA SoundnessAfterwards == Sound' <=> SoundIn(matrixRows')
<1>1. Sound <=> SoundIn(matrixRows)
  BY SoundnessOfTheRows
<1>2. (Sound <=> SoundIn(matrixRows))'
  BY <1>1, PTL
<1>3. QED
  BY <1>2

-----------------------------------------------------------------------------
\* The reads.

LEMMA WithIsJoined == \A combinations : With(combinations) = Joined(matrixRows, combinations)
<1>1. ThereIn(matrixRows) = There /\ ExistingIn(matrixRows) = Existing
  BY WhatTheRowsAre
<1>2. QED
  BY <1>1 DEF With, Joined, Names

\* A handler that has read remembers what it is to write and the rows it read.
Remembers(t, e, op, memory) ==
    /\ edit[t] = NoEdit /\ edit' = [edit EXCEPT ![t] = e]
    /\ UNCHANGED <<matrixRows, born>>
    /\ e.op = op /\ e.rows = matrixRows
    /\ \A c \in DOMAIN memory : e[c] = memory[c]

LEMMA WhatARead ==
    ASSUME NEW t \in Tab, NEW op, NEW memory, Read(t, op, memory),
           "op" \notin DOMAIN memory, "rows" \notin DOMAIN memory
    PROVE  \E e : Remembers(t, e, op, memory)
<1>1. PICK e : e = Spread(memory, [op |-> op, rows |-> matrixRows])
  OBVIOUS
<1>2. e.op = op /\ e.rows = matrixRows /\ \A c \in DOMAIN memory : e[c] = memory[c]
  BY <1>1 DEF Spread
<1>3. QED
  BY <1>1, <1>2 DEF Read, Remembers

LEMMA ReadKeeps ==
    ASSUME MatrixInv, NEW t \in Tab, NEW e, NEW op, NEW memory, Remembers(t, e, op, memory),
           PassesChecks(e, matrixRows), product = "none" => op \in BeforeAProduct,
           \/ op \in {"create", "insert"} /\ e.insert \in SUBSET SUBSET Value
           \/ /\ op = "update" /\ e.target \in There
              /\ e.links \in SUBSET Value /\ e.key \in SUBSET Value
           \/ op = "remove" /\ e.target \in Variant
           \/ op = "describe" /\ e.insert \in SUBSET Value
           \/ op = "remove product"
           \/ op \in {"remove value", "add value"} /\ e.target \in Value
           \/ op = "remove attribute" /\ e.target \in Attribute
    PROVE  MatrixInv'
<1>1. /\ edit[t] = NoEdit /\ edit' = [edit EXCEPT ![t] = e]
      /\ UNCHANGED <<product, variant, value, attribute, described, matrixRows, born>>
      /\ e.op = op /\ e.rows = matrixRows
  BY DEF Remembers, matrixRows
<1>2. /\ MatrixTypes /\ \A v \in There : v <= born
      /\ product = "none" => There = {} /\ described = {} /\ \A u \in Tab : edit[u].op \in BeforeAProduct
      /\ \A u \in Tab : edit[u].op = "none" \/ PassesChecks(edit[u], edit[u].rows)
  BY DEF MatrixInv
<1>3. edit'[t] = e /\ DOMAIN edit' = Tab /\ \A u \in Tab \ {t} : edit'[u] = edit[u]
  BY <1>1, <1>2 DEF MatrixTypes
<1>4. There' = There
  BY <1>1 DEF There
<1>5. EditOK(t)'
  <2>1. There \subseteq Variant /\ \A v \in There : v <= born
    BY <1>2 DEF There
  <2>2. QED
    BY <1>1, <1>3, <2>1 DEF EditOK
<1>6. MatrixTypes'
  <2>1. \A u \in Tab \ {t} : EditOK(u)'
    BY <1>1, <1>2, <1>3 DEF MatrixTypes, EditOK
  <2>2. QED
    BY <1>1, <1>2, <1>3, <1>5, <2>1 DEF MatrixTypes
<1>7. product' = "none" => There' = {} /\ described' = {} /\ \A u \in Tab : edit'[u].op \in BeforeAProduct
  BY <1>1, <1>2, <1>3, <1>4
<1>8. \A u \in Tab : edit'[u].op = "none" \/ PassesChecks(edit'[u], edit'[u].rows)
  BY <1>1, <1>2, <1>3
<1>9. QED
  BY <1>1, <1>2, <1>4, <1>6, <1>7, <1>8 DEF MatrixInv

LEMMA LoadCreateKeeps == ASSUME MatrixInv, NEW t \in Tab, LoadCreate(t) PROVE MatrixInv'
<1>1. PICK combinations \in SUBSET {c \in SUBSET Value : IsCombination(c)} :
        ValidMatrix([c \in combinations |-> c]) /\ Read(t, "create", [insert |-> combinations])
  BY DEF LoadCreate
<1>2. product = "none"
  BY DEF LoadCreate
<1>3. PICK memory : memory = [insert |-> combinations]
  OBVIOUS
<1>4. Read(t, "create", memory) /\ DOMAIN memory = {"insert"} /\ memory.insert = combinations
  BY <1>1, <1>3
<1>5. PICK e : Remembers(t, e, "create", memory)
  BY <1>4, WhatARead
<1>6. e.op = "create" /\ e.insert = combinations
  BY <1>4, <1>5 DEF Remembers
<1>7. PassesChecks(e, matrixRows)
  BY <1>1, <1>2, <1>6, ValidityOfTheRows, WhatTheRowsAre DEF PassesChecks
<1>8. QED
  BY <1>5, <1>6, <1>7, ReadKeeps DEF BeforeAProduct

LEMMA LoadInsertKeeps == ASSUME MatrixInv, NEW t \in Tab, LoadAdd(t) \/ LoadGenerate(t) PROVE MatrixInv'
<1>1. product = "live"
  BY DEF LoadAdd, LoadGenerate
<1>2. PICK combinations \in SUBSET SUBSET Value :
        ValidMatrix(With(combinations)) /\ Read(t, "insert", [insert |-> combinations])
  <2>1. CASE LoadAdd(t)
    BY <2>1 DEF LoadAdd
  <2>2. CASE LoadGenerate(t)
    <3>1. PICK attributes \in SUBSET Axes :
          \E axes \in [attributes -> SUBSET {x \in Value : IsAxisValue(x)} \ {{}}] :
            LET new == CrossProduct(axes) \ {variant[v].key : v \in There}
            IN  ValidMatrix(With(new)) /\ Read(t, "insert", [insert |-> new])
      BY <2>2 DEF LoadGenerate
    <3>2. PICK axes \in [attributes -> SUBSET {x \in Value : IsAxisValue(x)} \ {{}}] :
            LET new == CrossProduct(axes) \ {variant[v].key : v \in There}
            IN  ValidMatrix(With(new)) /\ Read(t, "insert", [insert |-> new])
      BY <3>1
    <3>3. CrossProduct(axes) \subseteq SUBSET Value
      BY DEF CrossProduct, Range
    <3>4. QED
      BY <3>2, <3>3
  <2>3. QED
    BY <2>1, <2>2
<1>3. PICK memory : memory = [insert |-> combinations]
  OBVIOUS
<1>4. Read(t, "insert", memory) /\ DOMAIN memory = {"insert"} /\ memory.insert = combinations
  BY <1>2, <1>3
<1>5. PICK e : Remembers(t, e, "insert", memory)
  BY <1>4, WhatARead
<1>6. e.op = "insert" /\ e.insert = combinations
  BY <1>4, <1>5 DEF Remembers
<1>7. PassesChecks(e, matrixRows)
  BY <1>1, <1>2, <1>6, ValidityOfTheRows, WhatTheRowsAre, WithIsJoined DEF PassesChecks
<1>8. QED
  BY <1>1, <1>5, <1>6, <1>7, ReadKeeps

LEMMA LoadUpdateKeeps == ASSUME MatrixInv, NEW t \in Tab, LoadUpdate(t) PROVE MatrixInv'
<1>1. product = "live"
  BY DEF LoadUpdate
<1>2. \A v \in There : variant[v].key \in SUBSET Value /\ variant[v].links \in SUBSET Value
  BY DEF MatrixInv, MatrixTypes, There
<1>3. PICK v \in There, key \in SUBSET Value :
        Read(t, "update", [target |-> v, links |-> Existing[v], key |-> key])
  BY <1>2 DEF LoadUpdate
<1>4. PICK links : links = Existing[v]
  OBVIOUS
<1>5. links \in SUBSET Value
  BY <1>2, <1>4 DEF Existing
<1>6. PICK memory : memory = [target |-> v, links |-> links, key |-> key]
  OBVIOUS
<1>7. /\ Read(t, "update", memory) /\ DOMAIN memory = {"target", "links", "key"}
      /\ memory.target = v /\ memory.links = links /\ memory.key = key
  BY <1>3, <1>4, <1>6
<1>8. PICK e : Remembers(t, e, "update", memory)
  BY <1>7, WhatARead
<1>9. e.op = "update" /\ e.target = v /\ e.links = links /\ e.key = key
  BY <1>7, <1>8 DEF Remembers
<1>10. PassesChecks(e, matrixRows)
  BY <1>1, <1>3, <1>4, <1>9, WhatTheRowsAre DEF PassesChecks
<1>11. QED
  BY <1>1, <1>3, <1>5, <1>8, <1>9, <1>10, ReadKeeps

LEMMA LoadRemoveKeeps == ASSUME MatrixInv, NEW t \in Tab, LoadRemove(t) \/ LoadRemoveProduct(t) PROVE MatrixInv'
<1>1. product = "live"
  BY DEF LoadRemove, LoadRemoveProduct
<1>2. CASE LoadRemove(t)
  <2>1. PICK v \in Variant : MayRemove(v) /\ Read(t, "remove", [target |-> v])
    BY <1>2 DEF LoadRemove
  <2>2. PICK memory : memory = [target |-> v]
    OBVIOUS
  <2>3. Read(t, "remove", memory) /\ DOMAIN memory = {"target"} /\ memory.target = v
    BY <2>1, <2>2
  <2>4. PICK e : Remembers(t, e, "remove", memory)
    BY <2>3, WhatARead
  <2>5. e.op = "remove" /\ e.target = v
    BY <2>3, <2>4 DEF Remembers
  <2>6. PassesChecks(e, matrixRows)
    BY <1>1, <2>1, <2>5, WhatTheRowsAre DEF PassesChecks, MayRemove
  <2>7. QED
    BY <1>1, <2>4, <2>5, <2>6, ReadKeeps
<1>3. CASE LoadRemoveProduct(t)
  <2>1. PICK memory : memory = [target |-> 0]
    OBVIOUS
  <2>2. Read(t, "remove product", memory) /\ DOMAIN memory = {"target"}
    BY <1>3, <2>1 DEF LoadRemoveProduct
  <2>3. PICK e : Remembers(t, e, "remove product", memory)
    BY <2>2, WhatARead
  <2>4. PassesChecks(e, matrixRows)
    BY <1>1, <2>3, WhatTheRowsAre DEF PassesChecks, Remembers
  <2>5. QED
    BY <1>1, <2>3, <2>4, ReadKeeps
<1>4. QED
  BY <1>2, <1>3

LEMMA LoadDescribeKeeps == ASSUME MatrixInv, NEW t \in Tab, LoadDescribe(t) PROVE MatrixInv'
<1>1. product = "live"
  BY DEF LoadDescribe
<1>2. PICK values \in SUBSET {x \in Value : IsDescriptive(x)} : Read(t, "describe", [insert |-> values])
  BY DEF LoadDescribe
<1>3. PICK memory : memory = [insert |-> values]
  OBVIOUS
<1>4. Read(t, "describe", memory) /\ DOMAIN memory = {"insert"} /\ memory.insert = values
  BY <1>2, <1>3
<1>5. PICK e : Remembers(t, e, "describe", memory)
  BY <1>4, WhatARead
<1>6. e.op = "describe" /\ e.insert = values
  BY <1>4, <1>5 DEF Remembers
<1>7. values \subseteq LiveValues
  BY <1>2 DEF IsDescriptive
<1>8. PassesChecks(e, matrixRows)
  BY <1>1, <1>6, <1>7, WhatTheRowsAre DEF PassesChecks
<1>9. QED
  BY <1>1, <1>5, <1>6, <1>8, ReadKeeps

LEMMA InUseOfTheRows == \A values : InUse(values) <=> InUseIn(matrixRows, values)
BY WhatTheRowsAre DEF InUse, InUseIn

LEMMA LoadOfAttributesKeeps ==
    ASSUME MatrixInv, NEW t \in Tab, LoadRemoveValue(t) \/ LoadRemoveAttribute(t) \/ LoadAddValue(t)
    PROVE  MatrixInv'
<1>1. PICK target, op :
        /\ Read(t, op, [target |-> target])
        /\ \/ op = "remove value" /\ target \in LiveValues /\ ~InUse({target})
           \/ op = "remove attribute" /\ target \in Attribute /\ ~InUse(ValuesOf(target))
           \/ op = "add value" /\ target \in Value /\ attribute[AttributeOf[target]] = "live"
  BY DEF LoadRemoveValue, LoadRemoveAttribute, LoadAddValue
<1>2. PICK memory : memory = [target |-> target]
  OBVIOUS
<1>3. Read(t, op, memory) /\ DOMAIN memory = {"target"} /\ memory.target = target
  BY <1>1, <1>2
<1>4. PICK e : Remembers(t, e, op, memory)
  BY <1>3, WhatARead
<1>5. e.op = op /\ e.target = target
  BY <1>3, <1>4 DEF Remembers
<1>6. PassesChecks(e, matrixRows)
  BY <1>1, <1>5, WhatTheRowsAre, InUseOfTheRows DEF PassesChecks, ValuesOf
<1>7. \/ op \in {"remove value", "add value"} /\ target \in Value
      \/ op = "remove attribute" /\ target \in Attribute
  BY <1>1 DEF LiveValues
<1>8. QED
  BY <1>1, <1>4, <1>5, <1>6, <1>7, ReadKeeps DEF BeforeAProduct

-----------------------------------------------------------------------------
\* The writes.

\* A handler that nobody overtook writes over the rows it has checked.
LEMMA WhatAWriteMeets ==
    ASSUME MatrixInv, NEW t \in Tab, NEW ops, Write(t, ops), "none" \notin ops
    PROVE  /\ edit[t] # NoEdit /\ edit[t].op \in ops /\ EditOK(t) /\ edit'[t] = NoEdit
           /\ DOMAIN edit' = Tab /\ \A u \in Tab \ {t} : edit'[u] = edit[u]
           /\ ~Overtaken(t) => PassesChecks(edit[t], matrixRows)
BY DEF MatrixInv, MatrixTypes, Write, Overtaken, NoEdit

LEMMA WriteKeeps ==
    ASSUME MatrixInv, NEW t \in Tab, NEW ops, Write(t, ops), "none" \notin ops,
           product' \in {"none", "live", "removed"},
           variant' \in [Variant -> [there : BOOLEAN, key : SUBSET Value, links : SUBSET Value]],
           value' \in [Value -> {"unborn", "live", "removed"}],
           attribute' \in [Attribute -> {"live", "removed"}],
           described' \subseteq Value, born' \in Nat, born <= born',
           \A v \in There' : v <= born',
           product' = "none" => product = "none" /\ There' = {} /\ described' = {}
    PROVE  MatrixInv'
<1>1. /\ edit'[t] = NoEdit /\ DOMAIN edit' = Tab
      /\ \A u \in Tab \ {t} : edit'[u] = edit[u]
  BY WhatAWriteMeets
<1>2. MatrixTypes /\ born \in Nat
  BY DEF MatrixInv, MatrixTypes
<1>3. \A u \in Tab : EditOK(u)'
  <2>1. EditOK(t)'
    BY <1>1 DEF EditOK
  <2>2. ASSUME NEW u \in Tab \ {t} PROVE EditOK(u)'
    <3>1. EditOK(u) /\ edit'[u] = edit[u]
      BY <1>1, <1>2 DEF MatrixTypes
    <3>2. \A v \in Variant : v <= born => v <= born'
      BY <1>2 DEF Variant
    <3>3. QED
      BY <3>1, <3>2 DEF EditOK
  <2>3. QED
    BY <2>1, <2>2
<1>4. \A u \in Tab : edit'[u].op = "none" \/ PassesChecks(edit'[u], edit'[u].rows)
  BY <1>1 DEF MatrixInv, NoEdit
<1>5. ASSUME product' = "none" PROVE \A u \in Tab : edit'[u].op \in BeforeAProduct
  <2>1. \A u \in Tab : edit[u].op \in BeforeAProduct
    BY <1>5 DEF MatrixInv
  <2>2. edit'[t].op \in BeforeAProduct
    BY <1>1 DEF NoEdit, BeforeAProduct
  <2>3. QED
    BY <1>1, <2>1, <2>2
<1>6. QED
  BY <1>1, <1>3, <1>4, <1>5 DEF MatrixInv, MatrixTypes

\* The rows that are inserted.
InsertedAs(rows, from, combinations, count, list) ==
    /\ count = Cardinality(combinations)
    /\ list \in [1..count -> combinations]
    /\ \A i, j \in 1..count : list[i] = list[j] => i = j
    /\ \A c \in combinations : \E i \in 1..count : list[i] = c
    /\ Inserted(rows, from, combinations)
         = [v \in Variant |-> IF v - from \in 1..count THEN Row(list[v - from]) ELSE rows[v]]

LEMMA WhatIsInserted ==
    ASSUME NEW rows, NEW from \in Nat, NEW combinations \in SUBSET SUBSET Value
    PROVE  \E count \in Nat : \E list : InsertedAs(rows, from, combinations, count, list)
<1>1. IsFiniteSet(combinations)
  BY ValuesAreFinite, FS_SUBSET, FS_Subset
<1>2. PICK count \in Nat : \E list :
        /\ count = Cardinality(combinations) /\ list = SetToSeq(combinations)
        /\ list \in [1..count -> combinations]
        /\ \A i, j \in 1..count : list[i] = list[j] => i = j
        /\ \A c \in combinations : \E i \in 1..count : list[i] = c
  BY <1>1, Listing
<1>3. PICK list :
        /\ count = Cardinality(combinations) /\ list = SetToSeq(combinations)
        /\ list \in [1..count -> combinations]
        /\ \A i, j \in 1..count : list[i] = list[j] => i = j
        /\ \A c \in combinations : \E i \in 1..count : list[i] = c
  BY <1>2
<1>4. Inserted(rows, from, combinations)
        = [v \in Variant |-> IF v - from \in 1..count THEN Row(list[v - from]) ELSE rows[v]]
  BY <1>3 DEF Inserted
<1>5. QED
  BY <1>3, <1>4 DEF InsertedAs

LEMMA InsertTypes ==
    ASSUME NEW rows \in [Variant -> [there : BOOLEAN, key : SUBSET Value, links : SUBSET Value]],
           NEW from \in Nat, NEW combinations \in SUBSET SUBSET Value,
           \A v \in Variant : rows[v].there => v <= from
    PROVE  /\ Inserted(rows, from, combinations) \in [Variant -> [there : BOOLEAN, key : SUBSET Value, links : SUBSET Value]]
           /\ Cardinality(combinations) \in Nat
           /\ \A v \in Variant : Inserted(rows, from, combinations)[v].there => v <= from + Cardinality(combinations)
<1>1. PICK count \in Nat : \E list : InsertedAs(rows, from, combinations, count, list)
  BY WhatIsInserted
<1>2. PICK list :
        /\ count = Cardinality(combinations)
        /\ list \in [1..count -> combinations]
        /\ Inserted(rows, from, combinations)
             = [v \in Variant |-> IF v - from \in 1..count THEN Row(list[v - from]) ELSE rows[v]]
  BY <1>1 DEF InsertedAs
<1>3. PICK new : new = Inserted(rows, from, combinations)
  OBVIOUS
<1>4. \A c \in SUBSET Value : Row(c) \in [there : BOOLEAN, key : SUBSET Value, links : SUBSET Value]
  BY DEF Row
<1>5. \A v \in Variant : new[v] = IF v - from \in 1..count THEN Row(list[v - from]) ELSE rows[v]
  BY <1>2, <1>3
<1>6. new \in [Variant -> [there : BOOLEAN, key : SUBSET Value, links : SUBSET Value]]
  BY <1>2, <1>3, <1>4
<1>7. ASSUME NEW v \in Variant, new[v].there PROVE v <= from + count
  <2>1. v \in Int
    BY DEF Variant
  <2>2. CASE v - from \in 1..count
    BY <2>1, <2>2
  <2>3. CASE v - from \notin 1..count
    <3>1. v <= from
      BY <1>5, <1>7, <2>3
    <3>2. QED
      BY <2>1, <3>1
  <2>4. QED
    BY <2>2, <2>3
<1>8. QED
  BY <1>2, <1>3, <1>6, <1>7

\* Inserted beside the rows there are, they give the matrix that was checked.
LEMMA InsertedMatrix ==
    ASSUME NEW r, NEW s, NEW from \in Nat, NEW combinations \in SUBSET SUBSET Value,
           MaxIds \in Nat, from + Cardinality(combinations) <= MaxIds,
           \A v \in Variant : r[2][v].there => v <= from,
           s[2] = Inserted(r[2], from, combinations), s[3] = r[3], s[4] = r[4],
           ValidIn(r, Joined(r, combinations)), MaxVariants \in Nat
    PROVE  /\ ValidIn(s, ExistingIn(s))
           /\ (\A v \in ThereIn(r) : LinkedIn(r, v) \subseteq LiveIn(r))
                => \A v \in ThereIn(s) : LinkedIn(s, v) \subseteq LiveIn(s)
<1>1. PICK count \in Nat : \E list : InsertedAs(r[2], from, combinations, count, list)
  BY WhatIsInserted
<1>2. PICK list :
        /\ count = Cardinality(combinations)
        /\ list \in [1..count -> combinations]
        /\ \A i, j \in 1..count : list[i] = list[j] => i = j
        /\ \A c \in combinations : \E i \in 1..count : list[i] = c
        /\ s[2] = [v \in Variant |-> IF v - from \in 1..count THEN Row(list[v - from]) ELSE r[2][v]]
  BY <1>1 DEF InsertedAs
<1>3. Variant = 1..MaxIds /\ from + count <= MaxIds
  BY <1>2 DEF Variant
<1>4. LiveIn(s) = LiveIn(r)
  BY DEF LiveIn
<1>5. /\ \A v \in ThereIn(r) : v \in 1..MaxIds /\ v <= from /\ s[2][v] = r[2][v] /\ v \in ThereIn(s)
      /\ \A i \in 1..count : from + i \in Variant /\ s[2][from + i] = Row(list[i]) /\ from + i \in ThereIn(s)
      /\ \A v \in ThereIn(s) : v \in ThereIn(r) \/ (v > from /\ \E i \in 1..count : v = from + i)
  <2>1. ASSUME NEW v \in ThereIn(r) PROVE v \in 1..MaxIds /\ v <= from /\ s[2][v] = r[2][v] /\ v \in ThereIn(s)
    <3>1. v \in 1..MaxIds /\ v <= from /\ r[2][v].there
      BY <1>3 DEF ThereIn
    <3>2. v - from \notin 1..count
      BY <3>1
    <3>3. s[2][v] = r[2][v]
      BY <1>2, <1>3, <3>1, <3>2
    <3>4. QED
      BY <1>3, <3>1, <3>3 DEF ThereIn
  <2>2. ASSUME NEW i \in 1..count
        PROVE  from + i \in Variant /\ s[2][from + i] = Row(list[i]) /\ from + i \in ThereIn(s)
    <3>1. from + i \in 1..MaxIds /\ (from + i) - from = i
      BY <1>3
    <3>2. s[2][from + i] = Row(list[i])
      BY <1>2, <1>3, <3>1
    <3>3. QED
      BY <1>3, <3>1, <3>2 DEF ThereIn, Row
  <2>3. ASSUME NEW v \in ThereIn(s) PROVE v \in ThereIn(r) \/ (v > from /\ \E i \in 1..count : v = from + i)
    <3>1. v \in 1..MaxIds /\ v \in Variant /\ s[2][v].there
      BY <1>3 DEF ThereIn
    <3>2. CASE v - from \in 1..count
      <4>1. v = from + (v - from) /\ v > from
        BY <3>1, <3>2
      <4>2. QED
        BY <3>2, <4>1
    <3>3. CASE v - from \notin 1..count
      BY <1>2, <3>1, <3>3 DEF ThereIn
    <3>4. QED
      BY <3>2, <3>3
  <2>4. QED
    BY <2>1, <2>2, <2>3
<1>6. PICK m : m = Joined(r, combinations)
  OBVIOUS
<1>7. DOMAIN m = Names(r, combinations) /\ ValidIn(r, m) /\ ValidIn(s, m)
  BY <1>4, <1>6 DEF Joined, ValidIn, CombinationIn
<1>8. \A c \in combinations : <<"new", c>> \in DOMAIN m /\ m[<<"new", c>>] = c /\ c \subseteq LiveIn(r)
  <2>1. \A c \in combinations : <<"new", c>> \in Names(r, combinations) /\ <<"new", c>>[1] # "row" /\ <<"new", c>>[2] = c
    BY DEF Names
  <2>2. \A c \in combinations : m[<<"new", c>>] = c
    BY <1>6, <2>1 DEF Joined
  <2>3. \A c \in combinations : CombinationIn(r, m[<<"new", c>>])
    BY <1>7, <2>1 DEF ValidIn
  <2>4. QED
    BY <1>7, <2>1, <2>2, <2>3 DEF CombinationIn
<1>9. \A v \in ThereIn(r) : <<"row", v>> \in DOMAIN m /\ m[<<"row", v>>] = ExistingIn(r)[v]
  <2>1. \A v \in ThereIn(r) : <<"row", v>> \in Names(r, combinations) /\ <<"row", v>>[1] = "row" /\ <<"row", v>>[2] = v
    BY DEF Names
  <2>2. QED
    BY <1>6, <1>7, <2>1 DEF Joined
<1>10. PICK g : g = [v \in ThereIn(s) |-> IF v \in ThereIn(r) THEN <<"row", v>> ELSE <<"new", list[v - from]>>]
  OBVIOUS
<1>11. PICK n : n = ExistingIn(s)
  OBVIOUS
<1>12. DOMAIN n = ThereIn(s)
  BY <1>11 DEF ExistingIn
<1>13. \A i \in 1..count : /\ g[from + i] = <<"new", list[i]>> /\ list[i] \in combinations
                           /\ n[from + i] = list[i]
  <2> TAKE i \in 1..count
  <2>1. from + i \in ThereIn(s) /\ (from + i) - from = i /\ from + i \notin ThereIn(r)
    <3>1. ~(from + i <= from)
      OBVIOUS
    <3>2. QED
      BY <1>5, <3>1
  <2>2. list[i] \in combinations
    BY <1>2
  <2>3. g[from + i] = <<"new", list[i]>>
    BY <1>10, <2>1
  <2>4. LinkedIn(s, from + i) = list[i]
    <3>1. \A c : Row(c).links = c
      BY DEF Row
    <3>2. s[2][from + i] = Row(list[i])
      BY <1>5
    <3>3. QED
      BY <3>1, <3>2 DEF LinkedIn
  <2>5. n[from + i] = list[i] \cap LiveIn(s)
    BY <1>11, <2>1, <2>4 DEF ExistingIn
  <2>6. QED
    BY <1>4, <1>8, <2>2, <2>3, <2>5
<1>14. \A v \in ThereIn(r) : g[v] = <<"row", v>> /\ n[v] = ExistingIn(r)[v]
  BY <1>4, <1>5, <1>10, <1>11 DEF ExistingIn, LinkedIn
<1>15. Renames(g, n, m)
  <2>1. ASSUME NEW v \in ThereIn(s) PROVE g[v] \in DOMAIN m /\ n[v] = m[g[v]]
    <3>1. CASE v \in ThereIn(r)
      BY <1>9, <1>14, <3>1
    <3>2. CASE v \notin ThereIn(r)
      <4>1. PICK i \in 1..count : v = from + i
        BY <1>5, <3>2
      <4>2. QED
        BY <1>8, <1>13, <4>1
    <3>3. QED
      BY <3>1, <3>2
  <2>2. ASSUME NEW v \in ThereIn(s), NEW w \in ThereIn(s), g[v] = g[w] PROVE v = w
    <3>1. CASE v \in ThereIn(r) /\ w \in ThereIn(r)
      <4>1. <<"row", v>> = <<"row", w>>
        BY <1>14, <2>2, <3>1
      <4>2. QED
        BY <4>1
    <3>2. CASE v \notin ThereIn(r) /\ w \notin ThereIn(r)
      <4>1. PICK i \in 1..count : v = from + i
        BY <1>5, <3>2
      <4>2. PICK j \in 1..count : w = from + j
        BY <1>5, <3>2
      <4>3. <<"new", list[i]>> = <<"new", list[j]>>
        BY <1>13, <2>2, <4>1, <4>2
      <4>4. list[i] = list[j]
        BY <4>3
      <4>5. QED
        BY <1>2, <4>1, <4>2, <4>4
    <3>3. CASE ~(v \in ThereIn(r) <=> w \in ThereIn(r))
      <4>1. \A x \in ThereIn(s) : IF x \in ThereIn(r) THEN g[x] = <<"row", x>> ELSE g[x] = <<"new", list[x - from]>>
        BY <1>10
      <4>2. \A x, y : <<"row", x>> # <<"new", y>>
        OBVIOUS
      <4>3. QED
        BY <2>2, <3>3, <4>1, <4>2
    <3>4. QED
      BY <3>1, <3>2, <3>3
  <2>3. ASSUME NEW d \in DOMAIN m PROVE \E v \in ThereIn(s) : g[v] = d
    <3>1. CASE d \in {"row"} \X ThereIn(r)
      BY <1>5, <1>14, <3>1
    <3>2. CASE d \in {"new"} \X combinations
      <4>1. PICK c \in combinations : d = <<"new", c>>
        BY <3>2
      <4>2. PICK i \in 1..count : list[i] = c
        BY <1>2
      <4>3. QED
        BY <1>5, <1>13, <4>1, <4>2
    <3>3. QED
      BY <1>7, <3>1, <3>2 DEF Names
  <2>4. DOMAIN g = ThereIn(s)
    BY <1>10
  <2>5. g \in [ThereIn(s) -> DOMAIN m]
    BY <1>10, <2>1
  <2>6. QED
    BY <1>12, <2>1, <2>2, <2>3, <2>5 DEF Renames
<1>16. IsFiniteSet(DOMAIN m)
  <2>1. IsFiniteSet(ThereIn(r)) /\ IsFiniteSet(combinations)
    <3>1. IsFiniteSet(Variant) /\ ThereIn(r) \subseteq Variant
      BY FS_Interval DEF Variant, ThereIn
    <3>2. QED
      BY <3>1, ValuesAreFinite, FS_SUBSET, FS_Subset
  <2>2. IsFiniteSet({"row"}) /\ IsFiniteSet({"new"})
    BY FS_Singleton
  <2>3. IsFiniteSet({"row"} \X ThereIn(r)) /\ IsFiniteSet({"new"} \X combinations)
    BY <2>1, <2>2, FS_Product
  <2>4. PICK a, b : a = {"row"} \X ThereIn(r) /\ b = {"new"} \X combinations
    OBVIOUS
  <2>5. IsFiniteSet(a \cup b)
    BY <2>3, <2>4, FS_Union
  <2>6. QED
    BY <1>7, <2>4, <2>5 DEF Names
<1>17. ValidIn(s, ExistingIn(s))
  BY <1>7, <1>11, <1>15, <1>16, RenamedMatrix
<1>18. ASSUME \A v \in ThereIn(r) : LinkedIn(r, v) \subseteq LiveIn(r), NEW v \in ThereIn(s)
       PROVE  LinkedIn(s, v) \subseteq LiveIn(s)
  <2>1. CASE v \in ThereIn(r)
    BY <1>4, <1>5, <1>18, <2>1 DEF LinkedIn
  <2>2. CASE v \notin ThereIn(r)
    <3>1. PICK i \in 1..count : v = from + i
      BY <1>5, <2>2
    <3>2. \A c : Row(c).links = c
      BY DEF Row
    <3>3. list[i] \in combinations /\ LinkedIn(s, v) = list[i]
      BY <1>5, <1>13, <3>1, <3>2 DEF LinkedIn
    <3>4. PICK c \in combinations : c = LinkedIn(s, v)
      BY <3>3
    <3>5. c \subseteq LiveIn(r)
      BY <1>8
    <3>6. QED
      BY <1>4, <3>4, <3>5
  <2>3. QED
    BY <2>1, <2>2
<1>19. QED
  BY <1>17, <1>18

-----------------------------------------------------------------------------
\* What the writes make of sound rows.

LEMMA SameMatrixIsSound ==
    ASSUME NEW r, NEW s, SoundIn(r), ThereIn(s) = ThereIn(r), s[1] = r[1], s[3] = r[3], s[4] = r[4],
           r[1] = "live" => s[5] \subseteq LiveIn(r),
           \A v \in ThereIn(r) : LinkedIn(s, v) = LinkedIn(r, v)
    PROVE  SoundIn(s)
<1>1. LiveIn(s) = LiveIn(r) /\ ExistingIn(s) = ExistingIn(r)
  BY DEF LiveIn, ExistingIn
<1>2. \A m : ValidIn(s, m) <=> ValidIn(r, m)
  BY <1>1 DEF ValidIn, CombinationIn
<1>3. QED
  BY <1>1, <1>2 DEF SoundIn

\* Values go that nothing is described with and no variant is made of.
LEMMA FewerValuesAreSound ==
    ASSUME NEW r, NEW s, NEW gone, SoundIn(r), ~InUseIn(r, gone), LiveIn(s) = LiveIn(r) \ gone,
           s[1] = r[1], s[2] = r[2], s[5] = r[5],
           \A x \in LiveIn(s) : s[4][AttributeOf[x]] = r[4][AttributeOf[x]]
    PROVE  SoundIn(s)
<1>1. ThereIn(s) = ThereIn(r) /\ \A v : LinkedIn(s, v) = LinkedIn(r, v)
  BY DEF ThereIn, LinkedIn
<1>2. CASE r[1] = "live"
  <2>1. /\ r[5] \cap gone = {} /\ \A v \in ThereIn(r) : LinkedIn(r, v) \cap gone = {}
    BY <1>2 DEF InUseIn
  <2>2. /\ ValidIn(r, ExistingIn(r)) /\ r[5] \subseteq LiveIn(r)
        /\ \A v \in ThereIn(r) : LinkedIn(r, v) \subseteq LiveIn(r)
    BY <1>2 DEF SoundIn
  <2>3. s[5] \subseteq LiveIn(s) /\ \A v \in ThereIn(s) : LinkedIn(s, v) \subseteq LiveIn(s)
    BY <1>1, <2>1, <2>2
  <2>4. \A v \in ThereIn(r) : LinkedIn(r, v) \cap LiveIn(s) = LinkedIn(r, v) \cap LiveIn(r)
    BY <2>1
  <2>5. ExistingIn(s) = ExistingIn(r)
    BY <1>1, <2>4 DEF ExistingIn
  <2>6. \A v \in ThereIn(r) : ExistingIn(r)[v] \subseteq LiveIn(s)
    BY <2>4 DEF ExistingIn
  <2>7. \A v \in DOMAIN ExistingIn(r) : CombinationIn(s, ExistingIn(r)[v])
    <3>1. DOMAIN ExistingIn(r) = ThereIn(r)
      BY DEF ExistingIn
    <3>2. QED
      BY <2>2, <2>6, <3>1 DEF ValidIn, CombinationIn
  <2>8. ValidIn(s, ExistingIn(s))
    BY <2>2, <2>5, <2>7 DEF ValidIn
  <2>9. QED
    BY <2>3, <2>8 DEF SoundIn
<1>3. CASE r[1] # "live"
  BY <1>3 DEF SoundIn
<1>4. QED
  BY <1>2, <1>3

LEMMA MoreValuesAreSound ==
    ASSUME NEW r, NEW s, NEW x, SoundIn(r), LiveIn(s) = LiveIn(r) \cup {x},
           s[1] = r[1], s[2] = r[2], s[4] = r[4], s[5] = r[5], r[4][AttributeOf[x]] = "live"
    PROVE  SoundIn(s)
<1>1. ThereIn(s) = ThereIn(r) /\ \A v : LinkedIn(s, v) = LinkedIn(r, v)
  BY DEF ThereIn, LinkedIn
<1>2. CASE r[1] = "live"
  <2>1. /\ ValidIn(r, ExistingIn(r)) /\ r[5] \subseteq LiveIn(r)
        /\ \A v \in ThereIn(r) : LinkedIn(r, v) \subseteq LiveIn(r)
    BY <1>2 DEF SoundIn
  <2>2. \A v \in ThereIn(r) : LinkedIn(r, v) \cap LiveIn(s) = LinkedIn(r, v) \cap LiveIn(r)
    BY <2>1
  <2>3. ExistingIn(s) = ExistingIn(r)
    BY <1>1, <2>2 DEF ExistingIn
  <2>4. ValidIn(s, ExistingIn(s))
    BY <2>1, <2>3 DEF ValidIn, CombinationIn
  <2>5. QED
    BY <1>1, <2>1, <2>4 DEF SoundIn
<1>3. CASE r[1] # "live"
  BY <1>3 DEF SoundIn
<1>4. QED
  BY <1>2, <1>3

\* A row goes that is not the only one.
LEMMA FewerRowsAreSound ==
    ASSUME NEW r, NEW s, NEW v, SoundIn(r), v \in ThereIn(r), Cardinality(ThereIn(r)) # 1,
           ThereIn(s) = ThereIn(r) \ {v}, \A w \in ThereIn(s) : LinkedIn(s, w) = LinkedIn(r, w),
           s[1] = r[1], s[3] = r[3], s[4] = r[4], s[5] = r[5], MaxVariants \in Nat, MaxIds \in Nat
    PROVE  SoundIn(s)
<1>1. LiveIn(s) = LiveIn(r)
  BY DEF LiveIn
<1>2. \A m : ValidIn(s, m) <=> ValidIn(r, m)
  BY <1>1 DEF ValidIn, CombinationIn
<1>3. CASE r[1] = "live"
  <2>1. /\ ValidIn(r, ExistingIn(r)) /\ r[5] \subseteq LiveIn(r)
        /\ \A w \in ThereIn(r) : LinkedIn(r, w) \subseteq LiveIn(r)
    BY <1>3 DEF SoundIn
  <2>2. PICK m, n : m = ExistingIn(r) /\ n = ExistingIn(s)
    OBVIOUS
  <2>3. DOMAIN m = ThereIn(r) /\ DOMAIN n = ThereIn(s)
    BY <2>2 DEF ExistingIn
  <2>4. IsFiniteSet(DOMAIN m)
    <3>1. IsFiniteSet(Variant) /\ ThereIn(r) \subseteq Variant
      BY FS_Interval DEF Variant, ThereIn
    <3>2. QED
      BY <2>3, <3>1, FS_Subset
  <2>5. DOMAIN n # {}
    <3>1. ThereIn(r) # {v}
      BY FS_Singleton
    <3>2. QED
      BY <2>3, <3>1
  <2>6. \A w \in DOMAIN n : n[w] = m[w]
    BY <1>1, <2>2, <2>3 DEF ExistingIn
  <2>7. ValidIn(r, n)
    BY <2>1, <2>2, <2>3, <2>4, <2>5, <2>6, SmallerMatrix
  <2>8. QED
    BY <1>1, <1>2, <2>1, <2>2, <2>7 DEF SoundIn
<1>4. CASE r[1] # "live"
  BY <1>1, <1>4 DEF SoundIn
<1>5. QED
  BY <1>3, <1>4

\* A product's first variants are the matrix that was checked for it.
LEMMA FirstMatrix ==
    ASSUME NEW r, NEW combinations \in SUBSET SUBSET Value, ThereIn(r) = {},
           ValidIn(r, [c \in combinations |-> c])
    PROVE  ValidIn(r, Joined(r, combinations))
<1>1. PICK m, n : m = [c \in combinations |-> c] /\ n = Joined(r, combinations)
  OBVIOUS
<1>2. PICK g : g = [e \in Names(r, combinations) |-> e[2]]
  OBVIOUS
<1>3. /\ \A e \in Names(r, combinations) : \E c \in combinations : e = <<"new", c>>
      /\ \A c \in combinations : <<"new", c>> \in Names(r, combinations)
  BY DEF Names
<1>4. \A c \in combinations : <<"new", c>>[2] = c /\ <<"new", c>>[1] # "row"
  OBVIOUS
<1>5. \A c \in combinations : g[<<"new", c>>] = c /\ n[<<"new", c>>] = c /\ m[c] = c
  BY <1>1, <1>2, <1>3, <1>4 DEF Joined
<1>6. DOMAIN m = combinations /\ DOMAIN n = Names(r, combinations) /\ DOMAIN g = Names(r, combinations)
  BY <1>1, <1>2 DEF Joined
<1>7. \A e \in Names(r, combinations) : g[e] \in combinations /\ n[e] = m[g[e]]
  BY <1>3, <1>5
<1>8. g \in [Names(r, combinations) -> combinations]
  BY <1>2, <1>7
<1>9. \A e, f \in Names(r, combinations) : g[e] = g[f] => e = f
  BY <1>3, <1>5
<1>10. Renames(g, n, m)
  BY <1>3, <1>5, <1>6, <1>7, <1>8, <1>9 DEF Renames
<1>11. IsFiniteSet(combinations)
  BY ValuesAreFinite, FS_SUBSET, FS_Subset
<1>12. QED
  BY <1>1, <1>6, <1>10, <1>11, RenamedMatrix

-----------------------------------------------------------------------------
\* Each write keeps the invariant, and sound rows sound unless it was overtaken.

RowType == [there : BOOLEAN, key : SUBSET Value, links : SUBSET Value]

LEMMA UpdateRowKeeps ==
    ASSUME MatrixInv, NEW t \in Tab, UpdateRow(t)
    PROVE  MatrixInv' /\ (Sound /\ ~Overtaken(t) => Sound')
<1>1. Write(t, {"update"}) /\ UNCHANGED <<product, value, attribute, described, born>>
  BY DEF UpdateRow
<1>2. /\ edit[t] # NoEdit /\ edit[t].op = "update" /\ EditOK(t)
      /\ ~Overtaken(t) => PassesChecks(edit[t], matrixRows)
  BY <1>1, WhatAWriteMeets
<1>3. PICK v, links, key : v = edit[t].target /\ links = edit[t].links /\ key = edit[t].key
  OBVIOUS
<1>4. v \in Variant /\ v <= born /\ links \in SUBSET Value /\ key \in SUBSET Value
  BY <1>2, <1>3 DEF EditOK
<1>5. variant' = [variant EXCEPT ![v] = [there |-> TRUE, key |-> key, links |-> links]] \/ variant' = variant
  BY <1>3 DEF UpdateRow
<1>6. /\ variant \in [Variant -> RowType] /\ born \in Nat /\ product # "none"
      /\ \A w \in Variant : variant[w].there => w <= born
  BY <1>2 DEF MatrixInv, MatrixTypes, RowType, BeforeAProduct, There
<1>7. [there |-> TRUE, key |-> key, links |-> links] \in RowType
  BY <1>4 DEF RowType
<1>8. variant' \in [Variant -> RowType] /\ \A w \in Variant : variant'[w].there => w <= born
  BY <1>4, <1>5, <1>6, <1>7
<1>9. MatrixInv'
  BY <1>1, <1>6, <1>8, WriteKeeps DEF MatrixInv, MatrixTypes, There, RowType
<1>10. ASSUME Sound, ~Overtaken(t) PROVE Sound'
  <2>1. PICK r, s : r = matrixRows /\ s = matrixRows'
    OBVIOUS
  <2>2. SoundIn(r) /\ PassesChecks(edit[t], r)
    BY <1>2, <1>10, <2>1, SoundnessOfTheRows
  <2>3. /\ r[1] = product /\ r[2] = variant /\ s[1] = r[1] /\ s[2] = variant'
        /\ s[3] = r[3] /\ s[4] = r[4] /\ s[5] = r[5]
    BY <1>1, <2>1 DEF matrixRows
  <2>4. r[1] = "live" /\ v \in ThereIn(r) /\ links = ExistingIn(r)[v]
    BY <1>2, <1>3, <2>2 DEF PassesChecks
  <2>5. /\ LinkedIn(r, v) \subseteq LiveIn(r) /\ r[5] \subseteq LiveIn(r)
    BY <2>2, <2>4 DEF SoundIn
  <2>6. links = LinkedIn(r, v)
    BY <2>4, <2>5 DEF ExistingIn
  <2>7. \A w \in Variant : s[2][w].there = r[2][w].there /\ s[2][w].links = r[2][w].links
    <3>1. r[2][v].there /\ links = r[2][v].links
      BY <2>4, <2>6 DEF ThereIn, LinkedIn
    <3>2. r[2][v].there \in BOOLEAN
      BY <1>4, <1>6, <2>3 DEF RowType
    <3>3. variant'[v].there = variant[v].there /\ variant'[v].links = variant[v].links
      <4>1. CASE variant' = variant
        BY <4>1
      <4>2. CASE variant' = [variant EXCEPT ![v] = [there |-> TRUE, key |-> key, links |-> links]]
        <5>1. variant'[v] = [there |-> TRUE, key |-> key, links |-> links]
          BY <1>4, <1>6, <4>2
        <5>2. variant'[v].there = TRUE /\ variant'[v].links = links
          BY <5>1
        <5>3. variant[v].there = TRUE /\ variant[v].links = links
          BY <2>3, <3>1, <3>2
        <5>4. QED
          BY <5>2, <5>3
      <4>3. QED
        BY <1>5, <4>1, <4>2
    <3>4. \A w \in Variant \ {v} : variant'[w] = variant[w]
      BY <1>5, <1>6
    <3>5. QED
      BY <2>3, <3>3, <3>4
  <2>8. ThereIn(s) = ThereIn(r) /\ \A w \in ThereIn(r) : LinkedIn(s, w) = LinkedIn(r, w)
    BY <2>7 DEF ThereIn, LinkedIn
  <2>9. SoundIn(s)
    BY <2>2, <2>3, <2>5, <2>8, SameMatrixIsSound
  <2>10. QED
    BY <2>1, <2>9, SoundnessAfterwards
<1>11. QED
  BY <1>9, <1>10

LEMMA RemoveRowKeeps ==
    ASSUME MatrixInv, NEW t \in Tab, RemoveRow(t)
    PROVE  MatrixInv' /\ (Sound /\ ~Overtaken(t) => Sound')
<1>1. Write(t, {"remove"}) /\ UNCHANGED <<product, value, attribute, described, born>>
  BY DEF RemoveRow
<1>2. /\ edit[t] # NoEdit /\ edit[t].op = "remove" /\ EditOK(t)
      /\ ~Overtaken(t) => PassesChecks(edit[t], matrixRows)
  BY <1>1, WhatAWriteMeets
<1>3. PICK v : v = edit[t].target
  OBVIOUS
<1>4. v \in Variant /\ variant' = [variant EXCEPT ![v] = Absent]
  BY <1>2, <1>3 DEF EditOK, RemoveRow
<1>5. /\ variant \in [Variant -> RowType] /\ born \in Nat /\ product # "none"
      /\ \A w \in Variant : variant[w].there => w <= born
  BY <1>2 DEF MatrixInv, MatrixTypes, RowType, BeforeAProduct, There
<1>6. Absent \in RowType /\ Absent.there = FALSE
  BY DEF RowType, Absent
<1>7. /\ variant' \in [Variant -> RowType] /\ ~variant'[v].there
      /\ \A w \in Variant \ {v} : variant'[w] = variant[w]
  BY <1>4, <1>5, <1>6
<1>8. MatrixInv'
  BY <1>1, <1>5, <1>7, WriteKeeps DEF MatrixInv, MatrixTypes, There, RowType
<1>9. ASSUME Sound, ~Overtaken(t) PROVE Sound'
  <2>1. PICK r, s : r = matrixRows /\ s = matrixRows'
    OBVIOUS
  <2>2. SoundIn(r) /\ PassesChecks(edit[t], r)
    BY <1>2, <1>9, <2>1, SoundnessOfTheRows
  <2>3. /\ r[2] = variant /\ s[1] = r[1] /\ s[2] = variant'
        /\ s[3] = r[3] /\ s[4] = r[4] /\ s[5] = r[5]
    BY <1>1, <2>1 DEF matrixRows
  <2>4. v \in ThereIn(r) /\ Cardinality(ThereIn(r)) # 1
    BY <1>2, <1>3, <2>2 DEF PassesChecks
  <2>5. ThereIn(s) = ThereIn(r) \ {v} /\ \A w \in ThereIn(s) : LinkedIn(s, w) = LinkedIn(r, w)
    BY <1>4, <1>7, <2>3 DEF ThereIn, LinkedIn
  <2>6. SoundIn(s)
    BY <2>2, <2>3, <2>4, <2>5, FewerRowsAreSound, MatrixBounds
  <2>7. QED
    BY <2>1, <2>6, SoundnessAfterwards
<1>10. QED
  BY <1>8, <1>9

LEMMA DescribeKeeps ==
    ASSUME MatrixInv, NEW t \in Tab, Describe(t)
    PROVE  MatrixInv' /\ (Sound /\ ~Overtaken(t) => Sound')
<1>1. Write(t, {"describe"}) /\ UNCHANGED <<variant, value, attribute, born>>
  BY DEF Describe
<1>2. /\ edit[t] # NoEdit /\ edit[t].op = "describe" /\ EditOK(t)
      /\ ~Overtaken(t) => PassesChecks(edit[t], matrixRows)
  BY <1>1, WhatAWriteMeets
<1>3. described' = edit[t].insert /\ product' = "live" /\ edit[t].insert \in SUBSET Value
  BY <1>2 DEF EditOK, Describe
<1>4. There' = There /\ born \in Nat
  BY <1>1 DEF There, MatrixInv, MatrixTypes
<1>5. MatrixInv'
  BY <1>1, <1>3, <1>4, WriteKeeps DEF MatrixInv, MatrixTypes
<1>6. ASSUME Sound, ~Overtaken(t) PROVE Sound'
  <2>1. PICK r, s : r = matrixRows /\ s = matrixRows'
    OBVIOUS
  <2>2. SoundIn(r) /\ PassesChecks(edit[t], r)
    BY <1>2, <1>6, <2>1, SoundnessOfTheRows
  <2>3. s[1] = "live" /\ s[2] = r[2] /\ s[3] = r[3] /\ s[4] = r[4] /\ s[5] = edit[t].insert
    BY <1>1, <1>3, <2>1 DEF matrixRows
  <2>4. r[1] = "live" /\ edit[t].insert \subseteq LiveIn(r)
    BY <1>2, <2>2 DEF PassesChecks
  <2>5. ThereIn(s) = ThereIn(r) /\ \A w : LinkedIn(s, w) = LinkedIn(r, w)
    BY <2>3 DEF ThereIn, LinkedIn
  <2>6. SoundIn(s)
    BY <2>2, <2>3, <2>4, <2>5, SameMatrixIsSound
  <2>7. QED
    BY <2>1, <2>6, SoundnessAfterwards
<1>7. QED
  BY <1>5, <1>6

LEMMA RemoveProductKeeps ==
    ASSUME MatrixInv, NEW t \in Tab, RemoveProduct(t)
    PROVE  MatrixInv' /\ (Sound => Sound')
<1>0. "none" \notin {"remove product"}
  OBVIOUS
<1>1. Write(t, {"remove product"})
  BY DEF RemoveProduct
<1>a. /\ UNCHANGED <<value, attribute, described, born>>
      /\ product' = "removed" /\ variant' = NoVariants
  BY DEF RemoveProduct
<1>2. variant' \in [Variant -> RowType] /\ There' = {}
  BY <1>a DEF NoVariants, Absent, RowType, There
<1>3. born \in Nat
  BY DEF MatrixInv, MatrixTypes
<1>4. MatrixInv'
  <2>1. /\ product \in {"none", "live", "removed"} /\ described \subseteq Value /\ born \in Nat
        /\ variant \in [Variant -> RowType] /\ value \in [Value -> {"unborn", "live", "removed"}]
        /\ attribute \in [Attribute -> {"live", "removed"}]
    BY DEF MatrixInv, MatrixTypes, RowType
  <2>2. product' \in {"none", "live", "removed"} /\ described' \subseteq Value /\ born' \in Nat /\ born <= born'
    BY <1>a, <1>2, <1>3, <2>1
  <2>3. variant' \in [Variant -> RowType] /\ value' \in [Value -> {"unborn", "live", "removed"}]
    BY <1>a, <1>2, <1>3, <2>1
  <2>4. attribute' \in [Attribute -> {"live", "removed"}]
    BY <1>a, <1>2, <1>3, <2>1
  <2>5. /\ \A v \in There' : v <= born'
        /\ product' = "none" => product = "none" /\ There' = {} /\ described' = {}
    BY <1>a, <1>2, <1>3 DEF MatrixInv, MatrixTypes
  <2>6. QED
    BY <1>0, <1>1, <2>2, <2>3, <2>4, <2>5, WriteKeeps DEF RowType
<1>5. QED
  BY <1>a, <1>4 DEF Sound, LiveValues

LEMMA RemoveValueKeeps ==
    ASSUME MatrixInv, NEW t \in Tab, RemoveValue(t)
    PROVE  MatrixInv' /\ (Sound /\ ~Overtaken(t) => Sound')
<1>0. "none" \notin {"remove value"}
  OBVIOUS
<1>1. Write(t, {"remove value"})
  BY DEF RemoveValue
<1>a. UNCHANGED <<product, variant, attribute, described, born>>
  BY DEF RemoveValue
<1>2. /\ edit[t] # NoEdit /\ edit[t].op = "remove value" /\ EditOK(t)
      /\ ~Overtaken(t) => PassesChecks(edit[t], matrixRows)
  BY <1>0, <1>1, WhatAWriteMeets
<1>3. PICK x : x = edit[t].target
  OBVIOUS
<1>4. x \in Value /\ value' = [value EXCEPT ![x] = "removed"]
  BY <1>2, <1>3 DEF EditOK, RemoveValue
<1>5. There' = There /\ born \in Nat /\ value \in [Value -> {"unborn", "live", "removed"}]
  BY <1>a DEF There, MatrixInv, MatrixTypes
<1>6. value' \in [Value -> {"unborn", "live", "removed"}]
  BY <1>4, <1>5
<1>7. MatrixInv'
  <2>1. /\ product \in {"none", "live", "removed"} /\ described \subseteq Value /\ born \in Nat
        /\ variant \in [Variant -> RowType] /\ value \in [Value -> {"unborn", "live", "removed"}]
        /\ attribute \in [Attribute -> {"live", "removed"}]
    BY DEF MatrixInv, MatrixTypes, RowType
  <2>2. product' \in {"none", "live", "removed"} /\ described' \subseteq Value /\ born' \in Nat /\ born <= born'
    BY <1>a, <1>5, <1>6, <2>1
  <2>3. variant' \in [Variant -> RowType] /\ value' \in [Value -> {"unborn", "live", "removed"}]
    BY <1>a, <1>5, <1>6, <2>1
  <2>4. attribute' \in [Attribute -> {"live", "removed"}]
    BY <1>a, <1>5, <1>6, <2>1
  <2>5. /\ \A v \in There' : v <= born'
        /\ product' = "none" => product = "none" /\ There' = {} /\ described' = {}
    BY <1>a, <1>5, <1>6 DEF MatrixInv, MatrixTypes
  <2>6. QED
    BY <1>0, <1>1, <2>2, <2>3, <2>4, <2>5, WriteKeeps DEF RowType
<1>8. ASSUME Sound, ~Overtaken(t) PROVE Sound'
  <2>1. PICK r, s : r = matrixRows /\ s = matrixRows'
    OBVIOUS
  <2>2. SoundIn(r) /\ PassesChecks(edit[t], r)
    BY <1>2, <1>8, <2>1, SoundnessOfTheRows
  <2>3. /\ s[1] = r[1] /\ s[2] = r[2] /\ r[3] = value /\ s[3] = value' /\ s[4] = r[4] /\ s[5] = r[5]
    BY <1>a, <2>1 DEF matrixRows
  <2>4. ~InUseIn(r, {x})
    BY <1>2, <1>3, <2>2 DEF PassesChecks
  <2>5. LiveIn(s) = LiveIn(r) \ {x}
    BY <1>4, <1>5, <2>3 DEF LiveIn
  <2>6. SoundIn(s)
    BY <2>2, <2>3, <2>4, <2>5, FewerValuesAreSound
  <2>7. QED
    BY <2>1, <2>6, SoundnessAfterwards
<1>9. QED
  BY <1>7, <1>8

LEMMA RemoveAttributeKeeps ==
    ASSUME MatrixInv, NEW t \in Tab, RemoveAttribute(t)
    PROVE  MatrixInv' /\ (Sound /\ ~Overtaken(t) => Sound')
<1>0. "none" \notin {"remove attribute"}
  OBVIOUS
<1>1. Write(t, {"remove attribute"})
  BY DEF RemoveAttribute
<1>a. UNCHANGED <<product, variant, described, born>>
  BY DEF RemoveAttribute
<1>2. /\ edit[t] # NoEdit /\ edit[t].op = "remove attribute" /\ EditOK(t)
      /\ ~Overtaken(t) => PassesChecks(edit[t], matrixRows)
  BY <1>0, <1>1, WhatAWriteMeets
<1>3. PICK a : a = edit[t].target
  OBVIOUS
<1>4. /\ a \in Attribute /\ attribute' = [attribute EXCEPT ![a] = "removed"]
      /\ value' = [x \in Value |-> IF AttributeOf[x] = a /\ value[x] = "live" THEN "removed" ELSE value[x]]
  BY <1>2, <1>3 DEF EditOK, RemoveAttribute
<1>5. /\ There' = There /\ born \in Nat /\ value \in [Value -> {"unborn", "live", "removed"}]
      /\ attribute \in [Attribute -> {"live", "removed"}]
  BY <1>a DEF There, MatrixInv, MatrixTypes
<1>6. /\ value' \in [Value -> {"unborn", "live", "removed"}]
      /\ attribute' \in [Attribute -> {"live", "removed"}]
  BY <1>4, <1>5
<1>7. MatrixInv'
  <2>1. /\ product \in {"none", "live", "removed"} /\ described \subseteq Value /\ born \in Nat
        /\ variant \in [Variant -> RowType] /\ value \in [Value -> {"unborn", "live", "removed"}]
        /\ attribute \in [Attribute -> {"live", "removed"}]
    BY DEF MatrixInv, MatrixTypes, RowType
  <2>2. product' \in {"none", "live", "removed"} /\ described' \subseteq Value /\ born' \in Nat /\ born <= born'
    BY <1>a, <1>5, <1>6, <2>1
  <2>3. variant' \in [Variant -> RowType] /\ value' \in [Value -> {"unborn", "live", "removed"}]
    BY <1>a, <1>5, <1>6, <2>1
  <2>4. attribute' \in [Attribute -> {"live", "removed"}]
    BY <1>a, <1>5, <1>6, <2>1
  <2>5. /\ \A v \in There' : v <= born'
        /\ product' = "none" => product = "none" /\ There' = {} /\ described' = {}
    BY <1>a, <1>5, <1>6 DEF MatrixInv, MatrixTypes
  <2>6. QED
    BY <1>0, <1>1, <2>2, <2>3, <2>4, <2>5, WriteKeeps DEF RowType
<1>8. ASSUME Sound, ~Overtaken(t) PROVE Sound'
  <2>1. PICK r, s : r = matrixRows /\ s = matrixRows'
    OBVIOUS
  <2>2. SoundIn(r) /\ PassesChecks(edit[t], r)
    BY <1>2, <1>8, <2>1, SoundnessOfTheRows
  <2>3. /\ s[1] = r[1] /\ s[2] = r[2] /\ r[3] = value /\ s[3] = value'
        /\ r[4] = attribute /\ s[4] = attribute' /\ s[5] = r[5]
    BY <1>a, <2>1 DEF matrixRows
  <2>4. PICK gone : gone = {x \in LiveIn(r) : AttributeOf[x] = a}
    OBVIOUS
  <2>5. ~InUseIn(r, gone)
    BY <1>2, <1>3, <2>2, <2>4 DEF PassesChecks
  <2>6. LiveIn(s) = LiveIn(r) \ gone
    BY <1>4, <2>3, <2>4 DEF LiveIn
  <2>7. \A x \in LiveIn(s) : AttributeOf[x] \in Attribute /\ AttributeOf[x] # a
    BY <2>4, <2>6, ValuesHaveAttributes DEF LiveIn, Attribute
  <2>8. \A x \in LiveIn(s) : s[4][AttributeOf[x]] = r[4][AttributeOf[x]]
    BY <1>4, <1>5, <2>3, <2>7
  <2>9. SoundIn(s)
    BY <2>2, <2>3, <2>5, <2>6, <2>8, FewerValuesAreSound
  <2>10. QED
    BY <2>1, <2>9, SoundnessAfterwards
<1>9. QED
  BY <1>7, <1>8

LEMMA AddValueKeeps ==
    ASSUME MatrixInv, NEW t \in Tab, AddValue(t)
    PROVE  MatrixInv' /\ (Sound /\ ~Overtaken(t) => Sound')
<1>0. "none" \notin {"add value"}
  OBVIOUS
<1>1. Write(t, {"add value"})
  BY DEF AddValue
<1>a. UNCHANGED <<product, variant, attribute, described, born>>
  BY DEF AddValue
<1>2. /\ edit[t] # NoEdit /\ edit[t].op = "add value" /\ EditOK(t)
      /\ ~Overtaken(t) => PassesChecks(edit[t], matrixRows)
  BY <1>0, <1>1, WhatAWriteMeets
<1>3. PICK x : x = edit[t].target
  OBVIOUS
<1>4. x \in Value /\ value' = [value EXCEPT ![x] = "live"]
  BY <1>2, <1>3 DEF EditOK, AddValue
<1>5. There' = There /\ born \in Nat /\ value \in [Value -> {"unborn", "live", "removed"}]
  BY <1>a DEF There, MatrixInv, MatrixTypes
<1>6. value' \in [Value -> {"unborn", "live", "removed"}]
  BY <1>4, <1>5
<1>7. MatrixInv'
  <2>1. /\ product \in {"none", "live", "removed"} /\ described \subseteq Value /\ born \in Nat
        /\ variant \in [Variant -> RowType] /\ value \in [Value -> {"unborn", "live", "removed"}]
        /\ attribute \in [Attribute -> {"live", "removed"}]
    BY DEF MatrixInv, MatrixTypes, RowType
  <2>2. product' \in {"none", "live", "removed"} /\ described' \subseteq Value /\ born' \in Nat /\ born <= born'
    BY <1>a, <1>5, <1>6, <2>1
  <2>3. variant' \in [Variant -> RowType] /\ value' \in [Value -> {"unborn", "live", "removed"}]
    BY <1>a, <1>5, <1>6, <2>1
  <2>4. attribute' \in [Attribute -> {"live", "removed"}]
    BY <1>a, <1>5, <1>6, <2>1
  <2>5. /\ \A v \in There' : v <= born'
        /\ product' = "none" => product = "none" /\ There' = {} /\ described' = {}
    BY <1>a, <1>5, <1>6 DEF MatrixInv, MatrixTypes
  <2>6. QED
    BY <1>0, <1>1, <2>2, <2>3, <2>4, <2>5, WriteKeeps DEF RowType
<1>8. ASSUME Sound, ~Overtaken(t) PROVE Sound'
  <2>1. PICK r, s : r = matrixRows /\ s = matrixRows'
    OBVIOUS
  <2>2. SoundIn(r) /\ PassesChecks(edit[t], r)
    BY <1>2, <1>8, <2>1, SoundnessOfTheRows
  <2>3. /\ s[1] = r[1] /\ s[2] = r[2] /\ r[3] = value /\ s[3] = value' /\ s[4] = r[4] /\ s[5] = r[5]
    BY <1>a, <2>1 DEF matrixRows
  <2>4. r[4][AttributeOf[x]] = "live"
    BY <1>2, <1>3, <2>2 DEF PassesChecks
  <2>5. LiveIn(s) = LiveIn(r) \cup {x}
    BY <1>4, <1>5, <2>3 DEF LiveIn
  <2>6. SoundIn(s)
    BY <2>2, <2>3, <2>4, <2>5, MoreValuesAreSound
  <2>7. QED
    BY <2>1, <2>6, SoundnessAfterwards
<1>9. QED
  BY <1>7, <1>8


LEMMA InsertRowsKeeps ==
    ASSUME MatrixInv, NEW t \in Tab, InsertRows(t)
    PROVE  MatrixInv' /\ (Sound /\ ~Overtaken(t) => Sound')
<1>1. Write(t, {"create", "insert"}) /\ UNCHANGED <<value, attribute, described>>
  BY DEF InsertRows
<1>2. /\ edit[t] # NoEdit /\ edit[t].op \in {"create", "insert"} /\ EditOK(t)
      /\ ~Overtaken(t) => PassesChecks(edit[t], matrixRows)
  BY <1>1, WhatAWriteMeets
<1>3. PICK combinations : combinations = edit[t].insert
  OBVIOUS
<1>4. PICK count : count = Cardinality(combinations)
  OBVIOUS
<1>5. combinations \in SUBSET SUBSET Value
  BY <1>2, <1>3 DEF EditOK
<1>6. /\ born + count <= MaxIds
      /\ \/ /\ variant' = Inserted(variant, born, combinations) /\ born' = born + count
            /\ product' = IF edit[t].op = "create" THEN "live" ELSE product
         \/ UNCHANGED <<variant, born, product>>
  BY <1>3, <1>4 DEF InsertRows
<1>7. /\ variant \in [Variant -> RowType] /\ born \in Nat
      /\ \A v \in Variant : variant[v].there => v <= born
      /\ edit[t].op = "insert" => product # "none"
  BY <1>2 DEF MatrixInv, MatrixTypes, RowType, BeforeAProduct, There
<1>8. /\ Inserted(variant, born, combinations) \in [Variant -> RowType] /\ count \in Nat
      /\ \A v \in Variant : Inserted(variant, born, combinations)[v].there => v <= born + count
  BY <1>4, <1>5, <1>7, InsertTypes DEF RowType
<1>9. /\ variant' \in [Variant -> RowType] /\ born' \in Nat /\ born <= born'
      /\ \A v \in Variant : variant'[v].there => v <= born'
  <2>1. CASE UNCHANGED <<variant, born, product>>
    BY <1>7, <2>1
  <2>2. CASE variant' = Inserted(variant, born, combinations) /\ born' = born + count
    BY <1>7, <1>8, <2>2
  <2>3. QED
    BY <1>6, <2>1, <2>2
<1>10. \A v \in There' : v <= born'
  BY <1>9 DEF There
<1>11. /\ product' \in {"none", "live", "removed"}
       /\ product' = "none" => product = "none" /\ There' = {} /\ described' = {}
  <2>1. product \in {"none", "live", "removed"} /\ (product = "none" => There = {} /\ described = {})
    BY DEF MatrixInv, MatrixTypes
  <2>2. CASE UNCHANGED <<variant, born, product>>
    BY <1>1, <2>1, <2>2 DEF There
  <2>3. CASE product' = IF edit[t].op = "create" THEN "live" ELSE product
    BY <1>2, <1>7, <2>1, <2>3
  <2>4. QED
    BY <1>6, <2>2, <2>3
<1>12. MatrixInv'
  BY <1>1, <1>9, <1>10, <1>11, WriteKeeps DEF MatrixInv, MatrixTypes, RowType
<1>13. ASSUME Sound, ~Overtaken(t) PROVE Sound'
  <2>1. PICK r, s : r = matrixRows /\ s = matrixRows'
    OBVIOUS
  <2>2. SoundIn(r) /\ PassesChecks(edit[t], r)
    BY <1>2, <1>13, <2>1, SoundnessOfTheRows
  <2>3. /\ r[1] = product /\ r[2] = variant /\ r[5] = described /\ s[1] = product' /\ s[2] = variant'
        /\ s[3] = r[3] /\ s[4] = r[4] /\ s[5] = r[5]
    BY <1>1, <2>1 DEF matrixRows
  <2>4. LiveIn(s) = LiveIn(r)
    BY <2>3 DEF LiveIn
  <2>5. CASE UNCHANGED <<variant, born, product>>
    <3>1. UNCHANGED matrixRows
      BY <1>1, <2>5 DEF matrixRows
    <3>2. QED
      BY <1>13, <3>1, SoundnessOfTheRows, SoundnessAfterwards
  <2>6. CASE /\ variant' = Inserted(variant, born, combinations)
             /\ product' = IF edit[t].op = "create" THEN "live" ELSE product
    <3>1. /\ ValidIn(r, Joined(r, combinations)) /\ s[1] = "live" /\ r[5] \subseteq LiveIn(r)
          /\ \A v \in ThereIn(r) : LinkedIn(r, v) \subseteq LiveIn(r)
      <4>1. CASE edit[t].op = "create"
        <5>1. product = "none" /\ ValidIn(r, [c \in combinations |-> c])
          BY <1>3, <2>2, <2>3, <4>1 DEF PassesChecks
        <5>2. ThereIn(r) = {} /\ r[5] = {}
          BY <2>3, <5>1 DEF MatrixInv, There, ThereIn
        <5>3. ValidIn(r, Joined(r, combinations))
          BY <1>5, <5>1, <5>2, FirstMatrix
        <5>4. QED
          BY <2>3, <2>6, <4>1, <5>2, <5>3
      <4>2. CASE edit[t].op = "insert"
        <5>1. r[1] = "live" /\ ValidIn(r, Joined(r, combinations))
          BY <1>3, <2>2, <4>2 DEF PassesChecks
        <5>2. QED
          BY <2>2, <2>3, <2>6, <4>2, <5>1 DEF SoundIn
      <4>3. QED
        BY <1>2, <4>1, <4>2
    <3>2. MaxIds \in Nat /\ MaxVariants \in Nat
      BY MatrixBounds
    <3>3. /\ ValidIn(s, ExistingIn(s))
          /\ \A v \in ThereIn(s) : LinkedIn(s, v) \subseteq LiveIn(s)
      <4>1. born + Cardinality(combinations) <= MaxIds
        BY <1>4, <1>6
      <4>2. s[2] = Inserted(r[2], born, combinations) /\ \A v \in Variant : r[2][v].there => v <= born
        BY <1>7, <2>3, <2>6
      <4>3. QED
        BY <1>5, <1>7, <2>3, <3>1, <3>2, <4>1, <4>2, InsertedMatrix
    <3>4. SoundIn(s)
      BY <2>2, <2>3, <2>4, <3>1, <3>3 DEF SoundIn
    <3>5. QED
      BY <2>1, <3>4, SoundnessAfterwards
  <2>7. QED
    BY <1>6, <2>5, <2>6
<1>14. QED
  BY <1>12, <1>13

-----------------------------------------------------------------------------
LEMMA MatrixInvInitially == InitMatrix => MatrixInv
<1> SUFFICES ASSUME InitMatrix PROVE MatrixInv
  OBVIOUS
<1>1. PICK combinations \in {{}, {{}}} \cup {{{x} : x \in {y \in Value \ Unborn : AttributeOf[y] = a}} : a \in Axes} :
        /\ product = IF combinations = {} THEN "none" ELSE "live"
        /\ variant = Inserted(NoVariants, 0, combinations)
        /\ born = Cardinality(combinations)
  BY DEF InitMatrix
<1>2. combinations \in SUBSET SUBSET Value
  <2>1. \A a : {{x} : x \in {y \in Value \ Unborn : AttributeOf[y] = a}} \subseteq SUBSET Value
    OBVIOUS
  <2>2. QED
    BY <1>1, <2>1
<1>3. NoVariants \in [Variant -> RowType] /\ \A v \in Variant : NoVariants[v].there => v <= 0
  BY DEF NoVariants, Absent, RowType
<1>4. /\ variant \in [Variant -> RowType] /\ born \in Nat
      /\ \A v \in Variant : variant[v].there => v <= 0 + born
  BY <1>1, <1>2, <1>3, InsertTypes DEF RowType
<1>5. \A v \in There : v <= born
  BY <1>4 DEF There
<1>6. product = "none" => There = {}
  <2>1. ASSUME product = "none" PROVE There = {}
    <3>1. combinations = {} /\ born = 0
      BY <1>1, <2>1, FS_EmptySet
    <3>2. \A v \in Variant : ~(v <= 0)
      BY DEF Variant
    <3>3. QED
      BY <1>5, <3>1, <3>2 DEF There
  <2>2. QED
    BY <2>1
<1>7. /\ product \in {"none", "live", "removed"} /\ described = {}
      /\ value \in [Value -> {"unborn", "live", "removed"}] /\ attribute \in [Attribute -> {"live", "removed"}]
  BY <1>1 DEF InitMatrix
<1>8. \A t \in Tab : edit[t] = NoEdit /\ edit[t].op = "none"
  BY DEF InitMatrix, NoEdit
<1>9. DOMAIN edit = Tab /\ \A t \in Tab : EditOK(t) /\ edit[t].op \in BeforeAProduct
  BY <1>8 DEF InitMatrix, EditOK, BeforeAProduct
<1>10. QED
  BY <1>4, <1>5, <1>6, <1>7, <1>8, <1>9 DEF MatrixInv, MatrixTypes, RowType

LEMMA MatrixStep ==
    ASSUME MatrixInv, [NextMatrix]_matrixVars
    PROVE  /\ MatrixInv'
           /\ Sound => Sound' \/ \E t \in Tab : Overtaken(t) /\ edit'[t] = NoEdit
<1>1. CASE UNCHANGED matrixVars
  <2>1. UNCHANGED <<matrixRows, product, variant, value, attribute, described, born, edit>>
    BY <1>1 DEF matrixVars, matrixRows
  <2>2. MatrixInv'
    <3>1. There' = There /\ MatrixTypes' = MatrixTypes
      BY <2>1 DEF There, MatrixTypes, EditOK
    <3>2. QED
      BY <2>1, <3>1 DEF MatrixInv
  <2>3. QED
    BY <2>1, <2>2, SoundnessOfTheRows, SoundnessAfterwards
<1>2. ASSUME NEW t \in Tab, EditProduct(t) \/ EditAttributes(t)
      PROVE  /\ MatrixInv'
             /\ Sound => Sound' \/ (Overtaken(t) /\ edit'[t] = NoEdit)
  <2>1. ASSUME \/ LoadCreate(t) \/ LoadAdd(t) \/ LoadGenerate(t) \/ LoadUpdate(t) \/ LoadRemove(t)
               \/ LoadDescribe(t) \/ LoadRemoveProduct(t)
               \/ LoadRemoveValue(t) \/ LoadRemoveAttribute(t) \/ LoadAddValue(t)
        PROVE  MatrixInv' /\ (Sound => Sound')
    <3>1. MatrixInv'
      BY <2>1, LoadCreateKeeps, LoadInsertKeeps, LoadUpdateKeeps, LoadRemoveKeeps, LoadDescribeKeeps, LoadOfAttributesKeeps
    <3>2. UNCHANGED matrixRows
      BY <2>1 DEF LoadCreate, LoadAdd, LoadGenerate, LoadUpdate, LoadRemove, LoadDescribe,
                  LoadRemoveProduct, LoadRemoveValue, LoadRemoveAttribute, LoadAddValue, Read
    <3>3. QED
      BY <3>1, <3>2, SoundnessOfTheRows, SoundnessAfterwards
  <2>2. ASSUME \/ InsertRows(t) \/ UpdateRow(t) \/ RemoveRow(t) \/ Describe(t)
               \/ RemoveProduct(t) \/ RemoveValue(t) \/ RemoveAttribute(t) \/ AddValue(t)
        PROVE  MatrixInv' /\ (Sound /\ ~Overtaken(t) => Sound') /\ edit'[t] = NoEdit
    <3>1. MatrixInv' /\ (Sound /\ ~Overtaken(t) => Sound')
      BY <2>2, InsertRowsKeeps, UpdateRowKeeps, RemoveRowKeeps, DescribeKeeps,
         RemoveProductKeeps, RemoveValueKeeps, RemoveAttributeKeeps, AddValueKeeps
    <3>2. \E ops : Write(t, ops)
      BY <2>2 DEF InsertRows, UpdateRow, RemoveRow, Describe, RemoveProduct, RemoveValue, RemoveAttribute, AddValue
    <3>3. edit'[t] = NoEdit
      BY <3>2 DEF Write, MatrixInv, MatrixTypes
    <3>4. QED
      BY <3>1, <3>3
  <2>3. QED
    BY <1>2, <2>1, <2>2 DEF EditProduct, EditAttributes
<1>3. QED
  BY <1>1, <1>2 DEF NextMatrix

\* The checks of the handlers of products, variants, attributes and their values are
\* enough, in any order of any number of calls: rows that are sound stay so at every
\* step but the write of a handler that somebody overtook between its reads and its
\* transaction (ProductService, ProductAttributeService).
THEOREM OnlyOvertakenEditsBreakTheMatrixHolds == MatrixSpec => OnlyOvertakenEditsBreakTheMatrix
<1>1. InitMatrix => MatrixInv
  BY MatrixInvInitially
<1>2. MatrixInv /\ [NextMatrix]_matrixVars => MatrixInv'
  BY MatrixStep
<1>3. MatrixInv /\ [NextMatrix]_matrixVars =>
        [Sound => Sound' \/ \E t \in Tab : Overtaken(t) /\ edit'[t] = NoEdit]_matrixVars
  BY MatrixStep
<1>4. QED
  BY <1>1, <1>2, <1>3, PTL DEF MatrixSpec, OnlyOvertakenEditsBreakTheMatrix

-----------------------------------------------------------------------------
\* What a shopper finds, of Storefront.

ShopSpec == InitShop /\ [][NextShop]_shopVars

\* No edit leaves a product without a variant, or without its columns.
ShopInv ==
    /\ goods \in [Good -> GoodRow]
    /\ \A g \in Good : goods[g].variants # {} /\ IsFiniteSet(goods[g].variants)
    /\ filters \subseteq Facet

\* The ends of a product's prices, with all its variants between them.
LEMMA PricesHaveEnds ==
    ASSUME ShopInv, NEW g \in Good
    PROVE  /\ CheapestAt(g) \in 0..TopPrice /\ DearestAt(g) \in 0..TopPrice
           /\ CheapestAt(g) <= DearestAt(g)
<1>1. TopPrice \in Nat
  BY GoodsAreStocked
<1>2. goods[g].variants # {} /\ \A v \in goods[g].variants : v.price \in 0..TopPrice
  BY DEF ShopInv, GoodRow, SortRow
<1>3. Prices(g) # {} /\ Prices(g) \subseteq 0..TopPrice
  BY <1>2 DEF Prices
<1> DEFINE T == Prices(g)
           from == 0
           to == TopPrice
<1>4. /\ from \in Int /\ to \in Int /\ T # {} /\ T \subseteq Int
      /\ (\A d \in T : from <= d) /\ (\A d \in T : d <= to)
  BY <1>1, <1>3
<1> HIDE DEF T, from, to
<1>5. Min(T) \in T /\ \A d \in T : Min(T) <= d
  BY <1>4, MinIsLeast
<1>6. Max(T) \in T /\ \A d \in T : d <= Max(T)
  BY <1>4, MaxIsGreatest
<1>7. QED
  BY <1>3, <1>5, <1>6 DEF T, CheapestAt, DearestAt

\* A query with another category, band of prices, word or choices.
LEMMA AnotherQuery ==
    ASSUME NEW query \in Query
    PROVE  /\ \A c : LET q == [query EXCEPT !.shelf = c]
                     IN  /\ q.shelf = c /\ q.band = query.band /\ q.inStock = query.inStock
                         /\ q.word = query.word /\ q.picked = query.picked
           /\ \A b : LET q == [query EXCEPT !.band = b]
                     IN  /\ q.shelf = query.shelf /\ q.band = b /\ q.inStock = query.inStock
                         /\ q.word = query.word /\ q.picked = query.picked
           /\ \A p : LET q == [query EXCEPT !.picked = p]
                     IN  /\ q.shelf = query.shelf /\ q.band = query.band /\ q.inStock = query.inStock
                         /\ q.word = query.word /\ q.picked = p
BY DEF Query

\* The filters of two queries that pick the same are the same.
LEMMA SamePicks ==
    ASSUME NEW query, NEW other, other.picked = query.picked
    PROVE  /\ ResolvedFacets(other) = ResolvedFacets(query)
           /\ \A f : PickedOf(other, f) = PickedOf(query, f)
<1>1. \A f : PickedOf(other, f) = PickedOf(query, f)
  BY DEF PickedOf
<1>2. QED
  BY <1>1 DEF ResolvedFacets

\* countCategories, and the category's own listing.
LEMMA CategoriesDoAgree ==
    ASSUME ShopInv, NEW query \in Query, query.shelf = NoFilter
    PROVE  CategoriesAgree(query)
<1> SUFFICES ASSUME NEW c \in Shelf
             PROVE  Exact([query EXCEPT !.shelf = c])
                      = {g \in Matching(Except(query, "shelf"), NoFilter) : IsOnShelf(g, c)}
  BY DEF CategoriesAgree, Shows, CountCategory
<1> DEFINE there == [query EXCEPT !.shelf = c]
           all == Except(query, "shelf")
<1>1. c # NoFilter
  BY NoFilterIsNone
<1>2. /\ there.shelf = c /\ there.band = query.band /\ there.inStock = query.inStock
      /\ there.word = query.word /\ there.picked = query.picked
  BY AnotherQuery
<1>3. /\ all.shelf = NoFilter /\ all.band = query.band /\ all.inStock = query.inStock
      /\ all.word = query.word /\ all.picked = query.picked
  BY DEF Except, Query
<1> HIDE DEF there, all
<1>4. ResolvedFacets(there) = ResolvedFacets(all) /\ \A f : PickedOf(there, f) = PickedOf(all, f)
  BY <1>2, <1>3, SamePicks
<1>5. \A g \in OnSale : Passes(g, there, NoFilter) <=> Passes(g, all, NoFilter) /\ IsOnShelf(g, c)
  BY <1>1, <1>2, <1>3, <1>4 DEF Passes
<1>6. Exact(there) = {g \in Matching(all, NoFilter) : IsOnShelf(g, c)}
  BY <1>5 DEF Exact, Matching
<1>7. QED
  BY <1>6 DEF there, all

\* countPriceRange, with the slider moved to its ends.
LEMMA PricesDoAgree ==
    ASSUME ShopInv, NEW query \in Query, query.band = AnyPrice
    PROVE  PricesAgree(query)
<1> DEFINE range == PriceRange(query)
           between == [query EXCEPT !.band = range]
           found == Exact(query)
<1>1. TopPrice \in Nat
  BY GoodsAreStocked
<1>2. [query EXCEPT !.band = AnyPrice] = query
  BY DEF Query
<1>3. range = IF found = {} THEN <<0, 0>>
              ELSE <<Min({CheapestAt(g) : g \in found}), Max({DearestAt(g) : g \in found})>>
  BY <1>2 DEF PriceRange, Exact
<1>4. /\ between.shelf = query.shelf /\ between.band = range /\ between.inStock = query.inStock
      /\ between.word = query.word /\ between.picked = query.picked
  BY AnotherQuery
<1>5. ResolvedFacets(between) = ResolvedFacets(query) /\ \A f : PickedOf(between, f) = PickedOf(query, f)
  BY <1>4, SamePicks
<1>6. found \subseteq OnSale /\ OnSale \subseteq Good
  BY DEF Exact, Matching, OnSale
<1>7. \A g \in Good : /\ CheapestAt(g) \in 0..TopPrice /\ DearestAt(g) \in 0..TopPrice
                      /\ CheapestAt(g) <= DearestAt(g)
  BY PricesHaveEnds
<1> HIDE DEF range, between
<1>8. \A g \in OnSale : Passes(g, between, NoFilter)
        <=> /\ Passes(g, query, NoFilter)
            /\ CheapestAt(g) >= range[1] /\ CheapestAt(g) <= range[2]
  <2>1. query.band[1] = 0 /\ query.band[2] = TopPrice
    BY DEF AnyPrice
  <2>2. \A g \in OnSale : CheapestAt(g) >= query.band[1] /\ CheapestAt(g) <= query.band[2]
    BY <1>1, <1>6, <1>7, <2>1
  <2>3. QED
    BY <1>4, <1>5, <2>2 DEF Passes
<1>9. \A g \in found : CheapestAt(g) >= range[1] /\ CheapestAt(g) <= range[2]
  <2> SUFFICES ASSUME found # {}
               PROVE  \A g \in found : CheapestAt(g) >= range[1] /\ CheapestAt(g) <= range[2]
    OBVIOUS
  <2> DEFINE low == {CheapestAt(g) : g \in found}
             high == {DearestAt(g) : g \in found}
             from == 0
             to == TopPrice
  <2>1. range[1] = Min(low) /\ range[2] = Max(high)
    BY <1>3
  <2>2. \A g \in found : CheapestAt(g) \in low /\ DearestAt(g) \in high
    OBVIOUS
  <2>3. /\ from \in Int /\ low # {} /\ low \subseteq Int /\ \A d \in low : from <= d
        /\ to \in Int /\ high # {} /\ high \subseteq Int /\ \A d \in high : d <= to
    BY <1>1, <1>6, <1>7
  <2> HIDE DEF low, high, from, to
  <2>4. Min(low) \in low /\ \A d \in low : Min(low) <= d
    BY <2>3, MinIsLeast
  <2>5. Max(high) \in high /\ \A d \in high : d <= Max(high)
    BY <2>3, MaxIsGreatest
  <2>6. \A d \in low \cup high : d \in Int
    BY <2>3
  <2>7. QED
    BY <1>6, <1>7, <2>1, <2>2, <2>4, <2>5, <2>6
<1>10. Exact(between) = found
  BY <1>8, <1>9 DEF Exact, Matching
<1>11. QED
  BY <1>10 DEF PricesAgree, between, range

\* A click names its facet once; every other facet keeps its place and its values, and
\* a facet that is not heard leaves those that are heard as they were.
LEMMA ClicksNameOneFacet ==
    ASSUME NEW picked \in Picks, NEW v \in Choice
    PROVE  LET clicked == Click(picked, v)
               f == FacetOf[v]
           IN  /\ DOMAIN picked \subseteq DOMAIN clicked
               /\ \A i \in DOMAIN clicked :
                    IF clicked[i].of = f
                    THEN clicked[i] = [of |-> f, values |-> <<v>>] /\ (i \in DOMAIN picked => picked[i].of = f)
                    ELSE i \in DOMAIN picked /\ clicked[i] = picked[i]
               /\ \A i \in DOMAIN picked : picked[i].of # f => clicked[i] = picked[i]
               /\ \A i \in DOMAIN picked : picked[i].of = f => clicked[i].of = f
<1> DEFINE f == FacetOf[v]
           chunk == [of |-> f, values |-> <<v>>]
<1>1. picked \in Seq(Chunk) /\ chunk.of = f
  BY PicksAreMerged
<1>2. CASE \E i \in DOMAIN picked : picked[i].of = f
  <2>1. Click(picked, v) = [i \in DOMAIN picked |-> IF picked[i].of = f THEN chunk ELSE picked[i]]
    BY <1>2 DEF Click
  <2> HIDE DEF chunk
  <2>2. /\ DOMAIN Click(picked, v) = DOMAIN picked
        /\ \A i \in DOMAIN picked : Click(picked, v)[i] = IF picked[i].of = f THEN chunk ELSE picked[i]
    BY <2>1
  <2>3. QED
    BY <1>1, <2>2 DEF chunk
<1>3. CASE ~ \E i \in DOMAIN picked : picked[i].of = f
  <2>1. Click(picked, v) = Append(picked, chunk)
    BY <1>3 DEF Click
  <2>2. Len(picked) \in Nat /\ DOMAIN picked = 1..Len(picked)
    BY <1>1
  <2> HIDE DEF chunk
  <2>3. /\ DOMAIN Append(picked, chunk) = 1..(Len(picked) + 1)
        /\ Append(picked, chunk)[Len(picked) + 1] = chunk
        /\ \A i \in 1..Len(picked) : Append(picked, chunk)[i] = picked[i]
    <3>1. chunk \in Chunk
      BY EveryChoiceHasItsFacet DEF chunk, Chunk
    <3>2. QED
      BY <1>1, <3>1
  <2>4. QED
    BY <1>1, <1>3, <2>1, <2>2, <2>3 DEF chunk
<1>4. QED
  BY <1>2, <1>3

\* countValues, and the listing with the value picked instead of its facet's others.
LEMMA ValuesDoAgree ==
    ASSUME ShopInv, NEW query \in Query, NEW v \in Choice, FacetOf[v] \in filters
    PROVE  ValueAgrees(query, v)
<1> DEFINE f == FacetOf[v]
           picked == query.picked
           clicked == Click(picked, v)
           click == [query EXCEPT !.picked = clicked]
<1>1. /\ click.shelf = query.shelf /\ click.band = query.band /\ click.inStock = query.inStock
      /\ click.word = query.word /\ click.picked = clicked
  BY AnotherQuery
<1>2. picked \in Picks
  BY DEF Query
<1>3. /\ DOMAIN picked \subseteq DOMAIN clicked
      /\ \A i \in DOMAIN clicked :
           IF clicked[i].of = f
           THEN clicked[i] = [of |-> f, values |-> <<v>>] /\ (i \in DOMAIN picked => picked[i].of = f)
           ELSE i \in DOMAIN picked /\ clicked[i] = picked[i]
      /\ \A i \in DOMAIN picked : picked[i].of # f => clicked[i] = picked[i]
      /\ \A i \in DOMAIN picked : picked[i].of = f => clicked[i].of = f
  BY <1>2, ClicksNameOneFacet
<1> HIDE DEF click, clicked
\* What the others than its facet pick is the same, heard or not.
<1>4. \A d : d # f => PickedOf(click, d) = PickedOf(query, d)
  <2> SUFFICES ASSUME NEW d, d # f PROVE PickedOf(click, d) = PickedOf(query, d)
    OBVIOUS
  <2>1. \A i : i \in Heard(clicked) /\ clicked[i].of = d
               <=> i \in Heard(picked) /\ picked[i].of = d
    BY <1>3 DEF Heard
  <2>2. \A i \in Heard(picked) : picked[i].of = d => clicked[i] = picked[i]
    BY <1>3 DEF Heard
  <2>3. QED
    BY <1>1, <2>1, <2>2 DEF PickedOf
<1>5. CASE \E i \in Heard(clicked) : clicked[i].of = f
  <2>1. PickedOf(click, f) = {v}
    <3>1. FirstValues(<<v>>) = {v}
      BY PicksAreMerged DEF FirstValues
    <3>2. \A i \in Heard(clicked) : clicked[i].of = f => clicked[i].values = <<v>>
      BY <1>3 DEF Heard
    <3>3. QED
      BY <1>1, <1>5, <3>1, <3>2 DEF PickedOf
  <2>2. ResolvedFacets(click) \ {NoFilter} = (ResolvedFacets(query) \ {OtherFacets(f)}) \cup {f}
    <3>1. NoFilter \notin filters
      BY NoFilterIsNone DEF ShopInv
    <3>2. QED
      BY <1>4, <2>1, <3>1 DEF ResolvedFacets, OtherFacets
  <2>3. \A g \in OnSale : Passes(g, click, NoFilter) <=> Passes(g, query, OtherFacets(f)) /\ Carries(g, {v}, f)
    BY <1>1, <1>4, <2>1, <2>2 DEF Passes, OtherFacets
  <2>4. Exact(click) = {g \in Matching(query, OtherFacets(f)) : Carries(g, {v}, f)}
    BY <2>3 DEF Exact, Matching
  <2>5. Shows(click, CountValue(query, v))
    BY <2>4 DEF Shows, CountValue
  <2>6. QED
    BY <1>1, <1>5, <2>5 DEF ValueAgrees, click, clicked
<1>6. CASE ~ \E i \in Heard(clicked) : clicked[i].of = f
  <2>1. \A i \in Heard(picked) : picked[i].of # f
    BY <1>3, <1>6 DEF Heard
  <2>2. PickedOf(click, f) = {} /\ PickedOf(query, f) = {}
    BY <1>1, <1>6, <2>1 DEF PickedOf
  <2>3. \A d : PickedOf(click, d) = PickedOf(query, d)
    BY <1>4, <2>2
  <2>4. ResolvedFacets(click) = ResolvedFacets(query)
    BY <2>3 DEF ResolvedFacets
  <2>5. \A g \in OnSale : Passes(g, click, NoFilter) <=> Passes(g, query, NoFilter)
    BY <1>1, <2>3, <2>4 DEF Passes
  <2>6. Exact(click) = Exact(query)
    BY <2>5 DEF Exact, Matching
  <2>7. QED
    BY <1>1, <1>6, <2>6 DEF ValueAgrees, click, clicked
<1>7. QED
  BY <1>5, <1>6

\* attachProductCounts and suggest, and the listings they lead to.
LEMMA LinksDoAgree ==
    ASSUME ShopInv
    PROVE  /\ \A c \in Navigation : Shows([NoQuery EXCEPT !.shelf = c], CountOnShelf(c))
           /\ \A word \in Word : Suggested(word) \subseteq Found([NoQuery EXCEPT !.word = word])
<1>1. TopPrice \in Nat
  BY GoodsAreStocked
<1>2. \A g \in OnSale : CheapestAt(g) >= AnyPrice[1] /\ CheapestAt(g) <= AnyPrice[2]
  BY <1>1, PricesHaveEnds DEF OnSale, AnyPrice
<1>3. \A query : query.picked = <<>> => ResolvedFacets(query) = {}
  BY DEF ResolvedFacets, PickedOf, Heard
<1>4. ASSUME NEW c \in Navigation PROVE Shows([NoQuery EXCEPT !.shelf = c], CountOnShelf(c))
  <2> DEFINE there == [NoQuery EXCEPT !.shelf = c]
  <2>1. /\ there.shelf = c /\ there.band = AnyPrice /\ there.inStock = FALSE
        /\ there.word = NoFilter /\ there.picked = <<>>
    BY DEF NoQuery
  <2> HIDE DEF there
  <2>2. c # NoFilter /\ \A g : IsOnShelf(g, c) <=> c \in goods[g].filed
    BY NoFilterIsNone DEF Navigation, IsOnShelf
  <2>3. ResolvedFacets(there) = {}
    BY <1>3, <2>1
  <2>4. \A g \in OnSale : Passes(g, there, NoFilter) <=> c \in goods[g].filed
    BY <1>2, <2>1, <2>2, <2>3 DEF Passes
  <2>5. Exact(there) = {g \in OnSale : c \in goods[g].filed}
    BY <2>4 DEF Exact, Matching
  <2>6. Shows(there, CountOnShelf(c))
    BY <2>5 DEF Shows, CountOnShelf
  <2>7. QED
    BY <2>6 DEF there
<1>5. ASSUME NEW word \in Word PROVE Suggested(word) \subseteq Found([NoQuery EXCEPT !.word = word])
  <2> DEFINE search == [NoQuery EXCEPT !.word = word]
  <2>1. /\ search.shelf = NoFilter /\ search.band = AnyPrice /\ search.inStock = FALSE
        /\ search.word = word /\ search.picked = <<>>
    BY DEF NoQuery
  <2> HIDE DEF search
  <2>2. word # NoFilter
    BY NoFilterIsNone
  <2>3. ResolvedFacets(search) = {}
    BY <1>3, <2>1
  <2>4. \A g \in OnSale : Passes(g, search, NoFilter) <=> word \in goods[g].words
    BY <1>2, <2>1, <2>2, <2>3 DEF Passes
  <2>5. Exact(search) = Suggested(word)
    BY <2>4 DEF Exact, Matching, Suggested
  <2>6. Suggested(word) \subseteq Found(search)
    BY <2>5 DEF Found, IsFuzzy
  <2>7. QED
    BY <2>6 DEF search
<1>6. QED
  BY <1>4, <1>5

LEMMA ShopAgrees == ASSUME ShopInv PROVE CountsAgree
BY CategoriesDoAgree, PricesDoAgree, ValuesDoAgree, LinksDoAgree DEF CountsAgree

LEMMA ShopInvStarts == ASSUME InitShop PROVE ShopInv
BY GoodsAreStocked DEF InitShop, ShopInv

\* A row that gets another value in a column keeps its variants; a variant is dropped only
\* beside others.
LEMMA ShopInvSteps == ASSUME ShopInv, [NextShop]_shopVars PROVE ShopInv'
<1>1. ASSUME NEW g \in Good, NEW row \in GoodRow, row.variants # {}, IsFiniteSet(row.variants),
             goods' = [goods EXCEPT ![g] = row], filters' = filters
      PROVE  ShopInv'
  BY <1>1 DEF ShopInv
<1>2. ASSUME NEW g \in Good, NEW status \in {"active", "archived", "removed"},
             goods' = [goods EXCEPT ![g].status = status], filters' = filters
      PROVE  ShopInv'
  <2> DEFINE row == [goods[g] EXCEPT !.status = status]
  <2>1. row \in GoodRow /\ row.variants = goods[g].variants
    BY DEF ShopInv, GoodRow
  <2>2. goods' = [goods EXCEPT ![g] = row]
    BY <1>2
  <2> HIDE DEF row
  <2>3. QED
    BY <1>1, <1>2, <2>1, <2>2 DEF ShopInv
<1>3. ASSUME NEW g \in Good, NEW shelf \in SUBSET Shelf, File(g, shelf) PROVE ShopInv'
  <2> DEFINE row == [goods[g] EXCEPT !.filed = shelf]
  <2>1. row \in GoodRow /\ row.variants = goods[g].variants
    BY DEF ShopInv, GoodRow
  <2>2. goods' = [goods EXCEPT ![g] = row] /\ filters' = filters
    BY <1>3 DEF File
  <2> HIDE DEF row
  <2>3. QED
    BY <1>1, <2>1, <2>2 DEF ShopInv
<1>4. ASSUME NEW g \in Good, DropVariant(g) PROVE ShopInv'
  <2>1. PICK v \in goods[g].variants : goods' = [goods EXCEPT ![g].variants = @ \ {v}]
    BY <1>4 DEF DropVariant
  <2> DEFINE row == [goods[g] EXCEPT !.variants = @ \ {v}]
  <2>2. row \in GoodRow /\ row.variants = goods[g].variants \ {v}
    BY DEF ShopInv, GoodRow
  <2>3. goods' = [goods EXCEPT ![g] = row] /\ filters' = filters /\ Cardinality(goods[g].variants) > 1
    BY <1>4, <2>1 DEF DropVariant
  <2>4. IsFiniteSet(goods[g].variants)
    BY DEF ShopInv
  <2>5. IsFiniteSet(row.variants) /\ row.variants # {}
    <3>1. IsFiniteSet(goods[g].variants \ {v})
          /\ Cardinality(goods[g].variants \ {v}) = Cardinality(goods[g].variants) - 1
      BY <2>1, <2>4, FS_RemoveElement
    <3>2. Cardinality(goods[g].variants) \in Nat
      BY <2>4, FS_CardinalityType
    <3>3. Cardinality(goods[g].variants \ {v}) # 0
      BY <2>3, <3>1, <3>2
    <3>4. QED
      BY <2>2, <3>1, <3>3, FS_EmptySet
  <2> HIDE DEF row
  <2>6. QED
    BY <1>1, <2>2, <2>3, <2>5
<1>5. ASSUME NEW g \in Good, SetStatus(g, "active") \/ SetStatus(g, "archived") \/ DropGood(g)
      PROVE  ShopInv'
  BY <1>2, <1>5 DEF SetStatus, DropGood
<1>6. ASSUME NEW c \in Shelf, ShowShelf(c) \/ DropShelf(c) PROVE ShopInv'
  BY <1>6 DEF ShowShelf, DropShelf, ShopInv
<1>7. ASSUME NEW f \in Facet, OfferFilter(f) PROVE ShopInv'
  BY <1>7 DEF OfferFilter, ShopInv
<1>8. CASE UNCHANGED shopVars
  BY <1>8 DEF shopVars, ShopInv
<1>9. QED
  BY <1>3, <1>4, <1>5, <1>6, <1>7, <1>8 DEF NextShop

\* Whatever the owner edits, the numbers of the sidebar and the navigation are what their
\* links list, the ends of the price slider leave nothing out and suggestions are found:
\* the queries of product-filter.service.ts ask for what those of the listing do.
THEOREM CountsAreWhatAClickListsHolds == ShopSpec => CountsAreWhatAClickLists
<1>1. ShopInv => CountsAgree
  BY ShopAgrees
<1>2. ShopInv /\ [NextShop]_shopVars => ShopInv'
  BY ShopInvSteps
<1>3. InitShop => ShopInv
  BY ShopInvStarts
<1>4. QED
  BY <1>1, <1>2, <1>3, PTL DEF ShopSpec, CountsAreWhatAClickLists

-----------------------------------------------------------------------------
\* The names of CatalogNames.

Token == STRING \cup Nat
Slug == Seq(Token)

\* A number makes another slug of a candidate for each number.
LEMMA NumbersDiffer ==
    ASSUME NEW candidate \in Slug, NEW i \in Nat, NEW j \in Nat,
           Numbered(candidate, i) = Numbered(candidate, j), i >= 1, j >= 1
    PROVE  i = j
<1>1. \A k \in Nat : /\ Append(candidate, k) \in Slug
                     /\ Len(Append(candidate, k)) = Len(candidate) + 1
                     /\ Append(candidate, k)[Len(candidate) + 1] = k
  <2>1. Nat \subseteq Token
    BY DEF Token
  <2>2. QED
    BY <2>1, AppendProperties DEF Slug
<1>2. Len(candidate) \in Nat
  BY LenProperties DEF Slug
<1>3. \A k \in Nat : Append(candidate, k) # candidate
  BY <1>1, <1>2
<1>4. QED
  BY <1>1, <1>3 DEF Numbered

\* candidate gets the first number that is not taken.
IsFirstFree(candidate, k, taken) ==
    /\ Numbered(candidate, k) \notin taken
    /\ \A i \in 1..(k - 1) : Numbered(candidate, i) \in taken

LEMMA UniqueSlugIsFree ==
    ASSUME NEW candidate \in Slug, NEW taken, IsFiniteSet(taken)
    PROVE  \E k \in Nat \ {0} :
             UniqueSlug(candidate, taken) = Numbered(candidate, k) /\ IsFirstFree(candidate, k, taken)
<1> DEFINE n == Cardinality(taken) + 1
           free == {k \in 1..n : Numbered(candidate, k) \notin taken}
<1>1. n \in Nat /\ n > Cardinality(taken) /\ Cardinality(taken) \in Nat
  BY FS_CardinalityType
<1>2. free # {}
  <2> SUFFICES ASSUME free = {} PROVE FALSE
    OBVIOUS
  <2> DEFINE f == [k \in 1..n |-> Numbered(candidate, k)]
  <2>1. f \in [1..n -> taken]
    OBVIOUS
  <2>2. IsFiniteSet(1..n) /\ Cardinality(1..n) = n
    BY <1>1, FS_Interval
  <2>3. \A k \in 1..n : f[k] = Numbered(candidate, k)
    OBVIOUS
  <2> HIDE DEF f, n
  <2>4. PICK i, j \in 1..n : i # j /\ f[i] = f[j]
    BY <1>1, <2>1, <2>2, FS_PigeonHole
  <2>5. i \in Nat /\ j \in Nat /\ i >= 1 /\ j >= 1
    BY <1>1
  <2>6. QED
    BY <2>3, <2>4, <2>5, NumbersDiffer
<1>3. PICK k \in free : \A i \in free : k <= i
  <2>1. free \subseteq Nat
    BY <1>1
  <2> HIDE DEF free
  <2>2. QED
    BY <1>2, <2>1, LeastOf
<1>4. k \in 1..n /\ IsFirstFree(candidate, k, taken)
  BY <1>1, <1>3 DEF IsFirstFree
<1> DEFINE chosen == CHOOSE m \in 1..n : IsFirstFree(candidate, m, taken)
<1>5. chosen \in 1..n /\ IsFirstFree(candidate, chosen, taken)
  BY <1>4
<1>6. UniqueSlug(candidate, taken) = Numbered(candidate, chosen)
  BY DEF UniqueSlug, IsFirstFree
<1>7. chosen \in Nat \ {0}
  BY <1>1, <1>5
<1> HIDE DEF chosen, n
<1>8. QED
  BY <1>5, <1>6, <1>7

\* A slug with its number is a slug.
LEMMA SlugOfNumber ==
    ASSUME NEW candidate \in Slug, NEW taken, IsFiniteSet(taken)
    PROVE  /\ UniqueSlug(candidate, taken) \in Slug /\ UniqueSlug(candidate, taken) \notin taken
           /\ Len(UniqueSlug(candidate, taken)) <= Len(candidate) + 1
<1>1. PICK k \in Nat \ {0} :
        UniqueSlug(candidate, taken) = Numbered(candidate, k) /\ IsFirstFree(candidate, k, taken)
  BY UniqueSlugIsFree
<1>2. Nat \subseteq Token
  BY DEF Token
<1>3. Append(candidate, k) \in Slug /\ Len(Append(candidate, k)) = Len(candidate) + 1 /\ Len(candidate) \in Nat
  BY <1>2, AppendProperties, LenProperties DEF Slug
<1>4. QED
  BY <1>1, <1>3 DEF Numbered, IsFirstFree

\* A plan is the fold of its steps, and stays where they stay.
LEMMA PlanLands ==
    ASSUME NEW A, <<>> \in A, NEW n \in Nat, NEW batch, DOMAIN batch = 1..n,
           \A plan \in A, i \in 1..n : Consider(plan, batch[i]) \in A
    PROVE  Plan(batch) \in A
<1> DEFINE made(h) == [s \in SUBSET (1..n) |->
                         IF s = {} THEN <<>> ELSE Consider(h[s \ {Max(s)}], batch[Max(s)])]
           fold == CHOOSE h : h = made(h)
<1>1. Plan(batch) = fold[1..n]
  BY DEF Plan, FoldLeft, MapThenFoldSet
<1>2. \A s \in SUBSET (1..n) : s # {} => Max(s) \in 1..n
  BY LastPlaces
<1>3. \E h : h = made(h)
  <2>1. PICK step \in [A \X (1..n) -> A] :
          \A plan \in A, i \in 1..n : step[<<plan, i>>] = Consider(plan, batch[i])
    <3> DEFINE considered == [p \in A \X (1..n) |-> Consider(p[1], batch[p[2]])]
    <3>1. considered \in [A \X (1..n) -> A]
      OBVIOUS
    <3>2. \A plan \in A, i \in 1..n : considered[<<plan, i>>] = Consider(plan, batch[i])
      OBVIOUS
    <3> HIDE DEF considered
    <3>3. QED
      BY <3>1, <3>2
  <2> HIDE DEF made, fold
  <2> PICK base : base = <<>>
    OBVIOUS
  <2>2. PICK g \in [SUBSET (1..n) -> A] : FoldsList(g, base, step, n)
    BY <2>1, ListFoldIsThere
  <2>3. \A s \in SUBSET (1..n) : g[s] = IF s = {} THEN <<>> ELSE Consider(g[s \ {Max(s)}], batch[Max(s)])
    BY <1>2, <2>1, <2>2 DEF FoldsList
  <2>4. g = made(g)
    BY <2>2, <2>3 DEF made
  <2>5. QED
    BY <2>4
<1>4. PICK h : h = made(h) /\ h = fold
  BY <1>3
<1>5. h[{}] = <<>> /\ \A s \in SUBSET (1..n) : s # {} => h[s] = Consider(h[s \ {Max(s)}], batch[Max(s)])
  BY <1>4
<1> HIDE DEF fold, made
<1>6. h[1..n] \in A
  <2>1. h[{}] \in A
    BY <1>5
  <2>2. \A s \in SUBSET (1..n) : s # {} /\ h[s \ {Max(s)}] \in A => h[s] \in A
    BY <1>2, <1>5
  <2>3. QED
    BY <2>1, <2>2, ListFoldLands
<1>7. QED
  BY <1>1, <1>4, <1>6

\* So is what is kept of an attribute's values.
LEMMA ValuesLand ==
    ASSUME NEW A, <<>> \in A, NEW n \in Nat, NEW values, DOMAIN values = 1..n,
           \A kept \in A, i \in 1..n : KeepFirst(kept, values[i]) \in A
    PROVE  SanitizedValues(values) \in A
<1> DEFINE made(h) == [s \in SUBSET (1..n) |->
                         IF s = {} THEN <<>> ELSE KeepFirst(h[s \ {Max(s)}], values[Max(s)])]
           fold == CHOOSE h : h = made(h)
<1>1. SanitizedValues(values) = fold[1..n]
  BY DEF SanitizedValues, FoldLeft, MapThenFoldSet
<1>2. \A s \in SUBSET (1..n) : s # {} => Max(s) \in 1..n
  BY LastPlaces
<1>3. \E h : h = made(h)
  <2>1. PICK step \in [A \X (1..n) -> A] :
          \A kept \in A, i \in 1..n : step[<<kept, i>>] = KeepFirst(kept, values[i])
    <3> DEFINE keeps == [p \in A \X (1..n) |-> KeepFirst(p[1], values[p[2]])]
    <3>1. keeps \in [A \X (1..n) -> A]
      OBVIOUS
    <3>2. \A kept \in A, i \in 1..n : keeps[<<kept, i>>] = KeepFirst(kept, values[i])
      OBVIOUS
    <3> HIDE DEF keeps
    <3>3. QED
      BY <3>1, <3>2
  <2> HIDE DEF made, fold
  <2> PICK base : base = <<>>
    OBVIOUS
  <2>2. PICK g \in [SUBSET (1..n) -> A] : FoldsList(g, base, step, n)
    BY <2>1, ListFoldIsThere
  <2>3. \A s \in SUBSET (1..n) : g[s] = IF s = {} THEN <<>> ELSE KeepFirst(g[s \ {Max(s)}], values[Max(s)])
    BY <1>2, <2>1, <2>2 DEF FoldsList
  <2>4. g = made(g)
    BY <2>2, <2>3 DEF made
  <2>5. QED
    BY <2>4
<1>4. PICK h : h = made(h) /\ h = fold
  BY <1>3
<1>5. h[{}] = <<>> /\ \A s \in SUBSET (1..n) : s # {} => h[s] = KeepFirst(h[s \ {Max(s)}], values[Max(s)])
  BY <1>4
<1> HIDE DEF fold, made
<1>6. h[1..n] \in A
  <2>1. h[{}] \in A
    BY <1>5
  <2>2. \A s \in SUBSET (1..n) : s # {} /\ h[s \ {Max(s)}] \in A => h[s] \in A
    BY <1>2, <1>5
  <2>3. QED
    BY <2>1, <2>2, ListFoldLands
<1>7. QED
  BY <1>1, <1>4, <1>6

\* And a proposal, of what Gemini answered.
LEMMA ProposalLands ==
    ASSUME NEW A, <<>> \in A, NEW n \in Nat, DOMAIN raw = 1..n,
           \A proposed \in A, i \in 1..n : Sanitize(proposed, raw[i]) \in A
    PROVE  Proposal \in A
<1> DEFINE made(h) == [s \in SUBSET (1..n) |->
                         IF s = {} THEN <<>> ELSE Sanitize(h[s \ {Max(s)}], raw[Max(s)])]
           fold == CHOOSE h : h = made(h)
<1>1. Proposal = fold[1..n]
  BY DEF Proposal, FoldLeft, MapThenFoldSet
<1>2. \A s \in SUBSET (1..n) : s # {} => Max(s) \in 1..n
  BY LastPlaces
<1>3. \E h : h = made(h)
  <2>1. PICK step \in [A \X (1..n) -> A] :
          \A proposed \in A, i \in 1..n : step[<<proposed, i>>] = Sanitize(proposed, raw[i])
    <3> DEFINE sanitized == [p \in A \X (1..n) |-> Sanitize(p[1], raw[p[2]])]
    <3>1. sanitized \in [A \X (1..n) -> A]
      OBVIOUS
    <3>2. \A proposed \in A, i \in 1..n : sanitized[<<proposed, i>>] = Sanitize(proposed, raw[i])
      OBVIOUS
    <3> HIDE DEF sanitized
    <3>3. QED
      BY <3>1, <3>2
  <2> HIDE DEF made, fold
  <2> PICK base : base = <<>>
    OBVIOUS
  <2>2. PICK g \in [SUBSET (1..n) -> A] : FoldsList(g, base, step, n)
    BY <2>1, ListFoldIsThere
  <2>3. \A s \in SUBSET (1..n) : g[s] = IF s = {} THEN <<>> ELSE Sanitize(g[s \ {Max(s)}], raw[Max(s)])
    BY <1>2, <2>1, <2>2 DEF FoldsList
  <2>4. g = made(g)
    BY <2>2, <2>3 DEF made
  <2>5. QED
    BY <2>4
<1>4. PICK h : h = made(h) /\ h = fold
  BY <1>3
<1>5. h[{}] = <<>> /\ \A s \in SUBSET (1..n) : s # {} => h[s] = Sanitize(h[s \ {Max(s)}], raw[Max(s)])
  BY <1>4
<1> HIDE DEF fold, made
<1>6. h[1..n] \in A
  <2>1. h[{}] \in A
    BY <1>5
  <2>2. \A s \in SUBSET (1..n) : s # {} /\ h[s \ {Max(s)}] \in A => h[s] \in A
    BY <1>2, <1>5
  <2>3. QED
    BY <2>1, <2>2, ListFoldLands
<1>7. QED
  BY <1>1, <1>4, <1>6

-----------------------------------------------------------------------------
\* What a proposal is.

LEMMA Appended ==
    ASSUME NEW S, NEW list \in Seq(S), NEW item \in S
    PROVE  /\ Append(list, item) \in Seq(S)
           /\ Len(list) \in Nat /\ DOMAIN list = 1..Len(list)
           /\ DOMAIN Append(list, item) = 1..(Len(list) + 1)
           /\ \A i \in DOMAIN list : list[i] \in S /\ Append(list, item)[i] = list[i]
           /\ Append(list, item)[Len(list) + 1] = item
<1>1. /\ Append(list, item) \in Seq(S) /\ Len(Append(list, item)) = Len(list) + 1
      /\ \A i \in 1..Len(list) : Append(list, item)[i] = list[i]
      /\ Append(list, item)[Len(list) + 1] = item
  BY AppendProperties
<1>2. DOMAIN list = 1..Len(list) /\ Len(list) \in Nat
  BY LenProperties
<1>3. DOMAIN Append(list, item) = 1..(Len(list) + 1)
  BY <1>1, LenProperties
<1>4. \A i \in 1..Len(list) : list[i] \in S
  BY ElementOfSeq
<1>5. QED
  BY <1>1, <1>2, <1>3, <1>4

LEMMA ValuesAreOptions ==
    ASSUME NEW values \in Seq(RawOption)
    PROVE  SanitizedValues(values) \in Seq(RawOption)
<1> DEFINE A == Seq(RawOption)
<1>1. <<>> \in A
  OBVIOUS
<1>2. Len(values) \in Nat /\ DOMAIN values = 1..Len(values) /\ \A i \in 1..Len(values) : values[i] \in RawOption
  BY LenProperties, ElementOfSeq
<1>3. \A kept \in A, i \in 1..Len(values) : KeepFirst(kept, values[i]) \in A
  BY <1>2, AppendProperties DEF KeepFirst
<1> HIDE DEF A
<1>4. SanitizedValues(values) \in A
  BY <1>1, <1>2, <1>3, ValuesLand
<1>5. QED
  BY <1>4 DEF A

\* Finitely many places hold finitely many things.
LEMMA FinitelyMany ==
    ASSUME NEW T, IsFiniteSet(T), NEW f, NEW R, \A r \in R : \E t \in T : r = f[t]
    PROVE  IsFiniteSet(R)
<1> DEFINE D == {t \in T : f[t] \in R}
           g == [t \in D |-> f[t]]
<1>1. IsFiniteSet(D)
  BY FS_Subset
<1>2. g \in Surjection(D, R)
  BY DEF Surjection
<1> HIDE DEF D, g
<1>3. QED
  BY <1>1, <1>2, FS_Surjection

DraftRow == [name : Name, key : {NoKey} \cup Slug,
             style : {"list", "chip", "swatch"}, values : Seq(RawOption)]

EachNameOnce(list) == \A i, j \in DOMAIN list : list[i].name = list[j].name => i = j

\* A list of proposals: nothing is refused, and every name is there once.
Drafts == {list \in Seq(DraftRow) : EachNameOnce(list) /\ \A i \in DOMAIN list : DraftIsValid(list[i])}

LEMMA CandidateIsSlug ==
    ASSUME NEW name \in Name, NEW key \in {NoKey} \cup Slug
    PROVE  Candidate(name, key) \in Slug
<1>1. WordsOf[name] \in STRING
  BY WordsOfNames
<1>2. <<WordsOf[name]>> \in Slug
  BY <1>1 DEF Slug, Token
<1>3. QED
  BY <1>2 DEF Candidate

\* A list gets a draft that is valid and has a name of its own.
LEMMA DraftAdded ==
    ASSUME NEW list \in Drafts, NEW draft \in DraftRow, DraftIsValid(draft),
           \A i \in DOMAIN list : list[i].name # draft.name
    PROVE  Append(list, draft) \in Drafts
<1>1. list \in Seq(DraftRow) /\ EachNameOnce(list) /\ \A i \in DOMAIN list : DraftIsValid(list[i])
  BY DEF Drafts
<1> PICK longer : longer = Append(list, draft)
  OBVIOUS
<1>2. /\ longer \in Seq(DraftRow) /\ Len(list) \in Nat /\ DOMAIN list = 1..Len(list)
      /\ DOMAIN longer = 1..(Len(list) + 1)
      /\ \A i \in DOMAIN list : longer[i] = list[i]
      /\ longer[Len(list) + 1] = draft
  BY <1>1, Appended
<1>3. \A i \in DOMAIN longer : i \in DOMAIN list \/ i = Len(list) + 1
  BY <1>2
<1>4. \A i \in DOMAIN longer : DraftIsValid(longer[i])
  BY <1>1, <1>2, <1>3
<1>5. EachNameOnce(longer)
  BY <1>1, <1>2, <1>3 DEF EachNameOnce
<1>6. QED
  BY <1>2, <1>4, <1>5 DEF Drafts

\* The style shown goes with the values left.
LEMMA StyleGoesWithValues ==
    ASSUME NEW values \in Seq(RawOption), NEW asked \in {"list", "chip", "swatch", "unknown"}
    PROVE  LET look == ShownStyle(asked, values)
               left == IF look = "swatch" THEN values ELSE Uncolored(values)
           IN  /\ look \in {"list", "chip", "swatch"} /\ left \in Seq(RawOption)
               /\ PairingHolds(look, left) /\ Len(left) = Len(values)
<1> DEFINE look == ShownStyle(asked, values)
<1>1. DOMAIN values = 1..Len(values) /\ Len(values) \in Nat /\ \A i \in DOMAIN values : values[i] \in RawOption
  BY LenProperties, ElementOfSeq
<1>2. look \in {"list", "chip", "swatch"}
  BY DEF ShownStyle
<1>3. CASE look = "swatch"
  <2>1. \A i \in DOMAIN values : values[i].hex
    BY <1>3 DEF ShownStyle
  <2>2. QED
    BY <1>2, <1>3, <2>1 DEF PairingHolds
<1>4. CASE look # "swatch"
  <2> PICK plain : plain = Uncolored(values)
    OBVIOUS
  <2>1. DOMAIN plain = 1..Len(values) /\ \A i \in 1..Len(values) : plain[i] \in RawOption /\ plain[i].hex = FALSE
    BY <1>1 DEF Uncolored, RawOption
  <2>2. plain = [i \in 1..Len(values) |-> plain[i]]
    BY <1>1 DEF Uncolored
  <2>3. plain \in Seq(RawOption)
    BY <1>1, <2>1, <2>2, IsASeq
  <2>4. PairingHolds(look, plain)
    BY <1>4, <2>1 DEF PairingHolds
  <2>5. Len(plain) = Len(values)
    BY <1>1, <2>1, <2>3, LenProperties
  <2>6. QED
    BY <1>2, <1>4, <2>3, <2>4, <2>5
<1>5. QED
  BY <1>3, <1>4

LEMMA SanitizeStays ==
    ASSUME kind \in {"category", "attribute", "product"}, NEW list \in Drafts, NEW entry \in RawEntry
    PROVE  Sanitize(list, entry) \in Drafts
<1> DEFINE values == SanitizedValues(entry.values)
           look == ShownStyle(entry.style, values)
           left == IF look = "swatch" THEN values ELSE Uncolored(values)
           keys == {list[i].key : i \in DOMAIN list}
           slug == UniqueSlug(Candidate(entry.name, entry.key), keys)
           key == IF kind = "category" THEN NoKey ELSE slug
           bare == [name |-> entry.name, key |-> NoKey, style |-> "list", values |-> <<>>]
           full == [name |-> entry.name, key |-> key, style |-> look, values |-> left]
           skipped == \/ Len(list) = MaxProposed
                      \/ \E i \in DOMAIN list : list[i].name = entry.name
                      \/ kind # "category" /\ (IsReserved(key) \/ Len(values) \notin 2..MaxValues)
<1>1. Sanitize(list, entry) = IF skipped THEN list
                              ELSE IF kind = "category" THEN Append(list, bare) ELSE Append(list, full)
  BY DEF Sanitize
<1>2. /\ entry.name \in Name /\ entry.key \in {NoKey} \cup Slug
      /\ entry.style \in {"list", "chip", "swatch", "unknown"} /\ entry.values \in Seq(RawOption)
  <2>1. [{1} -> STRING] \subseteq Slug
    <3> SUFFICES ASSUME NEW word \in [{1} -> STRING] PROVE word \in Seq(Token)
      BY DEF Slug
    <3>1. word = [i \in 1..1 |-> word[i]] /\ \A i \in 1..1 : word[i] \in Token
      BY DEF Token
    <3>2. QED
      BY <3>1, IsASeq
  <2>2. QED
    BY <2>1 DEF RawEntry
<1>3. /\ look \in {"list", "chip", "swatch"} /\ left \in Seq(RawOption)
      /\ PairingHolds(look, left) /\ Len(left) = Len(values)
  <2>1. values \in Seq(RawOption)
    BY <1>2, ValuesAreOptions
  <2> HIDE DEF values
  <2>2. QED
    BY <1>2, <2>1, StyleGoesWithValues
<1>4. slug \in Slug
  <2>1. list \in Seq(DraftRow)
    BY DEF Drafts
  <2>2. IsFiniteSet(keys)
    <3>1. DOMAIN list = 1..Len(list) /\ Len(list) \in Nat
      BY <2>1, LenProperties
    <3>2. IsFiniteSet(DOMAIN list)
      BY <3>1, FS_Interval
    <3> PICK f : f = [i \in DOMAIN list |-> list[i].key]
      OBVIOUS
    <3> PICK R : R = keys
      OBVIOUS
    <3>3. \A r \in R : \E i \in DOMAIN list : r = f[i]
      OBVIOUS
    <3> HIDE DEF keys
    <3>4. QED
      BY <3>2, <3>3, FinitelyMany
  <2>3. QED
    BY <1>2, <2>2, CandidateIsSlug, SlugOfNumber
<1>5. CASE skipped
  BY <1>1, <1>5
<1>6. CASE ~skipped /\ kind = "category"
  <2>1. bare \in DraftRow
    BY <1>2 DEF DraftRow
  <2>2. DraftIsValid(bare)
    BY <1>6, NameBounds, EmptySeq DEF DraftIsValid, IsReserved, PairingHolds
  <2>3. QED
    BY <1>1, <1>6, <2>1, <2>2, DraftAdded
<1>7. CASE ~skipped /\ kind # "category"
  <2> HIDE DEF look, left, slug, values
  <2>1. full \in DraftRow
    BY <1>2, <1>3, <1>4, <1>7 DEF DraftRow
  <2>2. Candidate(full.name, full.key) = slug
    BY <1>4, <1>7, AnswersAreParsed DEF Candidate, Slug, Token
  <2>3. ~IsReserved(slug)
    BY <1>7 DEF IsReserved
  <2>4. Len(left) <= MaxValues
    BY <1>3, <1>7, NameBounds
  <2>5. DraftIsValid(full)
    BY <1>3, <2>2, <2>3, <2>4 DEF DraftIsValid
  <2>6. QED
    BY <1>1, <1>7, <2>1, <2>5, DraftAdded
<1>8. QED
  BY <1>5, <1>6, <1>7

LEMMA ProposalIsDrafts ==
    ASSUME kind \in {"category", "attribute", "product"}, raw \in Seq(RawEntry)
    PROVE  Proposal \in Drafts
<1> PICK A : A = Drafts
  OBVIOUS
<1> PICK n : n = Len(raw)
  OBVIOUS
<1>1. n \in Nat /\ DOMAIN raw = 1..n /\ \A i \in 1..n : raw[i] \in RawEntry
  BY LenProperties, ElementOfSeq
<1>2. <<>> \in A
  BY DEF Drafts, EachNameOnce
<1>3. \A list \in A, i \in 1..n : Sanitize(list, raw[i]) \in A
  BY <1>1, SanitizeStays
<1>4. Proposal \in A
  BY <1>1, <1>2, <1>3, ProposalLands
<1>5. QED
  BY <1>4

-----------------------------------------------------------------------------
\* What a plan is.

PlanRow == [name : Name, slug : Slug]

SlugsOf(plan) == {plan[i].slug : i \in DOMAIN plan}
NamesOf(plan) == {plan[i].name : i \in DOMAIN plan}

EachSlugOnce(plan) == \A i, j \in DOMAIN plan : plan[i].slug = plan[j].slug => i = j

\* A row has the name of a proposal, and the first number not taken for its candidate.
ComesFrom(row, proposal, taken) ==
    /\ row.name = proposal.name
    /\ \E k \in Nat \ {0} :
         /\ row.slug = Numbered(Candidate(proposal.name, proposal.key), k)
         /\ \A i \in 1..(k - 1) : Numbered(Candidate(proposal.name, proposal.key), i) \in taken

IsExplained(row, batch, taken) == \E j \in DOMAIN batch : ComesFrom(row, batch[j], taken)

IsPlan(plan, batch, names, taken) ==
    /\ EachNameOnce(plan) /\ EachSlugOnce(plan)
    /\ \A i \in DOMAIN plan : /\ plan[i].name \notin names /\ plan[i].slug \notin taken
                              /\ IsExplained(plan[i], batch, taken \cup SlugsOf(plan))

\* What explains a row goes on doing so while more is taken.
LEMMA ExplainedStays ==
    ASSUME NEW row, NEW batch, NEW taken, NEW more, taken \subseteq more, IsExplained(row, batch, taken)
    PROVE  IsExplained(row, batch, more)
BY DEF IsExplained, ComesFrom

\* One more row, of a name and a slug that are not there.
LEMMA PlanGrows ==
    ASSUME NEW batch, NEW names, NEW taken, NEW plan \in Seq(PlanRow), IsPlan(plan, batch, names, taken),
           NEW row \in PlanRow, row.name \notin names \cup NamesOf(plan),
           row.slug \notin taken \cup SlugsOf(plan), IsExplained(row, batch, taken \cup SlugsOf(plan))
    PROVE  Append(plan, row) \in Seq(PlanRow) /\ IsPlan(Append(plan, row), batch, names, taken)
<1> PICK longer : longer = Append(plan, row)
  OBVIOUS
<1>1. /\ longer \in Seq(PlanRow) /\ Len(plan) \in Nat /\ DOMAIN plan = 1..Len(plan)
      /\ DOMAIN longer = 1..(Len(plan) + 1)
      /\ \A i \in DOMAIN plan : longer[i] = plan[i]
      /\ longer[Len(plan) + 1] = row
  BY Appended
<1>2. \A i \in DOMAIN longer : i \in DOMAIN plan \/ i = Len(plan) + 1
  BY <1>1
<1>3. \A i \in DOMAIN plan : row.name # plan[i].name /\ row.slug # plan[i].slug
  BY DEF NamesOf, SlugsOf
<1>4. EachNameOnce(longer) /\ EachSlugOnce(longer)
  BY <1>1, <1>2, <1>3 DEF IsPlan, EachNameOnce, EachSlugOnce
<1>5. taken \cup SlugsOf(plan) \subseteq taken \cup SlugsOf(longer)
  BY <1>1 DEF SlugsOf
<1>6. ASSUME NEW i \in DOMAIN longer
      PROVE  /\ longer[i].name \notin names /\ longer[i].slug \notin taken
             /\ IsExplained(longer[i], batch, taken \cup SlugsOf(plan))
  <2>1. CASE i \in DOMAIN plan
    BY <1>1, <2>1 DEF IsPlan
  <2>2. CASE i = Len(plan) + 1
    BY <1>1, <2>2
  <2>3. QED
    BY <1>2, <2>1, <2>2
<1>7. \A i \in DOMAIN longer : IsExplained(longer[i], batch, taken \cup SlugsOf(longer))
  BY <1>5, <1>6, ExplainedStays
<1>8. QED
  BY <1>1, <1>4, <1>6, <1>7 DEF IsPlan

LEMMA SlugsAreFinite == ASSUME NEW plan \in Seq(PlanRow) PROVE IsFiniteSet(SlugsOf(plan))
<1> DEFINE f == [i \in DOMAIN plan |-> plan[i].slug]
<1>1. DOMAIN plan = 1..Len(plan) /\ Len(plan) \in Nat
  BY LenProperties
<1>2. IsFiniteSet(DOMAIN plan)
  BY <1>1, FS_Interval
<1>3. \A r \in SlugsOf(plan) : \E i \in DOMAIN plan : r = f[i]
  BY DEF SlugsOf
<1> HIDE DEF f
<1>4. QED
  BY <1>2, <1>3, FinitelyMany

LEMMA PlanIsPlan ==
    ASSUME NEW batch \in Seq(DraftRow), IsFiniteSet(Taken)
    PROVE  Plan(batch) \in Seq(PlanRow) /\ IsPlan(Plan(batch), batch, TakenNames, Taken)
<1> PICK taken : taken = Taken
  OBVIOUS
<1> PICK names : names = TakenNames
  OBVIOUS
<1> DEFINE A == {plan \in Seq(PlanRow) : IsPlan(plan, batch, names, taken)}
<1>1. <<>> \in A
  BY DEF IsPlan, EachNameOnce, EachSlugOnce
<1>2. Len(batch) \in Nat /\ DOMAIN batch = 1..Len(batch) /\ \A x \in 1..Len(batch) : batch[x] \in DraftRow
  BY LenProperties, ElementOfSeq
<1>3. ASSUME NEW plan \in A, NEW x \in 1..Len(batch) PROVE Consider(plan, batch[x]) \in A
  <2> PICK slugs : slugs = taken \cup SlugsOf(plan)
    OBVIOUS
  <2> PICK entry : entry = batch[x] /\ entry \in DraftRow
    BY <1>2
  <2> PICK candidate : candidate = Candidate(entry.name, entry.key)
    OBVIOUS
  <2>1. candidate \in Slug
    BY CandidateIsSlug DEF DraftRow
  <2>2. IsFiniteSet(slugs)
    <3>1. IsFiniteSet(SlugsOf(plan))
      BY SlugsAreFinite
    <3>2. QED
      BY <3>1, FS_Union
  <2> PICK row : row = [name |-> entry.name, slug |-> UniqueSlug(candidate, slugs)]
    OBVIOUS
  <2>3. row \in PlanRow /\ row.slug \notin slugs
    BY <2>1, <2>2, SlugOfNumber DEF PlanRow, DraftRow
  <2>4. IsExplained(row, batch, slugs)
    <3>1. PICK k \in Nat \ {0} :
            UniqueSlug(candidate, slugs) = Numbered(candidate, k) /\ IsFirstFree(candidate, k, slugs)
      BY <2>1, <2>2, UniqueSlugIsFree
    <3>2. ComesFrom(row, entry, slugs)
      BY <3>1 DEF ComesFrom, IsFirstFree
    <3>3. QED
      BY <1>2, <3>2 DEF IsExplained
  <2>5. Consider(plan, entry) = IF IsThere(entry, names \cup NamesOf(plan), slugs) THEN plan ELSE Append(plan, row)
    BY DEF Consider, NamesOf, SlugsOf
  <2>6. CASE IsThere(entry, names \cup NamesOf(plan), slugs)
    BY <2>5, <2>6
  <2>7. CASE ~IsThere(entry, names \cup NamesOf(plan), slugs)
    <3>1. row.name \notin names \cup NamesOf(plan)
      BY <2>7 DEF IsThere
    <3>2. plan \in Seq(PlanRow) /\ IsPlan(plan, batch, names, taken)
      OBVIOUS
    <3>3. QED
      BY <2>3, <2>4, <2>5, <2>7, <3>1, <3>2, PlanGrows
  <2>8. QED
    BY <2>6, <2>7
<1> HIDE DEF A
<1>4. Plan(batch) \in A
  BY <1>1, <1>2, <1>3, PlanLands
<1>5. QED
  BY <1>4 DEF A

-----------------------------------------------------------------------------
\* The table and the calls.

NamesSpec == InitNames /\ [][NextNames]_nameVars

Payload == {"unedited", "names"}
EntryRow == [name : Name, slug : Slug, payload : Payload \cup {"none"}]
SavingRow == [op : {"create", "rename"}, stamp : Nat, rivals : Nat, disturbed : BOOLEAN,
              name : Name, id : Nat, candidate : Slug, slug : Slug, retried : BOOLEAN]
ApplyingRow == [op : {"apply"}, stamp : Nat, rivals : Nat, disturbed : BOOLEAN,
                plan : Seq(PlanRow), payload : Payload]

NamesTyped ==
    /\ kind \in {"category", "attribute", "product"} /\ raw \in Seq(RawEntry)
    /\ filed \in Nat /\ calls \in Nat
    /\ DOMAIN entries \subseteq 1..filed /\ entries \in [DOMAIN entries -> EntryRow]
    /\ call \in [Clerk -> {NoCall} \cup SavingRow \cup ApplyingRow]

SlugsDiffer == \A d, e \in DOMAIN entries : entries[d].slug = entries[e].slug => d = e

Runs(c) == call[c].op # "none"

\* Each call has a time of its own, and a product that bears one got it from a call that is over.
StampsAreSpent ==
    /\ \A c \in Clerk : Runs(c) => call[c].stamp < calls
    /\ \A c, d \in Clerk : Runs(c) /\ Runs(d) /\ c # d => call[c].stamp # call[d].stamp
    /\ kind = "product" =>
         \A e \in DOMAIN entries :
           Len(entries[e].slug) > 2 =>
             /\ entries[e].slug[3] \in Nat /\ entries[e].slug[3] < calls
             /\ \A c \in Clerk : Runs(c) => entries[e].slug[3] # call[c].stamp

\* A slug that is not free any more was taken by a rival, after the one the retry was for.
SaverOK(c) ==
    call[c].op \in {"create", "rename"} =>
      /\ call[c].id <= filed /\ (call[c].op = "create" <=> call[c].id = 0)
      /\ Len(call[c].candidate) = 1
      /\ kind = "product" => Len(call[c].slug) <= 2 \/ call[c].slug[3] = call[c].stamp
      /\ call[c].retried => call[c].rivals >= 1
      /\ ~IsFree(call[c].id, call[c].slug) =>
           call[c].rivals >= 1 /\ (call[c].retried => call[c].rivals >= 2)

Batches ==
    [payload \in Payload |->
       [i \in DOMAIN Proposal |->
          IF payload = "unedited" THEN Proposal[i] ELSE [Proposal[i] EXCEPT !.key = NoKey]]]

\* A plan that will be refused, and one whose names nobody filed from the same payload.
IsLate(plan) == \E i \in DOMAIN plan : plan[i].slug \in Taken
IsUnserved(plan, payload) ==
    \A e \in DOMAIN entries : entries[e].payload = payload => entries[e].name \notin NamesOf(plan)

\* While nothing is removed or renamed, a plan is as good as when it was made, or late.
ApplierOK(c) ==
    call[c].op = "apply" =>
      /\ kind # "product" /\ call[c].plan # <<>> /\ EachSlugOnce(call[c].plan)
      /\ ~call[c].disturbed =>
           /\ EachNameOnce(call[c].plan)
           /\ \A i \in DOMAIN call[c].plan :
                IsExplained(call[c].plan[i], Batches[call[c].payload], Taken \cup SlugsOf(call[c].plan))
           /\ IsLate(call[c].plan) \/ IsUnserved(call[c].plan, call[c].payload)

NamesInv ==
    /\ NamesTyped /\ SlugsDiffer /\ StampsAreSpent
    /\ \A c \in Clerk : SaverOK(c) /\ ApplierOK(c)
    /\ NoNameTwice

-----------------------------------------------------------------------------
\* What a step leaves of the calls it is not made by.

LEMMA BatchesStay == ASSUME UNCHANGED <<kind, raw>> PROVE Batches' = Batches
<1>1. Proposal' = Proposal
  BY DEF Proposal, Sanitize, IsReserved, FoldLeft, MapThenFoldSet
<1>2. QED
  BY <1>1 DEF Batches

\* Only c's memory changes, and nothing in the table.
LEMMA OnlyCallMoves ==
    ASSUME NamesInv, NEW c \in Clerk, UNCHANGED <<kind, raw, entries, filed>>,
           NEW m \in {NoCall} \cup SavingRow \cup ApplyingRow, call' = [call EXCEPT ![c] = m],
           \/ m = NoCall /\ calls' = calls
           \/ Runs(c) /\ m.op # "none" /\ m.stamp = call[c].stamp /\ calls' = calls
           \/ m.op # "none" /\ m.stamp = calls /\ calls' = calls + 1,
           SaverOK(c)', ApplierOK(c)'
    PROVE  NamesInv'
<1>1. NamesTyped /\ calls \in Nat /\ calls' \in Nat /\ calls <= calls'
  BY DEF NamesInv, NamesTyped
<1>2. NamesTyped'
  BY <1>1 DEF NamesTyped
<1>3. \A d \in Clerk : call'[d] = IF d = c THEN m ELSE call[d]
  BY <1>1 DEF NamesTyped
<1>4. SlugsDiffer' /\ NoNameTwice'
  BY DEF NamesInv, SlugsDiffer, NoNameTwice
<1>5. ASSUME NEW d \in Clerk, d # c PROVE SaverOK(d)' /\ ApplierOK(d)'
  <2>1. call'[d] = call[d] /\ SaverOK(d) /\ ApplierOK(d)
    BY <1>3, <1>5 DEF NamesInv
  <2>2. Batches' = Batches /\ Taken' = Taken
    BY BatchesStay DEF Taken
  <2>3. SaverOK(d)'
    BY <2>1 DEF SaverOK, IsFree
  <2>4. ApplierOK(d)'
    <3> PICK k : k = call[d] /\ k = call'[d]
      BY <2>1
    <3> PICK batches : batches = Batches /\ batches = Batches'
      BY <2>2
    <3> PICK taken : taken = Taken /\ taken = Taken'
      BY <2>2
    <3>1. (IsLate(k.plan) <=> IsLate(k.plan)') /\ (IsUnserved(k.plan, k.payload) <=> IsUnserved(k.plan, k.payload)')
      BY DEF IsLate, IsUnserved
    <3>2. QED
      BY <2>1, <3>1, Zenon DEF ApplierOK
  <2>5. QED
    BY <2>3, <2>4
<1>6. \A d \in Clerk : d # c => (Runs(d)' <=> Runs(d)) /\ call'[d].stamp = call[d].stamp
  BY <1>3 DEF Runs
<1>7. StampsAreSpent'
  <2>1. StampsAreSpent
    BY DEF NamesInv
  <2>2. Runs(c)' => \/ Runs(c) /\ call'[c].stamp = call[c].stamp /\ calls' = calls
                    \/ call'[c].stamp = calls /\ calls' = calls + 1
    BY <1>3 DEF Runs, NoCall
  <2>3. \A d \in Clerk : Runs(d) => call[d].stamp \in Nat
    BY <1>1 DEF NamesTyped, Runs, NoCall, SavingRow, ApplyingRow
  <2>4. \A d \in Clerk : Runs(d)' => call'[d].stamp < calls'
    BY <1>1, <1>6, <2>1, <2>2, <2>3 DEF StampsAreSpent
  <2>5. \A d, e \in Clerk : Runs(d)' /\ Runs(e)' /\ d # e => call'[d].stamp # call'[e].stamp
    BY <1>1, <1>6, <2>1, <2>2, <2>3 DEF StampsAreSpent
  <2>6. ASSUME kind = "product", NEW e \in DOMAIN entries, Len(entries[e].slug) > 2
        PROVE  /\ entries[e].slug[3] \in Nat /\ entries[e].slug[3] < calls'
               /\ \A d \in Clerk : Runs(d)' => entries[e].slug[3] # call'[d].stamp
    <3>1. /\ entries[e].slug[3] \in Nat /\ entries[e].slug[3] < calls
          /\ \A d \in Clerk : Runs(d) => entries[e].slug[3] # call[d].stamp
      BY <2>1, <2>6 DEF StampsAreSpent
    <3>2. QED
      BY <1>1, <1>6, <2>2, <3>1
  <2>7. QED
    BY <2>4, <2>5, <2>6 DEF StampsAreSpent
<1>8. QED
  BY <1>2, <1>4, <1>5, <1>7 DEF NamesInv

\* What the others remember after a write.
Remembered(d, wrote, cleared) ==
    call'[d] = IF call[d] = NoCall THEN call[d]
               ELSE [call[d] EXCEPT !.rivals = @ + wrote, !.disturbed = @ \/ cleared]

LEMMA OthersRemember ==
    ASSUME NamesTyped, NEW d \in Clerk, NEW wrote \in Nat, NEW cleared \in BOOLEAN,
           Remembered(d, wrote, cleared)
    PROVE  /\ call'[d] \in {NoCall} \cup SavingRow \cup ApplyingRow
           /\ call'[d].op = call[d].op /\ (Runs(d) => call'[d].stamp = call[d].stamp)
           /\ call[d].op \in {"create", "rename"} =>
                /\ call[d] \in SavingRow /\ call'[d].id = call[d].id /\ call'[d].candidate = call[d].candidate
                /\ call'[d].slug = call[d].slug /\ call'[d].retried = call[d].retried
                /\ call'[d].rivals = call[d].rivals + wrote
           /\ call[d].op = "apply" =>
                /\ call[d] \in ApplyingRow /\ call'[d].plan = call[d].plan
                /\ call'[d].payload = call[d].payload
                /\ ~call'[d].disturbed => ~call[d].disturbed /\ ~cleared
<1>1. call[d] \in {NoCall} \cup SavingRow \cup ApplyingRow
  BY DEF NamesTyped
<1>2. CASE call[d] = NoCall
  BY <1>2 DEF Remembered, NoCall, Runs
<1>3. CASE call[d] \in SavingRow
  <2>1. call[d] # NoCall /\ call[d].op \in {"create", "rename"}
    BY <1>3 DEF SavingRow, NoCall
  <2>2. call'[d] = [call[d] EXCEPT !.rivals = @ + wrote, !.disturbed = @ \/ cleared]
    BY <2>1 DEF Remembered
  <2>3. call[d].rivals + wrote \in Nat /\ (call[d].disturbed \/ cleared) \in BOOLEAN
    BY <1>3 DEF SavingRow
  <2>4. QED
    BY <1>3, <2>1, <2>2, <2>3 DEF SavingRow
<1>4. CASE call[d] \in ApplyingRow
  <2>1. call[d] # NoCall /\ call[d].op = "apply"
    BY <1>4 DEF ApplyingRow, NoCall
  <2>2. call'[d] = [call[d] EXCEPT !.rivals = @ + wrote, !.disturbed = @ \/ cleared]
    BY <2>1 DEF Remembered
  <2>3. call[d].rivals + wrote \in Nat /\ (call[d].disturbed \/ cleared) \in BOOLEAN
    BY <1>4 DEF ApplyingRow
  <2>4. QED
    BY <1>4, <2>1, <2>2, <2>3 DEF ApplyingRow
<1>5. QED
  BY <1>1, <1>2, <1>3, <1>4

\* A save has one more rival for each row that could have taken its slug.
LEMMA SaversGoOn ==
    ASSUME NamesTyped, NEW d \in Clerk, SaverOK(d), NEW wrote \in Nat, NEW cleared \in BOOLEAN,
           Remembered(d, wrote, cleared), kind' = kind, filed <= filed', filed' \in Nat,
           wrote >= 1 \/ \A e \in DOMAIN entries' : e \in DOMAIN entries /\ entries'[e] = entries[e]
    PROVE  SaverOK(d)'
<1> SUFFICES ASSUME call[d].op \in {"create", "rename"} PROVE SaverOK(d)'
  BY OthersRemember DEF SaverOK
<1> PICK k : k = call[d]
  OBVIOUS
<1>1. /\ k \in SavingRow /\ call'[d].op = k.op /\ call'[d].id = k.id /\ call'[d].candidate = k.candidate
      /\ call'[d].slug = k.slug /\ call'[d].retried = k.retried /\ call'[d].stamp = k.stamp
      /\ call'[d].rivals = k.rivals + wrote
  BY OthersRemember DEF Runs
<1>2. /\ k.id <= filed /\ (k.op = "create" <=> k.id = 0) /\ Len(k.candidate) = 1
      /\ (kind = "product" => Len(k.slug) <= 2 \/ k.slug[3] = k.stamp)
      /\ (k.retried => k.rivals >= 1)
      /\ (~IsFree(k.id, k.slug) => k.rivals >= 1 /\ (k.retried => k.rivals >= 2))
  BY DEF SaverOK
<1>3. k.id \in Nat /\ k.rivals \in Nat /\ filed \in Nat
  BY <1>1 DEF SavingRow, NamesTyped
<1>4. k.id <= filed' /\ (k.retried => k.rivals + wrote >= 1)
  BY <1>2, <1>3
<1>5. ~IsFree(k.id, k.slug)' => k.rivals + wrote >= 1 /\ (k.retried => k.rivals + wrote >= 2)
  <2>1. CASE wrote >= 1
    BY <1>2, <1>3, <2>1
  <2>2. CASE \A e \in DOMAIN entries' : e \in DOMAIN entries /\ entries'[e] = entries[e]
    <3>1. IsFree(k.id, k.slug) => IsFree(k.id, k.slug)'
      BY <2>2 DEF IsFree
    <3>2. QED
      BY <1>2, <1>3, <3>1
  <2>3. QED
    BY <2>1, <2>2
<1>6. QED
  BY <1>1, <1>2, <1>4, <1>5 DEF SaverOK

\* More is taken, and who has filed names of a plan in time has made it late.
OnlyFiled(d) ==
    /\ Taken \subseteq Taken'
    /\ \A plan, payload :
         /\ call[d].op = "apply" /\ ~call[d].disturbed
         /\ call[d].plan = plan /\ call[d].payload = payload
         /\ IsUnserved(plan, payload) /\ ~IsLate(plan)
         => IsLate(plan)' \/ IsUnserved(plan, payload)'

\* A plan nothing disturbed is as good as before, if who else filed its names made it late.
LEMMA AppliersGoOn ==
    ASSUME NamesTyped, NEW d \in Clerk, ApplierOK(d), NEW wrote \in Nat, NEW cleared \in BOOLEAN,
           Remembered(d, wrote, cleared), UNCHANGED <<kind, raw>>,
           cleared \/ OnlyFiled(d)
    PROVE  ApplierOK(d)'
<1> SUFFICES ASSUME call[d].op = "apply" PROVE ApplierOK(d)'
  BY OthersRemember DEF ApplierOK
<1> PICK k : k = call[d]
  OBVIOUS
<1>1. /\ k \in ApplyingRow /\ call'[d].op = k.op /\ call'[d].plan = k.plan /\ call'[d].payload = k.payload
      /\ ~call'[d].disturbed => ~k.disturbed /\ ~cleared
  BY OthersRemember
<1>2. /\ kind # "product" /\ k.plan # <<>> /\ EachSlugOnce(k.plan)
      /\ ~k.disturbed =>
           /\ EachNameOnce(k.plan)
           /\ \A i \in DOMAIN k.plan : IsExplained(k.plan[i], Batches[k.payload], Taken \cup SlugsOf(k.plan))
           /\ IsLate(k.plan) \/ IsUnserved(k.plan, k.payload)
  BY DEF ApplierOK
<1>3. ASSUME ~call'[d].disturbed
      PROVE  /\ EachNameOnce(k.plan)
             /\ \A i \in DOMAIN k.plan :
                  IsExplained(k.plan[i], Batches'[k.payload], Taken' \cup SlugsOf(k.plan))
             /\ IsLate(k.plan)' \/ IsUnserved(k.plan, k.payload)'
  <2>1. ~k.disturbed /\ Taken \subseteq Taken'
    BY <1>1, <1>3 DEF OnlyFiled
  <2> PICK batch : batch = Batches[k.payload] /\ batch = Batches'[k.payload]
    BY BatchesStay
  <2> PICK taken : taken = Taken \cup SlugsOf(k.plan)
    OBVIOUS
  <2> PICK more : more = Taken' \cup SlugsOf(k.plan)
    OBVIOUS
  <2>2. taken \subseteq more /\ \A i \in DOMAIN k.plan : IsExplained(k.plan[i], batch, taken)
    BY <1>2, <2>1
  <2>3. \A i \in DOMAIN k.plan : IsExplained(k.plan[i], batch, more)
    BY <2>2, ExplainedStays
  <2>4. IsLate(k.plan) => IsLate(k.plan)'
    BY <2>1 DEF IsLate
  <2>5. IsLate(k.plan)' \/ IsUnserved(k.plan, k.payload)'
    BY <1>1, <1>2, <1>3, <2>1, <2>4 DEF OnlyFiled
  <2>6. QED
    BY <1>2, <2>1, <2>3, <2>5
<1>4. QED
  BY <1>1, <1>2, <1>3 DEF ApplierOK

\* One of two plans is late, or they have a slug in common.
Collide(p, q, taken) ==
    \/ \E x \in DOMAIN p : p[x].slug \in taken
    \/ \E y \in DOMAIN q : q[y].slug \in taken \cup SlugsOf(p)

\* Two plans of one batch that share a name share a slug, unless one of them is late.
LEMMA SameNameSameSlug ==
    ASSUME NEW batch, EachNameOnce(batch), NEW taken, NEW p, NEW q,
           NEW i \in DOMAIN p, IsExplained(p[i], batch, taken \cup SlugsOf(p)),
           NEW j \in DOMAIN q, IsExplained(q[j], batch, taken \cup SlugsOf(q)),
           p[i].name = q[j].name
    PROVE  Collide(p, q, taken)
<1>1. PICK x \in DOMAIN batch : ComesFrom(p[i], batch[x], taken \cup SlugsOf(p))
  BY DEF IsExplained
<1>2. PICK y \in DOMAIN batch : ComesFrom(q[j], batch[y], taken \cup SlugsOf(q))
  BY DEF IsExplained
<1>3. x = y
  BY <1>1, <1>2 DEF ComesFrom, EachNameOnce
<1> PICK candidate : candidate = Candidate(batch[x].name, batch[x].key)
  OBVIOUS
<1>4. PICK k \in Nat \ {0} : /\ p[i].slug = Numbered(candidate, k)
                             /\ \A n \in 1..(k - 1) : Numbered(candidate, n) \in taken \cup SlugsOf(p)
  BY <1>1 DEF ComesFrom
<1>5. PICK l \in Nat \ {0} : /\ q[j].slug = Numbered(candidate, l)
                             /\ \A n \in 1..(l - 1) : Numbered(candidate, n) \in taken \cup SlugsOf(q)
  BY <1>2, <1>3 DEF ComesFrom
<1>6. CASE k = l
  BY <1>4, <1>5, <1>6 DEF SlugsOf, Collide
<1>7. CASE k < l
  <2>1. p[i].slug \in taken \cup SlugsOf(q)
    BY <1>4, <1>5, <1>7
  <2>2. QED
    BY <2>1 DEF SlugsOf, Collide
<1>8. CASE l < k
  <2>1. q[j].slug \in taken \cup SlugsOf(p)
    BY <1>4, <1>5, <1>8
  <2>2. QED
    BY <2>1 DEF Collide
<1>9. QED
  BY <1>6, <1>7, <1>8

LEMMA TakenIsFinite == ASSUME NamesTyped PROVE IsFiniteSet(Taken) /\ Taken \subseteq Slug
<1> PICK ids : ids = DOMAIN entries
  OBVIOUS
<1> PICK f : f = [e \in DOMAIN entries |-> entries[e].slug]
  OBVIOUS
<1> PICK taken : taken = Taken
  OBVIOUS
<1>1. ids \subseteq 1..filed /\ filed \in Nat /\ \A e \in ids : entries[e] \in EntryRow
  BY DEF NamesTyped
<1> PICK n : n = filed
  OBVIOUS
<1>2. IsFiniteSet(ids)
  <2>1. n \in Nat /\ ids \subseteq 1..n
    BY <1>1
  <2>2. IsFiniteSet(1..n)
    BY <2>1, FS_Interval
  <2>3. QED
    BY <2>1, <2>2, FS_Subset
<1>3. \A r \in taken : \E e \in ids : r = f[e]
  BY DEF Taken
<1>4. IsFiniteSet(taken)
  BY <1>2, <1>3, FinitelyMany
<1>5. taken \subseteq Slug
  BY <1>1 DEF Taken, EntryRow
<1>6. QED
  BY <1>4, <1>5

-----------------------------------------------------------------------------
\* Every step keeps the invariant.

\* A save begins with a slug that is free.
LEMMA SaverBegins ==
    ASSUME NamesInv, NEW c \in Clerk, NEW op \in {"create", "rename"}, NEW name \in Name,
           NEW id \in Nat, id <= filed, op = "create" <=> id = 0,
           NEW candidate \in Slug, Len(candidate) = 1, NEW taken, IsFiniteSet(taken),
           \A e \in DOMAIN entries : e # id => entries[e].slug \in taken,
           Begin(c, op, [name |-> name, id |-> id, candidate |-> candidate,
                         slug |-> UniqueSlug(candidate, taken), retried |-> FALSE])
    PROVE  NamesInv'
<1>0. UniqueSlug(candidate, taken) \in Slug /\ UniqueSlug(candidate, taken) \notin taken
      /\ Len(UniqueSlug(candidate, taken)) <= 2
  <2> PICK slug : slug = UniqueSlug(candidate, taken)
    OBVIOUS
  <2>1. slug \in Slug /\ slug \notin taken /\ Len(slug) <= Len(candidate) + 1
    BY SlugOfNumber
  <2>2. Len(slug) \in Nat
    BY <2>1, LenProperties DEF Slug
  <2>3. QED
    BY <2>1, <2>2
<1> PICK slug : slug = UniqueSlug(candidate, taken)
  OBVIOUS
<1> PICK m : m = [op |-> op, stamp |-> calls, rivals |-> 0, disturbed |-> FALSE, name |-> name, id |-> id,
                  candidate |-> candidate, slug |-> slug, retried |-> FALSE]
  OBVIOUS
<1> DEFINE memory == [name |-> name, id |-> id, candidate |-> candidate, slug |-> slug, retried |-> FALSE]
           start == [op |-> op, stamp |-> calls, rivals |-> 0, disturbed |-> FALSE]
<1>1. Spread(memory, start) = m
  <2> PICK made : made = Spread(memory, start)
    OBVIOUS
  <2>1. /\ DOMAIN made = {"name", "id", "candidate", "slug", "retried", "op", "stamp", "rivals", "disturbed"}
        /\ made.name = name /\ made.id = id /\ made.candidate = candidate /\ made.slug = slug
        /\ made.retried = FALSE /\ made.op = op /\ made.stamp = calls /\ made.rivals = 0
        /\ made.disturbed = FALSE
    BY DEF Spread
  <2>2. made = [f \in DOMAIN made |-> made[f]]
    BY DEF Spread
  <2> HIDE DEF memory, start
  <2>3. QED
    BY <2>1, <2>2
<1>2. NamesTyped /\ calls \in Nat
  BY DEF NamesInv, NamesTyped
<1>3. m \in SavingRow /\ m.op = op /\ m.stamp = calls
  BY <1>0, <1>2 DEF SavingRow
<1>4. call' = [call EXCEPT ![c] = m] /\ calls' = calls + 1 /\ UNCHANGED <<kind, raw, entries, filed>>
  BY <1>1, Zenon DEF Begin
<1>5. call'[c] = m
  BY <1>2, <1>4 DEF NamesTyped
<1>6. SaverOK(c)'
  <2>1. IsFree(id, slug)
    BY <1>0 DEF IsFree
  <2>2. QED
    BY <1>0, <1>4, <1>5, <2>1 DEF SaverOK, IsFree
<1>7. ApplierOK(c)'
  BY <1>3, <1>5 DEF ApplierOK
<1>8. m.op # "none"
  BY <1>3
<1>9. QED
  BY <1>3, <1>4, <1>6, <1>7, <1>8, OnlyCallMoves

LEMMA TypedWords == ASSUME NEW name \in Typed PROVE name \in Name /\ <<WordsOf[name]>> \in Slug
BY WordsOfNames DEF Slug, Token

LEMMA LoadCreateEntryKeeps == ASSUME NamesInv, NEW c \in Clerk, LoadCreateEntry(c) PROVE NamesInv'
<1>1. PICK name \in Typed :
        Begin(c, "create", [name |-> name, id |-> 0, candidate |-> Candidate(name, NoKey),
                            slug |-> UniqueSlug(Candidate(name, NoKey), Taken), retried |-> FALSE])
  BY DEF LoadCreateEntry
<1> PICK candidate : candidate = Candidate(name, NoKey)
  OBVIOUS
<1> PICK taken : taken = Taken
  OBVIOUS
<1>2. name \in Name /\ candidate \in Slug /\ Len(candidate) = 1
  BY TypedWords DEF Candidate
<1>3. IsFiniteSet(taken) /\ \A e \in DOMAIN entries : entries[e].slug \in taken
  BY TakenIsFinite DEF NamesInv, Taken
<1>4. 0 \in Nat /\ 0 <= filed
  BY DEF NamesInv, NamesTyped
<1>5. QED
  BY <1>1, <1>2, <1>3, <1>4, SaverBegins

LEMMA LoadRenameKeeps == ASSUME NamesInv, NEW c \in Clerk, LoadRename(c) PROVE NamesInv'
<1>1. PICK e \in DOMAIN entries, words \in {WordsOf[name] : name \in Typed} :
        Begin(c, "rename", [name |-> entries[e].name, id |-> e, candidate |-> <<words>>,
               slug |-> UniqueSlug(<<words>>, Taken \ {entries[e].slug}), retried |-> FALSE])
  BY DEF LoadRename
<1> PICK candidate : candidate = <<words>>
  OBVIOUS
<1> PICK taken : taken = Taken \ {entries[e].slug}
  OBVIOUS
<1> PICK name : name = entries[e].name
  OBVIOUS
<1>2. NamesTyped /\ SlugsDiffer
  BY DEF NamesInv
<1>3. name \in Name /\ e \in Nat /\ e <= filed /\ e # 0
  BY <1>2 DEF NamesTyped, EntryRow
<1>4. candidate \in Slug /\ Len(candidate) = 1
  BY TypedWords
<1>5. IsFiniteSet(taken)
  <2> PICK all : all = Taken
    OBVIOUS
  <2>1. IsFiniteSet(all) /\ taken \subseteq all
    BY <1>2, TakenIsFinite
  <2>2. QED
    BY <2>1, FS_Subset
<1>6. \A d \in DOMAIN entries : d # e => entries[d].slug \in taken
  BY <1>2 DEF Taken, SlugsDiffer
<1>7. QED
  BY <1>1, <1>3, <1>4, <1>5, <1>6, SaverBegins

\* The id a row will get has nobody, and 0 neither.
LEMMA TargetIsAsFree ==
    ASSUME NamesTyped, NEW c \in Clerk, SavesOne(c), SaverOK(c), NEW slug
    PROVE  IsFree(TargetOf(c), slug) <=> IsFree(call[c].id, slug)
<1>1. DOMAIN entries \subseteq 1..filed /\ filed \in Nat
  BY DEF NamesTyped
<1>2. CASE call[c].op = "create"
  <2>1. TargetOf(c) = filed + 1 /\ call[c].id = 0
    BY <1>2 DEF TargetOf, SaverOK
  <2>2. filed + 1 \notin DOMAIN entries /\ 0 \notin DOMAIN entries
    BY <1>1
  <2>3. QED
    BY <2>1, <2>2 DEF IsFree
<1>3. CASE call[c].op # "create"
  BY <1>3 DEF TargetOf
<1>4. QED
  BY <1>2, <1>3

LEMMA SaverIsTyped ==
    ASSUME NamesInv, NEW c \in Clerk, SavesOne(c)
    PROVE  call[c] \in SavingRow /\ Runs(c) /\ SaverOK(c) /\ NamesTyped
BY DEF NamesInv, NamesTyped, SavesOne, ApplyingRow, NoCall, Runs

\* The second slug is free when it is chosen.
LEMMA RetrySlugIsFree ==
    ASSUME NamesInv, NEW c \in Clerk, SavesOne(c), MayRetry(c)
    PROVE  /\ RetrySlug(c) \in Slug /\ IsFree(call[c].id, RetrySlug(c))
           /\ kind = "product" => RetrySlug(c)[3] = call[c].stamp
<1>1. call[c] \in SavingRow /\ Runs(c) /\ SaverOK(c) /\ NamesTyped
  BY SaverIsTyped
<1> PICK candidate : candidate = call[c].candidate
  OBVIOUS
<1> PICK stamp : stamp = call[c].stamp
  OBVIOUS
<1>2. candidate \in Slug /\ Len(candidate) = 1 /\ stamp \in Nat
  BY <1>1 DEF SavingRow, SaverOK, SavesOne
<1>3. CASE kind = "product"
  <2> PICK once : once = Append(candidate, 0)
    OBVIOUS
  <2> PICK twice : twice = Append(once, stamp)
    OBVIOUS
  <2>1. 0 \in Token /\ stamp \in Token
    BY <1>2 DEF Token
  <2>2. once \in Slug /\ Len(once) = 2
    BY <1>2, <2>1, AppendProperties DEF Slug
  <2>3. twice \in Slug /\ Len(twice) = 3 /\ twice[3] = stamp
    BY <2>1, <2>2, AppendProperties DEF Slug
  <2>4. \A e \in DOMAIN entries : entries[e].slug # twice
    BY <1>1, <1>3, <2>3 DEF NamesInv, StampsAreSpent
  <2>5. RetrySlug(c) = twice
    BY <1>3 DEF RetrySlug
  <2>6. QED
    BY <2>3, <2>4, <2>5 DEF IsFree
<1>4. CASE kind # "product"
  <2> PICK others : others = {entries[e].slug : e \in DOMAIN entries \ {call[c].id}}
    OBVIOUS
  <2>1. IsFiniteSet(others)
    <3> PICK taken : taken = Taken
      OBVIOUS
    <3>1. IsFiniteSet(taken) /\ others \subseteq taken
      BY <1>1, TakenIsFinite DEF Taken
    <3>2. QED
      BY <3>1, FS_Subset
  <2> PICK slug : slug = UniqueSlug(candidate, others)
    OBVIOUS
  <2>2. slug \in Slug /\ slug \notin others
    BY <1>2, <2>1, SlugOfNumber
  <2>3. RetrySlug(c) = slug
    BY <1>4 DEF RetrySlug
  <2>4. QED
    BY <1>4, <2>2, <2>3 DEF IsFree
<1>5. QED
  BY <1>3, <1>4

LEMMA RetryKeeps == ASSUME NamesInv, NEW c \in Clerk, Retry(c) PROVE NamesInv'
<1>1. SavesOne(c) /\ MayRetry(c) /\ ~IsFree(TargetOf(c), call[c].slug) /\ ~call[c].retried
  BY DEF Retry, MayRetry
<1>2. call[c] \in SavingRow /\ Runs(c) /\ SaverOK(c) /\ NamesTyped
  BY <1>1, SaverIsTyped
<1> PICK slug : slug = RetrySlug(c)
  OBVIOUS
<1> PICK m : m = [call[c] EXCEPT !.slug = slug, !.retried = TRUE]
  OBVIOUS
<1>3. slug \in Slug /\ IsFree(call[c].id, slug) /\ (kind = "product" => slug[3] = call[c].stamp)
  BY <1>1, RetrySlugIsFree
<1>4. m \in SavingRow /\ m.op = call[c].op /\ m.stamp = call[c].stamp /\ m.op # "none"
  BY <1>2, <1>3 DEF SavingRow
<1>5. call' = [call EXCEPT ![c] = m] /\ UNCHANGED <<kind, raw, entries, filed>> /\ calls' = calls
  BY DEF Retry
<1>6. call'[c] = m
  BY <1>2, <1>5 DEF NamesTyped
<1>7. call[c].rivals >= 1
  BY <1>1, <1>2, TargetIsAsFree DEF SaverOK, SavesOne
<1>8. SaverOK(c)'
  <2>1. /\ m.id = call[c].id /\ m.candidate = call[c].candidate /\ m.rivals = call[c].rivals
        /\ m.slug = slug /\ m.retried
    BY <1>2 DEF SavingRow
  <2>2. QED
    BY <1>1, <1>2, <1>3, <1>4, <1>5, <1>6, <1>7, <2>1 DEF SaverOK, IsFree, SavesOne
<1>9. ApplierOK(c)'
  BY <1>4, <1>6 DEF ApplierOK, SavingRow
<1>10. QED
  BY <1>2, <1>4, <1>5, <1>8, <1>9, OnlyCallMoves

\* A call that ends without a write.
LEMMA CallEnds ==
    ASSUME NamesInv, NEW c \in Clerk, call' = [call EXCEPT ![c] = NoCall],
           UNCHANGED <<kind, raw, entries, filed, calls>>
    PROVE  NamesInv'
<1>1. call'[c] = NoCall
  BY DEF NamesInv, NamesTyped
<1>2. SaverOK(c)' /\ ApplierOK(c)'
  BY <1>1 DEF SaverOK, ApplierOK, NoCall
<1>3. QED
  BY <1>2, OnlyCallMoves

LEMMA GivesUpKeeps == ASSUME NamesInv, NEW c \in Clerk, GivesUp(c) PROVE NamesInv'
BY CallEnds DEF GivesUp

LEMMA BatchIsDrafts ==
    ASSUME NamesTyped, NEW payload \in Payload
    PROVE  Batches[payload] \in Seq(DraftRow) /\ EachNameOnce(Batches[payload])
<1> PICK list : list = Proposal
  OBVIOUS
<1>1. list \in Seq(DraftRow) /\ EachNameOnce(list)
  BY ProposalIsDrafts DEF NamesTyped, Drafts
<1> PICK batch : batch = Batches[payload]
  OBVIOUS
<1>2. batch = [i \in DOMAIN list |-> IF payload = "unedited" THEN list[i] ELSE [list[i] EXCEPT !.key = NoKey]]
  BY DEF Batches
<1>3. DOMAIN list = 1..Len(list) /\ Len(list) \in Nat /\ \A i \in DOMAIN list : list[i] \in DraftRow
  BY <1>1, LenProperties, ElementOfSeq
<1>4. \A i \in DOMAIN list : batch[i] \in DraftRow /\ batch[i].name = list[i].name
  BY <1>2, <1>3 DEF DraftRow
<1>5. batch = [i \in 1..Len(list) |-> batch[i]]
  BY <1>2, <1>3
<1>6. batch \in Seq(DraftRow)
  BY <1>3, <1>4, <1>5, IsASeq
<1>7. EachNameOnce(batch)
  BY <1>1, <1>2, <1>4 DEF EachNameOnce
<1>8. QED
  BY <1>6, <1>7

LEMMA LoadApplyKeeps == ASSUME NamesInv, NEW c \in Clerk, LoadApply(c) PROVE NamesInv'
<1>1. PICK payload \in Payload :
        /\ Plan(Batches[payload]) # <<>>
        /\ Begin(c, "apply", [plan |-> Plan(Batches[payload]), payload |-> payload])
  <2>1. PICK keepKeys \in BOOLEAN :
         LET batch == [i \in DOMAIN Proposal |->
                         IF keepKeys THEN Proposal[i] ELSE [Proposal[i] EXCEPT !.key = NoKey]]
         IN  /\ MayApply(batch)
             /\ Begin(c, "apply", [plan |-> Plan(batch),
                    payload |-> IF keepKeys THEN "unedited" ELSE "names"])
    BY Zenon DEF LoadApply
  <2> PICK payload : payload = IF keepKeys THEN "unedited" ELSE "names"
    OBVIOUS
  <2> PICK batch : batch = [i \in DOMAIN Proposal |->
                         IF keepKeys THEN Proposal[i] ELSE [Proposal[i] EXCEPT !.key = NoKey]]
    OBVIOUS
  <2>2. payload \in Payload /\ batch = Batches[payload]
    BY DEF Payload, Batches
  <2>3. Plan(batch) # <<>> /\ Begin(c, "apply", [plan |-> Plan(batch), payload |-> payload])
    BY <2>1 DEF MayApply
  <2>4. QED
    BY <2>2, <2>3
<1>2. NamesTyped /\ calls \in Nat
  BY DEF NamesInv, NamesTyped
<1> PICK batch : batch = Batches[payload]
  OBVIOUS
<1> PICK plan : plan = Plan(batch)
  OBVIOUS
<1> PICK taken : taken = Taken
  OBVIOUS
<1> PICK names : names = TakenNames
  OBVIOUS
<1>3. plan \in Seq(PlanRow) /\ IsPlan(plan, batch, names, taken)
  BY <1>2, BatchIsDrafts, TakenIsFinite, PlanIsPlan
<1> PICK m : m = [op |-> "apply", stamp |-> calls, rivals |-> 0, disturbed |-> FALSE, plan |-> plan, payload |-> payload]
  OBVIOUS
<1> DEFINE memory == [plan |-> plan, payload |-> payload]
           start == [op |-> "apply", stamp |-> calls, rivals |-> 0, disturbed |-> FALSE]
<1>4. Spread(memory, start) = m
  <2> PICK made : made = Spread(memory, start)
    OBVIOUS
  <2>1. /\ DOMAIN made = {"plan", "payload", "op", "stamp", "rivals", "disturbed"}
        /\ made.plan = plan /\ made.payload = payload /\ made.op = "apply" /\ made.stamp = calls
        /\ made.rivals = 0 /\ made.disturbed = FALSE
    BY DEF Spread
  <2>2. made = [f \in DOMAIN made |-> made[f]]
    BY DEF Spread
  <2> HIDE DEF memory, start
  <2>3. QED
    BY <2>1, <2>2
<1>5. m \in ApplyingRow /\ m.op = "apply" /\ m.stamp = calls /\ m.op # "none"
  BY <1>2, <1>3 DEF ApplyingRow
<1>6. call' = [call EXCEPT ![c] = m] /\ calls' = calls + 1 /\ UNCHANGED <<kind, raw, entries, filed>>
  BY <1>1, <1>4, Zenon DEF Begin
<1>7. call'[c] = m
  BY <1>2, <1>6 DEF NamesTyped
<1>8. SaverOK(c)'
  BY <1>5, <1>7 DEF SaverOK
<1>9. ApplierOK(c)'
  <2>1. Batches'[payload] = batch /\ Taken' = taken
    BY <1>6, BatchesStay DEF Taken
  <2>2. kind' # "product" /\ plan # <<>>
    BY <1>1, <1>6 DEF LoadApply
  <2>3. IsUnserved(plan, payload)'
    BY <1>3, <1>6 DEF IsUnserved, IsPlan, TakenNames, NamesOf
  <2>4. /\ EachNameOnce(plan) /\ EachSlugOnce(plan)
        /\ \A i \in DOMAIN plan : IsExplained(plan[i], Batches'[payload], Taken' \cup SlugsOf(plan))
    BY <1>3, <2>1 DEF IsPlan
  <2>5. call'[c].plan = plan /\ call'[c].payload = payload
    BY <1>7
  <2>6. QED
    BY <2>2, <2>3, <2>4, <2>5 DEF ApplierOK
<1>10. QED
  BY <1>5, <1>6, <1>8, <1>9, OnlyCallMoves

-----------------------------------------------------------------------------
\* The steps that write to the table.

\* The table is written, once for all the calls that go on.
LEMMA TableIsWritten ==
    ASSUME NamesInv, NEW c \in Clerk, call'[c] = NoCall, call' = [d \in Clerk |-> call'[d]],
           NEW wrote \in Nat, NEW cleared \in BOOLEAN, \A d \in Clerk : d # c => Remembered(d, wrote, cleared),
           UNCHANGED <<kind, raw>>, calls' \in Nat, calls <= calls', filed' \in Nat, filed <= filed',
           DOMAIN entries' \subseteq 1..filed', entries' \in [DOMAIN entries' -> EntryRow],
           wrote >= 1 \/ \A e \in DOMAIN entries' : e \in DOMAIN entries /\ entries'[e] = entries[e],
           SlugsDiffer', NoNameTwice',
           \A d \in Clerk : d # c => ApplierOK(d)',
           kind = "product" =>
             \A e \in DOMAIN entries' : Len(entries'[e].slug) > 2 =>
               \/ entries'[e].slug \in Taken
               \/ Runs(c) /\ entries'[e].slug[3] = call[c].stamp
    PROVE  NamesInv'
<1>1. NamesTyped /\ StampsAreSpent
  BY DEF NamesInv
<1>2. \A d \in Clerk : d # c =>
        /\ call'[d] \in {NoCall} \cup SavingRow \cup ApplyingRow
        /\ call'[d].op = call[d].op /\ (Runs(d) => call'[d].stamp = call[d].stamp)
  BY <1>1, OthersRemember
<1>3. NamesTyped'
  <2>1. \A d \in Clerk : call'[d] \in {NoCall} \cup SavingRow \cup ApplyingRow
    BY <1>2
  <2>2. call' \in [Clerk -> {NoCall} \cup SavingRow \cup ApplyingRow]
    BY <2>1
  <2>3. QED
    BY <1>1, <2>2 DEF NamesTyped
<1>4. SaverOK(c)' /\ ApplierOK(c)' /\ ~Runs(c)'
  BY DEF SaverOK, ApplierOK, Runs, NoCall
<1>5. \A d \in Clerk : d # c => SaverOK(d)'
  BY <1>1, SaversGoOn DEF NamesInv
<1>6. \A d \in Clerk : Runs(d)' => d # c /\ Runs(d) /\ call'[d].stamp = call[d].stamp
  BY <1>2, <1>4 DEF Runs
<1>7. \A d \in Clerk : Runs(d) => call[d].stamp \in Nat
  BY <1>1 DEF NamesTyped, Runs, NoCall, SavingRow, ApplyingRow
<1>8. StampsAreSpent'
  <2>1. \A d \in Clerk : Runs(d)' => call'[d].stamp < calls'
    BY <1>1, <1>6, <1>7 DEF StampsAreSpent, NamesTyped
  <2>2. \A d, e \in Clerk : Runs(d)' /\ Runs(e)' /\ d # e => call'[d].stamp # call'[e].stamp
    BY <1>1, <1>6 DEF StampsAreSpent
  <2>3. ASSUME kind = "product", NEW e \in DOMAIN entries', Len(entries'[e].slug) > 2
        PROVE  /\ entries'[e].slug[3] \in Nat /\ entries'[e].slug[3] < calls'
               /\ \A d \in Clerk : Runs(d)' => entries'[e].slug[3] # call'[d].stamp
    <3> PICK slug : slug = entries'[e].slug
      OBVIOUS
    <3>1. slug[3] \in Nat /\ slug[3] < calls /\ \A d \in Clerk : Runs(d) /\ d # c => slug[3] # call[d].stamp
      <4>1. CASE slug \in Taken
        BY <1>1, <2>3, <4>1 DEF Taken, StampsAreSpent
      <4>2. CASE Runs(c) /\ slug[3] = call[c].stamp
        BY <1>1, <1>7, <4>2 DEF StampsAreSpent
      <4>3. QED
        BY <2>3, <4>1, <4>2
    <3>2. slug[3] < calls'
      BY <1>1, <3>1 DEF NamesTyped
    <3>3. QED
      BY <1>6, <3>1, <3>2
  <2>4. QED
    BY <2>1, <2>2, <2>3 DEF StampsAreSpent
<1>9. QED
  BY <1>3, <1>4, <1>5, <1>8 DEF NamesInv

LEMMA RemoveEntryKeeps == ASSUME NamesInv, NEW c \in Clerk, RemoveEntry(c) PROVE NamesInv'
<1>1. PICK gone \in DOMAIN entries : entries' = [d \in DOMAIN entries \ {gone} |-> entries[d]]
  BY DEF RemoveEntry
<1>2. call[c] = NoCall /\ call' = Meanwhile(c, 0, TRUE) /\ UNCHANGED <<kind, raw, filed>> /\ calls' = calls + 1
  BY DEF RemoveEntry
<1>3. NamesTyped
  BY DEF NamesInv
<1>4. call'[c] = NoCall /\ call' = [d \in Clerk |-> call'[d]] /\ \A d \in Clerk : d # c => Remembered(d, 0, TRUE)
  BY <1>2 DEF Meanwhile, Remembered
<1>5. \A e \in DOMAIN entries' : e \in DOMAIN entries /\ entries'[e] = entries[e]
  BY <1>1
<1>6. DOMAIN entries' \subseteq 1..filed' /\ entries' \in [DOMAIN entries' -> EntryRow]
  <2>1. \A e \in DOMAIN entries : entries[e] \in EntryRow
    BY <1>3 DEF NamesTyped
  <2>2. entries' \in [DOMAIN entries \ {gone} -> EntryRow]
    BY <1>1, <2>1
  <2>3. QED
    BY <1>1, <1>2, <1>3, <2>2 DEF NamesTyped
<1>7. SlugsDiffer' /\ NoNameTwice'
  BY <1>5 DEF NamesInv, SlugsDiffer, NoNameTwice
<1>8. \A d \in Clerk : d # c => ApplierOK(d)'
  BY <1>2, <1>3, <1>4, AppliersGoOn DEF NamesInv
<1>9. \A e \in DOMAIN entries' : entries'[e].slug \in Taken
  BY <1>5 DEF Taken
<1>10. calls' \in Nat /\ calls <= calls' /\ filed' \in Nat /\ filed <= filed'
  BY <1>2, <1>3 DEF NamesTyped
<1>11. QED
  BY <1>2, <1>4, <1>5, <1>6, <1>7, <1>8, <1>9, <1>10, TableIsWritten

LEMMA SaveEntryKeeps == ASSUME NamesInv, NEW c \in Clerk, SaveEntry(c) PROVE NamesInv'
<1>1. SavesOne(c) /\ IsFree(TargetOf(c), call[c].slug)
  BY DEF SaveEntry
<1>2. call[c] \in SavingRow /\ Runs(c) /\ SaverOK(c) /\ NamesTyped
  BY <1>1, SaverIsTyped
<1> PICK t : t = TargetOf(c)
  OBVIOUS
<1> PICK row : row = [name |-> call[c].name, slug |-> call[c].slug, payload |-> "none"]
  OBVIOUS
<1> PICK cleared \in BOOLEAN : cleared = (call[c].op = "rename")
  OBVIOUS
<1> PICK wrote \in Nat : wrote = 1
  OBVIOUS
<1>3. /\ entries' = Spread([e \in {t} |-> row], entries)
      /\ filed' = IF call[c].op = "create" THEN filed + 1 ELSE filed
      /\ call' = [Meanwhile(c, wrote, cleared) EXCEPT ![c] = NoCall]
      /\ UNCHANGED <<kind, raw, calls>>
  BY DEF SaveEntry
<1>4. /\ DOMAIN entries' = DOMAIN entries \cup {t} /\ entries'[t] = row
      /\ \A e \in DOMAIN entries' : e # t => e \in DOMAIN entries /\ entries'[e] = entries[e]
      /\ entries' = [e \in DOMAIN entries' |-> entries'[e]]
  BY <1>3 DEF Spread
<1>5. filed \in Nat /\ filed' \in Nat /\ filed <= filed' /\ calls \in Nat /\ call[c].id \in Nat
  BY <1>2, <1>3 DEF NamesTyped, SavingRow
<1>6. t \in 1..filed' /\ (~cleared => t \notin DOMAIN entries)
  <2>1. CASE call[c].op = "create"
    <3>1. t = filed + 1 /\ filed' = filed + 1
      BY <1>3, <2>1 DEF TargetOf
    <3>2. QED
      BY <1>2, <1>5, <3>1 DEF NamesTyped
  <2>2. CASE call[c].op = "rename"
    <3>1. t = call[c].id /\ filed' = filed /\ call[c].id <= filed /\ call[c].id # 0
      BY <1>2, <1>3, <2>2 DEF TargetOf, SaverOK
    <3>2. cleared
      BY <2>2
    <3>3. QED
      BY <1>5, <3>1, <3>2
  <2>3. QED
    BY <1>1, <2>1, <2>2 DEF SavesOne
<1>7. DOMAIN entries' \subseteq 1..filed' /\ entries' \in [DOMAIN entries' -> EntryRow]
  <2>1. row \in EntryRow
    BY <1>2 DEF SavingRow, EntryRow
  <2>2. \A e \in DOMAIN entries' : entries'[e] \in EntryRow
    BY <1>2, <1>4, <2>1 DEF NamesTyped
  <2>3. DOMAIN entries' \subseteq 1..filed'
    BY <1>2, <1>4, <1>5, <1>6 DEF NamesTyped
  <2> PICK table : table = entries'
    OBVIOUS
  <2> PICK ids : ids = DOMAIN entries'
    OBVIOUS
  <2>4. table = [e \in ids |-> table[e]] /\ \A e \in ids : table[e] \in EntryRow
    BY <1>4, <2>2
  <2>5. table \in [ids -> EntryRow]
    BY <2>4
  <2>6. QED
    BY <2>3, <2>5
<1>8. SlugsDiffer'
  BY <1>1, <1>4 DEF NamesInv, SlugsDiffer, IsFree
<1>9. NoNameTwice'
  BY <1>4 DEF NamesInv, NoNameTwice
<1>10. call'[c] = NoCall /\ call' = [d \in Clerk |-> call'[d]]
       /\ \A d \in Clerk : d # c => Remembered(d, wrote, cleared)
  BY <1>3, <1>2 DEF Meanwhile, Remembered
<1>11. ASSUME NEW d \in Clerk, d # c PROVE ApplierOK(d)'
  <2>1. CASE cleared
    BY <1>2, <1>3, <1>10, <1>11, <2>1, AppliersGoOn DEF NamesInv
  <2>2. CASE ~cleared
    <3>1. Taken \subseteq Taken'
      BY <1>4, <1>6, <2>2 DEF Taken
    <3>2. \A plan, payload : payload \in Payload /\ IsUnserved(plan, payload) => IsUnserved(plan, payload)'
      BY <1>4 DEF IsUnserved, Payload
    <3>3. call[d].op = "apply" => call[d].payload \in Payload
      BY <1>2 DEF NamesTyped, ApplyingRow, SavingRow, NoCall
    <3> PICK k : k = call[d]
      OBVIOUS
    <3>4. k.op = "apply" /\ IsUnserved(k.plan, k.payload) => IsUnserved(k.plan, k.payload)'
      BY <3>2, <3>3
    <3>5. OnlyFiled(d)
      BY <3>1, <3>4 DEF OnlyFiled
    <3>6. Remembered(d, wrote, cleared) /\ ApplierOK(d) /\ UNCHANGED <<kind, raw>>
      BY <1>3, <1>10, <1>11 DEF NamesInv
    <3>7. QED
      BY <1>2, <3>5, <3>6, AppliersGoOn
  <2>3. QED
    BY <2>1, <2>2
<1>12. kind = "product" =>
         \A e \in DOMAIN entries' : Len(entries'[e].slug) > 2 =>
           \/ entries'[e].slug \in Taken
           \/ Runs(c) /\ entries'[e].slug[3] = call[c].stamp
  <2> SUFFICES ASSUME kind = "product", NEW e \in DOMAIN entries', Len(entries'[e].slug) > 2, e = t
               PROVE  Runs(c) /\ entries'[e].slug[3] = call[c].stamp
    BY <1>4 DEF Taken
  <2>1. entries'[e].slug = call[c].slug
    BY <1>4
  <2>2. Len(call[c].slug) \in Nat
    BY <1>2, LenProperties DEF SavingRow, Slug
  <2>3. QED
    BY <1>1, <1>2, <2>1, <2>2 DEF SaverOK, SavesOne
<1>13. calls' \in Nat /\ calls <= calls' /\ UNCHANGED <<kind, raw>> /\ wrote >= 1
  BY <1>3, <1>5
<1>14. QED
  BY <1>5, <1>7, <1>8, <1>9, <1>10, <1>11, <1>12, <1>13, TableIsWritten

LEMMA CommitApplyKeeps == ASSUME NamesInv, NEW c \in Clerk, CommitApply(c) PROVE NamesInv'
<1> PICK k : k = call[c]
  OBVIOUS
<1> PICK plan : plan = k.plan
  OBVIOUS
<1>1. k.op = "apply" /\ UNCHANGED <<kind, raw, calls>>
  BY DEF CommitApply
<1>2. NamesTyped /\ ApplierOK(c) /\ k \in ApplyingRow
  BY <1>1 DEF NamesInv, NamesTyped, SavingRow, NoCall
<1>3. plan \in Seq(PlanRow) /\ k.payload \in Payload /\ k.disturbed \in BOOLEAN
  BY <1>2 DEF ApplyingRow
<1> PICK n : n = Len(plan)
  OBVIOUS
<1>4. n \in Nat /\ DOMAIN plan = 1..n /\ \A i \in 1..n : plan[i] \in PlanRow
  BY <1>3, LenProperties, ElementOfSeq
<1>5. /\ kind # "product" /\ plan # <<>> /\ EachSlugOnce(plan)
      /\ ~k.disturbed =>
           /\ EachNameOnce(plan)
           /\ \A i \in DOMAIN plan : IsExplained(plan[i], Batches[k.payload], Taken \cup SlugsOf(plan))
           /\ IsLate(plan) \/ IsUnserved(plan, k.payload)
  BY <1>1, <1>2 DEF ApplierOK
<1>6. CASE ~\A i \in DOMAIN plan : IsFree(0, plan[i].slug)
  <2>1. call' = [call EXCEPT ![c] = NoCall] /\ UNCHANGED <<entries, filed>>
    BY <1>6 DEF CommitApply
  <2>2. QED
    BY <1>1, <2>1, CallEnds
<1>7. CASE \A i \in DOMAIN plan : IsFree(0, plan[i].slug)
  <2> PICK new : new = filed + 1..filed + n
    OBVIOUS
  <2> PICK cleared \in BOOLEAN : cleared = FALSE
    OBVIOUS
  <2> PICK payload : payload = IF k.disturbed THEN "none" ELSE k.payload
    OBVIOUS
  <2> PICK rows : rows = [e \in new |-> [name |-> plan[e - filed].name, slug |-> plan[e - filed].slug,
                                         payload |-> payload]]
    OBVIOUS
  <2>1. /\ entries' = Spread(rows, entries) /\ filed' = filed + n
        /\ call' = [Meanwhile(c, n, cleared) EXCEPT ![c] = NoCall]
    BY <1>7 DEF CommitApply
  <2>2. filed \in Nat /\ filed' \in Nat /\ filed <= filed' /\ calls \in Nat /\ DOMAIN entries \subseteq 1..filed
    BY <1>2, <1>4, <2>1 DEF NamesTyped
  <2>3. n >= 1
    BY <1>3, <1>4, <1>5, EmptySeq
  <2>4. \A e \in new : e \in Nat /\ e \notin DOMAIN entries /\ e \in 1..filed' /\ e - filed \in DOMAIN plan
    BY <1>4, <2>1, <2>2
  <2>5. /\ DOMAIN entries' = DOMAIN entries \cup new
        /\ \A e \in new : entries'[e] = rows[e]
        /\ \A e \in DOMAIN entries : entries'[e] = entries[e]
        /\ entries' = [e \in DOMAIN entries' |-> entries'[e]]
    BY <2>1, <2>4 DEF Spread
  <2>6. ASSUME NEW e \in new
        PROVE  /\ entries'[e].name = plan[e - filed].name
               /\ entries'[e].slug = plan[e - filed].slug
               /\ entries'[e].payload = payload
               /\ entries'[e] \in EntryRow
    <3> PICK row : row = plan[e - filed] /\ row \in PlanRow
      BY <1>4, <2>4
    <3>1. entries'[e] = [name |-> row.name, slug |-> row.slug, payload |-> payload]
      BY <2>5
    <3>2. payload \in Payload \cup {"none"}
      BY <1>3
    <3>3. QED
      BY <3>1, <3>2 DEF PlanRow, EntryRow
  <2>7. DOMAIN entries' \subseteq 1..filed' /\ entries' \in [DOMAIN entries' -> EntryRow]
    <3>1. \A e \in DOMAIN entries' : entries'[e] \in EntryRow
      BY <1>2, <2>5, <2>6 DEF NamesTyped
    <3>2. DOMAIN entries' \subseteq 1..filed'
      BY <2>2, <2>4, <2>5
    <3> PICK table : table = entries'
      OBVIOUS
    <3> PICK ids : ids = DOMAIN entries'
      OBVIOUS
    <3>3. table = [e \in ids |-> table[e]] /\ \A e \in ids : table[e] \in EntryRow
      BY <2>5, <3>1
    <3>4. table \in [ids -> EntryRow]
      BY <3>3
    <3>5. QED
      BY <3>2, <3>4
  <2>8. \A i \in DOMAIN plan : plan[i].slug \notin Taken
    <3>1. 0 \notin DOMAIN entries
      BY <2>2
    <3>2. QED
      BY <1>7, <3>1 DEF IsFree, Taken
  <2>9. \A d, e \in new : d - filed = e - filed => d = e
    BY <2>2, <2>4
  <2>10. SlugsDiffer'
    <3> SUFFICES ASSUME NEW d \in DOMAIN entries', NEW e \in DOMAIN entries', entries'[d].slug = entries'[e].slug
                 PROVE  d = e
      BY DEF SlugsDiffer
    <3>1. CASE d \in new /\ e \in new
      BY <1>5, <2>4, <2>6, <2>9, <3>1 DEF EachSlugOnce
    <3>2. CASE d \in new /\ e \in DOMAIN entries
      BY <2>4, <2>5, <2>6, <2>8, <3>2 DEF Taken
    <3>3. CASE d \in DOMAIN entries /\ e \in new
      BY <2>4, <2>5, <2>6, <2>8, <3>3 DEF Taken
    <3>4. CASE d \in DOMAIN entries /\ e \in DOMAIN entries
      BY <2>5, <3>4 DEF NamesInv, SlugsDiffer
    <3>5. QED
      BY <2>5, <3>1, <3>2, <3>3, <3>4
  <2>11. ~IsLate(plan)
    BY <2>8 DEF IsLate
  <2>12. NoNameTwice'
    <3> SUFFICES ASSUME NEW d \in DOMAIN entries', NEW e \in DOMAIN entries', d # e,
                        entries'[d].payload # "none", entries'[d].payload = entries'[e].payload
                 PROVE  entries'[d].name # entries'[e].name
      BY DEF NoNameTwice
    <3>1. ASSUME NEW x \in new, NEW y \in DOMAIN entries, entries'[x].payload # "none",
                 entries'[x].payload = entries'[y].payload
          PROVE  entries'[x].name # entries'[y].name
      <4>1. ~k.disturbed /\ entries[y].payload = k.payload /\ IsUnserved(plan, k.payload)
        BY <1>5, <2>5, <2>6, <2>11, <3>1
      <4>2. entries[y].name \notin NamesOf(plan)
        BY <4>1 DEF IsUnserved
      <4>3. QED
        BY <2>4, <2>5, <2>6, <4>2 DEF NamesOf
    <3>2. CASE d \in new /\ e \in new
      <4>1. EachNameOnce(plan)
        BY <1>5, <2>6, <3>2
      <4>2. QED
        BY <2>4, <2>6, <2>9, <3>2, <4>1 DEF EachNameOnce
    <3>3. CASE d \in new /\ e \in DOMAIN entries
      BY <3>1, <3>3
    <3>4. CASE d \in DOMAIN entries /\ e \in new
      BY <3>1, <3>4
    <3>5. CASE d \in DOMAIN entries /\ e \in DOMAIN entries
      BY <2>5, <3>5 DEF NamesInv, NoNameTwice
    <3>6. QED
      BY <2>5, <3>2, <3>3, <3>4, <3>5
  <2>13. call'[c] = NoCall /\ call' = [d \in Clerk |-> call'[d]]
         /\ \A d \in Clerk : d # c => Remembered(d, n, cleared)
    BY <1>2, <2>1 DEF Meanwhile, Remembered
  <2>14. Taken' = Taken \cup SlugsOf(plan)
    <3>1. \A e \in new : entries'[e].slug \in SlugsOf(plan)
      BY <2>4, <2>6 DEF SlugsOf
    <3>2. ASSUME NEW i \in DOMAIN plan PROVE plan[i].slug \in Taken'
      <4>1. filed + i \in new /\ (filed + i) - filed = i
        BY <1>4, <2>2
      <4>2. entries'[filed + i].slug = plan[i].slug
        BY <2>6, <4>1
      <4>3. QED
        BY <2>5, <4>1, <4>2 DEF Taken
    <3>3. Taken \subseteq Taken' /\ Taken' \subseteq Taken \cup SlugsOf(plan)
      BY <2>5, <3>1 DEF Taken
    <3>4. QED
      BY <3>2, <3>3 DEF SlugsOf
  <2>15. ASSUME NEW d \in Clerk, d # c PROVE ApplierOK(d)'
    <3> PICK other : other = call[d]
      OBVIOUS
    <3> PICK theirs : theirs = other.plan
      OBVIOUS
    <3>0. other \in {NoCall} \cup SavingRow \cup ApplyingRow
      BY <1>2 DEF NamesTyped
    <3>1. ASSUME other.op = "apply", ~other.disturbed, IsUnserved(theirs, other.payload), ~IsLate(theirs),
                 ~IsUnserved(theirs, other.payload)'
          PROVE  IsLate(theirs)'
      <4>1. PICK e \in DOMAIN entries' :
              entries'[e].payload = other.payload /\ entries'[e].name \in NamesOf(theirs)
        BY <3>1 DEF IsUnserved
      <4>2. e \in new
        BY <2>5, <3>1, <4>1 DEF IsUnserved
      <4>3. other.payload \in Payload
        BY <3>0, <3>1 DEF ApplyingRow, SavingRow, NoCall
      <4>4. ~k.disturbed /\ k.payload = other.payload
        BY <2>6, <4>1, <4>2, <4>3 DEF Payload
      <4> PICK batch : batch = Batches[k.payload]
        OBVIOUS
      <4> PICK taken : taken = Taken
        OBVIOUS
      <4>5. EachNameOnce(batch)
        BY <1>2, <1>3, BatchIsDrafts
      <4> PICK i \in DOMAIN plan : i = e - filed /\ entries'[e].name = plan[i].name
        BY <2>4, <2>6, <4>2
      <4>6. PICK j \in DOMAIN theirs : theirs[j].name = plan[i].name
        BY <4>1 DEF NamesOf
      <4>7. IsExplained(plan[i], batch, taken \cup SlugsOf(plan))
        BY <1>5, <4>4
      <4>8. IsExplained(theirs[j], batch, taken \cup SlugsOf(theirs))
        BY <3>1, <4>4 DEF NamesInv, ApplierOK
      <4>9. Collide(plan, theirs, taken)
        BY <4>5, <4>6, <4>7, <4>8, SameNameSameSlug
      <4>10. QED
        BY <2>8, <2>14, <4>9 DEF IsLate, Collide
    <3>2. OnlyFiled(d)
      <4>1. Taken \subseteq Taken'
        BY <2>14
      <4>2. QED
        BY <3>1, <4>1 DEF OnlyFiled
    <3>3. Remembered(d, n, cleared) /\ ApplierOK(d) /\ UNCHANGED <<kind, raw>>
      BY <1>1, <2>13, <2>15 DEF NamesInv
    <3>4. QED
      BY <1>2, <1>4, <3>2, <3>3, AppliersGoOn
  <2>16. calls' \in Nat /\ calls <= calls' /\ UNCHANGED <<kind, raw>>
    BY <1>1, <2>2
  <2>17. kind # "product"
    BY <1>5
  <2>18. QED
    BY <1>4, <2>2, <2>3, <2>7, <2>10, <2>12, <2>13, <2>15, <2>16, <2>17, TableIsWritten
<1>8. QED
  BY <1>6, <1>7

\* At the start nothing is filed and nobody calls.
LEMMA InitKeeps == ASSUME InitNames PROVE NamesInv
<1>1. \A c \in Clerk : call[c] = NoCall
  BY DEF InitNames
<1>2. NamesTyped
  <2>1. raw \in Seq(RawEntry)
    <3>1. raw = <<>> \/ raw \in RawProposal
      BY DEF InitNames
    <3>2. <<>> \in Seq(RawEntry)
      BY EmptySeq
    <3>3. QED
      BY <3>1, <3>2, AnswersAreParsed
  <2>2. call \in [Clerk -> {NoCall} \cup SavingRow \cup ApplyingRow]
    BY DEF InitNames
  <2>3. DOMAIN entries \subseteq 1..filed /\ entries \in [DOMAIN entries -> EntryRow]
    BY DEF InitNames
  <2>4. QED
    BY <2>1, <2>2, <2>3 DEF InitNames, NamesTyped
<1>3. SlugsDiffer /\ NoNameTwice
  BY DEF InitNames, SlugsDiffer, NoNameTwice
<1>4. StampsAreSpent
  BY <1>1 DEF InitNames, StampsAreSpent, Runs, NoCall
<1>5. \A c \in Clerk : SaverOK(c) /\ ApplierOK(c)
  BY <1>1 DEF SaverOK, ApplierOK, NoCall
<1>6. QED
  BY <1>2, <1>3, <1>4, <1>5 DEF NamesInv

LEMMA NothingKeeps == ASSUME NamesInv, UNCHANGED nameVars PROVE NamesInv'
<1>1. UNCHANGED <<kind, raw, entries, filed, call, calls>>
  BY DEF nameVars
<1>2. NamesTyped' /\ SlugsDiffer' /\ StampsAreSpent' /\ NoNameTwice'
  BY <1>1 DEF NamesInv, NamesTyped, SlugsDiffer, StampsAreSpent, NoNameTwice, Runs
<1>3. \A c \in Clerk : SaverOK(c)'
  BY <1>1 DEF NamesInv, SaverOK, IsFree
<1>4. ASSUME NEW c \in Clerk PROVE ApplierOK(c)'
  <2>1. Batches' = Batches /\ Taken' = Taken
    BY <1>1, BatchesStay DEF Taken
  <2> PICK k : k = call[c] /\ k = call'[c]
    BY <1>1
  <2> PICK batches : batches = Batches /\ batches = Batches'
    BY <2>1
  <2> PICK taken : taken = Taken /\ taken = Taken'
    BY <2>1
  <2>2. (IsLate(k.plan) <=> IsLate(k.plan)') /\ (IsUnserved(k.plan, k.payload) <=> IsUnserved(k.plan, k.payload)')
    BY <1>1 DEF IsLate, IsUnserved
  <2>3. ApplierOK(c) /\ kind' = kind
    BY <1>1 DEF NamesInv
  <2>4. QED
    BY <2>2, <2>3, Zenon DEF ApplierOK
<1>5. QED
  BY <1>2, <1>3, <1>4 DEF NamesInv

LEMMA NamesStay == NamesSpec => []NamesInv
<1>1. InitNames => NamesInv
  BY InitKeeps
<1>2. NamesInv /\ [NextNames]_nameVars => NamesInv'
  <2> SUFFICES ASSUME NamesInv, [NextNames]_nameVars PROVE NamesInv'
    OBVIOUS
  <2>1. CASE UNCHANGED nameVars
    BY <2>1, NothingKeeps
  <2>2. CASE NextNames
    <3> PICK c \in Clerk :
          \/ LoadCreateEntry(c) \/ LoadRename(c) \/ SaveEntry(c) \/ Retry(c) \/ GivesUp(c)
          \/ RemoveEntry(c) \/ LoadApply(c) \/ CommitApply(c)
      BY <2>2 DEF NextNames
    <3>1. QED
      BY LoadCreateEntryKeeps, LoadRenameKeeps, SaveEntryKeeps, RetryKeeps, GivesUpKeeps,
         RemoveEntryKeeps, LoadApplyKeeps, CommitApplyKeeps
  <2>3. QED
    BY <2>1, <2>2
<1>3. QED
  BY <1>1, <1>2, PTL DEF NamesSpec

\* The one retry of saveUnique and runUnique is enough against one rival,
\* whatever the names, the clerks and what Gemini proposes.
THEOREM OneRivalIsSurvivedHolds == NamesSpec => OneRivalIsSurvived
<1>1. ASSUME NamesInv, NEW c \in Clerk, GivesUp(c)
      PROVE  \/ call[c].rivals >= 2
             \/ kind = "product" /\ call[c].op = "rename" /\ call[c].rivals = 1
  <2>1. SavesOne(c) /\ ~MayRetry(c) /\ ~IsFree(TargetOf(c), call[c].slug)
    BY <1>1 DEF GivesUp
  <2>2. call[c] \in SavingRow /\ SaverOK(c) /\ NamesTyped
    BY <1>1, <2>1, SaverIsTyped
  <2>3. ~IsFree(call[c].id, call[c].slug)
    BY <2>1, <2>2, TargetIsAsFree
  <2>4. call[c].rivals \in Nat /\ call[c].rivals >= 1 /\ (call[c].retried => call[c].rivals >= 2)
    BY <2>1, <2>2, <2>3 DEF SaverOK, SavesOne, SavingRow
  <2>5. call[c].retried \/ (kind = "product" /\ call[c].op = "rename")
    BY <2>1 DEF MayRetry, SavesOne
  <2>6. QED
    BY <2>4, <2>5
<1>2. NamesInv =>
        \A c \in Clerk :
          GivesUp(c) => \/ call[c].rivals >= 2
                        \/ kind = "product" /\ call[c].op = "rename" /\ call[c].rivals = 1
  BY <1>1
<1>3. QED
  BY <1>2, NamesStay, PTL DEF OneRivalIsSurvived

\* Whatever Gemini answers, createBatch refuses nothing sanitizeGeneratedCatalog
\* returns but a key its number makes too long, and two applies of one payload
\* file no name twice, whatever is created beside them.
THEOREM ProposalsApplyOnceHolds == NamesSpec => []ProposalsApplyOnce
<1>1. NamesInv => ProposalsApplyOnce
  <2> SUFFICES ASSUME NamesInv PROVE ProposalsApplyOnce
    OBVIOUS
  <2> PICK list : list = Proposal
    OBVIOUS
  <2>1. list \in Drafts
    BY ProposalIsDrafts DEF NamesInv, NamesTyped
  <2>2. \A i \in DOMAIN list : DraftIsValid(list[i])
    BY <2>1 DEF Drafts
  <2>3. \A i \in DOMAIN list : ~Fits(list[i].key) => list[i].key[1] = Long
    BY DEF Fits
  <2>4. NothingIsRefused
    BY <2>2, <2>3 DEF NothingIsRefused
  <2>5. QED
    BY <2>4 DEF NamesInv, ProposalsApplyOnce
<1>2. QED
  BY <1>1, NamesStay, PTL
=============================================================================
