-------------------------- MODULE Suppliers_proofs --------------------------
(***************************************************************************)
(* What is proved of suppliers: of the purchase request, and of the pass   *)
(* over the mailbox beside it.                                             *)
(*                                                                         *)
(* The request.  A handler decides from what it loaded and writes after an *)
(* await.  If its rows are still as it last knew them, its write is a step *)
(* of PurchaseDeal: so the invariant says what a call may have decided at  *)
(* each place of its handler, and that whatever counts as sent, a row or a *)
(* copy in memory, was mailed.                                             *)
(*                                                                         *)
(* The pass.  It deletes the lock without looking whose it is, and every   *)
(* instance may be restarted with the lock in its hands.  It works because *)
(* a scheduled pass that is still running has the lock for as long as none *)
(* expired under its holder: nobody else then takes or deletes it.         *)
(*                                                                         *)
(* The cursor.  It is recorded last, from what the pass remembers: so the  *)
(* invariant says of each phase which replies are accounted for, still on  *)
(* the page or left out by the fetch, up to the cursor the pass will       *)
(* record.  Passes may overlap, and what is accounted for once stays so.   *)
(*                                                                         *)
(* The answers.  A handler saves an offer it loaded some awaits before, so *)
(* the invariant says that the answer it holds is no older than the one it *)
(* loaded, and that the ids of a recipient list are nobody else's.  It is  *)
(* proved beside the passes, whose steps are taken apart into those of the *)
(* request.                                                                *)
(***************************************************************************)
EXTENDS MailboxSync, SequenceTheorems, FiniteSetTheorems, TLAPS

-----------------------------------------------------------------------------
\* The purchase request of Procurement, beside which the passes run.

Table == [Offer -> OfferRow \cup {None}]
Selection == [request : RequestRow \cup {None}, offers : Table, listed : SUBSET Offer]

\* What a call holds in memory, and an ingestion that has only read its offer.
HandlerJob == [kind : {"edit", "send", "cancel", "confirm", "reply", "correct"}, targets : SUBSET Offer,
               request : RequestRow, offers : Table, was : Table, listed : SUBSET Offer,
               seen : RequestStatus, selected : Selection \cup {None}, body : Reply \cup {None}]
IngestJob == [kind : {"ingest"}, target : Offer, entity : OfferRow, body : Reply, fetched : BOOLEAN]

\* Whoever counts as mailed was, and so was somebody if the request is sent.
SentWereMailed(table) == \A o \in Offer : table[o] # None /\ table[o].sent => o \in mailed
SomebodyMailed(status) == status \in {"sent", "replied", "confirmed"} => mailed # {}

\* What a call has decided when it is about to save, from what it loaded.
Edits(j) == j.kind = "edit" /\ j.targets \in Recipients \cup {{}} /\ j.seen = "draft" /\ j.request.status = "draft"
Mails(j) ==
    /\ j.kind = "send" /\ j.seen \in {"draft", "sent"} /\ j.request.status = j.seen
    /\ \A o \in j.targets : j.offers[o] # None /\ j.was[o] = j.offers[o]
Moves(j) ==
    \/ j.kind = "send" /\ j.seen = "draft" /\ j.request.status = "sent"
    \/ j.kind \in {"reply", "correct"} /\ j.seen = "sent" /\ j.request.status = "replied"
    \/ j.kind = "cancel" /\ j.seen \in {"draft", "sent", "replied"} /\ j.request.status = "cancelled"
Strikes(j) ==
    /\ j.kind = "confirm" /\ j.seen = "replied" /\ j.request.status = "replied"
    /\ \E o \in j.listed : j.targets = {o}
Reads(j) ==
    /\ j.kind = "reply" /\ j.request.status = j.seen /\ j.body # None
    /\ \E o \in Offer : /\ j.targets = {o} /\ j.was[o] # None
                        /\ j.offers[o] # None /\ j.offers[o].status = "received"
Answers(j) ==
    /\ j.request.status = j.seen
    /\ \A o \in j.targets :
         /\ j.was[o] # None /\ j.offers[o] # None
         /\ \/ j.offers[o].status = j.was[o].status
            \/ j.kind # "send" /\ j.offers[o].status = "received"
    /\ \/ j.kind = "send" /\ mailed # {}
       \/ j.kind \in {"reply", "correct"} /\ \E o \in Offer : j.targets = {o}

Selected(j) == j.selected \in Selection
SelectedToo(j) == j.selected \in Selection /\ j.selected.request # None

Holds(j, label) ==
    /\ j \in HandlerJob /\ SentWereMailed(j.offers) /\ SomebodyMailed(j.request.status)
    /\ \/ label = "selectEdit" /\ Edits(j)
       \/ label = "saveEdit" /\ Edits(j) /\ SelectedToo(j)
       \/ label = "mail" /\ Mails(j)
       \/ label = "selectOffers" /\ Answers(j)
       \/ label = "saveOffers" /\ Answers(j) /\ Selected(j)
       \/ label = "selectRequest" /\ Moves(j)
       \/ label = "saveRequest" /\ Moves(j) /\ SelectedToo(j)
       \/ label = "strike" /\ Strikes(j)
       \/ label = "tell" /\ j.kind = "confirm"
       \/ label = "selectReply" /\ Reads(j)
       \/ label = "saveReply" /\ Reads(j) /\ Selected(j)
       \/ label = "extract" /\ Reads(j)
    /\ label \in {"strike", "tell"} => \A o \in j.listed : j.offers[o] # None

Ingests(j, label) ==
    /\ label = "loadRequest" /\ j \in IngestJob
    /\ j.entity.sent => j.target \in mailed

RowsOK ==
    /\ request \in RequestRow \cup {None} /\ offer \in Table
    /\ inbox \in Seq(Offer) /\ Len(inbox) <= MaxReplies
    /\ mailed \subseteq Offer /\ told \subseteq mailed
    /\ Rows(offer) # {} => request # None
    /\ SentWereMailed(offer)
    /\ request # None => SomebodyMailed(request.status)

CallsOK ==
    /\ DOMAIN pc = Session /\ DOMAIN job = Session
    /\ \A s \in Session :
         \/ pc[s] = "idle"
         \/ request # None /\ (Holds(job[s], pc[s]) \/ Ingests(job[s], pc[s]))

ProcurementInv == RowsOK /\ CallsOK

\* Being mailed is for good, so what a call has decided outlives another's step.
LEMMA DecisionsLast ==
    ASSUME mailed \subseteq mailed', NEW j, NEW label
    PROVE  /\ SentWereMailed(j.offers) => SentWereMailed(j.offers)'
           /\ Holds(j, label) => Holds(j, label)'
           /\ Ingests(j, label) => Ingests(j, label)'
<1>1. SentWereMailed(j.offers) => SentWereMailed(j.offers)'
  BY DEF SentWereMailed
<1>2. SomebodyMailed(j.request.status) => SomebodyMailed(j.request.status)'
  BY DEF SomebodyMailed
<1>3. Answers(j) => Answers(j)'
  BY DEF Answers
<1>4. Ingests(j, label) => Ingests(j, label)'
  BY DEF Ingests
<1>5. Holds(j, label) => Holds(j, label)'
  BY <1>1, <1>2, <1>3 DEF Holds
<1>6. QED
  BY <1>1, <1>4, <1>5

LEMMA OthersWait ==
    ASSUME CallsOK, mailed \subseteq mailed', request # None => request' # None, NEW s \in Session,
           DOMAIN pc' = Session, DOMAIN job' = Session,
           \A t \in Session \ {s} : pc'[t] = pc[t] /\ job'[t] = job[t],
           \/ pc'[s] = "idle"
           \/ request' # None /\ (Holds(job[s], pc[s])' \/ Ingests(job[s], pc[s])')
    PROVE  CallsOK'
<1>1. ASSUME NEW t \in Session \ {s}
      PROVE  \/ pc'[t] = "idle"
             \/ request' # None /\ (Holds(job[t], pc[t])' \/ Ingests(job[t], pc[t])')
  <2>1. PICK j, label : j = job[t] /\ label = pc[t]
    OBVIOUS
  <2>2. label = "idle" \/ (request' # None /\ (Holds(j, label)' \/ Ingests(j, label)'))
    BY <2>1, DecisionsLast DEF CallsOK
  <2>3. job'[t] = j /\ pc'[t] = label
    BY <2>1
  <2>4. QED
    BY <2>2, <2>3
<1>2. QED
  BY <1>1 DEF CallsOK

LEMMA CallMoves ==
    ASSUME CallsOK, mailed \subseteq mailed', request' # None, NEW s \in Session, NEW label, NEW memory,
           Goto(s, label, memory), Holds(memory, label)' \/ Ingests(memory, label)'
    PROVE  CallsOK' /\ pc'[s] = label
<1>1. /\ DOMAIN pc' = Session /\ DOMAIN job' = Session /\ pc'[s] = label /\ job'[s] = memory
      /\ \A t \in Session \ {s} : pc'[t] = pc[t] /\ job'[t] = job[t]
  BY DEF Goto, CallsOK
<1>2. Holds(job[s], pc[s])' \/ Ingests(job[s], pc[s])'
  BY <1>1
<1>3. QED
  BY <1>1, <1>2, OthersWait

LEMMA CallEnds ==
    ASSUME CallsOK, mailed \subseteq mailed', request # None => request' # None, NEW s \in Session, Finish(s)
    PROVE  CallsOK' /\ pc'[s] = "idle"
<1>1. /\ DOMAIN pc' = Session /\ DOMAIN job' = Session /\ pc'[s] = "idle"
      /\ \A t \in Session \ {s} : pc'[t] = pc[t] /\ job'[t] = job[t]
  BY DEF Finish, CallsOK
<1>2. QED
  BY <1>1, OthersWait

\* What save() writes is a row, with each column from the entity or from the row.
LEMMA MergedOffer ==
    ASSUME NEW entity \in OfferRow, NEW selected \in OfferRow, NEW row \in OfferRow
    PROVE  /\ Merge(entity, selected, row) \in OfferRow
           /\ Merge(entity, selected, row).status \in {entity.status, row.status}
           /\ Merge(entity, selected, row).sent => entity.sent \/ row.sent
<1> DEFINE merged == Merge(entity, selected, row)
<1>1. DOMAIN row = {"status", "sent", "thread", "repliedAt", "message", "price"}
  BY DEF OfferRow
<1>2. merged = [c \in {"status", "sent", "thread", "repliedAt", "message", "price"} |->
                  IF entity[c] = selected[c] THEN row[c] ELSE entity[c]]
  BY <1>1 DEF Merge
<1>3. /\ merged.status \in {entity.status, row.status}
      /\ merged.sent \in {entity.sent, row.sent}
      /\ merged.thread \in {entity.thread, row.thread}
      /\ merged.repliedAt \in {entity.repliedAt, row.repliedAt}
      /\ merged.message \in {entity.message, row.message}
      /\ merged.price \in {entity.price, row.price}
  BY <1>2
<1>4. merged \in OfferRow
  <2> HIDE DEF merged
  <2>1. merged = [status |-> merged.status, sent |-> merged.sent, thread |-> merged.thread,
                  repliedAt |-> merged.repliedAt, message |-> merged.message, price |-> merged.price]
    BY <1>2
  <2>2. /\ merged.status \in OfferStatus /\ merged.sent \in BOOLEAN /\ merged.thread \in BOOLEAN
        /\ merged.repliedAt \in 0..MaxReplies \cup {None} /\ merged.message \in Reply \cup {None}
        /\ merged.price \in Reply \cup {None, Typed}
    BY <1>3 DEF OfferRow
  <2>3. QED
    BY <2>1, <2>2 DEF OfferRow
<1>5. QED
  BY <1>3, <1>4

LEMMA MergedRequest ==
    ASSUME NEW entity \in RequestRow, NEW selected \in RequestRow, NEW row \in RequestRow
    PROVE  /\ Merge(entity, selected, row) \in RequestRow
           /\ Merge(entity, selected, row).status \in {entity.status, row.status}
<1> DEFINE merged == Merge(entity, selected, row)
<1>1. DOMAIN row = {"status", "deal"}
  BY DEF RequestRow
<1>2. merged = [c \in {"status", "deal"} |-> IF entity[c] = selected[c] THEN row[c] ELSE entity[c]]
  BY <1>1 DEF Merge
<1>3. merged.status \in {entity.status, row.status} /\ merged.deal \in {entity.deal, row.deal}
  BY <1>2
<1>4. merged = [status |-> merged.status, deal |-> merged.deal]
  BY <1>2
<1> HIDE DEF merged
<1>5. merged.status \in RequestStatus /\ merged.deal \in Offer \cup {None}
  BY <1>3 DEF RequestRow
<1>6. merged \in RequestRow
  BY <1>4, <1>5 DEF RequestRow
<1>7. QED
  BY <1>3, <1>6 DEF merged

\* Nothing is saved, mailed or received.
LEMMA RowsStay == ASSUME RowsOK, UNCHANGED <<request, offer, inbox, mailed, told>> PROVE RowsOK'
BY DEF RowsOK, SentWereMailed, SomebodyMailed, Rows

LEMMA HoldsWhileRunning ==
    ASSUME CallsOK, NEW s \in Session, NEW label, pc[s] = label, label # "idle", label # "loadRequest"
    PROVE  request # None /\ Holds(job[s], label) /\ job[s] \in HandlerJob
BY DEF CallsOK, Ingests, Holds

\* The SELECT of a save(): the call goes on with what it read.
LEMMA CallSelects ==
    ASSUME RowsOK, CallsOK, NEW s \in Session, NEW from, NEW to, NEW read \in Selection, Select(s, from, to, read),
           from # "idle", from # "loadRequest", to \notin {"strike", "tell"},
           \A j : Holds(job[s], from) /\ Selected(j) /\ j.selected = read
                    /\ j.kind = job[s].kind /\ j.targets = job[s].targets /\ j.request = job[s].request
                    /\ j.offers = job[s].offers /\ j.was = job[s].was /\ j.seen = job[s].seen /\ j.body = job[s].body
                    => \/ to = "saveEdit" /\ Edits(j) /\ SelectedToo(j)
                       \/ to = "saveOffers" /\ Answers(j) /\ Selected(j)
                       \/ to = "saveRequest" /\ Moves(j) /\ SelectedToo(j)
                       \/ to = "saveReply" /\ Reads(j) /\ Selected(j)
    PROVE  RowsOK' /\ CallsOK'
<1>1. pc[s] = from /\ Goto(s, to, [job[s] EXCEPT !.selected = read])
      /\ UNCHANGED <<request, offer, inbox, mailed, told>>
  BY DEF Select
<1>2. request # None /\ Holds(job[s], from) /\ job[s] \in HandlerJob
  BY <1>1, HoldsWhileRunning
<1>3. PICK j : j = [job[s] EXCEPT !.selected = read]
  OBVIOUS
<1>4. /\ j \in HandlerJob /\ j.selected = read
      /\ j.kind = job[s].kind /\ j.targets = job[s].targets /\ j.request = job[s].request
      /\ j.offers = job[s].offers /\ j.was = job[s].was /\ j.seen = job[s].seen /\ j.body = job[s].body
  BY <1>2, <1>3 DEF HandlerJob
<1>5. Selected(j) /\ SentWereMailed(j.offers) /\ SomebodyMailed(j.request.status)
  BY <1>2, <1>4 DEF Holds, Selected
<1>6. Holds(j, to)
  BY <1>2, <1>4, <1>5 DEF Holds
<1>7. Holds(j, to)' /\ Goto(s, to, j)
  BY <1>1, <1>3, <1>6, DecisionsLast
<1>8. QED
  BY <1>1, <1>2, <1>7, RowsStay, CallMoves

LEMMA SelectionsKeep ==
    ASSUME ProcurementInv, NEW s \in Session,
           \/ SelectRequest(s, "selectEdit", "saveEdit")
           \/ SelectRequest(s, "selectRequest", "saveRequest")
           \/ SelectOffers(s, "selectOffers", "saveOffers")
           \/ SelectOffers(s, "selectReply", "saveReply")
    PROVE  ProcurementInv'
<1>1. RowsOK /\ CallsOK /\ request \in RequestRow \cup {None} /\ offer \in Table /\ NoOffers \in Table
  BY DEF ProcurementInv, RowsOK, Table, NoOffers
<1>2. PICK whole : whole = [request |-> request, offers |-> NoOffers, listed |-> Rows(offer)]
  OBVIOUS
<1>3. whole \in Selection /\ whole.request = request
  BY <1>1, <1>2 DEF Selection, Rows
<1>4. ASSUME NEW targets PROVE [request |-> None, offers |-> Only(targets, offer), listed |-> {}] \in Selection
  <2>1. Only(targets, offer) \in Table
    BY <1>1 DEF Only, Table
  <2>2. QED
    BY <2>1 DEF Selection
<1>5. PICK part : part = [request |-> None, offers |-> Only(job[s].targets, offer), listed |-> {}]
  OBVIOUS
<1>6. part \in Selection
  BY <1>4, <1>5
<1>7. CASE SelectRequest(s, "selectEdit", "saveEdit")
  <2>1. Select(s, "selectEdit", "saveEdit", whole) /\ pc[s] = "selectEdit"
    BY <1>2, <1>7 DEF SelectRequest, Select
  <2>2. request # None /\ Holds(job[s], "selectEdit")
    BY <1>1, <2>1, HoldsWhileRunning
  <2>3. QED
    BY <1>1, <1>3, <2>1, <2>2, CallSelects DEF ProcurementInv, Holds, Edits, SelectedToo
<1>8. CASE SelectRequest(s, "selectRequest", "saveRequest")
  <2>1. Select(s, "selectRequest", "saveRequest", whole) /\ pc[s] = "selectRequest"
    BY <1>2, <1>8 DEF SelectRequest, Select
  <2>2. request # None /\ Holds(job[s], "selectRequest")
    BY <1>1, <2>1, HoldsWhileRunning
  <2>3. QED
    BY <1>1, <1>3, <2>1, <2>2, CallSelects DEF ProcurementInv, Holds, Moves, SelectedToo
<1>9. CASE SelectOffers(s, "selectOffers", "saveOffers")
  <2>1. Select(s, "selectOffers", "saveOffers", part)
    BY <1>5, <1>9 DEF SelectOffers
  <2>2. QED
    BY <1>1, <1>6, <2>1, CallSelects DEF ProcurementInv, Holds, Answers, Selected
<1>10. CASE SelectOffers(s, "selectReply", "saveReply")
  <2>1. Select(s, "selectReply", "saveReply", part)
    BY <1>5, <1>10 DEF SelectOffers
  <2>2. QED
    BY <1>1, <1>6, <2>1, CallSelects DEF ProcurementInv, Holds, Reads, Selected
<1>11. QED
  BY <1>7, <1>8, <1>9, <1>10

\* The offers' save(): rows again, and of each status one that was there or in memory.
LEMMA OffersAreSaved ==
    ASSUME RowsOK, request # None, NEW s \in Session, NEW label, NEW from, Holds(job[s], label), Selected(job[s]),
           \A o \in job[s].targets : job[s].offers[o] # None, SaveOffers(s, from)
    PROVE  /\ RowsOK'
           /\ \A o \in Offer \ job[s].targets : offer'[o] = offer[o]
           /\ \A o \in job[s].targets : offer[o] # None =>
                offer'[o] # None /\ offer'[o].status \in {offer[o].status, job[s].offers[o].status}
<1>1. /\ pc[s] = from /\ ~Clash(s)
      /\ offer' = [o \in Offer |-> IF o \in job[s].targets THEN SavedOffer(s, o) ELSE offer[o]]
      /\ UNCHANGED <<request, inbox, mailed, told>>
  BY DEF SaveOffers
<1>2. /\ job[s].targets \subseteq Offer /\ job[s].offers \in Table /\ job[s].selected.offers \in Table
      /\ offer \in Table /\ SentWereMailed(job[s].offers) /\ SentWereMailed(offer)
  BY DEF Holds, HandlerJob, Selected, Selection, RowsOK
<1>3. ASSUME NEW o \in Offer
      PROVE  /\ offer'[o] \in OfferRow \cup {None}
             /\ o \notin job[s].targets => offer'[o] = offer[o]
             /\ offer'[o] # None /\ offer'[o].sent => o \in mailed
             /\ o \in job[s].targets /\ offer[o] # None =>
                  offer'[o] # None /\ offer'[o].status \in {offer[o].status, job[s].offers[o].status}
  <2>1. CASE o \notin job[s].targets
    BY <1>1, <1>2, <2>1 DEF Table, SentWereMailed
  <2>2. CASE o \in job[s].targets
    <3>1. PICK entity, selected, row :
            entity = job[s].offers[o] /\ selected = job[s].selected.offers[o] /\ row = offer[o]
      OBVIOUS
    <3>2. /\ entity \in OfferRow /\ selected \in OfferRow \cup {None} /\ row \in OfferRow \cup {None}
          /\ entity.sent => o \in mailed
          /\ row # None /\ row.sent => o \in mailed
      BY <1>2, <2>2, <3>1 DEF Table, SentWereMailed
    <3>3. offer'[o] = IF selected = None THEN entity
                      ELSE IF row = None THEN None ELSE Merge(entity, selected, row)
      BY <1>1, <2>2, <3>1 DEF SavedOffer
    <3>4. ~(selected = None /\ row # None)
      BY <1>1, <2>2, <3>1 DEF Clash
    <3>5. CASE row = None \/ selected = None
      BY <2>2, <3>1, <3>2, <3>3, <3>4, <3>5
    <3>6. CASE row # None /\ selected # None
      <4>1. offer'[o] = Merge(entity, selected, row) /\ selected \in OfferRow /\ row \in OfferRow
        BY <3>2, <3>3, <3>6
      <4>2. /\ offer'[o] \in OfferRow /\ offer'[o].status \in {entity.status, row.status}
            /\ offer'[o].sent => entity.sent \/ row.sent
        BY <3>2, <4>1, MergedOffer
      <4>3. offer'[o] # None
        BY <4>2, NullIsNoRow
      <4>4. QED
        BY <2>2, <3>1, <3>2, <3>6, <4>2, <4>3
    <3>7. QED
      BY <3>5, <3>6
  <2>3. QED
    BY <2>1, <2>2
<1>4. offer' \in Table
  BY <1>1, <1>3 DEF Table
<1>5. SentWereMailed(offer)'
  BY <1>1, <1>3 DEF SentWereMailed
<1>6. RowsOK'
  BY <1>1, <1>4, <1>5 DEF RowsOK, SomebodyMailed
<1>7. QED
  BY <1>2, <1>3, <1>6

\* What a call holds when it goes on to save the request it has moved on.
LEMMA RequestMovesOn ==
    ASSUME NEW j, Answers(j), j \in HandlerJob, SentWereMailed(j.offers), SomebodyMailed(j.request.status), NEW to,
           \/ j.kind = "send" /\ j.request.status = "draft" /\ to = "sent"
           \/ j.kind \in {"reply", "correct"} /\ j.request.status = "sent" /\ to = "replied"
    PROVE  Holds([j EXCEPT !.request.status = to], "selectRequest")
<1>1. PICK r : r = [j.request EXCEPT !.status = to]
  OBVIOUS
<1>2. PICK k : k = [j EXCEPT !.request = r]
  OBVIOUS
<1>3. r \in RequestRow /\ r.status = to
  BY <1>1 DEF HandlerJob, RequestRow, RequestStatus
<1>4. k \in HandlerJob /\ k.request = r /\ k.kind = j.kind /\ k.seen = j.seen /\ k.offers = j.offers
  BY <1>2, <1>3 DEF HandlerJob
<1>5. k = [j EXCEPT !.request.status = to]
  BY <1>1, <1>2 DEF HandlerJob
<1>6. Moves(k)
  BY <1>3, <1>4 DEF Answers, Moves
<1>7. SomebodyMailed(k.request.status)
  BY <1>3, <1>4 DEF Answers, SomebodyMailed
<1>8. QED
  BY <1>4, <1>5, <1>6, <1>7 DEF Holds

LEMMA AfterOffersKeeps == ASSUME ProcurementInv, NEW s \in Session, AfterOffers(s) PROVE ProcurementInv'
<1>1. RowsOK /\ CallsOK /\ pc[s] = "saveOffers" /\ SaveOffers(s, "saveOffers")
  BY DEF ProcurementInv, AfterOffers, SaveOffers
<1>2. request # None /\ Holds(job[s], "saveOffers") /\ job[s] \in HandlerJob
  BY <1>1, HoldsWhileRunning
<1>3. Answers(job[s]) /\ Selected(job[s])
  BY <1>2 DEF Holds
<1>4. RowsOK' /\ UNCHANGED <<request, mailed>>
  BY <1>1, <1>2, <1>3, OffersAreSaved DEF Answers, SaveOffers
<1>5. CASE MovesOn(s)
  <2>1. PICK j : j = [job[s] EXCEPT !.request.status = MovedTo(s)]
    OBVIOUS
  <2>2. Goto(s, "selectRequest", j)
    BY <1>5, <2>1 DEF AfterOffers
  <2>3. Holds(j, "selectRequest")
    BY <1>2, <1>3, <1>5, <2>1, RequestMovesOn DEF Holds, MovesOn, MovedTo
  <2>4. Holds(j, "selectRequest")'
    BY <1>4, <2>3, DecisionsLast
  <2>5. QED
    BY <1>1, <1>2, <1>4, <2>2, <2>4, CallMoves DEF ProcurementInv
<1>6. CASE ~MovesOn(s)
  <2>1. Finish(s)
    BY <1>6 DEF AfterOffers
  <2>2. QED
    BY <1>1, <1>2, <1>4, <2>1, CallEnds DEF ProcurementInv
<1>7. QED
  BY <1>5, <1>6

LEMMA StoreReplyKeeps == ASSUME ProcurementInv, NEW s \in Session, StoreReply(s) PROVE ProcurementInv'
<1>1. RowsOK /\ CallsOK /\ pc[s] = "saveReply" /\ SaveOffers(s, "saveReply")
  BY DEF ProcurementInv, StoreReply, SaveOffers
<1>2. request # None /\ Holds(job[s], "saveReply") /\ job[s] \in HandlerJob
  BY <1>1, HoldsWhileRunning
<1>3. Reads(job[s]) /\ Selected(job[s])
  BY <1>2 DEF Holds
<1>4. RowsOK' /\ UNCHANGED <<request, mailed>>
  BY <1>1, <1>2, <1>3, OffersAreSaved DEF Reads, SaveOffers
<1>5. PICK j : j = [job[s] EXCEPT !.was = job[s].offers]
  OBVIOUS
<1>6. /\ j \in HandlerJob /\ j.was = job[s].offers /\ j.offers = job[s].offers /\ j.targets = job[s].targets
      /\ j.kind = job[s].kind /\ j.request = job[s].request /\ j.seen = job[s].seen /\ j.body = job[s].body
  BY <1>2, <1>5 DEF HandlerJob
<1>7. Holds(j, "extract")
  BY <1>2, <1>3, <1>6 DEF Holds, Reads
<1>8. Goto(s, "extract", j) /\ Holds(j, "extract")'
  BY <1>4, <1>5, <1>7, DecisionsLast DEF StoreReply
<1>9. QED
  BY <1>1, <1>2, <1>4, <1>8, CallMoves DEF ProcurementInv

LEMMA SaveRequestKeeps ==
    ASSUME ProcurementInv, NEW s \in Session, SaveRequest(s) \/ SaveEdit(s) PROVE ProcurementInv'
<1>1. RowsOK /\ CallsOK /\ pc[s] \in {"saveRequest", "saveEdit"}
  BY DEF ProcurementInv, SaveRequest, SaveEdit
<1>2. request # None /\ Holds(job[s], pc[s]) /\ job[s] \in HandlerJob
  BY <1>1, HoldsWhileRunning
<1>3. SelectedToo(job[s]) /\ (pc[s] = "saveEdit" => Edits(job[s]))
  BY <1>1, <1>2 DEF Holds
<1>4. request' = SavedRequest(s) /\ Finish(s) /\ UNCHANGED <<inbox, mailed, told>>
  BY DEF SaveRequest, SaveEdit
<1>5. /\ request' \in RequestRow
      /\ request'.status \in {job[s].request.status, request.status}
  <2>1. job[s].request \in RequestRow /\ job[s].selected.request \in RequestRow /\ request \in RequestRow
    BY <1>1, <1>2, <1>3 DEF HandlerJob, SelectedToo, Selection, RowsOK
  <2>2. QED
    BY <1>4, <2>1, MergedRequest DEF SavedRequest
<1>6. request' # None /\ SomebodyMailed(request.status)'
  <2>1. SomebodyMailed(job[s].request.status) /\ SomebodyMailed(request.status)
    BY <1>1, <1>2 DEF Holds, RowsOK
  <2>2. QED
    BY <1>4, <1>5, <2>1, NullIsNoRow DEF SomebodyMailed
<1>7. offer' \in Table /\ SentWereMailed(offer)'
  <2>1. CASE offer' = offer
    BY <1>1, <1>4, <2>1 DEF RowsOK, SentWereMailed
  <2>2. CASE offer' = Insert(job[s].targets)
    <3>1. NewOffer \in OfferRow /\ ~NewOffer.sent
      BY DEF NewOffer, OfferRow, OfferStatus
    <3>2. QED
      BY <2>2, <3>1, NullIsNoRow DEF Insert, Table, SentWereMailed
  <2>3. QED
    BY <2>1, <2>2 DEF SaveRequest, SaveEdit
<1>8. RowsOK'
  BY <1>1, <1>4, <1>5, <1>6, <1>7 DEF RowsOK
<1>9. QED
  BY <1>1, <1>4, <1>6, <1>8, CallEnds DEF ProcurementInv

\* A handler that ends with nothing saved.
LEMMA EndingsKeep ==
    ASSUME ProcurementInv, NEW s \in Session,
           Throws(s) \/ ConnectionLost(s) \/ StrikeConflict(s) \/ SkipReply(s)
    PROVE  ProcurementInv'
<1>1. Finish(s) /\ UNCHANGED <<request, offer, inbox, mailed, told>>
  BY DEF Throws, ConnectionLost, StrikeConflict, SkipReply
<1>2. QED
  BY <1>1, RowsStay, CallEnds DEF ProcurementInv

LEMMA SupplierRepliesKeep == ASSUME ProcurementInv, NEW o \in Offer, SupplierReplies(o) PROVE ProcurementInv'
<1>1. /\ Len(inbox) < MaxReplies /\ inbox' = Append(inbox, o) /\ MaxReplies \in Nat
      /\ UNCHANGED <<request, offer, pc, job, mailed, told>>
  BY CallsAndRepliesAreBounded DEF SupplierReplies
<1>2. inbox' \in Seq(Offer) /\ Len(inbox') <= MaxReplies
  BY <1>1 DEF ProcurementInv, RowsOK
<1>3. RowsOK'
  BY <1>1, <1>2 DEF ProcurementInv, RowsOK, SentWereMailed, SomebodyMailed, Rows
<1>4. CallsOK'
  <2>1. \A s \in Session : \/ pc'[s] = "idle"
                           \/ request' # None /\ (Holds(job[s], pc[s])' \/ Ingests(job[s], pc[s])')
    <3>1. ASSUME NEW s \in Session
          PROVE  \/ pc'[s] = "idle"
                 \/ request' # None /\ (Holds(job[s], pc[s])' \/ Ingests(job[s], pc[s])')
      <4>1. PICK j, label : j = job[s] /\ label = pc[s]
        OBVIOUS
      <4>2. label = "idle" \/ (request # None /\ (Holds(j, label)' \/ Ingests(j, label)'))
        BY <1>1, <4>1, DecisionsLast DEF ProcurementInv, CallsOK
      <4>3. job'[s] = j /\ pc'[s] = label /\ request' = request
        BY <1>1, <4>1
      <4>4. QED
        BY <4>2, <4>3
    <3>2. QED
      BY <3>1
  <2>2. QED
    BY <1>1, <2>1 DEF ProcurementInv, CallsOK
<1>5. QED
  BY <1>3, <1>4 DEF ProcurementInv

LEMMA CreateKeeps == ASSUME ProcurementInv, NEW s \in Session, Create(s) PROVE ProcurementInv'
<1>1. /\ request = None /\ UNCHANGED <<inbox, pc, job, mailed, told>>
      /\ request' = [status |-> "draft", deal |-> None]
      /\ \E list : offer' = Insert(list)
  BY DEF Create
<1>2. request' \in RequestRow /\ request' # None /\ SomebodyMailed(request.status)'
  BY <1>1, NullIsNoRow DEF RequestRow, RequestStatus, SomebodyMailed
<1>3. NewOffer \in OfferRow /\ ~NewOffer.sent
  BY DEF NewOffer, OfferRow, OfferStatus
<1>4. offer' \in Table /\ SentWereMailed(offer)'
  BY <1>1, <1>3, NullIsNoRow DEF Insert, Table, SentWereMailed
<1>5. RowsOK'
  BY <1>1, <1>2, <1>4 DEF ProcurementInv, RowsOK
<1>6. CallsOK'
  BY <1>1 DEF ProcurementInv, CallsOK
<1>7. QED
  BY <1>5, <1>6 DEF ProcurementInv

\* What a call has loaded before it changes anything in memory.
Loaded(j, kind, targets, r, entities) ==
    /\ j \in HandlerJob /\ j.kind = kind /\ j.targets = targets /\ j.request = r /\ j.offers = entities
    /\ j.listed = Rows(offer) /\ j.seen = request.status
    /\ \A o \in targets : j.was[o] = offer[o]

LEMMA LoadedJob ==
    ASSUME RowsOK, request # None, NEW kind \in {"edit", "send", "cancel", "confirm", "reply", "correct"},
           NEW targets \in SUBSET Offer, NEW r \in RequestRow, NEW entities \in Table,
           NEW j, j = Memory(kind, targets, r, entities)
    PROVE  Loaded(j, kind, targets, r, entities)
<1>1. Only(targets, offer) \in Table /\ Rows(offer) \subseteq Offer /\ request.status \in RequestStatus
  BY DEF RowsOK, Only, Table, Rows, RequestRow
<1>2. \A o \in targets : Only(targets, offer)[o] = offer[o]
  BY DEF Only
<1>3. QED
  BY <1>1, <1>2 DEF Loaded, Memory, HandlerJob

\* A call that has loaded what it needs.
LEMMA LoadingKeeps ==
    ASSUME RowsOK, CallsOK, request # None, NEW s \in Session, NEW label, NEW j, Goto(s, label, j), Holds(j, label),
           UNCHANGED <<request, offer, inbox, mailed, told>>
    PROVE  ProcurementInv'
<1>1. RowsOK'
  BY RowsStay
<1>2. Holds(j, label)'
  BY DecisionsLast
<1>3. QED
  BY <1>1, <1>2, CallMoves DEF ProcurementInv

LEMMA LoadForEditKeeps == ASSUME ProcurementInv, NEW s \in Session, LoadForEdit(s) PROVE ProcurementInv'
<1>1. RowsOK /\ CallsOK /\ request # None /\ request.status = "draft" /\ request \in RequestRow
      /\ UNCHANGED <<request, offer, inbox, mailed, told>>
  BY DEF ProcurementInv, RowsOK, LoadForEdit
<1>2. PICK list \in FreshLists \cup {{}} :
        Goto(s, "selectEdit", [Memory("edit", {}, request, NoOffers) EXCEPT !.targets = list])
  BY DEF LoadForEdit
<1>3. PICK j : j = Memory("edit", {}, request, NoOffers)
  OBVIOUS
<1>4. NoOffers \in Table /\ list \subseteq Offer /\ list \in Recipients \cup {{}}
  BY RecipientsAreOffers DEF NoOffers, Table, FreshLists
<1>5. j \in HandlerJob /\ j.kind = "edit" /\ j.request = request /\ j.offers = NoOffers /\ j.seen = "draft"
  <2>1. Loaded(j, "edit", {}, request, NoOffers)
    BY <1>1, <1>3, <1>4, LoadedJob
  <2>2. QED
    BY <1>1, <2>1 DEF Loaded
<1>6. PICK k : k = [j EXCEPT !.targets = list]
  OBVIOUS
<1>7. k \in HandlerJob /\ k.kind = "edit" /\ k.request = request /\ k.offers = NoOffers /\ k.seen = "draft"
      /\ k.targets = list
  BY <1>4, <1>5, <1>6 DEF HandlerJob
<1>8. SentWereMailed(k.offers) /\ SomebodyMailed(k.request.status) /\ Edits(k)
  BY <1>1, <1>4, <1>7 DEF SentWereMailed, NoOffers, SomebodyMailed, Edits
<1>9. Holds(k, "selectEdit")
  BY <1>7, <1>8 DEF Holds
<1>10. QED
  BY <1>1, <1>2, <1>3, <1>6, <1>9, LoadingKeeps

LEMMA LoadForSendKeeps == ASSUME ProcurementInv, NEW s \in Session, LoadForSend(s) PROVE ProcurementInv'
<1>1. RowsOK /\ CallsOK /\ request # None /\ request.status \in {"draft", "sent"} /\ request \in RequestRow
      /\ UNCHANGED <<request, offer, inbox, mailed, told>>
  BY DEF ProcurementInv, RowsOK, LoadForSend, Start
<1>2. PICK pending : /\ pending = {o \in Rows(offer) : ~offer[o].sent}
                     /\ Goto(s, "mail", Memory("send", pending, request, Only(pending, offer)))
  BY DEF LoadForSend, Start
<1>3. PICK entities : entities = Only(pending, offer)
  OBVIOUS
<1>4. PICK j : j = Memory("send", pending, request, entities)
  OBVIOUS
<1>5. entities \in Table /\ pending \in SUBSET Offer /\ (\A o \in pending : entities[o] = offer[o] /\ offer[o] # None)
      /\ SentWereMailed(entities)
  BY <1>1, <1>2, <1>3 DEF RowsOK, Only, Table, Rows, SentWereMailed
<1>6. /\ j \in HandlerJob /\ j.kind = "send" /\ j.targets = pending /\ j.request = request /\ j.offers = entities
      /\ j.seen = request.status /\ \A o \in pending : j.was[o] = offer[o]
  <2>1. Loaded(j, "send", pending, request, entities)
    BY <1>1, <1>4, <1>5, LoadedJob
  <2>2. QED
    BY <2>1 DEF Loaded
<1>7. Mails(j) /\ SomebodyMailed(j.request.status)
  BY <1>1, <1>5, <1>6 DEF Mails, RowsOK
<1>8. Holds(j, "mail")
  BY <1>5, <1>6, <1>7 DEF Holds
<1>9. QED
  BY <1>1, <1>2, <1>3, <1>4, <1>8, LoadingKeeps

LEMMA LoadForCancelKeeps == ASSUME ProcurementInv, NEW s \in Session, LoadForCancel(s) PROVE ProcurementInv'
<1>1. RowsOK /\ CallsOK /\ request # None /\ request \in RequestRow
      /\ UNCHANGED <<request, offer, inbox, mailed, told>>
  BY DEF ProcurementInv, RowsOK, LoadForCancel, Start
<1>2. PICK r : r = [request EXCEPT !.status = "cancelled"]
  OBVIOUS
<1>3. r \in RequestRow /\ r.status = "cancelled"
  BY <1>1, <1>2 DEF RequestRow, RequestStatus
<1>4. request.status \in {"draft", "sent", "replied"}
  BY <1>1 DEF LoadForCancel, LegalRequestMove, PURCHASE_REQUEST_TRANSITIONS, RequestStatus
<1>5. PICK j : j = Memory("cancel", {}, r, NoOffers)
  OBVIOUS
<1>6. NoOffers \in Table /\ SentWereMailed(NoOffers)
  BY DEF NoOffers, Table, SentWereMailed
<1>7. j \in HandlerJob /\ j.kind = "cancel" /\ j.request = r /\ j.offers = NoOffers /\ j.seen = request.status
  BY <1>1, <1>3, <1>5, <1>6, LoadedJob DEF Loaded
<1>8. Holds(j, "selectRequest")
  BY <1>3, <1>4, <1>6, <1>7 DEF Holds, Moves, SomebodyMailed
<1>9. Goto(s, "selectRequest", j)
  BY <1>2, <1>5 DEF LoadForCancel, Start
<1>10. QED
  BY <1>1, <1>8, <1>9, LoadingKeeps

LEMMA LoadForConfirmKeeps == ASSUME ProcurementInv, NEW s \in Session, LoadForConfirm(s) PROVE ProcurementInv'
<1>1. RowsOK /\ CallsOK /\ request # None /\ request \in RequestRow /\ offer \in Table
      /\ UNCHANGED <<request, offer, inbox, mailed, told>>
  BY DEF ProcurementInv, RowsOK, LoadForConfirm, Start
<1>2. PICK o \in Rows(offer) : Goto(s, "strike", Memory("confirm", {o}, request, offer))
  BY DEF LoadForConfirm, Start
<1>3. request.status = "replied"
  BY <1>1 DEF LoadForConfirm, LegalRequestMove, PURCHASE_REQUEST_TRANSITIONS, RequestStatus
<1>4. PICK j : j = Memory("confirm", {o}, request, offer)
  OBVIOUS
<1>5. {o} \in SUBSET Offer
  BY DEF Rows
<1>6. /\ j \in HandlerJob /\ j.kind = "confirm" /\ j.targets = {o} /\ j.request = request /\ j.offers = offer
      /\ j.seen = request.status /\ j.listed = Rows(offer)
  <2>1. Loaded(j, "confirm", {o}, request, offer)
    BY <1>1, <1>4, <1>5, LoadedJob
  <2>2. QED
    BY <2>1 DEF Loaded
<1>7. /\ SentWereMailed(j.offers) /\ SomebodyMailed(j.request.status) /\ Strikes(j)
      /\ \A x \in j.listed : j.offers[x] # None
  BY <1>1, <1>3, <1>6 DEF RowsOK, Strikes, Rows
<1>8. Holds(j, "strike")
  BY <1>6, <1>7 DEF Holds
<1>9. QED
  BY <1>1, <1>2, <1>4, <1>8, LoadingKeeps

LEMMA LoadForCorrectionKeeps == ASSUME ProcurementInv, NEW s \in Session, LoadForCorrection(s) PROVE ProcurementInv'
<1>1. RowsOK /\ CallsOK /\ request # None /\ request \in RequestRow /\ offer \in Table /\ Now \in 0..MaxReplies
      /\ UNCHANGED <<request, offer, inbox, mailed, told>>
  BY CallsAndRepliesAreBounded DEF ProcurementInv, RowsOK, LoadForCorrection, Start, Now
<1>2a. PICK o \in Rows(offer) : \E price \in {Typed, None, offer[o].price} :
        LET answered == IF offer[o].status = "awaiting" THEN "received" ELSE offer[o].status
            corrected == [offer[o] EXCEPT
               !.price = price, !.status = answered,
               !.repliedAt = IF offer[o].status = "awaiting" /\ @ = None THEN Now ELSE @]
        IN  Start(s, "selectOffers",
              Memory("correct", {o}, request, [NoOffers EXCEPT ![o] = corrected]))
  BY DEF LoadForCorrection
<1>2. PICK price \in {Typed, None, offer[o].price} :
        LET answered == IF offer[o].status = "awaiting" THEN "received" ELSE offer[o].status
            corrected == [offer[o] EXCEPT
               !.price = price, !.status = answered,
               !.repliedAt = IF offer[o].status = "awaiting" /\ @ = None THEN Now ELSE @]
        IN  Start(s, "selectOffers",
              Memory("correct", {o}, request, [NoOffers EXCEPT ![o] = corrected]))
  BY <1>2a
<1>3. PICK answered : answered = IF offer[o].status = "awaiting" THEN "received" ELSE offer[o].status
  OBVIOUS
<1>4. PICK at : at = IF offer[o].status = "awaiting" /\ offer[o].repliedAt = None THEN Now ELSE offer[o].repliedAt
  OBVIOUS
<1>5. PICK row : row = offer[o]
  OBVIOUS
<1>6. PICK corrected : corrected = [row EXCEPT !.price = price, !.status = answered, !.repliedAt = at]
  OBVIOUS
<1>7. PICK entities : entities = [NoOffers EXCEPT ![o] = corrected]
  OBVIOUS
<1>8. PICK j : j = Memory("correct", {o}, request, entities)
  OBVIOUS
<1>9. o \in Offer /\ row \in OfferRow /\ {o} \in SUBSET Offer /\ (row.sent => o \in mailed)
  BY <1>1, <1>5 DEF Rows, Table, RowsOK, SentWereMailed
<1>10. /\ corrected \in OfferRow /\ corrected # None /\ corrected.status \in {row.status, "received"}
       /\ corrected.sent = row.sent
  <2>1. /\ price \in Reply \cup {None, Typed} /\ answered \in OfferStatus /\ at \in 0..MaxReplies \cup {None}
        /\ answered \in {row.status, "received"}
    BY <1>1, <1>3, <1>4, <1>5, <1>9 DEF OfferRow, OfferStatus
  <2>2. /\ corrected \in OfferRow /\ corrected.status = answered /\ corrected.sent = row.sent
    BY <1>6, <1>9, <2>1 DEF OfferRow
  <2>3. QED
    BY <2>1, <2>2, NullIsNoRow
<1>11. entities \in Table /\ SentWereMailed(entities) /\ entities[o] = corrected
  BY <1>7, <1>9, <1>10 DEF Table, NoOffers, SentWereMailed
<1>12. Loaded(j, "correct", {o}, request, entities)
  BY <1>1, <1>8, <1>9, <1>11, LoadedJob
<1>13. j.was[o] = row /\ j.targets = {o} /\ j.offers[o] = corrected /\ j.kind = "correct" /\ j \in HandlerJob
       /\ j.request = request /\ j.seen = request.status /\ j.offers = entities
  BY <1>5, <1>11, <1>12 DEF Loaded
<1>14. row # None
  BY <1>9, NullIsNoRow
<1>15. Answers(j)
  BY <1>9, <1>10, <1>13, <1>14 DEF Answers
<1>16. SomebodyMailed(j.request.status) /\ SentWereMailed(j.offers)
  BY <1>1, <1>11, <1>13 DEF RowsOK
<1>17. Holds(j, "selectOffers")
  BY <1>13, <1>15, <1>16 DEF Holds
<1>18. Goto(s, "selectOffers", j)
  BY <1>2, <1>3, <1>4, <1>5, <1>6, <1>7, <1>8 DEF Start
<1>19. QED
  BY <1>1, <1>17, <1>18, LoadingKeeps

\* An ingestion starts with an offer that is there and a reply that has arrived.
LEMMA LoadOfferKeeps ==
    ASSUME ProcurementInv, NEW s \in Session, NEW m \in 1..Now, NEW fetched \in BOOLEAN,
           LoadOffer(s, inbox[m], m, fetched)
    PROVE  ProcurementInv'
<1>1. RowsOK /\ CallsOK /\ UNCHANGED <<request, offer, inbox, mailed, told>>
  BY DEF ProcurementInv, LoadOffer
<1>2. PICK o : o = inbox[m]
  OBVIOUS
<1>3. o \in Offer /\ m \in Reply
  BY <1>1, <1>2, CallsAndRepliesAreBounded DEF RowsOK, Now, Reply
<1>4. PICK row : row = offer[o]
  OBVIOUS
<1>5. PICK j : j = [kind |-> "ingest", target |-> o, entity |-> row, body |-> m, fetched |-> fetched]
  OBVIOUS
<1>6. row # None /\ Goto(s, "loadRequest", j)
  BY <1>2, <1>4, <1>5 DEF LoadOffer
<1>7. row \in OfferRow /\ (row.sent => o \in mailed) /\ request # None
  BY <1>1, <1>3, <1>4, <1>6 DEF RowsOK, Table, SentWereMailed, Rows
<1>8. Ingests(j, "loadRequest")
  BY <1>3, <1>5, <1>7 DEF Ingests, IngestJob
<1>9. Ingests(j, "loadRequest")'
  BY <1>1, <1>8, DecisionsLast
<1>10. QED
  BY <1>1, <1>6, <1>7, <1>9, RowsStay, CallMoves DEF ProcurementInv

LEMMA PasteKeeps == ASSUME ProcurementInv, NEW s \in Session, Paste(s) PROVE ProcurementInv'
BY LoadOfferKeeps DEF Paste

LEMMA LoadRequestKeeps == ASSUME ProcurementInv, NEW s \in Session, LoadRequest(s) PROVE ProcurementInv'
<1>1. RowsOK /\ CallsOK /\ UNCHANGED <<request, offer, inbox, mailed, told>> /\ pc[s] = "loadRequest"
      /\ Now \in 0..MaxReplies
  BY CallsAndRepliesAreBounded DEF ProcurementInv, LoadRequest, RowsOK, Now
<1>2. /\ request # None /\ request \in RequestRow
      /\ job[s] \in IngestJob /\ (job[s].entity.sent => job[s].target \in mailed)
  BY <1>1 DEF CallsOK, Holds, Ingests, RowsOK
<1>3. PICK o, row, body : o = job[s].target /\ row = job[s].entity /\ body = job[s].body
  OBVIOUS
<1>4. o \in Offer /\ row \in OfferRow /\ body \in Reply /\ (row.sent => o \in mailed) /\ {o} \in SUBSET Offer
  BY <1>2, <1>3 DEF IngestJob
<1>5. PICK stored : stored = StoredReply(job[s])
  OBVIOUS
<1>6. stored \in OfferRow /\ stored # None /\ stored.status = "received" /\ stored.sent = row.sent
  <2>1. PICK at, message : /\ at = IF job[s].fetched THEN body ELSE Now
                           /\ message = IF job[s].fetched THEN body ELSE row.message
    OBVIOUS
  <2>2. stored = [row EXCEPT !.repliedAt = at, !.status = "received", !.message = message]
    BY <1>3, <1>5, <2>1 DEF StoredReply
  <2>3. at \in 0..MaxReplies \cup {None} /\ message \in Reply \cup {None}
    <3>1. body \in 0..MaxReplies
      BY <1>4, CallsAndRepliesAreBounded DEF Reply
    <3>2. row.message \in Reply \cup {None}
      BY <1>4 DEF OfferRow
    <3>3. QED
      BY <1>1, <1>4, <2>1, <3>1, <3>2
  <2>4. stored \in OfferRow /\ stored.status = "received" /\ stored.sent = row.sent
    BY <1>4, <2>2, <2>3 DEF OfferRow, OfferStatus
  <2>5. QED
    BY <2>4, NullIsNoRow
<1>7. PICK entities : entities = [NoOffers EXCEPT ![o] = stored]
  OBVIOUS
<1>8. entities \in Table /\ SentWereMailed(entities) /\ entities[o] = stored
  BY <1>4, <1>6, <1>7 DEF Table, NoOffers, SentWereMailed
<1>9. PICK j : j = Memory("reply", {o}, request, entities)
  OBVIOUS
<1>10. Loaded(j, "reply", {o}, request, entities)
  BY <1>1, <1>2, <1>4, <1>8, <1>9, LoadedJob
<1>11. PICK was : was = [j.was EXCEPT ![o] = row]
  OBVIOUS
<1>12. was \in Table /\ was[o] = row
  BY <1>4, <1>10, <1>11 DEF Loaded, HandlerJob, Table
<1>13. PICK k : k = [j EXCEPT !.was = was, !.body = body]
  OBVIOUS
<1>14. /\ k \in HandlerJob /\ k.was = was /\ k.body = body /\ k.kind = "reply" /\ k.targets = {o}
       /\ k.request = request /\ k.offers = entities /\ k.seen = request.status
  BY <1>4, <1>10, <1>12, <1>13 DEF Loaded, HandlerJob
<1>15. Goto(s, "selectReply", k)
  <2>1. k = [j EXCEPT !.was[o] = row, !.body = body]
    BY <1>10, <1>11, <1>13 DEF Loaded, HandlerJob
  <2>2. QED
    BY <1>3, <1>5, <1>7, <1>9, <2>1 DEF LoadRequest
<1>16. Reads(k)
  <2>1. row # None /\ body # None
    BY <1>4, NullIsNoRow, NullIsNoValue, CallsAndRepliesAreBounded DEF Reply
  <2>2. QED
    BY <1>4, <1>6, <1>8, <1>12, <1>14, <2>1 DEF Reads
<1>17. SomebodyMailed(k.request.status)
  BY <1>1, <1>2, <1>14 DEF RowsOK
<1>18. Holds(k, "selectReply")
  BY <1>8, <1>14, <1>16, <1>17 DEF Holds
<1>19. QED
  BY <1>1, <1>2, <1>15, <1>18, LoadingKeeps

LEMMA ExtractKeeps == ASSUME ProcurementInv, NEW s \in Session, Extract(s) PROVE ProcurementInv'
<1>1. RowsOK /\ CallsOK /\ UNCHANGED <<request, offer, inbox, mailed, told>> /\ pc[s] = "extract"
  BY DEF ProcurementInv, Extract
<1>2. request # None /\ Holds(job[s], "extract") /\ job[s] \in HandlerJob /\ Reads(job[s])
  BY <1>1, HoldsWhileRunning DEF Holds
<1>3. PICK o \in job[s].targets, extraction \in Extractions :
        Goto(s, "selectOffers", [job[s] EXCEPT !.offers[o].price = Extracted(extraction, job[s].body, @)])
  BY DEF Extract
<1>4. PICK row, price : row = job[s].offers[o] /\ price = Extracted(extraction, job[s].body, row.price)
  OBVIOUS
<1>5. /\ o \in Offer /\ row \in OfferRow /\ row.status = "received" /\ (row.sent => o \in mailed)
      /\ job[s].targets = {o} /\ job[s].was[o] # None /\ job[s].body \in Reply
  BY <1>2, <1>3, <1>4 DEF Reads, Holds, HandlerJob, Table, SentWereMailed
<1>6. price \in Reply \cup {None, Typed}
  <2>1. extraction \in {"price", "no price", "nothing"} /\ row.price \in Reply \cup {None, Typed}
    BY <1>5, SomethingIsMade DEF OfferRow
  <2>2. QED
    BY <1>4, <1>5, <2>1 DEF Extracted
<1>7. PICK next : next = [row EXCEPT !.price = price]
  OBVIOUS
<1>8. next \in OfferRow /\ next.status = "received" /\ next.sent = row.sent /\ next # None
  <2>1. next \in OfferRow /\ next.status = "received" /\ next.sent = row.sent
    BY <1>5, <1>6, <1>7 DEF OfferRow
  <2>2. QED
    BY <2>1, NullIsNoRow
<1>9. PICK entities : entities = [job[s].offers EXCEPT ![o] = next]
  OBVIOUS
<1>10. entities \in Table /\ SentWereMailed(entities) /\ entities[o] = next
  BY <1>2, <1>5, <1>8, <1>9 DEF Holds, HandlerJob, Table, SentWereMailed
<1>11. PICK j : j = [job[s] EXCEPT !.offers = entities]
  OBVIOUS
<1>12. /\ j \in HandlerJob /\ j.offers = entities /\ j.kind = job[s].kind /\ j.targets = job[s].targets
       /\ j.request = job[s].request /\ j.was = job[s].was /\ j.seen = job[s].seen
  BY <1>2, <1>10, <1>11 DEF HandlerJob
<1>13. Goto(s, "selectOffers", j)
  <2>1. [job[s] EXCEPT !.offers[o].price = Extracted(extraction, job[s].body, @)] = j
    BY <1>2, <1>4, <1>7, <1>9, <1>11 DEF HandlerJob
  <2>2. QED
    BY <1>3, <2>1
<1>14. Answers(j)
  BY <1>2, <1>5, <1>8, <1>10, <1>12 DEF Answers, Reads
<1>15. Holds(j, "selectOffers")
  BY <1>2, <1>10, <1>12, <1>14 DEF Holds
<1>16. QED
  BY <1>1, <1>2, <1>13, <1>15, LoadingKeeps

LEMMA MailRecipientsKeeps ==
    ASSUME ProcurementInv, NEW s \in Session, NEW hasMailbox, MailRecipients(s, hasMailbox) PROVE ProcurementInv'
<1>1. RowsOK /\ CallsOK /\ UNCHANGED <<request, offer, inbox, told>> /\ pc[s] = "mail"
  BY DEF ProcurementInv, MailRecipients
<1>2. request # None /\ Holds(job[s], "mail") /\ job[s] \in HandlerJob /\ Mails(job[s])
  BY <1>1, HoldsWhileRunning DEF Holds
<1>3. PICK reached \in SUBSET job[s].targets : \E threaded \in SUBSET (IF hasMailbox THEN reached ELSE {}) :
         /\ mailed' = mailed \cup reached
         /\ IF NobodyReached(reached) THEN Finish(s)
            ELSE Goto(s, "selectOffers", [job[s] EXCEPT
                   !.targets = reached,
                   !.offers = [o \in Offer |-> IF o \in reached
                      THEN [@[o] EXCEPT !.sent = TRUE, !.thread = o \in threaded]
                      ELSE None]])
  BY DEF MailRecipients
<1>4. reached \subseteq Offer /\ mailed' = mailed \cup reached /\ mailed \subseteq mailed'
  BY <1>2, <1>3 DEF HandlerJob
<1>5. RowsOK'
  BY <1>1, <1>4 DEF RowsOK, SentWereMailed, SomebodyMailed, Rows
<1>6. CASE reached = {}
  <2>1. Finish(s)
    BY <1>3, <1>6 DEF NobodyReached
  <2>2. QED
    BY <1>1, <1>4, <1>5, <2>1, CallEnds DEF ProcurementInv
<1>7. CASE reached # {}
  <2>1. PICK threaded : Goto(s, "selectOffers", [job[s] EXCEPT
                          !.targets = reached,
                          !.offers = [o \in Offer |-> IF o \in reached
                             THEN [@[o] EXCEPT !.sent = TRUE, !.thread = o \in threaded]
                             ELSE None]])
    BY <1>3, <1>7 DEF NobodyReached
  <2>2. PICK entities : entities = [o \in Offer |-> IF o \in reached
                          THEN [job[s].offers[o] EXCEPT !.sent = TRUE, !.thread = o \in threaded] ELSE None]
    OBVIOUS
  <2>3. ASSUME NEW o \in reached
        PROVE  /\ entities[o] \in OfferRow /\ entities[o].status = job[s].offers[o].status
               /\ entities[o] # None /\ job[s].was[o] = job[s].offers[o] /\ job[s].was[o] # None
    <3>1. PICK row : row = job[s].offers[o]
      OBVIOUS
    <3>2. row \in OfferRow /\ job[s].was[o] = row /\ job[s].was[o] # None
      BY <1>2, <1>4, <3>1 DEF Mails, HandlerJob, Table
    <3>3. PICK threadOf \in BOOLEAN : threadOf <=> o \in threaded
      OBVIOUS
    <3>4. entities[o] = [row EXCEPT !.sent = TRUE, !.thread = o \in threaded]
      BY <1>4, <2>2, <3>1
    <3>5. (o \in threaded) \in BOOLEAN
      OBVIOUS
    <3>6. entities[o] \in OfferRow /\ entities[o].status = row.status
      BY <3>2, <3>4, <3>5 DEF OfferRow
    <3>7. QED
      BY <3>1, <3>2, <3>6, NullIsNoRow
  <2>4. entities \in Table
    BY <1>4, <2>2, <2>3 DEF Table
  <2>5. \A o \in Offer : entities[o] # None => o \in reached
    BY <2>2
  <2>6. PICK j : j = [job[s] EXCEPT !.targets = reached, !.offers = entities]
    OBVIOUS
  <2>7. /\ j \in HandlerJob /\ j.targets = reached /\ j.offers = entities /\ j.kind = job[s].kind
        /\ j.request = job[s].request /\ j.was = job[s].was /\ j.seen = job[s].seen
    BY <1>2, <1>4, <2>4, <2>6 DEF HandlerJob
  <2>8. Goto(s, "selectOffers", j)
    BY <1>2, <2>1, <2>2, <2>6 DEF HandlerJob
  <2>9. SentWereMailed(j.offers)' /\ SomebodyMailed(j.request.status)'
    BY <1>2, <1>4, <2>5, <2>7 DEF Holds, SentWereMailed, SomebodyMailed
  <2>10. Answers(j)'
    <3>1. \A o \in j.targets : j.was[o] # None /\ j.offers[o] # None /\ j.offers[o].status = j.was[o].status
      BY <2>3, <2>7
    <3>2. j.kind = "send" /\ j.request.status = j.seen /\ mailed' # {}
      BY <1>2, <1>4, <1>7, <2>7 DEF Mails
    <3>3. QED
      BY <3>1, <3>2 DEF Answers
  <2>11. Holds(j, "selectOffers")'
    BY <2>7, <2>9, <2>10 DEF Holds
  <2>12. QED
    BY <1>1, <1>2, <1>4, <1>5, <2>8, <2>11, CallMoves DEF ProcurementInv
<1>8. QED
  BY <1>6, <1>7

LEMMA StrikeKeeps == ASSUME ProcurementInv, NEW s \in Session, Strike(s) PROVE ProcurementInv'
<1>1. RowsOK /\ CallsOK /\ UNCHANGED <<inbox, mailed, told>> /\ pc[s] = "strike" /\ Goto(s, "tell", job[s])
  BY DEF ProcurementInv, Strike
<1>2. request # None /\ Holds(job[s], "strike") /\ job[s] \in HandlerJob /\ Strikes(job[s])
  BY <1>1, HoldsWhileRunning DEF Holds
<1>3. PICK winner \in job[s].targets : request' = [request EXCEPT !.status = "confirmed", !.deal = winner]
  BY DEF Strike
<1>4. request \in RequestRow /\ winner \in Offer
  BY <1>1, <1>2 DEF RowsOK, HandlerJob
<1>5. request' \in RequestRow /\ request'.status = "confirmed"
  BY <1>3, <1>4 DEF RequestRow, RequestStatus
<1>6. request' # None /\ SomebodyMailed(request.status)'
  <2>1. mailed # {}
    BY <1>2 DEF Strikes, Holds, SomebodyMailed
  <2>2. QED
    BY <1>1, <1>5, <2>1, NullIsNoRow DEF SomebodyMailed
<1>7. ASSUME NEW o \in Offer
      PROVE  offer'[o] \in OfferRow \cup {None} /\ (offer'[o] # None /\ offer'[o].sent => o \in mailed)
  <2>1. PICK row : row = offer[o]
    OBVIOUS
  <2>2. row \in OfferRow \cup {None} /\ (row # None /\ row.sent => o \in mailed)
    BY <1>1, <2>1 DEF RowsOK, Table, SentWereMailed
  <2>3. offer'[o] = IF row # None /\ o \in job[s].listed THEN [row EXCEPT !.status = Decided(s, o)] ELSE row
    BY <2>1 DEF Strike
  <2>4. Decided(s, o) \in OfferStatus
    BY DEF Decided, OfferStatus
  <2>5. row # None => [row EXCEPT !.status = Decided(s, o)] \in OfferRow
                      /\ [row EXCEPT !.status = Decided(s, o)].sent = row.sent
    BY <2>2, <2>4 DEF OfferRow
  <2>6. QED
    BY <2>2, <2>3, <2>5
<1>8. offer' \in Table /\ SentWereMailed(offer)'
  BY <1>1, <1>7 DEF Strike, Table, SentWereMailed
<1>9. RowsOK'
  BY <1>1, <1>5, <1>6, <1>8 DEF RowsOK
<1>10. PICK j : j = job[s]
  OBVIOUS
<1>11. Holds(j, "tell")
  BY <1>2, <1>10 DEF Holds, Strikes
<1>12. Holds(j, "tell")' /\ Goto(s, "tell", j)
  BY <1>1, <1>10, <1>11, DecisionsLast
<1>13. QED
  BY <1>1, <1>6, <1>9, <1>12, CallMoves DEF ProcurementInv

LEMMA MailDecisionsKeeps == ASSUME ProcurementInv, NEW s \in Session, MailDecisions(s) PROVE ProcurementInv'
<1>1. RowsOK /\ CallsOK /\ UNCHANGED <<request, offer, inbox, mailed>> /\ pc[s] = "tell" /\ Finish(s)
  BY DEF ProcurementInv, MailDecisions
<1>2. Holds(job[s], "tell") /\ job[s] \in HandlerJob
  BY <1>1, HoldsWhileRunning
<1>3. ToDecline(s) \subseteq mailed
  BY <1>2 DEF ToDecline, Holds, SentWereMailed, HandlerJob
<1>4. told' \subseteq mailed'
  BY <1>1, <1>3 DEF MailDecisions, RowsOK
<1>5. RowsOK'
  BY <1>1, <1>4 DEF RowsOK, SentWereMailed, SomebodyMailed, Rows
<1>6. QED
  BY <1>1, <1>5, CallEnds DEF ProcurementInv

LEMMA InitProcurementInv == Init => ProcurementInv
<1> SUFFICES ASSUME Init PROVE ProcurementInv
  OBVIOUS
<1>1. /\ request = None /\ offer \in Table /\ Rows(offer) = {} /\ inbox = <<>> /\ mailed = {} /\ told = {}
      /\ DOMAIN pc = Session /\ DOMAIN job = Session /\ \A s \in Session : pc[s] = "idle"
  BY DEF Init, Table, Rows
<1>2. inbox \in Seq(Offer) /\ Len(inbox) <= MaxReplies
  BY <1>1, CallsAndRepliesAreBounded
<1>3. SentWereMailed(offer)
  BY <1>1 DEF SentWereMailed, Rows
<1>4. QED
  BY <1>1, <1>2, <1>3 DEF ProcurementInv, RowsOK, CallsOK

LEMMA NextProcurementInv == ProcurementInv /\ [Next]_vars => ProcurementInv'
<1> SUFFICES ASSUME ProcurementInv, [Next]_vars PROVE ProcurementInv'
  OBVIOUS
<1>1. CASE UNCHANGED vars
  <2>1. UNCHANGED <<request, offer, inbox, mailed, told, pc, job>>
    BY <1>1 DEF vars
  <2>2. CallsOK'
    BY <2>1 DEF ProcurementInv, CallsOK, Holds, Ingests, SentWereMailed, SomebodyMailed, Answers
  <2>3. QED
    BY <2>1, <2>2, RowsStay DEF ProcurementInv
<1>2. ASSUME NEW o \in Offer, SupplierReplies(o) PROVE ProcurementInv'
  BY <1>2, SupplierRepliesKeep
<1>3. ASSUME NEW s \in Session, MailRecipients(s, FALSE) \/ ConnectionLost(s) PROVE ProcurementInv'
  BY <1>3, MailRecipientsKeeps, EndingsKeep
<1>4. ASSUME NEW s \in Session, Call(s) PROVE ProcurementInv'
  BY <1>4, CreateKeeps, LoadForEditKeeps, LoadForSendKeeps, LoadForCancelKeeps, LoadForConfirmKeeps,
     PasteKeeps, LoadForCorrectionKeeps DEF Call
<1>5. ASSUME NEW s \in Session, HandlerStep(s) PROVE ProcurementInv'
  BY <1>5, SelectionsKeep, SaveRequestKeeps, AfterOffersKeeps, EndingsKeep, StrikeKeeps, MailDecisionsKeeps,
     LoadRequestKeeps, StoreReplyKeeps, ExtractKeeps DEF HandlerStep, SaveStep
<1>6. QED
  BY <1>1, <1>2, <1>3, <1>4, <1>5 DEF Next

LEMMA ProcurementStaysInOrder == Spec => []ProcurementInv
<1>1. QED
  BY InitProcurementInv, NextProcurementInv, PTL DEF Spec

-----------------------------------------------------------------------------
\* The steps of Procurement as those of the deal.

AsTheDeal ==
    \/ \E s \in Session : Overtaken(s) /\ pc'[s] # pc[s]
    \/ Deal!Next
    \/ UNCHANGED <<StatusOfRequest, Statuses>>

LEMMA NothingSaved == ASSUME UNCHANGED <<request, offer>> PROVE AsTheDeal
BY DEF AsTheDeal, StatusOfRequest, Statuses

LEMMA StatusesAre ==
    ASSUME RowsOK
    PROVE  /\ \A o \in Offer : /\ offer[o] = None => Statuses[o] = None
                               /\ offer[o] # None => /\ Statuses[o] = offer[o].status
                                                     /\ Statuses[o] \in OfferStatus /\ Statuses[o] # None
           /\ request # None => StatusOfRequest = request.status
           /\ request = None => StatusOfRequest = None
<1>1. ASSUME NEW o \in Offer, offer[o] # None PROVE offer[o].status \in OfferStatus /\ offer[o].status # None
  BY <1>1, NullIsNoRow DEF RowsOK, Table, OfferRow
<1>2. QED
  BY <1>1 DEF Statuses, StatusOfRequest

\* A save of offers that nobody overtook enters an answer, or nothing.
LEMMA OffersAreAnswered ==
    ASSUME RowsOK, request # None, NEW s \in Session, NEW label \in {"saveReply", "saveOffers"},
           Holds(job[s], label), Selected(job[s]), ~Overtaken(s), SaveOffers(s, label),
           \A o \in job[s].targets : job[s].offers[o] # None,
           \/ \A o \in job[s].targets : job[s].offers[o].status = job[s].was[o].status
           \/ \E o \in Offer : job[s].targets = {o} /\ job[s].offers[o].status \in {job[s].was[o].status, "received"}
    PROVE  AsTheDeal
<1>1. /\ RowsOK' /\ UNCHANGED request
      /\ \A o \in Offer \ job[s].targets : offer'[o] = offer[o]
      /\ \A o \in job[s].targets : offer[o] # None =>
           offer'[o] # None /\ offer'[o].status \in {offer[o].status, job[s].offers[o].status}
  BY OffersAreSaved DEF SaveOffers
<1>2. /\ request.status # "confirmed"
      /\ \A o \in job[s].targets : offer[o] # None /\ offer[o].status = job[s].was[o].status
  BY DEF Overtaken, SaveOffers
<1>3. job[s].targets \subseteq Offer
  BY DEF Holds, HandlerJob
<1>4. \A o \in Offer \ job[s].targets : Statuses'[o] = Statuses[o]
  BY <1>1 DEF Statuses
<1>5. \A o \in job[s].targets : /\ Statuses[o] = job[s].was[o].status /\ Statuses[o] # None
                                /\ Statuses'[o] \in {Statuses[o], job[s].offers[o].status}
  <2>1. ASSUME NEW o \in job[s].targets
        PROVE  /\ Statuses[o] = job[s].was[o].status /\ Statuses[o] # None
               /\ Statuses'[o] \in {Statuses[o], job[s].offers[o].status}
    <3>1. o \in Offer /\ offer[o] # None /\ offer'[o] # None
          /\ offer'[o].status \in {offer[o].status, job[s].offers[o].status}
      BY <1>1, <1>2, <1>3
    <3>2. Statuses[o] = offer[o].status /\ Statuses[o] # None
      BY <3>1, StatusesAre
    <3>3. Statuses'[o] = offer'[o].status
      BY <3>1 DEF Statuses
    <3>4. QED
      BY <1>2, <3>1, <3>2, <3>3
  <2>2. QED
    BY <2>1
<1>6. CASE \A o \in Offer : Statuses'[o] = Statuses[o]
  <2>1. Statuses' = Statuses
    BY <1>6 DEF Statuses
  <2>2. QED
    BY <1>1, <2>1 DEF AsTheDeal, StatusOfRequest
<1>7. CASE ~\A o \in Offer : Statuses'[o] = Statuses[o]
  <2>1. PICK o \in Offer : job[s].targets = {o} /\ job[s].offers[o].status \in {job[s].was[o].status, "received"}
    <3>1. \A o \in job[s].targets : job[s].offers[o].status = job[s].was[o].status => Statuses'[o] = Statuses[o]
      BY <1>5
    <3>2. QED
      BY <1>4, <1>7, <3>1
  <2>2. Statuses'[o] = "received"
    BY <1>4, <1>5, <1>7, <2>1
  <2>3. Statuses' = [Statuses EXCEPT ![o] = "received"]
    BY <1>4, <2>1, <2>2 DEF Statuses
  <2>4. StatusOfRequest = request.status /\ StatusOfRequest' = StatusOfRequest
    BY <1>1, StatusesAre DEF StatusOfRequest
  <2>5. Deal!Answer(o)
    BY <1>2, <1>5, <2>1, <2>3, <2>4 DEF Deal!Answer, Deal!Listed
  <2>6. QED
    BY <2>5 DEF Deal!Next, AsTheDeal
<1>8. QED
  BY <1>6, <1>7

LEMMA SavedOffersAsTheDeal ==
    ASSUME ProcurementInv, NEW s \in Session, AfterOffers(s) \/ StoreReply(s), pc'[s] # pc[s] PROVE AsTheDeal
<1>1. RowsOK /\ CallsOK
  BY DEF ProcurementInv
<1>2. CASE Overtaken(s)
  BY <1>2 DEF AsTheDeal
<1>3. CASE ~Overtaken(s) /\ AfterOffers(s)
  <2>1. pc[s] = "saveOffers" /\ SaveOffers(s, "saveOffers")
    BY <1>3 DEF AfterOffers, SaveOffers
  <2>2. request # None /\ Holds(job[s], "saveOffers")
    BY <1>1, <2>1, HoldsWhileRunning
  <2>3. Answers(job[s]) /\ Selected(job[s])
    BY <2>2 DEF Holds
  <2>4. \/ \A o \in job[s].targets : job[s].offers[o].status = job[s].was[o].status
        \/ \E o \in Offer : job[s].targets = {o} /\ job[s].offers[o].status \in {job[s].was[o].status, "received"}
    BY <2>3 DEF Answers
  <2>5. \A o \in job[s].targets : job[s].offers[o] # None
    BY <2>3 DEF Answers
  <2>6. QED
    BY <1>1, <1>3, <2>1, <2>2, <2>3, <2>4, <2>5, OffersAreAnswered
<1>4. CASE ~Overtaken(s) /\ StoreReply(s)
  <2>1. pc[s] = "saveReply" /\ SaveOffers(s, "saveReply")
    BY <1>4 DEF StoreReply, SaveOffers
  <2>2. request # None /\ Holds(job[s], "saveReply")
    BY <1>1, <2>1, HoldsWhileRunning
  <2>3. Reads(job[s]) /\ Selected(job[s])
    BY <2>2 DEF Holds
  <2>4. /\ \E o \in Offer : job[s].targets = {o} /\ job[s].offers[o].status \in {job[s].was[o].status, "received"}
        /\ \A o \in job[s].targets : job[s].offers[o] # None
    BY <2>3 DEF Reads
  <2>5. QED
    BY <1>1, <1>4, <2>1, <2>2, <2>3, <2>4, OffersAreAnswered
<1>5. QED
  BY <1>2, <1>3, <1>4

LEMMA SavedRequestAsTheDeal ==
    ASSUME ProcurementInv, NEW s \in Session, SaveRequest(s), pc'[s] # pc[s] PROVE AsTheDeal
<1>1. RowsOK /\ CallsOK /\ pc[s] = "saveRequest" /\ UNCHANGED offer /\ request' = SavedRequest(s)
  BY DEF ProcurementInv, SaveRequest
<1>2. request # None /\ Holds(job[s], "saveRequest") /\ job[s] \in HandlerJob
  BY <1>1, HoldsWhileRunning
<1>3. Moves(job[s]) /\ SelectedToo(job[s])
  BY <1>2 DEF Holds
<1>4. CASE Overtaken(s)
  BY <1>4 DEF AsTheDeal
<1>5. CASE ~Overtaken(s)
  <2>1. request.status = job[s].seen
    BY <1>1, <1>5 DEF Overtaken
  <2>2. request' \in RequestRow /\ request'.status \in {job[s].request.status, request.status}
    <3>1. job[s].request \in RequestRow /\ job[s].selected.request \in RequestRow /\ request \in RequestRow
      BY <1>1, <1>2, <1>3 DEF HandlerJob, SelectedToo, Selection, RowsOK
    <3>2. QED
      BY <1>1, <3>1, MergedRequest DEF SavedRequest
  <2>3. StatusOfRequest = request.status /\ StatusOfRequest' = request'.status /\ Statuses' = Statuses
    BY <1>1, <1>2, <2>2, NullIsNoRow DEF StatusOfRequest, Statuses
  <2>4. CASE request'.status = request.status
    BY <2>3, <2>4 DEF AsTheDeal
  <2>5. CASE request'.status # request.status
    <3>1. request'.status = job[s].request.status
      BY <2>2, <2>5
    <3>2. Deal!Send \/ Deal!FirstAnswer \/ Deal!CallOff
      BY <1>3, <2>1, <2>3, <3>1 DEF Moves, Deal!Send, Deal!FirstAnswer, Deal!CallOff
    <3>3. QED
      BY <3>2 DEF AsTheDeal, Deal!Next
  <2>6. QED
    BY <2>4, <2>5
<1>6. QED
  BY <1>4, <1>5

LEMMA InsertedAsTheDeal ==
    ASSUME NEW list \in Recipients, offer' = Insert(list), request' # None, request'.status = "draft",
           StatusOfRequest \in {None, "draft"}
    PROVE  AsTheDeal
<1>1. StatusOfRequest' = "draft"
  BY DEF StatusOfRequest
<1>2. Statuses' = [o \in Offer |-> IF o \in list THEN "awaiting" ELSE None]
  <2>1. NewOffer \in OfferRow /\ NewOffer.status = "awaiting"
    BY DEF NewOffer, OfferRow, OfferStatus
  <2>2. QED
    BY <2>1, NullIsNoRow DEF Statuses, Insert
<1>3. Deal!Draft
  BY <1>1, <1>2 DEF Deal!Draft, Deal!List
<1>4. QED
  BY <1>3 DEF AsTheDeal, Deal!Next

LEMMA CreatedAsTheDeal == ASSUME ProcurementInv, NEW s \in Session, Create(s) PROVE AsTheDeal
<1>1. PICK list \in Recipients : offer' = Insert(list)
  BY DEF Create, FreshLists
<1>2. StatusOfRequest = None /\ request' = [status |-> "draft", deal |-> None]
  BY DEF Create, StatusOfRequest
<1>3. request' # None /\ request'.status = "draft"
  BY <1>2, NullIsNoRow DEF RequestRow, RequestStatus
<1>4. QED
  BY <1>1, <1>2, <1>3, InsertedAsTheDeal

LEMMA EditedAsTheDeal ==
    ASSUME ProcurementInv, NEW s \in Session, SaveEdit(s), pc'[s] # pc[s] PROVE AsTheDeal
<1>1. RowsOK /\ CallsOK /\ pc[s] = "saveEdit" /\ request' = SavedRequest(s)
  BY DEF ProcurementInv, SaveEdit
<1>2. request # None /\ Holds(job[s], "saveEdit") /\ job[s] \in HandlerJob
  BY <1>1, HoldsWhileRunning
<1>3. Edits(job[s]) /\ SelectedToo(job[s])
  BY <1>2 DEF Holds
<1>4. CASE Overtaken(s)
  BY <1>4 DEF AsTheDeal
<1>5. CASE ~Overtaken(s)
  <2>1. request.status = "draft"
    BY <1>1, <1>3, <1>5 DEF Overtaken, Edits
  <2>2. request' \in RequestRow /\ request'.status = "draft" /\ request' # None
    <3>1. job[s].request \in RequestRow /\ job[s].selected.request \in RequestRow /\ request \in RequestRow
      BY <1>1, <1>2, <1>3 DEF HandlerJob, SelectedToo, Selection, RowsOK
    <3>2. request' \in RequestRow /\ request'.status \in {job[s].request.status, request.status}
      BY <1>1, <3>1, MergedRequest DEF SavedRequest
    <3>3. QED
      BY <1>3, <2>1, <3>2, NullIsNoRow DEF Edits
  <2>3. StatusOfRequest = "draft" /\ StatusOfRequest' = "draft"
    BY <1>2, <2>1, <2>2 DEF StatusOfRequest
  <2>4. CASE job[s].targets = {}
    BY <2>3, <2>4 DEF SaveEdit, AsTheDeal, Statuses
  <2>5. CASE job[s].targets # {}
    <3>1. job[s].targets \in Recipients /\ offer' = Insert(job[s].targets)
      BY <1>3, <2>5 DEF Edits, SaveEdit
    <3>2. QED
      BY <2>2, <2>3, <3>1, InsertedAsTheDeal
  <2>6. QED
    BY <2>4, <2>5
<1>6. QED
  BY <1>4, <1>5

LEMMA StruckAsTheDeal == ASSUME ProcurementInv, NEW s \in Session, Strike(s), pc'[s] # pc[s] PROVE AsTheDeal
<1>1. RowsOK /\ CallsOK /\ pc[s] = "strike"
  BY DEF ProcurementInv, Strike
<1>2. request # None /\ Holds(job[s], "strike") /\ Strikes(job[s])
  BY <1>1, HoldsWhileRunning DEF Holds
<1>3. CASE Overtaken(s)
  BY <1>3 DEF AsTheDeal
<1>4. CASE ~Overtaken(s)
  <2>1. job[s].listed = Rows(offer)
    BY <1>1, <1>4 DEF Overtaken
  <2>2. PICK winner : winner \in job[s].listed /\ job[s].targets = {winner}
    BY <1>2 DEF Strikes
  <2>3. winner \in Offer /\ offer[winner] # None
    BY <2>1, <2>2 DEF Rows
  <2>4. request.status = "replied" /\ request' = [request EXCEPT !.status = "confirmed", !.deal = winner]
    BY <1>2, <2>2 DEF Strike, StatusAsRead, Strikes
  <2>5. request' # None /\ request'.status = "confirmed"
    <3>1. request' \in RequestRow /\ request'.status = "confirmed"
      BY <1>1, <1>2, <2>3, <2>4 DEF RowsOK, RequestRow, RequestStatus
    <3>2. QED
      BY <3>1, NullIsNoRow
  <2>6. StatusOfRequest = "replied" /\ StatusOfRequest' = "confirmed"
    BY <1>2, <2>4, <2>5 DEF StatusOfRequest
  <2>7. winner \in Deal!Listed
    BY <1>1, <2>3, StatusesAre DEF Deal!Listed
  <2>8. Statuses' = [o \in Offer |-> IF o = winner THEN "won" ELSE IF o \in Deal!Listed THEN "declined" ELSE None]
    <3>1. ASSUME NEW o \in Offer
          PROVE  Statuses'[o] = IF o = winner THEN "won" ELSE IF o \in Deal!Listed THEN "declined" ELSE None
      <4>1. PICK row : row = offer[o]
        OBVIOUS
      <4>2. row \in OfferRow \cup {None} /\ (o \in Deal!Listed <=> row # None)
        BY <1>1, <4>1, StatusesAre DEF RowsOK, Table, Deal!Listed
      <4>3. offer'[o] = IF row # None THEN [row EXCEPT !.status = Decided(s, o)] ELSE row
        BY <2>1, <4>1 DEF Strike, Rows
      <4>4. CASE row = None
        BY <2>3, <4>1, <4>2, <4>3, <4>4 DEF Statuses
      <4>5. CASE row # None
        <5>1. Decided(s, o) \in OfferStatus
          BY DEF Decided, OfferStatus
        <5>2. offer'[o] \in OfferRow /\ offer'[o].status = Decided(s, o)
          BY <4>2, <4>3, <4>5, <5>1 DEF OfferRow
        <5>3. offer'[o] # None
          BY <5>2, NullIsNoRow
        <5>4. Statuses'[o] = Decided(s, o)
          BY <5>2, <5>3 DEF Statuses
        <5>5. QED
          BY <2>2, <4>2, <4>5, <5>4 DEF Decided
      <4>6. QED
        BY <4>4, <4>5
    <3>2. QED
      BY <3>1 DEF Statuses
  <2>9. Deal!Strike(winner)
    BY <2>6, <2>7, <2>8 DEF Deal!Strike
  <2>10. QED
    BY <2>3, <2>9 DEF AsTheDeal, Deal!Next
<1>5. QED
  BY <1>3, <1>4

-----------------------------------------------------------------------------
\* The theorem about the request.

\* A call that writes leaves the label it wrote from.
LEMMA WritersLeaveTheirLabel ==
    ASSUME ProcurementInv, NEW s \in Session,
           AfterOffers(s) \/ StoreReply(s) \/ SaveRequest(s) \/ SaveEdit(s) \/ Strike(s)
    PROVE  pc'[s] # pc[s]
<1>1. DOMAIN pc = Session
  BY DEF ProcurementInv, CallsOK
<1>2. CASE AfterOffers(s)
  <2>1. pc[s] = "saveOffers" /\ pc'[s] \in {"selectRequest", "idle"}
    BY <1>1, <1>2 DEF AfterOffers, SaveOffers, Goto, Finish
  <2>2. QED
    BY <2>1
<1>3. CASE StoreReply(s)
  BY <1>1, <1>3 DEF StoreReply, SaveOffers, Goto
<1>4. CASE SaveRequest(s) \/ SaveEdit(s)
  BY <1>1, <1>4 DEF SaveRequest, SaveEdit, Finish
<1>5. CASE Strike(s)
  BY <1>1, <1>5 DEF Strike, Goto
<1>6. QED
  BY <1>2, <1>3, <1>4, <1>5

LEMMA EveryStepAsTheDeal == ProcurementInv /\ [Next]_vars => AsTheDeal
<1> SUFFICES ASSUME ProcurementInv, [Next]_vars PROVE AsTheDeal
  OBVIOUS
<1>1. CASE UNCHANGED vars
  BY <1>1, NothingSaved DEF vars
<1>2. ASSUME NEW o \in Offer, SupplierReplies(o) PROVE AsTheDeal
  BY <1>2, NothingSaved DEF SupplierReplies
<1>3. ASSUME NEW s \in Session, MailRecipients(s, FALSE) \/ ConnectionLost(s) PROVE AsTheDeal
  BY <1>3, NothingSaved DEF MailRecipients, ConnectionLost
<1>4. ASSUME NEW s \in Session, Call(s) PROVE AsTheDeal
  <2>1. CASE Create(s)
    BY <2>1, CreatedAsTheDeal
  <2>2. CASE ~Create(s)
    <3>1. UNCHANGED <<request, offer>>
      BY <1>4, <2>2 DEF Call, LoadForEdit, LoadForSend, LoadForCancel, LoadForConfirm, Paste, LoadOffer,
         LoadForCorrection, Start
    <3>2. QED
      BY <3>1, NothingSaved
  <2>3. QED
    BY <2>1, <2>2
<1>5. ASSUME NEW s \in Session, HandlerStep(s) PROVE AsTheDeal
  <2>1. CASE AfterOffers(s) \/ StoreReply(s)
    BY <2>1, WritersLeaveTheirLabel, SavedOffersAsTheDeal
  <2>2. CASE SaveRequest(s)
    BY <2>2, WritersLeaveTheirLabel, SavedRequestAsTheDeal
  <2>3. CASE SaveEdit(s)
    BY <2>3, WritersLeaveTheirLabel, EditedAsTheDeal
  <2>4. CASE Strike(s)
    BY <2>4, WritersLeaveTheirLabel, StruckAsTheDeal
  <2>5. CASE ~(AfterOffers(s) \/ StoreReply(s) \/ SaveRequest(s) \/ SaveEdit(s) \/ Strike(s))
    <3>1. UNCHANGED <<request, offer>>
      BY <1>5, <2>5 DEF HandlerStep, SaveStep, SelectRequest, SelectOffers, Select, Throws, StrikeConflict,
         MailDecisions, LoadRequest, SkipReply, Extract
    <3>2. QED
      BY <3>1, NothingSaved
  <2>6. QED
    BY <2>1, <2>2, <2>3, <2>4, <2>5
<1>6. QED
  BY <1>1, <1>2, <1>3, <1>4, <1>5 DEF Next

LEMMA OrderlyRowsAgree == RowsOK => MailsAndRowsAgree
BY DEF RowsOK, Table, Rows, SomebodyMailed, MailsAndRowsAgree

\* However edit, send, cancel, confirm, ingest and updateOffer of
\* PurchaseRequestService overlap, throw or are cut off, for any number of them
\* and of offers, a commit is one legal step of PurchaseDeal or none, unless its
\* own handler was overtaken; and none, overtaken or not, leaves a request that
\* counts as sent although nobody was mailed, or declines who was never asked.
THEOREM OnlyOvertakenWritesLeaveTheDealHolds == Spec => OnlyOvertakenWritesLeaveTheDeal
<1>1. ProcurementInv /\ ProcurementInv' /\ [Next]_vars =>
        [/\ \/ \E s \in Session : Overtaken(s) /\ pc'[s] # pc[s]
            \/ Deal!Next
            \/ UNCHANGED <<StatusOfRequest, Statuses>>
         /\ MailsAndRowsAgree']_vars
  <2> SUFFICES ASSUME ProcurementInv, ProcurementInv', [Next]_vars
               PROVE  /\ \/ \E s \in Session : Overtaken(s) /\ pc'[s] # pc[s]
                         \/ Deal!Next
                         \/ UNCHANGED <<StatusOfRequest, Statuses>>
                      /\ MailsAndRowsAgree'
    OBVIOUS
  <2>1. AsTheDeal
    BY EveryStepAsTheDeal
  <2>2. MailsAndRowsAgree'
    BY OrderlyRowsAgree, PTL DEF ProcurementInv
  <2>3. QED
    BY <2>1, <2>2 DEF AsTheDeal
<1>2. QED
  BY <1>1, ProcurementStaysInOrder, PTL DEF Spec, OnlyOvertakenWritesLeaveTheDeal

-----------------------------------------------------------------------------
\* The passes over the mailbox, and their lock.

\* What is needed of the passes' memory: that a pass is in some phase.
PassesOK == DOMAIN pass = Syncs /\ \A i \in Syncs : "phase" \in DOMAIN pass[i]

RunningHoldsTheLock == \A i \in Syncs \ Manual : Phase(i, "none") \/ lease = i

LockInv == PassesOK /\ (outran \/ RunningHoldsTheLock)

-----------------------------------------------------------------------------

\* The pass of i goes on in another phase with what its memory had or starts with.
LEMMA GoesOn ==
    ASSUME PassesOK, NEW i \in Syncs, NEW label, NEW memory, "phase" \in DOMAIN memory,
           Goes(i, label, memory)
    PROVE  PassesOK' /\ Phase(i, label)' /\ \A j \in Syncs \ {i} : pass'[j] = pass[j]
BY DEF PassesOK, Goes, Phase

\* A pass that has started goes on or ends, and the lock stays as it is.
LEMMA PassMoves ==
    ASSUME LockInv, NEW i \in Syncs, ~Phase(i, "none") \/ i \in Manual,
           PassesOK', \A j \in Syncs \ {i} : pass'[j] = pass[j], UNCHANGED <<lease, outran>>
    PROVE  LockInv'
BY DEF LockInv, RunningHoldsTheLock, Phase

\* So it does when a step is known to call Goes.
LEMMA PassGoesOn ==
    ASSUME LockInv, NEW i \in Syncs, ~Phase(i, "none") \/ i \in Manual,
           UNCHANGED <<lease, outran>>,
           NEW label, NEW memory, "phase" \in DOMAIN memory, Goes(i, label, memory)
    PROVE  LockInv'
BY GoesOn, PassMoves DEF LockInv

\* The requests, their offers and the owner's connection have no part in it.
LEMMA NoPassMoves == ASSUME LockInv, UNCHANGED <<pass, lease, outran>> PROVE LockInv'
BY DEF LockInv, PassesOK, RunningHoldsTheLock, Phase

LEMMA EmptyMemory == "phase" \in DOMAIN NoPass /\ "phase" \in DOMAIN OfRow
BY DEF NoPass, OfRow

\* The steps up to the fetch.
LEMMA BeforeFetchKeeps ==
    ASSUME LockInv, NEW i \in Syncs,
           SyncNow(i) \/ ListConnected(i) \/ WatchThreads(i) \/ GrantIsUnreadable(i)
    PROVE  LockInv'
<1>1. "phase" \in DOMAIN pass[i]
  BY DEF LockInv, PassesOK
<1>2. \A x : "phase" \in DOMAIN [pass[i] EXCEPT !.threads = x]
  BY <1>1
<1>3. CASE SyncNow(i)
  <2>1. i \in Manual /\ Goes(i, "watch", OfRow) /\ UNCHANGED <<lease, outran>>
    BY <1>3 DEF SyncNow, Starts, PassVars
  <2>2. QED
    BY <2>1, EmptyMemory, PassGoesOn
<1>4. CASE ListConnected(i)
  <2>1. Phase(i, "list") /\ UNCHANGED <<lease, outran>>
    BY <1>4 DEF ListConnected, PassVars
  <2>2. Goes(i, "watch", OfRow) \/ Goes(i, "release", pass[i])
    BY <1>4 DEF ListConnected
  <2>3. QED
    BY <1>1, <2>1, <2>2, EmptyMemory, PassGoesOn DEF Phase
<1>5. CASE WatchThreads(i)
  <2>1. Phase(i, "watch") /\ UNCHANGED <<lease, outran>>
    BY <1>5 DEF WatchThreads, PassVars
  <2>2. Goes(i, "fetch", [pass[i] EXCEPT !.threads = OpenThreads]) \/ Goes(i, "release", pass[i])
    BY <1>5 DEF WatchThreads
  <2>3. QED
    BY <1>1, <1>2, <2>1, <2>2, PassGoesOn DEF Phase
<1>6. CASE GrantIsUnreadable(i)
  <2>1. Phase(i, "watch") /\ Goes(i, "release", pass[i]) /\ UNCHANGED <<lease, outran>>
    BY <1>6 DEF GrantIsUnreadable, PassVars
  <2>2. QED
    BY <1>1, <2>1, PassGoesOn DEF Phase
<1>7. QED
  BY <1>3, <1>4, <1>5, <1>6

\* The fetch, from the history or thread by thread, and how it fails.
LEMMA FetchKeeps ==
    ASSUME LockInv, NEW i \in Syncs,
           ReadHistory(i) \/ GrantIsRevoked(i) \/ ReadThreads(i) \/ ReadCursor(i) \/ FetchFails(i)
    PROVE  LockInv'
<1>1. "phase" \in DOMAIN pass[i]
  BY DEF LockInv, PassesOK
<1>2. ~Phase(i, "none") /\ UNCHANGED <<lease, outran>>
  BY DEF ReadHistory, GrantIsRevoked, ReadThreads, ReadCursor, FetchFails, Phase, PassVars
<1>3. \A x, y, z : /\ "phase" \in DOMAIN [pass[i] EXCEPT !.page = x, !.next = y, !.left = z]
                   /\ "phase" \in DOMAIN [pass[i] EXCEPT !.page = x, !.seen = y, !.left = z]
                   /\ "phase" \in DOMAIN [pass[i] EXCEPT !.next = x, !.left = @ \cup y]
  BY <1>1
<1>4. CASE ReadHistory(i)
  <2>1. \E x, y, z : Goes(i, "replies", [pass[i] EXCEPT !.page = x, !.next = y, !.left = z])
    BY <1>4, Zenon DEF ReadHistory
  <2>2. QED
    BY <1>2, <1>3, <2>1, PassGoesOn
<1>5. CASE ReadThreads(i)
  <2>1. \E x, y, z : Goes(i, "cursor", [pass[i] EXCEPT !.page = x, !.seen = y, !.left = z])
    BY <1>5, Zenon DEF ReadThreads
  <2>2. QED
    BY <1>2, <1>3, <2>1, PassGoesOn
<1>6. CASE ReadCursor(i)
  <2>1. \/ \E x, y : Goes(i, "replies", [pass[i] EXCEPT !.next = x, !.left = @ \cup y])
        \/ Goes(i, "replies", pass[i])
    BY <1>6, Zenon DEF ReadCursor
  <2>2. QED
    BY <1>1, <1>2, <1>3, <2>1, PassGoesOn
<1>7. CASE GrantIsRevoked(i) \/ FetchFails(i)
  <2>1. Goes(i, "release", pass[i])
    BY <1>7 DEF GrantIsRevoked, FetchFails
  <2>2. QED
    BY <1>1, <1>2, <2>1, PassGoesOn
<1>8. QED
  BY <1>4, <1>5, <1>6, <1>7

\* The replies, one after the other, and the cursor behind them.
LEMMA RepliesKeep ==
    ASSUME LockInv, NEW i \in Syncs,
           ApplyReply(i) \/ IngestGoesOn(i) \/ IngestEnds(i) \/ IngestFails(i) \/ Record(i)
    PROVE  LockInv'
<1>1. "phase" \in DOMAIN pass[i]
  BY DEF LockInv, PassesOK
<1>2. ASSUME NEW outcome, Applied(i, outcome), ~Phase(i, "none") PROVE LockInv'
  <2>1. "phase" \in DOMAIN [pass[i] EXCEPT !.page = Tail(@), !.failed = @ \/ outcome = "failed"]
    BY <1>1
  <2>2. /\ Goes(i, "replies", [pass[i] EXCEPT !.page = Tail(@), !.failed = @ \/ outcome = "failed"])
        /\ UNCHANGED <<lease, outran>>
    BY <1>2, Zenon DEF Applied
  <2>3. QED
    BY <1>2, <2>1, <2>2, PassGoesOn
<1>3. CASE ApplyReply(i)
  <2>1. Phase(i, "replies") /\ (Applied(i, "skipped") \/ (Goes(i, "ingest", pass[i]) /\ UNCHANGED <<lease, PassVars>>))
    BY <1>3 DEF ApplyReply
  <2>2. QED
    BY <1>1, <1>2, <2>1, PassGoesOn DEF Phase, PassVars
<1>4. CASE IngestGoesOn(i)
  BY <1>4, NoPassMoves DEF IngestGoesOn, mailbox
<1>5. CASE IngestEnds(i)
  BY <1>2, <1>5 DEF IngestEnds, Phase
<1>6. CASE IngestFails(i)
  BY <1>2, <1>6 DEF IngestFails, Phase
<1>7. CASE Record(i)
  <2>1. Phase(i, "replies") /\ Goes(i, "release", pass[i]) /\ UNCHANGED <<lease, outran>>
    BY <1>7 DEF Record
  <2>2. QED
    BY <1>1, <2>1, PassGoesOn DEF Phase
<1>8. QED
  BY <1>3, <1>4, <1>5, <1>6, <1>7

\* A scheduled pass starts with a lock that was free, so that no other is running.
LEMMA PassStartsKeeps == ASSUME LockInv, NEW i \in Syncs, PassStarts(i) PROVE LockInv'
<1>1. /\ i \notin Manual /\ lease = None /\ lease' = i /\ outran' = outran
      /\ Goes(i, "list", NoPass)
  BY DEF PassStarts, PassVars, LockIsFree, Starts, PassVars
<1>2. PassesOK' /\ \A j \in Syncs \ {i} : pass'[j] = pass[j]
  BY <1>1, EmptyMemory, GoesOn DEF LockInv
<1>3. ASSUME ~outran PROVE RunningHoldsTheLock'
  <2>1. \A j \in Syncs \ Manual : Phase(j, "none")
    BY <1>1, <1>3, ManualAreSyncs DEF LockInv, RunningHoldsTheLock
  <2>2. QED
    BY <1>1, <1>2, <2>1 DEF RunningHoldsTheLock, Phase
<1>4. QED
  BY <1>1, <1>2, <1>3 DEF LockInv

\* A pass that ends, or whose instance is restarted, leaves the others theirs.
LEMMA PassEndsKeeps == ASSUME LockInv, NEW i \in Syncs, Release(i) \/ Restart(i) PROVE LockInv'
<1>1. /\ ~Phase(i, "none") /\ outran' = outran /\ pass' = [pass EXCEPT ![i] = NoPass]
      /\ lease' = lease \/ (i \notin Manual /\ lease' = None)
  BY DEF Release, Restart, Phase, PassVars
<1>2. PassesOK' /\ Phase(i, "none")' /\ \A j \in Syncs \ {i} : pass'[j] = pass[j]
  BY <1>1 DEF LockInv, PassesOK, NoPass, Phase
<1>3. ASSUME ~outran PROVE RunningHoldsTheLock'
  BY <1>1, <1>2, <1>3 DEF LockInv, RunningHoldsTheLock, Phase
<1>4. QED
  BY <1>1, <1>2, <1>3 DEF LockInv

\* A lock that expires is nobody's, or its pass is still running: outran records that.
LEMMA ExpiryKeepsTheLock ==
    ASSUME LockInv, NEW i \in Syncs, LockExpires(i) \/ LockIsOutrun(i)
    PROVE  LockInv'
<1>1. pass' = pass /\ PassesOK'
  BY DEF LockExpires, LockIsOutrun, LockInv, PassesOK
<1>2. CASE LockIsOutrun(i)
  BY <1>1, <1>2 DEF LockIsOutrun, LockInv
<1>3. CASE LockExpires(i)
  BY <1>1, <1>3 DEF LockExpires, Expired, PassVars, LockInv, RunningHoldsTheLock, Phase
<1>4. QED
  BY <1>2, <1>3

-----------------------------------------------------------------------------
\* The theorem about the pass.

LEMMA LockInvStarts == ASSUME InitMailbox PROVE LockInv
BY DEF InitMailbox, LockInv, PassesOK, RunningHoldsTheLock, NoPass, Phase

LEMMA LockInvSteps == ASSUME LockInv, [NextWithMailbox]_allVars PROVE LockInv'
<1>1. CASE UNCHANGED allVars
  BY <1>1, NoPassMoves DEF allVars, mailbox
<1>2. ASSUME NEW s \in Session, OwnerCalls(s) \/ MailThroughMailbox(s) PROVE LockInv'
  BY <1>2, NoPassMoves DEF OwnerCalls, MailThroughMailbox, mailbox, PassVars
<1>3. ASSUME NEW o \in Offer, SupplierReplies(o) /\ UNCHANGED mailbox PROVE LockInv'
  BY <1>3, NoPassMoves DEF mailbox
<1>4. CASE ReadConsent \/ SaveConsent \/ Disconnect \/ WithdrawGrant
  BY <1>4, NoPassMoves DEF ReadConsent, SaveConsent, Disconnect, WithdrawGrant, PassVars
<1>5. ASSUME NEW i \in Syncs,
             \/ PassStarts(i) \/ SyncNow(i) \/ PassStep(i)
             \/ GrantIsUnreadable(i) \/ FetchFails(i) \/ IngestFails(i)
             \/ Restart(i) \/ LockExpires(i) \/ LockIsOutrun(i)
      PROVE  LockInv'
  BY <1>5, PassStartsKeeps, BeforeFetchKeeps, FetchKeeps, RepliesKeep, PassEndsKeeps,
     ExpiryKeepsTheLock DEF PassStep
<1>6. QED
  BY <1>1, <1>2, <1>3, <1>4, <1>5 DEF NextWithMailbox

\* However many instances poll the mailbox, two scheduled passes overlap only after a
\* lock expired under a pass that was still running: setIfAbsent and the unconditional
\* delete of MailboxSyncScheduler suffice, restarts in the middle of a pass included.
THEOREM OnePassAtATimeHolds == MailboxSpec => []OnePassAtATime
<1>1. LockInv => OnePassAtATime
  BY DEF LockInv, RunningHoldsTheLock, OnePassAtATime
<1>2. QED
  BY LockInvStarts, LockInvSteps, <1>1, PTL DEF MailboxSpec

-----------------------------------------------------------------------------
\* The cursor of the mailbox, and the replies behind it.

PhaseName == {"none", "list", "watch", "fetch", "cursor", "replies", "ingest", "release"}
Watermark == Nat \cup {None}
PassRow == [phase : PhaseName, id : Nat, cursor : Watermark, threads : SUBSET Offer, page : Seq(Nat),
            seen : Nat, next : Watermark, left : SUBSET Nat, failed : BOOLEAN]
ConnectionRow == [id : Nat, cursor : Watermark, status : {"connected", "expired", "revoked"}]

MailboxTyped ==
    /\ inbox \in Seq(Offer)
    /\ connection \in ConnectionRow \cup {None}
    /\ connects \in Nat
    /\ consent \subseteq Watermark
    /\ pass \in [Syncs -> PassRow]

Accounted == settled \cup leftOut \cup skipped

IsCovered(watermark, replies) == watermark # None => 1..watermark \subseteq replies

\* What a pass remembers of the history: the cursor it copied is covered, and when it has
\* fetched, so is the one it will record, with what it has still to ingest and what it
\* leaves out, unless an ingest failed.
Remembers(p, replies) ==
    /\ p.phase \in {"watch", "fetch"} => IsCovered(p.cursor, replies)
    /\ p.phase \in {"watch", "fetch", "cursor"} => p.next = None
    /\ p.phase = "cursor" => 1..p.seen \subseteq replies \cup p.left \cup ToSet(p.page)
    /\ p.phase \in {"replies", "ingest"} =>
         p.failed \/ IsCovered(p.next, replies \cup p.left \cup ToSet(p.page))
    /\ p.phase = "ingest" => p.page # <<>>

CursorInv ==
    /\ MailboxTyped
    /\ IsCovered(Cursor, Accounted)
    /\ \A i \in Syncs : Remembers(pass[i], Accounted)

-----------------------------------------------------------------------------

\* A list of a finite set is a sequence in which nothing of the set is missing.
LEMMA ListsAreComplete ==
    ASSUME NEW S \in SUBSET Nat, IsFiniteSet(S), NEW list \in SetToSeqs(S)
    PROVE  list \in Seq(Nat) /\ ToSet(list) = S
<1> DEFINE n == Cardinality(S)
<1>1. n \in Nat /\ list \in [1..n -> S] /\ \A k, l \in 1..n : k # l => list[k] # list[l]
  BY FS_CardinalityType DEF SetToSeqs
<1>2. list \in Injection(1..n, S)
  BY <1>1 DEF Injection, IsInjective
<1>3. Cardinality(1..n) = n
  BY <1>1, FS_Interval
<1>4. list \in Surjection(1..n, S)
  BY <1>2, <1>3, FS_Injection
<1>5. \A m \in S : \E k \in 1..n : list[k] = m
  BY <1>4 DEF Surjection
<1>6. ToSet(list) = S
  BY <1>1, <1>5 DEF ToSet
<1>7. list \in [1..n -> Nat]
  BY <1>1
<1>8. list \in Seq(Nat)
  BY <1>1, <1>7, SeqDef
<1>9. QED
  BY <1>6, <1>8

LEMMA FiniteHistory == ASSUME NEW n \in Nat, NEW S \in SUBSET (1..n) PROVE IsFiniteSet(S)
<1>1. 1 \in Int /\ n \in Int
  OBVIOUS
<1>2. IsFiniteSet(1..n)
  BY <1>1, FS_Interval
<1>3. QED
  BY <1>2, FS_Subset

\* The first of a page, and the rest of it.
LEMMA PageByPage ==
    ASSUME NEW page \in Seq(Nat), page # <<>>
    PROVE  Tail(page) \in Seq(Nat) /\ ToSet(page) = {Head(page)} \cup ToSet(Tail(page))
<1>1. /\ Len(page) \in Nat \ {0} /\ Head(page) = page[1] /\ DOMAIN page = 1..Len(page)
      /\ Tail(page) \in Seq(Nat) /\ DOMAIN Tail(page) = 1..(Len(page) - 1)
      /\ \A k \in 1..(Len(page) - 1) : Tail(page)[k] = page[k + 1]
  OBVIOUS
<1>2. \A k \in 1..Len(page) : k = 1 \/ (k - 1 \in 1..(Len(page) - 1) /\ Tail(page)[k - 1] = page[k])
  BY <1>1
<1>3. \A k \in 1..(Len(page) - 1) : k + 1 \in 1..Len(page)
  BY <1>1
<1>4. 1 \in 1..Len(page)
  BY <1>1
<1>5. ToSet(page) = {page[k] : k \in 1..Len(page)}
  BY <1>1 DEF ToSet
<1>6. ToSet(Tail(page)) = {Tail(page)[k] : k \in 1..(Len(page) - 1)}
  BY <1>1 DEF ToSet
<1>7. ToSet(page) \subseteq {Head(page)} \cup ToSet(Tail(page))
  BY <1>1, <1>2, <1>5, <1>6
<1>8. Head(page) \in ToSet(page) /\ ToSet(Tail(page)) \subseteq ToSet(page)
  BY <1>1, <1>3, <1>4, <1>5, <1>6
<1>9. QED
  BY <1>1, <1>7, <1>8

\* What is accounted for once stays so, and with it what a pass remembers.
LEMMA MemoryLasts ==
    ASSUME NEW p, NEW replies, NEW more, replies \subseteq more, Remembers(p, replies)
    PROVE  Remembers(p, more)
BY DEF Remembers, IsCovered

LEMMA CursorLasts ==
    ASSUME NEW watermark, NEW replies, NEW more, replies \subseteq more, IsCovered(watermark, replies)
    PROVE  IsCovered(watermark, more)
BY DEF IsCovered

\* A step that is none of a pass.
LEMMA NoPassSteps ==
    ASSUME CursorInv, MailboxTyped', UNCHANGED pass, Accounted \subseteq Accounted',
           IsCovered(Cursor', Accounted')
    PROVE  CursorInv'
BY MemoryLasts DEF CursorInv

\* A step of the pass i.
LEMMA PassSteps ==
    ASSUME CursorInv, NEW i \in Syncs, NEW label \in PhaseName, NEW memory \in PassRow,
           Goes(i, label, memory), Accounted \subseteq Accounted', IsCovered(Cursor', Accounted'),
           inbox' = inbox, connection' \in ConnectionRow \cup {None}, UNCHANGED <<consent, connects>>,
           Remembers([memory EXCEPT !.phase = label], Accounted')
    PROVE  CursorInv'
<1>1. [memory EXCEPT !.phase = label] \in PassRow
  BY DEF PassRow
<1>2. pass' \in [Syncs -> PassRow] /\ pass'[i] = [memory EXCEPT !.phase = label]
      /\ \A j \in Syncs \ {i} : pass'[j] = pass[j]
  BY <1>1 DEF CursorInv, MailboxTyped, Goes
<1>3. MailboxTyped'
  BY <1>2 DEF CursorInv, MailboxTyped
<1>4. \A j \in Syncs : Remembers(pass'[j], Accounted')
  BY <1>2, MemoryLasts DEF CursorInv
<1>5. QED
  BY <1>3, <1>4 DEF CursorInv

\* The row is as it was, or has another status, or another cursor.
LEMMA UpdatedStatus ==
    ASSUME CursorInv, NEW id, NEW status \in {"expired", "revoked"}, UpdateConnection(id, [status |-> status])
    PROVE  connection' \in ConnectionRow \cup {None} /\ Cursor' \in {None, Cursor}
<1>1. CASE connection' = connection
  BY <1>1 DEF CursorInv, MailboxTyped, Cursor
<1>2. CASE connection # None /\ connection' = Spread([status |-> status], connection)
  <2>1. connection \in ConnectionRow
    BY <1>2 DEF CursorInv, MailboxTyped
  <2>2. connection' \in ConnectionRow /\ connection'.cursor = connection.cursor
    BY <1>2, <2>1 DEF Spread, ConnectionRow
  <2>3. QED
    BY <1>2, <2>2 DEF Cursor
<1>3. QED
  BY <1>1, <1>2 DEF UpdateConnection

LEMMA UpdatedCursor ==
    ASSUME CursorInv, NEW id, NEW watermark \in Watermark, UpdateConnection(id, [cursor |-> watermark])
    PROVE  connection' \in ConnectionRow \cup {None} /\ Cursor' \in {None, Cursor, watermark}
<1>1. CASE connection' = connection
  BY <1>1 DEF CursorInv, MailboxTyped, Cursor
<1>2. CASE connection # None /\ connection' = Spread([cursor |-> watermark], connection)
  <2>1. connection \in ConnectionRow
    BY <1>2 DEF CursorInv, MailboxTyped
  <2>2. connection' \in ConnectionRow /\ connection'.cursor = watermark
    BY <1>2, <2>1 DEF Spread, ConnectionRow
  <2>3. QED
    BY <1>2, <2>2 DEF Cursor
<1>3. QED
  BY <1>1, <1>2 DEF UpdateConnection

\* Where nothing is accounted for or connected, nothing is lost.
LEMMA SameGround ==
    ASSUME CursorInv, UNCHANGED <<settled, leftOut, skipped>>, Cursor' \in {None, Cursor}
    PROVE  Accounted' = Accounted /\ IsCovered(Cursor', Accounted')
BY DEF CursorInv, Accounted, IsCovered

\* Only suppliers put something into the inbox.
LEMMA HandlersLeaveTheInbox ==
    ASSUME NEW s, Call(s) \/ HandlerStep(s) \/ (\E flag : MailRecipients(s, flag))
    PROVE  inbox' = inbox
<1>1. CASE Call(s)
  BY <1>1 DEF Call, Create, LoadForEdit, LoadForSend, LoadForCancel, LoadForConfirm, Paste, LoadOffer,
     LoadForCorrection, Start
<1>2. CASE SaveStep(s)
  BY <1>2 DEF SaveStep, SelectRequest, SelectOffers, Select, SaveEdit, AfterOffers, SaveOffers, SaveRequest,
     Throws
<1>3. CASE HandlerStep(s)
  BY <1>2, <1>3 DEF HandlerStep, Strike, StrikeConflict, MailDecisions, LoadRequest, SkipReply, SelectOffers,
     Select, StoreReply, SaveOffers, Extract
<1>4. CASE \E flag : MailRecipients(s, flag)
  BY <1>4 DEF MailRecipients
<1>5. QED
  BY <1>1, <1>3, <1>4

LEMMA IngestLeavesTheInbox ==
    ASSUME NEW i, IngestGoesOn(i) \/ IngestEnds(i) \/ IngestFails(i) \/ ApplyReply(i)
    PROVE  inbox' = inbox
<1>1. CASE IngestGoesOn(i)
  BY <1>1 DEF IngestGoesOn, LoadRequest, SelectOffers, Select, StoreReply, SaveOffers, Extract, AfterOffers,
     SelectRequest
<1>2. CASE IngestEnds(i)
  BY <1>2 DEF IngestEnds, SkipReply, AfterOffers, SaveOffers, SaveRequest, Throws
<1>3. CASE IngestFails(i)
  BY <1>3 DEF IngestFails, ConnectionLost
<1>4. CASE ApplyReply(i)
  BY <1>4 DEF ApplyReply, LoadOffer, vars
<1>5. QED
  BY <1>1, <1>2, <1>3, <1>4

-----------------------------------------------------------------------------
\* The steps that change what is accounted for.

\* The owner connects with the cursor of this moment, or disconnects.
LEMMA OwnerKeepsTheCursor ==
    ASSUME CursorInv, ReadConsent \/ SaveConsent \/ Disconnect \/ WithdrawGrant
    PROVE  CursorInv'
<1>1. Now \in Nat
  BY DEF CursorInv, MailboxTyped, Now
<1>2. CASE ReadConsent
  <2>1. MailboxTyped' /\ Cursor' = Cursor
    BY <1>1, <1>2 DEF ReadConsent, CursorInv, MailboxTyped, Watermark, Cursor, vars
  <2>2. QED
    BY <1>2, <2>1, SameGround, NoPassSteps DEF ReadConsent, PassVars
<1>3. CASE SaveConsent
  <2>1. PICK cursor \in consent :
          /\ connection' = [id |-> IF connection = None THEN connects ELSE connection.id,
                            cursor |-> cursor, status |-> "connected"]
          /\ skipped' = skipped \cup (IF cursor = None THEN {} ELSE 1..cursor)
    BY <1>3 DEF SaveConsent
  <2>2. cursor \in Watermark /\ Cursor' \in {None, cursor} /\ Accounted \subseteq Accounted'
        /\ IsCovered(cursor, Accounted')
    BY <1>3, <2>1 DEF CursorInv, MailboxTyped, Cursor, SaveConsent, Accounted, IsCovered
  <2>3. connection' \in ConnectionRow
    BY <2>1, <2>2 DEF CursorInv, MailboxTyped, ConnectionRow
  <2>4. MailboxTyped'
    BY <1>3, <2>3 DEF SaveConsent, CursorInv, MailboxTyped, vars
  <2>5. QED
    BY <1>3, <2>2, <2>4, NoPassSteps DEF SaveConsent, IsCovered
<1>4. CASE Disconnect
  <2>1. MailboxTyped' /\ Cursor' = None
    BY <1>4 DEF Disconnect, CursorInv, MailboxTyped, Cursor, vars
  <2>2. QED
    BY <1>4, <2>1, SameGround, NoPassSteps DEF Disconnect, PassVars
<1>5. CASE WithdrawGrant
  <2>1. MailboxTyped' /\ Cursor' = Cursor
    BY <1>5 DEF WithdrawGrant, CursorInv, MailboxTyped, Cursor, vars
  <2>2. QED
    BY <1>5, <2>1, SameGround, NoPassSteps DEF WithdrawGrant, PassVars
<1>6. QED
  BY <1>2, <1>3, <1>4, <1>5

\* What else happens beside the passes leaves the cursor; a mail may find the grant dead.
LEMMA OthersKeepTheCursor ==
    ASSUME CursorInv,
           \/ \E s \in Session : OwnerCalls(s) \/ MailThroughMailbox(s)
           \/ \E o \in Offer : SupplierReplies(o) /\ UNCHANGED mailbox
    PROVE  CursorInv'
<1>1. ASSUME NEW s \in Session, OwnerCalls(s) PROVE CursorInv'
  <2>1. inbox' = inbox /\ UNCHANGED mailbox
    BY <1>1, HandlersLeaveTheInbox DEF OwnerCalls
  <2>2. MailboxTyped' /\ Cursor' = Cursor
    BY <2>1 DEF CursorInv, MailboxTyped, Cursor, mailbox
  <2>3. QED
    BY <2>1, <2>2, SameGround, NoPassSteps DEF mailbox
<1>2. ASSUME NEW o \in Offer, SupplierReplies(o), UNCHANGED mailbox PROVE CursorInv'
  <2>1. inbox' \in Seq(Offer)
    BY <1>2 DEF SupplierReplies, CursorInv, MailboxTyped
  <2>2. MailboxTyped' /\ Cursor' = Cursor
    BY <1>2, <2>1 DEF CursorInv, MailboxTyped, Cursor, mailbox
  <2>3. QED
    BY <1>2, <2>2, SameGround, NoPassSteps DEF mailbox
<1>3. ASSUME NEW s \in Session, MailThroughMailbox(s) PROVE CursorInv'
  <2>1. inbox' = inbox
    BY <1>3, HandlersLeaveTheInbox DEF MailThroughMailbox
  <2>2. /\ connection' = IF Connected /\ ~alive THEN [connection EXCEPT !.status = "revoked"] ELSE connection
        /\ UNCHANGED <<consent, connects, pass, settled, leftOut, skipped>>
    BY <1>3 DEF MailThroughMailbox, PassVars
  <2>3. connection' \in ConnectionRow \cup {None} /\ Cursor' \in {None, Cursor}
    BY <2>2 DEF CursorInv, MailboxTyped, ConnectionRow, Connected, Cursor
  <2>4. MailboxTyped'
    BY <2>1, <2>2, <2>3 DEF CursorInv, MailboxTyped
  <2>5. QED
    BY <2>2, <2>3, <2>4, SameGround, NoPassSteps
<1>4. QED
  BY <1>1, <1>2, <1>3

\* A step of a pass that accounts for nothing.
LEMMA PassStepsOnTheSpot ==
    ASSUME CursorInv, NEW i \in Syncs, NEW label \in PhaseName, NEW memory \in PassRow,
           Goes(i, label, memory), UNCHANGED <<inbox, consent, connects, settled, leftOut, skipped>>,
           connection' \in ConnectionRow \cup {None}, Cursor' \in {None, Cursor},
           Remembers([memory EXCEPT !.phase = label], Accounted)
    PROVE  CursorInv'
BY SameGround, PassSteps

\* A pass that has nothing more to remember.
LEMMA PassLetsGo ==
    ASSUME NEW memory \in PassRow, NEW label \in {"none", "list", "release"}, NEW replies
    PROVE  Remembers([memory EXCEPT !.phase = label], replies)
<1>1. [memory EXCEPT !.phase = label].phase = label
  BY DEF PassRow
<1>2. QED
  BY <1>1 DEF Remembers

LEMMA FreshMemory == NoPass \in PassRow
BY DEF NoPass, PassRow, PhaseName, Watermark

LEMMA CopiedRow ==
    ASSUME CursorInv, connection # None
    PROVE  OfRow \in PassRow /\ Remembers([OfRow EXCEPT !.phase = "watch"], Accounted)
<1>1. connection \in ConnectionRow /\ Cursor = connection.cursor
  BY DEF CursorInv, MailboxTyped, Cursor
<1>2. OfRow \in PassRow
  BY <1>1, FreshMemory DEF OfRow, PassRow, ConnectionRow
<1>3. LET p == [OfRow EXCEPT !.phase = "watch"]
      IN  p.phase = "watch" /\ p.cursor = Cursor /\ p.next = None
  BY <1>1, FreshMemory DEF OfRow, PassRow, NoPass
<1>4. QED
  BY <1>2, <1>3 DEF Remembers, CursorInv

\* A pass whose connection gets another status as it lets go, or none.
LEMMA PassEndsOnTheSpot ==
    ASSUME CursorInv, NEW i \in Syncs, Goes(i, "release", pass[i]),
           UNCHANGED <<inbox, consent, connects, settled, leftOut, skipped>>,
           connection' \in ConnectionRow \cup {None}, Cursor' \in {None, Cursor}
    PROVE  CursorInv'
<1>1. pass[i] \in PassRow
  BY DEF CursorInv, MailboxTyped
<1>2. QED
  BY <1>1, PassLetsGo, PassStepsOnTheSpot DEF PhaseName

\* The steps up to the fetch copy the cursor of the row.
LEMMA BeforeFetchRemembers ==
    ASSUME CursorInv, NEW i \in Syncs,
           PassStarts(i) \/ SyncNow(i) \/ ListConnected(i) \/ WatchThreads(i) \/ GrantIsUnreadable(i)
    PROVE  CursorInv'
<1>1. pass[i] \in PassRow /\ Remembers(pass[i], Accounted) /\ connection \in ConnectionRow \cup {None}
  BY DEF CursorInv, MailboxTyped
<1>2. {"list", "watch", "fetch", "release"} \subseteq PhaseName
  BY DEF PhaseName
<1>3. CASE PassStarts(i)
  <2>1. Goes(i, "list", NoPass) /\ UNCHANGED <<inbox, connection, consent, connects, settled, leftOut, skipped>>
    BY <1>3 DEF PassStarts, Starts, OwnerVars, PassVars, vars
  <2>2. Cursor' = Cursor
    BY <2>1 DEF Cursor
  <2>3. QED
    BY <1>1, <1>2, <2>1, <2>2, FreshMemory, PassLetsGo, PassStepsOnTheSpot
<1>4. ASSUME Goes(i, "watch", OfRow), connection # None,
             UNCHANGED <<inbox, connection, consent, connects, settled, leftOut, skipped>>
      PROVE  CursorInv'
  <2>1. Cursor' = Cursor
    BY <1>4 DEF Cursor
  <2>2. QED
    BY <1>1, <1>2, <1>4, <2>1, CopiedRow, PassStepsOnTheSpot
<1>5. ASSUME Goes(i, "release", pass[i]), UNCHANGED <<inbox, consent, connects, settled, leftOut, skipped, connection>>
      PROVE  CursorInv'
  <2>1. Cursor' = Cursor
    BY <1>5 DEF Cursor
  <2>2. QED
    BY <1>1, <1>5, <2>1, PassEndsOnTheSpot
<1>6. CASE SyncNow(i)
  BY <1>4, <1>6 DEF SyncNow, Starts, OwnerVars, PassVars
<1>7. CASE ListConnected(i)
  BY <1>4, <1>5, <1>7 DEF ListConnected, OwnerVars, PassVars, vars, Connected
<1>8. CASE WatchThreads(i)
  <2>1. UNCHANGED <<inbox, consent, connects, settled, leftOut, skipped, connection>> /\ Phase(i, "watch")
    BY <1>8 DEF WatchThreads, OwnerVars, PassVars, vars
  <2>2. CASE Goes(i, "fetch", [pass[i] EXCEPT !.threads = OpenThreads])
    <3> DEFINE memory == [pass[i] EXCEPT !.threads = OpenThreads]
    <3>1. OpenThreads \in SUBSET Offer
      BY DEF OpenThreads, Rows
    <3>2. memory \in PassRow
      BY <1>1, <3>1 DEF PassRow
    <3>3. LET p == [memory EXCEPT !.phase = "fetch"]
          IN  p.phase = "fetch" /\ p.cursor = pass[i].cursor /\ p.next = pass[i].next
      BY <1>1 DEF PassRow
    <3>4. Remembers([memory EXCEPT !.phase = "fetch"], Accounted)
      BY <1>1, <2>1, <3>3 DEF Remembers, Phase
    <3>5. Cursor' = Cursor
      BY <2>1 DEF Cursor
    <3>6. Goes(i, "fetch", memory)
      BY <2>2
    <3> HIDE DEF memory
    <3>7. QED
      BY <1>1, <1>2, <2>1, <3>2, <3>4, <3>5, <3>6, PassStepsOnTheSpot
  <2>3. QED
    BY <1>5, <1>8, <2>1, <2>2 DEF WatchThreads
<1>9. CASE GrantIsUnreadable(i)
  <2>1. /\ UpdateConnection(pass[i].id, [status |-> "expired"]) /\ Goes(i, "release", pass[i])
        /\ UNCHANGED <<inbox, consent, connects, settled, leftOut, skipped>>
    BY <1>9 DEF GrantIsUnreadable, PassVars, vars
  <2>2. QED
    BY <2>1, UpdatedStatus, PassEndsOnTheSpot
<1>10. QED
  BY <1>3, <1>6, <1>7, <1>8, <1>9

\* What a pass has fetched, from a history or a thread, is in its page or left out.
LEMMA FetchedPage ==
    ASSUME CursorInv, NEW i \in Syncs, NEW page \in Seq(Nat), NEW next \in Watermark, NEW left \in SUBSET Nat,
           IsCovered(next, Accounted \cup left \cup ToSet(page)),
           Goes(i, "replies", [pass[i] EXCEPT !.page = page, !.next = next, !.left = left]),
           UNCHANGED <<inbox, connection, consent, connects, settled, leftOut, skipped>>
    PROVE  CursorInv'
<1> DEFINE memory == [pass[i] EXCEPT !.page = page, !.next = next, !.left = left]
<1>1. pass[i] \in PassRow
  BY DEF CursorInv, MailboxTyped
<1>2. memory \in PassRow
  BY <1>1 DEF PassRow
<1>3. LET p == [memory EXCEPT !.phase = "replies"]
      IN  p.phase = "replies" /\ p.page = page /\ p.next = next /\ p.left = left
  BY <1>1 DEF PassRow
<1>4. Remembers([memory EXCEPT !.phase = "replies"], Accounted)
  BY <1>3 DEF Remembers
<1>5. connection' \in ConnectionRow \cup {None} /\ Cursor' = Cursor
  BY DEF Cursor, CursorInv, MailboxTyped
<1>6. "replies" \in PhaseName
  BY DEF PhaseName
<1>7. Goes(i, "replies", memory)
  OBVIOUS
<1> HIDE DEF memory
<1>8. QED
  BY <1>2, <1>4, <1>5, <1>6, <1>7, PassStepsOnTheSpot

\* readHistory: whatever came in since the cursor and is not on the list is left out.
LEMMA HistoryRead ==
    ASSUME CursorInv, NEW i \in Syncs, ReadHistory(i)
    PROVE  \E list \in Seq(Nat), left \in SUBSET Nat :
             /\ ToSet(list) \subseteq 1..Now
             /\ IsCovered(Now, Accounted \cup left \cup ToSet(list))
             /\ Goes(i, "replies", [pass[i] EXCEPT !.page = list, !.next = Now, !.left = left])
<1>1. Now \in Nat /\ pass[i] \in PassRow /\ Remembers(pass[i], Accounted)
  BY DEF CursorInv, MailboxTyped, Now
<1>2. pass[i].cursor \in Nat /\ 1..pass[i].cursor \subseteq Accounted
  BY <1>1 DEF ReadHistory, Remembers, PassRow, Watermark, IsCovered, Phase
<1> DEFINE place == AsReceived(pass[i].threads)
           messages(reach) == Capped(i, NewReplies(i, reach), place)
           since == (pass[i].cursor + 1)..Now
<1>3. \A reach : messages(reach) \subseteq 1..Now
  BY DEF Capped, NewReplies, RepliesIn
<1>4. PICK reach \in pass[i].cursor..Now : \E steppedOver \in SUBSET messages(reach) :
        \E list \in InOrder(messages(reach) \ steppedOver, place) :
          Goes(i, "replies", [pass[i] EXCEPT !.page = list, !.next = Now,
            !.left = since \ (messages(reach) \ steppedOver)])
  BY Zenon DEF ReadHistory
<1>5. PICK fetched \in SUBSET messages(reach) : \E list \in InOrder(fetched, place) :
        Goes(i, "replies", [pass[i] EXCEPT !.page = list, !.next = Now, !.left = since \ fetched])
  <2>1. PICK steppedOver \in SUBSET messages(reach) :
          \E list \in InOrder(messages(reach) \ steppedOver, place) :
            Goes(i, "replies", [pass[i] EXCEPT !.page = list, !.next = Now,
              !.left = since \ (messages(reach) \ steppedOver)])
    BY <1>4
  <2>2. messages(reach) \ steppedOver \in SUBSET messages(reach)
    OBVIOUS
  <2> HIDE DEF messages, since, place
  <2>3. QED
    BY <2>1, <2>2
<1>6. fetched \subseteq 1..Now
  BY <1>3, <1>5
<1>7. since \subseteq Nat /\ \A m \in 1..Now : m \in 1..pass[i].cursor \/ m \in since
  BY <1>1, <1>2
<1> HIDE DEF messages, since, place
<1>8. PICK list \in InOrder(fetched, place) :
        Goes(i, "replies", [pass[i] EXCEPT !.page = list, !.next = Now, !.left = since \ fetched])
  BY <1>5
<1>9. list \in Seq(Nat) /\ ToSet(list) = fetched
  <2>1. fetched \in SUBSET Nat /\ fetched \in SUBSET (1..Now)
    BY <1>1, <1>6
  <2>2. IsFiniteSet(fetched)
    BY <1>1, <2>1, FiniteHistory
  <2>3. list \in SetToSeqs(fetched)
    BY <1>8 DEF InOrder
  <2>4. QED
    BY <2>1, <2>2, <2>3, ListsAreComplete
<1>10. PICK left : left = since \ fetched
  OBVIOUS
<1>11. left \in SUBSET Nat
  BY <1>7, <1>10
<1>12. IsCovered(Now, Accounted \cup left \cup ToSet(list))
  BY <1>2, <1>7, <1>9, <1>10 DEF IsCovered
<1>13. ToSet(list) \subseteq 1..Now
  BY <1>6, <1>9
<1>14. Goes(i, "replies", [pass[i] EXCEPT !.page = list, !.next = Now, !.left = left])
  BY <1>8, <1>10
<1>15. QED
  BY <1>9, <1>11, <1>12, <1>13, <1>14

LEMMA ReadHistoryRemembers == ASSUME CursorInv, NEW i \in Syncs, ReadHistory(i) PROVE CursorInv'
<1>1. PICK list \in Seq(Nat), left \in SUBSET Nat :
        /\ IsCovered(Now, Accounted \cup left \cup ToSet(list))
        /\ Goes(i, "replies", [pass[i] EXCEPT !.page = list, !.next = Now, !.left = left])
  BY HistoryRead
<1>2. UNCHANGED <<inbox, connection, consent, connects, settled, leftOut, skipped>>
  BY DEF ReadHistory, OwnerVars, PassVars, vars
<1>3. Now \in Watermark
  BY DEF CursorInv, MailboxTyped, Now, Watermark
<1>4. QED
  BY <1>1, <1>2, <1>3, FetchedPage

\* readThreads: what is not in the page is left out, and there is no cursor yet.
LEMMA ThreadsRead ==
    ASSUME CursorInv, NEW i \in Syncs, ReadThreads(i)
    PROVE  \E list \in Seq(Nat) :
             /\ ToSet(list) \subseteq 1..Now
             /\ Goes(i, "cursor",
                  [pass[i] EXCEPT !.page = list, !.seen = Now, !.left = (1..Now) \ ToSet(list)])
<1>1. Now \in Nat
  BY DEF CursorInv, MailboxTyped, Now
<1>2. PICK list, replies :
        /\ replies \subseteq 1..Now /\ list \in SetToSeqs(replies)
        /\ Goes(i, "cursor", [pass[i] EXCEPT !.page = list, !.seen = Now, !.left = (1..Now) \ replies])
  <2>1. PICK place \in Bijection(pass[i].threads, 1..Cardinality(pass[i].threads)) :
          \E steppedOver \in SUBSET pass[i].threads :
            \E list \in InOrder(Capped(i, RepliesIn(pass[i].threads \ steppedOver), place), place) :
               Goes(i, "cursor", [pass[i] EXCEPT !.page = list, !.seen = Now,
                 !.left = (1..Now) \ Capped(i, RepliesIn(pass[i].threads \ steppedOver), place)])
    BY Zenon DEF ReadThreads
  <2>2. PICK steppedOver \in SUBSET pass[i].threads :
            \E list \in InOrder(Capped(i, RepliesIn(pass[i].threads \ steppedOver), place), place) :
               Goes(i, "cursor", [pass[i] EXCEPT !.page = list, !.seen = Now,
                 !.left = (1..Now) \ Capped(i, RepliesIn(pass[i].threads \ steppedOver), place)])
    BY <2>1
  <2>3. Capped(i, RepliesIn(pass[i].threads \ steppedOver), place) \subseteq 1..Now
    BY DEF Capped, RepliesIn
  <2>4. QED
    BY <2>2, <2>3 DEF InOrder
<1>3. list \in Seq(Nat) /\ ToSet(list) = replies
  <2>1. replies \in SUBSET (1..Now) /\ replies \in SUBSET Nat
    BY <1>1, <1>2
  <2>2. IsFiniteSet(replies)
    BY <1>1, <2>1, FiniteHistory
  <2>3. QED
    BY <1>2, <2>1, <2>2, ListsAreComplete
<1>4. QED
  BY <1>2, <1>3

LEMMA ReadThreadsRemembers == ASSUME CursorInv, NEW i \in Syncs, ReadThreads(i) PROVE CursorInv'
<1>1. Now \in Nat /\ pass[i] \in PassRow /\ Remembers(pass[i], Accounted) /\ Phase(i, "fetch")
  <2>1. Phase(i, "fetch")
    BY Zenon DEF ReadThreads
  <2>2. QED
    BY <2>1 DEF CursorInv, MailboxTyped, Now
<1>2. PICK list \in Seq(Nat) :
        Goes(i, "cursor", [pass[i] EXCEPT !.page = list, !.seen = Now, !.left = (1..Now) \ ToSet(list)])
  BY ThreadsRead
<1> DEFINE memory == [pass[i] EXCEPT !.page = list, !.seen = Now, !.left = (1..Now) \ ToSet(list)]
<1>3. memory \in PassRow
  <2>1. (1..Now) \ ToSet(list) \in SUBSET Nat
    BY <1>1
  <2>2. QED
    BY <1>1, <2>1 DEF PassRow
<1>4. LET p == [memory EXCEPT !.phase = "cursor"]
      IN  /\ p.phase = "cursor" /\ p.page = list /\ p.seen = Now /\ p.left = (1..Now) \ ToSet(list)
          /\ p.next = pass[i].next
  BY <1>1 DEF PassRow
<1>5. Remembers([memory EXCEPT !.phase = "cursor"], Accounted)
  BY <1>1, <1>4 DEF Remembers, Phase
<1>6. UNCHANGED <<inbox, connection, consent, connects, settled, leftOut, skipped>>
  BY DEF ReadThreads, OwnerVars, PassVars, vars
<1>7. connection' \in ConnectionRow \cup {None} /\ Cursor' = Cursor
  BY <1>6 DEF Cursor, CursorInv, MailboxTyped
<1>8. "cursor" \in PhaseName
  BY DEF PhaseName
<1>9. Goes(i, "cursor", memory)
  BY <1>2
<1> HIDE DEF memory
<1>10. QED
  BY <1>3, <1>5, <1>6, <1>7, <1>8, <1>9, PassStepsOnTheSpot

\* readCurrentCursor: what arrived since the threads were read is left out.
LEMMA ReadCursorRemembers == ASSUME CursorInv, NEW i \in Syncs, ReadCursor(i) PROVE CursorInv'
<1>1. Now \in Nat /\ pass[i] \in PassRow /\ Remembers(pass[i], Accounted) /\ Phase(i, "cursor")
  BY DEF CursorInv, MailboxTyped, Now, ReadCursor
<1>2. UNCHANGED <<inbox, connection, consent, connects, settled, leftOut, skipped>>
  BY DEF ReadCursor, OwnerVars, PassVars, vars
<1>3. connection' \in ConnectionRow \cup {None} /\ Cursor' = Cursor
  BY <1>2 DEF Cursor, CursorInv, MailboxTyped
<1>4. "replies" \in PhaseName
  BY DEF PhaseName
<1>5. CASE Goes(i, "replies", [pass[i] EXCEPT !.next = Now, !.left = @ \cup (pass[i].seen + 1)..Now])
  <2> DEFINE memory == [pass[i] EXCEPT !.next = Now, !.left = @ \cup (pass[i].seen + 1)..Now]
  <2>1. pass[i].left \in SUBSET Nat /\ pass[i].seen \in Nat
    BY <1>1 DEF PassRow
  <2>2. Now \in Watermark /\ pass[i].left \cup (pass[i].seen + 1)..Now \in SUBSET Nat
    BY <1>1, <2>1 DEF Watermark
  <2>3. memory \in PassRow
    BY <1>1, <2>2 DEF PassRow
  <2>4. LET p == [memory EXCEPT !.phase = "replies"]
        IN  /\ p.phase = "replies" /\ p.page = pass[i].page /\ p.next = Now
            /\ p.left = pass[i].left \cup (pass[i].seen + 1)..Now
    BY <1>1 DEF PassRow
  <2>5. \A m \in 1..Now : m \in 1..pass[i].seen \/ m \in (pass[i].seen + 1)..Now
    BY <1>1, <2>1
  <2>6. 1..pass[i].seen \subseteq Accounted \cup pass[i].left \cup ToSet(pass[i].page)
    BY <1>1 DEF Remembers, Phase
  <2>7. Remembers([memory EXCEPT !.phase = "replies"], Accounted)
    BY <2>4, <2>5, <2>6 DEF Remembers, IsCovered
  <2>8. Goes(i, "replies", memory)
    BY <1>5
  <2> HIDE DEF memory
  <2>9. QED
    BY <1>2, <1>3, <1>4, <2>3, <2>7, <2>8, PassStepsOnTheSpot
<1>6. CASE Goes(i, "replies", pass[i])
  <2>1. LET p == [pass[i] EXCEPT !.phase = "replies"] IN p.phase = "replies" /\ p.next = pass[i].next
    BY <1>1 DEF PassRow
  <2>2. Remembers([pass[i] EXCEPT !.phase = "replies"], Accounted)
    BY <1>1, <2>1 DEF Remembers, IsCovered, Phase
  <2>3. QED
    BY <1>1, <1>2, <1>3, <1>4, <1>6, <2>2, PassStepsOnTheSpot
<1>7. QED
  BY <1>5, <1>6, Zenon DEF ReadCursor

\* A fetch that fails leaves the cursor; a dead grant is told on the row.
LEMMA FailedFetchRemembers ==
    ASSUME CursorInv, NEW i \in Syncs, GrantIsRevoked(i) \/ FetchFails(i) PROVE CursorInv'
<1>1. CASE GrantIsRevoked(i)
  <2>1. /\ UpdateConnection(pass[i].id, [status |-> "revoked"]) /\ Goes(i, "release", pass[i])
        /\ UNCHANGED <<inbox, consent, connects, settled, leftOut, skipped>>
    BY <1>1 DEF GrantIsRevoked, Revoked, PassVars, vars
  <2>2. QED
    BY <2>1, UpdatedStatus, PassEndsOnTheSpot
<1>2. CASE FetchFails(i)
  <2>1. Goes(i, "release", pass[i]) /\ UNCHANGED <<inbox, connection, consent, connects, settled, leftOut, skipped>>
    BY <1>2 DEF FetchFails, OwnerVars, PassVars, vars
  <2>2. connection' \in ConnectionRow \cup {None} /\ Cursor' = Cursor
    BY <2>1 DEF Cursor, CursorInv, MailboxTyped
  <2>3. QED
    BY <2>1, <2>2, PassEndsOnTheSpot
<1>3. QED
  BY <1>1, <1>2

\* A reply that was applied is settled, or its failure keeps the cursor where it is.
LEMMA AppliedRemembers ==
    ASSUME CursorInv, NEW i \in Syncs, NEW outcome, Applied(i, outcome), pass[i].page # <<>>,
           pass[i].phase \in {"replies", "ingest"}, inbox' = inbox
    PROVE  CursorInv'
<1> DEFINE p == pass[i]
           memory == [p EXCEPT !.page = Tail(@), !.failed = @ \/ outcome = "failed"]
<1>1. p \in PassRow /\ Remembers(p, Accounted)
  BY DEF CursorInv, MailboxTyped
<1>2. p.page \in Seq(Nat) /\ p.failed \in BOOLEAN
  BY <1>1 DEF PassRow
<1>3. Tail(p.page) \in Seq(Nat) /\ ToSet(p.page) = {Head(p.page)} \cup ToSet(Tail(p.page))
  BY <1>2, PageByPage
<1>4. /\ Goes(i, "replies", memory)
      /\ settled' = IF outcome = "failed" THEN settled ELSE settled \cup {Head(p.page)}
      /\ UNCHANGED <<connection, consent, connects, leftOut, skipped>>
  BY Zenon DEF Applied, OwnerVars
<1>5. memory \in PassRow
  BY <1>1, <1>2, <1>3 DEF PassRow
<1>6. LET q == [memory EXCEPT !.phase = "replies"]
      IN  /\ q.phase = "replies" /\ q.page = Tail(p.page) /\ q.next = p.next /\ q.left = p.left
          /\ q.failed = (p.failed \/ outcome = "failed")
  BY <1>1 DEF PassRow
<1>7. Accounted \subseteq Accounted' /\ (outcome # "failed" => Head(p.page) \in Accounted')
  BY <1>4 DEF Accounted
<1>8. p.failed \/ IsCovered(p.next, Accounted \cup p.left \cup ToSet(p.page))
  BY <1>1 DEF Remembers
<1>9. \/ p.failed \/ outcome = "failed"
      \/ IsCovered(p.next, Accounted' \cup p.left \cup ToSet(Tail(p.page)))
  BY <1>3, <1>7, <1>8 DEF IsCovered
<1>10. Remembers([memory EXCEPT !.phase = "replies"], Accounted')
  BY <1>6, <1>9 DEF Remembers
<1>11. connection' \in ConnectionRow \cup {None} /\ Cursor' = Cursor
  BY <1>4 DEF Cursor, CursorInv, MailboxTyped
<1>12. IsCovered(Cursor', Accounted')
  BY <1>7, <1>11, CursorLasts DEF CursorInv
<1>13. "replies" \in PhaseName
  BY DEF PhaseName
<1> HIDE DEF memory
<1>14. QED
  BY <1>4, <1>5, <1>7, <1>10, <1>11, <1>12, <1>13, PassSteps

\* The replies one after the other.
LEMMA RepliesRemember ==
    ASSUME CursorInv, NEW i \in Syncs,
           ApplyReply(i) \/ IngestGoesOn(i) \/ IngestEnds(i) \/ IngestFails(i)
    PROVE  CursorInv'
<1>1. inbox' = inbox
  BY IngestLeavesTheInbox
<1>2. pass[i] \in PassRow /\ Remembers(pass[i], Accounted)
  BY DEF CursorInv, MailboxTyped
<1>3. CASE ApplyReply(i)
  <2>1. Phase(i, "replies") /\ pass[i].page # <<>>
    BY <1>3 DEF ApplyReply
  <2>2. Applied(i, "skipped")
        \/ (Goes(i, "ingest", pass[i]) /\ UNCHANGED <<connection, consent, connects, settled, leftOut, skipped>>)
    BY <1>3 DEF ApplyReply, OwnerVars, PassVars
  <2>3. CASE Applied(i, "skipped")
    BY <1>1, <2>1, <2>3, AppliedRemembers DEF Phase
  <2>4. CASE Goes(i, "ingest", pass[i]) /\ UNCHANGED <<connection, consent, connects, settled, leftOut, skipped>>
    <3>1. LET p == [pass[i] EXCEPT !.phase = "ingest"]
          IN  /\ p.phase = "ingest" /\ p.page = pass[i].page /\ p.next = pass[i].next
              /\ p.left = pass[i].left /\ p.failed = pass[i].failed
      BY <1>2 DEF PassRow
    <3>2. Remembers([pass[i] EXCEPT !.phase = "ingest"], Accounted)
      BY <1>2, <2>1, <3>1 DEF Remembers, Phase
    <3>3. connection' \in ConnectionRow \cup {None} /\ Cursor' = Cursor
      BY <2>4 DEF Cursor, CursorInv, MailboxTyped
    <3>4. "ingest" \in PhaseName
      BY DEF PhaseName
    <3>5. QED
      BY <1>1, <1>2, <2>4, <3>2, <3>3, <3>4, PassStepsOnTheSpot
  <2>5. QED
    BY <2>2, <2>3, <2>4
<1>4. CASE IngestGoesOn(i)
  <2>1. UNCHANGED mailbox
    BY <1>4 DEF IngestGoesOn
  <2>2. MailboxTyped' /\ Cursor' = Cursor
    BY <1>1, <2>1 DEF CursorInv, MailboxTyped, Cursor, mailbox
  <2>3. QED
    BY <2>1, <2>2, SameGround, NoPassSteps DEF mailbox
<1>5. CASE IngestEnds(i) \/ IngestFails(i)
  <2>1. Phase(i, "ingest") /\ \E outcome : Applied(i, outcome)
    BY <1>5 DEF IngestEnds, IngestFails
  <2>2. pass[i].page # <<>>
    BY <1>2, <2>1 DEF Remembers, Phase
  <2>3. QED
    BY <1>1, <2>1, <2>2, AppliedRemembers DEF Phase
<1>6. QED
  BY <1>3, <1>4, <1>5

\* recordSync: every reply behind the new cursor is accounted for by now.
LEMMA RecordRemembers == ASSUME CursorInv, NEW i \in Syncs, Record(i) PROVE CursorInv'
<1> DEFINE p == pass[i]
<1>1. p \in PassRow /\ Remembers(p, Accounted) /\ p.phase = "replies" /\ p.page = <<>>
  BY DEF CursorInv, MailboxTyped, Record, Phase
<1>2. p.next \in Watermark /\ ToSet(p.page) = {}
  BY <1>1 DEF PassRow, ToSet
<1>3. Goes(i, "release", p) /\ UNCHANGED <<inbox, consent, connects, settled>>
  BY DEF Record, vars
<1>4. /\ connection' \in ConnectionRow \cup {None} /\ Accounted \subseteq Accounted'
      /\ IsCovered(Cursor', Accounted')
  <2>1. CASE p.failed
    <3>1. connection' = connection /\ leftOut' = leftOut /\ skipped' = skipped
      BY <2>1 DEF Record, IsFinished
    <3>2. QED
      BY <1>3, <3>1 DEF Cursor, Accounted, CursorInv, MailboxTyped
  <2>2. CASE ~p.failed
    <3>1. /\ UpdateConnection(p.id, [cursor |-> p.next])
          /\ leftOut' = (IF p.next # None THEN leftOut \cup p.left ELSE leftOut)
          /\ skipped' = skipped
      BY <2>2 DEF Record, IsFinished
    <3>2. connection' \in ConnectionRow \cup {None} /\ Cursor' \in {None, Cursor, p.next}
      BY <1>2, <3>1, UpdatedCursor
    <3>3. Accounted \subseteq Accounted' /\ (p.next # None => p.left \subseteq Accounted')
      BY <1>3, <3>1 DEF Accounted
    <3>4. IsCovered(p.next, Accounted \cup p.left \cup ToSet(p.page))
      BY <1>1, <2>2 DEF Remembers
    <3>5. IsCovered(p.next, Accounted')
      BY <1>2, <3>3, <3>4 DEF IsCovered
    <3>6. IsCovered(Cursor, Accounted')
      BY <3>3, CursorLasts DEF CursorInv
    <3>7. QED
      BY <3>2, <3>3, <3>5, <3>6 DEF IsCovered
  <2>3. QED
    BY <2>1, <2>2
<1>5. Remembers([p EXCEPT !.phase = "release"], Accounted')
  BY <1>1, PassLetsGo
<1>6. "release" \in PhaseName
  BY DEF PhaseName
<1>7. QED
  BY <1>1, <1>3, <1>4, <1>5, <1>6, PassSteps

\* The pass is over, wherever it was; the lock has no part in what is remembered.
LEMMA EndedPassRemembers ==
    ASSUME CursorInv, NEW i \in Syncs, Release(i) \/ Restart(i) \/ LockExpires(i) \/ LockIsOutrun(i)
    PROVE  CursorInv'
<1>1. UNCHANGED <<inbox, connection, consent, connects, settled, leftOut, skipped>>
  BY DEF Release, Restart, LockExpires, LockIsOutrun, OwnerVars, PassVars, vars, ConnectionLost
<1>2. Cursor' = Cursor /\ Accounted' = Accounted /\ IsCovered(Cursor', Accounted')
  BY <1>1, SameGround DEF Cursor
<1>3. pass' = pass \/ pass' = [pass EXCEPT ![i] = NoPass]
  BY DEF Release, Restart, LockExpires, LockIsOutrun
<1>4. pass' \in [Syncs -> PassRow] /\ \A j \in Syncs : pass'[j] = pass[j] \/ pass'[j] = NoPass
  BY <1>3, FreshMemory DEF CursorInv, MailboxTyped
<1>5. Remembers(NoPass, Accounted)
  BY DEF Remembers, NoPass
<1>6. MailboxTyped'
  BY <1>1, <1>4 DEF CursorInv, MailboxTyped
<1>7. QED
  BY <1>2, <1>4, <1>5, <1>6 DEF CursorInv

-----------------------------------------------------------------------------
\* The theorem about the cursor.

LEMMA CursorInvStarts == ASSUME InitMailbox PROVE CursorInv
<1>1. MailboxTyped
  BY FreshMemory DEF InitMailbox, Init, MailboxTyped
<1>2. Remembers(NoPass, Accounted)
  BY DEF Remembers, NoPass
<1>3. QED
  BY <1>1, <1>2 DEF InitMailbox, CursorInv, Cursor, IsCovered

LEMMA CursorInvSteps == ASSUME CursorInv, [NextWithMailbox]_allVars PROVE CursorInv'
<1>1. CASE UNCHANGED allVars
  <2>1. MailboxTyped' /\ Cursor' = Cursor
    BY <1>1 DEF CursorInv, MailboxTyped, Cursor, allVars, mailbox, vars
  <2>2. QED
    BY <1>1, <2>1, SameGround, NoPassSteps DEF allVars, mailbox
<1>2. ASSUME NEW i \in Syncs,
             \/ PassStarts(i) \/ SyncNow(i) \/ PassStep(i)
             \/ GrantIsUnreadable(i) \/ FetchFails(i) \/ IngestFails(i)
             \/ Restart(i) \/ LockExpires(i) \/ LockIsOutrun(i)
      PROVE  CursorInv'
  BY <1>2, BeforeFetchRemembers, ReadHistoryRemembers, ReadThreadsRemembers, ReadCursorRemembers,
     FailedFetchRemembers, RepliesRemember, RecordRemembers, EndedPassRemembers DEF PassStep
<1>3. QED
  BY <1>1, <1>2, OwnerKeepsTheCursor, OthersKeepTheCursor DEF NextWithMailbox

\* The cursor of a connection never gets behind a reply that nobody ingested or refused
\* and no fetch left out, but for what was in the mailbox when the owner (re)connected: it
\* is moved after the page it was fetched with, and not at all by a pass that failed, so
\* that failing ingests, restarts, outrun locks and overlapping passes lose none.
THEOREM BehindTheCursorIsSettledHolds == MailboxSpec => []BehindTheCursorIsSettled
<1>1. CursorInv => BehindTheCursorIsSettled
  BY DEF CursorInv, IsCovered, Accounted, BehindTheCursorIsSettled
<1>2. QED
  BY CursorInvStarts, CursorInvSteps, <1>1, PTL DEF MailboxSpec

-----------------------------------------------------------------------------
\* The answers on offers.

\* A reply counted on a row had arrived.
IsKnown(row) == row.repliedAt \in 0..Now \cup {None}
RowsKnown == \A o \in Rows(offer) : IsKnown(offer[o])

NotOlder(row, was) == was.repliedAt # None => row.repliedAt # None /\ row.repliedAt >= was.repliedAt

\* What a handler will save is no older an answer than the one it loaded.
KnowsAnswers(j) ==
    \A o \in j.targets :
        j.offers[o] # None => IsKnown(j.offers[o]) /\ (j.was[o] # None => NotOlder(j.offers[o], j.was[o]))

Knows(j, label) ==
    \/ label = "idle"
    \/ label = "loadRequest" /\ IsKnown(j.entity) /\ j.body \in 1..Now
    \/ label \notin {"idle", "loadRequest"} /\ KnowsAnswers(j)

\* The offers a handler may save.
Aims(j, label) ==
    IF label = "idle" THEN {} ELSE IF label = "loadRequest" THEN {j.target} ELSE j.targets

AimsOf(s) == Aims(job[s], pc[s])
Drafts(label) == label \in {"selectEdit", "saveEdit"}

\* The ids of a recipient list are nobody else's until its offers are inserted.
ListsAreFresh ==
    /\ Rows(offer) \subseteq issued
    /\ \A s \in Session : AimsOf(s) \subseteq issued
    /\ \A s \in Session : Drafts(pc[s]) =>
         \A o \in AimsOf(s) : o \notin Rows(offer) /\ \A t \in Session \ {s} : o \notin AimsOf(t)

CallsKnow == \A s \in Session : Knows(job[s], pc[s])

AnswersInv == RowsKnown /\ CallsKnow /\ ListsAreFresh

\* Replies only ever come in.
LEMMA KnownLasts ==
    ASSUME NEW n \in Nat, NEW m \in Nat, n <= m, Now = n, Now' = m, NEW j, NEW label, NEW row
    PROVE  /\ IsKnown(row) => IsKnown(row)'
           /\ Knows(j, label) => Knows(j, label)'
<1>1. 0..n \subseteq 0..m /\ 1..n \subseteq 1..m
  OBVIOUS
<1>2. \A r : IsKnown(r) => IsKnown(r)'
  BY <1>1 DEF IsKnown
<1>3. QED
  BY <1>1, <1>2 DEF Knows, KnowsAnswers, NotOlder

\* A call takes its step: s is at label with j in memory, or done.
LEMMA AnswersMove ==
    ASSUME ProcurementInv, ProcurementInv', AnswersInv, NEW s \in Session, UNCHANGED inbox, issued \subseteq issued',
           \A t \in Session \ {s} : pc'[t] = pc[t] /\ job'[t] = job[t],
           NEW j, NEW label, pc'[s] = label, label # "idle" => job'[s] = j,
           Knows(j, label), RowsKnown',
           Aims(j, label) \subseteq AimsOf(s) \cup Rows(offer) \cup (issued' \ issued),
           Rows(offer)' \subseteq Rows(offer) \cup AimsOf(s) \cup (issued' \ issued),
           Drafts(label) => /\ UNCHANGED offer
                            /\ \/ Drafts(pc[s]) /\ Aims(j, label) \subseteq AimsOf(s)
                               \/ Aims(j, label) \subseteq issued' \ issued
    PROVE  AnswersInv'
<1>1. Now' = Now /\ Now \in Nat
  BY DEF Now, ProcurementInv, RowsOK
<1>2. Knows(j, label)'
  BY <1>1, KnownLasts
<1>3. CallsKnow'
  <2>1. ASSUME NEW t \in Session \ {s} PROVE Knows(job[t], pc[t])'
    <3>1. PICK k, place : k = job[t] /\ place = pc[t] /\ k = job'[t] /\ place = pc'[t]
      OBVIOUS
    <3>2. Knows(k, place)
      BY <3>1 DEF AnswersInv, CallsKnow
    <3>3. Knows(k, place)'
      BY <1>1, <3>2, KnownLasts
    <3>4. QED
      BY <3>1, <3>3
  <2>2. Knows(job[s], pc[s])'
    BY <1>2 DEF Knows
  <2>3. QED
    BY <2>1, <2>2 DEF CallsKnow
<1>4. /\ \A t \in Session \ {s} : AimsOf(t)' = AimsOf(t)
      /\ AimsOf(s)' = Aims(j, label)
  BY DEF AimsOf, Aims
<1>5. /\ Rows(offer) \subseteq issued
      /\ \A t \in Session : AimsOf(t) \subseteq issued
      /\ \A t \in Session : Drafts(pc[t]) =>
           \A o \in AimsOf(t) : o \notin Rows(offer) /\ \A u \in Session \ {t} : o \notin AimsOf(u)
  BY DEF AnswersInv, ListsAreFresh
<1>6. Rows(offer)' \subseteq issued' /\ \A t \in Session : AimsOf(t)' \subseteq issued'
  BY <1>4, <1>5
<1>7. ASSUME NEW t \in Session \ {s}, Drafts(pc[t]), NEW o \in AimsOf(t)
      PROVE  o \notin Rows(offer)' /\ \A u \in Session \ {t} : o \notin AimsOf(u)'
  <2>1. o \in issued /\ o \notin Rows(offer) /\ \A u \in Session \ {t} : o \notin AimsOf(u)
    BY <1>5, <1>7
  <2>2. QED
    BY <1>4, <2>1
<1>8. ASSUME Drafts(label), NEW o \in Aims(j, label)
      PROVE  o \notin Rows(offer)' /\ \A u \in Session \ {s} : o \notin AimsOf(u)'
  <2>1. Rows(offer)' = Rows(offer)
    BY <1>8 DEF Rows
  <2>2. o \notin issued \/ (Drafts(pc[s]) /\ o \in AimsOf(s))
    BY <1>8
  <2>3. QED
    BY <1>4, <1>5, <2>1, <2>2
<1>9. ListsAreFresh'
  <2>1. \A t \in Session : Drafts(pc[t])' =>
          \A o \in AimsOf(t)' : o \notin Rows(offer)' /\ \A u \in Session \ {t} : o \notin AimsOf(u)'
    <3>1. ASSUME NEW t \in Session, Drafts(pc[t])', NEW o \in AimsOf(t)'
          PROVE  o \notin Rows(offer)' /\ \A u \in Session \ {t} : o \notin AimsOf(u)'
      <4>1. CASE t = s
        BY <1>4, <1>8, <3>1, <4>1 DEF Drafts
      <4>2. CASE t # s
        BY <1>4, <1>7, <3>1, <4>2 DEF Drafts
      <4>3. QED
        BY <4>1, <4>2
    <3>2. QED
      BY <3>1
  <2>2. QED
    BY <1>6, <2>1 DEF ListsAreFresh
<1>10. QED
  BY <1>3, <1>9 DEF AnswersInv

\* Nothing is saved or drafted.
LEMMA AnswersStay ==
    ASSUME ProcurementInv, ProcurementInv', AnswersInv, NEW s \in Session, UNCHANGED <<offer, issued, inbox>>,
           NEW j, NEW label, Goto(s, label, j), ~Drafts(label), Knows(j, label),
           Aims(j, label) \subseteq AimsOf(s) \cup Rows(offer)
    PROVE  AnswersInv'
<1>1. /\ pc'[s] = label /\ job'[s] = j
      /\ \A t \in Session \ {s} : pc'[t] = pc[t] /\ job'[t] = job[t]
  BY DEF Goto, ProcurementInv, CallsOK
<1>2. RowsKnown' /\ Rows(offer)' = Rows(offer)
  BY DEF AnswersInv, RowsKnown, IsKnown, Now, Rows
<1>3. QED
  BY <1>1, <1>2, AnswersMove

\* A call ends with nothing saved.
LEMMA AnswersLetGo ==
    ASSUME ProcurementInv, ProcurementInv', AnswersInv, NEW s \in Session, Finish(s),
           UNCHANGED inbox, issued \subseteq issued', RowsKnown',
           Rows(offer)' \subseteq Rows(offer) \cup AimsOf(s) \cup (issued' \ issued)
    PROVE  AnswersInv'
<1>1. /\ pc'[s] = "idle"
      /\ \A t \in Session \ {s} : pc'[t] = pc[t] /\ job'[t] = job[t]
  BY DEF Finish, ProcurementInv, CallsOK
<1>2. Knows(NoJob, "idle") /\ Aims(NoJob, "idle") = {} /\ ~Drafts("idle")
  BY DEF Knows, Aims, Drafts
<1>3. QED
  BY <1>1, <1>2, AnswersMove

\* A handler that is under way.
LEMMA CallsAreTyped ==
    ASSUME ProcurementInv, NEW s \in Session, pc[s] \notin {"idle", "loadRequest"}
    PROVE  job[s] \in HandlerJob /\ Holds(job[s], pc[s]) /\ AimsOf(s) = job[s].targets /\ request # None
BY DEF ProcurementInv, CallsOK, Ingests, Holds, AimsOf, Aims

LEMMA CallsKnowAnswers ==
    ASSUME AnswersInv, NEW s \in Session, pc[s] \notin {"idle", "loadRequest"}
    PROVE  KnowsAnswers(job[s])
BY DEF AnswersInv, CallsKnow, Knows

\* The SELECT of a save().
LEMMA SelectionsKnow ==
    ASSUME ProcurementInv, ProcurementInv', AnswersInv, NEW s \in Session,
           \/ SelectRequest(s, "selectEdit", "saveEdit")
           \/ SelectRequest(s, "selectRequest", "saveRequest")
           \/ SelectOffers(s, "selectOffers", "saveOffers")
           \/ SelectOffers(s, "selectReply", "saveReply")
    PROVE  AnswersInv'
<1>1. PICK from, to, read :
        /\ Select(s, from, to, read)
        /\ <<from, to>> \in {<<"selectEdit", "saveEdit">>, <<"selectRequest", "saveRequest">>,
                             <<"selectOffers", "saveOffers">>, <<"selectReply", "saveReply">>}
  BY DEF SelectRequest, SelectOffers
<1>2. /\ pc[s] = from /\ Goto(s, to, [job[s] EXCEPT !.selected = read])
      /\ UNCHANGED <<request, offer, issued, inbox, mailed, told>>
  BY <1>1 DEF Select
<1>3. /\ from \notin {"idle", "loadRequest"} /\ to \notin {"idle", "loadRequest"}
      /\ Drafts(to) => Drafts(from)
  BY <1>1 DEF Drafts
<1>4. job[s] \in HandlerJob /\ AimsOf(s) = job[s].targets /\ KnowsAnswers(job[s])
  BY <1>2, <1>3, CallsAreTyped, CallsKnowAnswers
<1>5. PICK j : j = [job[s] EXCEPT !.selected = read]
  OBVIOUS
<1>6. j.targets = job[s].targets /\ j.offers = job[s].offers /\ j.was = job[s].was
  BY <1>4, <1>5 DEF HandlerJob
<1>7. Knows(j, to) /\ Aims(j, to) = AimsOf(s)
  BY <1>3, <1>4, <1>6 DEF Knows, KnowsAnswers, Aims
<1>8. /\ pc'[s] = to /\ job'[s] = j
      /\ \A t \in Session \ {s} : pc'[t] = pc[t] /\ job'[t] = job[t]
  BY <1>2, <1>5 DEF Goto, ProcurementInv, CallsOK
<1>9. RowsKnown' /\ Rows(offer)' = Rows(offer)
  BY <1>2 DEF AnswersInv, RowsKnown, IsKnown, Now, Rows
<1>10. QED
  BY <1>2, <1>3, <1>7, <1>8, <1>9, AnswersMove

\* What was loaded, and then changed in memory, is known.
LEMMA LoadsKnow ==
    ASSUME ProcurementInv, ProcurementInv', AnswersInv, NEW s \in Session,
           LoadForSend(s) \/ LoadForCancel(s) \/ LoadForConfirm(s)
    PROVE  AnswersInv'
<1>1. UNCHANGED <<offer, issued, inbox>> /\ offer \in Table /\ RowsKnown /\ Rows(offer) \subseteq Offer
  BY DEF LoadForSend, LoadForCancel, LoadForConfirm, Start, ProcurementInv, RowsOK, AnswersInv, Rows
<1>2. ASSUME NEW kind, NEW targets \in SUBSET Rows(offer), NEW r, NEW entities,
             \A o \in targets : entities[o] = offer[o],
             NEW label \in {"mail", "selectRequest", "strike"},
             Goto(s, label, Memory(kind, targets, r, entities))
      PROVE  AnswersInv'
  <2>1. PICK j : j = Memory(kind, targets, r, entities)
    OBVIOUS
  <2>2. j.targets = targets /\ j.offers = entities /\ \A o \in targets : j.was[o] = offer[o]
    BY <1>1, <2>1 DEF Memory, Only
  <2>3. ASSUME NEW o \in targets
        PROVE  IsKnown(j.offers[o]) /\ NotOlder(j.offers[o], j.was[o])
    <3>1. j.offers[o] = offer[o] /\ j.was[o] = offer[o] /\ IsKnown(offer[o])
      BY <1>1, <1>2, <2>2, <2>3 DEF RowsKnown
    <3>2. Now \in Nat
      BY DEF Now, ProcurementInv, RowsOK
    <3>3. QED
      BY <3>1, <3>2 DEF NotOlder, IsKnown
  <2>4. Knows(j, label) /\ Aims(j, label) = targets /\ ~Drafts(label)
    BY <2>2, <2>3 DEF Knows, KnowsAnswers, Aims, Drafts
  <2>5. QED
    BY <1>1, <1>2, <2>1, <2>4, AnswersStay
<1>3. CASE LoadForSend(s)
  <2>1. PICK pending : /\ pending = {o \in Rows(offer) : ~offer[o].sent}
                       /\ Goto(s, "mail", Memory("send", pending, request, Only(pending, offer)))
    BY <1>3 DEF LoadForSend, Start
  <2>2. PICK entities : entities = Only(pending, offer)
    OBVIOUS
  <2>3. \A o \in pending : entities[o] = offer[o]
    BY <1>1, <2>1, <2>2 DEF Only
  <2>4. pending \in SUBSET Rows(offer)
    BY <2>1
  <2>5. QED
    BY <1>2, <2>1, <2>2, <2>3, <2>4
<1>4. CASE LoadForCancel(s)
  <2>1. PICK r : Goto(s, "selectRequest", Memory("cancel", {}, r, NoOffers))
    BY <1>4 DEF LoadForCancel, Start
  <2>2. {} \in SUBSET Rows(offer)
    OBVIOUS
  <2>3. QED
    BY <1>2, <2>1, <2>2
<1>5. CASE LoadForConfirm(s)
  <2>1. PICK o \in Rows(offer) : Goto(s, "strike", Memory("confirm", {o}, request, offer))
    BY <1>5 DEF LoadForConfirm, Start
  <2>2. {o} \in SUBSET Rows(offer)
    BY <2>1
  <2>3. QED
    BY <1>2, <2>1, <2>2
<1>6. QED
  BY <1>3, <1>4, <1>5

\* A correction answers an offer that nobody answered, as of now.
LEMMA CorrectionKnows ==
    ASSUME ProcurementInv, ProcurementInv', AnswersInv, NEW s \in Session, LoadForCorrection(s)
    PROVE  AnswersInv'
<1>1. /\ UNCHANGED <<offer, issued, inbox>> /\ offer \in Table /\ RowsKnown /\ Rows(offer) \subseteq Offer
      /\ Now \in Nat
  BY DEF LoadForCorrection, Start, ProcurementInv, RowsOK, AnswersInv, Rows, Now
<1>2. PICK o \in Rows(offer) : \E price \in {Typed, None, offer[o].price} :
        LET answered == IF offer[o].status = "awaiting" THEN "received" ELSE offer[o].status
            corrected == [offer[o] EXCEPT
               !.price = price, !.status = answered,
               !.repliedAt = IF offer[o].status = "awaiting" /\ @ = None THEN Now ELSE @]
        IN  Start(s, "selectOffers",
              Memory("correct", {o}, request, [NoOffers EXCEPT ![o] = corrected]))
  BY DEF LoadForCorrection
<1>3. PICK row, price, status, at, corrected :
        /\ row = offer[o] /\ at \in {row.repliedAt, Now} /\ (at # row.repliedAt => row.repliedAt = None)
        /\ corrected = [row EXCEPT !.price = price, !.status = status, !.repliedAt = at]
        /\ Goto(s, "selectOffers", Memory("correct", {o}, request, [NoOffers EXCEPT ![o] = corrected]))
  BY <1>2 DEF Start
<1>4. row \in OfferRow /\ IsKnown(row) /\ o \in Offer
  BY <1>1, <1>3, NullIsNoRow DEF Rows, Table, RowsKnown
<1>5. corrected.repliedAt = at
  BY <1>3, <1>4 DEF OfferRow
<1>6. IsKnown(corrected) /\ NotOlder(corrected, row)
  BY <1>1, <1>3, <1>4, <1>5 DEF IsKnown, NotOlder
<1>7. PICK j : j = Memory("correct", {o}, request, [NoOffers EXCEPT ![o] = corrected])
  OBVIOUS
<1>8. j.targets = {o} /\ j.offers[o] = corrected /\ j.was[o] = row
  BY <1>3, <1>4, <1>7 DEF Memory, Only, NoOffers
<1>9. Knows(j, "selectOffers") /\ Aims(j, "selectOffers") \subseteq Rows(offer) /\ ~Drafts("selectOffers")
  BY <1>6, <1>8 DEF Knows, KnowsAnswers, Aims, Drafts
<1>10. QED
  BY <1>1, <1>3, <1>7, <1>9, AnswersStay

\* A recipient list takes ids that nobody has had.
LEMMA EditsKnow ==
    ASSUME ProcurementInv, ProcurementInv', AnswersInv, NEW s \in Session, LoadForEdit(s)
    PROVE  AnswersInv'
<1>1. UNCHANGED <<offer, inbox>>
  BY DEF LoadForEdit
<1>2. PICK list \in FreshLists \cup {{}} :
        /\ Goto(s, "selectEdit", [Memory("edit", {}, request, NoOffers) EXCEPT !.targets = list])
        /\ issued' = issued \cup list
  BY DEF LoadForEdit
<1>3. list \subseteq Offer /\ list \subseteq issued' \ issued
  BY <1>2, RecipientsAreOffers DEF FreshLists
<1>4. PICK j : j = [Memory("edit", {}, request, NoOffers) EXCEPT !.targets = list]
  OBVIOUS
<1>5. j.targets = list /\ j.offers = NoOffers
  BY <1>4 DEF Memory
<1>6. Knows(j, "selectEdit") /\ Aims(j, "selectEdit") = list
  BY <1>3, <1>5 DEF Knows, KnowsAnswers, Aims, NoOffers
<1>7. /\ pc'[s] = "selectEdit" /\ job'[s] = j
      /\ \A t \in Session \ {s} : pc'[t] = pc[t] /\ job'[t] = job[t]
  BY <1>2, <1>4 DEF Goto, ProcurementInv, CallsOK
<1>8. RowsKnown' /\ Rows(offer)' = Rows(offer) /\ issued \subseteq issued'
  BY <1>1, <1>2 DEF AnswersInv, RowsKnown, IsKnown, Now, Rows
<1>9. QED
  BY <1>1, <1>3, <1>6, <1>7, <1>8, AnswersMove

\* ingest loads an offer as it is, for a reply that has arrived.
LEMMA IngestionKnows ==
    ASSUME ProcurementInv, ProcurementInv', AnswersInv, NEW s \in Session, NEW o \in Offer, NEW m \in 1..Now,
           NEW fetched, LoadOffer(s, o, m, fetched)
    PROVE  AnswersInv'
<1>1. UNCHANGED <<offer, issued, inbox>> /\ o \in Rows(offer) /\ IsKnown(offer[o])
  BY DEF LoadOffer, AnswersInv, RowsKnown, Rows
<1>2. PICK j : j = [kind |-> "ingest", target |-> o, entity |-> offer[o], body |-> m, fetched |-> fetched]
  OBVIOUS
<1>3. Goto(s, "loadRequest", j)
  BY <1>2 DEF LoadOffer
<1>4. Knows(j, "loadRequest") /\ Aims(j, "loadRequest") \subseteq Rows(offer) /\ ~Drafts("loadRequest")
  BY <1>1, <1>2 DEF Knows, Aims, Drafts
<1>5. QED
  BY <1>1, <1>3, <1>4, AnswersStay

\* It stores a reply that is newer than the answer it loaded, or as of now.
LEMMA ReadingKnows ==
    ASSUME ProcurementInv, ProcurementInv', AnswersInv, NEW s \in Session, LoadRequest(s)
    PROVE  AnswersInv'
<1>1. /\ UNCHANGED <<offer, issued, inbox>> /\ pc[s] = "loadRequest" /\ ~AlreadyRead(job[s])
      /\ Now \in Nat
  BY DEF LoadRequest, Now, ProcurementInv, RowsOK
<1>2. /\ job[s] \in IngestJob /\ IsKnown(job[s].entity) /\ job[s].body \in 1..Now
      /\ AimsOf(s) = {job[s].target}
  BY <1>1 DEF ProcurementInv, CallsOK, Holds, Ingests, AnswersInv, CallsKnow, Knows, AimsOf, Aims
<1>3. PICK o, row, body : o = job[s].target /\ row = job[s].entity /\ body = job[s].body
  OBVIOUS
<1>4. o \in Offer /\ row \in OfferRow
  BY <1>2, <1>3 DEF IngestJob
<1>5. PICK at, message : /\ at = IF job[s].fetched THEN body ELSE Now
                         /\ message = IF job[s].fetched THEN body ELSE row.message
  OBVIOUS
<1>6. PICK stored : stored = [row EXCEPT !.repliedAt = at, !.status = "received", !.message = message]
  OBVIOUS
<1>7. stored = StoredReply(job[s]) /\ stored.repliedAt = at
  BY <1>3, <1>4, <1>5, <1>6 DEF StoredReply, OfferRow
<1>8. at \in 0..Now /\ (row.repliedAt # None => at >= row.repliedAt)
  BY <1>1, <1>2, <1>3, <1>5 DEF AlreadyRead, IsKnown
<1>9. IsKnown(stored) /\ NotOlder(stored, row)
  BY <1>1, <1>7, <1>8, NullIsNoValue DEF IsKnown, NotOlder
<1>10. PICK m : m = Memory("reply", {o}, request, [NoOffers EXCEPT ![o] = stored])
  OBVIOUS
<1>11. PICK j : j = [m EXCEPT !.was[o] = row, !.body = body]
  OBVIOUS
<1>12. j.targets = {o} /\ j.offers[o] = stored /\ j.was[o] = row
  BY <1>4, <1>10, <1>11 DEF Memory, Only, NoOffers
<1>13. Goto(s, "selectReply", j)
  BY <1>3, <1>7, <1>10, <1>11 DEF LoadRequest
<1>14. Knows(j, "selectReply") /\ Aims(j, "selectReply") = AimsOf(s) /\ ~Drafts("selectReply")
  BY <1>2, <1>3, <1>9, <1>12 DEF Knows, KnowsAnswers, Aims, Drafts
<1>15. QED
  BY <1>1, <1>13, <1>14, AnswersStay

\* A price is read: the answer is the same.
LEMMA ExtractionKnows ==
    ASSUME ProcurementInv, ProcurementInv', AnswersInv, NEW s \in Session, Extract(s)
    PROVE  AnswersInv'
<1>1. UNCHANGED <<offer, issued, inbox>> /\ pc[s] = "extract"
  BY DEF Extract
<1>2. job[s] \in HandlerJob /\ AimsOf(s) = job[s].targets /\ Reads(job[s]) /\ KnowsAnswers(job[s])
  BY <1>1, CallsAreTyped, CallsKnowAnswers DEF Holds
<1>3. PICK o \in job[s].targets, extraction \in Extractions :
        Goto(s, "selectOffers", [job[s] EXCEPT !.offers[o].price = Extracted(extraction, job[s].body, @)])
  BY DEF Extract
<1>4. PICK row, price : row = job[s].offers[o] /\ price = Extracted(extraction, job[s].body, row.price)
  OBVIOUS
<1>5. o \in Offer /\ row \in OfferRow /\ job[s].targets = {o}
  BY <1>2, <1>3, <1>4 DEF Reads, HandlerJob, Table
<1>6. PICK next : next = [row EXCEPT !.price = price]
  OBVIOUS
<1>7. next.repliedAt = row.repliedAt
  BY <1>5, <1>6 DEF OfferRow
<1>8. PICK j : j = [job[s] EXCEPT !.offers[o].price = Extracted(extraction, job[s].body, @)]
  OBVIOUS
<1>9. j.targets = {o} /\ j.was = job[s].was /\ j.offers[o] = next
  BY <1>2, <1>4, <1>5, <1>6, <1>8 DEF HandlerJob, Table
<1>10. KnowsAnswers(j)
  <2>1. row # None => IsKnown(row) /\ (job[s].was[o] # None => NotOlder(row, job[s].was[o]))
    BY <1>2, <1>4, <1>5 DEF KnowsAnswers
  <2>2. row # None
    BY <1>5, NullIsNoRow
  <2>3. IsKnown(next) /\ (job[s].was[o] # None => NotOlder(next, job[s].was[o]))
    BY <1>7, <2>1, <2>2 DEF IsKnown, NotOlder
  <2>4. QED
    BY <1>9, <2>3 DEF KnowsAnswers
<1>11. Knows(j, "selectOffers") /\ Aims(j, "selectOffers") = AimsOf(s) /\ ~Drafts("selectOffers")
  BY <1>2, <1>5, <1>9, <1>10 DEF Knows, Aims, Drafts
<1>12. QED
  BY <1>1, <1>3, <1>8, <1>11, AnswersStay

\* A mail leaves the answer on the offer, wherever it got.
LEMMA MailingKnows ==
    ASSUME ProcurementInv, ProcurementInv', AnswersInv, NEW s \in Session, NEW hasMailbox,
           MailRecipients(s, hasMailbox)
    PROVE  AnswersInv'
<1>1. UNCHANGED <<offer, issued, inbox>> /\ pc[s] = "mail"
  BY DEF MailRecipients
<1>2. job[s] \in HandlerJob /\ AimsOf(s) = job[s].targets /\ Mails(job[s]) /\ KnowsAnswers(job[s])
  BY <1>1, CallsAreTyped, CallsKnowAnswers DEF Holds
<1>3. PICK reached \in SUBSET job[s].targets : \E threaded \in SUBSET (IF hasMailbox THEN reached ELSE {}) :
         IF NobodyReached(reached) THEN Finish(s)
         ELSE Goto(s, "selectOffers", [job[s] EXCEPT
                !.targets = reached,
                !.offers = [o \in Offer |-> IF o \in reached
                   THEN [@[o] EXCEPT !.sent = TRUE, !.thread = o \in threaded]
                   ELSE None]])
  BY DEF MailRecipients
<1>4. reached \subseteq Offer
  BY <1>2, <1>3 DEF HandlerJob
<1>5. CASE reached = {}
  <2>1. Finish(s)
    BY <1>3, <1>5 DEF NobodyReached
  <2>2. RowsKnown' /\ Rows(offer)' = Rows(offer)
    BY <1>1 DEF AnswersInv, RowsKnown, IsKnown, Now, Rows
  <2>3. QED
    BY <1>1, <2>1, <2>2, AnswersLetGo
<1>6. CASE reached # {}
  <2>1. PICK threaded : Goto(s, "selectOffers", [job[s] EXCEPT
                          !.targets = reached,
                          !.offers = [o \in Offer |-> IF o \in reached
                             THEN [@[o] EXCEPT !.sent = TRUE, !.thread = o \in threaded]
                             ELSE None]])
    BY <1>3, <1>6 DEF NobodyReached
  <2>2. PICK entities : entities = [o \in Offer |-> IF o \in reached
                          THEN [job[s].offers[o] EXCEPT !.sent = TRUE, !.thread = o \in threaded] ELSE None]
    OBVIOUS
  <2>3. PICK j : j = [job[s] EXCEPT !.targets = reached, !.offers = entities]
    OBVIOUS
  <2>4. j.targets = reached /\ j.offers = entities /\ j.was = job[s].was
    BY <1>2, <2>3 DEF HandlerJob
  <2>5. Goto(s, "selectOffers", j)
    BY <1>2, <2>1, <2>2, <2>3 DEF HandlerJob
  <2>6. ASSUME NEW o \in reached
        PROVE  IsKnown(entities[o]) /\ (j.was[o] # None => NotOlder(entities[o], j.was[o]))
    <3>1. PICK row : row = job[s].offers[o]
      OBVIOUS
    <3>2. row \in OfferRow /\ row # None
      BY <1>2, <1>4, <3>1 DEF Mails, HandlerJob, Table
    <3>3. IsKnown(row) /\ (j.was[o] # None => NotOlder(row, j.was[o]))
      BY <1>2, <2>4, <3>1, <3>2 DEF KnowsAnswers
    <3>4. entities[o] = [row EXCEPT !.sent = TRUE, !.thread = o \in threaded]
      BY <1>4, <2>2, <3>1
    <3>5. entities[o].repliedAt = row.repliedAt
      BY <3>2, <3>4 DEF OfferRow
    <3>6. QED
      BY <3>3, <3>5 DEF IsKnown, NotOlder
  <2>7. KnowsAnswers(j)
    BY <2>4, <2>6 DEF KnowsAnswers
  <2>8. Knows(j, "selectOffers") /\ Aims(j, "selectOffers") \subseteq AimsOf(s) /\ ~Drafts("selectOffers")
    BY <1>2, <2>4, <2>7 DEF Knows, Aims, Drafts
  <2>9. QED
    BY <1>1, <2>5, <2>8, AnswersStay
<1>7. QED
  BY <1>5, <1>6

\* confirm decides the offers, answered or not.
LEMMA StruckAnswers ==
    ASSUME ProcurementInv, NEW s \in Session, Strike(s)
    PROVE  /\ Rows(offer)' = Rows(offer)
           /\ \A o \in Rows(offer) : offer'[o].repliedAt = offer[o].repliedAt
<1>1. offer \in Table
  BY DEF ProcurementInv, RowsOK
<1>2. ASSUME NEW o \in Offer
      PROVE  /\ offer'[o] # None <=> offer[o] # None
             /\ offer[o] # None => offer'[o].repliedAt = offer[o].repliedAt
  <2>1. PICK row : row = offer[o]
    OBVIOUS
  <2>2. row \in OfferRow \cup {None}
    BY <1>1, <2>1 DEF Table
  <2>3. offer'[o] = IF row # None /\ o \in job[s].listed THEN [row EXCEPT !.status = Decided(s, o)] ELSE row
    BY <2>1 DEF Strike
  <2>4. Decided(s, o) \in OfferStatus
    BY DEF Decided, OfferStatus
  <2>5. row # None => [row EXCEPT !.status = Decided(s, o)] \in OfferRow
                      /\ [row EXCEPT !.status = Decided(s, o)].repliedAt = row.repliedAt
    BY <2>2, <2>4 DEF OfferRow
  <2>6. QED
    BY <2>1, <2>2, <2>3, <2>5, NullIsNoRow
<1>3. QED
  BY <1>2 DEF Rows

LEMMA StrikingKnows ==
    ASSUME ProcurementInv, ProcurementInv', AnswersInv, NEW s \in Session, Strike(s)
    PROVE  AnswersInv'
<1>1. UNCHANGED <<issued, inbox>> /\ pc[s] = "strike" /\ Goto(s, "tell", job[s])
  BY DEF Strike
<1>2. AimsOf(s) = job[s].targets /\ KnowsAnswers(job[s])
  BY <1>1, CallsAreTyped, CallsKnowAnswers
<1>3. Rows(offer)' = Rows(offer) /\ RowsKnown'
  BY <1>1, StruckAnswers DEF AnswersInv, RowsKnown, IsKnown, Now
<1>4. PICK j : j = job[s]
  OBVIOUS
<1>5. /\ pc'[s] = "tell" /\ job'[s] = j
      /\ \A t \in Session \ {s} : pc'[t] = pc[t] /\ job'[t] = job[t]
  BY <1>1, <1>4 DEF Goto, ProcurementInv, CallsOK
<1>6. Knows(j, "tell") /\ Aims(j, "tell") = AimsOf(s) /\ ~Drafts("tell")
  BY <1>2, <1>4 DEF Knows, Aims, Drafts
<1>7. QED
  BY <1>1, <1>3, <1>5, <1>6, AnswersMove

\* A handler that ends with no offer saved.
LEMMA EndedKnow ==
    ASSUME ProcurementInv, ProcurementInv', AnswersInv, NEW s \in Session,
           \/ SaveRequest(s) \/ Throws(s) \/ ConnectionLost(s) \/ StrikeConflict(s)
           \/ MailDecisions(s) \/ SkipReply(s)
    PROVE  AnswersInv'
<1>1. Finish(s) /\ UNCHANGED <<offer, issued, inbox>>
  BY DEF SaveRequest, Throws, ConnectionLost, StrikeConflict, MailDecisions, SkipReply
<1>2. RowsKnown' /\ Rows(offer)' = Rows(offer)
  BY <1>1 DEF AnswersInv, RowsKnown, IsKnown, Now, Rows
<1>3. QED
  BY <1>1, <1>2, AnswersLetGo

-----------------------------------------------------------------------------
\* The saves.

\* The answer that save() writes is that of the entity or that of the row.
LEMMA MergedAnswer ==
    ASSUME NEW entity, NEW selected, NEW row \in OfferRow
    PROVE  Merge(entity, selected, row).repliedAt \in {entity.repliedAt, row.repliedAt}
<1>1. "repliedAt" \in DOMAIN row
  BY DEF OfferRow
<1>2. QED
  BY <1>1 DEF Merge

LEMMA SavedAnswers ==
    ASSUME ProcurementInv, AnswersInv, NEW s \in Session, pc[s] \in {"saveReply", "saveOffers"},
           NEW from, SaveOffers(s, from)
    PROVE  /\ Rows(offer)' \subseteq Rows(offer) \cup AimsOf(s)
           /\ RowsKnown'
           /\ \A o \in Offer \ job[s].targets : offer'[o] = offer[o]
           /\ \A o \in job[s].targets :
                /\ offer[o] # None /\ offer'[o] # None =>
                     offer'[o].repliedAt \in {offer[o].repliedAt, job[s].offers[o].repliedAt}
                /\ NotOlder(job[s].offers[o], job[s].was[o])
<1>1. /\ ~Clash(s) /\ UNCHANGED <<issued, inbox>>
      /\ offer' = [o \in Offer |-> IF o \in job[s].targets THEN SavedOffer(s, o) ELSE offer[o]]
  BY DEF SaveOffers
<1>2. /\ job[s] \in HandlerJob /\ AimsOf(s) = job[s].targets /\ KnowsAnswers(job[s])
      /\ Reads(job[s]) \/ Answers(job[s])
  <2>1. pc[s] \notin {"idle", "loadRequest"}
    OBVIOUS
  <2>2. QED
    BY <2>1, CallsAreTyped, CallsKnowAnswers DEF Holds
<1>3. /\ job[s].targets \subseteq Offer /\ offer \in Table
      /\ \A o \in job[s].targets : job[s].offers[o] # None /\ job[s].was[o] # None
  BY <1>2 DEF HandlerJob, Reads, Answers, ProcurementInv, RowsOK
<1>4. ASSUME NEW o \in job[s].targets
      PROVE  /\ IsKnown(job[s].offers[o]) /\ NotOlder(job[s].offers[o], job[s].was[o])
             /\ offer'[o] # None => \/ offer'[o].repliedAt = job[s].offers[o].repliedAt
                                    \/ offer[o] # None /\ offer'[o].repliedAt = offer[o].repliedAt
  <2>1. PICK entity, selected, row :
          entity = job[s].offers[o] /\ selected = job[s].selected.offers[o] /\ row = offer[o]
    OBVIOUS
  <2>2. row \in OfferRow \cup {None}
    BY <1>3, <2>1 DEF Table
  <2>3. offer'[o] = IF selected = None THEN entity
                    ELSE IF row = None THEN None ELSE Merge(entity, selected, row)
    BY <1>1, <1>3, <2>1 DEF SavedOffer
  <2>4. row # None => Merge(entity, selected, row).repliedAt \in {entity.repliedAt, row.repliedAt}
    BY <2>2, MergedAnswer
  <2>5. IsKnown(entity) /\ NotOlder(entity, job[s].was[o])
    BY <1>2, <1>3, <2>1 DEF KnowsAnswers
  <2>6. QED
    BY <2>1, <2>3, <2>4, <2>5
<1>5. \A o \in Offer \ job[s].targets : offer'[o] = offer[o]
  BY <1>1
<1>6. Rows(offer)' \subseteq Rows(offer) \cup AimsOf(s)
  BY <1>2, <1>5 DEF Rows
<1>7. RowsKnown'
  <2>1. ASSUME NEW o \in Offer, offer'[o] # None
        PROVE  offer'[o].repliedAt \in 0..Now \cup {None}
    <3>1. CASE o \in job[s].targets
      BY <1>4, <2>1, <3>1 DEF IsKnown, AnswersInv, RowsKnown, Rows
    <3>2. CASE o \notin job[s].targets
      BY <1>5, <2>1, <3>2 DEF IsKnown, AnswersInv, RowsKnown, Rows
    <3>3. QED
      BY <3>1, <3>2
  <2>2. QED
    BY <1>1, <2>1 DEF RowsKnown, IsKnown, Rows, Now
<1>8. QED
  BY <1>4, <1>5, <1>6, <1>7

LEMMA OffersSavedKnow ==
    ASSUME ProcurementInv, ProcurementInv', AnswersInv, NEW s \in Session, AfterOffers(s) \/ StoreReply(s)
    PROVE  AnswersInv'
<1>1. /\ pc[s] \in {"saveReply", "saveOffers"} /\ UNCHANGED <<issued, inbox>>
      /\ \E from : SaveOffers(s, from)
  BY DEF AfterOffers, StoreReply, SaveOffers
<1>2. Rows(offer)' \subseteq Rows(offer) \cup AimsOf(s) /\ RowsKnown'
  BY <1>1, SavedAnswers
<1>3. /\ job[s] \in HandlerJob /\ AimsOf(s) = job[s].targets /\ KnowsAnswers(job[s])
      /\ pc[s] = "saveReply" => Reads(job[s])
  <2>1. pc[s] \notin {"idle", "loadRequest"}
    BY <1>1
  <2>2. QED
    BY <2>1, CallsAreTyped, CallsKnowAnswers DEF Holds
<1>4. CASE Finish(s)
  BY <1>1, <1>2, <1>4, AnswersLetGo
<1>5. ASSUME NEW label \in {"selectRequest", "extract"}, NEW j, Goto(s, label, j), j.targets = job[s].targets,
             KnowsAnswers(j)
      PROVE  AnswersInv'
  <2>1. /\ pc'[s] = label /\ job'[s] = j
        /\ \A t \in Session \ {s} : pc'[t] = pc[t] /\ job'[t] = job[t]
    BY <1>5 DEF Goto, ProcurementInv, CallsOK
  <2>2. Knows(j, label) /\ Aims(j, label) = AimsOf(s) /\ ~Drafts(label)
    BY <1>3, <1>5 DEF Knows, Aims, Drafts
  <2>3. QED
    BY <1>1, <1>2, <2>1, <2>2, AnswersMove
<1>6. CASE AfterOffers(s) /\ ~Finish(s)
  <2>1. PICK j : j = [job[s] EXCEPT !.request.status = MovedTo(s)]
    OBVIOUS
  <2>2. Goto(s, "selectRequest", j)
    BY <1>6, <2>1 DEF AfterOffers
  <2>3. j.targets = job[s].targets /\ j.offers = job[s].offers /\ j.was = job[s].was
    BY <1>3, <2>1 DEF HandlerJob
  <2>4. KnowsAnswers(j)
    BY <1>3, <2>3 DEF KnowsAnswers
  <2>5. QED
    BY <1>5, <2>2, <2>3, <2>4
<1>7. CASE StoreReply(s)
  <2>1. PICK j : j = [job[s] EXCEPT !.was = job[s].offers]
    OBVIOUS
  <2>2. Goto(s, "extract", j)
    BY <1>7, <2>1 DEF StoreReply
  <2>3. j.targets = job[s].targets /\ j.offers = job[s].offers /\ j.was = job[s].offers
    BY <1>3, <2>1 DEF HandlerJob
  <2>4. KnowsAnswers(j)
    <3>1. ASSUME NEW o \in j.targets, j.offers[o] # None
          PROVE  IsKnown(j.offers[o]) /\ NotOlder(j.offers[o], j.was[o])
      <4>1. IsKnown(j.offers[o]) /\ j.was[o] = j.offers[o]
        BY <1>3, <2>3, <3>1 DEF KnowsAnswers
      <4>2. Now \in Nat
        BY DEF Now, ProcurementInv, RowsOK
      <4>3. QED
        BY <4>1, <4>2 DEF NotOlder, IsKnown
    <3>2. QED
      BY <3>1 DEF KnowsAnswers
  <2>5. QED
    BY <1>5, <2>2, <2>3, <2>4
<1>8. QED
  BY <1>4, <1>6, <1>7

\* A new recipient list replaces the offers: nobody answered them yet.
LEMMA InsertedAnswers ==
    ASSUME NEW list, offer' = Insert(list), NEW n \in Nat, Now' = n
    PROVE  Rows(offer)' \subseteq list /\ RowsKnown'
<1>1. NewOffer.repliedAt = None
  BY DEF NewOffer
<1>2. QED
  BY <1>1 DEF Insert, Rows, RowsKnown, IsKnown

LEMMA EditSavedKnows ==
    ASSUME ProcurementInv, ProcurementInv', AnswersInv, NEW s \in Session, SaveEdit(s)
    PROVE  AnswersInv'
<1>1. /\ pc[s] = "saveEdit" /\ Finish(s) /\ UNCHANGED <<issued, inbox>>
      /\ offer' = IF job[s].targets = {} THEN offer ELSE Insert(job[s].targets)
  BY DEF SaveEdit
<1>2. AimsOf(s) = job[s].targets
  BY <1>1 DEF AimsOf, Aims
<1>3. Now' = Now /\ Now \in Nat
  BY <1>1 DEF Now, ProcurementInv, RowsOK
<1>4. Rows(offer)' \subseteq Rows(offer) \cup AimsOf(s) /\ RowsKnown'
  <2>1. CASE offer' = offer
    BY <1>3, <2>1 DEF AnswersInv, RowsKnown, IsKnown, Rows
  <2>2. CASE offer' = Insert(job[s].targets)
    BY <1>2, <1>3, <2>2, InsertedAnswers
  <2>3. QED
    BY <1>1, <2>1, <2>2
<1>5. QED
  BY <1>1, <1>4, AnswersLetGo

LEMMA CreateKnows ==
    ASSUME ProcurementInv, ProcurementInv', AnswersInv, NEW s \in Session, Create(s)
    PROVE  AnswersInv'
<1>1. pc[s] = "idle" /\ UNCHANGED <<inbox, pc, job>>
  BY DEF Create, Begin
<1>2. PICK list \in FreshLists : offer' = Insert(list) /\ issued' = issued \cup list
  BY DEF Create
<1>3. list \subseteq issued' \ issued /\ issued \subseteq issued'
  BY <1>2 DEF FreshLists
<1>4. Now' = Now /\ Now \in Nat
  BY <1>1 DEF Now, ProcurementInv, RowsOK
<1>5. Rows(offer)' \subseteq issued' \ issued /\ RowsKnown'
  BY <1>2, <1>3, <1>4, InsertedAnswers
<1>6. Knows(NoJob, "idle") /\ Aims(NoJob, "idle") = {} /\ ~Drafts("idle")
  BY DEF Knows, Aims, Drafts
<1>7. QED
  BY <1>1, <1>3, <1>5, <1>6, AnswersMove

LEMMA ArrivalsKnow == ASSUME ProcurementInv, AnswersInv, NEW o \in Offer, SupplierReplies(o) PROVE AnswersInv'
<1>1. UNCHANGED <<offer, issued, pc, job>> /\ inbox' = Append(inbox, o) /\ inbox \in Seq(Offer)
  BY DEF SupplierReplies, ProcurementInv, RowsOK
<1>2. PICK n \in Nat, m \in Nat : n <= m /\ Now = n /\ Now' = m
  BY <1>1 DEF Now
<1>3. RowsKnown'
  <2>1. ASSUME NEW p \in Rows(offer) PROVE IsKnown(offer[p])'
    <3>1. PICK row : row = offer[p] /\ row = offer'[p]
      BY <1>1
    <3>2. IsKnown(row)
      BY <2>1, <3>1 DEF AnswersInv, RowsKnown
    <3>3. IsKnown(row)'
      BY <1>2, <3>2, KnownLasts
    <3>4. QED
      BY <3>1, <3>3
  <2>2. Rows(offer)' = Rows(offer)
    BY <1>1 DEF Rows
  <2>3. QED
    BY <2>1, <2>2 DEF RowsKnown
<1>4. CallsKnow'
  <2>1. ASSUME NEW t \in Session PROVE Knows(job[t], pc[t])'
    <3>1. PICK k, place : k = job[t] /\ place = pc[t] /\ k = job'[t] /\ place = pc'[t]
      BY <1>1
    <3>2. Knows(k, place)
      BY <3>1 DEF AnswersInv, CallsKnow
    <3>3. Knows(k, place)'
      BY <1>2, <3>2, KnownLasts
    <3>4. QED
      BY <3>1, <3>3
  <2>2. QED
    BY <2>1 DEF CallsKnow
<1>5. ListsAreFresh'
  BY <1>1 DEF AnswersInv, ListsAreFresh, Rows, AimsOf
<1>6. QED
  BY <1>3, <1>4, <1>5 DEF AnswersInv

-----------------------------------------------------------------------------
\* The request beside the passes.

\* A page lists replies that have arrived.
PagesInv == \A i \in Syncs : ToSet(pass[i].page) \subseteq 1..Now

LEMMA PagesStay == ASSUME CursorInv, PagesInv, UNCHANGED pass, Now <= Now', Now' \in Nat PROVE PagesInv'
<1>1. Now \in Nat
  BY DEF CursorInv, MailboxTyped, Now
<1>2. 1..Now \subseteq 1..Now'
  BY <1>1
<1>3. QED
  BY <1>2 DEF PagesInv

LEMMA PagesGo ==
    ASSUME CursorInv, PagesInv, NEW i \in Syncs, NEW label, NEW memory \in PassRow, Goes(i, label, memory),
           inbox' = inbox, ToSet(memory.page) \subseteq 1..Now
    PROVE  PagesInv'
<1>1. [memory EXCEPT !.phase = label].page = memory.page
  BY DEF PassRow
<1>2. /\ pass'[i] = [memory EXCEPT !.phase = label]
      /\ \A j \in Syncs \ {i} : pass'[j] = pass[j]
  BY DEF Goes, CursorInv, MailboxTyped
<1>3. QED
  BY <1>1, <1>2 DEF PagesInv, Now

\* A step of a pass with the page it has, or none.
LEMMA SamePage ==
    ASSUME CursorInv, PagesInv, NEW i \in Syncs, NEW label, NEW memory \in {pass[i], NoPass},
           Goes(i, label, memory), inbox' = inbox
    PROVE  PagesInv'
<1>1. ToSet(NoPass.page) = {}
  BY DEF NoPass, ToSet
<1>2. memory \in PassRow /\ ToSet(memory.page) \subseteq 1..Now
  BY <1>1, FreshMemory DEF CursorInv, MailboxTyped, PagesInv
<1>3. QED
  BY <1>2, PagesGo

LEMMA PagesBeforeFetch ==
    ASSUME CursorInv, PagesInv, NEW i \in Syncs,
           \/ PassStarts(i) \/ SyncNow(i) \/ ListConnected(i) \/ WatchThreads(i) \/ GrantIsUnreadable(i)
           \/ GrantIsRevoked(i) \/ FetchFails(i)
    PROVE  PagesInv'
<1>1. inbox' = inbox /\ pass[i] \in PassRow
  BY DEF PassStarts, SyncNow, ListConnected, WatchThreads, GrantIsUnreadable, GrantIsRevoked, FetchFails, vars,
     CursorInv, MailboxTyped
<1>2. ASSUME connection # None, Goes(i, "watch", OfRow) PROVE PagesInv'
  <2>1. OfRow \in PassRow
    BY <1>2, CopiedRow
  <2>2. ToSet(OfRow.page) = {}
    BY FreshMemory DEF OfRow, NoPass, ToSet, PassRow
  <2>3. QED
    BY <1>1, <1>2, <2>1, <2>2, PagesGo
<1>3. ASSUME Goes(i, "fetch", [pass[i] EXCEPT !.threads = OpenThreads]) PROVE PagesInv'
  <2> DEFINE memory == [pass[i] EXCEPT !.threads = OpenThreads]
  <2>1. OpenThreads \in SUBSET Offer
    BY DEF OpenThreads, Rows
  <2>2. memory \in PassRow /\ memory.page = pass[i].page
    BY <1>1, <2>1 DEF PassRow
  <2>3. Goes(i, "fetch", memory)
    BY <1>3
  <2> HIDE DEF memory
  <2>4. QED
    BY <1>1, <2>2, <2>3, PagesGo DEF PagesInv
<1>4. CASE PassStarts(i)
  BY <1>1, <1>4, SamePage DEF PassStarts, Starts
<1>5. CASE SyncNow(i)
  BY <1>2, <1>5 DEF SyncNow, Starts
<1>6. CASE ListConnected(i)
  BY <1>1, <1>2, <1>6, SamePage DEF ListConnected, Connected
<1>7. CASE WatchThreads(i)
  BY <1>1, <1>3, <1>7, SamePage DEF WatchThreads
<1>8. CASE GrantIsUnreadable(i) \/ GrantIsRevoked(i) \/ FetchFails(i)
  BY <1>1, <1>8, SamePage DEF GrantIsUnreadable, GrantIsRevoked, FetchFails
<1>9. QED
  BY <1>4, <1>5, <1>6, <1>7, <1>8

LEMMA PagesFetched ==
    ASSUME CursorInv, PagesInv, NEW i \in Syncs, ReadHistory(i) \/ ReadThreads(i) \/ ReadCursor(i)
    PROVE  PagesInv'
<1>1. inbox' = inbox /\ pass[i] \in PassRow /\ Now \in Nat
  <2>1. CASE ReadHistory(i)
    <3>1. UNCHANGED vars
      BY <2>1, Zenon DEF ReadHistory
    <3>2. QED
      BY <3>1 DEF vars, CursorInv, MailboxTyped, Now
  <2>2. CASE ReadThreads(i)
    <3>1. UNCHANGED vars
      BY <2>2, Zenon DEF ReadThreads
    <3>2. QED
      BY <3>1 DEF vars, CursorInv, MailboxTyped, Now
  <2>3. CASE ReadCursor(i)
    BY <2>3 DEF ReadCursor, vars, CursorInv, MailboxTyped, Now
  <2>4. QED
    BY <2>1, <2>2, <2>3
<1>2. CASE ReadHistory(i)
  <2>1. PICK list \in Seq(Nat), left \in SUBSET Nat :
          /\ ToSet(list) \subseteq 1..Now
          /\ Goes(i, "replies", [pass[i] EXCEPT !.page = list, !.next = Now, !.left = left])
    BY <1>2, HistoryRead
  <2>2. PICK memory : memory = [pass[i] EXCEPT !.page = list, !.next = Now, !.left = left]
    OBVIOUS
  <2>3. memory \in PassRow /\ memory.page = list
    BY <1>1, <2>2 DEF PassRow, Watermark
  <2>4. QED
    BY <1>1, <2>1, <2>2, <2>3, PagesGo
<1>3. CASE ReadThreads(i)
  <2>1. PICK list \in Seq(Nat) :
          /\ ToSet(list) \subseteq 1..Now
          /\ Goes(i, "cursor", [pass[i] EXCEPT !.page = list, !.seen = Now, !.left = (1..Now) \ ToSet(list)])
    BY <1>3, ThreadsRead
  <2>2. PICK memory : memory = [pass[i] EXCEPT !.page = list, !.seen = Now, !.left = (1..Now) \ ToSet(list)]
    OBVIOUS
  <2>3. (1..Now) \ ToSet(list) \in SUBSET Nat
    BY <1>1
  <2>4. memory \in PassRow /\ memory.page = list
    BY <1>1, <2>2, <2>3 DEF PassRow
  <2>5. QED
    BY <1>1, <2>1, <2>2, <2>4, PagesGo
<1>4. CASE ReadCursor(i)
  <2>1. CASE Goes(i, "replies", [pass[i] EXCEPT !.next = Now, !.left = @ \cup (pass[i].seen + 1)..Now])
    <3>1. PICK memory : memory = [pass[i] EXCEPT !.next = Now, !.left = @ \cup (pass[i].seen + 1)..Now]
      OBVIOUS
    <3>2. pass[i].left \cup (pass[i].seen + 1)..Now \in SUBSET Nat
      BY <1>1 DEF PassRow
    <3>3. memory \in PassRow /\ memory.page = pass[i].page
      BY <1>1, <3>1, <3>2 DEF PassRow, Watermark
    <3>4. QED
      BY <1>1, <2>1, <3>1, <3>3, PagesGo DEF PagesInv
  <2>2. CASE Goes(i, "replies", pass[i])
    BY <1>1, <2>2, SamePage
  <2>3. QED
    BY <1>4, <2>1, <2>2, Zenon DEF ReadCursor
<1>5. QED
  BY <1>2, <1>3, <1>4

LEMMA PagesApplied ==
    ASSUME CursorInv, PagesInv, NEW i \in Syncs,
           ApplyReply(i) \/ IngestGoesOn(i) \/ IngestEnds(i) \/ IngestFails(i)
    PROVE  PagesInv'
<1>1. inbox' = inbox /\ pass[i] \in PassRow /\ Now \in Nat /\ Remembers(pass[i], Accounted)
  BY IngestLeavesTheInbox DEF CursorInv, MailboxTyped, Now
<1>2. ASSUME NEW outcome, Applied(i, outcome), pass[i].page # <<>> PROVE PagesInv'
  <2>1. PICK memory : memory = [pass[i] EXCEPT !.page = Tail(@), !.failed = @ \/ outcome = "failed"]
    OBVIOUS
  <2>2. pass[i].page \in Seq(Nat) /\ pass[i].failed \in BOOLEAN
    BY <1>1 DEF PassRow
  <2>3. Tail(pass[i].page) \in Seq(Nat) /\ ToSet(Tail(pass[i].page)) \subseteq ToSet(pass[i].page)
    BY <1>2, <2>2, PageByPage
  <2>4. memory \in PassRow /\ memory.page = Tail(pass[i].page)
    BY <1>1, <2>1, <2>2, <2>3 DEF PassRow
  <2>5. Goes(i, "replies", memory)
    BY <1>2, <2>1, Zenon DEF Applied
  <2>6. QED
    BY <1>1, <2>3, <2>4, <2>5, PagesGo DEF PagesInv
<1>3. CASE ApplyReply(i)
  <2>1. pass[i].page # <<>> /\ (Applied(i, "skipped") \/ Goes(i, "ingest", pass[i]))
    BY <1>3 DEF ApplyReply
  <2>2. QED
    BY <1>1, <1>2, <2>1, SamePage
<1>4. CASE IngestGoesOn(i)
  <2>1. UNCHANGED pass /\ Now' = Now
    BY <1>1, <1>4 DEF IngestGoesOn, mailbox, Now
  <2>2. QED
    BY <1>1, <2>1, PagesStay
<1>5. CASE IngestEnds(i) \/ IngestFails(i)
  <2>1. Phase(i, "ingest") /\ \E outcome : Applied(i, outcome)
    BY <1>5 DEF IngestEnds, IngestFails
  <2>2. pass[i].page # <<>>
    BY <1>1, <2>1 DEF Remembers, Phase
  <2>3. QED
    BY <1>2, <2>1, <2>2
<1>6. QED
  BY <1>3, <1>4, <1>5

LEMMA PagesEnded ==
    ASSUME CursorInv, PagesInv, NEW i \in Syncs,
           Record(i) \/ Release(i) \/ Restart(i) \/ LockExpires(i) \/ LockIsOutrun(i)
    PROVE  PagesInv'
<1>1. inbox' = inbox /\ Now' = Now /\ Now \in Nat
  BY DEF Record, Release, Restart, LockExpires, LockIsOutrun, ConnectionLost, vars, Now, CursorInv, MailboxTyped
<1>2. CASE Record(i)
  BY <1>1, <1>2, SamePage DEF Record
<1>3. CASE pass' = [pass EXCEPT ![i] = NoPass]
  <2>1. ToSet(NoPass.page) = {}
    BY DEF NoPass, ToSet
  <2>2. \A j \in Syncs : pass'[j] \in {pass[j], NoPass}
    BY <1>3 DEF CursorInv, MailboxTyped
  <2>3. QED
    BY <1>1, <2>1, <2>2 DEF PagesInv
<1>4. CASE UNCHANGED pass
  BY <1>1, <1>4, PagesStay
<1>5. QED
  BY <1>2, <1>3, <1>4 DEF Release, Restart, LockExpires, LockIsOutrun

\* A step beside the passes only brings a reply in, or none.
LEMMA OthersLeaveThePages ==
    ASSUME CursorInv, PagesInv,
           \/ UNCHANGED allVars
           \/ \E s \in Session : OwnerCalls(s) \/ MailThroughMailbox(s)
           \/ \E o \in Offer : SupplierReplies(o) /\ UNCHANGED mailbox
           \/ ReadConsent \/ SaveConsent \/ Disconnect \/ WithdrawGrant
    PROVE  PagesInv'
<1>1. inbox \in Seq(Offer) /\ Now \in Nat
  BY DEF CursorInv, MailboxTyped, Now
<1>2. ASSUME UNCHANGED pass, inbox' = inbox PROVE PagesInv'
  BY <1>1, <1>2, PagesStay DEF Now
<1>3. CASE UNCHANGED allVars
  BY <1>2, <1>3 DEF allVars, mailbox, vars
<1>4. ASSUME NEW s \in Session, OwnerCalls(s) \/ MailThroughMailbox(s) PROVE PagesInv'
  BY <1>2, <1>4, HandlersLeaveTheInbox DEF OwnerCalls, MailThroughMailbox, mailbox
<1>5. ASSUME NEW o \in Offer, SupplierReplies(o) /\ UNCHANGED mailbox PROVE PagesInv'
  <2>1. UNCHANGED pass /\ inbox' = Append(inbox, o)
    BY <1>5 DEF SupplierReplies, mailbox
  <2>2. Now' = Now + 1
    BY <1>1, <2>1 DEF Now
  <2>3. QED
    BY <1>1, <2>1, <2>2, PagesStay
<1>6. CASE ReadConsent \/ SaveConsent \/ Disconnect \/ WithdrawGrant
  BY <1>2, <1>6 DEF ReadConsent, SaveConsent, Disconnect, WithdrawGrant, vars
<1>7. QED
  BY <1>3, <1>4, <1>5, <1>6

LEMMA PagesInvSteps == ASSUME CursorInv, PagesInv, [NextWithMailbox]_allVars PROVE PagesInv'
<1>1. ASSUME NEW i \in Syncs,
             \/ PassStarts(i) \/ SyncNow(i) \/ PassStep(i)
             \/ GrantIsUnreadable(i) \/ FetchFails(i) \/ IngestFails(i)
             \/ Restart(i) \/ LockExpires(i) \/ LockIsOutrun(i)
      PROVE  PagesInv'
  BY <1>1, PagesBeforeFetch, PagesFetched, PagesApplied, PagesEnded DEF PassStep
<1>2. QED
  BY <1>1, OthersLeaveThePages DEF NextWithMailbox

RequestVars == <<request, offer, issued, inbox, pc, job, mailed, told>>

\* What any step of the system is to the request.
RequestStep ==
    \/ UNCHANGED RequestVars
    \/ \E o \in Offer : SupplierReplies(o)
    \/ \E s \in Session : \/ Call(s) \/ HandlerStep(s) \/ ConnectionLost(s)
                          \/ \E flag : MailRecipients(s, flag)
                          \/ \E m \in 1..Now : LoadOffer(s, inbox[m], m, TRUE)

LEMMA PassStepsOfRequest ==
    ASSUME CursorInv, PagesInv, NEW i \in Syncs,
           \/ PassStarts(i) \/ SyncNow(i) \/ PassStep(i)
           \/ GrantIsUnreadable(i) \/ FetchFails(i) \/ IngestFails(i)
           \/ Restart(i) \/ LockExpires(i) \/ LockIsOutrun(i)
    PROVE  RequestStep
<1>1. i \in Session
  BY DEF Session
<1>2. ASSUME UNCHANGED vars PROVE RequestStep
  BY <1>2 DEF vars, RequestStep, RequestVars
<1>3. CASE PassStarts(i) \/ ListConnected(i) \/ WatchThreads(i) \/ GrantIsRevoked(i) \/ Record(i) \/ Release(i)
           \/ GrantIsUnreadable(i) \/ FetchFails(i) \/ LockExpires(i) \/ LockIsOutrun(i)
  BY <1>2, <1>3 DEF PassStarts, ListConnected, WatchThreads, GrantIsRevoked, Record, Release,
     GrantIsUnreadable, FetchFails, LockExpires, LockIsOutrun
<1>4. CASE ReadHistory(i)
  <2>1. UNCHANGED vars
    BY <1>4, Zenon DEF ReadHistory
  <2>2. QED
    BY <1>2, <2>1
<1>5. CASE ReadThreads(i)
  <2>1. UNCHANGED vars
    BY <1>5, Zenon DEF ReadThreads
  <2>2. QED
    BY <1>2, <2>1
<1>6. CASE ReadCursor(i)
  <2>1. UNCHANGED vars
    BY <1>6, Zenon DEF ReadCursor
  <2>2. QED
    BY <1>2, <2>1
<1>7. CASE SyncNow(i)
  BY <1>7 DEF SyncNow, RequestStep, RequestVars
<1>8. CASE ApplyReply(i)
  <2>1. PICK m : m = Head(pass[i].page)
    OBVIOUS
  <2>2. UNCHANGED vars \/ LoadOffer(i, inbox[m], m, TRUE)
    BY <1>8, <2>1 DEF ApplyReply
  <2>3. pass[i].page \in Seq(Nat) /\ pass[i].page # <<>>
    BY <1>8 DEF ApplyReply, CursorInv, MailboxTyped, PassRow
  <2>4. m \in 1..Now
    BY <2>1, <2>3, PageByPage DEF PagesInv
  <2>5. QED
    BY <1>1, <1>2, <2>2, <2>4 DEF RequestStep
<1>9. CASE IngestGoesOn(i)
  <2>1. HandlerStep(i)
    BY <1>9, Zenon DEF IngestGoesOn, HandlerStep, SaveStep
  <2>2. QED
    BY <1>1, <2>1 DEF RequestStep
<1>10. CASE IngestEnds(i)
  <2>1. HandlerStep(i)
    BY <1>10, Zenon DEF IngestEnds, HandlerStep, SaveStep
  <2>2. QED
    BY <1>1, <2>1 DEF RequestStep
<1>11. CASE IngestFails(i) \/ Restart(i)
  <2>1. ConnectionLost(i) \/ UNCHANGED vars
    BY <1>11 DEF IngestFails, Restart
  <2>2. QED
    BY <1>1, <1>2, <2>1 DEF RequestStep
<1>12. QED
  BY <1>3, <1>4, <1>5, <1>6, <1>7, <1>8, <1>9, <1>10, <1>11 DEF PassStep

LEMMA EveryStepOfRequest == ASSUME CursorInv, PagesInv, [NextWithMailbox]_allVars PROVE RequestStep
<1>1. CASE UNCHANGED allVars
  BY <1>1 DEF allVars, vars, RequestStep, RequestVars
<1>2. ASSUME NEW s \in Session, OwnerCalls(s) \/ MailThroughMailbox(s) PROVE RequestStep
  <2>1. Call(s) \/ HandlerStep(s) \/ \E flag : MailRecipients(s, flag)
    BY <1>2 DEF OwnerCalls, MailThroughMailbox
  <2>2. QED
    BY <2>1 DEF RequestStep
<1>3. ASSUME NEW o \in Offer, SupplierReplies(o) PROVE RequestStep
  BY <1>3 DEF RequestStep
<1>4. CASE ReadConsent \/ SaveConsent \/ Disconnect \/ WithdrawGrant
  BY <1>4 DEF ReadConsent, SaveConsent, Disconnect, WithdrawGrant, vars, RequestStep, RequestVars
<1>5. QED
  BY <1>1, <1>2, <1>3, <1>4, PassStepsOfRequest DEF NextWithMailbox

LEMMA RequestStepsKeep == ASSUME ProcurementInv, RequestStep PROVE ProcurementInv'
<1>1. CASE UNCHANGED RequestVars
  <2>1. UNCHANGED <<request, offer, inbox, mailed, told, pc, job>>
    BY <1>1 DEF RequestVars
  <2>2. CallsOK'
    BY <2>1 DEF ProcurementInv, CallsOK, Holds, Ingests, SentWereMailed, SomebodyMailed, Answers
  <2>3. QED
    BY <2>1, <2>2, RowsStay DEF ProcurementInv
<1>2. ASSUME NEW o \in Offer, SupplierReplies(o) PROVE ProcurementInv'
  BY <1>2, SupplierRepliesKeep
<1>3. ASSUME NEW s \in Session, ConnectionLost(s) PROVE ProcurementInv'
  BY <1>3, EndingsKeep
<1>4. ASSUME NEW s \in Session, NEW flag, MailRecipients(s, flag) PROVE ProcurementInv'
  BY <1>4, MailRecipientsKeeps
<1>5. ASSUME NEW s \in Session, Call(s) PROVE ProcurementInv'
  BY <1>5, CreateKeeps, LoadForEditKeeps, LoadForSendKeeps, LoadForCancelKeeps, LoadForConfirmKeeps,
     PasteKeeps, LoadForCorrectionKeeps DEF Call
<1>6. ASSUME NEW s \in Session, HandlerStep(s) PROVE ProcurementInv'
  BY <1>6, SelectionsKeep, SaveRequestKeeps, AfterOffersKeeps, EndingsKeep, StrikeKeeps, MailDecisionsKeeps,
     LoadRequestKeeps, StoreReplyKeeps, ExtractKeeps DEF HandlerStep, SaveStep
<1>7. ASSUME NEW s \in Session, NEW m \in 1..Now, LoadOffer(s, inbox[m], m, TRUE) PROVE ProcurementInv'
  BY <1>7, LoadOfferKeeps
<1>8. QED
  BY <1>1, <1>2, <1>3, <1>4, <1>5, <1>6, <1>7 DEF RequestStep

-----------------------------------------------------------------------------
\* The theorem about the answers.

LEMMA AnswersInvSteps ==
    ASSUME ProcurementInv, ProcurementInv', AnswersInv, RequestStep PROVE AnswersInv'
<1>1. CASE UNCHANGED RequestVars
  BY <1>1 DEF RequestVars, AnswersInv, RowsKnown, CallsKnow, ListsAreFresh, Knows, KnowsAnswers, IsKnown, Now,
     Rows, AimsOf
<1>2. ASSUME NEW o \in Offer, SupplierReplies(o) PROVE AnswersInv'
  BY <1>2, ArrivalsKnow
<1>3. ASSUME NEW s \in Session, ConnectionLost(s) PROVE AnswersInv'
  BY <1>3, EndedKnow
<1>4. ASSUME NEW s \in Session, NEW flag, MailRecipients(s, flag) PROVE AnswersInv'
  BY <1>4, MailingKnows
<1>5. ASSUME NEW s \in Session, NEW m \in 1..Now, NEW fetched, LoadOffer(s, inbox[m], m, fetched) PROVE AnswersInv'
  <2>1. inbox[m] \in Offer
    BY DEF ProcurementInv, RowsOK, Now
  <2>2. QED
    BY <1>5, <2>1, IngestionKnows
<1>6. ASSUME NEW s \in Session, Call(s) PROVE AnswersInv'
  <2>1. CASE Paste(s)
    BY <1>5, <2>1 DEF Paste
  <2>2. QED
    BY <1>6, <2>1, CreateKnows, EditsKnow, LoadsKnow, CorrectionKnows DEF Call
<1>7. ASSUME NEW s \in Session, HandlerStep(s) PROVE AnswersInv'
  BY <1>7, SelectionsKnow, EditSavedKnows, OffersSavedKnow, EndedKnow, StrikingKnows, ReadingKnows,
     ExtractionKnows DEF HandlerStep, SaveStep
<1>8. QED
  BY <1>1, <1>2, <1>3, <1>4, <1>5, <1>6, <1>7 DEF RequestStep

\* An answer goes back at most by a save that did not know of it.
AnswerStands(o) ==
    offer[o] # None /\ offer'[o] # None /\ (\A s \in Session : ~IsUnaware(s, o))
      => NotOlder(offer'[o], offer[o])

LEMMA SameAnswerStands ==
    ASSUME ProcurementInv, AnswersInv, NEW o \in Offer,
           offer[o] # None => offer'[o].repliedAt = offer[o].repliedAt
    PROVE  AnswerStands(o)
<1>1. Now \in Nat
  BY DEF Now, ProcurementInv, RowsOK
<1>2. offer[o] # None => offer[o].repliedAt \in 0..Now \cup {None}
  BY DEF AnswersInv, RowsKnown, Rows, IsKnown
<1>3. QED
  BY <1>1, <1>2 DEF AnswerStands, NotOlder

LEMMA SavedAnswerStands ==
    ASSUME ProcurementInv, AnswersInv, NEW s \in Session, AfterOffers(s) \/ StoreReply(s), NEW o \in Offer
    PROVE  AnswerStands(o)
<1>1. pc[s] \in {"saveReply", "saveOffers"} /\ pc'[s] # pc[s] /\ \E from : SaveOffers(s, from)
  BY WritersLeaveTheirLabel DEF AfterOffers, StoreReply, SaveOffers
<1>2. /\ o \notin job[s].targets => offer'[o] = offer[o]
      /\ o \in job[s].targets =>
           /\ offer[o] # None /\ offer'[o] # None =>
                offer'[o].repliedAt \in {offer[o].repliedAt, job[s].offers[o].repliedAt}
           /\ NotOlder(job[s].offers[o], job[s].was[o])
  BY <1>1, SavedAnswers
<1>3. CASE o \notin job[s].targets
  BY <1>2, <1>3, SameAnswerStands
<1>4. CASE o \in job[s].targets /\ offer'[o].repliedAt = offer[o].repliedAt
  BY <1>4, SameAnswerStands
<1>5. CASE o \in job[s].targets /\ offer'[o].repliedAt # offer[o].repliedAt
  <2>1. SUFFICES ASSUME offer[o] # None, offer'[o] # None, \A t \in Session : ~IsUnaware(t, o)
                 PROVE  NotOlder(offer'[o], offer[o])
    BY DEF AnswerStands
  <2>2. offer[o].repliedAt = job[s].was[o].repliedAt
    BY <1>1, <1>5, <2>1 DEF IsUnaware
  <2>3. QED
    BY <1>2, <1>5, <2>1, <2>2 DEF NotOlder
<1>6. QED
  BY <1>3, <1>4, <1>5

LEMMA DraftedAnswerStands ==
    ASSUME ProcurementInv, AnswersInv, NEW s \in Session, Create(s) \/ SaveEdit(s), NEW o \in Offer
    PROVE  AnswerStands(o)
<1>1. CASE Create(s)
  <2>1. offer[o] = None
    BY <1>1 DEF Create, ProcurementInv, RowsOK, Rows
  <2>2. QED
    BY <2>1 DEF AnswerStands
<1>2. CASE SaveEdit(s)
  <2>1. /\ pc[s] = "saveEdit"
        /\ offer' = IF job[s].targets = {} THEN offer ELSE Insert(job[s].targets)
    BY <1>2 DEF SaveEdit
  <2>2. CASE offer' = offer
    BY <2>2, SameAnswerStands
  <2>3. CASE offer' = Insert(job[s].targets)
    <3>1. offer'[o] # None => o \in job[s].targets
      BY <2>3 DEF Insert
    <3>2. o \in job[s].targets => o \notin Rows(offer)
      BY <2>1 DEF AnswersInv, ListsAreFresh, AimsOf, Aims, Drafts
    <3>3. QED
      BY <3>1, <3>2 DEF AnswerStands, Rows
  <2>4. QED
    BY <2>1, <2>2, <2>3
<1>3. QED
  BY <1>1, <1>2

LEMMA AnswersStand == ASSUME ProcurementInv, AnswersInv, RequestStep, NEW o \in Offer PROVE AnswerStands(o)
<1>1. ASSUME UNCHANGED offer PROVE AnswerStands(o)
  BY <1>1, SameAnswerStands
<1>2. CASE UNCHANGED RequestVars
  BY <1>1, <1>2 DEF RequestVars
<1>3. ASSUME NEW p \in Offer, SupplierReplies(p) PROVE AnswerStands(o)
  BY <1>1, <1>3 DEF SupplierReplies
<1>4. ASSUME NEW s \in Session, ConnectionLost(s) \/ (\E flag : MailRecipients(s, flag))
      PROVE  AnswerStands(o)
  BY <1>1, <1>4 DEF ConnectionLost, MailRecipients
<1>5. ASSUME NEW s \in Session, NEW m \in 1..Now, LoadOffer(s, inbox[m], m, TRUE) PROVE AnswerStands(o)
  BY <1>1, <1>5 DEF LoadOffer
<1>6. ASSUME NEW s \in Session, Call(s) PROVE AnswerStands(o)
  <2>1. CASE Create(s)
    BY <2>1, DraftedAnswerStands
  <2>2. CASE ~Create(s)
    <3>1. UNCHANGED offer
      BY <1>6, <2>2 DEF Call, LoadForEdit, LoadForSend, LoadForCancel, LoadForConfirm, Paste, LoadOffer,
         LoadForCorrection, Start
    <3>2. QED
      BY <1>1, <3>1
  <2>3. QED
    BY <2>1, <2>2
<1>7. ASSUME NEW s \in Session, HandlerStep(s) PROVE AnswerStands(o)
  <2>1. CASE AfterOffers(s) \/ StoreReply(s)
    BY <2>1, SavedAnswerStands
  <2>2. CASE SaveEdit(s)
    BY <2>2, DraftedAnswerStands
  <2>3. CASE Strike(s)
    BY <2>3, StruckAnswers, SameAnswerStands DEF Rows
  <2>4. CASE ~(AfterOffers(s) \/ StoreReply(s) \/ SaveEdit(s) \/ Strike(s))
    <3>1. UNCHANGED offer
      BY <1>7, <2>4 DEF HandlerStep, SaveStep, SelectRequest, SelectOffers, Select, SaveRequest, Throws,
         StrikeConflict, MailDecisions, LoadRequest, SkipReply, Extract
    <3>2. QED
      BY <1>1, <3>1
  <2>5. QED
    BY <2>1, <2>2, <2>3, <2>4
<1>8. QED
  BY <1>2, <1>3, <1>4, <1>5, <1>6, <1>7 DEF RequestStep

WholeInv == CursorInv /\ PagesInv /\ ProcurementInv /\ AnswersInv

LEMMA WholeInvStarts == ASSUME InitMailbox PROVE WholeInv
<1>1. Init
  BY DEF InitMailbox
<1>2. ProcurementInv
  BY <1>1, InitProcurementInv
<1>3. ToSet(NoPass.page) = {}
  BY DEF NoPass, ToSet
<1>4. PagesInv
  BY <1>3 DEF InitMailbox, PagesInv
<1>5. AnswersInv
  BY <1>1 DEF Init, AnswersInv, RowsKnown, CallsKnow, ListsAreFresh, Rows, Knows, AimsOf, Aims, Drafts
<1>6. QED
  BY <1>2, <1>4, <1>5, CursorInvStarts DEF WholeInv

LEMMA WholeInvSteps == ASSUME WholeInv, [NextWithMailbox]_allVars PROVE WholeInv' /\ RequestStep
<1>1. RequestStep
  BY EveryStepOfRequest DEF WholeInv
<1>2. ProcurementInv'
  BY <1>1, RequestStepsKeep DEF WholeInv
<1>3. AnswersInv'
  BY <1>1, <1>2, AnswersInvSteps DEF WholeInv
<1>4. QED
  BY <1>1, <1>2, <1>3, CursorInvSteps, PagesInvSteps DEF WholeInv

\* For any number of server instances, owners' calls, offers and replies, the answer on
\* an offer is replaced by an older one only by a save of send, ingest or updateOffer
\* that loaded the offer before the newer answer came: isReplyAlreadyRead keeps out
\* whatever passes read again, after a restart, a failure or an outrun lock, and save()
\* writes no column that its handler left alone.
THEOREM AnswersNeverGoBackHolds == MailboxSpec => AnswersNeverGoBack
<1> DEFINE Stands ==
      \A o \in Offer :
         (/\ offer[o] # None /\ offer'[o] # None /\ offer[o].repliedAt # None
          /\ \A s \in Session : ~IsUnaware(s, o))
         => offer'[o].repliedAt # None /\ offer'[o].repliedAt >= offer[o].repliedAt
<1>1. ASSUME WholeInv, RequestStep PROVE Stands
  BY <1>1, AnswersStand DEF WholeInv, AnswerStands, NotOlder
<1>2. WholeInv /\ [NextWithMailbox]_allVars => WholeInv'
  BY WholeInvSteps
<1>3. WholeInv /\ [NextWithMailbox]_allVars => (UNCHANGED allVars \/ Stands)
  BY <1>1, WholeInvSteps
<1>4. InitMailbox => WholeInv
  BY WholeInvStarts
<1> HIDE DEF Stands
<1>5. MailboxSpec => [][Stands]_allVars
  BY <1>2, <1>3, <1>4, PTL DEF MailboxSpec
<1>6. QED
  BY <1>5 DEF AnswersNeverGoBack, Stands
=============================================================================
