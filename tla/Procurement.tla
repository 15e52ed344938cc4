---------------------------- MODULE Procurement ----------------------------
(***************************************************************************)
(* One purchase request of a store and the offers on it: the owner drafts  *)
(* it, mails it to suppliers, reads their replies into offers and strikes  *)
(* one deal.                                                               *)
(*                                                                         *)
(* Every call is a session that runs its handler between two awaits at a   *)
(* time.  A transaction is the step of its COMMIT: it locks what it reads  *)
(* in it, except for the SELECT of TypeORM's save(), which is a step of    *)
(* its own because another session may commit between it and the UPDATE.   *)
(* A call refused before it writes changes nothing and is a stuttering     *)
(* step.  The suppliers, their mail and the owner's inbox are external.    *)
(***************************************************************************)
EXTENDS Integers, Sequences, FiniteSets, TLC

CONSTANTS
    Offer,        \* ids of supplier_offers rows; an id is one supplier's
    Recipients,   \* the sets of offers one recipient list creates
    Creators,     \* POST /purchase-requests
    Editors,      \* PATCH /purchase-requests/:id
    Senders,      \* POST /purchase-requests/:id/send
    Cancellers,   \* POST /purchase-requests/:id/cancel
    Deciders,     \* POST /purchase-requests/:id/offers/:offerId/confirm
    Pasters,      \* POST /purchase-requests/:id/offers/:offerId/reply
    Correctors,   \* PATCH /purchase-requests/:id/offers/:offerId
    Syncs,        \* the mailbox sync of each server instance, see MailboxSync
    MaxCalls,     \* bounds the calls that are made
    MaxReplies,   \* bounds the replies suppliers write
    Extractions,  \* what the model may make of a reply, see Extracted
    None,         \* null
    Typed         \* a price the owner typed in

ASSUME CallsAndRepliesAreBounded == MaxCalls \in Nat /\ MaxReplies \in Nat
ASSUME SomethingIsMade == Extractions \subseteq {"price", "no price", "nothing"}
ASSUME RecipientsAreOffers == Recipients \subseteq (SUBSET Offer) \ {{}}
ASSUME NullIsNoValue == None \notin Offer \cup Nat \cup {Typed} /\ Typed \notin Nat

Session == Creators \cup Editors \cup Senders \cup Cancellers \cup Deciders
           \cup Pasters \cup Correctors \cup Syncs

\* A reply is known by its place in the order of arrival, which is also the
\* order of the times it was received at.
Reply == 1..MaxReplies

-----------------------------------------------------------------------------
\* The two tables.

RequestStatus == {"draft", "sent", "replied", "confirmed", "cancelled"}

PURCHASE_REQUEST_TRANSITIONS ==
    [draft     |-> {"sent", "cancelled"},
     sent      |-> {"replied", "cancelled"},
     replied   |-> {"confirmed", "cancelled"},
     confirmed |-> {},
     cancelled |-> {}]

\* assertRequestTransition, as the condition under which it does not throw.
LegalRequestMove(from, to) ==
    from \in RequestStatus /\ to \in PURCHASE_REQUEST_TRANSITIONS[from]

RequestRow == [status : RequestStatus, deal : Offer \cup {None}]

OfferStatus == {"awaiting", "received", "won", "declined"}

\* price is unitAmount: the reply it was read from, or that the owner typed it.
\* repliedAt is the number of replies that had arrived by then.
OfferRow == [status : OfferStatus, sent : BOOLEAN, thread : BOOLEAN,
             repliedAt : 0..MaxReplies \cup {None}, message : Reply \cup {None},
             price : Reply \cup {None, Typed}]

ASSUME NullIsNoRow == None \notin RequestRow \cup OfferRow \cup RequestStatus \cup OfferStatus

\* buildOffer
NewOffer == [status |-> "awaiting", sent |-> FALSE, thread |-> FALSE,
             repliedAt |-> None, message |-> None, price |-> None]

VARIABLES
    request,  \* the purchase_requests row, None before create
    offer,    \* the supplier_offers rows, None where there is none
    issued,   \* offer ids ever generated: an id is a fresh uuid
    inbox,    \* what suppliers replied: the offer each reply is about
    pc,       \* where each session is in its handler
    job,      \* the entities its handler holds in memory
    mailed,   \* history: the offers whose supplier received the request
    calls,    \* how many calls were made, see MaxCalls
    told      \* history: those whose supplier was told that it is declined

vars == <<request, offer, issued, inbox, pc, job, mailed, told, calls>>

Rows(table) == {o \in Offer : table[o] # None}

Only(list, table) == [o \in Offer |-> IF o \in list THEN table[o] ELSE None]

NoJob == [kind |-> "none"]
NoOffers == [o \in Offer |-> None]

Init ==
    /\ request = None
    /\ offer = [o \in Offer |-> None]
    /\ issued = {}
    /\ inbox = <<>>
    /\ pc = [s \in Session |-> "idle"]
    /\ job = [s \in Session |-> NoJob]
    /\ mailed = {}
    /\ told = {}
    /\ calls = 0

-----------------------------------------------------------------------------
\* Steps every handler is made of.

Running(s) == pc[s] # "idle"

Finish(s) ==
    /\ pc' = [pc EXCEPT ![s] = "idle"]
    /\ job' = [job EXCEPT ![s] = NoJob]

Goto(s, label, memory) ==
    /\ pc' = [pc EXCEPT ![s] = label]
    /\ job' = [job EXCEPT ![s] = memory]

\* A call loads the request with its offers (loadFull) and its handler edits
\* them in memory: targets are the offers it will save, listed those it found on
\* the request, selected what the save reads of the tables.  seen and was are
\* the status and the offers as the handler last knew them.
Memory(kind, targets, requestEntity, entities) ==
    [kind |-> kind, targets |-> targets, request |-> requestEntity, offers |-> entities,
     was |-> Only(targets, offer), listed |-> Rows(offer), seen |-> request.status,
     selected |-> None, body |-> None]

Begin(s) ==
    /\ pc[s] = "idle"
    /\ calls < MaxCalls
    /\ calls' = calls + 1

Start(s, label, memory) ==
    /\ Begin(s)
    /\ Goto(s, label, memory)
    /\ UNCHANGED <<request, offer, issued, inbox, mailed, told>>

\* save() writes the columns in which the entity differs from the row it
\* selected, whoever made them differ.
Merge(entity, selected, row) ==
    [c \in DOMAIN row |-> IF entity[c] = selected[c] THEN row[c] ELSE entity[c]]

\* The SELECT of a save().
Select(s, from, to, read) ==
    /\ pc[s] = from
    /\ Goto(s, to, [job[s] EXCEPT !.selected = read])
    /\ UNCHANGED <<request, offer, issued, inbox, mailed, told, calls>>

SelectOffers(s, from, to) ==
    Select(s, from, to,
      [request |-> None, offers |-> Only(job[s].targets, offer), listed |-> {}])

\* The entity of a request lists its offers, so their ids are selected too.
SelectRequest(s, from, to) ==
    Select(s, from, to,
      [request |-> request, offers |-> NoOffers, listed |-> Rows(offer)])

\* A row that was gone by the SELECT is inserted again, one that is gone by the
\* UPDATE is not.  generateId gives the inserted row another id; it is known by
\* its old one here, for its supplier's replies and this handler go on to find it.
SavedOffer(s, o) ==
    LET j == job[s]
    IN  IF j.selected.offers[o] = None THEN j.offers[o]
        ELSE IF offer[o] = None THEN None
        ELSE Merge(j.offers[o], j.selected.offers[o], offer[o])

\* The UPDATE of the offers' save(), in one transaction.  Where another session
\* inserted again the same row there is no second one here: an abstraction, which
\* only two overtaken handlers meet.
Clash(s) == \E o \in job[s].targets : job[s].selected.offers[o] = None /\ offer[o] # None

SaveOffers(s, from) ==
    /\ pc[s] = from
    /\ ~Clash(s)
    /\ offer' = [o \in Offer |-> IF o \in job[s].targets THEN SavedOffer(s, o) ELSE offer[o]]
    /\ UNCHANGED <<request, issued, inbox, mailed, told, calls>>

\* Offers put on the request since the handler loaded it.  Saving the entity,
\* which lists its offers, would take them off; their purchaseRequestId is not
\* nullable, so the database refuses.
Orphans(s) == (job[s].selected.listed \ job[s].listed) \cap Rows(offer)

SavedRequest(s) == Merge(job[s].request, job[s].selected.request, request)

SaveRequest(s) ==
    /\ pc[s] = "saveRequest"
    /\ Orphans(s) = {}
    /\ request' = SavedRequest(s)
    /\ Finish(s)
    /\ UNCHANGED <<offer, issued, inbox, mailed, told, calls>>

\* An exception ends the handler: the transaction it was in left nothing.
Throws(s) ==
    /\ \/ pc[s] \in {"saveRequest", "saveEdit"} /\ Orphans(s) # {}
       \/ pc[s] \in {"saveReply", "saveOffers"} /\ Clash(s)
    /\ Finish(s)
    /\ UNCHANGED <<request, offer, issued, inbox, mailed, told, calls>>

\* The server restarts, or loses the database, with the handler anywhere.
ConnectionLost(s) ==
    /\ Running(s)
    /\ Finish(s)
    /\ UNCHANGED <<request, offer, issued, inbox, mailed, told, calls>>

-----------------------------------------------------------------------------
\* Drafting: create and update.

Insert(list) == [o \in Offer |-> IF o \in list THEN NewOffer ELSE None]

FreshLists == {list \in Recipients : list \cap issued = {}}

Create(s) ==
    /\ Begin(s)
    /\ request = None
    /\ \E list \in FreshLists :
         /\ request' = [status |-> "draft", deal |-> None]
         /\ offer' = Insert(list)
         /\ issued' = issued \cup list
    /\ UNCHANGED <<inbox, pc, job, mailed, told>>

\* update: a new text, and maybe a new recipient list (targets, {} if not).
LoadForEdit(s) ==
    /\ request # None /\ request.status = "draft"
    /\ Begin(s)
    /\ \E list \in FreshLists \cup {{}} :
         /\ Goto(s, "selectEdit", [Memory("edit", {}, request, NoOffers) EXCEPT !.targets = list])
         /\ issued' = issued \cup list
    /\ UNCHANGED <<request, offer, inbox, mailed, told>>

\* It replaces whatever offers there are at this time.
SaveEdit(s) ==
    /\ pc[s] = "saveEdit"
    /\ Orphans(s) = {}
    /\ LET list == job[s].targets
       IN  /\ request' = SavedRequest(s)
           /\ offer' = IF list = {} THEN offer ELSE Insert(list)
    /\ Finish(s)
    /\ UNCHANGED <<issued, inbox, mailed, told, calls>>

-----------------------------------------------------------------------------
\* send, cancel and confirm.

LoadForSend(s) ==
    /\ request # None /\ request.status \in {"draft", "sent"}
    /\ LET pending == {o \in Rows(offer) : ~offer[o].sent}
       IN  /\ pending # {}
           /\ Start(s, "mail", Memory("send", pending, request, Only(pending, offer)))

\* sent.length === 0: the call is answered with an error.
NobodyReached(reached) == reached = {}

\* mailRecipients: some of the mails are accepted, through the connected
\* mailbox, which tells their threads, or over SMTP.
MailRecipients(s, hasMailbox) ==
    /\ pc[s] = "mail"
    /\ \E reached \in SUBSET job[s].targets : \E threaded \in SUBSET (IF hasMailbox THEN reached ELSE {}) :
         /\ mailed' = mailed \cup reached
         /\ IF NobodyReached(reached) THEN Finish(s)
            ELSE Goto(s, "selectOffers", [job[s] EXCEPT
                   !.targets = reached,
                   !.offers = [o \in Offer |-> IF o \in reached
                      THEN [@[o] EXCEPT !.sent = TRUE, !.thread = o \in threaded]
                      ELSE None]])
    /\ UNCHANGED <<request, offer, issued, inbox, told, calls>>

\* What send, ingest and updateOffer do once their offers are saved: move the
\* request on, if the status they loaded calls for it.
MovesOn(s) ==
    \/ job[s].kind = "send" /\ job[s].request.status = "draft"
    \/ job[s].kind \in {"reply", "correct"} /\ job[s].request.status = "sent"

MovedTo(s) == IF job[s].kind = "send" THEN "sent" ELSE "replied"

AfterOffers(s) ==
    /\ SaveOffers(s, "saveOffers")
    /\ IF MovesOn(s)
       THEN Goto(s, "selectRequest", [job[s] EXCEPT !.request.status = MovedTo(s)])
       ELSE Finish(s)

LoadForCancel(s) ==
    /\ request # None /\ LegalRequestMove(request.status, "cancelled")
    /\ Start(s, "selectRequest",
         Memory("cancel", {}, [request EXCEPT !.status = "cancelled"], NoOffers))

\* confirm: the winner (targets) must have a price.
LoadForConfirm(s) ==
    /\ request # None /\ LegalRequestMove(request.status, "confirmed")
    /\ \E o \in Rows(offer) :
         /\ offer[o].price # None
         /\ Start(s, "strike", Memory("confirm", {o}, request, offer))

\* Mutant of StatusAsRead: the UPDATE names the request only.
AnyStatus(s) == TRUE

\* The transaction's UPDATE is conditional on the status this call read.
StatusAsRead(s) == request.status = job[s].request.status

Decided(s, o) == IF o \in job[s].targets THEN "won" ELSE "declined"

Strike(s) ==
    /\ pc[s] = "strike"
    /\ StatusAsRead(s)
    /\ \E winner \in job[s].targets :
         request' = [request EXCEPT !.status = "confirmed", !.deal = winner]
    /\ offer' = [o \in Offer |-> IF offer[o] # None /\ o \in job[s].listed
                                 THEN [offer[o] EXCEPT !.status = Decided(s, o)]
                                 ELSE offer[o]]
    /\ Goto(s, "tell", job[s])
    /\ UNCHANGED <<issued, inbox, mailed, told, calls>>

StrikeConflict(s) ==
    /\ pc[s] = "strike"
    /\ ~StatusAsRead(s)
    /\ Finish(s)
    /\ UNCHANGED <<request, offer, issued, inbox, mailed, told, calls>>

\* mailDecisions, of which any may fail: the losers that were mailed, as far as
\* this call knows.
ToDecline(s) == {o \in job[s].listed \ job[s].targets : job[s].offers[o].sent}

MailDecisions(s) ==
    /\ pc[s] = "tell"
    /\ \E reached \in SUBSET ToDecline(s) : told' = told \cup reached
    /\ Finish(s)
    /\ UNCHANGED <<request, offer, issued, inbox, mailed, calls>>

-----------------------------------------------------------------------------
\* Replies: ingest, and the owner's corrections.

\* A supplier who was mailed answers, and may answer again.
SupplierReplies(o) ==
    /\ o \in mailed
    /\ Len(inbox) < MaxReplies
    /\ inbox' = Append(inbox, o)
    /\ UNCHANGED <<request, offer, issued, pc, job, mailed, told, calls>>

Now == Len(inbox)

\* ingest, its first await: the offer.  body is the reply that was pasted or
\* fetched; only a fetched one has an identity and a time of its own.
LoadOffer(s, o, body, fetched) ==
    /\ offer[o] # None
    /\ Goto(s, "loadRequest",
         [kind |-> "ingest", target |-> o, entity |-> offer[o], body |-> body,
          fetched |-> fetched])
    /\ UNCHANGED <<request, offer, issued, inbox, mailed, told>>

\* ingestFromPaste
Paste(s) == Begin(s) /\ \E m \in 1..Now : LoadOffer(s, inbox[m], m, FALSE)

\* Mutant of AlreadyRead: only the message's own identity is compared.
AlreadyReadById(j) == j.fetched /\ j.entity.message = j.body

\* isReplyAlreadyRead: a paste never is.
AlreadyRead(j) ==
    /\ j.fetched
    /\ \/ j.entity.message = j.body
       \/ j.entity.repliedAt # None /\ j.body <= j.entity.repliedAt

\* assertCanReceiveReplies
TakesReplies == request.status \in {"sent", "replied"}

StoredReply(j) ==
    [j.entity EXCEPT
        !.repliedAt = IF j.fetched THEN j.body ELSE Now,
        !.status = "received",
        !.message = IF j.fetched THEN j.body ELSE @]

\* Its second await: the request.  The reply will be stored before it is read.
LoadRequest(s) ==
    /\ pc[s] = "loadRequest"
    /\ TakesReplies
    /\ ~AlreadyRead(job[s])
    /\ LET j == job[s]
       IN  Goto(s, "selectReply",
             [Memory("reply", {j.target}, request, [NoOffers EXCEPT ![j.target] = StoredReply(j)])
                EXCEPT !.was[j.target] = j.entity, !.body = j.body])
    /\ UNCHANGED <<request, offer, issued, inbox, mailed, told, calls>>

\* The reply is refused, or skipped because it was read before.
SkipReply(s) ==
    /\ pc[s] = "loadRequest"
    /\ ~TakesReplies \/ AlreadyRead(job[s])
    /\ Finish(s)
    /\ UNCHANGED <<request, offer, issued, inbox, mailed, told, calls>>

StoreReply(s) ==
    /\ SaveOffers(s, "saveReply")
    /\ Goto(s, "extract", [job[s] EXCEPT !.was = job[s].offers])

\* The price after an extraction: read, read to be none, or left alone because
\* there was nothing to read or no model to read it.
Extracted(extraction, body, price) ==
    CASE extraction = "price" -> body
      [] extraction = "no price" -> None
      [] extraction = "nothing" -> price

Extract(s) ==
    /\ pc[s] = "extract"
    /\ \E o \in job[s].targets, extraction \in Extractions :
         Goto(s, "selectOffers",
           [job[s] EXCEPT !.offers[o].price = Extracted(extraction, job[s].body, @)])
    /\ UNCHANGED <<request, offer, issued, inbox, mailed, told, calls>>

\* updateOffer: the numbers are the owner's now.
LoadForCorrection(s) ==
    /\ request # None /\ request.status \notin {"confirmed", "cancelled"}
    /\ \E o \in Rows(offer) : \E price \in {Typed, None, offer[o].price} :
         LET answered == IF offer[o].status = "awaiting" THEN "received" ELSE offer[o].status
             corrected == [offer[o] EXCEPT
                !.price = price, !.status = answered,
                !.repliedAt = IF offer[o].status = "awaiting" /\ @ = None THEN Now ELSE @]
         IN  Start(s, "selectOffers",
               Memory("correct", {o}, request, [NoOffers EXCEPT ![o] = corrected]))

-----------------------------------------------------------------------------

Call(s) ==
    \/ s \in Creators /\ Create(s)
    \/ s \in Editors /\ LoadForEdit(s)
    \/ s \in Senders /\ LoadForSend(s)
    \/ s \in Cancellers /\ LoadForCancel(s)
    \/ s \in Deciders /\ LoadForConfirm(s)
    \/ s \in Pasters /\ Paste(s)
    \/ s \in Correctors /\ LoadForCorrection(s)

SaveStep(s) ==
    \/ SelectRequest(s, "selectEdit", "saveEdit")
    \/ SaveEdit(s)
    \/ SelectOffers(s, "selectOffers", "saveOffers")
    \/ AfterOffers(s)
    \/ SelectRequest(s, "selectRequest", "saveRequest")
    \/ SaveRequest(s)
    \/ Throws(s)

HandlerStep(s) ==
    \/ SaveStep(s)
    \/ Strike(s) \/ StrikeConflict(s) \/ MailDecisions(s)
    \/ LoadRequest(s) \/ SkipReply(s)
    \/ SelectOffers(s, "selectReply", "saveReply") \/ StoreReply(s)
    \/ Extract(s)

Next ==
    \/ \E s \in Session :
         Call(s) \/ HandlerStep(s) \/ MailRecipients(s, FALSE) \/ ConnectionLost(s)
    \/ \E o \in Offer : SupplierReplies(o)

Spec == Init /\ [][Next]_vars

-----------------------------------------------------------------------------
\* Properties.

\* s is about to write what it decided from rows that somebody changed since it
\* loaded them, as far as the state machines see it.
Overtaken(s) ==
    LET j == job[s]
    IN  \/ pc[s] \in {"saveRequest", "saveEdit"} /\ request.status # j.seen
        \/ pc[s] = "strike" /\ j.listed # Rows(offer)
        \/ pc[s] \in {"saveReply", "saveOffers"} /\
             \/ request.status = "confirmed"
             \/ \E o \in j.targets : offer[o] = None \/ offer[o].status # j.was[o].status

Statuses == [o \in Offer |-> IF offer[o] = None THEN None ELSE offer[o].status]

StatusOfRequest == IF request = None THEN None ELSE request.status

Deal == INSTANCE PurchaseDeal WITH status <- StatusOfRequest, answers <- Statuses

\* The rows have their types, a request that counts as sent reached somebody,
\* and nobody is declined who was never asked.
MailsAndRowsAgree ==
    /\ request \in RequestRow \cup {None}
    /\ \A o \in Rows(offer) : offer[o] \in OfferRow
    /\ (request # None /\ request.status \in {"sent", "replied", "confirmed"}) => mailed # {}
    /\ told \subseteq mailed

\* However calls overlap, fail half-way or are cut off, every commit is one
\* legal step of the deal or none, unless its handler was overtaken: edit, send,
\* cancel, ingest and updateOffer save whatever they loaded before they awaited,
\* and confirm checks the status but not that its offers are still there.  Not
\* even those leave mails and rows at odds.
OnlyOvertakenWritesLeaveTheDeal ==
    [][/\ \/ \E s \in Session : Overtaken(s) /\ pc'[s] # pc[s]
          \/ Deal!Next
          \/ UNCHANGED <<StatusOfRequest, Statuses>>
       /\ MailsAndRowsAgree']_vars

\* The request machine: an illegal move is impossible, so a deal that was struck
\* is not un-struck.
RequestMovesLegally ==
    [][request # None =>
         \/ request'.status = request.status
         \/ LegalRequestMove(request.status, request'.status)]_vars

\* A request that reached at least one supplier is sent, once no call is on its
\* way: while it is a draft, no offer of it was mailed.
ReachedMeansSent ==
    (request # None /\ request.status = "draft" /\ \A s \in Session : ~Running(s))
      => \A o \in Rows(offer) : ~offer[o].sent
=============================================================================
