---------------------------- MODULE MailboxSync ----------------------------
(***************************************************************************)
(* The pass that reads suppliers' replies out of the owner's mailbox,      *)
(* beside the purchase request it reads them into (Procurement).           *)
(*                                                                         *)
(* Every server instance runs a pass now and then, one at a time by a lock *)
(* in Redis, and the owner may start one beside them.  A pass copies the   *)
(* connection row, picks the threads to watch, fetches what is new in them *)
(* since the row's cursor, ingests the replies one by one and only then    *)
(* moves the cursor.  Gmail, Redis and the mailbox are external.  A store  *)
(* has one mailbox account here.  Its other mail is not modelled, but it   *)
(* fills the pages of the history too, so the MAILBOX_MAX_HISTORY_PAGES of *)
(* a walk may end anywhere.                                                *)
(***************************************************************************)
EXTENDS Procurement, SequencesExt, Records

CONSTANTS
    MaxPerSync,   \* MAILBOX_MAX_REPLIES_PER_SYNC of each instance's environment
    MaxFailures,  \* bounds what goes wrong: crashes, Gmail, a history longer than its
                  \* pages, a withdrawn grant, the database, slowness
    MaxConnects,  \* bounds how often the owner connects the mailbox
    Manual        \* the syncs that POST /mailbox/sync starts

ASSUME PassBounds == MaxPerSync \in [Syncs -> Nat \ {0}] /\ MaxFailures \in Nat /\ MaxConnects \in Nat
ASSUME ManualAreSyncs == Manual \subseteq Syncs /\ None \notin Syncs

VARIABLES
    connection,  \* the mailbox_connections row, None if there is none
    consent,     \* the cursor the connect callback under way has read, if there is one
    connects,    \* consents so far
    alive,       \* whether Google still honours the grant
    lease,       \* the Redis lock: the instance that set it, or None
    pass,        \* what each instance's pass holds in memory
    settled,     \* history: replies ingested, refused, or read before
    leftOut,     \* history: replies a pass moved past without reading them
    skipped,     \* history: replies that were there when the owner connected
    outran,      \* history: a lock expired under a pass that was still running
    failures     \* see MaxFailures

mailbox == <<connection, consent, connects, alive, lease, pass, settled, leftOut, skipped, outran, failures>>

NoPass == [phase |-> "none", id |-> 0, cursor |-> None, threads |-> {}, page |-> <<>>,
           seen |-> 0, next |-> None, left |-> {}, failed |-> FALSE]

InitMailbox ==
    /\ Init
    /\ connection = None
    /\ consent = {}
    /\ connects = 0
    /\ alive = FALSE
    /\ lease = None
    /\ pass = [i \in Syncs |-> NoPass]
    /\ settled = {}
    /\ leftOut = {}
    /\ skipped = {}
    /\ outran = FALSE
    /\ failures = 0

Connected == connection # None /\ connection.status = "connected"

\* Everything of the connection an UPDATE of it by id changes, if it is there.
UpdateConnection(id, columns) ==
    connection' = IF connection # None /\ connection.id = id
                  THEN Spread(columns, connection) ELSE connection

Fails == failures < MaxFailures /\ failures' = failures + 1

PassVars == <<settled, leftOut, skipped, outran>>
OwnerVars == <<connection, consent, connects, alive>>

-----------------------------------------------------------------------------
\* The owner: completeConnect and disconnect, and the account at Google.

\* The one-time code is exchanged and the current cursor read, if Gmail gives it.
ReadConsent ==
    /\ consent = {}
    /\ connects < MaxConnects
    /\ \/ consent' = {Now} /\ UNCHANGED failures
       \/ consent' = {None} /\ Fails
    /\ connects' = connects + 1
    /\ alive' = TRUE
    /\ UNCHANGED <<vars, connection, lease, pass, PassVars>>

\* The row is saved: a reconnect keeps its id, and starts at its own cursor.
SaveConsent ==
    /\ \E cursor \in consent :
         /\ connection' = [id |-> IF connection = None THEN connects ELSE connection.id,
                           cursor |-> cursor, status |-> "connected"]
         /\ skipped' = skipped \cup (IF cursor = None THEN {} ELSE 1..cursor)
    /\ consent' = {}
    /\ UNCHANGED <<vars, connects, alive, lease, pass, settled, leftOut, outran, failures>>

Disconnect ==
    /\ connection # None
    /\ connection' = None
    /\ UNCHANGED <<vars, consent, connects, alive, lease, pass, PassVars, failures>>

WithdrawGrant ==
    /\ alive
    /\ Fails
    /\ alive' = FALSE
    /\ UNCHANGED <<vars, connection, consent, connects, lease, pass, PassVars>>

-----------------------------------------------------------------------------
\* A pass.

Goes(i, label, memory) == pass' = [pass EXCEPT ![i] = [memory EXCEPT !.phase = label]]

Phase(i, label) == pass[i].phase = label

\* Mutant of LockIsFree: the lock is taken from whoever holds it.
LockIsTaken == TRUE

\* setIfAbsent
LockIsFree == lease = None

\* The row as a pass copies it.
OfRow == [NoPass EXCEPT !.id = connection.id, !.cursor = connection.cursor]

Starts(i, label, memory) ==
    /\ Phase(i, "none")
    /\ Goes(i, label, memory)
    /\ UNCHANGED <<OwnerVars, PassVars, failures>>

PassStarts(i) ==
    /\ i \notin Manual
    /\ LockIsFree
    /\ lease' = i
    /\ Starts(i, "list", NoPass)
    /\ UNCHANGED vars

\* syncNow: one pass of the store, without a lock, whatever the row's status.
SyncNow(i) ==
    /\ i \in Manual
    /\ connection # None
    /\ Begin(i)
    /\ Starts(i, "watch", OfRow)
    /\ UNCHANGED <<request, offer, issued, inbox, pc, job, mailed, told, lease>>

\* listConnected.  The row it copies is used until the pass ends.
ListConnected(i) ==
    /\ Phase(i, "list")
    /\ IF Connected
       THEN Goes(i, "watch", OfRow)
       ELSE Goes(i, "release", pass[i])
    /\ UNCHANGED <<vars, OwnerVars, lease, PassVars, failures>>

RowIsThere(i) == connection # None /\ connection.id = pass[i].id

\* findOpenThreadOffers
OpenThreads ==
    {o \in Rows(offer) : /\ offer[o].thread
                         /\ offer[o].status \in {"awaiting", "received"}
                         /\ request.status \in {"sent", "replied"}}

\* syncStore up to its fetch: loadStore, findOpenThreadOffers, resolveGrant.
WatchThreads(i) ==
    /\ Phase(i, "watch")
    /\ IF RowIsThere(i) /\ OpenThreads # {}
       THEN Goes(i, "fetch", [pass[i] EXCEPT !.threads = OpenThreads])
       ELSE Goes(i, "release", pass[i])
    /\ UNCHANGED <<vars, OwnerVars, lease, PassVars, failures>>

\* The key this server holds does not decrypt the token.
GrantIsUnreadable(i) ==
    /\ Phase(i, "watch")
    /\ RowIsThere(i) /\ OpenThreads # {}
    /\ Fails
    /\ UpdateConnection(pass[i].id, [status |-> "expired"])
    /\ Goes(i, "release", pass[i])
    /\ UNCHANGED <<vars, consent, connects, alive, lease, PassVars>>

RepliesIn(threads) == {m \in 1..Now : inbox[m] \in threads}

\* The history has every thread in one place, and its messages as they came.
AsReceived(threads) == [t \in threads |-> 1]

\* Thread after thread, each in the order of its messages.
Precedes(place, m, n) ==
    \/ place[inbox[m]] < place[inbox[n]]
    \/ place[inbox[m]] = place[inbox[n]] /\ m < n

InOrder(replies, place) ==
    {list \in SetToSeqs(replies) :
        \A k, l \in DOMAIN list : k < l => Precedes(place, list[k], list[l])}

\* What is left of the replies by the cap of a pass.
Capped(i, replies, place) ==
    {m \in replies : Cardinality({n \in replies : Precedes(place, n, m)}) < MaxPerSync[i]}

\* What has come to the pass's threads since its cursor, on the pages up to reach.
NewReplies(i, reach) == {m \in RepliesIn(pass[i].threads) : pass[i].cursor < m /\ m <= reach}

\* A fetch reads it all, or steps over messages whose request fails, or stops at
\* its last page.
Fetched(steppedOver, reach) ==
    IF steppedOver = {} /\ reach = Now THEN UNCHANGED failures ELSE Fails

\* readHistory, from a cursor: list, then read message by message up to the cap.
\* Every page tells the newest cursor of the mailbox, so the pass moves there
\* although its pages ended before.
ReadHistory(i) ==
    /\ Phase(i, "fetch")
    /\ pass[i].cursor # None
    /\ alive
    /\ \E reach \in pass[i].cursor..Now :
         LET place == AsReceived(pass[i].threads)
             messages == Capped(i, NewReplies(i, reach), place)
         IN  \E steppedOver \in SUBSET messages :
               /\ Fetched(steppedOver, reach)
               /\ \E list \in InOrder(messages \ steppedOver, place) :
                    Goes(i, "replies",
                      [pass[i] EXCEPT
                         !.page = list,
                         !.next = Now,
                         !.left = ((pass[i].cursor + 1)..Now) \ (messages \ steppedOver)])
    /\ UNCHANGED <<vars, OwnerVars, lease, PassVars>>

\* Mutant of Revoked: a dead grant is taken for a failure of this pass only.
StillConnected == [status |-> "connected"]

\* MailboxGrantRevokedError from the history: markRevoked.
Revoked == [status |-> "revoked"]

GrantIsRevoked(i) ==
    /\ Phase(i, "fetch")
    /\ pass[i].cursor # None
    /\ ~alive
    /\ UpdateConnection(pass[i].id, Revoked)
    /\ Goes(i, "release", pass[i])
    /\ UNCHANGED <<vars, consent, connects, alive, lease, PassVars, failures>>

\* readThreads: without a cursor, or with one Gmail has forgotten, which is a
\* failure of its own.  Nothing that fails here is told, a dead grant neither.
ReadThreads(i) ==
    /\ Phase(i, "fetch")
    /\ \E place \in Bijection(pass[i].threads, 1..Cardinality(pass[i].threads)),
          steppedOver \in SUBSET pass[i].threads :
         LET replies == Capped(i, RepliesIn(pass[i].threads \ steppedOver), place)
         IN  /\ IF alive
                THEN /\ pass[i].cursor = None \/ failures < MaxFailures
                     /\ IF pass[i].cursor = None /\ steppedOver = {}
                        THEN UNCHANGED failures ELSE Fails
                ELSE pass[i].cursor = None /\ steppedOver = pass[i].threads /\ UNCHANGED failures
             /\ \E list \in InOrder(replies, place) :
                  Goes(i, "cursor",
                    [pass[i] EXCEPT !.page = list, !.seen = Now, !.left = (1..Now) \ replies])
    /\ UNCHANGED <<vars, OwnerVars, lease, PassVars>>

\* ... and then readCurrentCursor, null if that fails.
ReadCursor(i) ==
    /\ Phase(i, "cursor")
    /\ \/ /\ alive
          /\ Goes(i, "replies", [pass[i] EXCEPT !.next = Now, !.left = @ \cup (pass[i].seen + 1)..Now])
          /\ UNCHANGED failures
       \/ /\ IF alive THEN Fails ELSE UNCHANGED failures
          /\ Goes(i, "replies", pass[i])
    /\ UNCHANGED <<vars, OwnerVars, lease, PassVars>>

\* Gmail does not answer: the store's pass is given up.
FetchFails(i) ==
    /\ Phase(i, "fetch")
    /\ Fails
    /\ Goes(i, "release", pass[i])
    /\ UNCHANGED <<vars, OwnerVars, lease, PassVars>>

\* One reply after the other is applied; a thread's offer that is gone since is
\* a reply skipped.
Applied(i, outcome) ==
    LET m == Head(pass[i].page)
    IN  /\ Goes(i, "replies", [pass[i] EXCEPT !.page = Tail(@), !.failed = @ \/ outcome = "failed"])
        /\ settled' = IF outcome = "failed" THEN settled ELSE settled \cup {m}
        /\ UNCHANGED <<OwnerVars, lease, leftOut, skipped, outran>>

ApplyReply(i) ==
    /\ Phase(i, "replies")
    /\ pass[i].page # <<>>
    /\ LET m == Head(pass[i].page)
       IN  IF offer[inbox[m]] = None
           THEN Applied(i, "skipped") /\ UNCHANGED vars
           ELSE /\ LoadOffer(i, inbox[m], m, TRUE)
                /\ Goes(i, "ingest", pass[i])
                /\ UNCHANGED <<calls, OwnerVars, lease, PassVars>>
    /\ UNCHANGED failures

\* The steps of ingest, see Procurement; applyReply looks at how it ends.
IngestGoesOn(i) ==
    /\ \/ LoadRequest(i)
       \/ SelectOffers(i, "selectReply", "saveReply") \/ StoreReply(i)
       \/ Extract(i)
       \/ SelectOffers(i, "selectOffers", "saveOffers")
       \/ AfterOffers(i) /\ Running(i)'
       \/ SelectRequest(i, "selectRequest", "saveRequest")
    /\ UNCHANGED mailbox

IngestEnds(i) ==
    /\ Phase(i, "ingest")
    /\ \/ SkipReply(i) /\ Applied(i, "skipped")
       \/ AfterOffers(i) /\ ~Running(i)' /\ Applied(i, "read")
       \/ SaveRequest(i) /\ Applied(i, "read")
       \/ Throws(i) /\ Applied(i, "failed")
    /\ UNCHANGED failures

IngestFails(i) ==
    /\ Phase(i, "ingest")
    /\ Fails
    /\ ConnectionLost(i)
    /\ Applied(i, "failed")

\* Mutant of IsFinished: the cursor moves whatever failed.
IsAlwaysFinished(i) == TRUE

\* ! hadUnexpectedFailure
IsFinished(i) == ~pass[i].failed

\* recordSync, or recordSyncFailure, which leaves the cursor.
Record(i) ==
    /\ Phase(i, "replies")
    /\ pass[i].page = <<>>
    /\ LET p == pass[i]
           moved == IsFinished(i) /\ p.next # None
       IN  /\ IF IsFinished(i) THEN UpdateConnection(p.id, [cursor |-> p.next])
              ELSE UNCHANGED connection
           /\ leftOut' = IF moved THEN leftOut \cup p.left ELSE leftOut
    /\ Goes(i, "release", pass[i])
    /\ UNCHANGED <<vars, consent, connects, alive, lease, settled, skipped, outran, failures>>

\* The lock is deleted, whoever holds it by now.
Release(i) ==
    /\ Phase(i, "release")
    /\ IF i \in Manual THEN UNCHANGED lease ELSE lease' = None
    /\ pass' = [pass EXCEPT ![i] = NoPass]
    /\ UNCHANGED <<vars, OwnerVars, PassVars, failures>>

\* The instance restarts in the middle of its pass; the lock stays behind.
Restart(i) ==
    /\ ~Phase(i, "none")
    /\ Fails
    /\ pass' = [pass EXCEPT ![i] = NoPass]
    /\ IF Running(i) THEN ConnectionLost(i) ELSE UNCHANGED vars
    /\ UNCHANGED <<OwnerVars, lease, PassVars>>

\* Mutant of Expired: the key is set without a time to live.
NeverExpired(i) == FALSE

\* MAILBOX_SYNC_LOCK_TTL_SECONDS have passed.
Expired(i) == lease = i

LockExpires(i) ==
    /\ Expired(i)
    /\ Phase(i, "none")
    /\ lease' = None
    /\ UNCHANGED <<vars, OwnerVars, pass, PassVars, failures>>

\* They have passed with its pass still running.
LockIsOutrun(i) ==
    /\ Expired(i)
    /\ ~Phase(i, "none")
    /\ Fails
    /\ lease' = None
    /\ outran' = TRUE
    /\ UNCHANGED <<vars, OwnerVars, pass, settled, leftOut, skipped>>

PassStep(i) ==
    \/ ListConnected(i) \/ WatchThreads(i)
    \/ ReadHistory(i) \/ GrantIsRevoked(i) \/ ReadThreads(i) \/ ReadCursor(i)
    \/ ApplyReply(i) \/ IngestGoesOn(i) \/ IngestEnds(i) \/ Record(i) \/ Release(i)

-----------------------------------------------------------------------------
\* The whole system.

\* Requests are mailed through the mailbox if it is connected; a dead grant is
\* recorded on the way.
MailThroughMailbox(s) ==
    /\ MailRecipients(s, Connected /\ alive)
    /\ connection' = IF Connected /\ ~alive THEN [connection EXCEPT !.status = "revoked"] ELSE connection
    /\ UNCHANGED <<consent, connects, alive, lease, pass, PassVars, failures>>

OwnerCalls(s) ==
    /\ \/ Call(s)
       \/ s \notin Syncs /\ HandlerStep(s)
    /\ UNCHANGED mailbox

NextWithMailbox ==
    \/ \E s \in Session : OwnerCalls(s) \/ MailThroughMailbox(s)
    \/ \E o \in Offer : SupplierReplies(o) /\ UNCHANGED mailbox
    \/ ReadConsent \/ SaveConsent \/ Disconnect \/ WithdrawGrant
    \/ \E i \in Syncs :
         \/ PassStarts(i) \/ SyncNow(i) \/ PassStep(i)
         \/ GrantIsUnreadable(i) \/ FetchFails(i) \/ IngestFails(i)
         \/ Restart(i) \/ LockExpires(i) \/ LockIsOutrun(i)

allVars == <<vars, mailbox>>

\* The schedule comes round and the loop of a pass goes on by itself; a key's
\* time to live passes.  Nothing is assumed of the owner and the suppliers, and
\* of what fails only that it ends some time (MaxFailures).
SomePassStarts == \E i \in Syncs : PassStarts(i)

MailboxSpec ==
    /\ InitMailbox /\ [][NextWithMailbox]_allVars
    /\ WF_allVars(SomePassStarts)
    /\ \A i \in Syncs : WF_allVars(PassStep(i)) /\ WF_allVars(LockExpires(i))

-----------------------------------------------------------------------------
\* Properties.

Cursor == IF connection = None THEN None ELSE connection.cursor

\* A reply leaves the range of the passes in these ways only: somebody ingested or
\* refused it; a pass that moved the cursor did not read it, because its message
\* could not be fetched, was over the cap of the pass or beyond the pages walked,
\* its thread was not watched yet, or it came between the threads and the cursor;
\* or it was there when the owner connected, a reconnect included.  A failing
\* ingest, a restart, an outrun lock, or a pass that records its cursor on a mailbox
\* disconnected or connected anew meanwhile never loses one.
BehindTheCursorIsSettled ==
    Cursor # None => \A m \in 1..Cursor : m \in settled \cup leftOut \cup skipped

\* Scheduled passes are one at a time unless a lock expired under a running one, although
\* a pass deletes the lock without looking whose it is.
OnePassAtATime ==
    outran \/ \A i, j \in Syncs \ Manual : i # j => Phase(i, "none") \/ Phase(j, "none")

\* s saves what it decided from an offer that was answered since it loaded it.
IsUnaware(s, o) ==
    /\ pc[s] \in {"saveReply", "saveOffers"} /\ pc'[s] # pc[s]
    /\ o \in job[s].targets /\ offer[o].repliedAt # job[s].was[o].repliedAt

\* The answer on an offer is never replaced by an older one, whatever failed and
\* was read again, but by a handler that did not know of it: isReplyAlreadyRead and
\* the saves of send and updateOffer go by the offer as it was loaded.
AnswersNeverGoBack ==
    [][\A o \in Offer :
         (/\ offer[o] # None /\ offer'[o] # None /\ offer[o].repliedAt # None
          /\ \A s \in Session : ~IsUnaware(s, o))
         => offer'[o].repliedAt # None /\ offer'[o].repliedAt >= offer[o].repliedAt]_allVars

\* What a pass needs to get at the reply m.
IsReadable(m) ==
    /\ m <= Now
    /\ Connected /\ alive
    /\ offer[inbox[m]] # None
    /\ inbox[m] \in OpenThreads

\* A reply that stays readable is settled, left out or skipped in the end, however
\* often passes fail before, even when an instance dies with the lock in its hands.
EveryReplyIsReached ==
    \A m \in Reply :
      IsReadable(m) ~> (~IsReadable(m) \/ m \in settled \cup leftOut \cup skipped)

\* Polling of a dead grant stops, if the pass has a cursor to poll from.
DeadGrantIsNoticed ==
    (Connected /\ ~alive /\ Cursor # None /\ OpenThreads # {})
      ~> (~Connected \/ alive \/ Cursor = None \/ OpenThreads = {})
=============================================================================
