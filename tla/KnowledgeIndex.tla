--------------------------- MODULE KnowledgeIndex ---------------------------
(***************************************************************************)
(* What the chatbot of a store can quote: one document per product,        *)
(* category or FAQ, marked stale in the transaction that writes its        *)
(* source, and composed and embedded later by a sweep.                     *)
(*                                                                         *)
(* A write of a source is one step with the mark its subscriber leaves.    *)
(* The awaits of a sweep and of a reconciliation are steps of their own.   *)
(* A sweep takes all the stale documents: there are never more of them     *)
(* than KNOWLEDGE_SWEEP_BATCH.  Vector search is available.                *)
(***************************************************************************)
EXTENDS Naturals, FiniteSets

CONSTANTS
    Source,        \* rows documents are composed from
    Silent,        \* the products among them: not every write of one is seen
    Text,          \* what a document of them can say
    Sweeper,       \* instances of the server
    Reconciler,    \* the nightly job and the dashboard's button
    MaxEmbedFailures,  \* MAX_INDEX_FAILURES
    MaxIndexed,    \* bounds the writes of sources
    MaxCrashes     \* bounds the restarts

ASSUME SilentAreSources == Silent \subseteq Source
ASSUME IndexBounds == {MaxEmbedFailures, MaxIndexed, MaxCrashes} \subseteq Nat

VARIABLES
    source,     \* the rows: "unborn", "shown", "hidden" or "gone", and the text
    document,   \* knowledge_documents and, in "vector", knowledge_embeddings
    sweepLock,  \* the key in Redis
    sweep,      \* what each sweeper has in memory
    reconcile,  \* what each reconciliation has in memory
    excused,    \* history: documents that may be wrong without being stale
    written,    \* writes so far
    crashes     \* restarts so far

indexVars == <<source, document, sweepLock, sweep, reconcile, excused, written, crashes>>

NoDocument == [there |-> FALSE, id |-> 0, content |-> "", stale |-> FALSE, vector |-> FALSE, failures |-> 0]
NoSweep == [phase |-> "idle"]
NoReconcile == [phase |-> "idle"]

\* Rows of a seed, which no subscriber saw, rows still to be inserted, and none.
InitIndex ==
    /\ source \in [Source -> {[state |-> state, text |-> ""] : state \in {"unborn", "gone"}}
                             \cup {[state |-> "shown", text |-> text] : text \in Text}]
    /\ document = [s \in Source |-> NoDocument]
    /\ sweepLock = FALSE
    /\ sweep = [i \in Sweeper |-> NoSweep]
    /\ reconcile = [r \in Reconciler |-> NoReconcile]
    /\ excused = {}
    /\ written = 0
    /\ crashes = 0

Shown(s) == source[s].state = "shown"
Documented == {s \in Source : document[s].there}

-----------------------------------------------------------------------------
\* The subscriber, in the transaction of the write.

New(d) == [NoDocument EXCEPT !.there = TRUE, !.id = d.id + 1, !.stale = TRUE]
Gone(d) == [NoDocument EXCEPT !.id = d.id]

\* markStale
Marked(d) == IF d.there THEN [d EXCEPT !.stale = TRUE] ELSE New(d)

Subscribed(d, state) == IF state = "hidden" THEN Gone(d) ELSE Marked(d)

\* The sweeps that have read of this source already.
Overtaking(s) ==
    [i \in Sweeper |-> IF sweep[i].phase \in {"idle", "unlock", "find"} THEN sweep[i]
                       ELSE [sweep[i] EXCEPT !.over = @ \cup {s}]]

WriteSource(s, state, text) ==
    /\ written < MaxIndexed
    /\ written' = written + 1
    /\ source' = [source EXCEPT ![s] = [state |-> state, text |-> text]]
    /\ sweep' = Overtaking(s)
    /\ UNCHANGED <<sweepLock, reconcile, crashes>>

\* An insert, or a save that changes a column of the row.
SaveSource(s) ==
    \E state \in {"shown", "hidden"}, text \in Text :
        /\ source[s].state # "gone"
        /\ source[s] # [state |-> state, text |-> text]
        /\ WriteSource(s, state, text)
        /\ document' = [document EXCEPT ![s] = Subscribed(@, state)]
        /\ excused' = excused \ {s}

\* remove() and softRemove() of an FAQ or a category
RemoveSource(s) ==
    /\ s \notin Silent
    /\ source[s].state \in {"shown", "hidden"}
    /\ WriteSource(s, "gone", "")
    /\ document' = [document EXCEPT ![s] = Gone(@)]
    /\ excused' = excused \ {s}

\* A product's softDelete and the replacement of its links pass the subscriber
\* by, and so does the renaming of a category or of a value it is linked to.
WriteAround(s) ==
    /\ s \in Silent
    /\ source[s].state \in {"shown", "hidden"}
    /\ \/ WriteSource(s, "gone", "")
       \/ \E text \in Text \ {source[s].text} : WriteSource(s, source[s].state, text)
    /\ excused' = excused \cup {s}
    /\ UNCHANGED document

-----------------------------------------------------------------------------
\* sweep() and indexPending() of a sweeper.

SweepAt(i, phase) == sweep[i].phase = phase
SweepOn(i, phase) == [sweep EXCEPT ![i].phase = phase]

\* Without the lock the finally block comes next.
TryLock(i) ==
    /\ SweepAt(i, "idle")
    /\ sweepLock' = TRUE
    /\ sweep' = SweepOn(i, IF sweepLock THEN "unlock" ELSE "find")
    /\ UNCHANGED <<source, document, reconcile, excused, written, crashes>>

Pending == {s \in Documented : document[s].stale /\ document[s].failures < MaxEmbedFailures}

\* What a sweep uses of a document: its id, and the text its vector is of.
Known(d) == [id |-> d.id, text |-> IF d.vector THEN d.content ELSE ""]

Find(i) ==
    /\ SweepAt(i, "find")
    /\ sweep' = [sweep EXCEPT ![i] =
           IF Pending = {} THEN [phase |-> "unlock"]
           ELSE [phase |-> "compose", todo |-> Pending, found |-> [s \in Pending |-> Known(document[s])],
                 text |-> [s \in Pending |-> ""], hidden |-> {}, same |-> {}, over |-> {}]]
    /\ UNCHANGED <<source, document, sweepLock, reconcile, excused, written, crashes>>

\* compose() and what the loop makes of it.
Compose(i) ==
    /\ SweepAt(i, "compose")
    /\ \E s \in sweep[i].todo :
         LET last == sweep[i].todo = {s}
             next == [sweep[i] EXCEPT !.todo = @ \ {s}, !.phase = IF last THEN "settle" ELSE "compose"]
         IN  sweep' = [sweep EXCEPT ![i] =
               IF ~Shown(s) THEN [next EXCEPT !.hidden = @ \cup {s}]
               ELSE IF sweep[i].found[s].text = source[s].text THEN [next EXCEPT !.same = @ \cup {s}]
               ELSE [next EXCEPT !.text[s] = source[s].text]]
    /\ UNCHANGED <<source, document, sweepLock, reconcile, excused, written, crashes>>

\* The documents a sweep found, as far as they are still the same rows.
Held(i, among) == {s \in among \cap Documented : document[s].id = sweep[i].found[s].id}

ToEmbed(i) == DOMAIN sweep[i].found \ (sweep[i].hidden \cup sweep[i].same)

\* The delete and the update touch different rows.
Settle(i) ==
    /\ SweepAt(i, "settle")
    /\ LET dropped == Held(i, sweep[i].hidden)
           same == Held(i, sweep[i].same)
       IN  /\ document' = [s \in Source |->
                IF s \in dropped THEN Gone(document[s])
                ELSE IF s \in same THEN [document[s] EXCEPT !.stale = FALSE, !.failures = 0]
                ELSE document[s]]
           /\ excused' = (excused \ dropped) \cup (same \cap sweep[i].over)
    /\ sweep' = SweepOn(i, IF ToEmbed(i) = {} THEN "unlock" ELSE "embed")
    /\ UNCHANGED <<source, sweepLock, reconcile, written, crashes>>

\* One call for all the texts.
Embed(i) ==
    /\ SweepAt(i, "embed")
    /\ sweep' = SweepOn(i, "store")
    /\ UNCHANGED <<source, document, sweepLock, reconcile, excused, written, crashes>>

EmbeddingFails(i) ==
    /\ SweepAt(i, "embed")
    /\ document' = [s \in Source |->
           IF s \in Held(i, ToEmbed(i)) /\ document[s].failures < MaxEmbedFailures
           THEN [document[s] EXCEPT !.failures = @ + 1] ELSE document[s]]
    /\ sweep' = SweepOn(i, "unlock")
    /\ UNCHANGED <<source, sweepLock, reconcile, excused, written, crashes>>

\* Mutant of AllHeld: a row that is gone is written again.
SomeHeld(i) == TRUE

\* Each vector refers to its document: one that is gone fails them all.
AllHeld(i) == Held(i, ToEmbed(i)) = ToEmbed(i)

Store(i) ==
    /\ SweepAt(i, "store")
    /\ IF AllHeld(i)
       THEN /\ document' = [s \in Source |->
                 IF s \in ToEmbed(i)
                 THEN [document[s] EXCEPT !.there = TRUE, !.content = sweep[i].text[s],
                                          !.stale = FALSE, !.vector = TRUE, !.failures = 0]
                 ELSE document[s]]
            /\ excused' = (excused \ ToEmbed(i)) \cup (ToEmbed(i) \cap sweep[i].over)
       ELSE UNCHANGED <<document, excused>>
    /\ sweep' = SweepOn(i, "unlock")
    /\ UNCHANGED <<source, sweepLock, reconcile, written, crashes>>

\* The lock is deleted whoever holds it.
Unlock(i) ==
    /\ SweepAt(i, "unlock")
    /\ sweepLock' = FALSE
    /\ sweep' = [sweep EXCEPT ![i] = NoSweep]
    /\ UNCHANGED <<source, document, reconcile, excused, written, crashes>>

SweepExpires ==
    /\ sweepLock
    /\ sweepLock' = FALSE
    /\ UNCHANGED <<source, document, sweep, reconcile, excused, written, crashes>>

\* The process restarts.  Its lock stays.
SweeperRestarts(i) ==
    /\ sweep[i] # NoSweep
    /\ crashes < MaxCrashes
    /\ crashes' = crashes + 1
    /\ sweep' = [sweep EXCEPT ![i] = NoSweep]
    /\ UNCHANGED <<source, document, sweepLock, reconcile, excused, written>>

-----------------------------------------------------------------------------
\* reconcile(), by the nightly job or the dashboard.

ListSources(r) ==
    /\ reconcile[r].phase = "idle"
    /\ reconcile' = [reconcile EXCEPT ![r] = [phase |-> "documents", expected |-> {s \in Source : Shown(s)}]]
    /\ UNCHANGED <<source, document, sweepLock, sweep, excused, written, crashes>>

FindDocuments(r) ==
    /\ reconcile[r].phase = "documents"
    /\ LET expected == reconcile[r].expected
       IN  reconcile' = [reconcile EXCEPT ![r] =
             [phase |-> "insert", missing |-> expected \ Documented,
              leaving |-> {<<s, document[s].id>> : s \in Documented \ expected}]]
    /\ UNCHANGED <<source, document, sweepLock, sweep, excused, written, crashes>>

\* UQ_knowledge_source lets a document be inserted once.
InsertMissing(r) ==
    /\ reconcile[r].phase = "insert"
    /\ LET missing == reconcile[r].missing
           clash == missing \cap Documented # {}
       IN  /\ document' = [s \in Source |->
                IF s \in missing /\ ~clash THEN New(document[s]) ELSE document[s]]
           /\ reconcile' = IF clash THEN [reconcile EXCEPT ![r] = NoReconcile] ELSE [reconcile EXCEPT ![r].phase = "delete"]
    /\ UNCHANGED <<source, sweepLock, sweep, excused, written, crashes>>

DeleteLeaving(r) ==
    /\ reconcile[r].phase = "delete"
    /\ LET leaving == {s \in Documented : <<s, document[s].id>> \in reconcile[r].leaving}
       IN  /\ document' = [s \in Source |-> IF s \in leaving THEN Gone(document[s]) ELSE document[s]]
           /\ excused' = excused \ leaving
    /\ reconcile' = [reconcile EXCEPT ![r].phase = "mark"]
    /\ UNCHANGED <<source, sweepLock, sweep, written, crashes>>

\* Mutant of MarkedAgain: the survivors are believed.
Believed(d) == d

MarkedAgain(d) == IF d.there THEN [d EXCEPT !.stale = TRUE] ELSE d

MarkAll(r) ==
    /\ reconcile[r].phase = "mark"
    /\ document' = [s \in Source |-> MarkedAgain(document[s])]
    /\ reconcile' = [reconcile EXCEPT ![r] = NoReconcile]
    /\ UNCHANGED <<source, sweepLock, sweep, excused, written, crashes>>

-----------------------------------------------------------------------------
SweepStep(i) ==
    \/ TryLock(i) \/ Find(i) \/ Compose(i) \/ Settle(i)
    \/ Embed(i) \/ EmbeddingFails(i) \/ Store(i) \/ Unlock(i)

ReconcileStep(r) ==
    ListSources(r) \/ FindDocuments(r) \/ InsertMissing(r) \/ DeleteLeaving(r) \/ MarkAll(r)

NextIndex ==
    \/ \E s \in Source : SaveSource(s) \/ RemoveSource(s) \/ WriteAround(s)
    \/ \E i \in Sweeper : SweepStep(i) \/ SweeperRestarts(i)
    \/ SweepExpires
    \/ \E r \in Reconciler : ReconcileStep(r)

-----------------------------------------------------------------------------
\* Properties.

GivenUp(s) == document[s].failures >= MaxEmbedFailures

FreshMeansUpToDate ==
    \A s \in Documented \ excused :
        ~document[s].stale => Shown(s) /\ document[s].content = source[s].text

HiddenIsNeverQuoted ==
    \A s \in Documented :
        document[s].vector => Shown(s) \/ (s \in Silent /\ source[s].state = "gone")

\* A document that is not marked says what its source says, unless a write
\* overtook the sweep that composed it or passed the subscriber by.  And what
\* an owner hides is out of the chatbot's reach at once and stays so, whatever
\* sweeps are on their way: only a product removed past the subscriber is still
\* found by its vector.
DocumentsTellTheTruth == FreshMeansUpToDate /\ HiddenIsNeverQuoted

\* Between them the nightly job and the sweeps get every document right in the
\* end, also after the writes that no subscriber sees and the marks a sweep
\* erased; what is given up is only given up while it is on show.
IndexCatchesUp ==
    \A s \in Source :
        <>[](IF Shown(s) THEN document[s].there /\ (document[s].content = source[s].text \/ GivenUp(s))
             ELSE ~document[s].there)
=============================================================================
