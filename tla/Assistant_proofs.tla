-------------------------- MODULE Assistant_proofs --------------------------
(***************************************************************************)
(* About the stores' assistant, for any number of documents, servers,      *)
(* customers and turns at once: a fresh document of its knowledge says     *)
(* what its source says and what is hidden is not quoted, every caller's   *)
(* window ends, a conversation stays with its customer, the model is asked *)
(* within the session's cap, a turn is recorded as its tools did, and a    *)
(* review of an unanswered question takes the whole theme it was shown     *)
(* with.  The four parts share no state.                                   *)
(***************************************************************************)
EXTENDS KnowledgeIndex, Chat, ChatTools, DemandFeed, FiniteSetTheorems, Sums_proofs

IndexSpec == InitIndex /\ [][NextIndex]_indexVars

Said == Text \cup {""}
State == {"unborn", "shown", "hidden", "gone"}
Document == [there : BOOLEAN, id : Nat, content : Said, stale : BOOLEAN, vector : BOOLEAN, failures : Nat]

\* A document of this source may have a vector.
MayBeFound(s) == Shown(s) \/ (s \in Silent /\ source[s].state = "gone")

\* A document is as true as its marks say.
DocumentOK(s) ==
    /\ ~document[s].vector => document[s].content = ""
    /\ document[s].there /\ s \notin excused /\ ~document[s].stale
         => Shown(s) /\ document[s].content = source[s].text
    /\ document[s].there /\ document[s].vector => MayBeFound(s)

\* The row that a sweep found is still there: its id is never given twice.
StillThere(r, s) == document[s].there /\ document[s].id = r.found[s].id

\* The text a sweep composed is its source's, and so was what it found, unless
\* a write overtook it; and if what it found is still there it was not hidden.
EntryOK(r, s) ==
    /\ r.found[s].id <= document[s].id
    /\ s \in r.same \ r.over => Shown(s) /\ r.found[s].text = source[s].text
    /\ s \notin r.todo \cup r.hidden \cup r.same \cup r.over => Shown(s) /\ r.text[s] = source[s].text
    /\ StillThere(r, s) /\ s \notin r.over \cup excused
         => document[s].content \in {r.found[s].text, source[s].text}
    /\ StillThere(r, s) /\ s \notin r.todo \cup r.hidden => MayBeFound(s)

Resting == {"idle", "unlock", "find"}
Working == {"compose", "settle", "embed", "store"}

SweepRow(r) ==
    /\ DOMAIN r = {"phase", "todo", "found", "text", "hidden", "same", "over"}
    /\ r.phase \in Working
    /\ r.phase # "compose" => r.todo = {}
    /\ DOMAIN r.found \subseteq Source /\ r.todo \cup r.same \subseteq DOMAIN r.found
    /\ \A s \in DOMAIN r.found : r.found[s] \in [id : Nat, text : Said]
    /\ DOMAIN r.text = DOMAIN r.found /\ \A s \in DOMAIN r.text : r.text[s] \in Said

SweepOK(i) ==
    \/ "phase" \in DOMAIN sweep[i] /\ sweep[i].phase \in Resting
    \/ SweepRow(sweep[i]) /\ \A s \in DOMAIN sweep[i].found : EntryOK(sweep[i], s)

IndexInv ==
    /\ source \in [Source -> [state : State, text : Said]]
    /\ document \in [Source -> Document]
    /\ DOMAIN sweep = Sweeper
    /\ \A s \in Source : DocumentOK(s)
    /\ \A i \in Sweeper : SweepOK(i)

-----------------------------------------------------------------------------
\* The rows of the documents.

LEMMA NewDocument ==
    ASSUME NEW d \in Document
    PROVE  /\ NoDocument \in Document /\ New(d) \in Document /\ New(d).there /\ New(d).id = d.id + 1
           /\ New(d).content = "" /\ New(d).stale /\ ~New(d).vector
<1>1. d.id + 1 \in Nat
  BY DEF Document
<1>2. NoDocument \in Document /\ NoDocument.content = "" /\ ~NoDocument.vector
  BY DEF NoDocument, Document, Said
<1>3. QED
  BY <1>1, <1>2 DEF New, Document

LEMMA GoneDocument ==
    ASSUME NEW d \in Document
    PROVE  /\ Gone(d) \in Document /\ ~Gone(d).there /\ Gone(d).id = d.id
           /\ Gone(d).content = "" /\ ~Gone(d).vector
BY DEF NoDocument, Document, Said, Gone

LEMMA MarkedDocument ==
    ASSUME NEW d \in Document
    PROVE  /\ MarkedAgain(d) \in Document /\ MarkedAgain(d).there = d.there /\ MarkedAgain(d).id = d.id
           /\ MarkedAgain(d).content = d.content /\ MarkedAgain(d).vector = d.vector
           /\ d.there => MarkedAgain(d).stale
BY DEF Document, MarkedAgain

\* What a step that writes no source may do to a document, for the sweeps that
\* found it: a row that is removed is not there again, and a text that is
\* written is the source's, or the document is excused.
DocumentMoves(s) ==
    /\ document[s].id <= document'[s].id
    /\ document'[s].there /\ document'[s].id = document[s].id => document[s].there
    /\ document'[s].there /\ document'[s].id = document[s].id /\ s \notin excused' =>
         \/ s \notin excused /\ document'[s].content = document[s].content
         \/ document'[s].content = source[s].text

\* A sweep that found what it found, and has made of it what it had.
SameSweep(i) ==
    /\ SweepRow(sweep[i]) /\ SweepRow(sweep'[i])
    /\ sweep'[i].todo = sweep[i].todo /\ sweep'[i].found = sweep[i].found
    /\ sweep'[i].text = sweep[i].text /\ sweep'[i].hidden = sweep[i].hidden
    /\ sweep'[i].same = sweep[i].same /\ sweep'[i].over = sweep[i].over

Rests(r) == "phase" \in DOMAIN r /\ r.phase \in Resting

LEMMA EntryRemains ==
    ASSUME IndexInv, NEW i \in Sweeper, SameSweep(i), NEW s \in DOMAIN sweep[i].found,
           source' = source, DocumentMoves(s), document'[s] \in Document, EntryOK(sweep[i], s)
    PROVE  EntryOK(sweep[i], s)'
<1> DEFINE r == sweep[i]
           t == sweep'[i]
<1>1. /\ t.todo = r.todo /\ t.found = r.found /\ t.text = r.text
      /\ t.hidden = r.hidden /\ t.same = r.same /\ t.over = r.over
  BY DEF SameSweep
<1>2. s \in Source /\ r.found[s].id \in Nat /\ document[s].id \in Nat /\ document'[s].id \in Nat
  BY DEF SameSweep, SweepRow, IndexInv, Document
<1>3. Shown(s)' = Shown(s) /\ MayBeFound(s)' = MayBeFound(s)
  BY DEF Shown, MayBeFound
<1>4. r.found[s].id <= document[s].id /\ document[s].id <= document'[s].id
  BY DEF EntryOK, DocumentMoves
<1>5. document'[s].there /\ document'[s].id = r.found[s].id
        => StillThere(r, s) /\ document'[s].id = document[s].id
  <2>1. document'[s].id = r.found[s].id => document'[s].id = document[s].id
    BY <1>2, <1>4
  <2>2. QED
    BY <2>1 DEF StillThere, DocumentMoves
<1>6. r.found[s].id <= document'[s].id
  BY <1>2, <1>4
<1>7. document'[s].there /\ document'[s].id = r.found[s].id /\ s \notin r.over \cup excused'
        => document'[s].content \in {r.found[s].text, source[s].text}
  BY <1>5 DEF DocumentMoves, EntryOK
<1>8. document'[s].there /\ document'[s].id = r.found[s].id /\ s \notin r.todo \cup r.hidden => MayBeFound(s)
  BY <1>5 DEF EntryOK
<1>9. /\ s \in r.same \ r.over => Shown(s) /\ r.found[s].text = source[s].text
      /\ s \notin r.todo \cup r.hidden \cup r.same \cup r.over => Shown(s) /\ r.text[s] = source[s].text
  BY DEF EntryOK
<1> HIDE DEF r, t
<1>10. /\ t.found[s].id <= document'[s].id
       /\ s \in t.same \ t.over => Shown(s)' /\ t.found[s].text = source'[s].text
       /\ s \notin t.todo \cup t.hidden \cup t.same \cup t.over => Shown(s)' /\ t.text[s] = source'[s].text
       /\ document'[s].there /\ document'[s].id = t.found[s].id /\ s \notin t.over \cup excused'
            => document'[s].content \in {t.found[s].text, source'[s].text}
       /\ document'[s].there /\ document'[s].id = t.found[s].id /\ s \notin t.todo \cup t.hidden
            => MayBeFound(s)'
  BY <1>1, <1>3, <1>6, <1>7, <1>8, <1>9
<1>11. QED
  BY <1>10 DEF EntryOK, StillThere, t

\* A step that writes no source, put together.
LEMMA StepBesideSources ==
    ASSUME IndexInv, source' = source, document' \in [Source -> Document],
           \A s \in Source : DocumentMoves(s) /\ DocumentOK(s)',
           DOMAIN sweep' = Sweeper, \A i \in Sweeper : Rests(sweep'[i]) \/ SameSweep(i)
    PROVE  IndexInv'
<1>1. ASSUME NEW i \in Sweeper PROVE SweepOK(i)'
  <2>1. CASE Rests(sweep'[i])
    BY <2>1 DEF Rests, SweepOK
  <2>2. CASE SameSweep(i)
    <3>1. \A s \in DOMAIN sweep[i].found : EntryOK(sweep[i], s)
      BY <2>2 DEF IndexInv, SweepOK, SameSweep, SweepRow, Resting, Working
    <3>2. DOMAIN sweep[i].found \subseteq Source /\ sweep'[i].found = sweep[i].found
      BY <2>2 DEF SameSweep, SweepRow
    <3>3. \A s \in DOMAIN sweep[i].found : EntryOK(sweep[i], s)'
      BY <2>2, <3>1, <3>2, EntryRemains
    <3>4. QED
      BY <2>2, <3>2, <3>3 DEF SweepOK, SameSweep
  <2>3. QED
    BY <2>1, <2>2
<1>2. QED
  BY <1>1 DEF IndexInv

-----------------------------------------------------------------------------
\* The steps of the sweeps.

\* A sweep goes on, or its lock is what it deletes next; the others rest in their places.
LEMMA SweepMoves ==
    ASSUME IndexInv, NEW i \in Sweeper, SweepRow(sweep[i]), NEW phase \in (Working \ {"compose"}) \cup Resting,
           sweep' = SweepOn(i, phase), sweep[i].phase = "compose" => sweep[i].todo = {}
    PROVE  DOMAIN sweep' = Sweeper /\ \A k \in Sweeper : Rests(sweep'[k]) \/ SameSweep(k)
<1> DEFINE r == sweep[i]
           t == [r EXCEPT !.phase = phase]
<1>1. sweep' = [sweep EXCEPT ![i] = t]
  BY DEF SweepOn
<1>2. /\ DOMAIN t = DOMAIN r /\ t.phase = phase /\ t.todo = r.todo /\ t.found = r.found
      /\ t.text = r.text /\ t.hidden = r.hidden /\ t.same = r.same /\ t.over = r.over
  BY DEF SweepRow
<1> HIDE DEF t
<1>3. DOMAIN sweep' = Sweeper /\ sweep'[i] = t /\ \A k \in Sweeper \ {i} : sweep'[k] = sweep[k]
  BY <1>1 DEF IndexInv
<1>4. ASSUME NEW k \in Sweeper \ {i} PROVE Rests(sweep'[k]) \/ SameSweep(k)
  BY <1>3 DEF IndexInv, SweepOK, Rests, SameSweep
<1>5. Rests(sweep'[i]) \/ SameSweep(i)
  <2>1. CASE phase \in Resting
    BY <1>2, <1>3, <2>1 DEF Rests, SweepRow
  <2>2. CASE phase \in Working \ {"compose"}
    <3>1. SweepRow(t)
      BY <1>2, <2>2 DEF SweepRow
    <3>2. QED
      BY <1>2, <1>3, <3>1 DEF SameSweep
  <2>3. QED
    BY <2>1, <2>2
<1>6. QED
  BY <1>3, <1>4, <1>5

\* One that rests, or is cut short, rests.
LEMMA SweepRests ==
    ASSUME IndexInv, NEW i \in Sweeper, NEW t, Rests(t), sweep' = [sweep EXCEPT ![i] = t]
    PROVE  DOMAIN sweep' = Sweeper /\ \A k \in Sweeper : Rests(sweep'[k]) \/ SameSweep(k)
<1>1. DOMAIN sweep' = Sweeper /\ sweep'[i] = t /\ \A k \in Sweeper \ {i} : sweep'[k] = sweep[k]
  BY DEF IndexInv
<1>2. ASSUME NEW k \in Sweeper \ {i} PROVE Rests(sweep'[k]) \/ SameSweep(k)
  BY <1>1 DEF IndexInv, SweepOK, Rests, SameSweep
<1>3. QED
  BY <1>1, <1>2

LEMMA SweepsRemain ==
    ASSUME IndexInv, sweep' = sweep
    PROVE  DOMAIN sweep' = Sweeper /\ \A k \in Sweeper : Rests(sweep'[k]) \/ SameSweep(k)
BY DEF IndexInv, SweepOK, Rests, SameSweep

\* A document that stays as it was, mark and excuse with it.
LEMMA DocumentRemains ==
    ASSUME IndexInv, NEW s \in Source, source' = source, document'[s] = document[s],
           s \in excused' <=> s \in excused
    PROVE  DocumentMoves(s) /\ DocumentOK(s)'
<1>1. DocumentMoves(s)
  BY DEF DocumentMoves, IndexInv, Document
<1>2. DocumentOK(s)
  BY DEF IndexInv
<1>3. QED
  BY <1>1, <1>2 DEF DocumentOK, MayBeFound, Shown

\* A document that is removed.
LEMMA DocumentGoes ==
    ASSUME IndexInv, NEW s \in Source, source' = source, document'[s] = Gone(document[s])
    PROVE  DocumentMoves(s) /\ DocumentOK(s)'
<1>1. document[s] \in Document
  BY DEF IndexInv
<1>2. document[s].id \in Nat
  BY <1>1 DEF Document
<1>3. ~document'[s].there /\ document'[s].id = document[s].id /\ document'[s].content = ""
  BY <1>1, GoneDocument
<1>4. DocumentMoves(s)
  <2>1. document'[s].id = document[s].id
    BY <1>3
  <2>2. document[s].id <= document'[s].id
    BY <1>2, <2>1
  <2>3. QED
    BY <1>3, <2>2, Zenon DEF DocumentMoves
<1>5. DocumentOK(s)'
  BY <1>3 DEF DocumentOK
<1>6. QED
  BY <1>4, <1>5

\* Steps that change no document.
LEMMA StepBesideDocuments ==
    ASSUME IndexInv, UNCHANGED <<source, document, excused>>,
           DOMAIN sweep' = Sweeper, \A i \in Sweeper : Rests(sweep'[i]) \/ SameSweep(i)
    PROVE  IndexInv'
<1>1. \A s \in Source : DocumentMoves(s) /\ DocumentOK(s)'
  BY DocumentRemains
<1>2. document' \in [Source -> Document]
  BY DEF IndexInv
<1>3. QED
  BY <1>1, <1>2, StepBesideSources

LEMMA RestingStep ==
    ASSUME IndexInv, NEW i \in Sweeper, TryLock(i) \/ Unlock(i) \/ SweeperRestarts(i)
    PROVE  IndexInv'
<1>1. CASE TryLock(i)
  <2> DEFINE phase == IF sweepLock THEN "unlock" ELSE "find"
             t == [sweep[i] EXCEPT !.phase = phase]
  <2>1. "phase" \in DOMAIN sweep[i]
    BY <1>1 DEF TryLock, SweepAt, IndexInv, SweepOK, SweepRow
  <2>2. phase \in Resting
    BY DEF Resting
  <2> HIDE DEF phase
  <2>3. Rests(t)
    BY <2>1, <2>2 DEF Rests
  <2>4. sweep' = [sweep EXCEPT ![i] = t] /\ UNCHANGED <<source, document, excused>>
    BY <1>1 DEF TryLock, SweepOn, phase
  <2> HIDE DEF t
  <2>5. QED
    BY <2>3, <2>4, SweepRests, StepBesideDocuments
<1>2. CASE Unlock(i) \/ SweeperRestarts(i)
  <2>1. Rests(NoSweep)
    BY DEF Rests, NoSweep, Resting
  <2>2. sweep' = [sweep EXCEPT ![i] = NoSweep] /\ UNCHANGED <<source, document, excused>>
    BY <1>2 DEF Unlock, SweeperRestarts
  <2>3. QED
    BY <2>1, <2>2, SweepRests, StepBesideDocuments
<1>3. QED
  BY <1>1, <1>2

\* A sweep in its work.
LEMMA AtWork ==
    ASSUME IndexInv, NEW i \in Sweeper, sweep[i].phase \in Working
    PROVE  /\ SweepRow(sweep[i]) /\ DOMAIN sweep[i].found \subseteq Source
           /\ \A s \in DOMAIN sweep[i].found : EntryOK(sweep[i], s)
BY DEF IndexInv, SweepOK, SweepRow, Working, Resting

LEMMA EmbedStep ==
    ASSUME IndexInv, NEW i \in Sweeper, Embed(i)
    PROVE  IndexInv'
<1>1. sweep[i].phase = "embed" /\ sweep' = SweepOn(i, "store") /\ UNCHANGED <<source, document, excused>>
  BY DEF Embed, SweepAt
<1>2. SweepRow(sweep[i]) /\ "store" \in (Working \ {"compose"}) \cup Resting
  BY <1>1, AtWork DEF Working
<1>3. QED
  BY <1>1, <1>2, SweepMoves, StepBesideDocuments

LEMMA EmbeddingFailsStep ==
    ASSUME IndexInv, NEW i \in Sweeper, EmbeddingFails(i)
    PROVE  IndexInv'
<1>1. sweep[i].phase = "embed" /\ sweep' = SweepOn(i, "unlock") /\ UNCHANGED <<source, excused>>
  BY DEF EmbeddingFails, SweepAt
<1>2. SweepRow(sweep[i]) /\ "unlock" \in (Working \ {"compose"}) \cup Resting
  BY <1>1, AtWork DEF Working, Resting
<1>3. DOMAIN sweep' = Sweeper /\ \A k \in Sweeper : Rests(sweep'[k]) \/ SameSweep(k)
  BY <1>1, <1>2, SweepMoves
<1>4. DOMAIN document' = Source
  BY DEF EmbeddingFails
<1>5. ASSUME NEW s \in Source PROVE document'[s] \in Document /\ DocumentMoves(s) /\ DocumentOK(s)'
  <2>1. document[s] \in Document
    BY DEF IndexInv
  <2>2. \/ document'[s] = document[s]
        \/ document'[s] = [document[s] EXCEPT !.failures = @ + 1]
    BY DEF EmbeddingFails
  <2>3. CASE document'[s] = document[s]
    BY <1>1, <2>1, <2>3, DocumentRemains
  <2>4. CASE document'[s] = [document[s] EXCEPT !.failures = @ + 1]
    <3>1. document[s].failures \in Nat
      BY <2>1 DEF Document
    <3>2. /\ document'[s] \in Document /\ document'[s].there = document[s].there
          /\ document'[s].id = document[s].id /\ document'[s].content = document[s].content
          /\ document'[s].stale = document[s].stale /\ document'[s].vector = document[s].vector
      BY <2>1, <2>4, <3>1 DEF Document
    <3>3. DocumentOK(s) /\ document[s].id \in Nat
      BY <2>1 DEF IndexInv, Document
    <3>4. DocumentMoves(s)
      BY <1>1, <3>2, <3>3 DEF DocumentMoves
    <3>5. DocumentOK(s)'
      BY <1>1, <3>2, <3>3 DEF DocumentOK, MayBeFound, Shown
    <3>6. QED
      BY <3>2, <3>4, <3>5
  <2>5. QED
    BY <2>2, <2>3, <2>4
<1>6. document' \in [Source -> Document]
  <2>1. document' = [s \in Source |-> document'[s]]
    BY DEF EmbeddingFails
  <2>2. QED
    BY <1>5, <2>1
<1>7. QED
  BY <1>1, <1>3, <1>5, <1>6, StepBesideSources

LEMMA FoundRow ==
    ASSUME NEW row, NEW n \in Nat, NEW x \in Said, row = [id |-> n, text |-> x]
    PROVE  row \in [id : Nat, text : Said] /\ row.id = n /\ row.text = x
OBVIOUS

\* The text of a vector is the document's: without one it has none.
LEMMA KnownDocument ==
    ASSUME NEW d \in Document, ~d.vector => d.content = ""
    PROVE  Known(d) \in [id : Nat, text : Said] /\ Known(d).id = d.id /\ Known(d).text = d.content
<1>1. d.id \in Nat /\ d.content \in Said
  BY DEF Document
<1>2. Known(d) = [id |-> d.id, text |-> d.content]
  BY Zenon DEF Known
<1>3. QED
  BY <1>1, <1>2, FoundRow

LEMMA FindStep ==
    ASSUME IndexInv, NEW i \in Sweeper, Find(i)
    PROVE  IndexInv'
<1> DEFINE found == [s \in Pending |-> Known(document[s])]
           blank == [s \in Pending |-> ""]
           t == [phase |-> "compose", todo |-> Pending, found |-> found,
                 text |-> blank, hidden |-> {}, same |-> {}, over |-> {}]
<1>1. UNCHANGED <<source, document, excused>>
  BY DEF Find
<1>2. CASE Pending = {}
  <2> DEFINE u == [phase |-> "unlock"]
  <2>1. Rests(u)
    BY DEF Rests, Resting
  <2>2. sweep' = [sweep EXCEPT ![i] = u]
    BY <1>2 DEF Find
  <2> HIDE DEF u
  <2>3. QED
    BY <1>1, <2>1, <2>2, SweepRests, StepBesideDocuments
<1>3. CASE Pending # {}
  <2>1. sweep' = [sweep EXCEPT ![i] = t]
    BY <1>3 DEF Find
  <2>2. /\ DOMAIN t = {"phase", "todo", "found", "text", "hidden", "same", "over"}
        /\ t.phase = "compose" /\ t.todo = Pending /\ t.found = found /\ t.text = blank
        /\ t.hidden = {} /\ t.same = {} /\ t.over = {}
    OBVIOUS
  <2>3. /\ Pending \subseteq Source /\ DOMAIN found = Pending /\ DOMAIN blank = Pending
        /\ \A s \in Pending : found[s] = Known(document[s]) /\ blank[s] = ""
    BY DEF Pending, Documented
  <2> HIDE DEF found, blank, t
  <2>4. ASSUME NEW s \in Pending
        PROVE  found[s] \in [id : Nat, text : Said] /\ found[s].id = document[s].id
               /\ found[s].text = document[s].content
    <3>1. document[s] \in Document /\ DocumentOK(s)
      BY <2>3 DEF IndexInv
    <3>2. ~document[s].vector => document[s].content = ""
      BY <3>1 DEF DocumentOK
    <3>3. QED
      BY <2>3, <3>1, <3>2, KnownDocument
  <2>5. SweepRow(t)
    BY <2>2, <2>3, <2>4 DEF SweepRow, Working, Said
  <2>6. DOMAIN sweep' = Sweeper /\ sweep'[i] = t /\ \A k \in Sweeper \ {i} : sweep'[k] = sweep[k]
    BY <2>1 DEF IndexInv
  <2>7. ASSUME NEW s \in Pending PROVE EntryOK(sweep[i], s)'
    <3>1. document[s].id \in Nat
      BY <2>3 DEF IndexInv, Document
    <3>2. t.found[s].id = document'[s].id /\ t.found[s].text = document'[s].content /\ document'[s].id \in Nat
      BY <1>1, <2>2, <2>4, <3>1
    <3>3. s \in t.todo /\ t.same = {}
      BY <2>2
    <3>4. QED
      BY <2>6, <3>2, <3>3 DEF EntryOK
  <2>8. SweepOK(i)'
    BY <2>2, <2>3, <2>5, <2>6, <2>7 DEF SweepOK
  <2>9. ASSUME NEW k \in Sweeper \ {i} PROVE SweepOK(k)'
    BY <1>1, <2>6 DEF IndexInv, SweepOK, EntryOK, StillThere, MayBeFound, Shown
  <2>10. \A s \in Source : DocumentOK(s)'
    BY <1>1 DEF IndexInv, DocumentOK, MayBeFound, Shown
  <2>11. QED
    BY <1>1, <2>6, <2>8, <2>9, <2>10 DEF IndexInv
<1>4. QED
  BY <1>2, <1>3

\* What is composed is what the source says by then.
LEMMA ComposeStep ==
    ASSUME IndexInv, NEW i \in Sweeper, Compose(i)
    PROVE  IndexInv'
<1> DEFINE r == sweep[i]
           t == sweep'[i]
<1>1. PICK s \in r.todo :
        LET last == r.todo = {s}
            next == [r EXCEPT !.todo = @ \ {s}, !.phase = IF last THEN "settle" ELSE "compose"]
        IN  sweep' = [sweep EXCEPT ![i] =
              IF ~Shown(s) THEN [next EXCEPT !.hidden = @ \cup {s}]
              ELSE IF r.found[s].text = source[s].text THEN [next EXCEPT !.same = @ \cup {s}]
              ELSE [next EXCEPT !.text[s] = source[s].text]]
  BY DEF Compose
<1> DEFINE phase == IF r.todo = {s} THEN "settle" ELSE "compose"
           next == [r EXCEPT !.todo = @ \ {s}, !.phase = phase]
           made == IF ~Shown(s) THEN [next EXCEPT !.hidden = @ \cup {s}]
                   ELSE IF r.found[s].text = source[s].text THEN [next EXCEPT !.same = @ \cup {s}]
                   ELSE [next EXCEPT !.text[s] = source[s].text]
<1>2. UNCHANGED <<source, document, excused>> /\ r.phase = "compose"
  BY DEF Compose, SweepAt
<1>3. SweepRow(r) /\ \A u \in DOMAIN r.found : EntryOK(r, u)
  BY <1>2, AtWork DEF Working
<1>4. /\ DOMAIN next = DOMAIN r /\ next.todo = r.todo \ {s} /\ next.phase = phase
      /\ next.found = r.found /\ next.text = r.text /\ next.hidden = r.hidden
      /\ next.same = r.same /\ next.over = r.over
  BY <1>3 DEF SweepRow
<1>5. phase \in {"settle", "compose"} /\ (phase = "settle" => r.todo = {s})
  OBVIOUS
<1>6. sweep' = [sweep EXCEPT ![i] = made]
  BY <1>1
<1> HIDE DEF next, phase
<1>7. /\ DOMAIN made = DOMAIN r /\ made.phase = phase /\ made.todo = r.todo \ {s}
      /\ made.found = r.found /\ made.over = r.over
      /\ \/ ~Shown(s) /\ made.hidden = r.hidden \cup {s} /\ made.same = r.same /\ made.text = r.text
         \/ /\ Shown(s) /\ r.found[s].text = source[s].text
            /\ made.hidden = r.hidden /\ made.same = r.same \cup {s} /\ made.text = r.text
         \/ /\ Shown(s) /\ made.hidden = r.hidden /\ made.same = r.same
            /\ made.text = [r.text EXCEPT ![s] = source[s].text]
  BY <1>3, <1>4 DEF SweepRow
<1> HIDE DEF made
<1>8. DOMAIN sweep' = Sweeper /\ t = made /\ \A k \in Sweeper \ {i} : sweep'[k] = sweep[k]
  BY <1>6 DEF IndexInv
<1>9. /\ DOMAIN made.text = DOMAIN r.text
      /\ \A u \in DOMAIN r.text \ {s} : made.text[u] = r.text[u]
      /\ s \in DOMAIN r.text => made.text[s] \in {r.text[s], source[s].text}
  BY <1>7
<1>10. SweepRow(made)
  <2>1. phase \in Working /\ (phase # "compose" => made.todo = {})
    BY <1>5, <1>7 DEF Working
  <2>2. ASSUME NEW u \in DOMAIN made.text PROVE made.text[u] \in Said
    <3>1. u \in DOMAIN r.text /\ r.text[u] \in Said /\ u \in Source
      BY <1>3, <1>9, <2>2 DEF SweepRow
    <3>2. source[u].text \in Said
      BY <3>1 DEF IndexInv
    <3>3. QED
      BY <1>9, <3>1, <3>2
  <2>3. QED
    BY <1>3, <1>7, <1>9, <2>1, <2>2 DEF SweepRow
<1>11. ASSUME NEW u \in DOMAIN r.found PROVE EntryOK(sweep[i], u)'
  <2>1. EntryOK(r, u) /\ made.found[u] = r.found[u] /\ u \in DOMAIN r.text
    BY <1>3, <1>7 DEF SweepRow
  <2>2. /\ Shown(u)' = Shown(u) /\ MayBeFound(u)' = MayBeFound(u)
        /\ source'[u] = source[u] /\ document'[u] = document[u] /\ excused' = excused
    BY <1>2 DEF Shown, MayBeFound
  <2>3. Shown(u) => MayBeFound(u)
    BY DEF MayBeFound
  <2> HIDE DEF r, t
  <2>4. CASE u # s
    <3>1. /\ made.text[u] = r.text[u] /\ (u \in made.todo <=> u \in r.todo)
          /\ (u \in made.hidden <=> u \in r.hidden) /\ (u \in made.same <=> u \in r.same)
          /\ (u \in made.over <=> u \in r.over)
      BY <1>7, <1>9, <2>1, <2>4
    <3>2. QED
      BY <1>8, <2>1, <2>2, <3>1 DEF EntryOK, StillThere, t
  <2>5. CASE u = s
    <3>1. /\ u \in made.same \ made.over => Shown(u) /\ r.found[u].text = source[u].text
          /\ u \notin made.todo \cup made.hidden \cup made.same => Shown(u) /\ made.text[u] = source[u].text
          /\ u \notin made.hidden => Shown(u)
          /\ made.over = r.over
      BY <1>7, <2>1, <2>5 DEF EntryOK
    <3>2. QED
      BY <1>8, <2>1, <2>2, <2>3, <3>1 DEF EntryOK, StillThere, t
  <2>6. QED
    BY <2>4, <2>5
<1>12. SweepOK(i)'
  BY <1>7, <1>8, <1>10, <1>11 DEF SweepOK
<1>13. ASSUME NEW k \in Sweeper \ {i} PROVE SweepOK(k)'
  BY <1>2, <1>8 DEF IndexInv, SweepOK, EntryOK, StillThere, MayBeFound, Shown
<1>14. \A u \in Source : DocumentOK(u)'
  BY <1>2 DEF IndexInv, DocumentOK, MayBeFound, Shown
<1>15. QED
  BY <1>2, <1>8, <1>12, <1>13, <1>14 DEF IndexInv

LEMMA SettledDocument ==
    ASSUME NEW d \in Document, NEW e, e = [d EXCEPT !.stale = FALSE, !.failures = 0]
    PROVE  /\ e \in Document /\ e.there = d.there /\ e.id = d.id
           /\ e.content = d.content /\ e.vector = d.vector
BY DEF Document

\* An unmarked document of a sweep that nothing overtook says what it did when
\* the sweep found it, and so what its source says; and the hidden ones go.
LEMMA SettleStep ==
    ASSUME IndexInv, NEW i \in Sweeper, Settle(i)
    PROVE  IndexInv'
<1> DEFINE r == sweep[i]
           dropped == Held(i, r.hidden)
           same == Held(i, r.same)
           phase == IF ToEmbed(i) = {} THEN "unlock" ELSE "embed"
<1>1. /\ r.phase = "settle" /\ source' = source /\ sweep' = SweepOn(i, phase)
      /\ excused' = (excused \ dropped) \cup (same \cap r.over)
      /\ document' = [s \in Source |->
           IF s \in dropped THEN Gone(document[s])
           ELSE IF s \in same THEN [document[s] EXCEPT !.stale = FALSE, !.failures = 0]
           ELSE document[s]]
  BY DEF Settle, SweepAt
<1>2. SweepRow(r) /\ \A u \in DOMAIN r.found : EntryOK(r, u)
  BY <1>1, AtWork DEF Working
<1>3. phase \in (Working \ {"compose"}) \cup Resting
  BY DEF Working, Resting
<1>4. /\ \A s \in dropped : s \in Documented
      /\ \A s \in same : s \in r.same /\ StillThere(r, s)
  BY DEF Held, StillThere, Documented
<1> HIDE DEF phase, dropped, same
<1>5. DOMAIN sweep' = Sweeper /\ \A k \in Sweeper : Rests(sweep'[k]) \/ SameSweep(k)
  BY <1>1, <1>2, <1>3, SweepMoves
<1>6. ASSUME NEW s \in Source PROVE document'[s] \in Document /\ DocumentMoves(s) /\ DocumentOK(s)'
  <2>1. document[s] \in Document /\ DocumentOK(s)
    BY DEF IndexInv
  <2>2. CASE s \in dropped
    <3>1. document'[s] = Gone(document[s])
      BY <1>1, <2>2
    <3>2. QED
      BY <1>1, <2>1, <3>1, DocumentGoes, GoneDocument
  <2>3. CASE s \in same /\ s \notin dropped
    <3>1. document'[s] = [document[s] EXCEPT !.stale = FALSE, !.failures = 0]
      BY <1>1, <2>3
    <3>2. /\ document'[s] \in Document /\ document'[s].there = document[s].there
          /\ document'[s].id = document[s].id /\ document'[s].content = document[s].content
          /\ document'[s].vector = document[s].vector
      BY <2>1, <3>1, SettledDocument
    <3>3. document[s].id \in Nat
      BY <2>1 DEF Document
    <3>4. s \in excused \/ s \in r.over => s \in excused'
      BY <1>1, <2>3
    <3>5. s \in r.same /\ StillThere(r, s) /\ EntryOK(r, s)
      BY <1>2, <1>4, <2>3 DEF SweepRow
    <3>6. s \notin excused' => Shown(s) /\ document[s].content = source[s].text
      BY <3>4, <3>5 DEF EntryOK
    <3>7. DocumentMoves(s)
      BY <3>2, <3>3, <3>4 DEF DocumentMoves
    <3>8. DocumentOK(s)'
      BY <1>1, <2>1, <3>2, <3>6 DEF DocumentOK, MayBeFound, Shown
    <3>9. QED
      BY <3>2, <3>7, <3>8
  <2>4. CASE s \notin dropped /\ s \notin same
    <3>1. document'[s] = document[s] /\ (s \in excused' <=> s \in excused)
      BY <1>1, <2>4
    <3>2. QED
      BY <1>1, <2>1, <3>1, DocumentRemains
  <2>5. QED
    BY <2>2, <2>3, <2>4
<1>7. document' \in [Source -> Document]
  <2>1. document' = [s \in Source |-> document'[s]]
    BY <1>1
  <2>2. QED
    BY <1>6, <2>1
<1>8. QED
  BY <1>1, <1>5, <1>6, <1>7, StepBesideSources

\* What is stored is what the sweep composed, in the rows it found.
LEMMA StoreStep ==
    ASSUME IndexInv, NEW i \in Sweeper, Store(i)
    PROVE  IndexInv'
<1> DEFINE r == sweep[i]
           texts == ToEmbed(i)
           stored(s) == [document[s] EXCEPT !.there = TRUE, !.content = r.text[s],
                                            !.stale = FALSE, !.vector = TRUE, !.failures = 0]
<1>1. /\ r.phase = "store" /\ source' = source /\ sweep' = SweepOn(i, "unlock")
  BY DEF Store, SweepAt
<1>2. SweepRow(r) /\ \A u \in DOMAIN r.found : EntryOK(r, u)
  BY <1>1, AtWork DEF Working
<1>3. DOMAIN sweep' = Sweeper /\ \A k \in Sweeper : Rests(sweep'[k]) \/ SameSweep(k)
  <2>1. "unlock" \in (Working \ {"compose"}) \cup Resting
    BY DEF Resting
  <2>2. QED
    BY <1>1, <1>2, <2>1, SweepMoves
<1>4. CASE ~AllHeld(i)
  <2>1. UNCHANGED <<source, document, excused>>
    BY <1>1, <1>4 DEF Store
  <2>2. QED
    BY <1>3, <2>1, StepBesideDocuments
<1>5. CASE AllHeld(i)
  <2>1. /\ document' = [s \in Source |-> IF s \in texts THEN stored(s) ELSE document[s]]
        /\ excused' = (excused \ texts) \cup (texts \cap r.over)
    BY <1>5 DEF Store
  <2>2. \A s \in texts : /\ s \in DOMAIN r.found /\ s \notin r.hidden \cup r.same
                         /\ StillThere(r, s)
    BY <1>5 DEF ToEmbed, AllHeld, Held, StillThere, Documented
  <2> HIDE DEF texts
  <2>3. ASSUME NEW s \in Source PROVE document'[s] \in Document /\ DocumentMoves(s) /\ DocumentOK(s)'
    <3>1. document[s] \in Document /\ DocumentOK(s)
      BY DEF IndexInv
    <3>2. CASE s \in texts
      <4>1. document'[s] = stored(s)
        BY <2>1, <3>2
      <4>2. /\ r.text[s] \in Said /\ EntryOK(r, s) /\ s \notin r.todo \cup r.hidden \cup r.same
            /\ StillThere(r, s)
        BY <1>1, <1>2, <2>2, <3>2 DEF SweepRow
      <4>3. /\ document'[s] \in Document /\ document'[s].there /\ document'[s].vector
            /\ document'[s].id = document[s].id /\ document'[s].content = r.text[s]
        <5> DEFINE text == r.text[s]
                   d == document[s]
                   e == document'[s]
        <5>1. e = [d EXCEPT !.there = TRUE, !.content = text, !.stale = FALSE, !.vector = TRUE, !.failures = 0]
          BY <4>1
        <5>2. d \in Document /\ text \in Said
          BY <3>1, <4>2
        <5> HIDE DEF text, d, e
        <5>3. e \in Document /\ e.there /\ e.vector /\ e.id = d.id /\ e.content = text
          BY <5>1, <5>2 DEF Document
        <5>4. QED
          BY <5>3 DEF text, d, e
      <4>4. s \in r.over => s \in excused'
        BY <2>1, <3>2
      <4>5. s \notin excused' => Shown(s) /\ r.text[s] = source[s].text
        BY <4>2, <4>4 DEF EntryOK
      <4>6. document[s].id \in Nat
        BY <3>1 DEF Document
      <4>7. DocumentMoves(s)
        BY <4>2, <4>3, <4>5, <4>6 DEF DocumentMoves, StillThere
      <4>8. MayBeFound(s)
        BY <4>2 DEF EntryOK
      <4>9. DocumentOK(s)'
        BY <1>1, <4>3, <4>5, <4>8 DEF DocumentOK, MayBeFound, Shown
      <4>10. QED
        BY <4>3, <4>7, <4>9
    <3>3. CASE s \notin texts
      <4>1. document'[s] = document[s] /\ (s \in excused' <=> s \in excused)
        BY <2>1, <3>3
      <4>2. QED
        BY <1>1, <3>1, <4>1, DocumentRemains
    <3>4. QED
      BY <3>2, <3>3
  <2>4. document' \in [Source -> Document]
    <3>1. document' = [s \in Source |-> document'[s]]
      BY <2>1
    <3>2. QED
      BY <2>3, <3>1
  <2>5. QED
    BY <1>1, <1>3, <2>3, <2>4, StepBesideSources
<1>6. QED
  BY <1>4, <1>5

-----------------------------------------------------------------------------
\* The steps of the sources and of the reconciliations.

\* A write of a source, as the sweeps that had read of it see it.
LEMMA WriteStep ==
    ASSUME IndexInv, NEW s \in Source, NEW state \in State, NEW text \in Said,
           WriteSource(s, state, text), document' \in [Source -> Document], DocumentOK(s)',
           \A u \in Source \ {s} : document'[u] = document[u] /\ (u \in excused' <=> u \in excused),
           document[s].id <= document'[s].id,
           document'[s].there /\ document'[s].id = document[s].id
             => document[s].there /\ (MayBeFound(s) => MayBeFound(s)')
    PROVE  IndexInv'
<1>1. source' = [source EXCEPT ![s] = [state |-> state, text |-> text]] /\ sweep' = Overtaking(s)
  BY DEF WriteSource
<1>2. source' \in [Source -> [state : State, text : Said]] /\ \A u \in Source \ {s} : source'[u] = source[u]
  BY <1>1 DEF IndexInv
<1>3. ASSUME NEW u \in Source PROVE DocumentOK(u)'
  <2>1. CASE u = s
    BY <2>1
  <2>2. CASE u # s
    BY <1>2, <2>2 DEF IndexInv, DocumentOK, MayBeFound, Shown
  <2>3. QED
    BY <2>1, <2>2
<1>4. ASSUME NEW i \in Sweeper PROVE SweepOK(i)'
  <2> DEFINE r == sweep[i]
             t == sweep'[i]
  <2>1. CASE r.phase \in Resting /\ "phase" \in DOMAIN r
    <3>1. t = r
      BY <1>1, <2>1 DEF Overtaking, Resting
    <3>2. QED
      BY <2>1, <3>1 DEF SweepOK
  <2>2. CASE SweepRow(r) /\ \A u \in DOMAIN r.found : EntryOK(r, u)
    <3>1. t = [r EXCEPT !.over = @ \cup {s}]
      BY <1>1, <2>2 DEF Overtaking, SweepRow, Working
    <3>2. /\ DOMAIN t = DOMAIN r /\ t.phase = r.phase /\ t.todo = r.todo /\ t.found = r.found
          /\ t.text = r.text /\ t.hidden = r.hidden /\ t.same = r.same /\ t.over = r.over \cup {s}
      BY <2>2, <3>1 DEF SweepRow
    <3> HIDE DEF r, t
    <3>3. SweepRow(t)
      BY <2>2, <3>2 DEF SweepRow
    <3>4. ASSUME NEW u \in DOMAIN r.found, u # s PROVE EntryOK(sweep[i], u)'
      <4>1. u \in Source /\ EntryOK(r, u) /\ (u \in t.over <=> u \in r.over)
        BY <2>2, <3>2, <3>4 DEF SweepRow
      <4>2. /\ source'[u] = source[u] /\ document'[u] = document[u] /\ (u \in excused' <=> u \in excused)
            /\ Shown(u)' = Shown(u) /\ MayBeFound(u)' = MayBeFound(u)
        BY <1>2, <3>4, <4>1 DEF Shown, MayBeFound
      <4>3. QED
        BY <3>2, <4>1, <4>2 DEF EntryOK, StillThere, t
    <3>5. ASSUME s \in DOMAIN r.found PROVE EntryOK(sweep[i], s)'
      <4>1. /\ EntryOK(r, s) /\ r.found[s].id \in Nat /\ document[s].id \in Nat /\ document'[s].id \in Nat
        BY <2>2, <3>5 DEF SweepRow, IndexInv, Document
      <4>2. r.found[s].id <= document[s].id
        BY <4>1 DEF EntryOK
      <4>3. r.found[s].id <= document'[s].id
        BY <4>1, <4>2
      <4>4. document'[s].id = r.found[s].id => document'[s].id = document[s].id
        BY <4>1, <4>2
      <4>5. document'[s].there /\ document'[s].id = r.found[s].id /\ s \notin r.todo \cup r.hidden => MayBeFound(s)'
        BY <4>1, <4>4 DEF EntryOK, StillThere
      <4>6. s \in t.over
        BY <3>2
      <4>7. QED
        BY <3>2, <4>3, <4>5, <4>6 DEF EntryOK, StillThere, t
    <3>6. \A u \in DOMAIN t.found : EntryOK(sweep[i], u)'
      BY <3>2, <3>4, <3>5
    <3>7. QED
      BY <3>3, <3>6 DEF SweepOK, t
  <2>3. QED
    BY <2>1, <2>2 DEF IndexInv, SweepOK
<1>5. DOMAIN sweep' = Sweeper
  BY <1>1 DEF Overtaking
<1>6. QED
  BY <1>2, <1>3, <1>4, <1>5 DEF IndexInv

LEMMA SaveSourceStep ==
    ASSUME IndexInv, NEW s \in Source, SaveSource(s)
    PROVE  IndexInv'
<1>1. PICK state \in {"shown", "hidden"}, text \in Text :
        /\ WriteSource(s, state, text)
        /\ document' = [document EXCEPT ![s] = Subscribed(@, state)]
        /\ excused' = excused \ {s}
  BY DEF SaveSource
<1> DEFINE d == document[s]
           e == document'[s]
<1>2. d \in Document /\ DocumentOK(s)
  BY DEF IndexInv
<1>3. e = Subscribed(d, state) /\ \A u \in Source \ {s} : document'[u] = document[u]
  BY <1>1 DEF IndexInv
<1>4. source'[s].state = state
  BY <1>1 DEF WriteSource, IndexInv
<1>5. d.id \in Nat /\ d.there \in BOOLEAN
  BY <1>2 DEF Document
<1>6. \/ e = Gone(d)
      \/ e = MarkedAgain(d) /\ d.there /\ state = "shown"
      \/ e = New(d) /\ state = "shown"
  BY <1>1, <1>3 DEF Subscribed, Marked, MarkedAgain
<1> HIDE DEF d, e
<1>7. e \in Document /\ d.id <= e.id /\ (e.there /\ e.id = d.id => d.there /\ state = "shown")
  <2>1. CASE e = Gone(d)
    <3>1. e \in Document /\ ~e.there /\ e.id = d.id
      BY <1>2, <2>1, GoneDocument DEF d
    <3>2. d.id <= e.id
      BY <1>5, <3>1
    <3>3. QED
      BY <3>1, <3>2
  <2>2. CASE e = MarkedAgain(d) /\ d.there /\ state = "shown"
    <3>1. e \in Document /\ e.id = d.id
      BY <1>2, <2>2, MarkedDocument DEF d
    <3>2. d.id <= e.id
      BY <1>5, <3>1
    <3>3. QED
      BY <2>2, <3>1, <3>2
  <2>3. CASE e = New(d) /\ state = "shown"
    <3>1. e \in Document /\ e.id = d.id + 1
      BY <1>2, <2>3, NewDocument DEF d
    <3>2. d.id <= e.id /\ e.id # d.id
      BY <1>5, <3>1
    <3>3. QED
      BY <3>1, <3>2
  <2>4. QED
    BY <1>6, <2>1, <2>2, <2>3
<1>8. DocumentOK(s)'
  <2>1. d \in Document /\ (~d.vector => d.content = "")
    BY <1>2 DEF d, DocumentOK
  <2>2. CASE e = Gone(d)
    <3>1. ~e.there /\ e.content = ""
      BY <2>1, <2>2, GoneDocument
    <3>2. QED
      BY <3>1 DEF DocumentOK, e
  <2>3. CASE e = MarkedAgain(d) /\ d.there /\ state = "shown"
    <3>1. e.stale /\ (~e.vector => e.content = "")
      BY <2>1, <2>3, MarkedDocument
    <3>2. QED
      BY <1>4, <2>3, <3>1 DEF DocumentOK, e, MayBeFound, Shown
  <2>4. CASE e = New(d) /\ state = "shown"
    <3>1. e.stale /\ e.content = ""
      BY <2>1, <2>4, NewDocument
    <3>2. QED
      BY <1>4, <2>4, <3>1 DEF DocumentOK, e, MayBeFound, Shown
  <2>5. QED
    BY <1>6, <2>2, <2>3, <2>4
<1>9. document' \in [Source -> Document]
  BY <1>1, <1>3, <1>7 DEF IndexInv, e
<1>10. /\ \A u \in Source \ {s} : u \in excused' <=> u \in excused
       /\ state \in State /\ text \in Said
  BY <1>1 DEF State, Said
<1>11. state = "shown" => MayBeFound(s)'
  BY <1>4 DEF MayBeFound, Shown
<1>12. QED
  BY <1>1, <1>3, <1>7, <1>8, <1>9, <1>10, <1>11, WriteStep DEF d, e

LEMMA RemoveSourceStep ==
    ASSUME IndexInv, NEW s \in Source, RemoveSource(s)
    PROVE  IndexInv'
<1>1. /\ WriteSource(s, "gone", "")
      /\ document' = [document EXCEPT ![s] = Gone(@)] /\ excused' = excused \ {s}
  BY DEF RemoveSource
<1>2. document[s] \in Document /\ document[s].id \in Nat
  BY DEF IndexInv, Document
<1>3. document'[s] = Gone(document[s]) /\ \A u \in Source \ {s} : document'[u] = document[u]
  BY <1>1 DEF IndexInv
<1>4. /\ document'[s] \in Document /\ ~document'[s].there
      /\ document'[s].content = ""
  BY <1>2, <1>3, GoneDocument
<1>5. document'[s].id = document[s].id
  BY <1>2, <1>3, GoneDocument
<1>6. document[s].id <= document'[s].id
  BY <1>2, <1>5
<1>7. DocumentOK(s)'
  BY <1>4 DEF DocumentOK
<1>8. document' \in [Source -> Document]
  BY <1>1, <1>3, <1>4 DEF IndexInv
<1>9. /\ \A u \in Source \ {s} : u \in excused' <=> u \in excused
      /\ "gone" \in State /\ "" \in Said
  BY <1>1 DEF State, Said
<1>10. QED
  BY <1>1, <1>3, <1>4, <1>6, <1>7, <1>8, <1>9, WriteStep

\* A write that no subscriber sees excuses the document; what was on show may be
\* found still, or is removed.
LEMMA WriteAroundStep ==
    ASSUME IndexInv, NEW s \in Source, WriteAround(s)
    PROVE  IndexInv'
<1>1. PICK state \in {source[s].state, "gone"}, text \in Said :
        WriteSource(s, state, text) /\ source[s].state \in {"shown", "hidden"}
  BY DEF WriteAround, Said
<1>2. s \in Silent /\ document' = document /\ excused' = excused \cup {s}
  BY DEF WriteAround
<1>3. source'[s].state = state
  BY <1>1 DEF WriteSource, IndexInv
<1>4. MayBeFound(s) => MayBeFound(s)'
  BY <1>1, <1>2, <1>3 DEF MayBeFound, Shown
<1>5. DocumentOK(s)'
  BY <1>2, <1>4 DEF IndexInv, DocumentOK
<1>6. document[s].id \in Nat /\ document' \in [Source -> Document]
  BY <1>2 DEF IndexInv, Document
<1>7. /\ \A u \in Source \ {s} : u \in excused' <=> u \in excused
      /\ state \in State
  BY <1>1, <1>2 DEF State
<1>8. document[s].id <= document'[s].id
  BY <1>2, <1>6
<1>9. QED
  BY <1>1, <1>2, <1>4, <1>5, <1>6, <1>7, <1>8, WriteStep

\* A reconciliation only inserts what is not there, removes and marks.
LEMMA ReconcileChanges ==
    ASSUME IndexInv, source' = source, sweep' = sweep, DOMAIN document' = Source,
           document' = [s \in Source |-> document'[s]],
           \A s \in Source :
             \/ document'[s] = document[s] /\ (s \in excused' <=> s \in excused)
             \/ document'[s] = Gone(document[s])
             \/ document'[s] = New(document[s]) /\ ~document[s].there
             \/ document'[s] = MarkedAgain(document[s]) /\ (s \in excused' <=> s \in excused)
    PROVE  IndexInv'
<1>1. ASSUME NEW s \in Source PROVE document'[s] \in Document /\ DocumentMoves(s) /\ DocumentOK(s)'
  <2>1. document[s] \in Document /\ DocumentOK(s)
    BY DEF IndexInv
  <2>2. document[s].id \in Nat
    BY <2>1 DEF Document
  <2>3. CASE document'[s] = document[s] /\ (s \in excused' <=> s \in excused)
    BY <2>1, <2>3, DocumentRemains
  <2>4. CASE document'[s] = Gone(document[s])
    BY <2>1, <2>4, DocumentGoes, GoneDocument
  <2>5. CASE document'[s] = New(document[s]) /\ ~document[s].there
    <3>1. /\ document'[s] \in Document /\ document'[s].stale
          /\ document'[s].content = "" /\ ~document'[s].vector
      BY <2>1, <2>5, NewDocument
    <3>2. document'[s].id = document[s].id + 1
      BY <2>1, <2>5, NewDocument
    <3>3. document[s].id <= document'[s].id /\ document'[s].id # document[s].id
      BY <2>2, <3>2
    <3>4. DocumentMoves(s)
      BY <3>3 DEF DocumentMoves
    <3>5. DocumentOK(s)'
      BY <3>1 DEF DocumentOK
    <3>6. QED
      BY <3>1, <3>4, <3>5
  <2>6. CASE document'[s] = MarkedAgain(document[s]) /\ (s \in excused' <=> s \in excused)
    <3>1. /\ document'[s] \in Document /\ document'[s].there = document[s].there
          /\ document'[s].content = document[s].content /\ document'[s].vector = document[s].vector
          /\ document[s].there => document'[s].stale
      BY <2>1, <2>6, MarkedDocument
    <3>2. document'[s].id = document[s].id
      BY <2>1, <2>6, MarkedDocument
    <3>3. document[s].id <= document'[s].id
      BY <2>2, <3>2
    <3>4. DocumentMoves(s)
      BY <2>6, <3>1, <3>3 DEF DocumentMoves
    <3>5. DocumentOK(s)'
      BY <2>1, <3>1 DEF DocumentOK, MayBeFound, Shown
    <3>6. QED
      BY <3>1, <3>4, <3>5
  <2>7. QED
    BY <2>3, <2>4, <2>5, <2>6
<1>2. document' \in [Source -> Document]
  BY <1>1
<1>3. QED
  BY <1>1, <1>2, SweepsRemain, StepBesideSources

LEMMA ReconcileStepStays ==
    ASSUME IndexInv, NEW r, ReconcileStep(r)
    PROVE  IndexInv'
<1>1. source' = source /\ sweep' = sweep
  BY DEF ReconcileStep, ListSources, FindDocuments, InsertMissing, DeleteLeaving, MarkAll
<1>2. CASE ListSources(r) \/ FindDocuments(r)
  BY <1>1, <1>2, SweepsRemain, StepBesideDocuments DEF ListSources, FindDocuments
<1>3. CASE InsertMissing(r)
  <2> DEFINE missing == reconcile[r].missing
             clash == missing \cap Documented # {}
  <2>1. /\ document' = [s \in Source |-> IF s \in missing /\ ~clash THEN New(document[s]) ELSE document[s]]
        /\ excused' = excused
    BY <1>3 DEF InsertMissing
  <2>2. \A s \in Source : s \in missing /\ ~clash => ~document[s].there
    BY DEF Documented
  <2> HIDE DEF missing, clash
  <2>3. QED
    BY <1>1, <2>1, <2>2, ReconcileChanges
<1>4. CASE DeleteLeaving(r)
  <2> DEFINE leaving == {s \in Documented : <<s, document[s].id>> \in reconcile[r].leaving}
  <2>1. /\ document' = [s \in Source |-> IF s \in leaving THEN Gone(document[s]) ELSE document[s]]
        /\ excused' = excused \ leaving
    BY <1>4 DEF DeleteLeaving
  <2> HIDE DEF leaving
  <2>2. QED
    BY <1>1, <2>1, ReconcileChanges
<1>5. CASE MarkAll(r)
  <2>1. document' = [s \in Source |-> MarkedAgain(document[s])] /\ excused' = excused
    BY <1>5 DEF MarkAll
  <2>2. QED
    BY <1>1, <2>1, ReconcileChanges
<1>6. QED
  BY <1>2, <1>3, <1>4, <1>5 DEF ReconcileStep

-----------------------------------------------------------------------------
\* The theorem.

LEMMA IndexStartsInOrder == InitIndex => IndexInv
<1> SUFFICES ASSUME InitIndex PROVE IndexInv
  OBVIOUS
<1>1. source \in [Source -> [state : State, text : Said]]
  <2> DEFINE none == {[state |-> state, text |-> ""] : state \in {"unborn", "gone"}}
             seeded == {[state |-> "shown", text |-> text] : text \in Text}
  <2>1. ASSUME NEW row \in none PROVE row \in [state : State, text : Said]
    <3>1. PICK state \in {"unborn", "gone"} : row = [state |-> state, text |-> ""]
      OBVIOUS
    <3>2. QED
      BY <3>1 DEF State, Said
  <2>2. ASSUME NEW row \in seeded PROVE row \in [state : State, text : Said]
    <3>1. PICK text \in Text : row = [state |-> "shown", text |-> text]
      OBVIOUS
    <3>2. QED
      BY <3>1 DEF State, Said
  <2>3. source \in [Source -> none \cup seeded]
    BY DEF InitIndex
  <2> HIDE DEF none, seeded
  <2>4. QED
    BY <2>1, <2>2, <2>3
<1>2. NoDocument \in Document /\ ~NoDocument.there /\ NoDocument.content = ""
  BY DEF NoDocument, Document, Said
<1>3. Rests(NoSweep)
  BY DEF Rests, NoSweep, Resting
<1> HIDE DEF NoDocument, NoSweep
<1>4. \A s \in Source : document[s] = NoDocument
  BY DEF InitIndex
<1>5. \A s \in Source : DocumentOK(s)
  BY <1>2, <1>4 DEF DocumentOK
<1>6. \A i \in Sweeper : SweepOK(i)
  BY <1>3 DEF InitIndex, SweepOK, Rests
<1>7. QED
  BY <1>1, <1>2, <1>5, <1>6 DEF InitIndex, IndexInv

LEMMA IndexStaysInOrder == IndexInv /\ [NextIndex]_indexVars => IndexInv'
<1> SUFFICES ASSUME IndexInv, [NextIndex]_indexVars PROVE IndexInv'
  OBVIOUS
<1>1. ASSUME NEW s \in Source, SaveSource(s) PROVE IndexInv'
  BY <1>1, SaveSourceStep
<1>2. ASSUME NEW s \in Source, RemoveSource(s) PROVE IndexInv'
  BY <1>2, RemoveSourceStep
<1>3. ASSUME NEW s \in Source, WriteAround(s) PROVE IndexInv'
  BY <1>3, WriteAroundStep
<1>4. ASSUME NEW i \in Sweeper, TryLock(i) \/ Unlock(i) \/ SweeperRestarts(i) PROVE IndexInv'
  BY <1>4, RestingStep
<1>5. ASSUME NEW i \in Sweeper, Find(i) PROVE IndexInv'
  BY <1>5, FindStep
<1>6. ASSUME NEW i \in Sweeper, Compose(i) PROVE IndexInv'
  BY <1>6, ComposeStep
<1>7. ASSUME NEW i \in Sweeper, Settle(i) PROVE IndexInv'
  BY <1>7, SettleStep
<1>8. ASSUME NEW i \in Sweeper, Embed(i) PROVE IndexInv'
  BY <1>8, EmbedStep
<1>9. ASSUME NEW i \in Sweeper, EmbeddingFails(i) PROVE IndexInv'
  BY <1>9, EmbeddingFailsStep
<1>10. ASSUME NEW i \in Sweeper, Store(i) PROVE IndexInv'
  BY <1>10, StoreStep
<1>11. ASSUME NEW r \in Reconciler, ReconcileStep(r) PROVE IndexInv'
  BY <1>11, ReconcileStepStays
<1>12. CASE SweepExpires \/ UNCHANGED indexVars
  BY <1>12, SweepsRemain, StepBesideDocuments DEF SweepExpires, indexVars
<1>13. QED
  BY <1>1, <1>2, <1>3, <1>4, <1>5, <1>6, <1>7, <1>8, <1>9, <1>10, <1>11, <1>12
     DEF NextIndex, SweepStep

\* A document that is not marked stale says what its source says, unless it is
\* excused, and one with a vector is of a source on show, or of a product that
\* was removed past the subscriber.  The invariant adds what every sweep knows
\* of what it found: a row it found that is still there was never removed since,
\* as ids are not given twice, so the write that would have hidden the source
\* or changed its text would have replaced the row or overtaken the sweep.
THEOREM DocumentsTellTheTruthHolds == IndexSpec => []DocumentsTellTheTruth
<1>1. IndexInv => DocumentsTellTheTruth
  <2> SUFFICES ASSUME IndexInv, NEW s \in Documented
               PROVE  /\ s \notin excused /\ ~document[s].stale
                           => Shown(s) /\ document[s].content = source[s].text
                      /\ document[s].vector => Shown(s) \/ (s \in Silent /\ source[s].state = "gone")
    BY DEF DocumentsTellTheTruth, FreshMeansUpToDate, HiddenIsNeverQuoted
  <2>1. DocumentOK(s) /\ document[s].there
    BY DEF IndexInv, Documented
  <2>2. QED
    BY <2>1 DEF DocumentOK, MayBeFound
<1>2. QED
  BY <1>1, IndexStartsInOrder, IndexStaysInOrder, PTL DEF IndexSpec

-----------------------------------------------------------------------------
\* Conversations.

ChatSpec == InitChat /\ [][NextChat]_chatVars

SessionRow ==
    [id : Nat, there : BOOLEAN, user : Caller, count : Nat, fresh : BOOLEAN, version : Nat]
Answering == {"countQuestion", "model", "refuse", "countAnswer"}
Loaded == {"bind", "ask"} \cup Answering

\* What a turn has in memory: its caller, then the session, then the question.
TurnRow(m) ==
    /\ "phase" \in DOMAIN m
    /\ m.phase \in {"none", "expire", "resolve"} \cup Loaded
    /\ m.phase # "none" => "user" \in DOMAIN m /\ m.user \in Caller
    /\ m.phase \in Loaded => "copy" \in DOMAIN m /\ m.copy \in SessionRow
    /\ m.phase \in Answering => "question" \in DOMAIN m /\ m.question \in Nat

\* A copy is never ahead of the row, and differs from it only if it is behind,
\* or by the customer it is about to bind.
CopyOK(copy, row) ==
    /\ copy.version <= row.version
    /\ copy.version = row.version
         => copy.count = row.count /\ (row.user = Nobody \/ copy.user = row.user)

\* The bucket counts in numbers, and the session has been opened or not.
RowsOK ==
    /\ rate \in [Caller -> [used : Nat, expires : BOOLEAN]]
    /\ session \in SessionRow
    /\ session.id = 0 => session = Unopened

TurnsOK ==
    /\ DOMAIN turn = ChatTurn
    /\ \A t \in ChatTurn : TurnRow(turn[t])
    /\ \A t \in ChatTurn : turn[t].phase \in Loaded => CopyOK(turn[t].copy, session)

Role == {"user", "assistant"}
Spoken == [role : Role, answers : Nat]

CountingTurns == {t \in ChatTurn : Uncounted(t)}

\* Every row of the transcript is in the session's count, about to be, or lost to it.
TranscriptOK ==
    /\ message \in Seq(Spoken)
    /\ uncounted \in Nat
    /\ slipped \in BOOLEAN
    /\ slipped \/ Len(message) <= session.count + uncounted + Cardinality(CountingTurns)

ChatInv == RowsOK /\ TurnsOK /\ TranscriptOK /\ EveryWindowEnds

-----------------------------------------------------------------------------

\* One turn moves, and the others stay as they are.
OneTurnMoves(t) == DOMAIN turn' = ChatTurn /\ \A u \in ChatTurn \ {t} : turn'[u] = turn[u]

\* A turn that goes on keeps what it had in memory, but for what it now sets.
LEMMA TurnGoesOn ==
    ASSUME TurnsOK, NEW t \in ChatTurn, NEW phase, NEW memory, "phase" \notin DOMAIN memory,
           GoOn(t, phase, memory)
    PROVE  /\ OneTurnMoves(t)
           /\ TurnAt(t, phase)'
           /\ DOMAIN turn'[t] = DOMAIN turn[t] \cup DOMAIN memory
           /\ \A f \in DOMAIN memory : turn'[t][f] = memory[f]
           /\ \A f \in DOMAIN turn[t] \ (DOMAIN memory \cup {"phase"}) : turn'[t][f] = turn[t][f]
<1> DEFINE row == [turn[t] EXCEPT !.phase = phase]
<1>1. "phase" \in DOMAIN turn[t]
  BY DEF TurnsOK, TurnRow
<1>2. /\ DOMAIN row = DOMAIN turn[t]
      /\ row.phase = phase
      /\ \A f \in DOMAIN turn[t] \ {"phase"} : row[f] = turn[t][f]
  BY <1>1
<1>3. turn' = [turn EXCEPT ![t] = Spread(memory, row)]
  BY DEF GoOn
<1> HIDE DEF row
<1>4. OneTurnMoves(t) /\ turn'[t] = Spread(memory, row)
  BY <1>3 DEF OneTurnMoves, TurnsOK
<1>5. QED
  BY <1>1, <1>2, <1>4 DEF Spread, TurnAt

LEMMA TurnEnds ==
    ASSUME TurnsOK, NEW t \in ChatTurn, EndTurn(t)
    PROVE  OneTurnMoves(t) /\ TurnAt(t, "none")' /\ TurnRow(turn[t])'
BY DEF TurnsOK, OneTurnMoves, EndTurn, Outside, TurnAt, TurnRow, Loaded, Answering

\* In particular when it has loaded or saved the session, or recorded a message.
LEMMA TurnHoldsTheSession ==
    ASSUME TurnsOK, NEW t \in ChatTurn, NEW phase \in Loaded, NEW s \in SessionRow,
           ~TurnAt(t, "none"), phase \in Answering => turn[t].phase \in Answering,
           GoOn(t, phase, [copy |-> s])
    PROVE  OneTurnMoves(t) /\ TurnAt(t, phase)' /\ TurnRow(turn[t])' /\ turn'[t].copy = s
<1> DEFINE memory == [copy |-> s]
<1>1. DOMAIN memory = {"copy"} /\ memory["copy"] = s
  OBVIOUS
<1>2. GoOn(t, phase, memory)
  OBVIOUS
<1> HIDE DEF memory
<1>3. /\ OneTurnMoves(t)
      /\ TurnAt(t, phase)'
      /\ DOMAIN turn'[t] = DOMAIN turn[t] \cup {"copy"}
      /\ turn'[t]["copy"] = s
      /\ \A f \in DOMAIN turn[t] \ {"copy", "phase"} : turn'[t][f] = turn[t][f]
  BY <1>1, <1>2, TurnGoesOn, "phase" \notin DOMAIN memory
<1>4. TurnRow(turn[t])
  BY DEF TurnsOK
<1>5. QED
  BY <1>3, <1>4 DEF TurnRow, TurnAt, Loaded, Answering

LEMMA TurnHoldsTheQuestion ==
    ASSUME TurnsOK, NEW t \in ChatTurn, NEW phase \in Answering, NEW n \in Nat,
           turn[t].phase \in Loaded, GoOn(t, phase, [question |-> n])
    PROVE  OneTurnMoves(t) /\ TurnAt(t, phase)' /\ TurnRow(turn[t])' /\ turn'[t].copy = turn[t].copy
<1> DEFINE memory == [question |-> n]
<1>1. DOMAIN memory = {"question"} /\ memory["question"] = n
  OBVIOUS
<1>2. GoOn(t, phase, memory)
  OBVIOUS
<1> HIDE DEF memory
<1>3. /\ OneTurnMoves(t)
      /\ TurnAt(t, phase)'
      /\ DOMAIN turn'[t] = DOMAIN turn[t] \cup {"question"}
      /\ turn'[t]["question"] = n
      /\ \A f \in DOMAIN turn[t] \ {"question", "phase"} : turn'[t][f] = turn[t][f]
  BY <1>1, <1>2, TurnGoesOn, "phase" \notin DOMAIN memory
<1>4. TurnRow(turn[t])
  BY DEF TurnsOK
<1>5. QED
  BY <1>3, <1>4 DEF TurnRow, TurnAt, Loaded, Answering

\* The turns are in order when the one that moved is, and the session is left
\* alone or saved again by it.
LEMMA TurnsStayOK ==
    ASSUME TurnsOK, session \in SessionRow, NEW t \in ChatTurn, OneTurnMoves(t), TurnRow(turn[t])',
           turn'[t].phase \in Loaded => CopyOK(turn'[t].copy, session'),
           session' = session \/ session'.version > session.version,
           session' \in SessionRow
    PROVE  TurnsOK'
<1>1. ASSUME NEW u \in ChatTurn, turn'[u].phase \in Loaded, u # t
      PROVE  CopyOK(turn'[u].copy, session')
  <2>1. turn'[u] = turn[u] /\ TurnRow(turn[u]) /\ CopyOK(turn[u].copy, session)
    BY <1>1 DEF OneTurnMoves, TurnsOK
  <2>2. turn[u].copy \in SessionRow
    BY <1>1, <2>1 DEF TurnRow
  <2> DEFINE v == turn[u].copy.version
             w == session.version
             x == session'.version
  <2>3. v \in Nat /\ w \in Nat /\ x \in Nat
    BY <2>2 DEF SessionRow
  <2>4. CASE session' = session
    BY <2>1, <2>4
  <2>5. CASE x > w
    <3>1. v <= w
      BY <2>1 DEF CopyOK
    <3>2. v <= x /\ v # x
      BY <2>3, <2>5, <3>1
    <3>3. QED
      BY <2>1, <3>2 DEF CopyOK
  <2>6. QED
    BY <2>4, <2>5
<1>2. \A u \in ChatTurn : u # t => TurnRow(turn[u])'
  BY DEF TurnsOK, OneTurnMoves
<1>3. QED
  BY <1>1, <1>2 DEF TurnsOK, OneTurnMoves

\* What saving the copy of a turn does, whoever it overtakes.
LEMMA SessionIsSaved ==
    ASSUME RowsOK, TurnsOK, NEW t \in ChatTurn, NEW copy \in SessionRow,
           turn[t].phase \in Loaded, NEW next \in Loaded \cup {"none"},
           next \in Answering => turn[t].phase \in Answering,
           SaveSession(t, copy, next)
    PROVE  /\ session' \in SessionRow /\ session'.id # 0
           /\ session'.user = copy.user /\ session'.count = copy.count
           /\ session'.version = session.version + 1
           /\ slipped' = (slipped \/ session.version # copy.version)
           /\ TurnAt(t, next)' /\ OneTurnMoves(t) /\ TurnsOK'
<1> DEFINE there == session.there /\ session.id = copy.id
           saved == [copy EXCEPT !.id = IF there THEN @ ELSE session.id + 1, !.there = TRUE,
                                 !.version = session.version + 1]
<1>1. /\ session' = saved
      /\ slipped' = (slipped \/ session.version # copy.version)
      /\ IF next = "none" THEN EndTurn(t) ELSE GoOn(t, next, [copy |-> saved])
  BY DEF SaveSession
<1>2. session \in SessionRow /\ (session.there => session.id # 0)
  BY DEF RowsOK, Unopened
<1>3. /\ saved \in SessionRow /\ saved.id # 0
      /\ saved.user = copy.user /\ saved.count = copy.count
      /\ saved.version = session.version + 1
  <2> DEFINE id == IF there THEN copy.id ELSE session.id + 1
             version == session.version + 1
  <2>1. session.id \in Nat /\ session.version \in Nat
    BY <1>2 DEF SessionRow
  <2>2. id \in Nat /\ id # 0 /\ version \in Nat
    BY <1>2, <2>1
  <2>3. saved = [copy EXCEPT !.id = id, !.there = TRUE, !.version = version]
    OBVIOUS
  <2> HIDE DEF id, version, saved
  <2>4. saved \in SessionRow /\ saved.id = id /\ saved.version = version
    BY <2>2, <2>3 DEF SessionRow
  <2>5. saved.user = copy.user /\ saved.count = copy.count
    BY <2>3 DEF SessionRow
  <2>6. QED
    BY <2>2, <2>4, <2>5 DEF version
<1> HIDE DEF saved
<1>4. OneTurnMoves(t) /\ TurnAt(t, next)' /\ TurnRow(turn[t])' /\ (next # "none" => turn'[t].copy = saved)
  <2>1. CASE next = "none"
    BY <1>1, <2>1, TurnEnds
  <2>2. CASE next # "none"
    <3>1. GoOn(t, next, [copy |-> saved]) /\ next \in Loaded /\ ~TurnAt(t, "none")
      BY <1>1, <2>2 DEF TurnAt, Loaded, Answering
    <3>2. QED
      BY <1>3, <2>2, <3>1, TurnHoldsTheSession
  <2>3. QED
    BY <2>1, <2>2
<1>5. turn'[t].phase \in Loaded => CopyOK(turn'[t].copy, session')
  <2>1. "none" \notin Loaded
    BY DEF Loaded, Answering
  <2>2. CopyOK(saved, saved)
    BY <1>3 DEF CopyOK, SessionRow
  <2>3. QED
    BY <1>1, <1>4, <2>1, <2>2 DEF TurnAt
<1>6. session'.version > session.version /\ session' \in SessionRow
  BY <1>1, <1>2, <1>3 DEF SessionRow
<1>7. TurnsOK'
  BY <1>2, <1>4, <1>5, <1>6, TurnsStayOK
<1>8. QED
  BY <1>1, <1>3, <1>4, <1>7

\* A turn that ends, or goes on with a question, while the session is left alone.
LEMMA SessionIsLeftAlone ==
    ASSUME RowsOK, TurnsOK, NEW t \in ChatTurn, UNCHANGED session, OneTurnMoves(t), TurnRow(turn[t])',
           turn'[t].phase \in Loaded => turn[t].phase \in Loaded /\ turn'[t].copy = turn[t].copy
    PROVE  TurnsOK'
<1>1. turn'[t].phase \in Loaded => CopyOK(turn'[t].copy, session')
  BY DEF TurnsOK
<1>2. session \in SessionRow /\ session' \in SessionRow
  BY DEF RowsOK
<1>3. QED
  BY <1>1, <1>2, TurnsStayOK

\* Recording a message, or finding the session gone.
LEMMA MessageIsRecorded ==
    ASSUME RowsOK, TurnsOK, TranscriptOK, UNCHANGED session,
           NEW t \in ChatTurn, turn[t].phase \in Loaded, NEW role \in Role, NEW heard \in Nat,
           NEW next \in {"countQuestion", "countAnswer"}, InsertMessage(t, role, heard, next)
    PROVE  /\ OneTurnMoves(t) /\ TurnsOK'
           /\ message' \in Seq(Spoken)
           /\ \/ TurnAt(t, next)' /\ Len(message') = Len(message) + 1
              \/ TurnAt(t, "none")' /\ message' = message
<1>1. CASE EndTurn(t) /\ UNCHANGED message
  <2>1. OneTurnMoves(t) /\ TurnAt(t, "none")' /\ TurnRow(turn[t])'
    BY <1>1, TurnEnds
  <2>2. turn'[t].phase \notin Loaded
    BY <2>1 DEF TurnAt, Loaded, Answering
  <2>3. QED
    BY <1>1, <2>1, <2>2, SessionIsLeftAlone DEF TranscriptOK
<1>2. CASE ~(EndTurn(t) /\ UNCHANGED message)
  <2> DEFINE row == [role |-> role, answers |-> heard]
             question == IF role = "user" THEN Len(message) + 1 ELSE heard
  <2>1. message' = Append(message, row) /\ GoOn(t, next, [question |-> question])
    BY <1>2 DEF InsertMessage
  <2>2. question \in Nat /\ row \in Spoken
    BY DEF TranscriptOK, Spoken
  <2> HIDE DEF row, question
  <2>3. /\ OneTurnMoves(t) /\ TurnAt(t, next)' /\ TurnRow(turn[t])' /\ turn'[t].copy = turn[t].copy
    BY <2>1, <2>2, TurnHoldsTheQuestion DEF Answering
  <2>4. TurnsOK'
    BY <2>3, SessionIsLeftAlone
  <2>5. QED
    BY <2>1, <2>2, <2>3, <2>4 DEF TranscriptOK
<1>3. QED
  BY <1>1, <1>2

\* The windows are as they were when a turn moves that was not about to open one.
LEMMA WindowsStay ==
    ASSUME EveryWindowEnds, NEW t \in ChatTurn, OneTurnMoves(t), ~TurnAt(t, "expire"),
           UNCHANGED <<rate, unexpiring>>
    PROVE  EveryWindowEnds'
BY DEF EveryWindowEnds, OneTurnMoves, TurnAt

\* How many messages are about to be counted, when one turn moves.
LEMMA CountingTurnsMove ==
    ASSUME NEW t \in ChatTurn, OneTurnMoves(t)
    PROVE  /\ Cardinality(CountingTurns) \in Nat
           /\ Uncounted(t) = Uncounted(t)'
                => Cardinality(CountingTurns') = Cardinality(CountingTurns)
           /\ ~Uncounted(t) /\ Uncounted(t)'
                => Cardinality(CountingTurns') = Cardinality(CountingTurns) + 1
           /\ Uncounted(t) /\ ~Uncounted(t)'
                => Cardinality(CountingTurns') = Cardinality(CountingTurns) - 1
<1>1. IsFiniteSet(CountingTurns)
  BY FinitelyManyTurns, FS_Subset DEF CountingTurns
<1>2. \A u \in ChatTurn \ {t} : Uncounted(u)' <=> Uncounted(u)
  BY DEF OneTurnMoves, Uncounted
<1>3. Uncounted(t) \in BOOLEAN /\ Uncounted(t)' \in BOOLEAN
  BY DEF Uncounted
<1>4. CASE Uncounted(t) = Uncounted(t)'
  <2>1. CountingTurns' = CountingTurns
    BY <1>2, <1>4 DEF CountingTurns
  <2>2. QED
    BY <1>1, <1>4, <2>1, FS_CardinalityType
<1>5. CASE ~Uncounted(t) /\ Uncounted(t)'
  <2>1. CountingTurns' = CountingTurns \cup {t} /\ t \notin CountingTurns
    BY <1>2, <1>5 DEF CountingTurns
  <2>2. QED
    BY <1>1, <1>5, <2>1, FS_CardinalityType, FS_AddElement
<1>6. CASE Uncounted(t) /\ ~Uncounted(t)'
  <2>1. CountingTurns' = CountingTurns \ {t} /\ t \in CountingTurns
    BY <1>2, <1>6 DEF CountingTurns
  <2>2. QED
    BY <1>1, <1>6, <2>1, FS_CardinalityType, FS_RemoveElement
<1>7. QED
  BY <1>3, <1>4, <1>5, <1>6

\* The transcript is as well counted as it was when neither it nor the count change.
LEMMA TranscriptStays ==
    ASSUME RowsOK, TranscriptOK, NEW t \in ChatTurn, OneTurnMoves(t), ~Uncounted(t), ~Uncounted(t)',
           session'.count = session.count, UNCHANGED <<message, uncounted>>,
           slipped' \in BOOLEAN, slipped => slipped'
    PROVE  TranscriptOK'
<1>1. Cardinality(CountingTurns') = Cardinality(CountingTurns)
  BY CountingTurnsMove DEF Uncounted
<1>2. QED
  BY <1>1 DEF TranscriptOK

LEMMA InitChatInv == InitChat => ChatInv
<1> SUFFICES ASSUME InitChat PROVE ChatInv
  OBVIOUS
<1>1. RowsOK
  BY DEF InitChat, RowsOK, SessionRow, Unopened, Caller
<1>2. TurnsOK
  BY DEF InitChat, TurnsOK, TurnRow, Outside, Loaded, Answering
<1>3. EveryWindowEnds
  BY DEF InitChat, EveryWindowEnds
<1>4. TranscriptOK
  <2>1. CountingTurns = {}
    BY DEF InitChat, CountingTurns, Uncounted, Outside
  <2>2. Cardinality(CountingTurns) = 0
    BY <2>1, FS_EmptySet
  <2>3. message \in Seq(Spoken) /\ Len(message) = 0
    BY DEF InitChat
  <2>4. session.count = 0 /\ uncounted = 0 /\ slipped = FALSE
    BY DEF InitChat, Unopened
  <2>5. Len(message) <= session.count + uncounted + Cardinality(CountingTurns)
    BY <2>2, <2>3, <2>4
  <2>6. uncounted \in Nat /\ slipped \in BOOLEAN
    BY <2>4
  <2>7. QED
    BY <2>3, <2>5, <2>6, Zenon DEF TranscriptOK
<1>5. QED
  BY <1>1, <1>2, <1>3, <1>4 DEF ChatInv

LEMMA ReceiveKeeps == ASSUME ChatInv, NEW t \in ChatTurn, ReceiveMessage(t) PROVE ChatInv'
<1> USE DEF ChatInv
<1>1. /\ TurnAt(t, "none")
      /\ UNCHANGED <<session, message, slipped, uncounted, unexpiring>>
  BY DEF ReceiveMessage
<1>2. PICK c \in Caller :
        /\ rate' = [rate EXCEPT ![c].used = rate[c].used + 1]
        /\ turn' = [turn EXCEPT ![t] =
             IF OpensTheWindow(rate[c].used + 1) THEN [phase |-> "expire", user |-> c]
             ELSE IF rate[c].used + 1 > RateLimit THEN Outside
             ELSE [phase |-> "resolve", user |-> c]]
  BY DEF ReceiveMessage
<1>3. rate \in [Caller -> [used : Nat, expires : BOOLEAN]]
  BY DEF RowsOK
<1>4. /\ rate' \in [Caller -> [used : Nat, expires : BOOLEAN]]
      /\ rate'[c].used = rate[c].used + 1 /\ rate'[c].expires = rate[c].expires
      /\ \A d \in Caller \ {c} : rate'[d] = rate[d]
  BY <1>2, <1>3
<1>5. OneTurnMoves(t)
  BY <1>2 DEF OneTurnMoves, TurnsOK
<1>6. /\ TurnRow(turn[t])'
      /\ turn'[t].phase \in {"expire", "none", "resolve"}
      /\ OpensTheWindow(rate[c].used + 1) => TurnAt(t, "expire")' /\ turn'[t].user = c
  <2>1. \/ OpensTheWindow(rate[c].used + 1) /\ turn'[t] = [phase |-> "expire", user |-> c]
        \/ ~OpensTheWindow(rate[c].used + 1) /\ turn'[t] = Outside
        \/ ~OpensTheWindow(rate[c].used + 1) /\ turn'[t] = [phase |-> "resolve", user |-> c]
    BY <1>2 DEF TurnsOK
  <2>2. QED
    BY <2>1 DEF Outside, TurnRow, TurnAt, Loaded, Answering
<1>7. TurnsOK'
  <2>1. turn'[t].phase \notin Loaded
    BY <1>6 DEF Loaded, Answering
  <2>2. QED
    BY <1>1, <1>5, <1>6, <2>1, SessionIsLeftAlone
<1>8. TranscriptOK'
  <2>1. ~Uncounted(t) /\ ~Uncounted(t)'
    BY <1>1, <1>6 DEF TurnAt, Uncounted
  <2>2. QED
    BY <1>1, <1>5, <2>1, TranscriptStays DEF TranscriptOK
<1>9. EveryWindowEnds'
  <2>1. ASSUME NEW d \in Caller
        PROVE  \/ rate'[d].used = 0 \/ rate'[d].expires \/ d \in unexpiring'
               \/ \E u \in ChatTurn : TurnAt(u, "expire")' /\ turn'[u].user = d
    <3>1. CASE d = c /\ rate[c].used = 0
      BY <1>6, <3>1 DEF OpensTheWindow
    <3>2. CASE d # c \/ rate[c].used # 0
      <4>1. rate'[d].expires = rate[d].expires /\ (rate'[d].used = 0 \/ rate[d].used # 0)
        BY <1>3, <1>4, <3>2
      <4>2. QED
        BY <1>1, <1>5, <4>1 DEF EveryWindowEnds, OneTurnMoves, TurnAt
    <3>3. QED
      BY <3>1, <3>2
  <2>2. QED
    BY <2>1 DEF EveryWindowEnds, TurnAt
<1>10. RowsOK'
  BY <1>1, <1>4 DEF RowsOK
<1>11. QED
  BY <1>7, <1>8, <1>9, <1>10

LEMMA SetExpiryKeeps == ASSUME ChatInv, NEW t \in ChatTurn, SetExpiry(t) PROVE ChatInv'
<1> USE DEF ChatInv
<1>1. /\ TurnAt(t, "expire")
      /\ rate' = [rate EXCEPT ![turn[t].user].expires = rate[turn[t].user].used > 0]
      /\ GoOn(t, "resolve", <<>>)
      /\ UNCHANGED <<session, message, slipped, uncounted, unexpiring>>
  BY DEF SetExpiry
<1>2. TurnRow(turn[t]) /\ turn[t].user \in Caller
  BY <1>1 DEF TurnsOK, TurnRow, TurnAt
<1>3. /\ OneTurnMoves(t) /\ TurnAt(t, "resolve")'
      /\ "user" \in DOMAIN turn'[t] /\ "phase" \in DOMAIN turn'[t] /\ turn'[t].user = turn[t].user
  <2>1. DOMAIN <<>> = {}
    OBVIOUS
  <2>2. "user" \in DOMAIN turn[t] /\ "phase" \in DOMAIN turn[t]
    BY <1>1, <1>2 DEF TurnRow, TurnAt
  <2>3. QED
    BY <1>1, <2>1, <2>2, TurnGoesOn
<1>4. TurnRow(turn[t])' /\ turn'[t].phase \notin Loaded
  BY <1>2, <1>3 DEF TurnRow, TurnAt, Loaded, Answering
<1>5. TurnsOK'
  BY <1>1, <1>3, <1>4, SessionIsLeftAlone
<1>6. TranscriptOK'
  <2>1. ~Uncounted(t) /\ ~Uncounted(t)'
    BY <1>1, <1>3 DEF TurnAt, Uncounted
  <2>2. QED
    BY <1>1, <1>3, <2>1, TranscriptStays DEF TranscriptOK
<1> DEFINE more == rate[turn[t].user].used > 0
<1>7. more \in BOOLEAN /\ rate' = [rate EXCEPT ![turn[t].user].expires = more]
  BY <1>1
<1>8. rate \in [Caller -> [used : Nat, expires : BOOLEAN]]
  BY DEF RowsOK
<1>9. more \/ rate[turn[t].user].used = 0
  BY <1>2, <1>8
<1> HIDE DEF more
<1>10. /\ rate' \in [Caller -> [used : Nat, expires : BOOLEAN]]
       /\ rate'[turn[t].user].used = rate[turn[t].user].used
       /\ rate'[turn[t].user].expires = more
       /\ \A d \in Caller \ {turn[t].user} : rate'[d] = rate[d]
  BY <1>2, <1>7, <1>8
<1>11. EveryWindowEnds'
  BY <1>1, <1>2, <1>3, <1>9, <1>10 DEF EveryWindowEnds, OneTurnMoves, TurnAt
<1>12. RowsOK'
  BY <1>1, <1>10 DEF RowsOK
<1>13. QED
  BY <1>5, <1>6, <1>11, <1>12

LEMMA OpenKeeps == ASSUME ChatInv, NEW t \in ChatTurn, OpenSession(t) PROVE ChatInv'
<1> USE DEF ChatInv
<1> DEFINE opened == [Unopened EXCEPT !.id = 1, !.there = TRUE, !.user = turn[t].user, !.version = 1]
<1>1. /\ TurnAt(t, "resolve") /\ session.id = 0 /\ session' = opened
      /\ GoOn(t, "ask", [copy |-> opened])
      /\ UNCHANGED <<rate, message, slipped, uncounted, unexpiring>>
  BY DEF OpenSession
<1>2. turn[t].user \in Caller
  BY <1>1 DEF TurnsOK, TurnRow, TurnAt
<1>3. opened \in SessionRow /\ opened.id = 1 /\ opened.count = 0 /\ opened.version = 1
  BY <1>2 DEF Unopened, SessionRow
<1>4. session = Unopened
  BY <1>1 DEF RowsOK
<1>5. session.version = 0 /\ session.count = 0 /\ session \in SessionRow
  BY <1>4 DEF Unopened, RowsOK
<1> HIDE DEF opened
<1>6. OneTurnMoves(t) /\ TurnAt(t, "ask")' /\ TurnRow(turn[t])' /\ turn'[t].copy = opened
  <2>1. ~TurnAt(t, "none") /\ "ask" \in Loaded /\ "ask" \notin Answering
    BY <1>1 DEF TurnAt, Loaded, Answering
  <2>2. QED
    BY <1>1, <1>3, <2>1, TurnHoldsTheSession
<1>7. TurnsOK'
  <2>1. CopyOK(turn'[t].copy, session')
    BY <1>1, <1>3, <1>6 DEF CopyOK
  <2>2. session' \in SessionRow /\ session'.version > session.version
    BY <1>1, <1>3, <1>5
  <2>3. QED
    BY <1>5, <1>6, <2>1, <2>2, TurnsStayOK
<1>8. TranscriptOK'
  <2>1. ~Uncounted(t) /\ ~Uncounted(t)'
    BY <1>1, <1>6 DEF TurnAt, Uncounted
  <2>2. session'.count = session.count
    BY <1>1, <1>3, <1>5
  <2>3. QED
    BY <1>1, <1>6, <2>1, <2>2, TranscriptStays DEF TranscriptOK
<1>9. EveryWindowEnds'
  BY <1>1, <1>6, WindowsStay DEF TurnAt
<1>10. RowsOK'
  BY <1>1, <1>3 DEF RowsOK
<1>11. QED
  BY <1>7, <1>8, <1>9, <1>10

LEMMA LoadKeeps == ASSUME ChatInv, NEW t \in ChatTurn, LoadSession(t) PROVE ChatInv'
<1> USE DEF ChatInv
<1>1. TurnAt(t, "resolve") /\ UNCHANGED <<rate, session, message, slipped, uncounted, unexpiring>>
  BY DEF LoadSession
<1>2. turn[t].user \in Caller /\ session \in SessionRow
  BY <1>1 DEF TurnsOK, TurnRow, TurnAt, RowsOK
<1>3. /\ OneTurnMoves(t) /\ TurnRow(turn[t])' /\ ~Uncounted(t)'
      /\ turn'[t].phase \in Loaded => CopyOK(turn'[t].copy, session)
  <2>1. CASE EndTurn(t)
    BY <2>1, TurnEnds DEF TurnAt, Loaded, Answering, Uncounted
  <2>2. ASSUME NEW phase \in {"bind", "ask"}, NEW s \in SessionRow, GoOn(t, phase, [copy |-> s]),
               CopyOK(s, session)
        PROVE  /\ OneTurnMoves(t) /\ TurnRow(turn[t])' /\ ~Uncounted(t)'
               /\ turn'[t].phase \in Loaded => CopyOK(turn'[t].copy, session)
    <3>1. ~TurnAt(t, "none") /\ phase \in Loaded /\ phase \notin Answering
      BY <1>1 DEF TurnAt, Loaded, Answering
    <3>2. OneTurnMoves(t) /\ TurnAt(t, phase)' /\ TurnRow(turn[t])' /\ turn'[t].copy = s
      BY <2>2, <3>1, TurnHoldsTheSession
    <3>3. QED
      BY <2>2, <3>2 DEF TurnAt, Uncounted
  <2>3. CASE Binds(session, turn[t].user) /\ ~EndTurn(t)
    <3> DEFINE bound == [session EXCEPT !.user = turn[t].user]
    <3>1. GoOn(t, "bind", [copy |-> bound])
      BY <2>3 DEF LoadSession
    <3>2. bound \in SessionRow
      BY <1>2 DEF SessionRow
    <3>3. CopyOK(bound, session)
      BY <1>2, <2>3 DEF SessionRow, CopyOK, Binds
    <3> HIDE DEF bound
    <3>4. QED
      BY <2>2, <3>1, <3>2, <3>3
  <2>4. CASE ~Binds(session, turn[t].user) /\ ~EndTurn(t)
    <3>1. GoOn(t, "ask", [copy |-> session])
      BY <2>4 DEF LoadSession
    <3>2. CopyOK(session, session)
      BY <1>2 DEF SessionRow, CopyOK
    <3>3. QED
      BY <1>2, <2>2, <3>1, <3>2
  <2>5. QED
    BY <2>1, <2>3, <2>4
<1>4. TurnsOK'
  BY <1>1, <1>2, <1>3, TurnsStayOK
<1>5. TranscriptOK'
  BY <1>1, <1>3, TranscriptStays DEF TranscriptOK, TurnAt, Uncounted
<1>6. EveryWindowEnds'
  BY <1>1, <1>3, WindowsStay DEF TurnAt
<1>7. QED
  BY <1>1, <1>4, <1>5, <1>6 DEF RowsOK

\* What is common to the three saves.
LEMMA SaveKeeps ==
    ASSUME ChatInv, NEW t \in ChatTurn, NEW copy \in SessionRow, CopyOK(turn[t].copy, session),
           turn[t].phase \in Loaded, NEW next \in Loaded \cup {"none"},
           next \in Answering => turn[t].phase \in Answering, next \notin {"countQuestion", "countAnswer"},
           copy.version = turn[t].copy.version,
           copy.count = turn[t].copy.count + (IF Uncounted(t) THEN 1 ELSE 0),
           SaveSession(t, copy, next), UNCHANGED <<rate, message, uncounted, unexpiring>>
    PROVE  ChatInv'
<1> USE DEF ChatInv
<1>1. /\ session' \in SessionRow /\ session'.id # 0
      /\ session'.count = copy.count
      /\ slipped' = (slipped \/ session.version # copy.version)
      /\ TurnAt(t, next)' /\ OneTurnMoves(t) /\ TurnsOK'
  BY SessionIsSaved
<1>2. EveryWindowEnds'
  BY <1>1, WindowsStay DEF Loaded, Answering, TurnAt
<1>3. TranscriptOK'
  <2>1. slipped' \in BOOLEAN
    BY <1>1 DEF TranscriptOK
  <2>2. CASE slipped'
    BY <2>1, <2>2 DEF TranscriptOK
  <2>3. CASE ~slipped'
    <3>1. ~slipped /\ session.version = copy.version
      BY <1>1, <2>3
    <3>2. copy.count = session.count + (IF Uncounted(t) THEN 1 ELSE 0)
      BY <3>1 DEF CopyOK
    <3>3. Len(message) <= session.count + uncounted + Cardinality(CountingTurns)
      BY <3>1 DEF TranscriptOK
    <3>4. ~Uncounted(t)'
      BY <1>1 DEF TurnAt, Uncounted
    <3>5. /\ Cardinality(CountingTurns) \in Nat /\ session.count \in Nat
          /\ uncounted \in Nat /\ Len(message) \in Nat
      BY <1>1, CountingTurnsMove DEF RowsOK, SessionRow, TranscriptOK
    <3>6. CASE Uncounted(t)
      <4>1. Cardinality(CountingTurns') = Cardinality(CountingTurns) - 1
        BY <1>1, <3>4, <3>6, CountingTurnsMove
      <4>2. Len(message) <= session'.count + uncounted + Cardinality(CountingTurns')
        BY <1>1, <3>2, <3>3, <3>5, <3>6, <4>1
      <4>3. QED
        BY <2>1, <4>2 DEF TranscriptOK
    <3>7. CASE ~Uncounted(t)
      <4>1. Cardinality(CountingTurns') = Cardinality(CountingTurns)
        BY <1>1, <3>4, <3>7, CountingTurnsMove DEF Uncounted
      <4>2. Len(message) <= session'.count + uncounted + Cardinality(CountingTurns')
        BY <1>1, <3>2, <3>3, <3>5, <3>7, <4>1
      <4>3. QED
        BY <2>1, <4>2 DEF TranscriptOK
    <3>8. QED
      BY <3>6, <3>7
  <2>4. QED
    BY <2>1, <2>2, <2>3
<1>4. RowsOK'
  BY <1>1 DEF RowsOK
<1>5. QED
  BY <1>1, <1>2, <1>3, <1>4

LEMMA BindKeeps == ASSUME ChatInv, NEW t \in ChatTurn, BindSession(t) PROVE ChatInv'
<1> USE DEF ChatInv
<1>1. /\ TurnAt(t, "bind") /\ SaveSession(t, turn[t].copy, "ask")
      /\ UNCHANGED <<rate, message, uncounted, unexpiring>>
  BY DEF BindSession
<1>2. turn[t].phase = "bind" /\ turn[t].phase \in Loaded /\ ~Uncounted(t)
  BY <1>1 DEF TurnAt, Loaded, Uncounted
<1>3. turn[t].copy \in SessionRow /\ CopyOK(turn[t].copy, session)
  BY <1>2 DEF TurnsOK, TurnRow
<1>4. turn[t].copy.count = turn[t].copy.count + (IF Uncounted(t) THEN 1 ELSE 0)
  BY <1>2, <1>3 DEF SessionRow
<1>5. "ask" \in Loaded \cup {"none"} /\ "ask" \notin Answering
  BY DEF Loaded, Answering
<1>6. QED
  BY <1>1, <1>2, <1>3, <1>4, <1>5, SaveKeeps

\* A turn about to count has its copy, and Counted adds one to it.
LEMMA CountedCopy ==
    ASSUME TurnsOK, NEW t \in ChatTurn, Uncounted(t)
    PROVE  /\ turn[t].phase \in Answering /\ turn[t].phase \in Loaded
           /\ turn[t].copy \in SessionRow /\ CopyOK(turn[t].copy, session)
           /\ Counted(t) \in SessionRow /\ Counted(t).version = turn[t].copy.version
           /\ Counted(t).user = turn[t].copy.user
           /\ Counted(t).count = turn[t].copy.count + (IF Uncounted(t) THEN 1 ELSE 0)
<1>1. turn[t].phase \in Answering /\ turn[t].phase \in Loaded
  BY DEF Uncounted, Answering, Loaded
<1>2. turn[t].copy \in SessionRow /\ CopyOK(turn[t].copy, session)
  BY <1>1 DEF TurnsOK, TurnRow
<1> DEFINE copy == turn[t].copy
           more == copy.count + 1
<1>3. copy \in SessionRow /\ more \in Nat /\ more = copy.count + 1
  BY <1>2 DEF SessionRow
<1>4. Counted(t) = [copy EXCEPT !.count = more, !.fresh = TRUE]
  BY DEF Counted
<1> HIDE DEF copy, more
<1>5. /\ Counted(t) \in SessionRow /\ Counted(t).version = copy.version
      /\ Counted(t).user = copy.user /\ Counted(t).count = more
  BY <1>3, <1>4 DEF SessionRow
<1>6. QED
  BY <1>1, <1>2, <1>3, <1>5 DEF copy

LEMMA CountKeeps ==
    ASSUME ChatInv, NEW t \in ChatTurn, CountQuestion(t) \/ CountAnswer(t) PROVE ChatInv'
<1> USE DEF ChatInv
<1>1. PICK next \in {"refuse", "model", "none"} :
        Uncounted(t) /\ SaveSession(t, Counted(t), next) /\ UNCHANGED <<rate, message, uncounted, unexpiring>>
  BY DEF CountQuestion, CountAnswer, TurnAt, Uncounted
<1>2. /\ turn[t].phase \in Answering /\ turn[t].phase \in Loaded
      /\ turn[t].copy \in SessionRow /\ CopyOK(turn[t].copy, session)
      /\ Counted(t) \in SessionRow /\ Counted(t).version = turn[t].copy.version
      /\ Counted(t).count = turn[t].copy.count + (IF Uncounted(t) THEN 1 ELSE 0)
  BY <1>1, CountedCopy
<1>3. next \in Loaded \cup {"none"} /\ next \notin {"countQuestion", "countAnswer"}
  BY DEF Loaded, Answering
<1>4. QED
  BY <1>1, <1>2, <1>3, SaveKeeps

LEMMA RecordKeeps ==
    ASSUME ChatInv, NEW t \in ChatTurn, Ask(t) \/ AnswerQuestion(t) \/ Refuse(t) PROVE ChatInv'
<1> USE DEF ChatInv
<1>1. /\ turn[t].phase \in {"ask", "model", "refuse"}
      /\ UNCHANGED <<rate, session, slipped, uncounted, unexpiring, served>>
  BY DEF Ask, AnswerQuestion, Refuse, TurnAt
<1>2. turn[t].phase \in Loaded /\ ~Uncounted(t) /\ ~TurnAt(t, "expire")
  BY <1>1 DEF Loaded, Answering, Uncounted, TurnAt
<1>3. "user" \in Role /\ "assistant" \in Role /\ 0 \in Nat
  BY DEF Role
<1>4. /\ OneTurnMoves(t) /\ TurnsOK'
      /\ message' \in Seq(Spoken)
      /\ \/ Uncounted(t)' /\ Len(message') = Len(message) + 1
         \/ TurnAt(t, "none")' /\ message' = message
  <2>1. CASE Ask(t)
    <3>1. InsertMessage(t, "user", 0, "countQuestion")
      BY <2>1 DEF Ask
    <3>2. QED
      BY <1>1, <1>2, <1>3, <3>1, MessageIsRecorded DEF TurnAt, Uncounted
  <2>2. CASE AnswerQuestion(t)
    <3>1. turn[t].question \in Nat /\ InsertMessage(t, "assistant", turn[t].question, "countAnswer")
      BY <2>2 DEF AnswerQuestion, TurnAt, TurnsOK, TurnRow, Answering
    <3>2. QED
      BY <1>1, <1>2, <1>3, <3>1, MessageIsRecorded DEF TurnAt, Uncounted
  <2>3. CASE Refuse(t)
    <3>1. InsertMessage(t, "assistant", 0, "countAnswer")
      BY <2>3 DEF Refuse
    <3>2. QED
      BY <1>1, <1>2, <1>3, <3>1, MessageIsRecorded DEF TurnAt, Uncounted
  <2>4. QED
    BY <2>1, <2>2, <2>3
<1>5. EveryWindowEnds'
  BY <1>1, <1>2, <1>4, WindowsStay
<1>6. TranscriptOK'
  <2>1. /\ Cardinality(CountingTurns) \in Nat /\ session.count \in Nat
        /\ uncounted \in Nat /\ Len(message) \in Nat
    BY <1>4, CountingTurnsMove DEF RowsOK, SessionRow, TranscriptOK
  <2>2. CASE TurnAt(t, "none")' /\ message' = message
    BY <1>1, <1>2, <1>4, <2>2, TranscriptStays DEF TranscriptOK, TurnAt, Uncounted
  <2>3. CASE Uncounted(t)' /\ Len(message') = Len(message) + 1
    <3>1. Cardinality(CountingTurns') = Cardinality(CountingTurns) + 1
      BY <1>2, <1>4, <2>3, CountingTurnsMove
    <3>2. slipped \/ Len(message) <= session.count + uncounted + Cardinality(CountingTurns)
      BY DEF TranscriptOK
    <3>3. slipped \/ Len(message') <= session.count + uncounted + Cardinality(CountingTurns')
      BY <2>1, <2>3, <3>1, <3>2
    <3>4. QED
      BY <1>1, <1>4, <3>3 DEF TranscriptOK
  <2>4. QED
    BY <1>4, <2>2, <2>3
<1>7. QED
  BY <1>1, <1>4, <1>5, <1>6 DEF RowsOK

LEMMA CutKeeps == ASSUME ChatInv, NEW t \in ChatTurn, CutTurn(t) PROVE ChatInv'
<1> USE DEF ChatInv
<1>1. /\ uncounted' = uncounted + (IF Uncounted(t) THEN 1 ELSE 0)
      /\ unexpiring' = unexpiring \cup (IF TurnAt(t, "expire") THEN {turn[t].user} ELSE {})
      /\ EndTurn(t) /\ UNCHANGED <<rate, session, message, slipped>>
  BY DEF CutTurn
<1>2. OneTurnMoves(t) /\ TurnAt(t, "none")' /\ TurnRow(turn[t])'
  BY <1>1, TurnEnds
<1>3. TurnsOK'
  BY <1>1, <1>2, SessionIsLeftAlone DEF TurnAt, Loaded, Answering
<1>4. EveryWindowEnds'
  BY <1>1, <1>2 DEF EveryWindowEnds, OneTurnMoves, TurnAt
<1>5. TranscriptOK'
  <2>1. /\ Cardinality(CountingTurns) \in Nat /\ session.count \in Nat
        /\ uncounted \in Nat /\ Len(message) \in Nat
    BY <1>2, CountingTurnsMove DEF RowsOK, SessionRow, TranscriptOK
  <2>2. slipped \/ Len(message) <= session.count + uncounted + Cardinality(CountingTurns)
    BY DEF TranscriptOK
  <2>3. ~Uncounted(t)'
    BY <1>2 DEF TurnAt, Uncounted
  <2>4. CASE Uncounted(t)
    <3>1. Cardinality(CountingTurns') = Cardinality(CountingTurns) - 1 /\ uncounted' = uncounted + 1
      BY <1>1, <1>2, <2>3, <2>4, CountingTurnsMove
    <3>2. uncounted' \in Nat
      BY <2>1, <3>1
    <3>3. slipped \/ Len(message) <= session.count + uncounted' + Cardinality(CountingTurns')
      BY <2>1, <2>2, <3>1
    <3>4. QED
      BY <1>1, <3>2, <3>3 DEF TranscriptOK
  <2>5. CASE ~Uncounted(t)
    <3>1. uncounted' = uncounted
      BY <1>1, <2>1, <2>5
    <3>2. QED
      BY <1>1, <1>2, <2>3, <2>5, <3>1, TranscriptStays DEF TranscriptOK
  <2>6. QED
    BY <2>4, <2>5
<1>6. QED
  BY <1>1, <1>3, <1>4, <1>5 DEF RowsOK

\* The steps of no turn: Redis, the calendar and the retention job.
LEMMA RestKeeps ==
    ASSUME ChatInv, (\E c \in Caller : WindowEnds(c)) \/ GoStale \/ ApplyRetention
    PROVE  ChatInv'
<1> USE DEF ChatInv
<1>1. ASSUME NEW c \in Caller, WindowEnds(c) PROVE ChatInv'
  <2>1. rate \in [Caller -> [used : Nat, expires : BOOLEAN]]
    BY DEF RowsOK
  <2>2. /\ rate' = [rate EXCEPT ![c] = [used |-> 0, expires |-> FALSE]]
        /\ UNCHANGED <<session, message, turn, slipped, uncounted, unexpiring>>
    BY <1>1 DEF WindowEnds
  <2>3. RowsOK'
    BY <2>1, <2>2 DEF RowsOK
  <2>4. TurnsOK'
    BY <2>2 DEF TurnsOK
  <2>5. TranscriptOK'
    BY <2>2 DEF TranscriptOK, CountingTurns, Uncounted
  <2>6. EveryWindowEnds'
    BY <2>1, <2>2 DEF EveryWindowEnds, TurnAt
  <2>7. QED
    BY <2>3, <2>4, <2>5, <2>6
<1>2. ASSUME NEW s \in SessionRow, session' = s, s.id = session.id, session.id # 0,
             s.count = session.count, s.user = session.user, session'.version \in Nat,
             \/ s.version = session.version /\ message' = message
             \/ s.version > session.version /\ message' = <<>>,
             UNCHANGED <<rate, turn, slipped, uncounted, unexpiring>>
      PROVE  ChatInv'
  <2>1. RowsOK'
    BY <1>2 DEF RowsOK
  <2>2. EveryWindowEnds'
    BY <1>2 DEF EveryWindowEnds, TurnAt
  <2>3. TurnsOK'
    <3>1. ASSUME NEW t \in ChatTurn, turn[t].phase \in Loaded
          PROVE  CopyOK(turn[t].copy, session')
      <4>1. CopyOK(turn[t].copy, session) /\ turn[t].copy \in SessionRow /\ session \in SessionRow
        BY <3>1 DEF TurnsOK, TurnRow, RowsOK
      <4>2. turn[t].copy.version \in Nat /\ session.version \in Nat
        BY <4>1 DEF SessionRow
      <4>3. QED
        BY <1>2, <4>1, <4>2 DEF CopyOK
    <3>2. QED
      BY <1>2, <3>1 DEF TurnsOK
  <2>4. TranscriptOK'
    <3>1. CountingTurns' = CountingTurns
      BY <1>2 DEF CountingTurns, Uncounted
    <3>2. CASE message' = message
      BY <1>2, <3>1, <3>2 DEF TranscriptOK
    <3>3. CASE message' = <<>>
      <4>1. message' \in Seq(Spoken) /\ Len(message') = 0
        BY <3>3
      <4>2. Cardinality(CountingTurns) \in Nat /\ session'.count \in Nat
        BY <1>2, FinitelyManyTurns, FS_Subset, FS_CardinalityType DEF CountingTurns, SessionRow
      <4>3. uncounted' \in Nat /\ slipped' \in BOOLEAN
        BY <1>2 DEF TranscriptOK
      <4>4. Len(message') <= session'.count + uncounted' + Cardinality(CountingTurns')
        BY <3>1, <4>1, <4>2, <4>3
      <4>5. QED
        BY <4>1, <4>3, <4>4, Zenon DEF TranscriptOK
    <3>4. QED
      BY <1>2, <3>2, <3>3
  <2>5. QED
    BY <2>1, <2>2, <2>3, <2>4
<1>3. session \in SessionRow /\ (session.there => session.id # 0)
  BY DEF RowsOK, Unopened
<1>4. CASE GoStale
  <2> DEFINE s == [session EXCEPT !.fresh = FALSE]
  <2>1. /\ session.there /\ session' = s
        /\ UNCHANGED <<rate, message, turn, slipped, uncounted, unexpiring>>
    BY <1>4 DEF GoStale
  <2>2. /\ s \in SessionRow /\ s.id = session.id /\ s.count = session.count
        /\ s.user = session.user /\ s.version = session.version /\ s.version \in Nat
    BY <1>3 DEF SessionRow
  <2> HIDE DEF s
  <2>3. s.version = session.version /\ message' = message /\ session'.version \in Nat
    BY <2>1, <2>2
  <2>4. session.id # 0 /\ session' = s /\ UNCHANGED <<rate, turn, slipped, uncounted, unexpiring>>
    BY <1>3, <2>1
  <2>5. QED
    BY <1>2, <2>2, <2>3, <2>4
<1>5. CASE ApplyRetention
  <2> DEFINE version == session.version + 1
             s == [session EXCEPT !.there = FALSE, !.version = version]
  <2>1. /\ session.there /\ session' = s /\ message' = <<>>
        /\ UNCHANGED <<rate, turn, slipped, uncounted, unexpiring>>
    BY <1>5 DEF ApplyRetention
  <2>2. version \in Nat /\ version > session.version
    BY <1>3 DEF SessionRow
  <2> HIDE DEF version
  <2>3. /\ s \in SessionRow /\ s.id = session.id /\ s.count = session.count
        /\ s.user = session.user /\ s.version = version
    BY <1>3, <2>2 DEF SessionRow
  <2> HIDE DEF s
  <2>4. QED
    BY <1>2, <1>3, <2>1, <2>2, <2>3
<1>6. QED
  BY <1>1, <1>4, <1>5

LEMMA NextChatInv == ChatInv /\ [NextChat]_chatVars => ChatInv'
<1> SUFFICES ASSUME ChatInv, [NextChat]_chatVars PROVE ChatInv'
  OBVIOUS
<1>1. ASSUME NEW t \in ChatTurn, ReceiveMessage(t) \/ TurnStep(t) \/ CutTurn(t) PROVE ChatInv'
  <2>1. CASE ReceiveMessage(t)
    BY <2>1, ReceiveKeeps
  <2>2. CASE SetExpiry(t)
    BY <2>2, SetExpiryKeeps
  <2>3. CASE OpenSession(t)
    BY <2>3, OpenKeeps
  <2>4. CASE LoadSession(t)
    BY <2>4, LoadKeeps
  <2>5. CASE BindSession(t)
    BY <2>5, BindKeeps
  <2>6. CASE CountQuestion(t) \/ CountAnswer(t)
    BY <2>6, CountKeeps
  <2>7. CASE Ask(t) \/ AnswerQuestion(t) \/ Refuse(t)
    BY <2>7, RecordKeeps
  <2>8. CASE CutTurn(t)
    BY <2>8, CutKeeps
  <2>9. QED
    BY <1>1, <2>1, <2>2, <2>3, <2>4, <2>5, <2>6, <2>7, <2>8 DEF TurnStep
<1>2. CASE UNCHANGED chatVars
  BY <1>2 DEF chatVars, ChatInv, RowsOK, TurnsOK, TranscriptOK, EveryWindowEnds, CountingTurns,
              Uncounted, TurnAt
<1>3. QED
  BY <1>1, <1>2, RestKeeps DEF NextChat

\* ChatbotService.enforceRateLimit: a caller who has been counted is let in
\* again in the end, for any number of turns at once and any limit.
THEOREM EveryWindowEndsHolds == ChatSpec => []EveryWindowEnds
<1>1. ChatInv => EveryWindowEnds
  BY DEF ChatInv
<1>2. QED
  BY InitChatInv, NextChatInv, <1>1, PTL DEF ChatSpec

\* A turn that saves the session it last loaded leaves its customer to it.
LEMMA StepKeepsTheCustomer ==
    ASSUME ChatInv, NextChat
    PROVE  \/ session.user = Nobody \/ ~session.there \/ session'.user = session.user
           \/ \E t \in ChatTurn : turn'[t] # turn[t] /\ turn[t].copy.version # session.version
<1> DEFINE Goal == \/ session.user = Nobody \/ ~session.there \/ session'.user = session.user
                   \/ \E t \in ChatTurn : turn'[t] # turn[t] /\ turn[t].copy.version # session.version
<1> USE DEF ChatInv
<1>1. ASSUME NEW t \in ChatTurn, NEW copy \in SessionRow, NEW next \in {"ask", "refuse", "model", "none"},
             SaveSession(t, copy, next), turn[t].phase \in {"bind", "countQuestion", "countAnswer"},
             next \in Answering => turn[t].phase \in Answering,
             copy.user = turn[t].copy.user, CopyOK(turn[t].copy, session)
      PROVE  Goal
  <2>1. turn[t].phase \in Loaded /\ next \in Loaded \cup {"none"}
    BY <1>1 DEF Loaded, Answering
  <2>2. session'.user = copy.user /\ TurnAt(t, next)'
    BY <1>1, <2>1, SessionIsSaved
  <2>3. turn'[t] # turn[t]
    BY <1>1, <2>2 DEF TurnAt
  <2>4. QED
    BY <1>1, <2>2, <2>3 DEF CopyOK
<1>2. ASSUME NEW t \in ChatTurn, BindSession(t) PROVE Goal
  <2>1. turn[t].phase = "bind" /\ SaveSession(t, turn[t].copy, "ask")
    BY <1>2 DEF BindSession, TurnAt
  <2>2. turn[t].copy \in SessionRow /\ CopyOK(turn[t].copy, session)
    BY <2>1 DEF TurnsOK, TurnRow, Loaded, Answering
  <2>3. QED
    BY <1>1, <2>1, <2>2 DEF Answering
<1>3. ASSUME NEW t \in ChatTurn, CountQuestion(t) \/ CountAnswer(t) PROVE Goal
  <2>1. PICK next \in {"refuse", "model", "none"} : Uncounted(t) /\ SaveSession(t, Counted(t), next)
    BY <1>3 DEF CountQuestion, CountAnswer, TurnAt, Uncounted
  <2>2. /\ turn[t].phase \in Answering /\ CopyOK(turn[t].copy, session)
        /\ Counted(t) \in SessionRow /\ Counted(t).user = turn[t].copy.user
    BY <2>1, CountedCopy
  <2>3. QED
    BY <1>1, <2>1, <2>2 DEF Uncounted
<1>4. ASSUME NEW t \in ChatTurn, OpenSession(t) PROVE Goal
  BY <1>4 DEF OpenSession, RowsOK, Unopened
<1>5. ASSUME NEW t \in ChatTurn,
             \/ ReceiveMessage(t) \/ SetExpiry(t) \/ LoadSession(t) \/ Ask(t)
             \/ AnswerQuestion(t) \/ Refuse(t) \/ CutTurn(t)
      PROVE  Goal
  BY <1>5 DEF ReceiveMessage, SetExpiry, LoadSession, Ask, AnswerQuestion, Refuse, CutTurn
<1>6. ASSUME (\E c \in Caller : WindowEnds(c)) \/ GoStale \/ ApplyRetention PROVE Goal
  <2>1. session \in SessionRow
    BY DEF RowsOK
  <2>2. session'.user = session.user
    BY <1>6, <2>1 DEF WindowEnds, GoStale, ApplyRetention, SessionRow
  <2>3. QED
    BY <2>2
<1>7. QED
  BY <1>2, <1>3, <1>4, <1>5, <1>6 DEF NextChat, TurnStep

\* resolveSession and recordMessage, which saves the row as the turn loaded it:
\* only a turn that something overtook takes a conversation from its customer.
THEOREM OnlyOvertakenTurnsUnbindHolds == ChatSpec => OnlyOvertakenTurnsUnbind
<1>1. ChatInv /\ [NextChat]_chatVars
        => [\/ session.user = Nobody \/ ~session.there \/ session'.user = session.user
            \/ \E t \in ChatTurn : turn'[t] # turn[t] /\ turn[t].copy.version # session.version]_chatVars
  BY StepKeepsTheCustomer
<1>2. QED
  BY InitChatInv, NextChatInv, <1>1, PTL DEF ChatSpec, OnlyOvertakenTurnsUnbind

\* Only CountQuestion hands a question to the model.
LEMMA StepAsksWithinTheCap ==
    ASSUME ChatInv, NextChat, NEW t \in ChatTurn, ~TurnAt(t, "model"), turn'[t].phase = "model"
    PROVE  \/ slipped'
           \/ Len(message) <= Cap + uncounted + Cardinality({u \in ChatTurn \ {t} : Uncounted(u)})
<1> USE DEF ChatInv
<1>1. CountQuestion(t)
  <2>1. ASSUME NEW u \in ChatTurn, u # t, ReceiveMessage(u) \/ TurnStep(u) \/ CutTurn(u) PROVE FALSE
    <3>1. turn'[t] = turn[t]
      BY <2>1 DEF ReceiveMessage, TurnStep, CutTurn, SetExpiry, OpenSession, LoadSession, BindSession,
                  Ask, CountQuestion, AnswerQuestion, Refuse, CountAnswer, SaveSession, InsertMessage,
                  GoOn, EndTurn, TurnsOK
    <3>2. QED
      BY <3>1 DEF TurnAt
  <2>2. ASSUME (\E c \in Caller : WindowEnds(c)) \/ GoStale \/ ApplyRetention PROVE FALSE
    BY <2>2 DEF WindowEnds, GoStale, ApplyRetention, TurnAt
  <2>3. ReceiveMessage(t) \/ TurnStep(t) \/ CutTurn(t)
    BY <2>1, <2>2 DEF NextChat
  <2>4. ASSUME NEW phase, phase # "model", NEW memory, "phase" \notin DOMAIN memory, GoOn(t, phase, memory)
        PROVE  FALSE
    BY <2>4, TurnGoesOn DEF TurnAt
  <2>5. ~EndTurn(t)
    BY TurnEnds DEF TurnAt
  <2>6. \A s : DOMAIN [copy |-> s] = {"copy"} /\ DOMAIN [question |-> s] = {"question"}
    OBVIOUS
  <2>7. DOMAIN <<>> = {}
    OBVIOUS
  <2>8. ~ReceiveMessage(t)
    BY DEF ReceiveMessage, Outside, TurnsOK
  <2>9. ~SetExpiry(t)
    BY <2>4, <2>7 DEF SetExpiry
  <2>10. ~OpenSession(t) /\ ~LoadSession(t)
    BY <2>4, <2>5, <2>6 DEF OpenSession, LoadSession
  <2>11. ~BindSession(t) /\ ~CountAnswer(t)
    BY <2>4, <2>5, <2>6 DEF BindSession, CountAnswer, SaveSession
  <2>12. ~Ask(t) /\ ~AnswerQuestion(t) /\ ~Refuse(t)
    BY <2>4, <2>5, <2>6 DEF Ask, AnswerQuestion, Refuse, InsertMessage
  <2>13. QED
    BY <2>3, <2>5, <2>8, <2>9, <2>10, <2>11, <2>12 DEF TurnStep, CutTurn
<1> DEFINE Others == {u \in ChatTurn \ {t} : Uncounted(u)}
<1>2. Uncounted(t) /\ TurnAt(t, "countQuestion")
  BY <1>1 DEF CountQuestion, TurnAt, Uncounted
<1>3. /\ turn[t].phase \in Answering /\ turn[t].phase \in Loaded
      /\ turn[t].copy \in SessionRow /\ CopyOK(turn[t].copy, session)
      /\ Counted(t) \in SessionRow /\ Counted(t).version = turn[t].copy.version
      /\ Counted(t).count = turn[t].copy.count + (IF Uncounted(t) THEN 1 ELSE 0)
  BY <1>2, CountedCopy
<1>4. /\ Cardinality(CountingTurns) = Cardinality(Others) + 1
      /\ Cardinality(Others) \in Nat
  <2>1. Others = CountingTurns \ {t} /\ t \in CountingTurns
    BY <1>2 DEF CountingTurns
  <2>2. IsFiniteSet(CountingTurns)
    BY FinitelyManyTurns, FS_Subset DEF CountingTurns
  <2>3. IsFiniteSet(Others) /\ Cardinality(Others) = Cardinality(CountingTurns) - 1
    BY <2>1, <2>2, FS_RemoveElement
  <2>4. Cardinality(Others) \in Nat /\ Cardinality(CountingTurns) \in Nat
    BY <2>2, <2>3, FS_CardinalityType
  <2>5. QED
    BY <2>3, <2>4
<1>5. CASE IsSessionFull(Counted(t))
  <2>1. SaveSession(t, Counted(t), "refuse")
    BY <1>1, <1>5 DEF CountQuestion
  <2>2. TurnAt(t, "refuse")'
    BY <1>3, <2>1, SessionIsSaved DEF Loaded, Answering
  <2>3. QED
    BY <2>2 DEF TurnAt
<1>6. CASE ~IsSessionFull(Counted(t))
  <2>1. SaveSession(t, Counted(t), "model")
    BY <1>1, <1>6 DEF CountQuestion
  <2>2. slipped' = (slipped \/ session.version # Counted(t).version)
    BY <1>3, <2>1, SessionIsSaved DEF Loaded, Answering
  <2>3. slipped \/ Len(message) <= session.count + uncounted + Cardinality(CountingTurns)
    BY DEF TranscriptOK
  <2>4. /\ session.count \in Nat /\ uncounted \in Nat /\ Len(message) \in Nat /\ Cap \in Nat
    BY ChatBounds DEF RowsOK, SessionRow, TranscriptOK
  <2>5. CASE slipped'
    BY <2>5
  <2>6. CASE ~slipped'
    <3>1. Counted(t).count = session.count + 1
      BY <1>2, <1>3, <2>2, <2>6 DEF CopyOK
    <3>2. session.count + 1 <= Cap
      BY <1>6, <2>4, <3>1 DEF IsSessionFull
    <3>3. Len(message) <= session.count + uncounted + Cardinality(CountingTurns)
      BY <2>2, <2>3, <2>6
    <3>4. QED
      BY <1>4, <2>4, <3>2, <3>3
  <2>7. QED
    BY <2>5, <2>6
<1>7. QED
  BY <1>5, <1>6

\* recordMessage and isSessionFull: the count that is compared with the cap is
\* that of the whole transcript, but for what a cut or an overtaken save lost.
THEOREM ModelIsAskedWithinTheCapHolds == ChatSpec => ModelIsAskedWithinTheCap
<1>1. ChatInv /\ [NextChat]_chatVars
        => [\A t \in ChatTurn :
              \/ TurnAt(t, "model") \/ turn'[t].phase # "model"
              \/ slipped'
              \/ Len(message) <= Cap + uncounted + Cardinality({u \in ChatTurn \ {t} : Uncounted(u)})]_chatVars
  BY StepAsksWithinTheCap
<1>2. QED
  BY InitChatInv, NextChatInv, <1>1, PTL DEF ChatSpec, ModelIsAskedWithinTheCap
-----------------------------------------------------------------------------
\* The tools of one turn.

ToolsSpec == InitTools /\ [][NextTools]_toolVars

Tool == {"search", "details", "faq", "store", "orders", "order", "signIn", "none"}
Outcomes == {"none", "answered", "needs_login", "unanswered", "off_topic", "error"}

\* What a call of a round has in hand.
CallOK(c) ==
    /\ c.tool \in Tool
    /\ c.tool = "none" \/ c.at = "called"
       \/ (c.at = "pointed" /\ c.tool \in {"search", "faq"}
           /\ c.hits \subseteq IF c.tool = "search" THEN Ware ELSE Entry)

AgentOK ==
    /\ agent \in [phase : {"agent", "tools", "answered", "failed", "loading", "done"},
                  round : Nat, signedIn : BOOLEAN]
    /\ DOMAIN running = 1..MaxCalls
    /\ \A i \in 1..MaxCalls : CallOK(running[i])
    /\ agent.phase # "tools" => Busy = {}

\* ChatTurnSources
Noted == [products : Seq(Ware), faqs : SUBSET Entry, order : Receipt \cup {"none"},
          hits : Nat, calls : Nat, signIn : BOOLEAN]

\* What is noted was told, and a hit is counted with the first thing that is.
SourcesOK ==
    /\ sources \in Noted
    /\ ToSet(sources.products) \cup sources.faqs \subseteq told
    /\ sources.order # "none" => sources.order \in told
    /\ sources.hits = 0 <=> told = {}

\* The reply is empty until the turn is decided, and then as the sources are.
ReplyOK ==
    /\ reply \in [outcome : Outcomes, cards : SUBSET Ware, cited : SUBSET Entry, order : Receipt \cup {"none"}]
    /\ agent.phase \notin {"loading", "done"} => reply = NoReply
    /\ agent.phase = "loading" => reply.outcome # "error"
    /\ agent.phase # "done" \/ reply.outcome = "error" => reply.cards = {} /\ reply.cited = {} /\ reply.order = "none"
    /\ agent.round >= MaxRounds =>
         agent.phase = "failed" \/ (agent.phase = "done" /\ reply.outcome = "error")
    /\ reply.outcome = "answered" => sources.hits # 0 /\ ~sources.signIn
    /\ reply.outcome \in {"unanswered", "off_topic"} => sources.hits = 0
    /\ agent.phase = "done" =>
         /\ reply.cards \subseteq ToSet(sources.products) /\ reply.cited \subseteq sources.faqs
         /\ reply.order # "none" => agent.signedIn /\ reply.order = sources.order

ToolsInv == AgentOK /\ SourcesOK /\ ReplyOK

LEMMA ToolsInvIsEnough == ToolsInv => RecordedAsTheToolsDid
<1> SUFFICES ASSUME ToolsInv PROVE RecordedAsTheToolsDid
  OBVIOUS
<1>1. ToSet(sources.products) \cup sources.faqs \subseteq told
  BY DEF ToolsInv, SourcesOK
<1>2. reply.cards \cup reply.cited \subseteq ToSet(sources.products) \cup sources.faqs
  BY DEF ToolsInv, ReplyOK
<1>3. reply.order # "none" => agent.signedIn /\ reply.order \in told
  BY DEF ToolsInv, ReplyOK, SourcesOK
<1>4. reply.outcome \in {"unanswered", "off_topic"} =>
        told = {} /\ reply.cards \cup reply.cited = {} /\ reply.order = "none"
  BY <1>1, <1>2, <1>3 DEF ToolsInv, ReplyOK, SourcesOK
<1>5. reply.outcome = "answered" => told # {} /\ ~sources.signIn
  BY DEF ToolsInv, ReplyOK, SourcesOK
<1>6. reply.outcome # "none" /\ agent.round >= MaxRounds => reply.outcome = "error"
  BY DEF ToolsInv, ReplyOK, NoReply
<1>7. QED
  BY <1>1, <1>2, <1>3, <1>4, <1>5, <1>6 DEF RecordedAsTheToolsDid

LEMMA InitToolsInv == InitTools => ToolsInv
<1> SUFFICES ASSUME InitTools PROVE ToolsInv
  OBVIOUS
<1>1. AgentOK
  BY DEF InitTools, AgentOK, CallOK, NoCalls, Tool, Busy
<1>2. SourcesOK
  <2>1. <<>> \in Seq(Ware) /\ ToSet(<<>>) = {}
    BY DEF ToSet
  <2>2. QED
    BY <2>1 DEF InitTools, SourcesOK, Noted, NoSources
<1>3. ReplyOK
  BY ToolBounds DEF InitTools, ReplyOK, NoReply, Outcomes
<1>4. QED
  BY <1>1, <1>2, <1>3 DEF ToolsInv

-----------------------------------------------------------------------------
\* The tools' notes.

\* What is remembered is what there was and what was found.
LEMMA RememberedWares ==
    ASSUME SourcesOK, NEW found \in SUBSET Ware, NEW products \in Remembered(found)
    PROVE  products \in Seq(Ware) /\ ToSet(products) \subseteq ToSet(sources.products) \cup found
<1>1. PICK fresh \in SetToSeqs(found \ ToSet(sources.products)) : products = sources.products \o fresh
  BY DEF Remembered
<1>2. PICK n : n = Cardinality(found \ ToSet(sources.products))
  OBVIOUS
<1>3. n \in Nat
  BY <1>2, WaresAreFinite, FS_Subset, FS_CardinalityType
<1>4. fresh \in [1..n -> found \ ToSet(sources.products)]
  BY <1>1, <1>2 DEF SetToSeqs
<1>5. fresh \in Seq(Ware) /\ Len(fresh) = n
  BY <1>3, <1>4
<1>6. sources.products \in Seq(Ware)
  BY DEF SourcesOK, Noted
<1>7. products \in Seq(Ware)
  BY <1>1, <1>5, <1>6
<1>8. ASSUME NEW k \in DOMAIN products PROVE products[k] \in ToSet(sources.products) \cup found
  BY <1>1, <1>3, <1>4, <1>5, <1>6, <1>8 DEF ToSet
<1>9. QED
  BY <1>7, <1>8 DEF ToSet

\* A call that returns its note leaves the others theirs.
LEMMA ANoteKeeps ==
    ASSUME ToolsInv, NEW i \in 1..MaxCalls, running[i].tool # "none", NEW found, NEW noted, Note(i, found, noted),
           noted \in Noted,
           ToSet(noted.products) \subseteq ToSet(sources.products) \cup found,
           noted.faqs \subseteq sources.faqs \cup found,
           noted.order # "none" => noted.order \in {sources.order} \cup found,
           noted.hits = IF found = {} THEN sources.hits ELSE sources.hits + 1
    PROVE  ToolsInv'
<1>1. agent.phase = "tools"
  BY DEF ToolsInv, AgentOK, Busy
<1>2. AgentOK'
  <2>1. \A j \in 1..MaxCalls : CallOK(running'[j])
    BY DEF ToolsInv, AgentOK, Note, Return, CallOK, Tool
  <2>2. QED
    BY <1>1, <2>1 DEF ToolsInv, AgentOK, Note, Return, Busy
<1>3. SourcesOK'
  BY DEF ToolsInv, SourcesOK, Noted, Note
<1>4. ReplyOK'
  BY <1>1 DEF ToolsInv, ReplyOK, Note, NoReply
<1>5. QED
  BY <1>2, <1>3, <1>4 DEF ToolsInv

LEMMA ToolsKeep ==
    ASSUME ToolsInv, NEW i \in 1..MaxCalls,
           \/ SearchProducts(i) \/ SearchFaq(i)
           \/ \E g \in Ware : GetProduct(i, g)
           \/ GetStoreInfo(i)
           \/ \E order \in Receipt \cup {"none"} : GetOrder(i, order)
           \/ RequireSignIn(i) \/ ToolFails(i)
    PROVE  ToolsInv'
<1>1. SourcesOK /\ sources \in Noted
  BY DEF ToolsInv, SourcesOK
<1>2. running[i].tool # "none"
  BY DEF CallAt, SearchProducts, SearchFaq, GetProduct, GetStoreInfo, GetOrder, RequireSignIn, ToolFails
<1>3. CallOK(running[i])
  BY DEF ToolsInv, AgentOK
<1>4. PICK calls : calls = sources.calls + 1
  OBVIOUS
<1>5. calls \in Nat
  BY <1>1, <1>4 DEF Noted
<1>6. \A found : \E hits \in Nat : hits = Hit(found) /\ hits = IF found = {} THEN sources.hits ELSE sources.hits + 1
  BY <1>1 DEF Hit, Noted
<1>7. CASE SearchProducts(i)
  <2>1. PICK found : found = Live(running[i].hits)
    OBVIOUS
  <2>2. found \subseteq Ware
    BY <1>3, <1>7, <2>1 DEF SearchProducts, CallAt, CallOK, Live
  <2>3. PICK products \in Remembered(found) :
          Note(i, found, [sources EXCEPT !.products = products, !.hits = Hit(found)])
    BY <1>7, <2>1 DEF SearchProducts
  <2>4. products \in Seq(Ware) /\ ToSet(products) \subseteq ToSet(sources.products) \cup found
    BY <1>1, <2>2, <2>3, RememberedWares
  <2>5. PICK hits \in Nat : hits = Hit(found) /\ hits = IF found = {} THEN sources.hits ELSE sources.hits + 1
    BY <1>6
  <2>6. PICK noted : noted = [sources EXCEPT !.products = products, !.hits = hits]
    OBVIOUS
  <2>7. /\ noted \in Noted /\ noted.products = products /\ noted.faqs = sources.faqs
        /\ noted.order = sources.order /\ noted.hits = hits
    BY <1>1, <2>4, <2>6 DEF Noted
  <2>8. QED
    BY <1>2, <2>3, <2>4, <2>5, <2>6, <2>7, ANoteKeeps
<1>8. CASE SearchFaq(i)
  <2>1. PICK found : found = Live(running[i].hits)
    OBVIOUS
  <2>2. found \subseteq Entry
    BY <1>3, <1>8, <2>1 DEF SearchFaq, CallAt, CallOK, Live
  <2>3. PICK hits \in Nat : hits = Hit(found) /\ hits = IF found = {} THEN sources.hits ELSE sources.hits + 1
    BY <1>6
  <2>4. PICK faqs \in SUBSET Entry : faqs = sources.faqs \cup found
    BY <1>1, <2>2 DEF Noted
  <2>5. PICK noted : noted = [sources EXCEPT !.faqs = faqs, !.hits = hits]
    OBVIOUS
  <2>6. Note(i, found, noted)
    BY <1>8, <2>1, <2>3, <2>4, <2>5 DEF SearchFaq
  <2>7. /\ noted \in Noted /\ noted.products = sources.products /\ noted.faqs = faqs
        /\ noted.order = sources.order /\ noted.hits = hits
    BY <1>1, <2>5 DEF Noted
  <2>8. QED
    BY <1>2, <2>3, <2>4, <2>6, <2>7, ANoteKeeps
<1>9. ASSUME NEW g \in Ware, GetProduct(i, g) PROVE ToolsInv'
  <2>1. PICK found : found = Live({g})
    OBVIOUS
  <2>2. found \subseteq Ware
    BY <2>1 DEF Live
  <2>3. PICK products \in Remembered(found) :
          Note(i, found, [sources EXCEPT !.products = products, !.hits = Hit(found), !.calls = @ + 1])
    BY <1>9, <2>1 DEF GetProduct
  <2>4. products \in Seq(Ware) /\ ToSet(products) \subseteq ToSet(sources.products) \cup found
    BY <1>1, <2>2, <2>3, RememberedWares
  <2>5. PICK hits \in Nat : hits = Hit(found) /\ hits = IF found = {} THEN sources.hits ELSE sources.hits + 1
    BY <1>6
  <2>6. PICK noted : noted = [sources EXCEPT !.products = products, !.hits = hits, !.calls = calls]
    OBVIOUS
  <2>7. /\ noted \in Noted /\ noted.products = products /\ noted.faqs = sources.faqs
        /\ noted.order = sources.order /\ noted.hits = hits
    BY <1>1, <1>5, <2>4, <2>6 DEF Noted
  <2>8. Note(i, found, noted)
    BY <1>4, <2>3, <2>5, <2>6
  <2>9. QED
    BY <1>2, <2>4, <2>5, <2>7, <2>8, ANoteKeeps
<1>10. CASE GetStoreInfo(i)
  <2>1. PICK hits \in Nat : hits = sources.hits + 1
    BY <1>1 DEF Noted
  <2>2. PICK noted : noted = [sources EXCEPT !.hits = hits, !.calls = calls]
    OBVIOUS
  <2>3. Note(i, {"store"}, noted)
    BY <1>4, <1>10, <2>1, <2>2 DEF GetStoreInfo
  <2>4. /\ noted \in Noted /\ noted.products = sources.products /\ noted.faqs = sources.faqs
        /\ noted.order = sources.order /\ noted.hits = hits
    BY <1>1, <1>5, <2>2 DEF Noted
  <2>5. QED
    BY <1>2, <2>1, <2>3, <2>4, ANoteKeeps
<1>11. ASSUME NEW order \in Receipt \cup {"none"}, GetOrder(i, order) PROVE ToolsInv'
  <2>1. PICK found : found = {order} \ {"none"}
    OBVIOUS
  <2>2. PICK hits \in Nat : hits = Hit(found) /\ hits = IF found = {} THEN sources.hits ELSE sources.hits + 1
    BY <1>6
  <2>3. PICK kept \in Receipt \cup {"none"} : kept = IF order = "none" THEN sources.order ELSE order
    BY <1>1 DEF Noted
  <2>4. PICK noted : noted = [sources EXCEPT !.order = kept, !.hits = hits, !.calls = calls]
    OBVIOUS
  <2>5. Note(i, found, noted)
    BY <1>4, <1>11, <2>1, <2>2, <2>3, <2>4 DEF GetOrder
  <2>6. /\ noted \in Noted /\ noted.products = sources.products /\ noted.faqs = sources.faqs
        /\ noted.order = kept /\ noted.hits = hits
    BY <1>1, <1>5, <2>4 DEF Noted
  <2>7. kept # "none" => kept \in {sources.order} \cup found
    BY <2>1, <2>3
  <2>8. QED
    BY <1>2, <2>2, <2>5, <2>6, <2>7, ANoteKeeps
<1>12. CASE RequireSignIn(i) \/ ToolFails(i)
  <2>1. PICK noted : Note(i, {}, noted) /\ noted \in
          {[sources EXCEPT !.signIn = TRUE, !.calls = calls], [sources EXCEPT !.calls = calls], sources}
    BY <1>4, <1>12 DEF RequireSignIn, ToolFails
  <2>2. /\ noted \in Noted /\ noted.products = sources.products /\ noted.faqs = sources.faqs
        /\ noted.order = sources.order /\ noted.hits = sources.hits
    BY <1>1, <1>5, <2>1 DEF Noted
  <2>3. QED
    BY <1>2, <2>1, <2>2, ANoteKeeps
<1>13. QED
  BY <1>7, <1>8, <1>9, <1>10, <1>11, <1>12

-----------------------------------------------------------------------------
\* The agent's loop, the retrieval and the reply.

LEMMA LoopKeeps ==
    ASSUME ToolsInv, \/ \E n \in 1..MaxCalls : \E tools \in [1..n -> Tools(agent.signedIn) \cup {"none"}] : CallTools(tools)
                     \/ EndRound \/ Speak
    PROVE  ToolsInv'
<1>1. SourcesOK'
  BY DEF ToolsInv, SourcesOK, CallTools, EndRound, Speak
<1>2. CASE EndRound \/ Speak
  <2>1. AgentOK'
    BY <1>2 DEF ToolsInv, AgentOK, EndRound, Speak, Busy, CallOK
  <2>2. ReplyOK'
    BY <1>2 DEF ToolsInv, AgentOK, ReplyOK, EndRound, Speak, NoReply
  <2>3. QED
    BY <1>1, <2>1, <2>2 DEF ToolsInv
<1>3. ASSUME NEW n \in 1..MaxCalls, NEW tools \in [1..n -> Tools(agent.signedIn) \cup {"none"}], CallTools(tools)
      PROVE  ToolsInv'
  <2>1. \A i \in 1..MaxCalls : CallOK(Asks(tools)[i])
    BY <1>3 DEF Asks, NoCalls, CallOK, Tools, Tool
  <2>2. AgentOK'
    <3>1. agent.round + 1 \in Nat /\ DOMAIN Asks(tools) = 1..MaxCalls
      BY DEF ToolsInv, AgentOK, Asks
    <3>2. CASE IsExhausted(agent.round + 1)
      BY <1>3, <3>1, <3>2 DEF ToolsInv, AgentOK, CallTools, Busy
    <3>3. CASE ~IsExhausted(agent.round + 1)
      BY <1>3, <2>1, <3>1, <3>3 DEF ToolsInv, AgentOK, CallTools
    <3>4. QED
      BY <3>2, <3>3
  <2>3. ReplyOK'
    BY <1>3, ToolBounds DEF ToolsInv, AgentOK, ReplyOK, CallTools, IsExhausted, NoReply
  <2>4. QED
    BY <1>1, <2>2, <2>3 DEF ToolsInv
<1>4. QED
  BY <1>2, <1>3

LEMMA RetrieveKeeps ==
    ASSUME ToolsInv, (\E x \in Ware \cup Entry : Hide(x)) \/ (\E i \in 1..MaxCalls : Retrieve(i))
    PROVE  ToolsInv'
<1>1. CASE \E x \in Ware \cup Entry : Hide(x)
  BY <1>1 DEF Hide, ToolsInv, AgentOK, SourcesOK, ReplyOK, Busy, CallOK
<1>2. ASSUME NEW i \in 1..MaxCalls, Retrieve(i) PROVE ToolsInv'
  <2>1. running[i].tool \in {"search", "faq"} /\ agent.phase = "tools"
    BY <1>2 DEF Retrieve, CallAt, ToolsInv, AgentOK, Busy
  <2>2. PICK near \in FoundByMeaning(running[i].tool), worded \in FoundByWords(running[i].tool) :
          running' = [running EXCEPT ![i] = [tool |-> @.tool, at |-> "pointed", hits |-> near \cup worded]]
    BY <1>2 DEF Retrieve
  <2>3. near \cup worded \subseteq IF running[i].tool = "search" THEN Ware ELSE Entry
    BY <2>1 DEF FoundByMeaning, FoundByWords
  <2>4. \A j \in 1..MaxCalls : CallOK(running'[j])
    BY <2>1, <2>2, <2>3 DEF ToolsInv, AgentOK, CallOK, Tool
  <2>5. AgentOK'
    BY <1>2, <2>1, <2>2, <2>4 DEF ToolsInv, AgentOK, Retrieve, Busy
  <2>6. SourcesOK'
    <3>1. PICK calls \in Nat : calls = sources.calls + 1
      BY DEF ToolsInv, SourcesOK, Noted
    <3>2. sources' = [sources EXCEPT !.calls = calls] /\ told' = told
      BY <1>2, <3>1 DEF Retrieve
    <3>3. /\ sources' \in Noted /\ sources'.products = sources.products /\ sources'.faqs = sources.faqs
          /\ sources'.order = sources.order /\ sources'.hits = sources.hits
      BY <3>2 DEF ToolsInv, SourcesOK, Noted
    <3>4. QED
      BY <3>2, <3>3 DEF ToolsInv, SourcesOK
  <2>7. ReplyOK'
    BY <1>2, <2>1 DEF ToolsInv, SourcesOK, Noted, ReplyOK, Retrieve, NoReply
  <2>8. QED
    BY <2>5, <2>6, <2>7 DEF ToolsInv
<1>3. QED
  BY <1>1, <1>2

LEMMA ReplyKeeps == ASSUME ToolsInv, Resolve \/ LoadReply PROVE ToolsInv'
<1>1. SourcesOK'
  BY DEF ToolsInv, SourcesOK, Resolve, LoadReply
<1>2. CASE Resolve
  <2>1. PICK outcome : outcome = Outcome(agent.phase = "failed", sources)
    OBVIOUS
  <2>2. /\ outcome \in Outcomes /\ outcome # "none"
        /\ agent.phase = "failed" => outcome = "error"
        /\ outcome = "answered" => sources.hits # 0 /\ ~sources.signIn
        /\ outcome \in {"unanswered", "off_topic"} => sources.hits = 0
    BY <2>1 DEF Outcome, Outcomes, ToolsInv, SourcesOK, Noted
  <2>3. AgentOK'
    BY <1>2, <2>1 DEF ToolsInv, AgentOK, Resolve, Busy
  <2>4. ReplyOK'
    BY <1>2, <2>1, <2>2 DEF ToolsInv, AgentOK, ReplyOK, Resolve, NoReply
  <2>5. QED
    BY <1>1, <2>3, <2>4 DEF ToolsInv
<1>3. CASE LoadReply
  <2>1. Live(Shortlist) \subseteq ToSet(sources.products) /\ Live(sources.faqs) \subseteq sources.faqs
    BY DEF Live, Shortlist, ToSet
  <2>2. ToSet(sources.products) \subseteq Ware /\ sources.faqs \subseteq Entry
    BY DEF ToSet, ToolsInv, SourcesOK, Noted
  <2>3. AgentOK'
    BY <1>3 DEF ToolsInv, AgentOK, LoadReply, Busy
  <2>4. PICK cards, cited, order :
          /\ reply' = [reply EXCEPT !.cards = cards, !.cited = cited, !.order = order]
          /\ cards = Live(Shortlist) /\ cited = Live(sources.faqs)
          /\ order = IF agent.signedIn THEN sources.order ELSE "none"
    BY <1>3 DEF LoadReply
  <2>5. /\ cards \in SUBSET Ware /\ cited \in SUBSET Entry /\ order \in Receipt \cup {"none"}
        /\ order # "none" => agent.signedIn /\ order = sources.order
    BY <2>1, <2>2, <2>4 DEF ToolsInv, SourcesOK, Noted
  <2>6. /\ reply'.outcome = reply.outcome /\ reply'.cards = cards /\ reply'.cited = cited /\ reply'.order = order
        /\ reply' \in [outcome : Outcomes, cards : SUBSET Ware, cited : SUBSET Entry, order : Receipt \cup {"none"}]
    BY <2>4, <2>5 DEF ToolsInv, ReplyOK
  <2>7. agent.phase = "loading" /\ agent' = [agent EXCEPT !.phase = "done"] /\ sources' = sources
    BY <1>3 DEF LoadReply
  <2>8. /\ agent'.phase = "done" /\ agent'.round = agent.round /\ agent'.signedIn = agent.signedIn
        /\ reply.outcome # "error"
    BY <2>7 DEF ToolsInv, AgentOK, ReplyOK
  <2>9. ReplyOK'
    BY <2>1, <2>4, <2>5, <2>6, <2>7, <2>8 DEF ToolsInv, ReplyOK
  <2>10. QED
    BY <1>1, <2>3, <2>9 DEF ToolsInv
<1>4. QED
  BY <1>2, <1>3

LEMMA NextToolsInv == ToolsInv /\ [NextTools]_toolVars => ToolsInv'
<1> SUFFICES ASSUME ToolsInv, [NextTools]_toolVars PROVE ToolsInv'
  OBVIOUS
<1>1. CASE UNCHANGED toolVars
  BY <1>1 DEF toolVars, ToolsInv, AgentOK, SourcesOK, ReplyOK, Busy, CallOK
<1>2. CASE NextTools
  BY <1>2, ToolsKeep, LoopKeeps, RetrieveKeeps, ReplyKeeps DEF NextTools
<1>3. QED
  BY <1>1, <1>2

\* Whatever tools the model calls for and however the calls of a round interleave
\* with one another and with the owner's edits, the outcome resolveOutcome gives
\* a turn is what its tools did, and its reply shows nothing they did not return.
THEOREM RecordedAsTheToolsDidHolds == ToolsSpec => []RecordedAsTheToolsDid
<1>1. QED
  BY InitToolsInv, NextToolsInv, ToolsInvIsEnough, PTL DEF ToolsSpec

-----------------------------------------------------------------------------
\* The unanswered questions of DemandFeed.

FeedSpec == InitFeed /\ [][NextFeed]_feedVars

\* No row is in a cluster named like a phrase, nor will be after this night.
IsCluster(key) == key = NoCluster \/ \E p : key = Clustered(p)

AnswersOK ==
    /\ \E S : answers \in Seq(S)
    /\ \A m \in Asked : /\ DOMAIN answers[m] = {"phrase", "cluster", "reviewed"}
                        /\ answers[m].reviewed \in BOOLEAN /\ IsCluster(answers[m].cluster)
    /\ aged \in 0..Len(answers)

NightOK ==
    /\ \E S : night \in Seq(S)
    /\ \A i \in DOMAIN night : IsCluster(night[i].key)

\* Answer i is so new that whoever reads from the feed's window on reads it.
StillRead(i) == i > aged /\ Cardinality({n \in Asked : n > i}) < MaxRows

\* Of the answers to one phrase the older are reviewed first; so will a review
\* under way leave them.
ReviewedFirst ==
    \A i, j \in Asked :
        i < j /\ StillRead(i) /\ answers[i].phrase = answers[j].phrase
          => /\ answers[j].reviewed => answers[i].reviewed
             /\ j \in theme.rows => i \in theme.rows

FeedInv ==
    /\ AnswersOK /\ NightOK
    /\ theme.rows \subseteq Asked
    /\ ReviewedFirst
    /\ AReviewTakesTheWholeTheme

\* Of some answers there are no fewer than of some of them.
LEMMA NoFewer ==
    ASSUME NEW k \in Nat, NEW T, T \subseteq 1..k, NEW S, S \subseteq T
    PROVE  Cardinality(S) \in Nat /\ Cardinality(T) \in Nat /\ Cardinality(S) <= Cardinality(T)
<1>1. IsFiniteSet(1..k)
  BY FS_Interval
<1>2. IsFiniteSet(T)
  BY <1>1, FS_Subset
<1>3. IsFiniteSet(S) /\ Cardinality(S) <= Cardinality(T)
  BY <1>2, FS_Subset
<1>4. QED
  BY <1>2, <1>3, FS_CardinalityType

\* What AnswersOK says of their number and of each of them.
LEMMA AnswersAre ==
    ASSUME AnswersOK
    PROVE  /\ Len(answers) \in Nat /\ Asked = DOMAIN answers /\ Asked \subseteq Nat
           /\ aged \in Nat /\ aged <= Len(answers)
           /\ MaxRows \in Nat
BY FeedBounds DEF AnswersOK, Asked

\* The newest rows that a review reads are all those that are still read.
LEMMA ReadFromTheWindow ==
    ASSUME AnswersOK, NEW m \in Asked, NEW i \in Asked, StillRead(i)
    PROVE  /\ i \in ReviewRows(m)
           /\ i <= m => m \in ReviewRows(m)
<1> DEFINE from == Min({aged, m - 1})
           newer(rows, j) == {n \in rows : n > j}
<1>1. /\ Len(answers) \in Nat /\ Asked = 1..Len(answers) /\ MaxRows \in Nat
      /\ aged \in Nat /\ m \in Nat /\ i \in Nat /\ m > 0
  BY AnswersAre DEF Asked
<1>2. from \in {aged, m - 1} /\ from <= aged /\ from <= m - 1
  <2> DEFINE P(x) == x \in {aged, m - 1} /\ \A y \in {aged, m - 1} : x <= y
  <2>1. \E x : P(x)
    <3>1. P(aged) \/ P(m - 1)
      BY <1>1
    <3>2. QED
      BY <3>1
  <2>2. from = CHOOSE x \in {aged, m - 1} : \A y \in {aged, m - 1} : x <= y
    BY Zenon DEF Min
  <2>3. P(from)
    BY <2>1, <2>2, Zenon
  <2>4. QED
    BY <2>3
<1>3. i \in ReviewWindow(m) /\ m \in ReviewWindow(m) /\ ReviewWindow(m) \subseteq Asked
  BY <1>1, <1>2 DEF ReviewWindow, Since, StillRead
<1>4. ASSUME NEW j \in ReviewWindow(m), i <= j PROVE j \in ReviewRows(m)
  <2>1. newer(ReviewWindow(m), j) \subseteq newer(Asked, i) /\ newer(Asked, i) \subseteq 1..Len(answers)
    BY <1>1, <1>3, <1>4
  <2> DEFINE S == newer(ReviewWindow(m), j)
             T == newer(Asked, i)
  <2>2. Cardinality(T) < MaxRows
    BY DEF StillRead
  <2> HIDE DEF S, T
  <2>3. Cardinality(S) \in Nat /\ Cardinality(T) \in Nat /\ Cardinality(S) <= Cardinality(T)
    BY <1>1, <2>1, NoFewer DEF S, T
  <2>4. Cardinality(S) < MaxRows
    BY <1>1, <2>2, <2>3
  <2>5. QED
    BY <2>4 DEF ReviewRows, Newest, S
<1>5. QED
  BY <1>1, <1>3, <1>4

\* The feed shows what is unreviewed of a window that is read as a whole.
LEMMA FeedShowsTheUnreviewed ==
    ASSUME AnswersOK, NEW m \in FeedRows, ReviewRows(m) = ReviewWindow(m)
    PROVE  /\ ReviewRows(m) = Since(aged) /\ m \in Since(aged)
           /\ FeedRows = Unreviewed(Since(aged))
           /\ \A i \in Since(aged) : StillRead(i)
<1> DEFINE W == Since(aged)
           newer(rows, j) == {n \in rows : n > j}
<1>1. m \in W /\ FeedRows \subseteq Unreviewed(W) /\ Unreviewed(W) \subseteq W /\ W \subseteq Asked
  BY DEF FeedRows, Newest, Unreviewed, Since
<1>2. /\ Len(answers) \in Nat /\ Asked = 1..Len(answers) /\ MaxRows \in Nat
      /\ aged \in Nat /\ m \in Nat /\ m > aged
  BY <1>1, AnswersAre DEF Asked, Since
<1>3. Min({aged, m - 1}) = aged
  BY <1>2 DEF Min
<1>4. ReviewWindow(m) = W /\ ReviewRows(m) = W
  BY <1>3 DEF ReviewWindow
<1>5. \A i \in W : Cardinality(newer(W, i)) < MaxRows
  BY <1>4 DEF ReviewRows, Newest
<1>6. \A i \in W : StillRead(i)
  <2> SUFFICES ASSUME NEW i \in W PROVE StillRead(i)
    OBVIOUS
  <2>1. newer(W, i) = newer(Asked, i)
    BY <1>1, <1>2 DEF Since
  <2>2. i > aged
    BY DEF Since
  <2>3. QED
    BY <1>5, <2>1, <2>2 DEF StillRead
<1>7. ASSUME NEW i \in Unreviewed(W) PROVE i \in FeedRows
  <2> DEFINE S == newer(Unreviewed(W), i)
             T == newer(W, i)
  <2>1. S \subseteq T /\ T \subseteq 1..Len(answers)
    BY <1>1, <1>2
  <2>2. Cardinality(T) < MaxRows
    BY <1>1, <1>5, <1>7
  <2> HIDE DEF S, T
  <2>3. Cardinality(S) \in Nat /\ Cardinality(T) \in Nat /\ Cardinality(S) <= Cardinality(T)
    BY <1>2, <2>1, NoFewer
  <2>4. Cardinality(S) < MaxRows
    BY <1>2, <2>2, <2>3
  <2>5. QED
    BY <1>7, <2>4 DEF FeedRows, Newest, S
<1>8. QED
  BY <1>1, <1>4, <1>6, <1>7

\* A phrase that the feed puts in a cluster is put in it by the whole window too.
LEMMA SameCluster ==
    ASSUME AnswersOK, ReviewedFirst, NEW p,
           \A i \in Since(aged) : StillRead(i),
           Keyed(Bucket(Unreviewed(Since(aged)), p)) # {}
    PROVE  /\ GroupKey(Since(aged), p) = GroupKey(Unreviewed(Since(aged)), p)
           /\ \E q : GroupKey(Since(aged), p) = Clustered(q)
<1> DEFINE K == Keyed(Bucket(Since(aged), p))
           U == Keyed(Bucket(Unreviewed(Since(aged)), p))
<1>1. /\ U \subseteq K /\ K \subseteq Asked
      /\ \A i \in K : /\ answers[i].phrase = p /\ StillRead(i) /\ answers[i].cluster # NoCluster
                      /\ ~answers[i].reviewed => i \in U
      /\ \A i \in U : ~answers[i].reviewed
  BY DEF Keyed, Bucket, Unreviewed, Since
<1>2. Len(answers) \in Nat /\ Asked = 1..Len(answers) /\ Asked \subseteq Nat
  BY AnswersAre DEF Asked
<1>3. U # {} /\ K # {}
  BY <1>1
<1> HIDE DEF K, U
<1>4. /\ K \subseteq Int /\ U \subseteq Int /\ Len(answers) \in Int
      /\ \A m \in K : m <= Len(answers)
      /\ \A m \in U : m <= Len(answers)
  <2>1. K \subseteq 1..Len(answers) /\ U \subseteq 1..Len(answers)
    BY <1>1, <1>2
  <2>2. QED
    BY <1>2, <2>1
<1>5. PICK k, u : /\ k = Max(K) /\ k \in K /\ \A m \in K : m <= k
                  /\ u = Max(U) /\ u \in U /\ \A m \in U : m <= u
  BY <1>3, <1>4, MaxIsGreatest
<1>6. k = u
  <2>1. u \in K /\ u <= k /\ u \in Asked /\ k \in Asked /\ u \in Nat /\ k \in Nat
    BY <1>1, <1>2, <1>5
  <2>2. CASE u < k
    <3>1. answers[k].reviewed => answers[u].reviewed
      BY <1>1, <1>5, <2>1, <2>2 DEF ReviewedFirst
    <3>2. k \in U
      BY <1>1, <1>5, <3>1
    <3>3. QED
      BY <1>5, <2>1, <2>2, <3>2
  <2>3. QED
    BY <2>1, <2>2
<1>7. GroupKey(Since(aged), p) = answers[k].cluster /\ GroupKey(Unreviewed(Since(aged)), p) = answers[u].cluster
  BY <1>3, <1>5 DEF GroupKey, FirstOf, K, U
<1>8. \E q : answers[k].cluster = Clustered(q)
  BY <1>1, <1>5 DEF AnswersOK, IsCluster
<1>9. QED
  BY <1>6, <1>7, <1>8

\* So a question has no more beside it on the feed than a review groups with it.
LEMMA TheFeedGroupsNoMore ==
    ASSUME AnswersOK, ReviewedFirst, NEW m \in FeedRows, ReviewRows(m) = ReviewWindow(m)
    PROVE  m \in ReviewRows(m) /\ GroupOf(FeedRows, m) \subseteq GroupOf(ReviewRows(m), m)
<1> DEFINE W == Since(aged)
           U == Unreviewed(W)
           keyed(p) == Keyed(Bucket(U, p)) # {}
<1>1. ReviewRows(m) = W /\ m \in W /\ FeedRows = U /\ (\A i \in W : StillRead(i)) /\ U \subseteq W
  BY FeedShowsTheUnreviewed DEF Unreviewed
<1>2. \A p : keyed(p) => GroupKey(W, p) = GroupKey(U, p) /\ \E q : GroupKey(U, p) = Clustered(q)
  BY <1>1, SameCluster
<1>3. \A p : ~keyed(p) => GroupKey(U, p) = Alone(p)
  BY DEF GroupKey
<1>4. \A p, q : Alone(p) # Clustered(q) /\ (Alone(p) = Alone(q) => p = q)
  BY DEF Alone, Clustered
<1> HIDE DEF W, U, keyed
<1>5. ASSUME NEW p, NEW q, GroupKey(U, p) = GroupKey(U, q) PROVE GroupKey(W, p) = GroupKey(W, q)
  <2>1. CASE keyed(p) /\ keyed(q)
    BY <1>2, <1>5, <2>1
  <2>2. CASE ~keyed(p) /\ ~keyed(q)
    BY <1>3, <1>4, <1>5, <2>2
  <2>3. CASE keyed(p) # keyed(q)
    BY <1>2, <1>3, <1>4, <1>5, <2>3 DEF keyed
  <2>4. QED
    BY <2>1, <2>2, <2>3 DEF keyed
<1>6. QED
  BY <1>1, <1>5 DEF GroupOf

-----------------------------------------------------------------------------
\* The steps preserve the invariant.

\* A row that comes is unreviewed, and pushes none into what is still read.
LEMMA GoesUnansweredKeeps == ASSUME FeedInv, NEW p \in Phrase, GoesUnanswered(p) PROVE FeedInv'
<1> DEFINE row == [phrase |-> p, cluster |-> NoCluster, reviewed |-> FALSE]
<1>1. /\ answers' = Append(answers, row)
      /\ UNCHANGED <<aged, night, theme>>
  BY DEF GoesUnanswered
<1>2. /\ Len(answers) \in Nat /\ Asked = 1..Len(answers) /\ aged \in Nat /\ aged <= Len(answers)
      /\ MaxRows \in Nat
  BY AnswersAre DEF FeedInv, Asked
<1>3. PICK S : answers \in Seq(S)
  BY DEF FeedInv, AnswersOK
<1>4. /\ answers \in Seq(S \cup {row}) /\ answers' \in Seq(S \cup {row})
      /\ Len(answers') = Len(answers) + 1
      /\ answers'[Len(answers) + 1] = row
      /\ \A m \in Asked : answers'[m] = answers[m]
  <2>1. answers \in Seq(S \cup {row}) /\ row \in S \cup {row}
    BY <1>3
  <2> HIDE DEF row
  <2>2. QED
    BY <1>1, <1>2, <2>1
<1>5. /\ Asked' = 1..(Len(answers) + 1) /\ Asked \subseteq Asked'
      /\ \A m \in Asked' : m \in Asked \/ m = Len(answers) + 1
  BY <1>2, <1>4 DEF Asked
<1>6. DOMAIN row = {"phrase", "cluster", "reviewed"} /\ ~row.reviewed /\ row.reviewed \in BOOLEAN /\ IsCluster(row.cluster)
  BY DEF IsCluster
<1> HIDE DEF row
<1>7. AnswersOK'
  <2>1. \E T : answers' \in Seq(T)
    BY <1>4
  <2>2. \A m \in Asked : /\ DOMAIN answers[m] = {"phrase", "cluster", "reviewed"}
                         /\ answers[m].reviewed \in BOOLEAN /\ IsCluster(answers[m].cluster)
    BY DEF FeedInv, AnswersOK
  <2>3. \A m \in Asked' : /\ DOMAIN answers'[m] = {"phrase", "cluster", "reviewed"}
                          /\ answers'[m].reviewed \in BOOLEAN /\ IsCluster(answers'[m].cluster)
    BY <1>4, <1>5, <1>6, <2>2
  <2>4. aged' \in 0..Len(answers')
    BY <1>1, <1>2, <1>4
  <2>5. QED
    BY <2>1, <2>3, <2>4 DEF AnswersOK, IsCluster
<1>8. \A i \in Asked : StillRead(i)' => StillRead(i)
  <2> SUFFICES ASSUME NEW i \in Asked, StillRead(i)' PROVE StillRead(i)
    OBVIOUS
  <2> DEFINE older == {n \in Asked : n > i}
             all == {n \in Asked' : n > i}
  <2>1. older \subseteq all /\ all \subseteq 1..(Len(answers) + 1) /\ Len(answers) + 1 \in Nat
    BY <1>2, <1>5
  <2>2. i > aged /\ Cardinality(all) < MaxRows
    BY <1>1 DEF StillRead
  <2> HIDE DEF older, all
  <2>3. Cardinality(older) \in Nat /\ Cardinality(all) \in Nat /\ Cardinality(older) <= Cardinality(all)
    BY <2>1, NoFewer
  <2>4. Cardinality(older) < MaxRows
    BY <1>2, <2>2, <2>3
  <2>5. QED
    BY <2>2, <2>4 DEF StillRead, older
<1>9. ReviewedFirst'
  <2> SUFFICES ASSUME NEW i \in Asked', NEW j \in Asked', i < j, StillRead(i)',
                      answers'[i].phrase = answers'[j].phrase
               PROVE  /\ answers'[j].reviewed => answers'[i].reviewed
                      /\ j \in theme'.rows => i \in theme'.rows
    BY DEF ReviewedFirst
  <2>1. i \in Asked /\ StillRead(i)
    BY <1>2, <1>5, <1>8
  <2>2. CASE j \in Asked
    BY <1>1, <1>4, <2>1, <2>2 DEF FeedInv, ReviewedFirst
  <2>3. CASE j = Len(answers) + 1
    <3>1. j \notin Asked
      BY <1>2, <2>3
    <3>2. j \notin theme'.rows
      BY <1>1, <3>1 DEF FeedInv
    <3>3. ~answers'[j].reviewed
      BY <1>4, <1>6, <2>3
    <3>4. QED
      BY <3>2, <3>3
  <2>4. QED
    BY <1>5, <2>2, <2>3
<1>10. (theme.rows \subseteq Asked)' /\ NightOK' /\ AReviewTakesTheWholeTheme'
  BY <1>1, <1>5 DEF FeedInv, NightOK, AReviewTakesTheWholeTheme
<1>11. QED
  BY <1>7, <1>9, <1>10 DEF FeedInv

\* As the window moves on, fewer rows are still read.
LEMMA AgeKeeps == ASSUME FeedInv, Age PROVE FeedInv'
<1>1. /\ aged' \in (aged + 1)..Len(answers)
      /\ UNCHANGED <<answers, night, theme>> /\ Asked' = Asked
  BY DEF Age, Asked
<1>2. aged \in Nat /\ Len(answers) \in Nat /\ Asked \subseteq Nat /\ aged' \in Nat /\ aged' > aged
  BY <1>1, AnswersAre DEF FeedInv
<1>3. \A i \in Asked : StillRead(i)' => StillRead(i)
  BY <1>1, <1>2 DEF StillRead
<1>4. AnswersOK' /\ NightOK' /\ (theme.rows \subseteq Asked)' /\ AReviewTakesTheWholeTheme'
  BY <1>1, <1>2 DEF FeedInv, AnswersOK, NightOK, AReviewTakesTheWholeTheme
<1>5. ReviewedFirst'
  BY <1>1, <1>3 DEF FeedInv, ReviewedFirst
<1>6. QED
  BY <1>4, <1>5 DEF FeedInv

\* A night changes what is left of its clusters alone, each of which has a name.
LEMMA NightChanges ==
    ASSUME FeedInv, NightOK', UNCHANGED <<answers, aged, theme>>
    PROVE  FeedInv'
BY DEF FeedInv, AnswersOK, AReviewTakesTheWholeTheme, ReviewedFirst, StillRead, Asked

LEMMA ReadNightKeeps == ASSUME FeedInv, ReadNight PROVE FeedInv'
<1> DEFINE groups == Themes(FeedRows)
<1>1. PICK seed \in Assignments(groups) : night' \in ClustersOf(seed, groups)
  BY DEF ReadNight
<1> DEFINE seeds == {seed[g] : g \in groups}
<1>2. PICK order \in SetToSeqs(seeds) :
         night' = [i \in DOMAIN order |->
                     [key |-> Clustered(PhraseOf(order[i])),
                      rows |-> UNION {g \in groups : seed[g] = order[i]}]]
  BY <1>1 DEF ClustersOf
<1>3. seeds \subseteq groups /\ groups \subseteq SUBSET Asked
  <2>1. seeds \subseteq groups
    BY DEF Assignments
  <2>2. FeedRows \subseteq Asked
    BY DEF FeedRows, Newest, Unreviewed, Since
  <2>3. groups \subseteq SUBSET Asked
    BY <2>2 DEF Themes, Top, Bucket
  <2>4. QED
    BY <2>1, <2>3
<1>4. IsFiniteSet(seeds) /\ Cardinality(seeds) \in Nat
  <2>1. IsFiniteSet(Asked)
    <3>1. Len(answers) \in Nat
      BY AnswersAre DEF FeedInv
    <3>2. QED
      BY <3>1, FS_Interval DEF Asked
  <2>2. IsFiniteSet(SUBSET Asked)
    BY <2>1, FS_SUBSET
  <2> HIDE DEF seeds
  <2>3. IsFiniteSet(seeds)
    BY <1>3, <2>2, FS_Subset
  <2>4. QED
    BY <2>3, FS_CardinalityType
<1>5. DOMAIN order = 1..Cardinality(seeds)
  BY DEF SetToSeqs
<1>6. NightOK'
  <2> HIDE DEF seeds, groups
  <2>1. /\ DOMAIN night' = 1..Cardinality(seeds)
        /\ \A i \in DOMAIN night' : night'[i].key = Clustered(PhraseOf(order[i]))
    BY <1>2, <1>5
  <2>2. \A i \in DOMAIN night' : IsCluster(night'[i].key)
    BY <2>1 DEF IsCluster
  <2>3. night' \in Seq({night'[i] : i \in DOMAIN night'})
    <3> DEFINE rows(i) == [key |-> Clustered(PhraseOf(order[i])), rows |-> UNION {g \in groups : seed[g] = order[i]}]
    <3>1. night' = [i \in 1..Cardinality(seeds) |-> rows(i)]
      BY <1>2, <1>5
    <3> DEFINE S == {rows(i) : i \in 1..Cardinality(seeds)}
    <3>2. \A i \in 1..Cardinality(seeds) : rows(i) \in S
      OBVIOUS
    <3> HIDE DEF rows, S
    <3>3. night' \in Seq(S)
      BY <1>4, <3>1, <3>2
    <3>4. S = {night'[i] : i \in DOMAIN night'}
      BY <3>1 DEF S
    <3>5. QED
      BY <3>3, <3>4
  <2>4. QED
    BY <2>2, <2>3 DEF NightOK, IsCluster
<1>7. UNCHANGED <<answers, aged, theme>>
  BY DEF ReadNight
<1>8. QED
  BY <1>6, <1>7, NightChanges

\* Putting rows in a cluster says nothing of their phrase or their review.
LEMMA WriteClusterKeeps == ASSUME FeedInv, WriteCluster PROVE FeedInv'
<1>1. /\ night # <<>> /\ night' = Tail(night) /\ UNCHANGED <<aged, theme>>
      /\ answers' = [m \in Asked |-> IF m \in Head(night).rows
                                      THEN [answers[m] EXCEPT !.cluster = Head(night).key]
                                      ELSE answers[m]]
  BY DEF WriteCluster
<1>2. PICK S : night \in Seq(S)
  BY DEF FeedInv, NightOK
<1>3. IsCluster(Head(night).key)
  <2>1. 1 \in DOMAIN night /\ Head(night) = night[1]
    BY <1>1, <1>2
  <2>2. QED
    BY <2>1 DEF FeedInv, NightOK
<1>4. NightOK'
  <2>1. night' \in Seq(S) /\ \A i \in DOMAIN night' : i + 1 \in DOMAIN night /\ night'[i] = night[i + 1]
    BY <1>1, <1>2
  <2>2. QED
    BY <2>1 DEF FeedInv, NightOK, IsCluster
<1>5. /\ Len(answers) \in Nat /\ Asked = 1..Len(answers)
  BY AnswersAre DEF FeedInv, Asked
<1> DEFINE key == Head(night).key
           inside == Head(night).rows
           R == {answers'[m] : m \in Asked}
<1> HIDE DEF key, inside, R
<1>6. answers' \in Seq(R) /\ Len(answers') = Len(answers) /\ Asked' = Asked
  <2>1. DOMAIN answers' = 1..Len(answers) /\ \A m \in 1..Len(answers) : answers'[m] \in R
    BY <1>1, <1>5 DEF R
  <2>2. answers' = [m \in 1..Len(answers) |-> answers'[m]]
    BY <1>1, <1>5, Zenon
  <2>3. answers' \in Seq(R)
    BY <1>5, <2>1, <2>2
  <2>4. QED
    BY <1>5, <2>1, <2>3 DEF Asked
<1>7. \A m \in Asked : answers'[m] = answers[m] \/ answers'[m] = [answers[m] EXCEPT !.cluster = key]
  BY <1>1 DEF key
<1>8. \A m \in Asked : /\ DOMAIN answers'[m] = {"phrase", "cluster", "reviewed"}
                       /\ answers'[m].reviewed = answers[m].reviewed
                       /\ answers'[m].phrase = answers[m].phrase
                       /\ answers[m].reviewed \in BOOLEAN
                       /\ answers'[m].cluster \in {answers[m].cluster, key}
  BY <1>7 DEF FeedInv, AnswersOK
<1>9. AnswersOK'
  <2>1. \A m \in Asked' : IsCluster(answers'[m].cluster)
    BY <1>3, <1>6, <1>8 DEF FeedInv, AnswersOK, key
  <2>2. aged' \in 0..Len(answers')
    BY <1>1, <1>6 DEF FeedInv, AnswersOK
  <2>3. QED
    BY <1>6, <1>8, <2>1, <2>2 DEF AnswersOK, IsCluster
<1>10. ReviewedFirst'
  <2>1. \A i : StillRead(i)' = StillRead(i)
    BY <1>1, <1>6 DEF StillRead
  <2>2. /\ theme' = theme /\ Asked' = Asked
        /\ \A m \in Asked : /\ answers'[m].reviewed = answers[m].reviewed
                            /\ answers'[m].phrase = answers[m].phrase
                            /\ answers[m].reviewed \in BOOLEAN
    BY <1>1, <1>6, <1>8
  <2>3. ReviewedFirst
    BY DEF FeedInv
  <2>4. QED
    BY <2>1, <2>2, <2>3 DEF ReviewedFirst
<1>11. (theme.rows \subseteq Asked)' /\ AReviewTakesTheWholeTheme'
  BY <1>1, <1>6 DEF FeedInv, AReviewTakesTheWholeTheme
<1>12. QED
  BY <1>4, <1>9, <1>10, <1>11 DEF FeedInv

LEMMA NightEndsKeeps == ASSUME FeedInv, NightEndsEarly PROVE FeedInv'
<1>1. NightOK'
  BY DEF NightEndsEarly, NightOK
<1>2. QED
  BY <1>1, NightChanges DEF NightEndsEarly

\* A review that reads a theme leaves older rows of a phrase to none but a later window.
LEMMA ReadThemeKeeps == ASSUME FeedInv, NEW m \in Asked, ReadTheme(m) PROVE FeedInv'
<1> DEFINE R == ReviewRows(m)
<1>1. /\ UNCHANGED <<answers, aged, night>> /\ Asked' = Asked
      /\ theme'.rows = IF m \in R THEN GroupOf(R, m) ELSE {m}
      /\ theme'.shown = IF m \in FeedRows THEN GroupOf(FeedRows, m) ELSE {}
      /\ theme'.full = (R # ReviewWindow(m))
  BY DEF ReadTheme, Asked
<1>2. Asked \subseteq Nat
  BY AnswersAre DEF FeedInv
<1>3. AnswersOK' /\ NightOK'
  BY <1>1 DEF FeedInv, AnswersOK, NightOK
<1>4. (theme.rows \subseteq Asked)'
  <2>1. R \subseteq Asked
    BY DEF ReviewRows, Newest, ReviewWindow, Since
  <2>2. QED
    BY <1>1, <2>1 DEF GroupOf
<1>5. ASSUME NEW i \in Asked, NEW j \in Asked, i < j, StillRead(i),
             answers[i].phrase = answers[j].phrase, j \in theme'.rows
      PROVE  i \in theme'.rows
  <2>1. i \in R /\ (i <= m => m \in R)
    BY <1>5, ReadFromTheWindow DEF FeedInv
  <2>2. CASE m \in R
    BY <1>1, <1>5, <2>1, <2>2 DEF GroupOf
  <2>3. CASE m \notin R
    BY <1>1, <1>2, <1>5, <2>1, <2>3
  <2>4. QED
    BY <2>2, <2>3
<1>6. ReviewedFirst'
  <2>1. \A i : StillRead(i)' = StillRead(i)
    BY <1>1 DEF StillRead
  <2>2. QED
    BY <1>1, <1>5, <2>1 DEF FeedInv, ReviewedFirst
<1>7. AReviewTakesTheWholeTheme'
  <2>1. CASE m \notin FeedRows \/ R # ReviewWindow(m)
    BY <1>1, <2>1 DEF AReviewTakesTheWholeTheme
  <2>2. CASE m \in FeedRows /\ R = ReviewWindow(m)
    <3>1. m \in R /\ GroupOf(FeedRows, m) \subseteq GroupOf(R, m)
      BY <2>2, TheFeedGroupsNoMore DEF FeedInv
    <3>2. QED
      BY <1>1, <2>2, <3>1 DEF AReviewTakesTheWholeTheme
  <2>3. QED
    BY <2>1, <2>2
<1>8. QED
  BY <1>3, <1>4, <1>6, <1>7 DEF FeedInv

\* The rows a review marks are the older ones of each phrase that are still read.
LEMMA MarkThemeKeeps == ASSUME FeedInv, MarkTheme PROVE FeedInv'
<1>1. /\ theme' = NoTheme /\ UNCHANGED <<aged, night>>
      /\ answers' = [m \in Asked |-> IF m \in theme.rows
                                      THEN [answers[m] EXCEPT !.reviewed = TRUE] ELSE answers[m]]
  BY DEF MarkTheme
<1>2. /\ Len(answers) \in Nat /\ Asked = 1..Len(answers)
  BY AnswersAre DEF FeedInv, Asked
<1> DEFINE R == {answers'[m] : m \in Asked}
<1> HIDE DEF R
<1>3. answers' \in Seq(R) /\ Len(answers') = Len(answers) /\ Asked' = Asked
  <2>1. DOMAIN answers' = 1..Len(answers) /\ \A m \in 1..Len(answers) : answers'[m] \in R
    BY <1>1, <1>2 DEF R
  <2>2. answers' = [m \in 1..Len(answers) |-> answers'[m]]
    BY <1>1, <1>2, Zenon
  <2>3. answers' \in Seq(R)
    BY <1>2, <2>1, <2>2
  <2>4. QED
    BY <1>2, <2>1, <2>3 DEF Asked
<1>4. \A m \in Asked : /\ DOMAIN answers'[m] = {"phrase", "cluster", "reviewed"}
                       /\ answers'[m].phrase = answers[m].phrase
                       /\ answers'[m].cluster = answers[m].cluster
                       /\ answers'[m].reviewed \in BOOLEAN
                       /\ m \in theme.rows => answers'[m].reviewed = TRUE
                       /\ m \notin theme.rows => answers'[m].reviewed = answers[m].reviewed
  BY <1>1 DEF FeedInv, AnswersOK
<1>5. AnswersOK'
  BY <1>1, <1>3, <1>4 DEF FeedInv, AnswersOK, IsCluster
<1>6. NightOK' /\ theme'.rows = {} /\ theme'.shown = {}
  BY <1>1 DEF FeedInv, NightOK, NoTheme
<1>7. ReviewedFirst'
  <2> SUFFICES ASSUME NEW i \in Asked, NEW j \in Asked, i < j, StillRead(i),
                      answers[i].phrase = answers[j].phrase, answers'[j].reviewed
               PROVE  answers'[i].reviewed
    <3>1. \A i : StillRead(i)' = StillRead(i)
      BY <1>1, <1>3 DEF StillRead
    <3>2. QED
      BY <1>3, <1>4, <1>6, <3>1 DEF ReviewedFirst
  <2>1. CASE j \in theme.rows
    BY <1>4, <2>1 DEF FeedInv, ReviewedFirst
  <2>2. CASE j \notin theme.rows
    BY <1>4, <2>2 DEF FeedInv, ReviewedFirst
  <2>3. QED
    BY <2>1, <2>2
<1>8. QED
  BY <1>5, <1>6, <1>7 DEF FeedInv, AReviewTakesTheWholeTheme

LEMMA FeedStarts == ASSUME InitFeed PROVE FeedInv
<1>1. answers = <<>> /\ night = <<>> /\ Len(answers) = 0 /\ aged = 0 /\ Asked = {} /\ DOMAIN night = {}
  BY DEF InitFeed, Asked
<1>2. AnswersOK /\ NightOK
  BY <1>1 DEF AnswersOK, NightOK
<1>3. theme.rows = {} /\ theme.shown = {}
  BY DEF InitFeed, NoTheme
<1>4. QED
  BY <1>1, <1>2, <1>3 DEF FeedInv, ReviewedFirst, AReviewTakesTheWholeTheme

\* However many questions, clusterings and reviews go before it, reviewUnanswered marks
\* every row that summarizeUnanswered shows the owner with the row that was clicked, unless
\* it could not read its window as a whole.
THEOREM AReviewTakesTheWholeThemeHolds == FeedSpec => []AReviewTakesTheWholeTheme
<1>1. ASSUME FeedInv, [NextFeed]_feedVars PROVE FeedInv'
  <2>1. CASE UNCHANGED feedVars
    BY <1>1, <2>1 DEF feedVars, FeedInv, AnswersOK, NightOK, ReviewedFirst, StillRead, Asked,
                      AReviewTakesTheWholeTheme
  <2>2. CASE \E p \in Phrase : GoesUnanswered(p)
    BY <1>1, <2>2, GoesUnansweredKeeps
  <2>3. CASE Age \/ ReadNight \/ WriteCluster \/ NightEndsEarly
    BY <1>1, <2>3, AgeKeeps, ReadNightKeeps, WriteClusterKeeps, NightEndsKeeps
  <2>4. CASE (\E m \in Asked : ReadTheme(m)) \/ MarkTheme
    BY <1>1, <2>4, ReadThemeKeeps, MarkThemeKeeps
  <2>5. QED
    BY <1>1, <2>1, <2>2, <2>3, <2>4 DEF NextFeed
<1>2. FeedInv => AReviewTakesTheWholeTheme
  BY DEF FeedInv
<1>3. QED
  BY FeedStarts, <1>1, <1>2, PTL DEF FeedSpec
=============================================================================
