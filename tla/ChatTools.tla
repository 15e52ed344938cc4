------------------------------ MODULE ChatTools ------------------------------
(***************************************************************************)
(* One turn of the assistant: the agent and its tool rounds, what the      *)
(* tools read of a store that its owner is editing, and the reply that is  *)
(* built, and the outcome recorded, from what the tools found.             *)
(*                                                                         *)
(* What the model calls for and what it says are its choice.  The calls of *)
(* a round run at the same time.  Retrieval gives pointers: an index that  *)
(* is behind may point at anything.                                        *)
(***************************************************************************)
EXTENDS Naturals, Sequences, SequencesExt, FiniteSets

CONSTANTS
    Ware,          \* the products
    Entry,         \* the FAQ entries
    Receipt,       \* the orders of the shopper who may be signed in
    MaxRounds,     \* MAX_TOOL_ITERATIONS
    CardLimit,     \* CHATBOT_PRODUCT_CARD_LIMIT
    MaxCalls,      \* bounds the calls of a round
    MaxHides       \* bounds the owner's edits

ASSUME ToolBounds == {MaxRounds, CardLimit, MaxCalls, MaxHides} \subseteq Nat /\ MaxRounds # 0
ASSUME WaresAreFinite == IsFiniteSet(Ware)
ASSUME WaresAreNoEntries == Ware \cap Entry = {}

VARIABLES
    onShow,    \* the products on sale and the entries published
    hides,     \* the owner's edits so far
    agent,     \* the loop: its phase, its round, whether a shopper is signed in
    running,   \* the round's calls under way: the tool, and what it points at
    sources,   \* ChatTurnSources
    told,      \* what the tools have returned to the model
    reply      \* what the turn ends with

toolVars == <<onShow, hides, agent, running, sources, told, reply>>

NoReply == [outcome |-> "none", cards |-> {}, cited |-> {}, order |-> "none"]
NoSources == [products |-> <<>>, faqs |-> {}, order |-> "none",
              hits |-> 0, calls |-> 0, signIn |-> FALSE]
NoCalls == [i \in 1..MaxCalls |-> [tool |-> "none"]]

InitTools ==
    /\ onShow = Ware \cup Entry
    /\ hides = 0
    /\ \E signedIn \in BOOLEAN : agent = [phase |-> "agent", round |-> 0, signedIn |-> signedIn]
    /\ running = NoCalls
    /\ sources = NoSources
    /\ told = {}
    /\ reply = NoReply

\* The owner archives a product or hides an entry.
Hide(x) ==
    /\ hides < MaxHides
    /\ x \in onShow
    /\ onShow' = onShow \ {x}
    /\ hides' = hides + 1
    /\ UNCHANGED <<agent, running, sources, told, reply>>

-----------------------------------------------------------------------------
\* The agent.

\* A signed-out turn has no order tools.
Tools(signedIn) ==
    {"search", "details", "faq", "store"}
      \cup (IF signedIn THEN {"orders", "order"} ELSE {"signIn"})

Busy == {i \in 1..MaxCalls : running[i].tool # "none"}
Asks(tools) == [i \in 1..MaxCalls |->
                  IF i \in DOMAIN tools THEN [tool |-> tools[i], at |-> "called"] ELSE NoCalls[i]]

\* The round that asks for tools counts before it runs.
IsExhausted(round) == round >= MaxRounds

\* A call with bad arguments or of no tool is answered without the tool.
CallTools(tools) ==
    /\ agent.phase = "agent"
    /\ LET round == agent.round + 1
       IN  IF IsExhausted(round)
           THEN /\ agent' = [agent EXCEPT !.round = round, !.phase = "failed"]
                /\ running' = running
           ELSE /\ agent' = [agent EXCEPT !.round = round, !.phase = "tools"]
                /\ running' = Asks(tools)
    /\ UNCHANGED <<onShow, hides, sources, told, reply>>

EndRound ==
    /\ agent.phase = "tools"
    /\ Busy = {}
    /\ agent' = [agent EXCEPT !.phase = "agent"]
    /\ UNCHANGED <<onShow, hides, running, sources, told, reply>>

\* The model answers, or it fails or has nothing to say.
Speak ==
    /\ agent.phase = "agent"
    /\ \E phase \in {"answered", "failed"} : agent' = [agent EXCEPT !.phase = phase]
    /\ UNCHANGED <<onShow, hides, running, sources, told, reply>>

-----------------------------------------------------------------------------
\* The tools.  Each counts itself, then reads, then notes what it found.

CallAt(i, tools, at) == running[i].tool \in tools /\ running[i].at = at
Return(i) == running' = [running EXCEPT ![i] = [tool |-> "none"]]

\* What the index finds by meaning, none if no query can be embedded.  It lags
\* behind the rows, so it may point at one that is hidden by now.
FoundByMeaning(tool) == SUBSET (IF tool = "search" THEN Ware ELSE Entry)

\* The full-text search reads the products as they are; entries have none.
FoundByWords(tool) == SUBSET (IF tool = "search" THEN Ware \cap onShow ELSE {})

\* RetrievalService.search; what it finds is fewer than its limit.
Retrieve(i) ==
    /\ CallAt(i, {"search", "faq"}, "called")
    /\ \E near \in FoundByMeaning(running[i].tool), worded \in FoundByWords(running[i].tool) :
         running' = [running EXCEPT ![i] = [tool |-> @.tool, at |-> "pointed", hits |-> near \cup worded]]
    /\ sources' = [sources EXCEPT !.calls = @ + 1]
    /\ UNCHANGED <<onShow, hides, agent, told, reply>>

\* loadCardsByIds and findPublishedByIds: the live rows among these.
Live(ids) == ids \cap onShow

\* remember: what is new is appended, in the order it was found in; a call that
\* found something is one hit.
Remembered(ids) == {sources.products \o fresh : fresh \in SetToSeqs(ids \ ToSet(sources.products))}
Hit(found) == IF found = {} THEN sources.hits ELSE sources.hits + 1

Note(i, found, noted) ==
    /\ sources' = noted
    /\ told' = told \cup found
    /\ Return(i)
    /\ UNCHANGED <<onShow, hides, agent, reply>>

SearchProducts(i) ==
    /\ CallAt(i, {"search"}, "pointed")
    /\ LET found == Live(running[i].hits)
       IN  \E products \in Remembered(found) :
             Note(i, found, [sources EXCEPT !.products = products, !.hits = Hit(found)])

SearchFaq(i) ==
    /\ CallAt(i, {"faq"}, "pointed")
    /\ LET found == Live(running[i].hits)
       IN  Note(i, found, [sources EXCEPT !.faqs = @ \cup found, !.hits = Hit(found)])

\* getProductDetails and checkAvailability, of a product by its slug.
GetProduct(i, g) ==
    /\ CallAt(i, {"details"}, "called")
    /\ LET found == Live({g})
       IN  \E products \in Remembered(found) :
             Note(i, found, [sources EXCEPT !.products = products, !.hits = Hit(found), !.calls = @ + 1])

\* The store is always found.
GetStoreInfo(i) ==
    /\ CallAt(i, {"store"}, "called")
    /\ Note(i, {"store"}, [sources EXCEPT !.hits = @ + 1, !.calls = @ + 1])

\* listMyOrders takes the newest of the caller's orders, getMyOrder the one asked
\* for; "none" is no such order.
GetOrder(i, order) ==
    /\ CallAt(i, {"orders", "order"}, "called")
    /\ Note(i, {order} \ {"none"},
            [sources EXCEPT !.order = IF order = "none" THEN @ ELSE order,
                            !.hits = Hit({order} \ {"none"}), !.calls = @ + 1])

RequireSignIn(i) ==
    /\ CallAt(i, {"signIn"}, "called")
    /\ Note(i, {}, [sources EXCEPT !.signIn = TRUE, !.calls = @ + 1])

\* A read fails: the model is told of an error, and the loop goes on.
ToolFails(i) ==
    \/ /\ CallAt(i, {"search", "faq", "store", "orders"}, "called")
       /\ Note(i, {}, [sources EXCEPT !.calls = @ + 1])
    \/ /\ CallAt(i, {"search", "faq"}, "pointed")
       /\ Note(i, {}, sources)

-----------------------------------------------------------------------------
\* finalize.

\* Mutant of Outcome: what was found goes before what went wrong.
HitFirst(failed, s) ==
    IF s.hits > 0 THEN "answered"
    ELSE IF failed THEN "error"
    ELSE IF s.signIn THEN "needs_login"
    ELSE IF s.calls > 0 THEN "unanswered" ELSE "off_topic"

\* resolveOutcome.
Outcome(failed, s) ==
    IF failed THEN "error"
    ELSE IF s.signIn THEN "needs_login"
    ELSE IF s.hits > 0 THEN "answered"
    ELSE IF s.calls > 0 THEN "unanswered" ELSE "off_topic"

\* The outcome is decided first; then the rows are read again, as they are now.
Resolve ==
    /\ agent.phase \in {"answered", "failed"}
    /\ LET outcome == Outcome(agent.phase = "failed", sources)
       IN  /\ reply' = [reply EXCEPT !.outcome = outcome]
           /\ agent' = [agent EXCEPT !.phase = IF outcome = "error" THEN "done" ELSE "loading"]
    /\ UNCHANGED <<onShow, hides, running, sources, told>>

Shortlist == {sources.products[n] : n \in {m \in DOMAIN sources.products : m <= CardLimit}}

LoadReply ==
    /\ agent.phase = "loading"
    /\ reply' = [reply EXCEPT !.cards = Live(Shortlist), !.cited = Live(sources.faqs),
                              !.order = IF agent.signedIn THEN sources.order ELSE "none"]
    /\ agent' = [agent EXCEPT !.phase = "done"]
    /\ UNCHANGED <<onShow, hides, running, sources, told>>

NextTools ==
    \/ \E x \in Ware \cup Entry : Hide(x)
    \/ \E n \in 1..MaxCalls : \E tools \in [1..n -> Tools(agent.signedIn) \cup {"none"}] : CallTools(tools)
    \/ EndRound \/ Speak
    \/ \E i \in 1..MaxCalls :
         \/ Retrieve(i) \/ SearchProducts(i) \/ SearchFaq(i)
         \/ \E g \in Ware : GetProduct(i, g)
         \/ GetStoreInfo(i)
         \/ \E order \in Receipt \cup {"none"} : GetOrder(i, order)
         \/ RequireSignIn(i) \/ ToolFails(i)
    \/ Resolve \/ LoadReply

-----------------------------------------------------------------------------
\* Properties.

\* What a turn is recorded as, and shows, is what its tools did, whichever way
\* the calls of a round interleave with one another and with the owner's edits:
\* a question goes to the owner's feed only if no tool found anything; a loop
\* that is cut short is an error, whatever it found; a question about orders that
\* nobody is signed in for needs a login, whatever else was found; no card is
\* shown that the model was not told of, and no order to a signed-out shopper.
RecordedAsTheToolsDid ==
    /\ ToSet(sources.products) \cup sources.faqs \subseteq told
    /\ reply.outcome \in {"unanswered", "off_topic"} =>
         told = {} /\ reply.cards \cup reply.cited = {} /\ reply.order = "none"
    /\ reply.outcome = "answered" => told # {} /\ ~sources.signIn
    /\ reply.outcome # "none" /\ agent.round >= MaxRounds => reply.outcome = "error"
    /\ reply.cards \cup reply.cited \subseteq told
    /\ reply.order # "none" => agent.signedIn /\ reply.order \in told
=============================================================================
