-------------------------------- MODULE Chat --------------------------------
(***************************************************************************)
(* One conversation with a store's assistant: turns that may overlap, each *)
(* of which counts its caller in Redis, loads the session, records the     *)
(* question, asks the model and records the answer.                        *)
(*                                                                         *)
(* INCR and EXPIRE are two commands.  A session is saved as the whole row  *)
(* the turn has loaded, and saving one that retention has deleted inserts  *)
(* it again under another id (@BeforeInsert).  The assistant is switched   *)
(* on, and tokens verify.                                                  *)
(***************************************************************************)
EXTENDS Naturals, FiniteSets, Sequences, Records

CONSTANTS
    ChatTurn,  \* request handlers that may overlap
    Shopper,   \* signed-in customers
    Nobody,    \* a request without a token, and an unbound session
    RateLimit, \* CHATBOT_RATE_LIMIT_PER_MINUTE
    Cap,       \* CHATBOT_MAX_MESSAGES_PER_SESSION
    MaxTurns,  \* bounds the requests
    MaxCut     \* bounds the turns an error or a restart cuts

ASSUME ChatBounds == {Cap, MaxTurns, MaxCut} \subseteq Nat /\ RateLimit \in Nat \ {0}
ASSUME NobodyIsNoShopper == Nobody \notin Shopper
ASSUME FinitelyManyTurns == IsFiniteSet(ChatTurn)

VARIABLES
    rate,      \* the bucket of each caller in Redis: its count, and whether it expires
    session,   \* the row, and a count of its writes
    message,   \* the rows of its transcript
    turn,      \* what each request has in memory
    slipped,   \* history: a save wrote over another one
    uncounted, \* history: messages whose turn was cut before it counted them
    unexpiring, \* history: callers whose turn was cut between INCR and EXPIRE
    served     \* requests, and cut turns, so far

chatVars == <<rate, session, message, turn, slipped, uncounted, unexpiring, served>>

Caller == Shopper \cup {Nobody} \* callerKey: the user, or the address
Outside == [phase |-> "none"]
Unopened == [id |-> 0, there |-> FALSE, user |-> Nobody, count |-> 0, fresh |-> TRUE, version |-> 0]

InitChat ==
    /\ rate = [c \in Caller |-> [used |-> 0, expires |-> FALSE]]
    /\ session = Unopened
    /\ message = <<>>
    /\ turn = [t \in ChatTurn |-> Outside]
    /\ slipped = FALSE
    /\ uncounted = 0
    /\ unexpiring = {}
    /\ served = [turns |-> 0, cut |-> 0]

TurnAt(t, phase) == turn[t].phase = phase
GoOn(t, phase, memory) == turn' = [turn EXCEPT ![t] = Spread(memory, [@ EXCEPT !.phase = phase])]
EndTurn(t) == turn' = [turn EXCEPT ![t] = Outside]

-----------------------------------------------------------------------------
\* enforceRateLimit

\* Mutant of OpensTheWindow: the count is compared as it was before.
NeverOpens(used) == used = 0

\* increment sets the expiry on the first increment only.
OpensTheWindow(used) == used = 1

ReceiveMessage(t) ==
    /\ TurnAt(t, "none")
    /\ served.turns < MaxTurns
    /\ served' = [served EXCEPT !.turns = @ + 1]
    /\ \E c \in Caller :
         LET used == rate[c].used + 1
         IN  /\ rate' = [rate EXCEPT ![c].used = used]
             /\ turn' = [turn EXCEPT ![t] =
                  IF OpensTheWindow(used) THEN [phase |-> "expire", user |-> c]
                  ELSE IF used > RateLimit THEN Outside
                  ELSE [phase |-> "resolve", user |-> c]]
    /\ UNCHANGED <<session, message, slipped, uncounted, unexpiring>>

SetExpiry(t) ==
    /\ TurnAt(t, "expire")
    /\ rate' = [rate EXCEPT ![turn[t].user].expires = rate[turn[t].user].used > 0]
    /\ GoOn(t, "resolve", <<>>)
    /\ UNCHANGED <<session, message, slipped, uncounted, unexpiring, served>>

WindowEnds(c) ==
    /\ rate[c].expires
    /\ rate' = [rate EXCEPT ![c] = [used |-> 0, expires |-> FALSE]]
    /\ UNCHANGED <<session, message, turn, slipped, uncounted, unexpiring, served>>

-----------------------------------------------------------------------------
\* resolveSession

\* A request without a session id opens one.  The model follows the first.
OpenSession(t) ==
    /\ TurnAt(t, "resolve")
    /\ session.id = 0
    /\ LET opened == [Unopened EXCEPT !.id = 1, !.there = TRUE, !.user = turn[t].user, !.version = 1]
       IN  session' = opened /\ GoOn(t, "ask", [copy |-> opened])
    /\ UNCHANGED <<rate, message, slipped, uncounted, unexpiring, served>>

\* Mutant of Binds: the session follows whoever writes in it.
BindsToTheCaller(s, user) == s.user # user

Binds(s, user) == user # Nobody /\ s.user = Nobody

\* A request with the session's id.
LoadSession(t) ==
    /\ TurnAt(t, "resolve")
    /\ session.id > 0
    /\ IF ~session.there THEN EndTurn(t)
       ELSE IF Binds(session, turn[t].user)
       THEN GoOn(t, "bind", [copy |-> [session EXCEPT !.user = turn[t].user]])
       ELSE GoOn(t, "ask", [copy |-> session])
    /\ UNCHANGED <<rate, session, message, slipped, uncounted, unexpiring, served>>

\* sessionRepository.save(session)
SaveSession(t, copy, next) ==
    LET there == session.there /\ session.id = copy.id
        saved == [copy EXCEPT !.id = IF there THEN @ ELSE session.id + 1, !.there = TRUE,
                              !.version = session.version + 1]
    IN  /\ session' = saved
        /\ slipped' = (slipped \/ session.version # copy.version)
        /\ IF next = "none" THEN EndTurn(t) ELSE GoOn(t, next, [copy |-> saved])

BindSession(t) ==
    /\ TurnAt(t, "bind")
    /\ SaveSession(t, turn[t].copy, "ask")
    /\ UNCHANGED <<rate, message, uncounted, unexpiring, served>>

-----------------------------------------------------------------------------
\* recordMessage.  A message of a session that is gone violates its foreign key.

InsertMessage(t, role, answers, next) ==
    IF session.there /\ session.id = turn[t].copy.id
    THEN /\ message' = Append(message, [role |-> role, answers |-> answers])
         /\ GoOn(t, next, [question |-> IF role = "user" THEN Len(message) + 1 ELSE answers])
    ELSE EndTurn(t) /\ UNCHANGED message

Ask(t) ==
    /\ TurnAt(t, "ask")
    /\ InsertMessage(t, "user", 0, "countQuestion")
    /\ UNCHANGED <<rate, session, slipped, uncounted, unexpiring, served>>

Counted(t) == [turn[t].copy EXCEPT !.count = @ + 1, !.fresh = TRUE]

\* Mutant of IsSessionFull: the question itself is left out of the count.
WasFullBefore(s) == s.count - 1 > Cap

IsSessionFull(s) == s.count > Cap

CountQuestion(t) ==
    /\ TurnAt(t, "countQuestion")
    /\ SaveSession(t, Counted(t), IF IsSessionFull(Counted(t)) THEN "refuse" ELSE "model")
    /\ UNCHANGED <<rate, message, uncounted, unexpiring, served>>

\* The history, the agent and the finalizer, which read, come before the answer.
AnswerQuestion(t) ==
    /\ TurnAt(t, "model")
    /\ InsertMessage(t, "assistant", turn[t].question, "countAnswer")
    /\ UNCHANGED <<rate, session, slipped, uncounted, unexpiring, served>>

\* replyDeterministically links no question.
Refuse(t) ==
    /\ TurnAt(t, "refuse")
    /\ InsertMessage(t, "assistant", 0, "countAnswer")
    /\ UNCHANGED <<rate, session, slipped, uncounted, unexpiring, served>>

CountAnswer(t) ==
    /\ TurnAt(t, "countAnswer")
    /\ SaveSession(t, Counted(t), "none")
    /\ UNCHANGED <<rate, message, uncounted, unexpiring, served>>

-----------------------------------------------------------------------------

Uncounted(t) == turn[t].phase \in {"countQuestion", "countAnswer"}

\* An error nobody catches, or a restart.
CutTurn(t) ==
    /\ ~TurnAt(t, "none")
    /\ served.cut < MaxCut
    /\ served' = [served EXCEPT !.cut = @ + 1]
    /\ uncounted' = uncounted + (IF Uncounted(t) THEN 1 ELSE 0)
    /\ unexpiring' = unexpiring \cup (IF TurnAt(t, "expire") THEN {turn[t].user} ELSE {})
    /\ EndTurn(t)
    /\ UNCHANGED <<rate, session, message, slipped>>

\* 180 days without a message, which is longer than any turn.
GoStale ==
    /\ session.there
    /\ session.fresh
    /\ \A t \in ChatTurn : TurnAt(t, "none")
    /\ session' = [session EXCEPT !.fresh = FALSE]
    /\ UNCHANGED <<rate, message, turn, slipped, uncounted, unexpiring, served>>

\* applyRetention, with its cascade.
ApplyRetention ==
    /\ session.there
    /\ ~session.fresh
    /\ session' = [session EXCEPT !.there = FALSE, !.version = @ + 1]
    /\ message' = <<>>
    /\ UNCHANGED <<rate, turn, slipped, uncounted, unexpiring, served>>

TurnStep(t) ==
    \/ SetExpiry(t) \/ OpenSession(t) \/ LoadSession(t) \/ BindSession(t) \/ Ask(t)
    \/ CountQuestion(t) \/ AnswerQuestion(t) \/ Refuse(t) \/ CountAnswer(t)

NextChat ==
    \/ \E t \in ChatTurn : ReceiveMessage(t) \/ TurnStep(t) \/ CutTurn(t)
    \/ \E c \in Caller : WindowEnds(c)
    \/ GoStale
    \/ ApplyRetention

-----------------------------------------------------------------------------
\* Properties.

\* A session once bound to a customer stays theirs, unless a turn that loaded
\* it earlier saves its copy over what others have written since.
OnlyOvertakenTurnsUnbind ==
    [][\/ session.user = Nobody
       \/ ~session.there
       \/ session'.user = session.user
       \/ \E t \in ChatTurn : turn'[t] # turn[t] /\ turn[t].copy.version # session.version]_chatVars

\* The model is asked only within the session's cap, counting every row of the
\* transcript, but for those whose turn has yet to count them or was cut, and
\* for counts that a stale save has taken back.
ModelIsAskedWithinTheCap ==
    [][\A t \in ChatTurn :
         \/ TurnAt(t, "model") \/ turn'[t].phase # "model"
         \/ slipped'
         \/ Len(message) <= Cap + uncounted + Cardinality({u \in ChatTurn \ {t} : Uncounted(u)})]_chatVars

\* A caller's bucket empties in the end: it expires, or the turn that opened
\* its window is about to say when, but for one cut in between.
EveryWindowEnds ==
    \A c \in Caller :
        \/ rate[c].used = 0
        \/ rate[c].expires
        \/ \E t \in ChatTurn : TurnAt(t, "expire") /\ turn[t].user = c
        \/ c \in unexpiring
=============================================================================
