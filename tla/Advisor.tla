------------------------------ MODULE Advisor ------------------------------
(***************************************************************************)
(* The daily brief of one live store: written by the hourly job of either  *)
(* instance when the store's clock reaches its send hour, mailed once, and *)
(* written again whenever the owner asks, while the owner dismisses lines  *)
(* or acts on them.                                                        *)
(*                                                                         *)
(* The awaits of a generation are steps.  Its last transaction is one: of  *)
(* two that overlap, the second fails on UQ_advisor_briefs_store_date.     *)
(* The owner's address is verified.                                        *)
(***************************************************************************)
EXTENDS Naturals, Records

CONSTANTS
    Advice,       \* dedupe keys
    Instance,     \* instances of the server
    Owner,        \* the dashboard's button
    MaxDays,      \* bounds the days
    RestDays,     \* INSIGHT_SUPPRESSION_DAYS
    MaxManual,    \* bounds the owner's generations
    MaxDecisions, \* bounds the owner's decisions, on advice and on the switches
    MaxFailed     \* bounds failing generations and mails, and restarts

ASSUME AdvisorBounds == MaxDays \in Nat \ {0} /\ {RestDays, MaxManual, MaxDecisions, MaxFailed} \subseteq Nat
ASSUME OwnerIsNoInstance == Owner \notin Instance

VARIABLES
    day,         \* the store's local day
    due,         \* whether its clock shows the send hour
    switches,    \* isEnabled and emailEnabled
    brief,       \* the brief of each day: its lines, and when each was decided on
    advisorLock, \* the key in Redis
    job,         \* what each generation has in memory
    decided,     \* history: the day of the last decision on an advice
    lost,        \* history: advice whose decision a generation missed or left out
    mails,       \* mails of each day's brief
    lapsed,      \* history: a lock expired under its holder
    tries        \* manual generations, decisions and failures so far

advisorVars == <<day, due, switches, brief, advisorLock, job, decided, lost, mails, lapsed, tries>>

Day == 1..MaxDays
NoBrief == [there |-> FALSE, id |-> 0, lines |-> {}, handled |-> <<>>]
NoJob == [phase |-> "none"]
NotYet == 0

DefaultSwitches == [brief |-> TRUE, mail |-> TRUE]

InitAdvisor ==
    /\ day = 1
    /\ due = FALSE
    /\ switches = DefaultSwitches
    /\ brief = [d \in Day |-> NoBrief]
    /\ advisorLock = FALSE
    /\ job = [g \in Instance \cup {Owner} |-> NoJob]
    /\ decided = [a \in Advice |-> NotYet]
    /\ lost = {}
    /\ mails = [d \in Day |-> 0]
    /\ lapsed = FALSE
    /\ tries = [manual |-> 0, decision |-> 0, failed |-> 0]

Tried(what, bound) == tries[what] < bound /\ tries' = [tries EXCEPT ![what] = @ + 1]
JobAt(g, phase) == job[g].phase = phase
Continue(g, phase, memory) == job' = [job EXCEPT ![g] = Spread(memory, [@ EXCEPT !.phase = phase])]
Finish(g) == job' = [job EXCEPT ![g] = IF g = Owner THEN NoJob ELSE [phase |-> "unlock"]]

Tick ==
    /\ IF due THEN day' = day + 1 /\ day' \in Day ELSE day' = day
    /\ due' = ~due
    /\ UNCHANGED <<switches, brief, advisorLock, job, decided, lost, mails, lapsed, tries>>

\* updateInsightStatus.  A line whose brief was replaced is not saved.
Decide ==
    \E d \in Day : \E a \in brief[d].lines :
        /\ Tried("decision", MaxDecisions)
        /\ brief' = [brief EXCEPT ![d].handled[a] = day]
        /\ decided' = [decided EXCEPT ![a] = day]
        /\ job' = [g \in DOMAIN job |->
             IF JobAt(g, "narrate") THEN [job[g] EXCEPT !.missed = @ \cup (IF d = job[g].day THEN {} ELSE {a})]
             ELSE IF JobAt(g, "replace") THEN [job[g] EXCEPT !.missed = @ \cup {a}]
             ELSE job[g]]
        /\ UNCHANGED <<day, due, switches, advisorLock, lost, mails, lapsed>>

\* The settings' update; the store's clock and place are not told apart.
UpdateSettings ==
    /\ Tried("decision", MaxDecisions)
    /\ \E switch \in DOMAIN switches : switches' = [switches EXCEPT ![switch] = ~@]
    /\ UNCHANGED <<day, due, brief, advisorLock, job, decided, lost, mails, lapsed>>

-----------------------------------------------------------------------------
\* runHourly, and the settings it resolves for the store.

StartHour(i) ==
    /\ JobAt(i, "none")
    /\ due
    /\ ~advisorLock
    /\ advisorLock' = TRUE
    /\ job' = [job EXCEPT ![i] = IF switches.brief
                                  THEN [phase |-> "existing", day |-> day, mail |-> switches.mail]
                                  ELSE [phase |-> "unlock"]]
    /\ UNCHANGED <<day, due, switches, brief, decided, lost, mails, lapsed, tries>>

\* Mutant of AlreadyBriefed: the lock is trusted to run the hour once.
NeverBriefed(d) == FALSE

\* findByDate
AlreadyBriefed(d) == brief[d].there

FindExisting(i) ==
    /\ JobAt(i, "existing")
    /\ IF AlreadyBriefed(job[i].day) THEN Finish(i) ELSE Continue(i, "collect", <<>>)
    /\ UNCHANGED <<day, due, switches, brief, advisorLock, decided, lost, mails, lapsed, tries>>

\* generateNow, past its cooldown.
GenerateNow ==
    /\ JobAt(Owner, "none")
    /\ Tried("manual", MaxManual)
    /\ job' = [job EXCEPT ![Owner] = [phase |-> "collect", day |-> day]]
    /\ UNCHANGED <<day, due, switches, brief, advisorLock, decided, lost, mails, lapsed>>

-----------------------------------------------------------------------------
\* generateForStore

Decision(b, a) == IF a \in b.lines THEN b.handled[a] ELSE NotYet

\* dropSuppressed looks the decisions up in the briefs before.
Suppressed(d) ==
    {a \in Advice : \E e \in 1..(d - 1) : Decision(brief[e], a) # NotYet /\ Decision(brief[e], a) + RestDays > d}

\* What the collectors find, and of it what ranks high enough to be kept,
\* differs from time to time.
Collect(g) ==
    /\ JobAt(g, "collect")
    /\ \E signals \in SUBSET Advice :
         LET kept == signals \ Suppressed(job[g].day)
         IN  IF kept = {} THEN Finish(g)
             ELSE Continue(g, "narrate", [kept |-> kept, missed |-> {}])
    /\ UNCHANGED <<day, due, switches, brief, advisorLock, decided, lost, mails, lapsed, tries>>

\* Mutant of Carried: the lines of a brief start out new.
NoneCarried(g) == [a \in job[g].kept |-> NotYet]

Carried(g) == [a \in job[g].kept |-> Decision(brief[job[g].day], a)]

LoadStatuses(g) ==
    /\ JobAt(g, "narrate")
    /\ Continue(g, "replace", [carried |-> Carried(g)])
    /\ UNCHANGED <<day, due, switches, brief, advisorLock, decided, lost, mails, lapsed, tries>>

Replace(g) ==
    /\ JobAt(g, "replace")
    /\ LET d == job[g].day
       IN  /\ brief' = [brief EXCEPT ![d] = [there |-> TRUE, id |-> @.id + 1, lines |-> job[g].kept,
                                             handled |-> job[g].carried]]
           /\ lost' = lost \cup job[g].missed
                           \cup {a \in Advice \ job[g].kept : Decision(brief[d], a) # NotYet}
           /\ IF g = Owner \/ ~job[g].mail THEN Finish(g)
              ELSE job' = [job EXCEPT ![g] = [phase |-> "mail", day |-> d]]
    /\ UNCHANGED <<day, due, switches, advisorLock, decided, mails, lapsed, tries>>

\* The narrator, the database or the transaction fails.
GenerationFails(g) ==
    /\ job[g].phase \in {"collect", "narrate", "replace"}
    /\ Tried("failed", MaxFailed)
    /\ Finish(g)
    /\ UNCHANGED <<day, due, switches, brief, advisorLock, decided, lost, mails, lapsed>>

-----------------------------------------------------------------------------
\* sendBrief, and the end of the hour.

SendBrief(i) ==
    /\ JobAt(i, "mail")
    /\ mails' = [mails EXCEPT ![job[i].day] = @ + 1]
    /\ Finish(i)
    /\ UNCHANGED <<day, due, switches, brief, advisorLock, decided, lost, lapsed, tries>>

BriefMailFails(i) ==
    /\ JobAt(i, "mail")
    /\ Tried("failed", MaxFailed)
    /\ Finish(i)
    /\ UNCHANGED <<day, due, switches, brief, advisorLock, decided, lost, mails, lapsed>>

EndHour(i) ==
    /\ JobAt(i, "unlock")
    /\ advisorLock' = FALSE
    /\ job' = [job EXCEPT ![i] = NoJob]
    /\ UNCHANGED <<day, due, switches, brief, decided, lost, mails, lapsed, tries>>

AdvisorLockExpires ==
    /\ advisorLock
    /\ advisorLock' = FALSE
    /\ lapsed' = (lapsed \/ \E i \in Instance : ~JobAt(i, "none"))
    /\ UNCHANGED <<day, due, switches, brief, job, decided, lost, mails, tries>>

InstanceRestarts(i) ==
    /\ ~JobAt(i, "none")
    /\ Tried("failed", MaxFailed)
    /\ job' = [job EXCEPT ![i] = NoJob]
    /\ UNCHANGED <<day, due, switches, brief, advisorLock, decided, lost, mails, lapsed>>

NextAdvisor ==
    \/ Tick \/ Decide \/ UpdateSettings \/ GenerateNow \/ AdvisorLockExpires
    \/ \E i \in Instance :
         \/ StartHour(i) \/ FindExisting(i) \/ SendBrief(i) \/ BriefMailFails(i) \/ EndHour(i)
         \/ InstanceRestarts(i)
    \/ \E g \in Instance \cup {Owner} :
         Collect(g) \/ LoadStatuses(g) \/ Replace(g) \/ GenerationFails(g)

-----------------------------------------------------------------------------
\* Properties.

\* Advice the owner has dealt with does not come back as new for as long as it
\* rests, over regenerations of the same day's brief and the days after, but
\* for a decision taken while a generation was on its way, and for one whose
\* line a regeneration left out: its signal was gone or ranked low, or it
\* rested by a decision in an earlier brief.
HandledAdviceRests ==
    [][\A d \in Day : \A a \in brief'[d].lines :
         \/ brief'[d].id = brief[d].id
         \/ brief'[d].handled[a] # NotYet
         \/ decided[a] = NotYet
         \/ d \notin decided[a]..(decided[a] + RestDays - 1)
         \/ a \in lost']_advisorVars

\* However often the hour comes round, and whichever instances see it, the
\* brief of a day is mailed once, but for a lock that expired under its holder.
OneMailADay == lapsed \/ \A d \in Day : mails[d] <= 1
=============================================================================
