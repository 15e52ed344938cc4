--------------------------- MODULE Advisor_proofs ---------------------------
(***************************************************************************)
(* About the daily brief, for any number of instances, days and failures.  *)
(*                                                                         *)
(* That it is mailed once a day.  The lock and the look at the brief of    *)
(* the day do it together: while no lock expires under its holder, at most *)
(* one instance is in its hour and it holds the lock, and one that finds   *)
(* no brief has sent none, since a mailed brief is there.                  *)
(*                                                                         *)
(* That what the owner dealt with rests.  The last decision on an advice   *)
(* is in a brief of its day or before; one of an earlier brief keeps the   *)
(* advice out, and one of the brief that is written again is carried over. *)
(*                                                                         *)
(* What it says.  The calendar's walk keeps step with the days but for the *)
(* hours a clock change takes a day from, so events keep their date.  And  *)
(* what each query told was true when it was asked, and still is of an     *)
(* article whose orders did not change since, so what is advised adds up.  *)
(***************************************************************************)
EXTENDS Advisor, AdvisorSignals, Sums_proofs

AdvisorSpec == InitAdvisor /\ [][NextAdvisor]_advisorVars

Generator == Instance \cup {Owner}
Generating == {"collect", "narrate", "replace"}
Phases == {"none", "existing", "mail", "unlock"} \cup Generating
WithDay == Phases \ {"none", "unlock"}

\* What is known of a generation's memory: its phase, and until it ends its day.
JobOK(j) ==
    /\ "phase" \in DOMAIN j
    /\ j.phase \in Phases
    /\ j.phase \in WithDay => "day" \in DOMAIN j /\ j.day \in Day

AdvisorTypeOK ==
    /\ day \in Day
    /\ DOMAIN job = Generator
    /\ \A g \in Generator : JobOK(job[g])
    /\ JobAt(Owner, "none") \/ job[Owner].phase \in Generating
    /\ mails \in [Day -> Nat]
    /\ DOMAIN brief = Day /\ \A d \in Day : "there" \in DOMAIN brief[d] /\ brief[d].there \in BOOLEAN
    /\ advisorLock \in BOOLEAN /\ lapsed \in BOOLEAN

\* An instance in its hour holds the lock, so there is one at most.
LockIsHeld == \A i \in Instance : ~JobAt(i, "none") => advisorLock
OneInItsHour == \A i, j \in Instance : JobAt(i, "none") \/ JobAt(j, "none") \/ i = j

\* A mail is of a brief that is there, and the one under way is the day's first.
MailedIsThere == \A d \in Day : mails[d] # 0 => mails[d] = 1 /\ brief[d].there
NotMailedYet ==
    \A i \in Instance :
        /\ job[i].phase \in Generating \cup {"mail"} => mails[job[i].day] = 0
        /\ JobAt(i, "mail") => brief[job[i].day].there

AdvisorInv ==
    /\ AdvisorTypeOK
    /\ lapsed \/ (LockIsHeld /\ OneInItsHour /\ MailedIsThere /\ NotMailedYet)

-----------------------------------------------------------------------------
\* What the steps do to a generation's memory.

\* A generation goes on with its day, whatever it keeps beside it.
LEMMA DayIsKept ==
    ASSUME NEW j, JobOK(j), j.phase \in WithDay, NEW phase \in WithDay,
           NEW memory, "phase" \notin DOMAIN memory, "day" \notin DOMAIN memory
    PROVE  LET k == Spread(memory, [j EXCEPT !.phase = phase])
           IN  JobOK(k) /\ k.phase = phase /\ k.day = j.day
<1> DEFINE e == [j EXCEPT !.phase = phase]
           k == Spread(memory, e)
<1>1. "phase" \in DOMAIN e /\ "day" \in DOMAIN e /\ e.phase = phase /\ e.day = j.day
  BY DEF JobOK, WithDay, Phases, Generating
<1>2. "phase" \in DOMAIN k /\ "day" \in DOMAIN k /\ k.phase = e.phase /\ k.day = e.day
  BY <1>1 DEF Spread
<1>3. QED
  BY <1>1, <1>2 DEF JobOK, WithDay

\* A generation that ends leaves the owner's button free and an instance with its lock.
LEMMA FinishedJob ==
    ASSUME AdvisorTypeOK, NEW g \in Generator, Finish(g)
    PROVE  /\ DOMAIN job' = Generator
           /\ \A h \in Generator : JobOK(job'[h]) /\ (h # g => job'[h] = job[h])
           /\ job'[g].phase = IF g = Owner THEN "none" ELSE "unlock"
BY DEF AdvisorTypeOK, Finish, NoJob, JobOK, Phases, WithDay

\* The other memories stay as they are, and the one that goes on keeps its day.
LEMMA ContinuedJob ==
    ASSUME AdvisorTypeOK, NEW g \in Generator, job[g].phase \in WithDay, NEW phase \in WithDay,
           NEW memory, "phase" \notin DOMAIN memory, "day" \notin DOMAIN memory,
           Continue(g, phase, memory)
    PROVE  /\ DOMAIN job' = Generator
           /\ \A h \in Generator : JobOK(job'[h]) /\ (h # g => job'[h] = job[h])
           /\ job'[g].phase = phase /\ job'[g].day = job[g].day
<1> DEFINE k == Spread(memory, [job[g] EXCEPT !.phase = phase])
<1>1. JobOK(k) /\ k.phase = phase /\ k.day = job[g].day
  BY DayIsKept DEF AdvisorTypeOK
<1>2. job' = [job EXCEPT ![g] = k]
  BY DEF Continue
<1>3. QED
  BY <1>1, <1>2 DEF AdvisorTypeOK

-----------------------------------------------------------------------------
\* The steps preserve the invariant.

\* The day, the switches and the handled lines are nothing it speaks of.
LEMMA ClockKeeps == ASSUME AdvisorInv, Tick \/ UpdateSettings PROVE AdvisorInv'
BY DEF AdvisorInv, AdvisorTypeOK, LockIsHeld, OneInItsHour, MailedIsThere, NotMailedYet, Tick,
       UpdateSettings, JobAt, Day

\* A decision marks a line of a brief and, in a generation under way, what it misses.
LEMMA DecideKeeps == ASSUME AdvisorInv, Decide PROVE AdvisorInv'
<1>1. UNCHANGED <<day, mails, advisorLock, lapsed>>
  BY DEF Decide
<1>2. /\ DOMAIN brief' = Day
      /\ \A d \in Day : /\ "there" \in DOMAIN brief'[d]
                        /\ brief'[d].there = brief[d].there
                        /\ brief'[d].there \in BOOLEAN
  BY DEF Decide, AdvisorInv, AdvisorTypeOK
<1>3. /\ DOMAIN job' = Generator
      /\ \A g \in Generator : /\ job'[g].phase = job[g].phase /\ job'[g].day = job[g].day
                              /\ DOMAIN job'[g] = DOMAIN job[g]
  BY DEF Decide, AdvisorInv, AdvisorTypeOK
<1>4. \A g \in Generator : JobOK(job'[g])
  BY <1>3 DEF AdvisorInv, AdvisorTypeOK, JobOK
<1>5. AdvisorTypeOK'
  BY <1>1, <1>2, <1>3, <1>4 DEF AdvisorInv, AdvisorTypeOK, JobAt, Generator
<1>6. \A i \in Instance : job'[i].phase = job[i].phase /\ job'[i].day = job[i].day
  BY <1>3 DEF Generator
<1>7. \A i \in Instance : job[i].phase \in Generating \cup {"mail"} => job[i].day \in Day
  BY DEF AdvisorInv, AdvisorTypeOK, JobOK, WithDay, Phases, Generating, Generator
<1>8. QED
  BY <1>1, <1>2, <1>5, <1>6, <1>7
     DEF AdvisorInv, LockIsHeld, OneInItsHour, MailedIsThere, NotMailedYet, JobAt

\* A generation moves on, and nothing but its memory changes: it is the owner's,
\* or of an instance that is in its hour already and has sent no mail of its day.
LEMMA MemoryMoves ==
    ASSUME AdvisorInv, NEW g \in Generator,
           UNCHANGED <<day, brief, mails, advisorLock, lapsed>>,
           DOMAIN job' = Generator,
           \A h \in Generator : JobOK(job'[h]) /\ (h # g => job'[h] = job[h]),
           g = Owner => job'[g].phase \in {"none"} \cup Generating,
           g # Owner => /\ ~JobAt(g, "none") /\ job'[g].phase # "mail"
                        /\ job'[g].phase \in Generating /\ ~lapsed => mails[job'[g].day] = 0
    PROVE  AdvisorInv'
<1>1. AdvisorTypeOK'
  BY DEF AdvisorInv, AdvisorTypeOK, JobAt, Generator
<1>2. ASSUME ~lapsed PROVE (LockIsHeld /\ OneInItsHour /\ MailedIsThere /\ NotMailedYet)'
  <2>1. LockIsHeld /\ OneInItsHour /\ MailedIsThere /\ NotMailedYet
    BY <1>2 DEF AdvisorInv
  <2>2. \A i \in Instance : i # Owner /\ i \in Generator
    BY OwnerIsNoInstance DEF Generator
  <2>3. \A i \in Instance : JobAt(i, "none")' \/ ~JobAt(i, "none")
    BY <2>2 DEF JobAt
  <2>4. (LockIsHeld /\ OneInItsHour /\ MailedIsThere)'
    BY <2>1, <2>3 DEF LockIsHeld, OneInItsHour, MailedIsThere
  <2>5. NotMailedYet'
    BY <1>2, <2>1, <2>2 DEF NotMailedYet, JobAt
  <2>6. QED
    BY <2>4, <2>5
<1>3. QED
  BY <1>1, <1>2 DEF AdvisorInv

\* The hour of an instance starts with the lock, which was free.
LEMMA StartHourKeeps == ASSUME AdvisorInv, NEW i \in Instance, StartHour(i) PROVE AdvisorInv'
<1>1. i \in Generator /\ i # Owner
  BY OwnerIsNoInstance DEF Generator
<1>2. UNCHANGED <<day, brief, mails, lapsed>> /\ advisorLock' = TRUE /\ ~advisorLock
  BY DEF StartHour
<1>3. /\ DOMAIN job' = Generator
      /\ \A h \in Generator : h # i => job'[h] = job[h]
      /\ JobOK(job'[i]) /\ job'[i].phase \in {"existing", "unlock"}
  BY <1>1 DEF StartHour, AdvisorInv, AdvisorTypeOK, JobOK, Phases, WithDay, Generating
<1>4. AdvisorTypeOK'
  BY <1>1, <1>2, <1>3 DEF AdvisorInv, AdvisorTypeOK, JobAt, Generator
<1>5. ASSUME ~lapsed PROVE (LockIsHeld /\ OneInItsHour /\ MailedIsThere /\ NotMailedYet)'
  <2>1. LockIsHeld /\ OneInItsHour /\ MailedIsThere /\ NotMailedYet
    BY <1>5 DEF AdvisorInv
  <2>2. \A j \in Instance : JobAt(j, "none")
    BY <1>2, <2>1 DEF LockIsHeld
  <2>3. \A j \in Instance : j # i => JobAt(j, "none")'
    BY <1>3, <2>2 DEF JobAt, Generator
  <2>4. (LockIsHeld /\ OneInItsHour /\ MailedIsThere)'
    BY <1>2, <2>1, <2>3 DEF LockIsHeld, OneInItsHour, MailedIsThere
  <2>5. NotMailedYet'
    BY <1>3, <2>3 DEF NotMailedYet, JobAt, Generating
  <2>6. QED
    BY <2>4, <2>5
<1>6. QED
  BY <1>2, <1>4, <1>5 DEF AdvisorInv

\* With no brief of the day there, none was mailed.
LEMMA FindExistingKeeps == ASSUME AdvisorInv, NEW i \in Instance, FindExisting(i) PROVE AdvisorInv'
<1>1. i \in Generator /\ i # Owner /\ AdvisorTypeOK
  BY OwnerIsNoInstance DEF Generator, AdvisorInv
<1>2. job[i].phase = "existing" /\ job[i].day \in Day
  BY <1>1 DEF FindExisting, JobAt, AdvisorTypeOK, JobOK, WithDay, Phases
<1>3. UNCHANGED <<day, brief, mails, advisorLock, lapsed>>
  BY DEF FindExisting
<1>4. CASE Finish(i)
  BY <1>1, <1>2, <1>3, <1>4, FinishedJob, MemoryMoves DEF JobAt, Generating
<1>5. CASE ~AlreadyBriefed(job[i].day) /\ Continue(i, "collect", <<>>)
  <2>1. ~lapsed => mails[job[i].day] = 0
    BY <1>2, <1>5 DEF AlreadyBriefed, AdvisorInv, MailedIsThere
  <2>2. "phase" \notin DOMAIN <<>> /\ "day" \notin DOMAIN <<>>
    OBVIOUS
  <2>3. job[i].phase \in WithDay /\ "collect" \in WithDay
    BY <1>2 DEF WithDay, Phases, Generating
  <2>4. /\ DOMAIN job' = Generator
        /\ \A h \in Generator : JobOK(job'[h]) /\ (h # i => job'[h] = job[h])
        /\ job'[i].phase = "collect" /\ job'[i].day = job[i].day
    BY <1>1, <1>5, <2>2, <2>3, ContinuedJob
  <2>5. QED
    BY <1>1, <1>2, <1>3, <2>1, <2>4, MemoryMoves DEF JobAt
<1>6. QED
  BY <1>4, <1>5 DEF FindExisting

\* The owner's button starts a generation of the day, beside whatever is under way.
LEMMA GenerateNowKeeps == ASSUME AdvisorInv, GenerateNow PROVE AdvisorInv'
<1>1. Owner \in Generator /\ UNCHANGED <<day, brief, mails, advisorLock, lapsed>>
  BY DEF GenerateNow, Generator
<1>2. /\ DOMAIN job' = Generator
      /\ \A h \in Generator : JobOK(job'[h]) /\ (h # Owner => job'[h] = job[h])
      /\ job'[Owner].phase = "collect"
  BY <1>1 DEF GenerateNow, AdvisorInv, AdvisorTypeOK, JobOK, Phases, WithDay, Generating
<1>3. QED
  BY <1>1, <1>2, MemoryMoves DEF Generating

\* What a generation under way reads, and that it may fail, moves it on.
LEMMA GenerationKeeps ==
    ASSUME AdvisorInv, NEW g \in Generator, Collect(g) \/ LoadStatuses(g) \/ GenerationFails(g)
    PROVE  AdvisorInv'
<1>1. AdvisorTypeOK
  BY DEF AdvisorInv
<1>2. job[g].phase \in Generating /\ UNCHANGED <<day, brief, mails, advisorLock, lapsed>>
  BY DEF Collect, LoadStatuses, GenerationFails, JobAt, Generating
<1>3. job[g].phase \in WithDay /\ \A x \in Generating : x \in WithDay /\ x # "none" /\ x # "mail"
  BY <1>2 DEF WithDay, Phases, Generating
<1>4. g # Owner => g \in Instance /\ (lapsed \/ mails[job[g].day] = 0)
  BY <1>2 DEF AdvisorInv, NotMailedYet, Generator
<1>5. CASE Finish(g)
  BY <1>1, <1>2, <1>3, <1>5, FinishedJob, MemoryMoves DEF JobAt, Generating
<1>6. ASSUME NEW phase \in Generating, NEW memory, Continue(g, phase, memory),
             "phase" \notin DOMAIN memory, "day" \notin DOMAIN memory
      PROVE  AdvisorInv'
  <2>1. /\ DOMAIN job' = Generator
        /\ \A h \in Generator : JobOK(job'[h]) /\ (h # g => job'[h] = job[h])
        /\ job'[g].phase = phase /\ job'[g].day = job[g].day
    BY <1>1, <1>3, <1>6, ContinuedJob
  <2>2. QED
    BY <1>2, <1>3, <1>4, <2>1, MemoryMoves DEF JobAt
<1>7. CASE Collect(g)
  <2>1. PICK signals \in SUBSET Advice :
          \/ Finish(g)
          \/ Continue(g, "narrate", [kept |-> signals \ Suppressed(job[g].day), missed |-> {}])
    BY <1>7 DEF Collect
  <2>2. ASSUME NEW k
        PROVE  LET m == [kept |-> k, missed |-> {}]
               IN  "phase" \notin DOMAIN m /\ "day" \notin DOMAIN m
    OBVIOUS
  <2>3. QED
    BY <1>5, <1>6, <2>1, <2>2 DEF Generating
<1>8. CASE LoadStatuses(g)
  <2>1. Continue(g, "replace", [carried |-> Carried(g)])
    BY <1>8 DEF LoadStatuses
  <2>2. ASSUME NEW c
        PROVE  "phase" \notin DOMAIN [carried |-> c] /\ "day" \notin DOMAIN [carried |-> c]
    OBVIOUS
  <2>3. QED
    BY <1>6, <2>1, <2>2 DEF Generating
<1>9. QED
  BY <1>5, <1>7, <1>8 DEF GenerationFails

\* Instances that are in their hour, and those that end it or are restarted in it.
LEMMA HourEndsKeeps ==
    ASSUME AdvisorInv, NEW i \in Instance, BriefMailFails(i) \/ EndHour(i) \/ InstanceRestarts(i)
    PROVE  AdvisorInv'
<1>1. i \in Generator /\ i # Owner /\ AdvisorTypeOK
  BY OwnerIsNoInstance DEF Generator, AdvisorInv
<1>2. ~JobAt(i, "none") /\ UNCHANGED <<day, brief, mails, lapsed>>
  BY DEF BriefMailFails, EndHour, InstanceRestarts, JobAt
<1>3. CASE BriefMailFails(i)
  <2>1. Finish(i) /\ advisorLock' = advisorLock
    BY <1>3 DEF BriefMailFails
  <2>2. QED
    BY <1>1, <1>2, <2>1, FinishedJob, MemoryMoves DEF Generating
<1>4. ASSUME job' = [job EXCEPT ![i] = NoJob]
      PROVE  /\ DOMAIN job' = Generator
             /\ \A h \in Generator : JobOK(job'[h]) /\ (h # i => job'[h] = job[h])
             /\ job'[i].phase = "none"
  BY <1>1, <1>4 DEF AdvisorTypeOK, NoJob, JobOK, Phases, WithDay
<1>5. CASE InstanceRestarts(i)
  <2>1. job' = [job EXCEPT ![i] = NoJob] /\ advisorLock' = advisorLock
    BY <1>5 DEF InstanceRestarts
  <2>2. QED
    BY <1>1, <1>2, <1>4, <2>1, MemoryMoves DEF Generating
<1>6. CASE EndHour(i)
  <2>1. job' = [job EXCEPT ![i] = NoJob] /\ advisorLock' = FALSE
    BY <1>6 DEF EndHour
  <2>2. AdvisorTypeOK'
    BY <1>1, <1>2, <1>4, <2>1 DEF AdvisorTypeOK, JobAt, Generator
  <2>3. ASSUME ~lapsed PROVE (LockIsHeld /\ OneInItsHour /\ MailedIsThere /\ NotMailedYet)'
    <3>1. OneInItsHour /\ MailedIsThere
      BY <2>3 DEF AdvisorInv
    <3>2. \A j \in Instance : JobAt(j, "none")'
      BY <1>1, <1>2, <1>4, <2>1, <3>1 DEF OneInItsHour, JobAt, Generator
    <3>3. QED
      BY <1>2, <3>1, <3>2
         DEF LockIsHeld, OneInItsHour, MailedIsThere, NotMailedYet, JobAt, Generating
  <2>4. QED
    BY <1>2, <2>2, <2>3 DEF AdvisorInv
<1>7. QED
  BY <1>3, <1>5, <1>6

\* A lock that expires with an instance in its hour is what lapsed records.
LEMMA ExpiryKeeps == ASSUME AdvisorInv, AdvisorLockExpires PROVE AdvisorInv'
<1>1. UNCHANGED <<day, brief, job, mails>> /\ advisorLock' = FALSE
  BY DEF AdvisorLockExpires
<1>2. lapsed' = (lapsed \/ \E i \in Instance : ~JobAt(i, "none"))
  BY DEF AdvisorLockExpires
<1>3. AdvisorTypeOK'
  BY <1>1, <1>2 DEF AdvisorInv, AdvisorTypeOK, JobAt
<1>4. ASSUME ~lapsed' PROVE (LockIsHeld /\ OneInItsHour /\ MailedIsThere /\ NotMailedYet)'
  <2>1. ~lapsed /\ \A i \in Instance : JobAt(i, "none")
    BY <1>2, <1>4
  <2>2. QED
    BY <1>1, <2>1 DEF AdvisorInv, LockIsHeld, OneInItsHour, MailedIsThere, NotMailedYet, JobAt
<1>5. QED
  BY <1>3, <1>4 DEF AdvisorInv

\* A brief that is written again is there, and its mail is still the day's first.
LEMMA ReplaceKeeps == ASSUME AdvisorInv, NEW g \in Generator, Replace(g) PROVE AdvisorInv'
<1> DEFINE d == job[g].day
<1>1. AdvisorTypeOK /\ UNCHANGED <<day, mails, advisorLock, lapsed>> /\ job[g].phase = "replace"
  BY DEF Replace, AdvisorInv, JobAt
<1>2. d \in Day
  BY <1>1 DEF AdvisorTypeOK, JobOK, WithDay, Phases, Generating
<1>3. brief' = [brief EXCEPT ![d] = [there |-> TRUE, id |-> @.id + 1, lines |-> job[g].kept,
                                     handled |-> job[g].carried]]
  BY DEF Replace
<1>4. /\ DOMAIN brief' = Day
      /\ \A e \in Day : /\ "there" \in DOMAIN brief'[e]
                        /\ brief'[e].there = (IF e = d THEN TRUE ELSE brief[e].there)
  BY <1>1, <1>2, <1>3 DEF AdvisorTypeOK
<1>5. /\ DOMAIN job' = Generator
      /\ \A h \in Generator : JobOK(job'[h]) /\ (h # g => job'[h] = job[h])
      /\ IF g = Owner THEN job'[g].phase = "none"
         ELSE job'[g].phase = "unlock" \/ (job'[g].phase = "mail" /\ job'[g].day = d)
  <2>1. CASE Finish(g)
    BY <1>1, <2>1, FinishedJob
  <2>2. CASE g # Owner /\ job' = [job EXCEPT ![g] = [phase |-> "mail", day |-> d]]
    BY <1>1, <1>2, <2>2 DEF AdvisorTypeOK, JobOK, Phases, WithDay
  <2>3. QED
    BY <2>1, <2>2 DEF Replace
<1>6. AdvisorTypeOK'
  BY <1>1, <1>4, <1>5 DEF AdvisorTypeOK, JobAt, Generator
<1>7. ASSUME ~lapsed PROVE (LockIsHeld /\ OneInItsHour /\ MailedIsThere /\ NotMailedYet)'
  <2>1. LockIsHeld /\ OneInItsHour /\ MailedIsThere /\ NotMailedYet
    BY <1>7 DEF AdvisorInv
  <2>2. \A i \in Instance : i # Owner /\ i \in Generator
    BY OwnerIsNoInstance DEF Generator
  <2>3. \A i \in Instance : JobAt(i, "none")' \/ ~JobAt(i, "none")
    BY <1>1, <1>5, <2>2 DEF JobAt
  <2>4. LockIsHeld' /\ OneInItsHour'
    BY <1>1, <2>1, <2>3 DEF LockIsHeld, OneInItsHour
  <2>5. MailedIsThere'
    BY <1>1, <1>4, <2>1 DEF MailedIsThere
  <2>6. ASSUME NEW i \in Instance
        PROVE  /\ job'[i].phase \in Generating \cup {"mail"} => mails'[job'[i].day] = 0
               /\ job'[i].phase = "mail" => brief'[job'[i].day].there
    <3>1. CASE i = g
      BY <1>1, <1>2, <1>4, <1>5, <2>1, <2>2, <3>1 DEF NotMailedYet, Generating
    <3>2. CASE i # g
      <4>1. job'[i] = job[i] /\ (job[i].phase = "mail" => job[i].day \in Day)
        BY <1>1, <1>5, <2>2, <3>2 DEF AdvisorTypeOK, JobOK, WithDay, Phases
      <4>2. QED
        BY <1>1, <1>4, <2>1, <4>1 DEF NotMailedYet, JobAt
    <3>3. QED
      BY <3>1, <3>2
  <2>7. QED
    BY <2>4, <2>5, <2>6 DEF NotMailedYet, JobAt
<1>8. QED
  BY <1>1, <1>6, <1>7 DEF AdvisorInv

\* The mail that is sent is the first of its day, and of a brief that is there.
LEMMA SendBriefKeeps == ASSUME AdvisorInv, NEW i \in Instance, SendBrief(i) PROVE AdvisorInv'
<1> DEFINE d == job[i].day
<1>1. i \in Generator /\ i # Owner /\ AdvisorTypeOK
  BY OwnerIsNoInstance DEF Generator, AdvisorInv
<1>2. UNCHANGED <<day, brief, advisorLock, lapsed>> /\ job[i].phase = "mail" /\ Finish(i)
  BY DEF SendBrief, JobAt
<1>3. d \in Day
  BY <1>1, <1>2 DEF AdvisorTypeOK, JobOK, WithDay, Phases
<1>4. mails' \in [Day -> Nat] /\ \A e \in Day : mails'[e] = (IF e = d THEN mails[d] + 1 ELSE mails[e])
  BY <1>1, <1>3 DEF SendBrief, AdvisorTypeOK
<1>5. /\ DOMAIN job' = Generator
      /\ \A h \in Generator : JobOK(job'[h]) /\ (h # i => job'[h] = job[h])
      /\ job'[i].phase = "unlock"
  BY <1>1, <1>2, FinishedJob
<1>6. AdvisorTypeOK'
  BY <1>1, <1>2, <1>4, <1>5 DEF AdvisorTypeOK, JobAt, Generator
<1>7. ASSUME ~lapsed PROVE (LockIsHeld /\ OneInItsHour /\ MailedIsThere /\ NotMailedYet)'
  <2>1. LockIsHeld /\ OneInItsHour /\ MailedIsThere /\ NotMailedYet
    BY <1>7 DEF AdvisorInv
  <2>2. mails[d] = 0 /\ brief[d].there
    BY <1>2, <2>1 DEF NotMailedYet, JobAt
  <2>3. \A j \in Instance : j # i => JobAt(j, "none") /\ JobAt(j, "none")'
    BY <1>2, <1>5, <2>1 DEF OneInItsHour, JobAt, Generator
  <2>4. LockIsHeld' /\ OneInItsHour'
    BY <1>2, <2>1, <2>3 DEF LockIsHeld, OneInItsHour, JobAt
  <2>5. MailedIsThere'
    BY <1>2, <1>4, <2>1, <2>2 DEF MailedIsThere
  <2>6. NotMailedYet'
    BY <1>5, <2>3 DEF NotMailedYet, JobAt, Generating
  <2>7. QED
    BY <2>4, <2>5, <2>6
<1>8. QED
  BY <1>2, <1>6, <1>7 DEF AdvisorInv

-----------------------------------------------------------------------------
\* The theorem.

LEMMA AdvisorStarts == ASSUME InitAdvisor PROVE AdvisorInv
<1>1. DOMAIN job = Generator /\ \A g \in Generator : job[g] = NoJob
  BY DEF InitAdvisor, Generator
<1>2. AdvisorTypeOK
  <2>1. day \in Day
    BY AdvisorBounds DEF InitAdvisor, Day
  <2>2. (\A g \in Generator : JobOK(job[g])) /\ JobAt(Owner, "none")
    BY <1>1 DEF JobOK, JobAt, NoJob, Phases, WithDay, Generator
  <2>3. DOMAIN brief = Day /\ \A d \in Day : "there" \in DOMAIN brief[d] /\ brief[d].there = FALSE
    BY DEF InitAdvisor, NoBrief
  <2>4. mails \in [Day -> Nat] /\ advisorLock = FALSE /\ lapsed = FALSE
    BY DEF InitAdvisor
  <2>5. QED
    BY <1>1, <2>1, <2>2, <2>3, <2>4 DEF AdvisorTypeOK
<1>3. QED
  BY <1>1, <1>2 DEF AdvisorInv, InitAdvisor, LockIsHeld, OneInItsHour, MailedIsThere, NotMailedYet,
                    JobAt, NoJob, Generating, Generator

LEMMA AdvisorSteps == ASSUME AdvisorInv, [NextAdvisor]_advisorVars PROVE AdvisorInv'
<1>1. CASE UNCHANGED advisorVars
  BY <1>1 DEF advisorVars, AdvisorInv, AdvisorTypeOK, LockIsHeld, OneInItsHour, MailedIsThere,
              NotMailedYet, JobAt
<1>2. CASE Tick \/ Decide \/ UpdateSettings \/ GenerateNow \/ AdvisorLockExpires
  BY <1>2, ClockKeeps, DecideKeeps, GenerateNowKeeps, ExpiryKeeps
<1>3. ASSUME NEW i \in Instance,
             \/ StartHour(i) \/ FindExisting(i) \/ SendBrief(i) \/ BriefMailFails(i) \/ EndHour(i)
             \/ InstanceRestarts(i)
      PROVE  AdvisorInv'
  BY <1>3, StartHourKeeps, FindExistingKeeps, SendBriefKeeps, HourEndsKeeps
<1>4. ASSUME NEW g \in Generator,
             Collect(g) \/ LoadStatuses(g) \/ Replace(g) \/ GenerationFails(g)
      PROVE  AdvisorInv'
  BY <1>4, GenerationKeeps, ReplaceKeeps
<1>5. QED
  BY <1>1, <1>2, <1>3, <1>4 DEF NextAdvisor, Generator

\* However many instances poll the clock, and however they are restarted or fail in
\* their hour, the brief of a day is mailed once, unless a lock expired under its
\* holder: runHourly's lock and findByDate's check suffice together.
THEOREM OneMailADayHolds == AdvisorSpec => []OneMailADay
<1>1. AdvisorInv => OneMailADay
  BY DEF AdvisorInv, AdvisorTypeOK, OneMailADay, MailedIsThere
<1>2. QED
  BY AdvisorStarts, AdvisorSteps, <1>1, PTL DEF AdvisorSpec

-----------------------------------------------------------------------------
\* What the owner has decided.

\* A decision the table remembers of an advice, in the brief of a day.
DecidedIn(d, a) == Decision(brief[d], a)

BriefOK(b) ==
    /\ DOMAIN b = {"there", "id", "lines", "handled"}
    /\ b.id \in Nat /\ b.lines \subseteq Advice /\ b.handled \in [b.lines -> Nat]

\* Nobody writes a brief of a day to come.
BriefsOK ==
    /\ day \in Day /\ brief = [d \in Day |-> brief[d]]
    /\ \A d \in Day : BriefOK(brief[d]) /\ (brief[d].lines # {} => d <= day)
    /\ decided \in [Advice -> Nat]

\* The last decision on an advice that is not lost is in the brief of a day before it.
Recorded ==
    \A a \in Advice \ lost :
        decided[a] # NotYet => \E d \in Day : d <= decided[a] /\ DecidedIn(d, a) = decided[a]

Rests(a, d) == decided[a] # NotYet /\ decided[a] <= d /\ d < decided[a] + RestDays

\* What a generation keeps beside its day.
MemoryOK(j) ==
    /\ {"kept", "missed"} \subseteq DOMAIN j /\ j.kept \subseteq Advice
    /\ j.phase = "replace" => "carried" \in DOMAIN j /\ j.carried \in [j.kept -> Nat]

\* A line it will write, and whose decision it does not miss: the decisions it has loaded are
\* those of the brief it will replace, and one that rests has its decision there.
LineOK(j, a) ==
    /\ j.phase = "replace" => j.carried[a] = DecidedIn(j.day, a)
    /\ Rests(a, j.day) => DecidedIn(j.day, a) # NotYet

LinesOK(j) ==
    /\ j.phase \in WithDay => j.day <= day
    /\ j.phase \in {"narrate", "replace"} =>
         MemoryOK(j) /\ \A a \in j.kept \ (j.missed \cup lost) : LineOK(j, a)

RestInv == BriefsOK /\ Recorded /\ \A g \in Generator : LinesOK(job[g])

-----------------------------------------------------------------------------
\* What a step leaves of it.

\* A generation's lines stay as they were, where neither the decisions it goes by change
\* nor what it misses.
LEMMA LinesGoOn ==
    ASSUME NEW j, JobOK(j), LinesOK(j), day \in Day, day' \in Day, day <= day', lost \subseteq lost',
           j.phase \in {"narrate", "replace"} =>
             \A a \in j.kept \ (j.missed \cup lost') :
               DecidedIn(j.day, a)' = DecidedIn(j.day, a) /\ decided'[a] = decided[a]
    PROVE  LinesOK(j)'
<1>1. j.phase \in WithDay => j.day \in Nat /\ day \in Nat /\ day' \in Nat
  BY DEF JobOK, Day
<1>2. j.phase \in WithDay => j.day <= day'
  BY <1>1 DEF LinesOK
<1>3. ASSUME j.phase \in {"narrate", "replace"}, NEW a \in j.kept \ (j.missed \cup lost')
      PROVE  LineOK(j, a)'
  <2>1. LineOK(j, a) /\ DecidedIn(j.day, a)' = DecidedIn(j.day, a) /\ decided'[a] = decided[a]
    BY <1>3 DEF LinesOK
  <2>2. QED
    BY <2>1 DEF LineOK, Rests
<1>4. QED
  BY <1>2, <1>3 DEF LinesOK, MemoryOK

LEMMA GenerationsHaveDays ==
    ASSUME AdvisorInv, NEW g \in Generator
    PROVE  JobOK(job[g]) /\ (job[g].phase \in WithDay => job[g].day \in Day)
BY DEF AdvisorInv, AdvisorTypeOK, JobOK

\* Only the memory of a generation changes.
LEMMA MemoryRests ==
    ASSUME AdvisorInv, RestInv, UNCHANGED <<brief, decided, lost>>, day' \in Day, day <= day',
           NEW g \in Generator, \A h \in Generator : h # g => job'[h] = job[h],
           NEW m, job'[g] = m, LinesOK(m)'
    PROVE  RestInv'
<1>1. BriefsOK' /\ Recorded'
  <2>1. day \in Nat /\ day' \in Nat /\ \A d \in Day : d \in Nat
    BY DEF RestInv, BriefsOK, Day
  <2>2. BriefsOK'
    BY <2>1 DEF RestInv, BriefsOK, BriefOK
  <2>3. QED
    BY <2>2 DEF RestInv, Recorded, DecidedIn
<1>2. ASSUME NEW h \in Generator, h # g PROVE LinesOK(job[h])'
  <2> PICK j : j = job[h] /\ j = job'[h]
    BY <1>2
  <2>1. JobOK(j) /\ LinesOK(j) /\ day \in Day
    BY GenerationsHaveDays DEF RestInv, BriefsOK
  <2>2. \A a : DecidedIn(j.day, a)' = DecidedIn(j.day, a)
    BY DEF DecidedIn
  <2>3. LinesOK(j)'
    BY <2>1, <2>2, LinesGoOn
  <2>4. QED
    BY <2>3
<1>3. \A h \in Generator : LinesOK(job[h])'
  BY <1>2
<1>4. QED
  BY <1>1, <1>3 DEF RestInv

\* It has no lines, or none any more.
LEMMA NoLinesRest ==
    ASSUME AdvisorInv, RestInv, UNCHANGED <<day, brief, decided, lost>>,
           NEW g \in Generator, \A h \in Generator : h # g => job'[h] = job[h],
           job'[g].phase \notin {"narrate", "replace"},
           job'[g].phase \in WithDay => job'[g].day <= day
    PROVE  RestInv'
<1> PICK m : m = job'[g]
  OBVIOUS
<1>1. LinesOK(m)'
  BY DEF LinesOK
<1>2. day \in Day /\ day <= day /\ day' = day
  BY DEF RestInv, BriefsOK, Day
<1>3. QED
  BY <1>1, <1>2, MemoryRests

\* The clock, the switches and the lock.
LEMMA ClockRests ==
    ASSUME AdvisorInv, RestInv, UNCHANGED <<brief, decided, lost, job>>,
           day' = day \/ (day' = day + 1 /\ day' \in Day)
    PROVE  RestInv'
<1> PICK m : m = job[Owner]
  OBVIOUS
<1>1. Owner \in Generator /\ JobOK(m) /\ LinesOK(m) /\ day \in Day
  BY GenerationsHaveDays DEF Generator, RestInv, BriefsOK
<1>2. day' \in Day /\ day <= day'
  BY <1>1 DEF Day
<1>3. \A a : DecidedIn(m.day, a)' = DecidedIn(m.day, a)
  BY DEF DecidedIn
<1>4. LinesOK(m)'
  BY <1>1, <1>2, <1>3, LinesGoOn
<1>5. QED
  BY <1>1, <1>2, <1>4, MemoryRests

\* A generation ends.
LEMMA FinishRests ==
    ASSUME AdvisorInv, RestInv, UNCHANGED <<day, brief, decided, lost>>, NEW g \in Generator, Finish(g)
    PROVE  RestInv'
<1>1. /\ \A h \in Generator : h # g => job'[h] = job[h]
      /\ job'[g].phase \in {"none", "unlock"}
  BY FinishedJob DEF AdvisorInv
<1>2. job'[g].phase \notin WithDay /\ job'[g].phase \notin {"narrate", "replace"}
  BY <1>1 DEF WithDay
<1>3. QED
  BY <1>1, <1>2, NoLinesRest

\* The hour of an instance.
LEMMA HourRests ==
    ASSUME AdvisorInv, RestInv, NEW i \in Instance,
           \/ StartHour(i) \/ FindExisting(i) \/ SendBrief(i) \/ BriefMailFails(i) \/ EndHour(i)
           \/ InstanceRestarts(i)
    PROVE  RestInv'
<1>1. i \in Generator /\ UNCHANGED <<day, brief, decided, lost>> /\ AdvisorTypeOK /\ day \in Day
  BY DEF Generator, StartHour, FindExisting, SendBrief, BriefMailFails, EndHour, InstanceRestarts, AdvisorInv,
         RestInv, BriefsOK
<1>2. CASE Finish(i)
  BY <1>1, <1>2, FinishRests
<1>3. ASSUME NEW m, job' = [job EXCEPT ![i] = m], m.phase \notin {"narrate", "replace"},
             m.phase \in WithDay => m.day <= day
      PROVE  RestInv'
  <2>1. job'[i] = m /\ \A h \in Generator : h # i => job'[h] = job[h]
    BY <1>1, <1>3 DEF AdvisorTypeOK
  <2>2. QED
    BY <1>1, <1>3, <2>1, NoLinesRest
<1>4. CASE StartHour(i)
  <2> PICK m : m = IF switches.brief THEN [phase |-> "existing", day |-> day, mail |-> switches.mail]
                   ELSE [phase |-> "unlock"]
    OBVIOUS
  <2>1. job' = [job EXCEPT ![i] = m]
    BY <1>4 DEF StartHour
  <2>2. m.phase \in {"existing", "unlock"} /\ (m.phase # "unlock" => m.day = day)
    OBVIOUS
  <2>3. day <= day /\ "unlock" \notin WithDay
    BY <1>1 DEF Day, WithDay
  <2>4. QED
    BY <1>3, <2>1, <2>2, <2>3
<1>5. CASE EndHour(i) \/ InstanceRestarts(i)
  <2>1. job' = [job EXCEPT ![i] = NoJob]
    BY <1>5 DEF EndHour, InstanceRestarts
  <2>2. NoJob.phase = "none" /\ "none" \notin WithDay
    BY DEF NoJob, WithDay
  <2>3. QED
    BY <1>3, <2>1, <2>2
<1>6. CASE FindExisting(i) /\ ~Finish(i)
  <2>1. job[i].phase = "existing" /\ Continue(i, "collect", <<>>)
    BY <1>6 DEF FindExisting, JobAt
  <2>2. "phase" \notin DOMAIN <<>> /\ "day" \notin DOMAIN <<>>
    OBVIOUS
  <2>3. job[i].phase \in WithDay /\ "collect" \in WithDay
    BY <2>1 DEF WithDay, Phases, Generating
  <2>4. /\ \A h \in Generator : h # i => job'[h] = job[h]
        /\ job'[i].phase = "collect" /\ job'[i].day = job[i].day
    BY <1>1, <2>1, <2>2, <2>3, ContinuedJob
  <2>5. job[i].day <= day
    BY <1>1, <2>3 DEF RestInv, LinesOK
  <2>6. QED
    BY <1>1, <2>4, <2>5, NoLinesRest
<1>7. QED
  BY <1>2, <1>4, <1>5, <1>6 DEF SendBrief, BriefMailFails

LEMMA GenerateNowRests == ASSUME AdvisorInv, RestInv, GenerateNow PROVE RestInv'
<1> PICK m : m = [phase |-> "collect", day |-> day]
  OBVIOUS
<1>1. job' = [job EXCEPT ![Owner] = m] /\ UNCHANGED <<day, brief, decided, lost>>
  BY DEF GenerateNow
<1>2. Owner \in Generator /\ DOMAIN job = Generator /\ day \in Day
  BY DEF Generator, AdvisorInv, AdvisorTypeOK, RestInv, BriefsOK
<1>3. job'[Owner] = m /\ \A h \in Generator : h # Owner => job'[h] = job[h]
  BY <1>1, <1>2
<1>4. m.phase = "collect" /\ m.day <= day
  BY <1>2 DEF Day
<1>5. QED
  BY <1>1, <1>2, <1>3, <1>4, NoLinesRest

LEMMA TickRests ==
    ASSUME AdvisorInv, RestInv, Tick \/ UpdateSettings \/ AdvisorLockExpires \/ UNCHANGED advisorVars
    PROVE  RestInv'
<1>1. UNCHANGED <<brief, decided, lost, job>>
  BY DEF Tick, UpdateSettings, AdvisorLockExpires, advisorVars
<1>2. day' = day \/ (day' = day + 1 /\ day' \in Day)
  BY DEF Tick, UpdateSettings, AdvisorLockExpires, advisorVars
<1>3. QED
  BY <1>1, <1>2, ClockRests

LEMMA FailureRests == ASSUME AdvisorInv, RestInv, NEW g \in Generator, GenerationFails(g) PROVE RestInv'
<1>1. UNCHANGED <<day, brief, decided, lost>> /\ Finish(g)
  BY DEF GenerationFails
<1>2. QED
  BY <1>1, FinishRests

-----------------------------------------------------------------------------
\* A generation on its way.

\* What Collect and LoadStatuses add to its memory.
LEMMA Gathered ==
    ASSUME NEW j, JobOK(j), j.phase \in WithDay, NEW kept,
           NEW m, m = Spread([kept |-> kept, missed |-> {}], [j EXCEPT !.phase = "narrate"])
    PROVE  /\ {"kept", "missed"} \subseteq DOMAIN m
           /\ m.phase = "narrate" /\ m.day = j.day /\ m.kept = kept /\ m.missed = {}
<1> DEFINE e == [j EXCEPT !.phase = "narrate"]
           c == [kept |-> kept, missed |-> {}]
<1>1. "phase" \in DOMAIN e /\ "day" \in DOMAIN e /\ e.phase = "narrate" /\ e.day = j.day
  BY DEF JobOK
<1>2. DOMAIN c = {"kept", "missed"} /\ c.kept = kept /\ c.missed = {}
  OBVIOUS
<1>3. m = Spread(c, e)
  OBVIOUS
<1> HIDE DEF e, c
<1>4. DOMAIN m = DOMAIN c \cup DOMAIN e /\ \A f \in DOMAIN m : m[f] = IF f \in DOMAIN c THEN c[f] ELSE e[f]
  BY <1>3 DEF Spread
<1>5. QED
  BY <1>1, <1>2, <1>4

LEMMA Loaded ==
    ASSUME NEW j, JobOK(j), j.phase \in WithDay, {"kept", "missed"} \subseteq DOMAIN j, NEW carried,
           NEW m, m = Spread([carried |-> carried], [j EXCEPT !.phase = "replace"])
    PROVE  /\ {"kept", "missed", "carried"} \subseteq DOMAIN m
           /\ m.phase = "replace" /\ m.day = j.day /\ m.kept = j.kept /\ m.missed = j.missed
           /\ m.carried = carried
<1> DEFINE e == [j EXCEPT !.phase = "replace"]
           c == [carried |-> carried]
<1>1. /\ {"phase", "day", "kept", "missed"} \subseteq DOMAIN e
      /\ e.phase = "replace" /\ e.day = j.day /\ e.kept = j.kept /\ e.missed = j.missed
  BY DEF JobOK
<1>2. DOMAIN c = {"carried"} /\ c.carried = carried
  OBVIOUS
<1>3. m = Spread(c, e)
  OBVIOUS
<1> HIDE DEF e, c
<1>4. DOMAIN m = DOMAIN c \cup DOMAIN e /\ \A f \in DOMAIN m : m[f] = IF f \in DOMAIN c THEN c[f] ELSE e[f]
  BY <1>3 DEF Spread
<1>5. QED
  BY <1>1, <1>2, <1>4

\* Advice that rests by a decision of an earlier brief is dropped, so what is kept
\* has its decision, if any, in the brief that is to be replaced.
LEMMA CollectRests == ASSUME AdvisorInv, RestInv, NEW g \in Generator, Collect(g) PROVE RestInv'
<1> PICK j : j = job[g]
  OBVIOUS
<1>1. JobOK(j) /\ LinesOK(j) /\ j.phase = "collect" /\ UNCHANGED <<day, brief, decided, lost>>
  BY GenerationsHaveDays DEF RestInv, Collect, JobAt
<1>2. j.phase \in WithDay /\ j.day \in Day /\ j.day <= day /\ day \in Day
  BY <1>1, GenerationsHaveDays DEF WithDay, Phases, Generating, LinesOK, RestInv, BriefsOK
<1>3. PICK signals \in SUBSET Advice :
        \/ Finish(g)
        \/ Continue(g, "narrate", [kept |-> signals \ Suppressed(j.day), missed |-> {}])
  BY DEF Collect
<1>4. CASE Finish(g)
  BY <1>1, <1>4, FinishRests
<1>5. CASE Continue(g, "narrate", [kept |-> signals \ Suppressed(j.day), missed |-> {}])
  <2> PICK kept : kept = signals \ Suppressed(j.day)
    OBVIOUS
  <2> PICK m : m = Spread([kept |-> kept, missed |-> {}], [j EXCEPT !.phase = "narrate"])
    OBVIOUS
  <2>1. job' = [job EXCEPT ![g] = m]
    BY <1>5 DEF Continue
  <2>2. job'[g] = m /\ \A h \in Generator : h # g => job'[h] = job[h]
    BY <2>1 DEF AdvisorInv, AdvisorTypeOK
  <2>3. {"kept", "missed"} \subseteq DOMAIN m /\ m.phase = "narrate" /\ m.day = j.day /\ m.kept = kept
    BY <1>1, <1>2, Gathered
  <2>4. ASSUME NEW a \in kept \ lost, Rests(a, j.day) PROVE DecidedIn(j.day, a) # NotYet
    <3>1. a \in Advice \ lost /\ a \notin Suppressed(j.day) /\ decided[a] # NotYet /\ decided[a] \in Nat
      BY <2>4 DEF Rests, RestInv, BriefsOK
    <3>2. PICK e \in Day : e <= decided[a] /\ DecidedIn(e, a) = decided[a]
      BY <3>1 DEF RestInv, Recorded
    <3>3. e \in Nat /\ j.day \in Nat /\ RestDays \in Nat /\ 1 <= e /\ e <= j.day /\ j.day < decided[a] + RestDays
      BY <1>2, <2>4, <3>1, <3>2, AdvisorBounds DEF Day, Rests
    <3>4. CASE e = j.day
      BY <3>1, <3>2, <3>4
    <3>5. CASE e # j.day
      <4>1. e \in 1..(j.day - 1) /\ decided[a] + RestDays > j.day
        BY <3>1, <3>3, <3>5
      <4>2. a \in Suppressed(j.day)
        BY <3>1, <3>2, <4>1 DEF Suppressed, DecidedIn
      <4>3. QED
        BY <3>1, <4>2
    <3>6. QED
      BY <3>4, <3>5
  <2>5. \A a \in m.kept \ (m.missed \cup lost) : LineOK(m, a)'
    BY <1>1, <2>3, <2>4 DEF LineOK, Rests, DecidedIn
  <2>6. LinesOK(m)'
    BY <1>1, <1>2, <2>3, <2>5 DEF LinesOK, MemoryOK
  <2>7. day <= day
    BY <1>2 DEF Day
  <2>8. QED
    BY <1>1, <1>2, <2>2, <2>6, <2>7, MemoryRests
<1>6. QED
  BY <1>3, <1>4, <1>5

\* The decisions of the brief to be replaced are loaded, for all that it keeps.
LEMMA LoadStatusesRests == ASSUME AdvisorInv, RestInv, NEW g \in Generator, LoadStatuses(g) PROVE RestInv'
<1> PICK j : j = job[g]
  OBVIOUS
<1>1. JobOK(j) /\ LinesOK(j) /\ j.phase = "narrate" /\ UNCHANGED <<day, brief, decided, lost>>
  BY GenerationsHaveDays DEF RestInv, LoadStatuses, JobAt
<1>2. j.phase \in WithDay /\ j.day \in Day /\ j.day <= day /\ day \in Day
  BY <1>1, GenerationsHaveDays DEF WithDay, Phases, Generating, LinesOK, RestInv, BriefsOK
<1>3. MemoryOK(j) /\ \A a \in j.kept \ (j.missed \cup lost) : LineOK(j, a)
  BY <1>1 DEF LinesOK
<1> PICK carried : carried = Carried(g)
  OBVIOUS
<1> PICK m : m = Spread([carried |-> carried], [j EXCEPT !.phase = "replace"])
  OBVIOUS
<1>4. job' = [job EXCEPT ![g] = m]
  BY DEF LoadStatuses, Continue
<1>5. job'[g] = m /\ \A h \in Generator : h # g => job'[h] = job[h]
  BY <1>4 DEF AdvisorInv, AdvisorTypeOK
<1>6. /\ {"kept", "missed", "carried"} \subseteq DOMAIN m
      /\ m.phase = "replace" /\ m.day = j.day /\ m.kept = j.kept /\ m.missed = j.missed
      /\ m.carried = carried
  BY <1>1, <1>2, <1>3, Loaded DEF MemoryOK
<1>7. carried = [a \in j.kept |-> DecidedIn(j.day, a)]
  BY DEF Carried, DecidedIn
<1>8. \A a \in j.kept : DecidedIn(j.day, a) \in Nat
  BY <1>2 DEF DecidedIn, Decision, RestInv, BriefsOK, BriefOK, NotYet
<1>9. MemoryOK(m)
  BY <1>3, <1>6, <1>7, <1>8 DEF MemoryOK
<1>10. \A a \in m.kept \ (m.missed \cup lost) : LineOK(m, a)
  BY <1>3, <1>6, <1>7 DEF LineOK
<1>11. \A a : LineOK(m, a)' <=> LineOK(m, a)
  BY <1>1 DEF LineOK, Rests, DecidedIn
<1>12. LinesOK(m)'
  BY <1>1, <1>2, <1>6, <1>9, <1>10, <1>11 DEF LinesOK, MemoryOK
<1>13. day <= day
  BY <1>2 DEF Day
<1>14. QED
  BY <1>1, <1>2, <1>5, <1>12, <1>13, MemoryRests

-----------------------------------------------------------------------------
\* A decision, and the brief written again.

\* The decision on a line of a brief.
DecidesOn(d, a) ==
    /\ brief' = [brief EXCEPT ![d].handled[a] = day]
    /\ decided' = [decided EXCEPT ![a] = day]
    /\ job' = [g \in DOMAIN job |->
         IF JobAt(g, "narrate") THEN [job[g] EXCEPT !.missed = @ \cup (IF d = job[g].day THEN {} ELSE {a})]
         ELSE IF JobAt(g, "replace") THEN [job[g] EXCEPT !.missed = @ \cup {a}]
         ELSE job[g]]
    /\ UNCHANGED <<day, lost>>

\* What a generation under way misses of a decision is marked in its memory; one that
\* has yet to load the decisions of the day will see it.
LEMMA DecideRests == ASSUME AdvisorInv, RestInv, Decide PROVE RestInv'
<1>0. PICK d \in Day : \E a \in brief[d].lines : DecidesOn(d, a)
  BY DEF Decide, DecidesOn
<1> PICK a \in brief[d].lines : DecidesOn(d, a)
  BY <1>0
<1>1. /\ brief' = [brief EXCEPT ![d].handled[a] = day]
      /\ decided' = [decided EXCEPT ![a] = day]
      /\ job' = [g \in DOMAIN job |->
           IF JobAt(g, "narrate") THEN [job[g] EXCEPT !.missed = @ \cup (IF d = job[g].day THEN {} ELSE {a})]
           ELSE IF JobAt(g, "replace") THEN [job[g] EXCEPT !.missed = @ \cup {a}]
           ELSE job[g]]
      /\ UNCHANGED <<day, lost>>
  BY DEF DecidesOn
<1>2. /\ day \in Day /\ day \in Nat /\ day # NotYet /\ d <= day /\ DOMAIN brief = Day
      /\ \A e \in Day : BriefOK(brief[e]) /\ (brief[e].lines # {} => e <= day)
      /\ decided \in [Advice -> Nat] /\ a \in Advice
  BY <1>1 DEF RestInv, BriefsOK, BriefOK, Day, NotYet
<1>3. \A e \in Day \ {d} : brief'[e] = brief[e]
  BY <1>1, <1>2
<1>4. /\ brief'[d].id = brief[d].id /\ brief'[d].lines = brief[d].lines
      /\ brief'[d].handled = [brief[d].handled EXCEPT ![a] = day]
      /\ DOMAIN brief'[d] = DOMAIN brief[d]
  BY <1>1, <1>2 DEF BriefOK
<1>5. \A e \in Day : \A x : DecidedIn(e, x)' = IF e = d /\ x = a THEN day ELSE DecidedIn(e, x)
  BY <1>1, <1>2, <1>3, <1>4 DEF DecidedIn, Decision, BriefOK
<1>6. decided' \in [Advice -> Nat] /\ decided'[a] = day /\ \A x \in Advice \ {a} : decided'[x] = decided[x]
  BY <1>1, <1>2
<1>7. BriefsOK'
  <2>1. BriefOK(brief'[d])
    BY <1>1, <1>2, <1>4 DEF BriefOK
  <2>2. \A e \in Day : BriefOK(brief'[e]) /\ (brief'[e].lines # {} => e <= day)
    BY <1>2, <1>3, <1>4, <2>1
  <2>3. brief' = [e \in Day |-> brief'[e]]
    BY <1>1, <1>2
  <2>4. QED
    BY <1>1, <1>2, <1>6, <2>2, <2>3 DEF BriefsOK
<1>8. Recorded'
  <2>1. ASSUME NEW x \in Advice \ lost, decided'[x] # NotYet
        PROVE  \E e \in Day : e <= decided'[x] /\ DecidedIn(e, x)' = decided'[x]
    <3>1. CASE x = a
      BY <1>2, <1>5, <1>6, <3>1
    <3>2. CASE x # a
      <4>1. PICK e \in Day : e <= decided[x] /\ DecidedIn(e, x) = decided[x]
        BY <1>6, <2>1, <3>2 DEF RestInv, Recorded
      <4>2. QED
        BY <1>5, <1>6, <2>1, <3>2, <4>1
    <3>3. QED
      BY <3>1, <3>2
  <2>2. QED
    BY <1>1, <2>1 DEF Recorded
<1>9. ASSUME NEW g \in Generator PROVE LinesOK(job[g])'
  <2> PICK j : j = job[g]
    OBVIOUS
  <2> PICK m : m = job'[g]
    OBVIOUS
  <2>1. JobOK(j) /\ LinesOK(j) /\ (j.phase \in WithDay => j.day \in Day)
    BY GenerationsHaveDays DEF RestInv
  <2>2. m = IF j.phase = "narrate" THEN [j EXCEPT !.missed = @ \cup (IF d = j.day THEN {} ELSE {a})]
            ELSE IF j.phase = "replace" THEN [j EXCEPT !.missed = @ \cup {a}]
            ELSE j
    BY <1>1 DEF JobAt, AdvisorInv, AdvisorTypeOK
  <2>3. CASE j.phase \notin {"narrate", "replace"}
    BY <1>1, <2>1, <2>2, <2>3 DEF LinesOK
  <2>4. CASE j.phase \in {"narrate", "replace"}
    <3>1. /\ MemoryOK(j) /\ (\A x \in j.kept \ (j.missed \cup lost) : LineOK(j, x))
          /\ j.day \in Day /\ j.day <= day
      BY <2>1, <2>4 DEF LinesOK, WithDay, Phases, Generating
    <3>2. /\ DOMAIN m = DOMAIN j /\ m.phase = j.phase /\ m.day = j.day /\ m.kept = j.kept
          /\ j.phase = "replace" => m.carried = j.carried
          /\ j.missed \subseteq m.missed
          /\ a \in m.missed \/ (j.phase = "narrate" /\ j.day = d)
      BY <2>1, <2>2, <2>4, <3>1 DEF MemoryOK, JobOK, WithDay, Phases, Generating
    <3>3. MemoryOK(m)
      BY <3>1, <3>2 DEF MemoryOK
    <3>4. ASSUME NEW x \in m.kept \ (m.missed \cup lost) PROVE LineOK(m, x)'
      <4>1. x \in Advice /\ LineOK(j, x)
        BY <3>1, <3>2, <3>4 DEF MemoryOK
      <4>2. CASE x = a
        <5>1. m.phase = "narrate" /\ DecidedIn(m.day, x)' = day
          BY <1>5, <3>1, <3>2, <3>4, <4>2
        <5>2. QED
          BY <1>2, <5>1 DEF LineOK
      <4>3. CASE x # a
        <5>1. DecidedIn(m.day, x)' = DecidedIn(j.day, x) /\ decided'[x] = decided[x]
          BY <1>5, <1>6, <3>1, <3>2, <4>1, <4>3
        <5>2. QED
          BY <3>2, <4>1, <5>1 DEF LineOK, Rests
      <4>4. QED
        BY <4>2, <4>3
    <3>5. LinesOK(m)'
      BY <1>1, <3>1, <3>2, <3>3, <3>4 DEF LinesOK, MemoryOK
    <3>6. QED
      BY <3>5
  <2>5. QED
    BY <2>3, <2>4
<1>10. QED
  BY <1>7, <1>8, <1>9 DEF RestInv

\* What a brief is replaced by: for advice that is not lost then, the decision it had.
LEMMA DecisionsStay ==
    ASSUME AdvisorInv, RestInv, NEW g \in Generator, Replace(g), NEW a \in Advice \ lost', NEW e \in Day
    PROVE  DecidedIn(e, a)' = DecidedIn(e, a)
<1> PICK j : j = job[g]
  OBVIOUS
<1>1. JobOK(j) /\ LinesOK(j) /\ j.phase = "replace"
  BY GenerationsHaveDays DEF RestInv, Replace, JobAt
<1>2. j.day \in Day /\ MemoryOK(j) /\ \A x \in j.kept \ (j.missed \cup lost) : LineOK(j, x)
  BY <1>1, GenerationsHaveDays DEF WithDay, Phases, Generating, LinesOK
<1>3. /\ brief' = [brief EXCEPT ![j.day] = [there |-> TRUE, id |-> @.id + 1, lines |-> j.kept,
                                            handled |-> j.carried]]
      /\ lost' = lost \cup j.missed \cup {x \in Advice \ j.kept : Decision(brief[j.day], x) # NotYet}
  BY DEF Replace
<1>4. DOMAIN brief = Day
  BY DEF AdvisorInv, AdvisorTypeOK
<1>5. CASE e # j.day
  BY <1>2, <1>3, <1>4, <1>5 DEF DecidedIn
<1>6. CASE e = j.day
  <2>1. brief'[e].lines = j.kept /\ brief'[e].handled = j.carried
    BY <1>3, <1>4, <1>6
  <2>2. CASE a \in j.kept
    <3>1. j.carried[a] = DecidedIn(e, a)
      BY <1>1, <1>2, <1>3, <1>6, <2>2 DEF LineOK
    <3>2. DecidedIn(e, a)' = j.carried[a]
      BY <2>1, <2>2 DEF DecidedIn, Decision
    <3>3. QED
      BY <3>1, <3>2
  <2>3. CASE a \notin j.kept
    <3>1. DecidedIn(e, a) = NotYet
      BY <1>3, <1>6, <2>3 DEF DecidedIn
    <3>2. DecidedIn(e, a)' = NotYet
      BY <2>1, <2>3 DEF DecidedIn, Decision
    <3>3. QED
      BY <3>1, <3>2
  <2>4. QED
    BY <2>2, <2>3
<1>7. QED
  BY <1>5, <1>6

LEMMA ReplaceRests == ASSUME AdvisorInv, RestInv, NEW g \in Generator, Replace(g) PROVE RestInv'
<1> PICK j : j = job[g]
  OBVIOUS
<1>1. JobOK(j) /\ LinesOK(j) /\ j.phase = "replace" /\ UNCHANGED <<day, decided>>
  BY GenerationsHaveDays DEF RestInv, Replace, JobAt
<1>2. j.day \in Day /\ j.day <= day /\ day \in Day /\ MemoryOK(j)
  BY <1>1, GenerationsHaveDays DEF WithDay, Phases, Generating, LinesOK, RestInv, BriefsOK
<1>3. /\ brief' = [brief EXCEPT ![j.day] = [there |-> TRUE, id |-> @.id + 1, lines |-> j.kept,
                                            handled |-> j.carried]]
      /\ lost \subseteq lost'
  BY DEF Replace
<1>4. /\ DOMAIN brief = Day /\ decided \in [Advice -> Nat]
      /\ \A d \in Day : BriefOK(brief[d]) /\ (brief[d].lines # {} => d <= day)
  BY DEF RestInv, BriefsOK, AdvisorInv, AdvisorTypeOK
<1>5. BriefsOK'
  <2>1. \A d \in Day \ {j.day} : brief'[d] = brief[d]
    BY <1>3, <1>4
  <2>2. BriefOK(brief'[j.day])
    <3>1. brief'[j.day] = [there |-> TRUE, id |-> brief[j.day].id + 1, lines |-> j.kept, handled |-> j.carried]
      BY <1>2, <1>3, <1>4
    <3>2. brief[j.day].id \in Nat /\ j.kept \subseteq Advice /\ j.carried \in [j.kept -> Nat]
      BY <1>1, <1>2, <1>4 DEF BriefOK, MemoryOK
    <3>3. QED
      BY <3>1, <3>2 DEF BriefOK
  <2>3. \A d \in Day : BriefOK(brief'[d]) /\ (brief'[d].lines # {} => d <= day)
    BY <1>2, <1>4, <2>1, <2>2
  <2>4. brief' = [d \in Day |-> brief'[d]]
    BY <1>3, <1>4
  <2>5. QED
    BY <1>1, <1>2, <1>4, <2>3, <2>4 DEF BriefsOK
<1>6. Recorded'
  <2>1. ASSUME NEW a \in Advice \ lost', decided[a] # NotYet
        PROVE  \E d \in Day : d <= decided[a] /\ DecidedIn(d, a)' = decided[a]
    <3>1. PICK d \in Day : d <= decided[a] /\ DecidedIn(d, a) = decided[a]
      BY <1>3, <2>1 DEF RestInv, Recorded
    <3>2. DecidedIn(d, a)' = DecidedIn(d, a)
      BY DecisionsStay
    <3>3. QED
      BY <3>1, <3>2
  <2>2. QED
    BY <1>1, <2>1 DEF Recorded
<1>7. ASSUME NEW h \in Generator, h # g PROVE LinesOK(job[h])'
  <2> PICK k : k = job[h]
    OBVIOUS
  <2>1. JobOK(k) /\ LinesOK(k) /\ (k.phase \in WithDay => k.day \in Day)
    BY GenerationsHaveDays DEF RestInv
  <2>2. job'[h] = k
    BY <1>7 DEF Replace, Finish, AdvisorInv, AdvisorTypeOK
  <2>3. ASSUME k.phase \in {"narrate", "replace"}, NEW a \in k.kept \ (k.missed \cup lost')
        PROVE  DecidedIn(k.day, a)' = DecidedIn(k.day, a) /\ decided'[a] = decided[a]
    <3>1. a \in Advice \ lost' /\ k.day \in Day
      BY <2>1, <2>3 DEF LinesOK, MemoryOK, WithDay, Phases, Generating
    <3>2. QED
      BY <1>1, <3>1, DecisionsStay
  <2>4. day' \in Day /\ day <= day'
    BY <1>1, <1>2 DEF Day
  <2>5. LinesOK(k)'
    BY <1>2, <1>3, <2>1, <2>3, <2>4, LinesGoOn
  <2>6. QED
    BY <2>2, <2>5
<1>8. LinesOK(job[g])'
  <2> PICK m : m = job'[g]
    OBVIOUS
  <2>1. m.phase \in {"none", "unlock"} \/ (m.phase = "mail" /\ m.day = j.day)
    BY DEF Replace, Finish, NoJob, AdvisorInv, AdvisorTypeOK
  <2>2. LinesOK(m)'
    BY <1>1, <1>2, <2>1 DEF LinesOK, WithDay
  <2>3. QED
    BY <2>2
<1>9. \A h \in Generator : LinesOK(job[h])'
  BY <1>7, <1>8
<1>10. QED
  BY <1>5, <1>6, <1>9 DEF RestInv

-----------------------------------------------------------------------------

LEMMA RestStarts == ASSUME InitAdvisor PROVE RestInv
<1>1. /\ day = 1 /\ brief = [d \in Day |-> NoBrief] /\ decided = [a \in Advice |-> NotYet]
      /\ job = [g \in Generator |-> NoJob]
  BY DEF InitAdvisor, Generator
<1>2. day \in Day
  BY <1>1, AdvisorBounds DEF Day
<1>3. BriefOK(NoBrief) /\ NoBrief.lines = {}
  <2>1. <<>> \in [{} -> Nat]
    OBVIOUS
  <2>2. QED
    BY <2>1 DEF BriefOK, NoBrief
<1>4. BriefsOK
  BY <1>1, <1>2, <1>3 DEF BriefsOK, NotYet
<1>5. Recorded
  BY <1>1 DEF Recorded
<1>6. \A g \in Generator : LinesOK(job[g])
  BY <1>1 DEF LinesOK, NoJob, WithDay
<1>7. QED
  BY <1>4, <1>5, <1>6 DEF RestInv

LEMMA RestSteps == ASSUME AdvisorInv, RestInv, [NextAdvisor]_advisorVars PROVE RestInv'
<1>1. CASE Tick \/ UpdateSettings \/ AdvisorLockExpires \/ UNCHANGED advisorVars
  BY <1>1, TickRests
<1>2. CASE Decide \/ GenerateNow
  BY <1>2, DecideRests, GenerateNowRests
<1>3. CASE \E i \in Instance :
             \/ StartHour(i) \/ FindExisting(i) \/ SendBrief(i) \/ BriefMailFails(i) \/ EndHour(i)
             \/ InstanceRestarts(i)
  BY <1>3, HourRests
<1>4. CASE \E g \in Generator : Collect(g) \/ LoadStatuses(g) \/ Replace(g) \/ GenerationFails(g)
  BY <1>4, CollectRests, LoadStatusesRests, ReplaceRests, FailureRests
<1>5. QED
  BY <1>1, <1>2, <1>3, <1>4 DEF NextAdvisor, Generator

\* What a step writes: only a generation that replaces a brief writes another, and a line
\* that rests has its decision with it.
LEMMA LinesAreHandled ==
    ASSUME AdvisorInv, RestInv, NextAdvisor, NEW d \in Day, NEW a \in brief'[d].lines,
           brief'[d].id # brief[d].id, brief'[d].handled[a] = NotYet, Rests(a, d)
    PROVE  a \in lost'
<1>1. DOMAIN brief = Day /\ \A e \in Day : DOMAIN brief[e] = {"there", "id", "lines", "handled"}
  BY DEF RestInv, BriefsOK, BriefOK, AdvisorInv, AdvisorTypeOK
<1>2. ~Decide
  BY <1>1 DEF Decide
<1>3. brief' # brief
  OBVIOUS
<1>4. PICK g \in Generator : Replace(g)
  BY <1>2, <1>3
     DEF NextAdvisor, Generator, Tick, UpdateSettings, GenerateNow, AdvisorLockExpires, StartHour, FindExisting,
         SendBrief, BriefMailFails, EndHour, InstanceRestarts, Collect, LoadStatuses, GenerationFails
<1> PICK j : j = job[g]
  OBVIOUS
<1>5. /\ brief' = [brief EXCEPT ![j.day] = [there |-> TRUE, id |-> @.id + 1, lines |-> j.kept,
                                            handled |-> j.carried]]
      /\ lost' = lost \cup j.missed \cup {x \in Advice \ j.kept : Decision(brief[j.day], x) # NotYet}
      /\ j.phase = "replace"
  BY <1>4 DEF Replace, JobAt
<1>6. j.day = d /\ brief'[d].lines = j.kept /\ brief'[d].handled = j.carried
  BY <1>1, <1>5
<1>7. CASE a \notin lost'
  <2>1. LineOK(j, a)
    BY <1>5, <1>6, <1>7 DEF RestInv, LinesOK
  <2>2. j.carried[a] = DecidedIn(d, a) /\ DecidedIn(d, a) # NotYet
    BY <1>5, <1>6, <2>1 DEF LineOK
  <2>3. QED
    BY <1>6, <2>2
<1>8. QED
  BY <1>7

\* Advice the owner has dealt with does not come back as new while it rests, whichever
\* generations overlap and for any number of days.
THEOREM HandledAdviceRestsHolds == AdvisorSpec => HandledAdviceRests
<1> DEFINE Handled(d, a) ==
             \/ brief'[d].id = brief[d].id
             \/ brief'[d].handled[a] # NotYet
             \/ decided[a] = NotYet
             \/ d \notin decided[a]..(decided[a] + RestDays - 1)
             \/ a \in lost'
           AllHandled == \A d \in Day : \A a \in brief'[d].lines : Handled(d, a)
<1>1. InitAdvisor => AdvisorInv /\ RestInv
  BY AdvisorStarts, RestStarts
<1>2. AdvisorInv /\ RestInv /\ [NextAdvisor]_advisorVars => AdvisorInv' /\ RestInv'
  BY AdvisorSteps, RestSteps
<1>3. AdvisorInv /\ RestInv /\ [NextAdvisor]_advisorVars => UNCHANGED advisorVars \/ AllHandled
  <2> SUFFICES ASSUME AdvisorInv, RestInv, NextAdvisor, NEW d \in Day, NEW a \in brief'[d].lines
               PROVE  Handled(d, a)
    OBVIOUS
  <2>1. a \in Advice /\ decided[a] \in Nat /\ d \in Nat /\ RestDays \in Nat
    <3>1. RestInv'
      BY RestSteps
    <3>2. QED
      BY <3>1, AdvisorBounds DEF RestInv, BriefsOK, BriefOK, Day
  <2>2. d \in decided[a]..(decided[a] + RestDays - 1) /\ decided[a] # NotYet => Rests(a, d)
    BY <2>1 DEF Rests
  <2>3. QED
    BY <2>2, LinesAreHandled
<1>4. (UNCHANGED advisorVars \/ AllHandled) => [AllHandled]_advisorVars
  OBVIOUS
<1>5. QED
  BY <1>1, <1>2, <1>3, <1>4, PTL DEF AdvisorSpec, HandledAdviceRests

-----------------------------------------------------------------------------
\* The calendar of AdvisorSignals.

SignalsSpec == InitSignals /\ [][NextSignals]_signalVars

HourIsANumber == page.hour \in Nat

\* A walk of 24 hours a day is on its n-th day after n steps.
LEMMA WalkKeepsDays ==
    ASSUME NEW hour \in Nat, ~MayMissADay(hour), NEW n \in Walk(hour)
    PROVE  /\ DayAt(hour) \in Int
           /\ DayAt(hour + n * DayHours) = DayAt(hour) + n
<1>1. n \in Nat
  BY WindowsAreDays DEF Walk
<1> DEFINE late == hour + n * 24
<1>2. late \in Nat
  BY <1>1
<1>3. CASE hour \in Summer <=> late \in Summer
  BY <1>1, <1>3 DEF DayAt, Shown, DayHours
<1>4. CASE hour \notin Summer /\ late \in Summer
  <2>1. ClockChanges(hour, TRUE)
    BY <1>4 DEF ClockChanges, DayHours
  <2> HIDE DEF late
  <2>2. HourAt(hour) # 23
    <3>1. HourAt(hour) # DayHours - 1
      BY <1>4, <2>1 DEF MayMissADay
    <3>2. QED
      BY <3>1 DEF DayHours
  <2>3. hour % 24 # 23
    BY <1>4, <2>2 DEF HourAt, Shown, DayHours
  <2>4. QED
    BY <1>1, <1>4, <2>3 DEF DayAt, late, Shown, DayHours
<1>5. CASE hour \in Summer /\ late \notin Summer
  <2>1. ClockChanges(hour, FALSE)
    BY <1>5 DEF ClockChanges, DayHours
  <2>2. (hour + 1) % 24 # 0
    BY <1>5, <2>1 DEF MayMissADay, HourAt, Shown, DayHours
  <2>3. QED
    BY <1>1, <1>5, <2>2 DEF DayAt, Shown, DayHours
<1>6. QED
  BY <1>3, <1>4, <1>5

\* Whatever the hour, the walk finds the days of an event that are coming.
LEMMA WalkFindsEvents ==
    ASSUME NEW hour \in Nat, ~MayMissADay(hour), NEW e \in DOMAIN Occurs,
           NEW coming, coming = {d \in Occurs[e] : d \in DayAt(hour)..(DayAt(hour) + LookaheadDays)}
    PROVE  /\ Hits(hour, e) # {} <=> coming # {}
           /\ Hits(hour, e) # {} => /\ StartsOn(hour, e) = Min(coming)
                                    /\ DaysUntil(hour, e) = Min(coming) - DayAt(hour)
<1> DEFINE today == DayAt(hour)
           hits == Hits(hour, e)
<1>1. LookaheadDays \in Nat
  BY WindowsAreDays
<1>2. Walk(hour) = 0..LookaheadDays /\ Walk(hour) \subseteq Nat
  BY <1>1 DEF Walk
<1>3. today \in Int
  <2>1. 0 \in Walk(hour)
    BY <1>1, <1>2
  <2>2. QED
    BY <2>1, WalkKeepsDays
<1>4. \A n \in Walk(hour) : DayAt(hour + n * DayHours) = today + n
  BY WalkKeepsDays
<1>5. hits = {n \in Walk(hour) : today + n \in Occurs[e]}
  BY <1>4 DEF Hits
<1>6. \A n \in hits : n \in Nat /\ today + n \in coming
  BY <1>1, <1>2, <1>3, <1>5
<1>7. \A d \in coming : d \in Int /\ today <= d /\ d - today \in hits
  <2> SUFFICES ASSUME NEW d \in coming PROVE d \in Int /\ today <= d /\ d - today \in hits
    OBVIOUS
  <2>1. d \in Occurs[e] /\ d \in Int /\ today <= d /\ d <= today + LookaheadDays
    BY <1>1, <1>3
  <2>2. d - today \in Walk(hour) /\ today + (d - today) = d
    BY <1>1, <1>2, <1>3, <2>1
  <2>3. QED
    BY <1>5, <2>1, <2>2
<1>8. hits # {} <=> coming # {}
  BY <1>6, <1>7
<1>9. ASSUME hits # {} PROVE StartsOn(hour, e) = Min(coming) /\ DaysUntil(hour, e) = Min(coming) - today
  <2> DEFINE n == Min(hits)
             d == Min(coming)
  <2> HIDE DEF today, hits
  <2>1. n \in hits /\ \A m \in hits : n <= m
    <3> DEFINE from == 0
    <3>1. from \in Int /\ hits \subseteq Int /\ \A m \in hits : from <= m
      BY <1>6
    <3> HIDE DEF from
    <3>2. QED
      BY <1>9, <3>1, MinIsLeast
  <2>2. d \in coming /\ \A c \in coming : d <= c
    <3>1. coming \subseteq Int /\ \A c \in coming : today <= c
      BY <1>7
    <3>2. coming # {}
      BY <1>8, <1>9
    <3>3. QED
      BY <1>3, <3>1, <3>2, MinIsLeast
  <2> HIDE DEF n, d
  <2>3. n <= d - today /\ d <= today + n
    BY <1>6, <1>7, <2>1, <2>2
  <2>4. n \in Nat /\ d \in Int /\ n = d - today
    BY <1>3, <1>6, <1>7, <2>1, <2>2, <2>3
  <2>5. n \in Walk(hour)
    BY <1>5, <2>1
  <2>6. DayAt(hour + n * DayHours) = d
    BY <1>3, <1>4, <2>4, <2>5
  <2>7. QED
    BY <2>4, <2>6 DEF StartsOn, DaysUntil, n, d, today, hits
<1>10. QED
  BY <1>8, <1>9

\* Whatever the owner's summer time, and whatever hour of the year a brief is written
\* in, findUpcomingEvents tells every event of its lookahead, on its first day and as many
\* days ahead as it is; but for a brief of the hour that a clock change takes a day from.
THEOREM EventsKeepTheirDateHolds == SignalsSpec => []EventsKeepTheirDate
<1>1. InitSignals => HourIsANumber
  BY DEF InitSignals, NoPage, HourIsANumber
<1>2. ASSUME HourIsANumber, [NextSignals]_signalVars PROVE HourIsANumber'
  <2>1. CASE UNCHANGED page
    BY <1>2, <2>1 DEF HourIsANumber
  <2>2. CASE WriteBrief
    <3>1. PICK hour, lines, worded :
               /\ hour \in Clock
               /\ page' = Narrated(lines, worded, hour) \/ page' = [NoPage EXCEPT !.status = "lost"]
      BY <2>2 DEF WriteBrief, EndsAs
    <3>2. QED
      BY <3>1, ClockIsHours DEF HourIsANumber, Narrated, NoPage
  <2>3. CASE SayNothing
    BY <2>3 DEF SayNothing, EndsAs, HourIsANumber, NoPage
  <2>4. QED
    BY <1>2, <2>1, <2>2, <2>3 DEF NextSignals, CustomerOrders, OrderIsCancelled, OwnerListsOrArchives,
                                  AskFor, AskInVain, signalVars
<1>3. HourIsANumber => EventsKeepTheirDate
  <2> SUFFICES ASSUME HourIsANumber, ~MayMissADay(page.hour) PROVE EventsKeepTheirDate
    BY DEF EventsKeepTheirDate
  <2>1. \A e \in DOMAIN Occurs :
           LET coming == {d \in Occurs[e] : d \in DayAt(page.hour)..(DayAt(page.hour) + LookaheadDays)}
           IN  /\ Hits(page.hour, e) # {} <=> coming # {}
               /\ Hits(page.hour, e) # {} => /\ StartsOn(page.hour, e) = Min(coming)
                                             /\ DaysUntil(page.hour, e) = Min(coming) - DayAt(page.hour)
    BY WalkFindsEvents DEF HourIsANumber
  <2>2. QED
    BY <2>1, Zenon DEF EventsKeepTheirDate, Upcoming
<1>4. QED
  BY <1>1, <1>2, <1>3, PTL DEF SignalsSpec
-----------------------------------------------------------------------------
\* What the queries of AdvisorSignals answered.

ShopOK == sale \in Seq(SaleLine) /\ stock \in [Sku -> Nat]

\* An article that the two days' velocity is about.
SoldLately(a) == \E i \in SoldLines(RecentDays, NowOn) : ArticleOf[sale[i].sku] = a

\* What a query told was so, and still is but for the articles that moved.
LevelsOK ==
    answer["levels"].got = "answer" =>
      \A s \in DOMAIN Told("levels") : s \in Sku /\ Told("levels")[s] \in Nat

UnitsOK ==
    answer["units"].got = "answer" =>
      \A s \in Sku : /\ Told("units")[s] \in Int
                     /\ Told("units")[s] > 0 => SoldLately(ArticleOf[s]) \/ ArticleOf[s] \in moved

RecentOK ==
    answer["recent"].got = "answer" =>
      \A a \in Article : /\ Told("recent")[a].units \in Int
                         /\ Told("recent")[a].units > 0 => SoldLately(a) \/ a \in moved

LastSoldOK ==
    answer["lastSold"].got = "answer" =>
      \A a \in Article : (\E age \in Told("lastSold")[a] : ~(age >= SlowDays)) \/ ~SoldLately(a) \/ a \in moved

\* A brief is written of answers that do not change any more.
PageOK ==
    /\ page # NoPage => \A q \in Queries : answer[q] # Unasked
    /\ \A hour : page.hour = hour =>
         \A i \in DOMAIN page.lines : page.lines[i] \in CollectSignals(hour)

SignalsInv ==
    /\ ShopOK /\ DOMAIN answer = Queries
    /\ LevelsOK /\ UnitsOK /\ RecentOK /\ LastSoldOK
    /\ PageOK

\* What the queries of the sales tell at the moment they are asked.
LEMMA UnitsOfSales ==
    ASSUME ShopOK, NEW T, T \subseteq DOMAIN sale
    PROVE  UnitsIn(T) \in Int /\ (UnitsIn(T) > 0 => T # {})
<1>1. sale \in Seq(SaleLine) /\ DOMAIN sale = 1..Len(sale) /\ Len(sale) \in Nat
  BY DEF ShopOK
<1>2. IsFiniteSet(1..Len(sale))
  BY <1>1, FS_Interval
<1>3. IsFiniteSet(T)
  BY <1>1, <1>2, FS_Subset
<1>4. PICK f : f = [i \in T |-> sale[i].units]
  OBVIOUS
<1>5. \A i \in T : sale[i] \in SaleLine
  BY <1>1
<1>6. \A i \in T : f[i] \in Int
  BY <1>4, <1>5 DEF SaleLine
<1>7. UnitsIn(T) = SumFunctionOnSet(f, T)
  BY <1>4 DEF UnitsIn
<1>8. SumFunctionOnSet(f, T) \in Int
  BY <1>3, <1>6, SumIsANumber
<1>9. SumFunctionOnSet(f, {}) = 0
  BY SumOfNothing
<1>10. QED
  BY <1>7, <1>8, <1>9

LEMMA SalesAreTold ==
    ASSUME ShopOK
    PROVE  /\ \A s \in Sku : /\ SumSalesByVariant[s] \in Int
                             /\ SumSalesByVariant[s] > 0 => SoldLately(ArticleOf[s])
           /\ \A a \in Article :
                LET told == SumSalesByProduct(RecentDays, NowOn)[a]
                IN  told.units \in Int /\ (told.units > 0 => SoldLately(a))
           /\ \A a \in Article : SoldLately(a) => \E age \in LastSold[a] : ~(age >= SlowDays)
<1> DEFINE Sold == SoldLines(RecentDays, NowOn)
<1>1. Sold \subseteq DOMAIN sale
  BY DEF SoldLines
<1>2. ASSUME NEW s \in Sku
      PROVE  SumSalesByVariant[s] \in Int /\ (SumSalesByVariant[s] > 0 => SoldLately(ArticleOf[s]))
  <2>1. PICK T : T = {i \in Sold : sale[i].sku = s}
    OBVIOUS
  <2>2. SumSalesByVariant[s] = UnitsIn(T)
    BY <2>1 DEF SumSalesByVariant
  <2>3. UnitsIn(T) \in Int /\ (UnitsIn(T) > 0 => T # {})
    BY <1>1, <2>1, UnitsOfSales
  <2>4. QED
    BY <2>1, <2>2, <2>3 DEF SoldLately
<1>3. ASSUME NEW a \in Article
      PROVE  LET told == SumSalesByProduct(RecentDays, NowOn)[a]
             IN  told.units \in Int /\ (told.units > 0 => SoldLately(a))
  <2>1. PICK T : T = {i \in Sold : ArticleOf[sale[i].sku] = a}
    OBVIOUS
  <2>2. SumSalesByProduct(RecentDays, NowOn)[a].units = UnitsIn(T)
    BY <2>1 DEF SumSalesByProduct
  <2>3. UnitsIn(T) \in Int /\ (UnitsIn(T) > 0 => T # {})
    BY <1>1, <2>1, UnitsOfSales
  <2>4. QED
    BY <2>1, <2>2, <2>3 DEF SoldLately
<1>4. ASSUME NEW a \in Article, SoldLately(a)
      PROVE  \E age \in LastSold[a] : ~(age >= SlowDays)
  <2>1. PICK i \in Sold : ArticleOf[sale[i].sku] = a
    BY <1>4 DEF SoldLately
  <2>2. i \in DOMAIN sale /\ sale[i].status # "cancelled" /\ sale[i].age <= RecentDays
    BY DEF SoldLines, IsSale, Within
  <2>3. sale[i].age \in LastSold[a]
    BY <2>1, <2>2 DEF LastSold
  <2>4. sale[i] \in SaleLine
    BY <2>2 DEF ShopOK
  <2>5. QED
    BY <2>2, <2>3, <2>4, SlowIsOld, WindowsAreDays DEF SaleLine
<1>5. QED
  BY <1>2, <1>3, <1>4

\* Customers and the owner change what lately sold only of what they touch.
LEMMA OthersMove ==
    ASSUME SignalsInv, CustomerOrders \/ OrderIsCancelled \/ OwnerListsOrArchives
    PROVE  /\ ShopOK' /\ page = NoPage /\ UNCHANGED <<answer, page>> /\ moved \subseteq moved'
           /\ \A a \in Article : (SoldLately(a)' <=> SoldLately(a)) \/ a \in moved' \/ ~Reading
<1>1. CASE CustomerOrders
  <2>1. PICK s \in Sku :
          /\ page = NoPage /\ stock[s] > 0
          /\ stock' = [stock EXCEPT ![s] = @ - 1]
          /\ sale' = Append(sale, [sku |-> s, units |-> 1, age |-> 0, status |-> "pending"])
          /\ Touches(ArticleOf[s])
          /\ UNCHANGED <<answer, page>>
    BY <1>1 DEF CustomerOrders, Disturb
  <2>2. moved \subseteq moved' /\ (Reading => ArticleOf[s] \in moved')
    BY <2>1 DEF Touches
  <2>3. ShopOK'
    <3>1. [sku |-> s, units |-> 1, age |-> 0, status |-> "pending"] \in SaleLine
      BY DEF SaleLine
    <3>2. stock'  \in [Sku -> Nat]
      BY <2>1 DEF SignalsInv, ShopOK
    <3>3. sale' \in Seq(SaleLine)
      BY <2>1, <3>1 DEF SignalsInv, ShopOK
    <3>4. QED
      BY <3>2, <3>3 DEF ShopOK
  <2>4. /\ DOMAIN sale' = DOMAIN sale \cup {Len(sale) + 1}
        /\ \A i \in DOMAIN sale : sale'[i] = sale[i]
        /\ sale'[Len(sale) + 1].sku = s
    BY <2>1 DEF SignalsInv, ShopOK
  <2>5. ASSUME NEW a \in Article, a # ArticleOf[s] PROVE SoldLately(a)' <=> SoldLately(a)
    BY <2>4, <2>5 DEF SoldLately, SoldLines, IsSale, Within
  <2>6. QED
    BY <2>1, <2>2, <2>3, <2>5
<1>2. CASE OrderIsCancelled
  <2>1. PICK i \in DOMAIN sale :
          /\ page = NoPage
          /\ sale' = [sale EXCEPT ![i].status = "cancelled"]
          /\ stock' = [stock EXCEPT ![sale[i].sku] = @ + sale[i].units]
          /\ Touches(ArticleOf[sale[i].sku])
          /\ UNCHANGED <<answer, page>>
    BY <1>2 DEF OrderIsCancelled, Disturb
  <2>2. moved \subseteq moved' /\ (Reading => ArticleOf[sale[i].sku] \in moved')
    BY <2>1 DEF Touches
  <2>3. sale[i] \in SaleLine /\ DOMAIN sale = 1..Len(sale)
    BY DEF SignalsInv, ShopOK
  <2>4. /\ DOMAIN sale' = DOMAIN sale
        /\ \A j \in DOMAIN sale : j # i => sale'[j] = sale[j]
        /\ sale'[i] = [sale[i] EXCEPT !.status = "cancelled"]
    BY <2>1
  <2>5. sale'[i] \in SaleLine /\ sale'[i].sku = sale[i].sku
    BY <2>3, <2>4 DEF SaleLine
  <2>6. ShopOK'
    <3>1. stock' \in [Sku -> Nat]
      BY <2>1, <2>3 DEF SignalsInv, ShopOK, SaleLine
    <3>2. sale' \in Seq(SaleLine)
      BY <2>1, <2>4, <2>5 DEF SignalsInv, ShopOK
    <3>3. QED
      BY <3>1, <3>2 DEF ShopOK
  <2>7. ASSUME NEW a \in Article, a # ArticleOf[sale[i].sku] PROVE SoldLately(a)' <=> SoldLately(a)
    BY <2>4, <2>5, <2>7 DEF SoldLately, SoldLines, IsSale, Within
  <2>8. QED
    BY <2>1, <2>2, <2>6, <2>7
<1>3. CASE OwnerListsOrArchives
  <2>1. page = NoPage /\ UNCHANGED <<sale, stock, answer, page, moved>>
    BY <1>3 DEF OwnerListsOrArchives, Disturb
  <2>2. QED
    BY <2>1 DEF SignalsInv, ShopOK, SoldLately, SoldLines
<1>4. QED
  BY <1>1, <1>2, <1>3

\* Before the first query has been asked nothing has been answered.
LEMMA NothingToldYet ==
    ASSUME ~Reading, NEW q \in Queries
    PROVE  answer[q].got # "answer"
  BY DEF Reading, Unasked

LEMMA OthersKeepSignals ==
    ASSUME SignalsInv, CustomerOrders \/ OrderIsCancelled \/ OwnerListsOrArchives
    PROVE  SignalsInv'
<1>1. /\ ShopOK' /\ page = NoPage /\ UNCHANGED <<answer, page>> /\ moved \subseteq moved'
      /\ \A a \in Article : (SoldLately(a)' <=> SoldLately(a)) \/ a \in moved' \/ ~Reading
  BY OthersMove
<1>2. PageOK'
  BY <1>1 DEF PageOK, NoPage
<1>3. LevelsOK'
  BY <1>1 DEF SignalsInv, LevelsOK, Told
<1>4. {"units", "recent", "lastSold"} \subseteq Queries
  BY DEF Queries, SalesQueries
<1>5. UnitsOK'
  BY <1>1, <1>4, NothingToldYet, ShopIsReal DEF SignalsInv, UnitsOK, Told
<1>6. RecentOK'
  BY <1>1, <1>4, NothingToldYet DEF SignalsInv, RecentOK, Told
<1>7. LastSoldOK'
  BY <1>1, <1>4, NothingToldYet DEF SignalsInv, LastSoldOK, Told
<1>8. QED
  BY <1>1, <1>2, <1>3, <1>5, <1>6, <1>7 DEF SignalsInv

\* An answer was true at its moment.
LEMMA AskingKeepsSignals ==
    ASSUME SignalsInv, NEW q \in Queries, AskFor(q) \/ AskInVain(q)
    PROVE  SignalsInv'
<1>1. /\ answer[q] = Unasked /\ UNCHANGED <<sale, stock, page, moved>>
      /\ \/ answer' = [answer EXCEPT ![q] = Failed]
         \/ \E r \in ResultOf(q) : answer' = [answer EXCEPT ![q] = AnsweredWith(r)]
  BY DEF AskFor, AskInVain, Pending
<1>2. DOMAIN answer' = Queries /\ \A p \in Queries : p # q => answer'[p] = answer[p]
  BY <1>1 DEF SignalsInv
<1>3. answer'[q].got = "answer" => answer'[q].is \in ResultOf(q)
  BY <1>1 DEF SignalsInv, Failed, AnsweredWith
<1>4. page = NoPage
  BY <1>1 DEF SignalsInv, PageOK
<1>5. PageOK'
  BY <1>1, <1>4 DEF PageOK, NoPage
<1>6. ShopOK /\ ShopOK' /\ \A a : SoldLately(a)' <=> SoldLately(a)
  BY <1>1 DEF SignalsInv, ShopOK, SoldLately, SoldLines
<1>7. LevelsOK'
  <2>1. CASE q = "levels"
    <3>1. answer'[q].got = "answer" => answer'[q].is = ListStockLevels
      BY <1>3, <2>1 DEF ResultOf
    <3>2. \A s \in DOMAIN ListStockLevels : s \in Sku /\ ListStockLevels[s] \in Nat
      BY <1>6 DEF ListStockLevels, ShopOK
    <3>3. QED
      BY <2>1, <3>1, <3>2 DEF LevelsOK, Told
  <2>2. CASE q # "levels"
    BY <1>2, <2>2 DEF SignalsInv, LevelsOK, Told, Queries, SalesQueries
  <2>3. QED
    BY <2>1, <2>2
<1>8. UnitsOK'
  <2>1. CASE q = "units"
    <3>1. answer'[q].got = "answer" => answer'[q].is = SumSalesByVariant
      BY <1>3, <2>1 DEF ResultOf
    <3>2. QED
      BY <1>6, <2>1, <3>1, SalesAreTold DEF UnitsOK, Told
  <2>2. CASE q # "units"
    BY <1>1, <1>2, <1>6, <2>2 DEF SignalsInv, UnitsOK, Told, Queries, SalesQueries
  <2>3. QED
    BY <2>1, <2>2
<1>9. RecentOK'
  <2>1. CASE q = "recent"
    <3>1. answer'[q].got = "answer" => answer'[q].is = SumSalesByProduct(RecentDays, NowOn)
      BY <1>3, <2>1 DEF ResultOf
    <3>2. QED
      BY <1>6, <2>1, <3>1, SalesAreTold DEF RecentOK, Told
  <2>2. CASE q # "recent"
    BY <1>1, <1>2, <1>6, <2>2 DEF SignalsInv, RecentOK, Told, Queries, SalesQueries
  <2>3. QED
    BY <2>1, <2>2
<1>10. LastSoldOK'
  <2>1. CASE q = "lastSold"
    <3>1. answer'[q].got = "answer" => answer'[q].is = LastSold
      BY <1>3, <2>1 DEF ResultOf
    <3>2. QED
      BY <1>6, <2>1, <3>1, SalesAreTold DEF LastSoldOK, Told
  <2>2. CASE q # "lastSold"
    BY <1>1, <1>2, <1>6, <2>2 DEF SignalsInv, LastSoldOK, Told, Queries, SalesQueries
  <2>3. QED
    BY <2>1, <2>2
<1>11. QED
  BY <1>2, <1>5, <1>6, <1>7, <1>8, <1>9, <1>10 DEF SignalsInv

\* What is written is ranked of the signals, and the answers stay.
LEMMA WritingKeepsSignals ==
    ASSUME SignalsInv, WriteBrief \/ SayNothing
    PROVE  SignalsInv'
<1>1. UNCHANGED <<sale, stock, answer, moved>> /\ \A q \in Queries : answer[q] # Unasked
  BY DEF WriteBrief, SayNothing, EndsAs, ReadyToWrite
<1>2. \A i \in DOMAIN page'.lines : page'.lines[i] \in CollectSignals(page'.hour)
  <2>1. CASE page'.lines = <<>>
    BY <2>1
  <2>2. CASE WriteBrief /\ page'.lines # <<>>
    <3>1. PICK hour, lines, worded :
            /\ lines \in RankInsights(CollectSignals(hour))
            /\ page' = Narrated(lines, worded, hour)
      BY <2>2 DEF WriteBrief, EndsAs, NoPage
    <3>2. \A i \in DOMAIN lines : lines[i] \in CollectSignals(hour)
      BY <3>1 DEF RankInsights
    <3>3. page'.lines = lines /\ page'.hour = hour
      BY <3>1 DEF Narrated
    <3>4. QED
      BY <3>2, <3>3
  <2>3. CASE SayNothing
    BY <2>3 DEF SayNothing, EndsAs, NoPage
  <2>4. QED
    BY <2>1, <2>2, <2>3
<1>3. \A hour : CollectSignals(hour)' = CollectSignals(hour)
  BY <1>1 DEF CollectSignals, Allowed, Told, StockSignals, FindTrending, FindSlowMovers,
       OnShelfOf, Stocks, TiedUp, DemandSignals, WeatherSignals
<1>4. PageOK'
  BY <1>1, <1>2, <1>3 DEF PageOK
<1>5. QED
  BY <1>1, <1>4 DEF SignalsInv, ShopOK, LevelsOK, UnitsOK, RecentOK, LastSoldOK, Told, SoldLately, SoldLines

LEMMA SignalsStart == ASSUME InitSignals PROVE SignalsInv
<1>1. PICK o \in Opening : sale = o.sale /\ stock = o.stock
  BY DEF InitSignals
<1>2. ShopOK
  BY <1>1, ShopIsReal DEF ShopOK
<1>3. DOMAIN answer = Queries /\ (\A q \in Queries : answer[q].got = "nothing") /\ page = NoPage
  BY DEF InitSignals, Unasked
<1>4. {"levels", "units", "recent", "lastSold"} \subseteq Queries
  BY DEF Queries, SalesQueries
<1>5. LevelsOK /\ UnitsOK /\ RecentOK /\ LastSoldOK
  BY <1>3, <1>4 DEF LevelsOK, UnitsOK, RecentOK, LastSoldOK
<1>6. PageOK
  BY <1>3 DEF PageOK, NoPage
<1>7. QED
  BY <1>2, <1>3, <1>5, <1>6 DEF SignalsInv

LEMMA SignalsKeep == ASSUME SignalsInv, [NextSignals]_signalVars PROVE SignalsInv'
<1>1. CASE UNCHANGED signalVars
  <2>1. UNCHANGED <<sale, stock, answer, page, moved>>
    BY <1>1 DEF signalVars
  <2>2. \A hour : CollectSignals(hour)' = CollectSignals(hour)
    BY <2>1 DEF CollectSignals, Allowed, Told, StockSignals, FindTrending, FindSlowMovers,
         OnShelfOf, Stocks, TiedUp, DemandSignals, WeatherSignals
  <2>3. PageOK'
    BY <2>1, <2>2 DEF SignalsInv, PageOK
  <2>4. QED
    BY <2>1, <2>3 DEF SignalsInv, ShopOK, LevelsOK, UnitsOK, RecentOK, LastSoldOK, Told, SoldLately, SoldLines
<1>2. CASE NextSignals
  BY <1>2, OthersKeepSignals, AskingKeepsSignals, WritingKeepsSignals DEF NextSignals
<1>3. QED
  BY <1>1, <1>2

\* RoundUp: no unit is missing and none is too many.
LEMMA RoundUpIsTheLeast ==
    ASSUME NEW d \in Nat \ {0}, NEW n \in Nat
    PROVE  /\ RoundUp(n, d) \in Nat
           /\ RoundUp(n, d) * d >= n /\ (RoundUp(n, d) - 1) * d < n
           /\ n = 0 => RoundUp(n, d) = 0
<1> DEFINE k == (-n) \div d
<1>1. k \in Int /\ k * d <= -n /\ -n < (k + 1) * d
  OBVIOUS
<1> HIDE DEF k
<1>2. RoundUp(n, d) = -k
  BY DEF RoundUp, k
<1>3. -k >= 0
  <2>1. ASSUME k >= 1 PROVE FALSE
    <3>1. k * d >= d
      BY <1>1, <2>1
    <3>2. QED
      BY <1>1, <3>1
  <2>2. QED
    BY <1>1, <2>1
<1>4. (-k) * d = -(k * d) /\ (-k - 1) * d = -((k + 1) * d)
  BY <1>1
<1>5. ASSUME n = 0 PROVE k = 0
  <2>1. ASSUME k <= -1 PROVE FALSE
    <3>1. (k + 1) * d <= 0
      BY <1>1, <2>1
    <3>2. QED
      BY <1>1, <1>5, <3>1
  <2>2. QED
    BY <1>1, <1>3, <2>1
<1>6. QED
  BY <1>1, <1>2, <1>3, <1>4, <1>5

\* Whatever units the doubles overshoot.
LEMMA AReorderLasts ==
    ASSUME NEW quantity \in Nat, NEW units \in Int, NeedsRestock(quantity, units)
    PROVE  ReorderLasts(quantity, units)
<1>1. RecentDays \in Nat \ {0} /\ HorizonDays \in Nat
  BY WindowsAreDays, RatesAreNumbers DEF HorizonDays
<1>2. PICK days, needed, there : /\ days = RecentDays /\ needed = units * HorizonDays
                                 /\ there = quantity * RecentDays
  OBVIOUS
<1>3. needed \in Int /\ there \in Int /\ there <= needed
  BY <1>1, <1>2 DEF NeedsRestock, CoverIsShort, LastsTheHorizon
<1>4. PICK n : n = needed - there
  OBVIOUS
<1>5. n \in Nat /\ days \in Nat \ {0}
  BY <1>1, <1>2, <1>3, <1>4
<1>6. PICK r : r = RoundUp(n, days)
  OBVIOUS
<1>7. r \in Nat /\ r * days >= n /\ (r - 1) * days < n
  BY <1>5, <1>6, RoundUpIsTheLeast
<1>8. PICK s : s = Spare(units)
  OBVIOUS
<1>9. s \in {0, 1}
  BY <1>8 DEF Spare
<1>10. RecommendedQuantity(quantity, units) = r + s
  BY <1>2, <1>4, <1>6, <1>7, <1>8, <1>9 DEF RecommendedQuantity, AtLeastZero
<1>11. /\ (quantity + (r + s)) * days = quantity * days + r * days + s * days
       /\ ((quantity + (r + s)) - 1 - s) * days = quantity * days + (r - 1) * days
       /\ r * days \in Int /\ (r - 1) * days \in Int /\ s * days \in Nat
  <2>1. (quantity + (r + s)) - 1 - s = quantity + (r - 1)
    BY <1>7, <1>9
  <2>2. s * days \in Nat
    BY <1>5, <1>9
  <2>3. QED
    BY <1>5, <1>7, <1>9, <2>1, <2>2
<1>12. (quantity + (r + s)) * days >= needed /\ ((quantity + (r + s)) - 1 - s) * days < needed
  BY <1>2, <1>3, <1>4, <1>7, <1>11
<1>13. (quantity + (r + s)) * days \in Int /\ ((quantity + (r + s)) - 1 - s) * days \in Int
  BY <1>5, <1>7, <1>9
<1>14. LastsTheHorizon(quantity + (r + s), units) /\ ~LastsTheHorizon((quantity + (r + s)) - 1 - s, units)
  BY <1>2, <1>3, <1>12, <1>13 DEF LastsTheHorizon
<1>15. /\ LastsTheHorizon(quantity + RecommendedQuantity(quantity, units), units)
       /\ ~LastsTheHorizon((quantity + RecommendedQuantity(quantity, units)) - 1 - Spare(units), units)
  BY <1>8, <1>10, <1>14, Zenon
<1>16. QED
  BY <1>15, Zenon DEF ReorderLasts

\* What a line of the brief tells of what the queries answered.
LEMMA LinesAreTold ==
    ASSUME NEW hour, NEW x \in CollectSignals(hour)
    PROVE  /\ x.kind \in {"stockout", "restock"} =>
                /\ answer["levels"].got = "answer" /\ answer["units"].got = "answer"
                /\ x.about[1] \in DOMAIN Told("levels") /\ Told("units")[x.about[1]] > 0
           /\ x.kind = "restock" => NeedsRestock(Told("levels")[x.about[1]], Told("units")[x.about[1]])
           /\ x.kind = "trending" =>
                /\ answer["recent"].got = "answer"
                /\ x.about[1] \in Article /\ Told("recent")[x.about[1]].units >= MinUnits
           /\ x.kind = "slow_mover" =>
                /\ answer["lastSold"].got = "answer"
                /\ x.about[1] \in Article /\ \A age \in Told("lastSold")[x.about[1]] : age >= SlowDays
<1>1. CASE Allowed({"levels", "units"}) /\ x \in StockSignals
  <2>1. answer["levels"].got = "answer" /\ answer["units"].got = "answer"
    BY <1>1 DEF Allowed
  <2>2. PICK s \in DOMAIN Told("levels") :
          /\ x.about = <<s>> /\ Told("units")[s] > 0
          /\ \/ x.kind = "stockout"
             \/ x.kind = "restock" /\ NeedsRestock(Told("levels")[s], Told("units")[s])
    BY <1>1 DEF StockSignals, Signal, NeedsRestock
  <2>3. QED
    BY <2>1, <2>2
<1>2. CASE Allowed({"recent", "baseline", "lastSold", "stock"}) /\ x \in FindTrending
  <2>1. PICK a \in Article : x.kind = "trending" /\ x.about = <<a>> /\ Told("recent")[a].units >= MinUnits
    BY <1>2 DEF FindTrending, Signal, IsTrending
  <2>2. QED
    BY <1>2, <2>1 DEF Allowed
<1>3. CASE Allowed({"recent", "baseline", "lastSold", "stock"}) /\ x \in FindSlowMovers
  <2>1. PICK a \in Article : /\ x.kind = "slow_mover" /\ x.about = <<a>>
                             /\ \A age \in Told("lastSold")[a] : age >= SlowDays
    BY <1>3 DEF FindSlowMovers, Signal
  <2>2. QED
    BY <1>3, <2>1 DEF Allowed
<1>4. CASE x \in DemandSignals \/ x \in WeatherSignals \/ x \in CalendarSignals(hour)
  BY <1>4 DEF DemandSignals, WeatherSignals, CalendarSignals, Signal
<1>5. QED
  BY <1>1, <1>2, <1>3, <1>4 DEF CollectSignals

\* A brief never calls an article slow that it also finds selling, but for one whose
\* orders changed while the queries ran; and what it recommends to reorder lasts
\* lead time and coverage exactly.
THEOREM BriefsAddUpHolds == SignalsSpec => []BriefsAddUp
<1>1. ASSUME SignalsInv PROVE BriefsAddUp
  <2> DEFINE Line == {page.lines[i] : i \in DOMAIN page.lines}
  <2>1. PICK hour : hour = page.hour
    OBVIOUS
  <2>2. \A x \in Line : x \in CollectSignals(hour)
    BY <1>1, <2>1 DEF SignalsInv, PageOK
  <2>3. NoArticleSellsAndSitsStill
    <3> SUFFICES ASSUME NEW x \in Line, x.kind \in {"stockout", "restock", "trending"},
                        NEW y \in Line, y.kind = "slow_mover",
                        ArticleIn(x) = ArticleIn(y)
                 PROVE  ArticleIn(x) \in moved
      BY DEF NoArticleSellsAndSitsStill, AdvisedAs
    <3>1. PICK a : a = ArticleIn(y)
      OBVIOUS
    <3>2. a = y.about[1] /\ ArticleIn(x) = a
      BY <3>1 DEF ArticleIn
    <3>3. /\ answer["lastSold"].got = "answer" /\ a \in Article
          /\ \A age \in Told("lastSold")[a] : age >= SlowDays
      BY <2>2, <3>2, LinesAreTold
    <3>4. a \in moved \/ ~SoldLately(a)
      <4>1. (\E age \in Told("lastSold")[a] : ~(age >= SlowDays)) \/ ~SoldLately(a) \/ a \in moved
        BY <1>1, <3>3 DEF SignalsInv, LastSoldOK
      <4>2. QED
        BY <3>3, <4>1
    <3>5. CASE x.kind \in {"stockout", "restock"}
      <4>1. PICK s : s = x.about[1]
        OBVIOUS
      <4>2. /\ answer["levels"].got = "answer" /\ answer["units"].got = "answer"
            /\ s \in DOMAIN Told("levels") /\ Told("units")[s] > 0
        BY <2>2, <3>5, <4>1, LinesAreTold
      <4>3. s \in Sku /\ ArticleOf[s] = a
        BY <1>1, <3>2, <3>5, <4>1, <4>2 DEF SignalsInv, LevelsOK, ArticleIn
      <4>4. QED
        BY <1>1, <3>2, <3>4, <4>2, <4>3 DEF SignalsInv, UnitsOK
    <3>6. CASE x.kind = "trending"
      <4>1. x.about[1] = a
        BY <3>2, <3>6 DEF ArticleIn
      <4>2. answer["recent"].got = "answer" /\ Told("recent")[a].units >= MinUnits
        BY <2>2, <3>6, <4>1, LinesAreTold
      <4>3. Told("recent")[a].units \in Int /\ (Told("recent")[a].units > 0 => SoldLately(a) \/ a \in moved)
        BY <1>1, <3>3, <4>2 DEF SignalsInv, RecentOK
      <4>4. QED
        BY <3>2, <3>4, <4>2, <4>3, RatesAreNumbers
    <3>7. QED
      BY <3>5, <3>6
  <2>4. ReordersLast
    <3> SUFFICES ASSUME NEW i \in DOMAIN page.lines, page.lines[i].kind = "restock"
                 PROVE  LET s == page.lines[i].about[1]
                        IN  ReorderLasts(Told("levels")[s], Told("units")[s])
      BY DEF ReordersLast
    <3>1. PICK s : s = page.lines[i].about[1]
      OBVIOUS
    <3>2. /\ answer["levels"].got = "answer" /\ answer["units"].got = "answer"
          /\ s \in DOMAIN Told("levels") /\ NeedsRestock(Told("levels")[s], Told("units")[s])
      BY <2>2, <3>1, LinesAreTold
    <3>3. Told("levels")[s] \in Nat /\ Told("units")[s] \in Int
      BY <1>1, <3>2 DEF SignalsInv, LevelsOK, UnitsOK
    <3>4. ReorderLasts(Told("levels")[s], Told("units")[s])
      BY <3>2, <3>3, AReorderLasts
    <3>5. QED
      BY <3>1, <3>4
  <2>5. QED
    BY <2>3, <2>4 DEF BriefsAddUp
<1>2. QED
  BY SignalsStart, SignalsKeep, <1>1, PTL DEF SignalsSpec
=============================================================================
