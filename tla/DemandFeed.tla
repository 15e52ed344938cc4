----------------------------- MODULE DemandFeed -----------------------------
(***************************************************************************)
(* The questions a store's assistant could not answer: how the owner reads *)
(* them, grouped into themes, how a review takes a theme off the feed, and *)
(* the nightly pass that clusters themes of one meaning.                   *)
(*                                                                         *)
(* An answer is known by the order of its arrival; its phrase is the key   *)
(* that buildGroupKey makes of its question.  Whether two phrases mean the *)
(* same is the embeddings' to say.                                         *)
(***************************************************************************)
EXTENDS Naturals, Sequences, SequencesExt, FiniteSetsExt

CONSTANTS
    Phrase,        \* what shoppers ask for
    MaxRows,       \* UNANSWERED_MAX_ROWS
    MaxGroups,     \* UNANSWERED_MAX_GROUPS
    MaxAnswers,    \* bounds the questions
    MaxNights,     \* bounds the nightly passes
    MaxReviews     \* bounds the owner's reviews

ASSUME FeedBounds == {MaxRows, MaxGroups, MaxAnswers, MaxNights, MaxReviews} \subseteq Nat

VARIABLES
    answers,   \* the rows with resolution unanswered, oldest first
    aged,      \* how many of them are older than the feed's default window
    night,     \* the clusters the nightly pass still has to write
    theme,     \* what a review under way will mark
    nights,
    reviews

feedVars == <<answers, aged, night, theme, nights, reviews>>

Asked == 1..Len(answers)
NoTheme == [rows |-> {}, shown |-> {}, full |-> FALSE]

InitFeed ==
    /\ answers = <<>>
    /\ aged = 0
    /\ night = <<>>
    /\ theme = NoTheme
    /\ nights = 0
    /\ reviews = 0

-----------------------------------------------------------------------------
\* loadUnansweredInputs and summarizeUnanswered.

\* The answers that came after the first n of them.
Since(n) == {m \in Asked : m > n}
Unreviewed(rows) == {m \in rows : ~answers[m].reviewed}
Newest(rows) == {m \in rows : Cardinality({n \in rows : n > m}) < MaxRows}

FeedRows == Newest(Unreviewed(Since(aged)))

\* A cluster is named after the phrase that seeds it, never like a phrase.
Alone(p) == <<"phrase", p>>
Clustered(p) == <<"cluster", p>>
NoCluster == <<"none">>

Bucket(rows, p) == {m \in rows : answers[m].phrase = p}
Keyed(rows) == {m \in rows : answers[m].cluster # NoCluster}

\* Mutant of FirstOf: the rows are read oldest first.
OldestOf(rows) == Min(rows)

\* Rows are read newest first.
FirstOf(rows) == Max(rows)

\* The first row of a bucket that has a cluster puts the whole bucket in it.
GroupKey(rows, p) ==
    LET keyed == Keyed(Bucket(rows, p))
    IN  IF keyed = {} THEN Alone(p) ELSE answers[FirstOf(keyed)].cluster

GroupOf(rows, m) ==
    {n \in rows : GroupKey(rows, answers[n].phrase) = GroupKey(rows, answers[m].phrase)}

\* compareGroups, and the groups it puts on the first page of them.
ComesBefore(g, h) ==
    \/ Cardinality(g) > Cardinality(h)
    \/ Cardinality(g) = Cardinality(h) /\ Max(g) > Max(h)

Top(groups) == {g \in groups : Cardinality({h \in groups : ComesBefore(h, g)}) < MaxGroups}

-----------------------------------------------------------------------------
\* A turn of a chat ends unanswered; a month goes by.

GoesUnanswered(p) ==
    /\ Len(answers) < MaxAnswers
    /\ answers' = Append(answers, [phrase |-> p, cluster |-> NoCluster, reviewed |-> FALSE])
    /\ UNCHANGED <<aged, night, theme, nights, reviews>>

Age ==
    /\ aged < Len(answers)
    /\ aged' \in (aged + 1)..Len(answers)
    /\ UNCHANGED <<answers, night, theme, nights, reviews>>

-----------------------------------------------------------------------------
\* clusterStore.

\* The groups of one phrase each, whatever earlier passes wrote.
Themes(rows) == Top({Bucket(rows, answers[m].phrase) : m \in rows})

\* Each group, in their order, seeds a cluster or joins one seeded before.
Assignments(groups) ==
    {seed \in [groups -> groups] :
       \A g \in groups : seed[g] = g \/ (ComesBefore(seed[g], g) /\ seed[seed[g]] = seed[g])}

PhraseOf(g) == answers[Max(g)].phrase

\* The clusters, in the order of the groups that seed them.
ClustersOf(seed, groups) ==
    {[i \in DOMAIN seeds |->
        [key |-> Clustered(PhraseOf(seeds[i])),
         rows |-> UNION {g \in groups : seed[g] = seeds[i]}]] :
       seeds \in {s \in SetToSeqs({seed[g] : g \in groups}) :
                    \A i, j \in DOMAIN s : i < j => ComesBefore(s[i], s[j])}}

\* The rows are read and embedded; fewer than two groups are left as they are.
ReadNight ==
    /\ night = <<>>
    /\ nights < MaxNights
    /\ LET groups == Themes(FeedRows)
       IN  /\ Cardinality(groups) >= 2
           /\ \E seed \in Assignments(groups) : night' \in ClustersOf(seed, groups)
    /\ nights' = nights + 1
    /\ UNCHANGED <<answers, aged, theme, reviews>>

WriteCluster ==
    /\ night # <<>>
    /\ answers' = [m \in Asked |-> IF m \in Head(night).rows
                                    THEN [answers[m] EXCEPT !.cluster = Head(night).key]
                                    ELSE answers[m]]
    /\ night' = Tail(night)
    /\ UNCHANGED <<aged, theme, nights, reviews>>

\* An UPDATE fails or the server stops: what is written stays.
NightEndsEarly ==
    /\ night # <<>>
    /\ night' = <<>>
    /\ UNCHANGED <<answers, aged, theme, nights, reviews>>

-----------------------------------------------------------------------------
\* reviewUnanswered.

\* The window reaches back to the row the owner clicked.
ReviewWindow(m) == Since(Min({aged, m - 1}))
ReviewRows(m) == Newest(ReviewWindow(m))

ReadTheme(m) ==
    /\ theme = NoTheme
    /\ reviews < MaxReviews
    /\ theme' = [rows |-> IF m \in ReviewRows(m) THEN GroupOf(ReviewRows(m), m) ELSE {m},
                 shown |-> IF m \in FeedRows THEN GroupOf(FeedRows, m) ELSE {},
                 full |-> ReviewRows(m) # ReviewWindow(m)]
    /\ reviews' = reviews + 1
    /\ UNCHANGED <<answers, aged, night, nights>>

MarkTheme ==
    /\ theme # NoTheme
    /\ answers' = [m \in Asked |-> IF m \in theme.rows
                                    THEN [answers[m] EXCEPT !.reviewed = TRUE] ELSE answers[m]]
    /\ theme' = NoTheme
    /\ UNCHANGED <<aged, night, nights, reviews>>

NextFeed ==
    \/ \E p \in Phrase : GoesUnanswered(p)
    \/ Age
    \/ ReadNight \/ WriteCluster \/ NightEndsEarly
    \/ \E m \in Asked : ReadTheme(m)
    \/ MarkTheme

-----------------------------------------------------------------------------
\* Properties.

\* A review takes everything off the feed that the feed shows with the question
\* the owner clicked, though it groups reviewed rows too, whose clusters earlier
\* nights named, and though a night may have been cut short; unless the window
\* holds more rows than a review reads.
AReviewTakesTheWholeTheme ==
    theme.shown \subseteq theme.rows \/ theme.full
=============================================================================
