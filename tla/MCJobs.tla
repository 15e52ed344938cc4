------------------------------- MODULE MCJobs -------------------------------
(***************************************************************************)
(* A small instance for TLC of the two jobs that run by the clock, hold a  *)
(* lock in Redis and must get their work done in the end: the poll of the  *)
(* mailbox, and the sweep and reconciliation of the knowledge index.  They *)
(* share no row; a behaviour plays one of them.                            *)
(***************************************************************************)
EXTENDS MCMailboxSync, KnowledgeIndex

CONSTANT Jobs       \* the jobs to play

VARIABLE clock

PlaysPoll == clock = "poll" /\ UNCHANGED <<clock, indexVars>>
PlaysIndex == clock = "index" /\ UNCHANGED <<clock, allVars>>

\* One source is enough: no step relates two of them.  The poll's scene has none.
InitJobs ==
    /\ clock \in Jobs
    /\ InitMailbox
    /\ InitIndex
    /\ \E s \in Source, x \in Text :
         /\ \A t \in Source \ {s} : source[t].state = "gone"
         /\ source[s].state = "unborn" \/ source[s].text = x
         /\ clock = "index" \/ (s = "faq" /\ source[s].state = "unborn")

NextJobs ==
    \/ PlaysPoll /\ NextWithMailbox
    \/ PlaysIndex /\ NextIndex

jobVars == <<clock, allVars, indexVars>>

\* The fairness of MailboxSync; the cron jobs of the index run again and again,
\* and Redis drops what has expired.
JobsSpec ==
    /\ InitJobs
    /\ [][NextJobs]_jobVars
    /\ WF_jobVars(PlaysPoll /\ SomePassStarts)
    /\ \A i \in Syncs : WF_jobVars(PlaysPoll /\ PassStep(i)) /\ WF_jobVars(PlaysPoll /\ LockExpires(i))
    /\ \A i \in Sweeper : WF_jobVars(PlaysIndex /\ SweepStep(i))
    /\ WF_jobVars(PlaysIndex /\ SweepExpires)
    /\ \A r \in Reconciler : WF_jobVars(PlaysIndex /\ ReconcileStep(r))
=============================================================================
