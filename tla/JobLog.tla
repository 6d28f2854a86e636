------------------------------- MODULE JobLog -------------------------------
(***************************************************************************)
(* The job log that the processes keep beside the queue: an entry written  *)
(* after the job was added, and updates on the worker's events, none of    *)
(* them awaited.  Handlers are taken to end as they like.                  *)
(***************************************************************************)
EXTENDS JobQueue, Sequences

VARIABLES
    creating,      \* jobs whose log entry is still to be written
    log,           \* the status in the job log
    asked,         \* a process's log updates whose find is not answered
    writing        \* and those with the entry in hand

entryVars == <<creating, log, asked, writing>>
logVars == <<queueVars, entryVars>>

LogUpdate == [job: Jobs, to: {"active", "completed", "failed"}]

LogInit ==
    /\ QueueInit
    /\ creating = {}
    /\ log = [j \in Jobs |-> "none"]
    /\ asked = [w \in Workers |-> <<>>]
    /\ writing = [w \in Workers |-> <<>>]

\* updateJobLog: the find is sent, and nobody waits for it.
AskLog(w, j, lifecycle) == asked' = [asked EXCEPT ![w] = Append(@, [job |-> j, to |-> lifecycle])]

\* The dispatch returns with the job queued; its log entry is on the way.
Dispatch(j) ==
    /\ AddJob(j)
    /\ creating' = creating \cup {j}
    /\ UNCHANGED <<log, asked, writing>>

OnActive(w, j) ==
    /\ Take(w, j)
    /\ AskLog(w, j, "active")
    /\ UNCHANGED <<creating, log, writing>>

\* Mutation: the report goes by the verdict alone.
ReportsAnyway(w) == TRUE

\* A run without its lock ends in an error of the worker, not of the job.
Reports(w) == Counts(w, running[w])

\* Mutation: the verdict itself is reported.
LifecycleOf(verdict) == verdict

\* Every failed attempt is reported as failed, also one that is tried again.
Lifecycle(verdict) == IF verdict = "ok" THEN "completed" ELSE "failed"

OnSettled(w, verdict) ==
    /\ Settle(w, verdict)
    /\ IF Reports(w) THEN AskLog(w, running[w], Lifecycle(verdict)) ELSE UNCHANGED asked
    /\ UNCHANGED <<creating, log, writing>>

\* The worker whose check gave the job up reports it.
OnStalled(w, j) ==
    /\ Stall(j)
    /\ IF job'[j].state = "failed" THEN AskLog(w, j, "failed") ELSE UNCHANGED asked
    /\ UNCHANGED <<creating, log, writing>>

\* A process dies with its updates.
CrashLog(w) ==
    /\ Die(w)
    /\ asked' = [asked EXCEPT ![w] = <<>>]
    /\ writing' = [writing EXCEPT ![w] = <<>>]
    /\ UNCHANGED <<creating, log>>

\* The log hears nothing of a retry by hand.
Retry(j) == RetryJob(j) /\ UNCHANGED entryVars

\* The whole entry is written, over whatever the log says by now.
CreateLog(j) ==
    /\ j \in creating
    /\ creating' = creating \ {j}
    /\ log' = [log EXCEPT ![j] = "waiting"]
    /\ UNCHANGED <<queueVars, asked, writing>>

\* The write fails, or its process dies.
LoseLog(j) ==
    /\ j \in creating
    /\ creating' = creating \ {j}
    /\ UNCHANGED <<queueVars, log, asked, writing>>

\* An entry that is not there is passed over; markActive throws unless it is
\* waiting.
Applies(u) == log[u.job] # "none" /\ (u.to = "active" => log[u.job] = "waiting")

\* A process's commands are answered in the order it sends them.
FindLog(w) ==
    /\ asked[w] # <<>>
    /\ asked' = [asked EXCEPT ![w] = Tail(@)]
    /\ writing' = IF Applies(Head(asked[w]))
                  THEN [writing EXCEPT ![w] = Append(@, Head(asked[w]))]
                  ELSE writing
    /\ UNCHANGED <<queueVars, creating, log>>

UpdateLog(w) ==
    /\ writing[w] # <<>>
    /\ writing' = [writing EXCEPT ![w] = Tail(@)]
    /\ log' = [log EXCEPT ![Head(writing[w]).job] = Head(writing[w]).to]
    /\ UNCHANGED <<queueVars, creating, asked>>

LogNext ==
    \/ \E j \in Jobs : Dispatch(j) \/ Retry(j) \/ CreateLog(j) \/ LoseLog(j)
    \/ \E w \in Workers, j \in Jobs : OnActive(w, j) \/ OnStalled(w, j)
    \/ \E w \in Workers, verdict \in {"ok", "retry", "fatal"} : OnSettled(w, verdict)
    \/ \E w \in Workers : CrashLog(w) \/ FindLog(w) \/ UpdateLog(w)

LogSpec == LogInit /\ [][LogNext]_logVars

-----------------------------------------------------------------------------
(* Properties *)

LogTypeOK ==
    /\ QueueTypeOK
    /\ creating \subseteq Jobs
    /\ log \in [Jobs -> JobStates]
    /\ asked \in [Workers -> Seq(LogUpdate)]
    /\ writing \in [Workers -> Seq(LogUpdate)]

\* The job log says completed only of a job that completed, and failed only of
\* one that failed a run, though its updates come late and out of step.
LogTruthful ==
    \A j \in Jobs :
        /\ log[j] = "completed" => job[j].state = "completed"
        /\ log[j] = "failed" => job[j].made + job[j].stalls > 0

-----------------------------------------------------------------------------
(* The inductive invariant *)

\* What an update says is so, now and for good.
Truthful(u) ==
    /\ u.to = "completed" => job[u.job].state = "completed"
    /\ u.to = "failed" => job[u.job].made + job[u.job].stalls > 0

UpdatesTruthful ==
    \A w \in Workers :
        /\ \A i \in DOMAIN asked[w] : Truthful(asked[w][i])
        /\ \A i \in DOMAIN writing[w] : Truthful(writing[w][i])

LogInv ==
    /\ LogTypeOK
    /\ BudgetKept
    /\ UpdatesTruthful
    /\ LogTruthful
=============================================================================
