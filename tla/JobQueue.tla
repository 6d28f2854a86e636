------------------------------ MODULE JobQueue ------------------------------
(***************************************************************************)
(* The default queue: BullMQ's at-least-once delivery as the worker of     *)
(* nestjs-shared-queue is configured for it.  The handler that a worker    *)
(* runs, and what is kept beside the queue, is left to the modules that    *)
(* extend this one.                                                        *)
(***************************************************************************)
EXTENDS Naturals

CONSTANTS
    Jobs,          \* job ids
    Workers,       \* processes with a worker; concurrency 1 each
    MaxAttempts,   \* attempts of the handler's options
    MaxStalls,     \* maxStalledCount
    MaxRetries     \* manual retries considered

VARIABLES
    job,           \* the queue's record of each job
    running,       \* the job a worker's process is executing
    run            \* and the number of that run of the job

queueVars == <<job, running, run>>

NoJob == "no job"

QueueAssumption ==
    /\ NoJob \notin Jobs
    /\ MaxAttempts \in Nat \ {0}
    /\ MaxStalls \in Nat
    /\ MaxRetries \in Nat
ASSUME QueueAssumption

JobStates == {"none", "waiting", "active", "completed", "failed"}
JobRecord == [state: JobStates, runs: Nat, made: Nat, stalls: Nat, retried: Nat]

QueueInit ==
    /\ job = [j \in Jobs |-> [state |-> "none", runs |-> 0, made |-> 0, stalls |-> 0, retried |-> 0]]
    /\ running = [w \in Workers |-> NoJob]
    /\ run = [w \in Workers |-> 0]

\* The lock of an active job belongs to its latest run.
Holds(w, j) == running[w] = j /\ run[w] = job[j].runs

AddJob(j) ==
    /\ job[j].state = "none"
    /\ job' = [job EXCEPT ![j].state = "waiting"]
    /\ UNCHANGED <<running, run>>

Take(w, j) ==
    /\ running[w] = NoJob
    /\ job[j].state = "waiting"
    /\ job' = [job EXCEPT ![j].state = "active", ![j].runs = @ + 1]
    /\ running' = [running EXCEPT ![w] = j]
    /\ run' = [run EXCEPT ![w] = job[j].runs + 1]

Leave(w) ==
    /\ running' = [running EXCEPT ![w] = NoJob]
    /\ run' = [run EXCEPT ![w] = 0]

\* A verdict counts while the lock is the run's own.
Counts(w, j) == job[j].state = "active" /\ Holds(w, j)

\* Mutation: the last attempt is followed by another one.
AfterOneMore(j, verdict) ==
    IF verdict = "ok" THEN "completed"
    ELSE IF verdict = "retry" /\ job[j].made < MaxAttempts THEN "waiting"
    ELSE "failed"

\* Where a job goes after a verdict
After(j, verdict) ==
    IF verdict = "ok" THEN "completed"
    ELSE IF verdict = "retry" /\ job[j].made + 1 < MaxAttempts THEN "waiting"
    ELSE "failed"

\* processJob ends; the backoff before the next attempt is only time.
Settle(w, verdict) ==
    LET j == running[w] IN
    /\ running[w] # NoJob
    /\ job' = IF Counts(w, j)
              THEN [job EXCEPT ![j].state = After(j, verdict), ![j].made = @ + 1]
              ELSE job
    /\ Leave(w)

\* Mutation: a stall does not count.
StalledUncounted(j) == [job EXCEPT ![j].state = "waiting"]

\* Mutation: a job at its limit stays active.
StalledForGood(j) ==
    [job EXCEPT ![j].state = IF job[j].stalls < MaxStalls THEN "waiting" ELSE "active",
                ![j].stalls = IF job[j].stalls < MaxStalls THEN @ + 1 ELSE @]

Stalled(j) ==
    [job EXCEPT ![j].state = IF job[j].stalls < MaxStalls THEN "waiting" ELSE "failed",
                ![j].stalls = @ + 1]

\* Some worker's check finds a job's lock run out, because its process died
\* or, for 30 seconds, could not renew it - and then goes on running it.
Stall(j) ==
    /\ job[j].state = "active"
    /\ job' = Stalled(j)
    /\ UNCHANGED <<running, run>>

\* A process dies and comes back with an idle worker.
Die(w) ==
    /\ running[w] # NoJob
    /\ Leave(w)
    /\ UNCHANGED job

\* retryJob and retryAllFailedJobs
RetryJob(j) ==
    /\ job[j].state = "failed"
    /\ job[j].retried < MaxRetries
    /\ job' = [job EXCEPT ![j].state = "waiting", ![j].retried = @ + 1]
    /\ UNCHANGED <<running, run>>

\* Nobody runs the job any more.
Orphaned(j) == \A w \in Workers : ~Holds(w, j)

-----------------------------------------------------------------------------
(* What holds of the queue's variables, whatever the handler does *)

QueueTypeOK ==
    /\ job \in [Jobs -> JobRecord]
    /\ running \in [Workers -> Jobs \cup {NoJob}]
    /\ run \in [Workers -> Nat]

\* A job takes each attempt, stall and retry once.
BudgetKept ==
    \A j \in Jobs :
        LET r == job[j] IN
        /\ r.runs = r.made + r.stalls + (IF r.state = "active" THEN 1 ELSE 0)
        /\ r.made + r.stalls <= MaxAttempts + MaxStalls + r.retried
        /\ r.made <= MaxAttempts + r.retried
        /\ r.stalls <= MaxStalls + 1 + r.retried
        /\ r.state \in {"none", "waiting", "active"} =>
               /\ r.made + r.stalls < MaxAttempts + MaxStalls + r.retried
               /\ r.made < MaxAttempts + r.retried
               /\ r.stalls <= MaxStalls + r.retried
=============================================================================
