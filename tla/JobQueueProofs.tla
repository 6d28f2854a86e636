--------------------------- MODULE JobQueueProofs ---------------------------
(***************************************************************************)
(* Proofs about JobQueue and JobLog: each of the queue's steps keeps the   *)
(* types and the budget of every job, whatever the handler does, and the   *)
(* log beside the queue never says more of a job than is so.               *)
(***************************************************************************)
EXTENDS JobLog, TLAPS

\* The budget of one job
Budget(r) ==
    /\ r.runs = r.made + r.stalls + (IF r.state = "active" THEN 1 ELSE 0)
    /\ r.made + r.stalls <= MaxAttempts + MaxStalls + r.retried
    /\ r.made <= MaxAttempts + r.retried
    /\ r.stalls <= MaxStalls + 1 + r.retried
    /\ r.state \in {"none", "waiting", "active"} =>
           /\ r.made + r.stalls < MaxAttempts + MaxStalls + r.retried
           /\ r.made < MaxAttempts + r.retried
           /\ r.stalls <= MaxStalls + r.retried

LEMMA BudgetEach == BudgetKept <=> \A j \in Jobs : Budget(job[j])
  BY DEF BudgetKept, Budget

\* A record with one field changed is one, and keeps the others.
LEMMA NewState ==
  ASSUME NEW r \in JobRecord, NEW s \in JobStates, NEW q, q = [r EXCEPT !.state = s]
  PROVE  /\ q \in JobRecord /\ q.state = s
         /\ q.runs = r.runs /\ q.made = r.made /\ q.stalls = r.stalls /\ q.retried = r.retried
  BY DEF JobRecord

LEMMA NewRuns ==
  ASSUME NEW r \in JobRecord, NEW n \in Nat, NEW q, q = [r EXCEPT !.runs = n]
  PROVE  /\ q \in JobRecord /\ q.runs = n
         /\ q.state = r.state /\ q.made = r.made /\ q.stalls = r.stalls /\ q.retried = r.retried
  BY DEF JobRecord

LEMMA NewMade ==
  ASSUME NEW r \in JobRecord, NEW n \in Nat, NEW q, q = [r EXCEPT !.made = n]
  PROVE  /\ q \in JobRecord /\ q.made = n
         /\ q.state = r.state /\ q.runs = r.runs /\ q.stalls = r.stalls /\ q.retried = r.retried
  BY DEF JobRecord

LEMMA NewStalls ==
  ASSUME NEW r \in JobRecord, NEW n \in Nat, NEW q, q = [r EXCEPT !.stalls = n]
  PROVE  /\ q \in JobRecord /\ q.stalls = n
         /\ q.state = r.state /\ q.runs = r.runs /\ q.made = r.made /\ q.retried = r.retried
  BY DEF JobRecord

LEMMA NewRetried ==
  ASSUME NEW r \in JobRecord, NEW n \in Nat, NEW q, q = [r EXCEPT !.retried = n]
  PROVE  /\ q \in JobRecord /\ q.retried = n
         /\ q.state = r.state /\ q.runs = r.runs /\ q.made = r.made /\ q.stalls = r.stalls
  BY DEF JobRecord

\* A step that changes one job keeps the others' types and budgets.
LEMMA OneJob ==
  ASSUME QueueTypeOK, BudgetKept, NEW j \in Jobs, NEW r \in JobRecord,
         job' = [job EXCEPT ![j] = r], Budget(r)
  PROVE  job' \in [Jobs -> JobRecord] /\ BudgetKept'
  <1>1. job' \in [Jobs -> JobRecord]
    BY DEF QueueTypeOK
  <1>2. ASSUME NEW k \in Jobs PROVE Budget(job'[k])
    BY BudgetEach DEF QueueTypeOK
  <1>3. BudgetKept' <=> \A k \in Jobs : Budget(job'[k])
    BY DEF BudgetKept, Budget
  <1> QED
    BY <1>1, <1>2, <1>3

LEMMA QueueInitKept == QueueInit => QueueTypeOK /\ BudgetKept
  <1> SUFFICES ASSUME QueueInit PROVE QueueTypeOK /\ BudgetKept
    OBVIOUS
  <1> DEFINE r == [state |-> "none", runs |-> 0, made |-> 0, stalls |-> 0, retried |-> 0]
  <1>1. r \in JobRecord
    BY DEF JobRecord, JobStates
  <1>2. Budget(r)
    BY QueueAssumption DEF Budget, QueueAssumption
  <1>3. job = [j \in Jobs |-> r]
    BY DEF QueueInit
  <1>4. running \in [Workers -> Jobs \cup {NoJob}] /\ run \in [Workers -> Nat]
    BY DEF QueueInit
  <1> HIDE DEF r
  <1>5. \A j \in Jobs : Budget(job[j])
    BY <1>2, <1>3
  <1> QED
    BY <1>1, <1>3, <1>4, <1>5, BudgetEach DEF QueueTypeOK

LEMMA AddJobKept ==
  ASSUME QueueTypeOK, BudgetKept, NEW j \in Jobs, AddJob(j)
  PROVE  QueueTypeOK' /\ BudgetKept'
  <1> DEFINE r == [job[j] EXCEPT !.state = "waiting"]
  <1>1. job[j] \in JobRecord /\ Budget(job[j])
    BY BudgetEach DEF QueueTypeOK
  <1>2. r \in JobRecord
    BY <1>1 DEF JobRecord, JobStates
  <1>3. Budget(r)
    BY <1>1 DEF JobRecord, Budget, AddJob
  <1>4. job' = [job EXCEPT ![j] = r]
    BY <1>1 DEF AddJob
  <1> HIDE DEF r
  <1>5. job' \in [Jobs -> JobRecord] /\ BudgetKept'
    BY <1>2, <1>3, <1>4, OneJob
  <1> QED
    BY <1>5 DEF AddJob, QueueTypeOK

LEMMA TakeKept ==
  ASSUME QueueTypeOK, BudgetKept, NEW w \in Workers, NEW j \in Jobs, Take(w, j)
  PROVE  QueueTypeOK' /\ BudgetKept'
  <1> DEFINE s == [job[j] EXCEPT !.state = "active"]
             r == [s EXCEPT !.runs = job[j].runs + 1]
  <1>1. job[j] \in JobRecord /\ Budget(job[j]) /\ job[j].state = "waiting"
    BY BudgetEach DEF QueueTypeOK, Take
  <1>2. job[j].runs + 1 \in Nat
    BY <1>1 DEF JobRecord
  <1>3. /\ s \in JobRecord /\ s.state = "active"
        /\ s.runs = job[j].runs /\ s.made = job[j].made
        /\ s.stalls = job[j].stalls /\ s.retried = job[j].retried
    BY <1>1, NewState DEF JobStates
  <1>4. job' = [job EXCEPT ![j] = r]
    BY <1>1 DEF Take
  <1>5. running' \in [Workers -> Jobs \cup {NoJob}] /\ run' \in [Workers -> Nat]
    BY <1>2 DEF Take, QueueTypeOK
  <1> HIDE DEF s
  <1>6. /\ r \in JobRecord /\ r.runs = job[j].runs + 1
        /\ r.state = "active" /\ r.made = job[j].made
        /\ r.stalls = job[j].stalls /\ r.retried = job[j].retried
    BY <1>2, <1>3, NewRuns
  <1> HIDE DEF r
  <1>7. Budget(r)
    BY <1>1, <1>6, QueueAssumption DEF JobRecord, Budget, QueueAssumption
  <1>8. job' \in [Jobs -> JobRecord] /\ BudgetKept'
    BY <1>4, <1>6, <1>7, OneJob
  <1> QED
    BY <1>5, <1>8 DEF QueueTypeOK

LEMMA SettleKept ==
  ASSUME QueueTypeOK, BudgetKept, NEW w \in Workers, NEW verdict, Settle(w, verdict)
  PROVE  QueueTypeOK' /\ BudgetKept'
  <1> DEFINE j == running[w]
  <1>1. running' \in [Workers -> Jobs \cup {NoJob}] /\ run' \in [Workers -> Nat]
    BY DEF Settle, Leave, QueueTypeOK
  <1>2. CASE ~Counts(w, j)
    BY <1>1, <1>2 DEF Settle, QueueTypeOK, BudgetKept
  <1>3. CASE Counts(w, j)
    <2> DEFINE t == [job[j] EXCEPT !.state = After(j, verdict)]
               r == [t EXCEPT !.made = job[j].made + 1]
    <2>1. j \in Jobs
      BY DEF Settle, QueueTypeOK
    <2>2. job[j] \in JobRecord /\ Budget(job[j]) /\ job[j].state = "active"
      BY <1>3, <2>1, BudgetEach DEF QueueTypeOK, Counts
    <2>3. After(j, verdict) \in {"waiting", "completed", "failed"}
      BY DEF After
    <2>4. job[j].made + 1 \in Nat
      BY <2>2 DEF JobRecord
    <2>5. After(j, verdict) = "waiting" => job[j].made + 1 < MaxAttempts
      BY DEF After
    <2>6. /\ t \in JobRecord /\ t.state = After(j, verdict)
          /\ t.runs = job[j].runs /\ t.made = job[j].made
          /\ t.stalls = job[j].stalls /\ t.retried = job[j].retried
      BY <2>2, <2>3, NewState DEF JobStates
    <2>7. job' = [job EXCEPT ![j] = r]
      BY <1>3, <2>1, <2>2 DEF Settle
    <2> HIDE DEF t
    <2>8. /\ r \in JobRecord /\ r.made = job[j].made + 1
          /\ r.state = After(j, verdict) /\ r.runs = job[j].runs
          /\ r.stalls = job[j].stalls /\ r.retried = job[j].retried
      BY <2>4, <2>6, NewMade
    <2> HIDE DEF r
    <2>9. Budget(r)
      BY <2>2, <2>3, <2>5, <2>8, QueueAssumption DEF JobRecord, Budget, QueueAssumption
    <2>10. job' \in [Jobs -> JobRecord] /\ BudgetKept'
      BY <2>1, <2>7, <2>8, <2>9, OneJob
    <2> QED
      BY <1>1, <2>10 DEF QueueTypeOK
  <1> QED
    BY <1>2, <1>3

LEMMA StallKept ==
  ASSUME QueueTypeOK, BudgetKept, NEW j \in Jobs, Stall(j)
  PROVE  QueueTypeOK' /\ BudgetKept'
  <1> DEFINE s == IF job[j].stalls < MaxStalls THEN "waiting" ELSE "failed"
             t == [job[j] EXCEPT !.state = s]
             r == [t EXCEPT !.stalls = job[j].stalls + 1]
  <1>1. job[j] \in JobRecord /\ Budget(job[j]) /\ job[j].state = "active"
    BY BudgetEach DEF QueueTypeOK, Stall
  <1>2. job[j].stalls + 1 \in Nat
    BY <1>1 DEF JobRecord
  <1>3. s \in JobStates
    BY DEF JobStates
  <1>4. job' = [job EXCEPT ![j] = r]
    BY <1>1 DEF Stall, Stalled
  <1> HIDE DEF s
  <1>5. /\ t \in JobRecord /\ t.state = s
        /\ t.runs = job[j].runs /\ t.made = job[j].made
        /\ t.stalls = job[j].stalls /\ t.retried = job[j].retried
    BY <1>1, <1>3, NewState
  <1> HIDE DEF t
  <1>6. /\ r \in JobRecord /\ r.stalls = job[j].stalls + 1
        /\ r.state = s /\ r.runs = job[j].runs
        /\ r.made = job[j].made /\ r.retried = job[j].retried
    BY <1>2, <1>5, NewStalls
  <1> HIDE DEF r
  <1>7. Budget(r)
    BY <1>1, <1>6, QueueAssumption DEF JobRecord, Budget, QueueAssumption, s
  <1>8. job' \in [Jobs -> JobRecord] /\ BudgetKept'
    BY <1>4, <1>6, <1>7, OneJob
  <1> QED
    BY <1>8 DEF Stall, QueueTypeOK

LEMMA RetryJobKept ==
  ASSUME QueueTypeOK, BudgetKept, NEW j \in Jobs, RetryJob(j)
  PROVE  QueueTypeOK' /\ BudgetKept'
  <1> DEFINE t == [job[j] EXCEPT !.state = "waiting"]
             r == [t EXCEPT !.retried = job[j].retried + 1]
  <1>1. job[j] \in JobRecord /\ Budget(job[j]) /\ job[j].state = "failed"
    BY BudgetEach DEF QueueTypeOK, RetryJob
  <1>2. job[j].retried + 1 \in Nat
    BY <1>1 DEF JobRecord
  <1>3. /\ t \in JobRecord /\ t.state = "waiting"
        /\ t.runs = job[j].runs /\ t.made = job[j].made
        /\ t.stalls = job[j].stalls /\ t.retried = job[j].retried
    BY <1>1, NewState DEF JobStates
  <1>4. job' = [job EXCEPT ![j] = r]
    BY <1>1 DEF RetryJob
  <1> HIDE DEF t
  <1>5. /\ r \in JobRecord /\ r.retried = job[j].retried + 1
        /\ r.state = "waiting" /\ r.runs = job[j].runs
        /\ r.made = job[j].made /\ r.stalls = job[j].stalls
    BY <1>2, <1>3, NewRetried
  <1> HIDE DEF r
  <1>6. Budget(r)
    BY <1>1, <1>5, QueueAssumption DEF JobRecord, Budget, QueueAssumption
  <1>7. job' \in [Jobs -> JobRecord] /\ BudgetKept'
    BY <1>4, <1>5, <1>6, OneJob
  <1> QED
    BY <1>7 DEF RetryJob, QueueTypeOK

LEMMA DieKept ==
  ASSUME QueueTypeOK, BudgetKept, NEW w \in Workers, Die(w)
  PROVE  QueueTypeOK' /\ BudgetKept'
  <1>1. running' \in [Workers -> Jobs \cup {NoJob}] /\ run' \in [Workers -> Nat]
    BY DEF Die, Leave, QueueTypeOK
  <1> QED
    BY <1>1 DEF Die, QueueTypeOK, BudgetKept

LEMMA QueueUnchanged ==
  ASSUME QueueTypeOK, BudgetKept, UNCHANGED queueVars
  PROVE  QueueTypeOK' /\ BudgetKept'
  BY DEF QueueTypeOK, BudgetKept, queueVars

-----------------------------------------------------------------------------
(* Where a step takes its job *)

\* One job goes to a state and counts runs, attempts, stalls and retries.
Moved(j, state, runs, made, stalls, retried) ==
    /\ \A k \in Jobs \ {j} : job'[k] = job[k]
    /\ job'[j].state = state
    /\ job'[j].runs = job[j].runs + runs
    /\ job'[j].made = job[j].made + made
    /\ job'[j].stalls = job[j].stalls + stalls
    /\ job'[j].retried = job[j].retried + retried

LEMMA AddJobMoves ==
  ASSUME QueueTypeOK, NEW j \in Jobs, AddJob(j)
  PROVE  Moved(j, "waiting", 0, 0, 0, 0)
  BY DEF QueueTypeOK, JobRecord, AddJob, Moved

LEMMA TakeMoves ==
  ASSUME QueueTypeOK, NEW w \in Workers, NEW j \in Jobs, Take(w, j)
  PROVE  Moved(j, "active", 1, 0, 0, 0)
  BY DEF QueueTypeOK, JobRecord, Take, Moved

LEMMA SettleMoves ==
  ASSUME QueueTypeOK, NEW w \in Workers, NEW verdict, Settle(w, verdict), Counts(w, running[w])
  PROVE  running[w] \in Jobs /\ Moved(running[w], After(running[w], verdict), 0, 1, 0, 0)
  <1>1. running[w] \in Jobs /\ job[running[w]] \in JobRecord
    BY DEF QueueTypeOK, Settle
  <1>2. job' = [job EXCEPT ![running[w]].state = After(running[w], verdict),
                           ![running[w]].made = @ + 1]
    BY DEF Settle
  <1> QED
    BY <1>1, <1>2 DEF QueueTypeOK, JobRecord, Moved

LEMMA StallMoves ==
  ASSUME QueueTypeOK, NEW j \in Jobs, Stall(j)
  PROVE  Moved(j, IF job[j].stalls < MaxStalls THEN "waiting" ELSE "failed", 0, 0, 1, 0)
  BY DEF QueueTypeOK, JobRecord, Stall, Stalled, Moved

LEMMA RetryJobMoves ==
  ASSUME QueueTypeOK, NEW j \in Jobs, RetryJob(j)
  PROVE  Moved(j, "waiting", 0, 0, 0, 1)
  BY DEF QueueTypeOK, JobRecord, RetryJob, Moved

\* What has completed stays so, and what has failed a run has.
Onward ==
    \A k \in Jobs :
        /\ job[k].state = "completed" => job'[k].state = "completed"
        /\ job[k].made + job[k].stalls > 0 => job'[k].made + job'[k].stalls > 0

LEMMA MovedOnward ==
  ASSUME QueueTypeOK, NEW j \in Jobs, NEW s, NEW n \in Nat, NEW m \in Nat, NEW t \in Nat,
         NEW x \in Nat, Moved(j, s, n, m, t, x), job[j].state # "completed"
  PROVE  Onward
  BY DEF QueueTypeOK, JobRecord, Moved, Onward

\* Every step of the queue goes onward.
LEMMA QueueOnward ==
  ASSUME QueueTypeOK,
         \/ \E j \in Jobs : AddJob(j) \/ Stall(j) \/ RetryJob(j)
         \/ \E w \in Workers, j \in Jobs : Take(w, j)
         \/ \E w \in Workers, verdict \in {"ok", "retry", "fatal"} : Settle(w, verdict)
         \/ \E w \in Workers : Die(w)
         \/ UNCHANGED queueVars
  PROVE  Onward
  <1>1. ASSUME NEW j \in Jobs, AddJob(j) PROVE Onward
    BY <1>1, AddJobMoves, MovedOnward DEF AddJob
  <1>2. ASSUME NEW j \in Jobs, Stall(j) PROVE Onward
    BY <1>2, StallMoves, MovedOnward DEF Stall
  <1>3. ASSUME NEW j \in Jobs, RetryJob(j) PROVE Onward
    BY <1>3, RetryJobMoves, MovedOnward DEF RetryJob
  <1>4. ASSUME NEW w \in Workers, NEW j \in Jobs, Take(w, j) PROVE Onward
    BY <1>4, TakeMoves, MovedOnward DEF Take
  <1>5. ASSUME NEW w \in Workers, NEW verdict, Settle(w, verdict) PROVE Onward
    <2>1. CASE Counts(w, running[w])
      <3>1. running[w] \in Jobs /\ Moved(running[w], After(running[w], verdict), 0, 1, 0, 0)
        BY <1>5, <2>1, SettleMoves
      <3>2. job[running[w]].state # "completed"
        BY <2>1 DEF Counts
      <3> QED
        BY <3>1, <3>2, MovedOnward
    <2>2. CASE ~Counts(w, running[w])
      BY <1>5, <2>2 DEF Settle, Onward
    <2> QED
      BY <2>1, <2>2
  <1>6. CASE \E w \in Workers : Die(w)
    BY <1>6 DEF Die, Onward
  <1>7. CASE UNCHANGED queueVars
    BY <1>7 DEF queueVars, Onward
  <1> QED
    BY <1>1, <1>2, <1>3, <1>4, <1>5, <1>6, <1>7

-----------------------------------------------------------------------------
(* The log *)

EntryTypeOK ==
    /\ creating \subseteq Jobs
    /\ log \in [Jobs -> JobStates]
    /\ asked \in [Workers -> Seq(LogUpdate)]
    /\ writing \in [Workers -> Seq(LogUpdate)]

LEMMA LogTypeSplit == LogTypeOK <=> QueueTypeOK /\ EntryTypeOK
  BY DEF LogTypeOK, EntryTypeOK

-----------------------------------------------------------------------------
(* Updates: what holds of the queues of them *)

\* Every update of a sequence is truthful.
AllTruthful(s) == \A i \in DOMAIN s : Truthful(s[i])

\* They are so after the step.
Then(u) ==
    /\ u.to = "completed" => job'[u.job].state = "completed"
    /\ u.to = "failed" => job'[u.job].made + job'[u.job].stalls > 0

AllThen(s) == \A i \in DOMAIN s : Then(s[i])

LEMMA UpdatesEach ==
  /\ UpdatesTruthful <=> \A w \in Workers : AllTruthful(asked[w]) /\ AllTruthful(writing[w])
  /\ UpdatesTruthful' <=> \A w \in Workers : AllThen(asked'[w]) /\ AllThen(writing'[w])
  BY DEF UpdatesTruthful, AllTruthful, Truthful, AllThen, Then

LEMMA AppendThen ==
  ASSUME NEW s \in Seq(LogUpdate), NEW u \in LogUpdate, AllThen(s), Then(u)
  PROVE  Append(s, u) \in Seq(LogUpdate) /\ AllThen(Append(s, u))
  <1>1. /\ Append(s, u) \in Seq(LogUpdate)
        /\ \A i \in DOMAIN Append(s, u) :
              (i \in DOMAIN s /\ Append(s, u)[i] = s[i]) \/ Append(s, u)[i] = u
    OBVIOUS
  <1> QED
    BY <1>1 DEF AllThen

LEMMA TailThen ==
  ASSUME NEW s \in Seq(LogUpdate), s # <<>>, AllThen(s)
  PROVE  /\ Tail(s) \in Seq(LogUpdate) /\ AllThen(Tail(s))
         /\ Head(s) \in LogUpdate /\ Then(Head(s))
  <1>1. Tail(s) \in Seq(LogUpdate) /\ 1 \in DOMAIN s
    OBVIOUS
  <1>2. Head(s) = s[1] /\ Head(s) \in LogUpdate
    OBVIOUS
  <1>3. \A i \in DOMAIN Tail(s) : Tail(s)[i] = s[i + 1] /\ i + 1 \in DOMAIN s
    OBVIOUS
  <1> QED
    BY <1>1, <1>2, <1>3 DEF AllThen

\* What was truthful before a step that goes onward is so after it.
LEMMA StaysTruthful ==
  ASSUME Onward, NEW s \in Seq(LogUpdate), AllTruthful(s)
  PROVE  AllThen(s)
  <1> SUFFICES ASSUME NEW i \in DOMAIN s PROVE Then(s[i])
    BY DEF AllThen
  <1>1. s[i] \in LogUpdate /\ Truthful(s[i])
    BY DEF AllTruthful
  <1> QED
    BY <1>1 DEF Onward, Truthful, Then, LogUpdate

LEMMA LogStaysTruthful ==
  ASSUME Onward, LogTruthful, log' = log
  PROVE  LogTruthful'
  BY DEF Onward, LogTruthful

\* The updates in flight before a step, after it
LEMMA InFlight ==
  ASSUME LogInv, Onward
  PROVE  \A w \in Workers : /\ asked[w] \in Seq(LogUpdate) /\ AllThen(asked[w])
                            /\ writing[w] \in Seq(LogUpdate) /\ AllThen(writing[w])
  <1> TAKE w \in Workers
  <1>1. asked[w] \in Seq(LogUpdate) /\ writing[w] \in Seq(LogUpdate)
    BY DEF LogInv, LogTypeOK
  <1>2. AllTruthful(asked[w]) /\ AllTruthful(writing[w])
    BY UpdatesEach DEF LogInv
  <1> QED
    BY <1>1, <1>2, StaysTruthful

-----------------------------------------------------------------------------
(* The steps *)

\* A step that asks for one truthful update, or none, keeps the invariant.
LEMMA AskKept ==
  ASSUME LogInv, QueueTypeOK', BudgetKept', Onward,
         NEW w \in Workers, NEW u \in LogUpdate, Then(u),
         asked' = asked \/ asked' = [asked EXCEPT ![w] = Append(@, u)],
         writing' = writing, log' = log, creating' \subseteq Jobs
  PROVE  LogInv'
  <1>1. asked \in [Workers -> Seq(LogUpdate)] /\ writing \in [Workers -> Seq(LogUpdate)]
        /\ log \in [Jobs -> JobStates]
    BY DEF LogInv, LogTypeOK
  <1>2. Append(asked[w], u) \in Seq(LogUpdate) /\ AllThen(Append(asked[w], u))
    BY InFlight, AppendThen
  <1>3. asked' \in [Workers -> Seq(LogUpdate)]
    BY <1>1, <1>2
  <1>4. \A v \in Workers : AllThen(asked'[v]) /\ AllThen(writing'[v])
    BY <1>1, <1>2, InFlight
  <1>5. UpdatesTruthful'
    BY <1>4, UpdatesEach
  <1>6. LogTruthful'
    BY LogStaysTruthful DEF LogInv
  <1> QED
    BY <1>1, <1>3, <1>5, <1>6 DEF LogInv, LogTypeOK

LEMMA DispatchKept ==
  ASSUME LogInv, NEW j \in Jobs, Dispatch(j)
  PROVE  LogInv'
  <1>1. QueueTypeOK' /\ BudgetKept' /\ Onward
    BY AddJobKept, QueueOnward DEF LogInv, LogTypeOK, Dispatch
  <1>2. creating' \subseteq Jobs /\ log' = log /\ asked' = asked /\ writing' = writing
    BY DEF LogInv, LogTypeOK, Dispatch
  <1>3. \A v \in Workers : AllThen(asked'[v]) /\ AllThen(writing'[v])
    BY <1>1, <1>2, InFlight
  <1>4. UpdatesTruthful' /\ LogTruthful'
    BY <1>1, <1>2, <1>3, UpdatesEach, LogStaysTruthful DEF LogInv
  <1> QED
    BY <1>1, <1>2, <1>4 DEF LogInv, LogTypeOK

LEMMA OnActiveKept ==
  ASSUME LogInv, NEW w \in Workers, NEW j \in Jobs, OnActive(w, j)
  PROVE  LogInv'
  <1> DEFINE u == [job |-> j, to |-> "active"]
  <1>1. QueueTypeOK' /\ BudgetKept' /\ Onward
    BY TakeKept, QueueOnward DEF LogInv, LogTypeOK, OnActive
  <1>2. u \in LogUpdate /\ Then(u)
    BY DEF LogUpdate, Then
  <1>3. /\ asked' = [asked EXCEPT ![w] = Append(@, u)]
        /\ writing' = writing /\ log' = log /\ creating' = creating
    BY DEF OnActive, AskLog
  <1>4. creating' \subseteq Jobs
    BY <1>3 DEF LogInv, LogTypeOK
  <1> HIDE DEF u
  <1> QED
    BY <1>1, <1>2, <1>3, <1>4, AskKept

LEMMA OnSettledKept ==
  ASSUME LogInv, NEW w \in Workers, NEW verdict \in {"ok", "retry", "fatal"}, OnSettled(w, verdict)
  PROVE  LogInv'
  <1> DEFINE j == running[w]
             u == [job |-> j, to |-> Lifecycle(verdict)]
  <1>1. QueueTypeOK' /\ BudgetKept' /\ Onward
    BY SettleKept, QueueOnward DEF LogInv, LogTypeOK, OnSettled
  <1>2. writing' = writing /\ log' = log /\ creating' \subseteq Jobs
    BY DEF LogInv, LogTypeOK, OnSettled
  <1>3. j \in Jobs
    BY DEF LogInv, LogTypeOK, QueueTypeOK, OnSettled, Settle
  <1>4. CASE Counts(w, j)
    <2>1. u \in LogUpdate
      BY <1>3 DEF LogUpdate, Lifecycle
    <2>2. Moved(j, After(j, verdict), 0, 1, 0, 0)
      BY <1>4, SettleMoves DEF LogInv, LogTypeOK, OnSettled
    <2>3. job[j] \in JobRecord
      BY <1>3 DEF LogInv, LogTypeOK, QueueTypeOK
    <2>4. Then(u)
      BY <2>2, <2>3 DEF Then, Moved, Lifecycle, After, JobRecord
    <2>5. asked' = [asked EXCEPT ![w] = Append(@, u)]
      BY <1>4 DEF OnSettled, AskLog, Reports
    <2> HIDE DEF u
    <2> QED
      BY <1>1, <1>2, <2>1, <2>4, <2>5, AskKept
  <1>5. CASE ~Counts(w, j)
    <2> DEFINE v == [job |-> j, to |-> "active"]
    <2>1. v \in LogUpdate /\ Then(v)
      BY <1>3 DEF LogUpdate, Then
    <2>2. asked' = asked
      BY <1>5 DEF OnSettled, Reports
    <2> HIDE DEF v
    <2> QED
      BY <1>1, <1>2, <2>1, <2>2, AskKept
  <1> QED
    BY <1>4, <1>5

LEMMA OnStalledKept ==
  ASSUME LogInv, NEW w \in Workers, NEW j \in Jobs, OnStalled(w, j)
  PROVE  LogInv'
  <1> DEFINE u == [job |-> j, to |-> "failed"]
  <1>1. QueueTypeOK' /\ BudgetKept' /\ Onward
    BY StallKept, QueueOnward DEF LogInv, LogTypeOK, OnStalled
  <1>2. writing' = writing /\ log' = log /\ creating' \subseteq Jobs
    BY DEF LogInv, LogTypeOK, OnStalled
  <1>3. job'[j].stalls = job[j].stalls + 1 /\ job'[j].made = job[j].made + 0
    BY StallMoves DEF LogInv, LogTypeOK, OnStalled, Moved
  <1>4. job[j] \in JobRecord
    BY DEF LogInv, LogTypeOK, QueueTypeOK
  <1>5. u \in LogUpdate /\ Then(u)
    BY <1>3, <1>4 DEF LogUpdate, Then, JobRecord
  <1>6. asked' = asked \/ asked' = [asked EXCEPT ![w] = Append(@, u)]
    BY DEF OnStalled, AskLog
  <1> HIDE DEF u
  <1> QED
    BY <1>1, <1>2, <1>5, <1>6, AskKept

LEMMA CrashLogKept ==
  ASSUME LogInv, NEW w \in Workers, CrashLog(w)
  PROVE  LogInv'
  <1>1. QueueTypeOK' /\ BudgetKept' /\ Onward
    BY DieKept, QueueOnward DEF LogInv, LogTypeOK, CrashLog
  <1>2. creating' = creating /\ log' = log
    BY DEF CrashLog
  <1>3. /\ asked' = [asked EXCEPT ![w] = <<>>] /\ writing' = [writing EXCEPT ![w] = <<>>]
        /\ asked \in [Workers -> Seq(LogUpdate)] /\ writing \in [Workers -> Seq(LogUpdate)]
    BY DEF CrashLog, LogInv, LogTypeOK
  <1>4. <<>> \in Seq(LogUpdate) /\ AllThen(<<>>)
    BY DEF AllThen
  <1>5. asked' \in [Workers -> Seq(LogUpdate)] /\ writing' \in [Workers -> Seq(LogUpdate)]
    BY <1>3, <1>4
  <1>6. \A v \in Workers : AllThen(asked'[v]) /\ AllThen(writing'[v])
    BY <1>1, <1>3, <1>4, InFlight
  <1>7. UpdatesTruthful' /\ LogTruthful'
    BY <1>1, <1>2, <1>6, UpdatesEach, LogStaysTruthful DEF LogInv
  <1> QED
    BY <1>1, <1>2, <1>5, <1>7 DEF LogInv, LogTypeOK

LEMMA RetryKept ==
  ASSUME LogInv, NEW j \in Jobs, Retry(j)
  PROVE  LogInv'
  <1>1. QueueTypeOK' /\ BudgetKept' /\ Onward
    BY RetryJobKept, QueueOnward DEF LogInv, LogTypeOK, Retry
  <1>2. creating' = creating /\ log' = log /\ asked' = asked /\ writing' = writing
    BY DEF Retry, entryVars
  <1>3. \A v \in Workers : AllThen(asked'[v]) /\ AllThen(writing'[v])
    BY <1>1, <1>2, InFlight
  <1>4. UpdatesTruthful' /\ LogTruthful'
    BY <1>1, <1>2, <1>3, UpdatesEach, LogStaysTruthful DEF LogInv
  <1> QED
    BY <1>1, <1>2, <1>4 DEF LogInv, LogTypeOK

-----------------------------------------------------------------------------
(* The steps of the log *)

LEMMA QueueStands ==
  ASSUME LogInv, UNCHANGED queueVars
  PROVE  /\ QueueTypeOK' /\ BudgetKept' /\ Onward
         /\ \A w \in Workers : /\ asked[w] \in Seq(LogUpdate) /\ AllThen(asked[w])
                               /\ writing[w] \in Seq(LogUpdate) /\ AllThen(writing[w])
  <1>1. QueueTypeOK' /\ BudgetKept' /\ Onward
    BY QueueUnchanged, QueueOnward DEF LogInv, LogTypeOK
  <1> QED
    BY <1>1, InFlight

LEMMA CreateLogKept ==
  ASSUME LogInv, NEW j \in Jobs, CreateLog(j) \/ LoseLog(j)
  PROVE  LogInv'
  <1>1. /\ QueueTypeOK' /\ BudgetKept'
        /\ \A w \in Workers : AllThen(asked[w]) /\ AllThen(writing[w])
    BY QueueStands DEF CreateLog, LoseLog
  <1>2. /\ creating' \subseteq Jobs /\ asked' = asked /\ writing' = writing
        /\ log' = log \/ log' = [log EXCEPT ![j] = "waiting"]
    BY DEF LogInv, LogTypeOK, CreateLog, LoseLog
  <1>3. UpdatesTruthful'
    BY <1>1, <1>2, UpdatesEach
  <1>4. log' \in [Jobs -> JobStates]
    BY <1>2 DEF LogInv, LogTypeOK, JobStates
  <1>5. job' = job
    BY DEF CreateLog, LoseLog, queueVars
  <1>6. LogTruthful'
    BY <1>2, <1>5 DEF LogInv, LogTypeOK, LogTruthful
  <1> QED
    BY <1>1, <1>2, <1>3, <1>4, <1>6 DEF LogInv, LogTypeOK

LEMMA FindLogKept ==
  ASSUME LogInv, NEW w \in Workers, FindLog(w)
  PROVE  LogInv'
  <1>1. /\ QueueTypeOK' /\ BudgetKept' /\ Onward
        /\ \A v \in Workers : /\ asked[v] \in Seq(LogUpdate) /\ AllThen(asked[v])
                              /\ writing[v] \in Seq(LogUpdate) /\ AllThen(writing[v])
    BY QueueStands DEF FindLog
  <1>2. asked \in [Workers -> Seq(LogUpdate)] /\ writing \in [Workers -> Seq(LogUpdate)]
    BY DEF LogInv, LogTypeOK
  <1> DEFINE u == Head(asked[w])
  <1>3. /\ Tail(asked[w]) \in Seq(LogUpdate) /\ AllThen(Tail(asked[w]))
        /\ u \in LogUpdate /\ Then(u)
    BY <1>1, TailThen DEF FindLog
  <1>4. asked' = [asked EXCEPT ![w] = Tail(@)]
    BY DEF FindLog
  <1>5. writing' = writing \/ writing' = [writing EXCEPT ![w] = Append(@, u)]
    BY DEF FindLog
  <1> HIDE DEF u
  <1>6. Append(writing[w], u) \in Seq(LogUpdate) /\ AllThen(Append(writing[w], u))
    BY <1>1, <1>3, AppendThen
  <1>7. asked' \in [Workers -> Seq(LogUpdate)] /\ writing' \in [Workers -> Seq(LogUpdate)]
    BY <1>2, <1>3, <1>4, <1>5, <1>6
  <1>8. \A v \in Workers : AllThen(asked'[v]) /\ AllThen(writing'[v])
    BY <1>1, <1>2, <1>3, <1>4, <1>5, <1>6
  <1>9. creating' = creating /\ log' = log
    BY DEF FindLog
  <1>10. UpdatesTruthful' /\ LogTruthful'
    BY <1>1, <1>8, <1>9, UpdatesEach, LogStaysTruthful DEF LogInv
  <1> QED
    BY <1>1, <1>7, <1>9, <1>10 DEF LogInv, LogTypeOK

LEMMA UpdateLogKept ==
  ASSUME LogInv, NEW w \in Workers, UpdateLog(w)
  PROVE  LogInv'
  <1>1. /\ QueueTypeOK' /\ BudgetKept' /\ Onward
        /\ \A v \in Workers : /\ asked[v] \in Seq(LogUpdate) /\ AllThen(asked[v])
                              /\ writing[v] \in Seq(LogUpdate) /\ AllThen(writing[v])
    BY QueueStands DEF UpdateLog
  <1>2. writing \in [Workers -> Seq(LogUpdate)] /\ log \in [Jobs -> JobStates]
    BY DEF LogInv, LogTypeOK
  <1> DEFINE u == Head(writing[w])
  <1>3. /\ Tail(writing[w]) \in Seq(LogUpdate) /\ AllThen(Tail(writing[w]))
        /\ u \in LogUpdate /\ Then(u)
    BY <1>1, TailThen DEF UpdateLog
  <1>4. /\ writing' = [writing EXCEPT ![w] = Tail(@)]
        /\ log' = [log EXCEPT ![u.job] = u.to]
        /\ asked' = asked /\ creating' = creating
    BY DEF UpdateLog
  <1> HIDE DEF u
  <1>5. u.job \in Jobs /\ u.to \in JobStates
    BY <1>3 DEF LogUpdate, JobStates
  <1>6. log' \in [Jobs -> JobStates] /\ writing' \in [Workers -> Seq(LogUpdate)]
    BY <1>2, <1>3, <1>4, <1>5
  <1>7. \A v \in Workers : AllThen(asked'[v]) /\ AllThen(writing'[v])
    BY <1>1, <1>2, <1>3, <1>4
  <1>8. UpdatesTruthful'
    BY <1>7, UpdatesEach
  <1>9. LogTruthful'
    <2> SUFFICES ASSUME NEW j \in Jobs
                 PROVE  /\ log'[j] = "completed" => job'[j].state = "completed"
                        /\ log'[j] = "failed" => job'[j].made + job'[j].stalls > 0
      BY DEF LogTruthful
    <2>1. CASE j = u.job
      BY <1>2, <1>3, <1>4, <2>1 DEF Then
    <2>2. CASE j # u.job
      BY <1>1, <1>2, <1>4, <2>2 DEF LogInv, LogTruthful, Onward
    <2> QED
      BY <2>1, <2>2
  <1> QED
    BY <1>1, <1>4, <1>6, <1>8, <1>9 DEF LogInv, LogTypeOK

-----------------------------------------------------------------------------

\* A log update is truthful in flight and in the log, in every state.
THEOREM LogInvTheorem == LogSpec => []LogInv
  <1>1. LogInit => LogInv
    <2> SUFFICES ASSUME LogInit PROVE LogInv
      OBVIOUS
    <2>1. QueueTypeOK /\ BudgetKept
      BY QueueInitKept DEF LogInit
    <2>2. EntryTypeOK
      BY DEF LogInit, EntryTypeOK, JobStates
    <2>3. UpdatesTruthful /\ LogTruthful
      BY DEF LogInit, UpdatesTruthful, LogTruthful
    <2> QED
      BY <2>1, <2>2, <2>3, LogTypeSplit DEF LogInv
  <1>2. LogInv /\ [LogNext]_logVars => LogInv'
    <2> SUFFICES ASSUME LogInv, [LogNext]_logVars PROVE LogInv'
      OBVIOUS
    <2>1. ASSUME NEW j \in Jobs, Dispatch(j) \/ Retry(j) \/ CreateLog(j) \/ LoseLog(j)
          PROVE  LogInv'
      BY <2>1, DispatchKept, RetryKept, CreateLogKept
    <2>2. ASSUME NEW w \in Workers, NEW j \in Jobs, OnActive(w, j) \/ OnStalled(w, j)
          PROVE  LogInv'
      BY <2>2, OnActiveKept, OnStalledKept
    <2>3. ASSUME NEW w \in Workers, NEW verdict \in {"ok", "retry", "fatal"}, OnSettled(w, verdict)
          PROVE  LogInv'
      BY <2>3, OnSettledKept
    <2>4. ASSUME NEW w \in Workers, CrashLog(w) \/ FindLog(w) \/ UpdateLog(w)
          PROVE  LogInv'
      BY <2>4, CrashLogKept, FindLogKept, UpdateLogKept
    <2>5. CASE UNCHANGED logVars
      <3>1. UNCHANGED queueVars /\ UNCHANGED entryVars
        BY <2>5 DEF logVars
      <3>2. /\ QueueTypeOK' /\ BudgetKept' /\ Onward
            /\ \A w \in Workers : AllThen(asked[w]) /\ AllThen(writing[w])
        BY <3>1, QueueStands
      <3>3. UpdatesTruthful' /\ LogTruthful'
        BY <3>1, <3>2, UpdatesEach, LogStaysTruthful DEF entryVars, LogInv
      <3> QED
        BY <3>1, <3>2, <3>3 DEF LogInv, LogTypeOK, entryVars
    <2> QED
      BY <2>1, <2>2, <2>3, <2>4, <2>5 DEF LogNext
  <1> QED
    BY <1>1, <1>2, PTL DEF LogSpec

\* The variables keep their types.
THEOREM LogTypeTheorem == LogSpec => []LogTypeOK
  <1>1. LogInv => LogTypeOK
    BY DEF LogInv
  <1> QED
    BY <1>1, LogInvTheorem, PTL

\* No job takes more runs than its attempts, stalls and retries allow.
THEOREM BudgetTheorem == LogSpec => []BudgetKept
  <1>1. LogInv => BudgetKept
    BY DEF LogInv
  <1> QED
    BY <1>1, LogInvTheorem, PTL

\* The log says completed or failed only of jobs that have completed or failed.
THEOREM LogTruthfulTheorem == LogSpec => []LogTruthful
  <1>1. LogInv => LogTruthful
    BY DEF LogInv
  <1> QED
    BY <1>1, LogInvTheorem, PTL
=============================================================================
