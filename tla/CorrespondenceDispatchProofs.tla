------------------- MODULE CorrespondenceDispatchProofs -------------------
(***************************************************************************)
(* Proofs about CorrespondenceDispatch: type correctness, the bound on the *)
(* mails of a dispatch, and that a completed one was delivered.            *)
(***************************************************************************)
EXTENDS CorrespondenceDispatch, JobQueueProofs

BodyTypeOK ==
    /\ stored \subseteq Jobs
    /\ purged \subseteq stored
    /\ rows \in [Jobs -> [Recipients -> Row]]
    /\ at \in [Workers -> {"idle", "mail", "find", "sample", "push", "mark", "unmark",
                           "ok", "retry", "fatal"}]
    /\ mails \in [Jobs -> SUBSET (Nat \ {0})]
    /\ pushes \subseteq Jobs
    /\ resent \in [Jobs -> SUBSET Recipients]
    /\ client \in [Clients -> Request \cup {NoRequest}]
    /\ commands \in 0 .. MaxCommands

LEMMA TypeSplit == TypeOK <=> QueueTypeOK /\ BodyTypeOK
  BY DEF TypeOK, BodyTypeOK

\* A row with one field set is one, and keeps the others.
LEMMA RowFields ==
  ASSUME NEW r \in Row
  PROVE  /\ \A b \in BOOLEAN : [r EXCEPT !.read = b] \in Row /\ [r EXCEPT !.read = b].sent = r.sent
         /\ \A b \in BOOLEAN : [r EXCEPT !.archived = b] \in Row /\ [r EXCEPT !.archived = b].sent = r.sent
         /\ [r EXCEPT !.sent = TRUE] \in Row
  BY DEF Row

\* A worker in the handler is in a run of a job.
LEMMA AtWork ==
  ASSUME QueueTypeOK, BodyTypeOK, RunsApart, NEW w \in Workers, at[w] # "idle"
  PROVE  /\ running[w] \in Jobs /\ job[running[w]] \in JobRecord
         /\ run[w] \in Nat \ {0} /\ run[w] <= job[running[w]].runs
  BY DEF QueueTypeOK, RunsApart, JobRecord

-----------------------------------------------------------------------------
LEMMA StoreKept ==
  ASSUME IInv, NEW j \in Jobs, Store(j)
  PROVE  IInv'
  <1>1. QueueTypeOK /\ BodyTypeOK /\ BudgetKept /\ RunsApart
    BY TypeSplit DEF IInv
  <1>2. QueueTypeOK' /\ BudgetKept'
    BY <1>1, QueueUnchanged DEF Store
  <1>3. BodyTypeOK'
    BY <1>1, <1>2 DEF IInv, BodyTypeOK, BodyTypeOK, QueueTypeOK, JobRecord, Store, queueVars
  <1>4. RunsApart'
    BY <1>1, <1>2 DEF IInv, RunsApart, BodyTypeOK, QueueTypeOK, JobRecord, Store, queueVars
  <1>5. MailedByRuns'
    BY <1>1, <1>2 DEF IInv, MailedByRuns, BodyTypeOK, QueueTypeOK, JobRecord, Store, queueVars
  <1>6. MarkedForPush'
    BY <1>1, <1>2 DEF IInv, MarkedForPush, BodyTypeOK, QueueTypeOK, JobRecord, Store, queueVars
  <1>7. PushedByRuns'
    BY <1>1, <1>2 DEF IInv, PushedByRuns, BodyTypeOK, QueueTypeOK, JobRecord, Store, queueVars
  <1>8. CompletedIsDelivered'
    BY <1>1, <1>2 DEF IInv, CompletedIsDelivered, BodyTypeOK, QueueTypeOK, JobRecord, Store, queueVars
  <1> QED
    BY <1>2, <1>3, <1>4, <1>5, <1>6, <1>7, <1>8, TypeSplit DEF IInv, TypeOK, BodyTypeOK

LEMMA PurgeKept ==
  ASSUME IInv, NEW j \in Jobs, Purge(j)
  PROVE  IInv'
  <1>1. QueueTypeOK /\ BodyTypeOK /\ BudgetKept /\ RunsApart
    BY TypeSplit DEF IInv
  <1>2. QueueTypeOK' /\ BudgetKept'
    BY <1>1, QueueUnchanged DEF Purge
  <1>3. BodyTypeOK'
    BY <1>1, <1>2 DEF IInv, BodyTypeOK, BodyTypeOK, QueueTypeOK, JobRecord, Purge, Expirable, queueVars
  <1>4. RunsApart'
    BY <1>1, <1>2 DEF IInv, RunsApart, BodyTypeOK, QueueTypeOK, JobRecord, Purge, Expirable, queueVars
  <1>5. MailedByRuns'
    BY <1>1, <1>2 DEF IInv, MailedByRuns, BodyTypeOK, QueueTypeOK, JobRecord, Purge, Expirable, queueVars
  <1>6. MarkedForPush'
    BY <1>1, <1>2 DEF IInv, MarkedForPush, BodyTypeOK, QueueTypeOK, JobRecord, Purge, Expirable, queueVars
  <1>7. PushedByRuns'
    BY <1>1, <1>2 DEF IInv, PushedByRuns, BodyTypeOK, QueueTypeOK, JobRecord, Purge, Expirable, queueVars
  <1>8. CompletedIsDelivered'
    BY <1>1, <1>2 DEF IInv, CompletedIsDelivered, BodyTypeOK, QueueTypeOK, JobRecord, Purge, Expirable, queueVars
  <1> QED
    BY <1>2, <1>3, <1>4, <1>5, <1>6, <1>7, <1>8, TypeSplit DEF IInv, TypeOK, BodyTypeOK

LEMMA SendMailKept ==
  ASSUME IInv, NEW w \in Workers, SendMail(w)
  PROVE  IInv'
  <1>1. QueueTypeOK /\ BodyTypeOK /\ BudgetKept /\ RunsApart
    BY TypeSplit DEF IInv
  <1>2. QueueTypeOK' /\ BudgetKept'
    BY <1>1, QueueUnchanged DEF SendMail
  <1>3. at[w] # "idle" /\ running[w] \in Jobs /\ job[running[w]] \in JobRecord
        /\ run[w] \in Nat \ {0} /\ run[w] <= job[running[w]].runs
    BY <1>1, AtWork DEF SendMail
  <1>4. /\ mails' = mails \/ mails' = [mails EXCEPT ![running[w]] = @ \cup {run[w]}]
        /\ \E l \in {"find", "ok", "retry", "fatal"} :
              /\ at' = [at EXCEPT ![w] = l]
              /\ l \in {"find", "ok"} => mails' = [mails EXCEPT ![running[w]] = @ \cup {run[w]}]
    BY <1>1, <1>3 DEF SendMail, FailedMail, Goto, PushStep, BodyTypeOK
  <1>5. BodyTypeOK'
    BY <1>1, <1>3, <1>4 DEF BodyTypeOK, SendMail
  <1>6. RunsApart'
    BY <1>1, <1>2 DEF IInv, RunsApart, BodyTypeOK, QueueTypeOK, JobRecord, SendMail, FailedMail, Goto, PushStep, queueVars
  <1>7. MailedByRuns'
    <2>1. \A k \in Jobs : /\ mails[k] \subseteq mails'[k] /\ job'[k].runs = job[k].runs
                          /\ mails'[k] \subseteq 1 .. job[k].runs
      BY <1>1, <1>3, <1>4 DEF IInv, MailedByRuns, BodyTypeOK, SendMail, queueVars, JobRecord
    <2>2. at'[w] \in {"find", "ok"} => run[w] \in mails'[running[w]]
      BY <1>1, <1>3, <1>4 DEF BodyTypeOK
    <2>3. at'[w] \in {"find", "ok", "retry", "fatal"} /\ \A v \in Workers \ {w} : at'[v] = at[v]
      BY <1>1, <1>4 DEF BodyTypeOK
    <2>4. running' = running /\ run' = run
      BY DEF SendMail, queueVars
    <2>5. \A v \in Workers : running[v] \in Mailed => running[v] \in Jobs
      BY <1>1, DispatchAssumption DEF DispatchAssumption
    <2> QED
      BY <2>1, <2>2, <2>3, <2>4, <2>5 DEF IInv, MailedByRuns
  <1>8. MarkedForPush'
    BY <1>1, <1>2 DEF IInv, MarkedForPush, BodyTypeOK, QueueTypeOK, JobRecord, SendMail, FailedMail, Goto, PushStep, queueVars
  <1>9. PushedByRuns'
    BY <1>1, <1>3 DEF IInv, PushedByRuns, BodyTypeOK, QueueTypeOK, SendMail, FailedMail, PushStep, Goto, queueVars
  <1>10. CompletedIsDelivered'
    BY <1>1, <1>3, <1>4 DEF IInv, CompletedIsDelivered, BodyTypeOK, SendMail, queueVars
  <1> QED
    BY <1>2, <1>5, <1>6, <1>7, <1>8, <1>9, <1>10, TypeSplit DEF IInv, TypeOK, BodyTypeOK

LEMMA FindNotificationKept ==
  ASSUME IInv, NEW w \in Workers, FindNotification(w)
  PROVE  IInv'
  <1>1. QueueTypeOK /\ BodyTypeOK /\ BudgetKept /\ RunsApart
    BY TypeSplit DEF IInv
  <1>2. QueueTypeOK' /\ BudgetKept'
    BY <1>1, QueueUnchanged DEF FindNotification
  <1>3. BodyTypeOK'
    BY <1>1, <1>2 DEF IInv, BodyTypeOK, BodyTypeOK, QueueTypeOK, JobRecord, FindNotification, Goto, queueVars
  <1>4. RunsApart'
    BY <1>1, <1>2 DEF IInv, RunsApart, BodyTypeOK, QueueTypeOK, JobRecord, FindNotification, Goto, queueVars
  <1>5. MailedByRuns'
    BY <1>1, <1>2 DEF IInv, MailedByRuns, BodyTypeOK, QueueTypeOK, JobRecord, FindNotification, Goto, queueVars
  <1>6. MarkedForPush'
    BY <1>1, <1>2 DEF IInv, MarkedForPush, BodyTypeOK, QueueTypeOK, JobRecord, FindNotification, Goto, queueVars
  <1>7. PushedByRuns'
    BY <1>1, <1>2 DEF IInv, PushedByRuns, BodyTypeOK, QueueTypeOK, JobRecord, FindNotification, Goto, queueVars
  <1>8. CompletedIsDelivered'
    BY <1>1, <1>2 DEF IInv, CompletedIsDelivered, BodyTypeOK, QueueTypeOK, JobRecord, FindNotification, Goto, queueVars
  <1> QED
    BY <1>2, <1>3, <1>4, <1>5, <1>6, <1>7, <1>8, TypeSplit DEF IInv, TypeOK, BodyTypeOK

LEMMA SampleRowKept ==
  ASSUME IInv, NEW w \in Workers, SampleRow(w)
  PROVE  IInv'
  <1>1. QueueTypeOK /\ BodyTypeOK /\ BudgetKept /\ RunsApart
    BY TypeSplit DEF IInv
  <1>2. QueueTypeOK' /\ BudgetKept'
    BY <1>1, QueueUnchanged DEF SampleRow
  <1>3. at[w] # "idle" /\ running[w] \in Jobs /\ job[running[w]] \in JobRecord
        /\ run[w] \in Nat \ {0} /\ run[w] <= job[running[w]].runs
    BY <1>1, AtWork DEF SampleRow
  <1>4. BodyTypeOK'
    BY <1>1, <1>2 DEF IInv, BodyTypeOK, BodyTypeOK, QueueTypeOK, JobRecord, SampleRow, Sent, Goto, queueVars
  <1>5. RunsApart'
    BY <1>1, <1>2 DEF IInv, RunsApart, BodyTypeOK, QueueTypeOK, JobRecord, SampleRow, Sent, Goto, queueVars
  <1>6. MailedByRuns'
    BY <1>1, <1>2 DEF IInv, MailedByRuns, BodyTypeOK, QueueTypeOK, JobRecord, SampleRow, Sent, Goto, queueVars
  <1>7. MarkedForPush'
    BY <1>1, <1>2 DEF IInv, MarkedForPush, BodyTypeOK, QueueTypeOK, JobRecord, SampleRow, Sent, Goto, queueVars
  <1>8. PushedByRuns'
    BY <1>1, <1>3, DispatchAssumption
       DEF IInv, PushedByRuns, MarkedForPush, BodyTypeOK, SampleRow, Sent, Goto, queueVars, DispatchAssumption
  <1>9. CompletedIsDelivered'
    BY <1>1, <1>2 DEF IInv, CompletedIsDelivered, BodyTypeOK, QueueTypeOK, JobRecord, SampleRow, Sent, Goto, queueVars
  <1> QED
    BY <1>2, <1>4, <1>5, <1>6, <1>7, <1>8, <1>9, TypeSplit DEF IInv, TypeOK, BodyTypeOK

LEMMA PushKept ==
  ASSUME IInv, NEW w \in Workers, Push(w)
  PROVE  IInv'
  <1>1. QueueTypeOK /\ BodyTypeOK /\ BudgetKept /\ RunsApart
    BY TypeSplit DEF IInv
  <1>2. QueueTypeOK' /\ BudgetKept'
    BY <1>1, QueueUnchanged DEF Push
  <1>3. at[w] # "idle" /\ running[w] \in Jobs /\ job[running[w]] \in JobRecord
        /\ run[w] \in Nat \ {0} /\ run[w] <= job[running[w]].runs
    BY <1>1, AtWork DEF Push
  <1>4. BodyTypeOK'
    BY <1>1, <1>3 DEF BodyTypeOK, Push, Goto
  <1>5. RunsApart'
    BY <1>1, <1>2 DEF IInv, RunsApart, BodyTypeOK, QueueTypeOK, JobRecord, Push, Goto, queueVars
  <1>6. MailedByRuns'
    BY <1>1, <1>2 DEF IInv, MailedByRuns, BodyTypeOK, QueueTypeOK, JobRecord, Push, Goto, queueVars
  <1>7. MarkedForPush'
    BY <1>1, <1>2 DEF IInv, MarkedForPush, BodyTypeOK, QueueTypeOK, JobRecord, Push, Goto, queueVars
  <1>8. PushedByRuns'
    BY <1>1, <1>2 DEF IInv, PushedByRuns, BodyTypeOK, QueueTypeOK, JobRecord, Push, Goto, queueVars
  <1>9. CompletedIsDelivered'
    BY <1>1, <1>2 DEF IInv, CompletedIsDelivered, BodyTypeOK, QueueTypeOK, JobRecord, Push, Goto, queueVars
  <1> QED
    BY <1>2, <1>4, <1>5, <1>6, <1>7, <1>8, <1>9, TypeSplit DEF IInv, TypeOK, BodyTypeOK

LEMMA MarkKept ==
  ASSUME IInv, NEW w \in Workers, Mark(w) \/ MarkFailed(w)
  PROVE  IInv'
  <1>1. QueueTypeOK /\ BodyTypeOK /\ BudgetKept /\ RunsApart
    BY TypeSplit DEF IInv
  <1>2. QueueTypeOK' /\ BudgetKept'
    BY <1>1, QueueUnchanged DEF Mark, MarkFailed
  <1>3. at[w] # "idle" /\ running[w] \in Jobs /\ job[running[w]] \in JobRecord
        /\ run[w] \in Nat \ {0} /\ run[w] <= job[running[w]].runs
    BY <1>1, AtWork DEF Mark, MarkFailed
  <1>4. /\ rows' \in [Jobs -> [Recipients -> Row]]
        /\ \A k \in Jobs, u \in Recipients :
              rows'[k][u].sent => rows[k][u].sent \/ k = running[w]
    <2> DEFINE j == running[w]
               new == [u \in Recipients |-> [rows[j][u] EXCEPT !.sent = TRUE]]
    <2>1. rows' = rows \/ rows' = [rows EXCEPT ![j] = new]
      BY DEF Mark, MarkFailed, MarkAll
    <2>2. \A u \in Recipients : rows[j][u] \in Row
      BY <1>1, <1>3 DEF BodyTypeOK
    <2>3. new \in [Recipients -> Row]
      BY <2>2, RowFields
    <2> HIDE DEF new
    <2> QED
      BY <1>1, <1>3, <2>1, <2>3 DEF BodyTypeOK
  <1>5. running[w] \in pushes
    BY <1>1 DEF IInv, PushedByRuns, Mark, MarkFailed
  <1>6. BodyTypeOK'
    BY <1>1, <1>4 DEF BodyTypeOK, Mark, MarkFailed, Goto
  <1>7. RunsApart'
    BY <1>1, <1>2 DEF IInv, RunsApart, BodyTypeOK, QueueTypeOK, JobRecord, Mark, MarkFailed, MarkAll, Goto, queueVars
  <1>8. MailedByRuns'
    BY <1>1, <1>2 DEF IInv, MailedByRuns, BodyTypeOK, QueueTypeOK, JobRecord, Mark, MarkFailed, MarkAll, Goto, queueVars
  <1>9. MarkedForPush'
    BY <1>1, <1>4, <1>5 DEF IInv, MarkedForPush, BodyTypeOK, Mark, MarkFailed
  <1>10. PushedByRuns'
    BY <1>1, <1>2 DEF IInv, PushedByRuns, BodyTypeOK, QueueTypeOK, JobRecord, Mark, MarkFailed, MarkAll, Goto, queueVars
  <1>11. CompletedIsDelivered'
    BY <1>1, <1>2 DEF IInv, CompletedIsDelivered, BodyTypeOK, QueueTypeOK, JobRecord, Mark, MarkFailed, MarkAll, Goto, queueVars
  <1> QED
    BY <1>2, <1>6, <1>7, <1>8, <1>9, <1>10, <1>11, TypeSplit DEF IInv, TypeOK, BodyTypeOK

LEMMA LoadKept ==
  ASSUME IInv, NEW c \in Clients, NEW op \in {"read", "archive", "push"}, NEW j \in Jobs,
         NEW u \in Recipients, Load(c, op, j, u)
  PROVE  IInv'
  <1>1. QueueTypeOK /\ BodyTypeOK /\ BudgetKept /\ RunsApart
    BY TypeSplit DEF IInv
  <1>2. QueueTypeOK' /\ BudgetKept'
    BY <1>1, QueueUnchanged DEF Load
  <1>3. \E q \in Request :
           /\ client' = [client EXCEPT ![c] = q] /\ q.job = j /\ q.user = u
           /\ q.row.sent = rows[j][u].sent
    <2> DEFINE r == rows[j][u]
               a == [r EXCEPT !.read = @ \/ op = "read"]
               b == [r EXCEPT !.read = @ \/ op = "read", !.archived = @ \/ op = "archive"]
               q == [op |-> IF op = "push" THEN "push" ELSE "save", job |-> j, user |-> u, row |-> b]
    <2>1. r \in Row
      BY <1>1 DEF BodyTypeOK
    <2>2. a \in Row /\ a.sent = r.sent /\ a.archived = r.archived
      BY <2>1 DEF Row
    <2>3. b = [a EXCEPT !.archived = r.archived \/ op = "archive"]
      BY <2>1 DEF Row
    <2> HIDE DEF a
    <2>4. b \in Row /\ b.sent = r.sent
      BY <2>2, <2>3 DEF Row
    <2>5. client' = [client EXCEPT ![c] = q]
      BY DEF Load
    <2> HIDE DEF b
    <2>6. q \in Request /\ q.job = j /\ q.user = u /\ q.row = b
      BY <2>4 DEF Request, Operations
    <2> HIDE DEF q
    <2> QED
      BY <2>4, <2>5, <2>6
  <1>4. BodyTypeOK'
    BY <1>1, <1>3, DispatchAssumption DEF BodyTypeOK, Load, DispatchAssumption
  <1>5. RunsApart'
    BY <1>1, <1>2 DEF IInv, RunsApart, BodyTypeOK, QueueTypeOK, JobRecord, Load, queueVars
  <1>6. MailedByRuns'
    BY <1>1, <1>2 DEF IInv, MailedByRuns, BodyTypeOK, QueueTypeOK, JobRecord, Load, queueVars
  <1>7. MarkedForPush'
    BY <1>1, <1>3 DEF IInv, MarkedForPush, BodyTypeOK, Load
  <1>8. PushedByRuns'
    BY <1>1, <1>2 DEF IInv, PushedByRuns, BodyTypeOK, QueueTypeOK, JobRecord, Load, queueVars
  <1>9. CompletedIsDelivered'
    BY <1>1, <1>2 DEF IInv, CompletedIsDelivered, BodyTypeOK, QueueTypeOK, JobRecord, Load, queueVars
  <1> QED
    BY <1>2, <1>4, <1>5, <1>6, <1>7, <1>8, <1>9, TypeSplit DEF IInv, TypeOK, BodyTypeOK

LEMMA ResendKept ==
  ASSUME IInv, NEW c \in Clients, Resend(c)
  PROVE  IInv'
  <1>1. QueueTypeOK /\ BodyTypeOK /\ BudgetKept /\ RunsApart
    BY TypeSplit DEF IInv
  <1>2. QueueTypeOK' /\ BudgetKept'
    BY <1>1, QueueUnchanged DEF Resend
  <1>3. client[c] \in Request
    BY <1>1 DEF BodyTypeOK, Resend, NoRequest
  <1>4. \/ client' = [client EXCEPT ![c] = NoRequest] /\ resent' = resent
        \/ /\ resent' = [resent EXCEPT ![client[c].job] = @ \cup {client[c].user}]
           /\ \E q \in Request : /\ client' = [client EXCEPT ![c] = q]
                                 /\ q.job = client[c].job /\ q.user = client[c].user
    <2> DEFINE p == client[c]
               t == [p EXCEPT !.op = "save"]
               r == [t.row EXCEPT !.sent = TRUE]
               q == [p EXCEPT !.op = "save", !.row.sent = TRUE]
    <2>1. p \in Request
      BY <1>3
    <2>2. t \in Request /\ t.job = p.job /\ t.user = p.user /\ t.row \in Row
      BY <2>1 DEF Request, Operations
    <2>3. q = [t EXCEPT !.row = r]
      BY <2>1 DEF Request
    <2>7. \/ client' = [client EXCEPT ![c] = NoRequest] /\ resent' = resent
          \/ /\ resent' = [resent EXCEPT ![p.job] = @ \cup {p.user}]
             /\ client' = [client EXCEPT ![c] = q]
      BY DEF Resend
    <2> HIDE DEF t
    <2>4. r \in Row
      BY <2>2, RowFields
    <2> HIDE DEF r
    <2>5. [t EXCEPT !.row = r] \in Request
      BY <2>2, <2>4 DEF Request
    <2>6. [t EXCEPT !.row = r].job = p.job /\ [t EXCEPT !.row = r].user = p.user
      BY <2>2, <2>4 DEF Request
    <2> HIDE DEF q
    <2> QED
      BY <2>3, <2>5, <2>6, <2>7
  <1>5. client[c].job \in Jobs /\ client[c].user \in Recipients
    BY <1>3 DEF Request
  <1>6. BodyTypeOK'
    <2>1. client' \in [Clients -> Request \cup {NoRequest}]
      BY <1>1, <1>4 DEF BodyTypeOK
    <2>2. resent' \in [Jobs -> SUBSET Recipients]
      BY <1>1, <1>4, <1>5 DEF BodyTypeOK
    <2> QED
      BY <1>1, <2>1, <2>2 DEF BodyTypeOK, Resend
  <1>7. RunsApart'
    BY <1>1, <1>2 DEF IInv, RunsApart, BodyTypeOK, QueueTypeOK, JobRecord, Resend, queueVars
  <1>8. MailedByRuns'
    BY <1>1, <1>2 DEF IInv, MailedByRuns, BodyTypeOK, QueueTypeOK, JobRecord, Resend, queueVars
  <1>9. MarkedForPush'
    <2>1. \A k \in Jobs : resent[k] \subseteq resent'[k]
      BY <1>1, <1>4, <1>5 DEF BodyTypeOK
    <2>2. \A d \in Clients \ {c} : client'[d] = client[d]
      BY <1>1, <1>4 DEF BodyTypeOK
    <2>3. client'[c] # NoRequest => client'[c].job \in Jobs /\ client'[c].user \in resent'[client'[c].job]
      BY <1>1, <1>4, <1>5 DEF BodyTypeOK
    <2>4. rows' = rows /\ pushes' = pushes
      BY DEF Resend
    <2>5. \A d \in Clients : client[d] # NoRequest => client[d].job \in Jobs
      BY <1>1 DEF BodyTypeOK, Request
    <2> QED
      BY <2>1, <2>2, <2>3, <2>4, <2>5 DEF IInv, MarkedForPush
  <1>10. PushedByRuns'
    BY <1>1, <1>3, <1>4 DEF IInv, PushedByRuns, RunsApart, BodyTypeOK, QueueTypeOK, Resend, Request, queueVars
  <1>11. CompletedIsDelivered'
    BY <1>1, <1>3, <1>4 DEF IInv, CompletedIsDelivered, BodyTypeOK, Resend, Request, queueVars
  <1> QED
    BY <1>2, <1>6, <1>7, <1>8, <1>9, <1>10, <1>11, TypeSplit DEF IInv, TypeOK, BodyTypeOK

LEMMA SaveKept ==
  ASSUME IInv, NEW c \in Clients, Save(c)
  PROVE  IInv'
  <1>1. QueueTypeOK /\ BodyTypeOK /\ BudgetKept /\ RunsApart
    BY TypeSplit DEF IInv
  <1>2. QueueTypeOK' /\ BudgetKept'
    BY <1>1, QueueUnchanged DEF Save
  <1>3. client[c] \in Request
    BY <1>1 DEF BodyTypeOK, Save, NoRequest
  <1>4. client[c].job \in Jobs /\ client[c].user \in Recipients /\ client[c].row \in Row
    BY <1>3 DEF Request
  <1>5. rows' = rows \/ rows' = [rows EXCEPT ![client[c].job][client[c].user] = client[c].row]
    BY DEF Save
  <1>6. BodyTypeOK'
    BY <1>1, <1>4, <1>5 DEF BodyTypeOK, Save
  <1>7. RunsApart'
    BY <1>1, <1>2 DEF IInv, RunsApart, BodyTypeOK, QueueTypeOK, JobRecord, Save, queueVars
  <1>8. MailedByRuns'
    BY <1>1, <1>2 DEF IInv, MailedByRuns, BodyTypeOK, QueueTypeOK, JobRecord, Save, queueVars
  <1>9. MarkedForPush'
    BY <1>1, <1>3, <1>4, <1>5 DEF IInv, MarkedForPush, BodyTypeOK, Save, NoRequest
  <1>10. PushedByRuns'
    BY <1>1, <1>2 DEF IInv, PushedByRuns, BodyTypeOK, QueueTypeOK, JobRecord, Save, queueVars
  <1>11. CompletedIsDelivered'
    BY <1>1, <1>2 DEF IInv, CompletedIsDelivered, BodyTypeOK, QueueTypeOK, JobRecord, Save, queueVars
  <1> QED
    BY <1>2, <1>6, <1>7, <1>8, <1>9, <1>10, <1>11, TypeSplit DEF IInv, TypeOK, BodyTypeOK

LEMMA ReadAllKept ==
  ASSUME IInv, NEW u \in Recipients, ReadAll(u)
  PROVE  IInv'
  <1>1. QueueTypeOK /\ BodyTypeOK /\ BudgetKept /\ RunsApart
    BY TypeSplit DEF IInv
  <1>2. QueueTypeOK' /\ BudgetKept'
    BY <1>1, QueueUnchanged DEF ReadAll
  <1>3. /\ rows' \in [Jobs -> [Recipients -> Row]]
        /\ \A j \in Jobs, v \in Recipients : rows'[j][v].sent = rows[j][v].sent
    <2>1. \A j \in Jobs, v \in Recipients : rows[j][v] \in Row
      BY <1>1 DEF BodyTypeOK
    <2>2. \A j \in Jobs : /\ [rows[j] EXCEPT ![u].read = TRUE] \in [Recipients -> Row]
                          /\ \A v \in Recipients : [rows[j] EXCEPT ![u].read = TRUE][v].sent = rows[j][v].sent
      BY <1>1, <2>1, RowFields DEF BodyTypeOK
    <2> QED
      BY <1>1, <2>2 DEF BodyTypeOK, ReadAll
  <1>4. BodyTypeOK'
    BY <1>1, <1>3, DispatchAssumption DEF BodyTypeOK, ReadAll, DispatchAssumption
  <1>5. RunsApart'
    BY <1>1, <1>2 DEF IInv, RunsApart, BodyTypeOK, QueueTypeOK, JobRecord, ReadAll, queueVars
  <1>6. MailedByRuns'
    BY <1>1, <1>2 DEF IInv, MailedByRuns, BodyTypeOK, QueueTypeOK, JobRecord, ReadAll, queueVars
  <1>7. MarkedForPush'
    BY <1>1, <1>3 DEF IInv, MarkedForPush, BodyTypeOK, ReadAll
  <1>8. PushedByRuns'
    BY <1>1, <1>2 DEF IInv, PushedByRuns, BodyTypeOK, QueueTypeOK, JobRecord, ReadAll, queueVars
  <1>9. CompletedIsDelivered'
    BY <1>1, <1>2 DEF IInv, CompletedIsDelivered, BodyTypeOK, QueueTypeOK, JobRecord, ReadAll, queueVars
  <1> QED
    BY <1>2, <1>4, <1>5, <1>6, <1>7, <1>8, <1>9, TypeSplit DEF IInv, TypeOK, BodyTypeOK

LEMMA EnqueueKept ==
  ASSUME IInv, NEW j \in Jobs, Enqueue(j)
  PROVE  IInv'
  <1>1. QueueTypeOK /\ BodyTypeOK /\ BudgetKept /\ RunsApart
    BY TypeSplit DEF IInv
  <1>2. QueueTypeOK' /\ BudgetKept'
    BY <1>1, AddJobKept DEF Enqueue
  <1>3. BodyTypeOK'
    BY <1>1, <1>2, AddJobMoves DEF IInv, BodyTypeOK, BodyTypeOK, QueueTypeOK, JobRecord, Enqueue, bodyVars, Moved, AddJob, Take, Settle, Die, Leave, Holds, Counts, After, FirstStep, PushStep, Goto
  <1>4. RunsApart'
    BY <1>1, <1>2, AddJobMoves DEF IInv, RunsApart, BodyTypeOK, QueueTypeOK, JobRecord, Enqueue, bodyVars, Moved, AddJob, Take, Settle, Die, Leave, Holds, Counts, After, FirstStep, PushStep, Goto
  <1>5. MailedByRuns'
    BY <1>1, <1>2, AddJobMoves DEF IInv, MailedByRuns, BodyTypeOK, QueueTypeOK, JobRecord, Enqueue, bodyVars, Moved, AddJob, Take, Settle, Die, Leave, Holds, Counts, After, FirstStep, PushStep, Goto
  <1>6. MarkedForPush'
    BY <1>1, <1>2, AddJobMoves DEF IInv, MarkedForPush, BodyTypeOK, QueueTypeOK, JobRecord, Enqueue, bodyVars, Moved, AddJob, Take, Settle, Die, Leave, Holds, Counts, After, FirstStep, PushStep, Goto
  <1>7. PushedByRuns'
    BY <1>1, <1>2, AddJobMoves DEF IInv, PushedByRuns, BodyTypeOK, QueueTypeOK, JobRecord, Enqueue, bodyVars, Moved, AddJob, Take, Settle, Die, Leave, Holds, Counts, After, FirstStep, PushStep, Goto
  <1>8. CompletedIsDelivered'
    BY <1>1, <1>2, AddJobMoves DEF IInv, CompletedIsDelivered, BodyTypeOK, QueueTypeOK, JobRecord, Enqueue, bodyVars, Moved, AddJob, Take, Settle, Die, Leave, Holds, Counts, After, FirstStep, PushStep, Goto
  <1> QED
    BY <1>2, <1>3, <1>4, <1>5, <1>6, <1>7, <1>8, TypeSplit DEF IInv, TypeOK, BodyTypeOK

LEMMA BeginKept ==
  ASSUME IInv, NEW w \in Workers, NEW j \in Jobs, Begin(w, j)
  PROVE  IInv'
  <1>1. QueueTypeOK /\ BodyTypeOK /\ BudgetKept /\ RunsApart
    BY TypeSplit DEF IInv
  <1>2. QueueTypeOK' /\ BudgetKept'
    BY <1>1, TakeKept DEF Begin
  <1>3. Moved(j, "active", 1, 0, 0, 0) /\ job[j] \in JobRecord
    BY <1>1, TakeMoves DEF Begin, QueueTypeOK
  <1>4. /\ running[w] = NoJob /\ job[j].state = "waiting"
        /\ running' = [running EXCEPT ![w] = j] /\ run' = [run EXCEPT ![w] = job[j].runs + 1]
        /\ at' = [at EXCEPT ![w] = FirstStep(j)] /\ FirstStep(j) \in {"mail", "find", "ok"}
    BY DEF Begin, Take, Goto, FirstStep, PushStep
  <1>5. \A k \in Jobs : /\ job[k].runs \in Nat /\ job'[k].runs \in Nat
                        /\ job'[k].runs = IF k = j THEN job[k].runs + 1 ELSE job[k].runs
    BY <1>1, <1>3 DEF Moved, QueueTypeOK, JobRecord
  <1>6. BodyTypeOK'
    BY <1>1, <1>2, TakeMoves DEF IInv, BodyTypeOK, BodyTypeOK, QueueTypeOK, JobRecord, Begin, bodyVars, Moved, AddJob, Take, Settle, Die, Leave, Holds, Counts, After, FirstStep, PushStep, Goto
  <1>7. RunsApart'
    BY <1>1, <1>4, <1>5, QueueAssumption DEF RunsApart, BodyTypeOK, QueueTypeOK, QueueAssumption
  <1>8. MailedByRuns'
    BY <1>1, <1>4, <1>5 DEF IInv, MailedByRuns, BodyTypeOK, QueueTypeOK, Begin, FirstStep, PushStep
  <1>9. MarkedForPush'
    BY <1>1, <1>2, TakeMoves DEF IInv, MarkedForPush, BodyTypeOK, QueueTypeOK, JobRecord, Begin, bodyVars, Moved, AddJob, Take, Settle, Die, Leave, Holds, Counts, After, FirstStep, PushStep, Goto
  <1>10. PushedByRuns'
    BY <1>1, <1>4 DEF IInv, PushedByRuns, RunsApart, BodyTypeOK, QueueTypeOK, Begin, FirstStep, PushStep
  <1>11. CompletedIsDelivered'
    BY <1>1, <1>2, TakeMoves DEF IInv, CompletedIsDelivered, BodyTypeOK, QueueTypeOK, JobRecord, Begin, bodyVars, Moved, AddJob, Take, Settle, Die, Leave, Holds, Counts, After, FirstStep, PushStep, Goto
  <1> QED
    BY <1>2, <1>6, <1>7, <1>8, <1>9, <1>10, <1>11, TypeSplit DEF IInv, TypeOK, BodyTypeOK

LEMMA ReturnKept ==
  ASSUME IInv, NEW w \in Workers, Return(w)
  PROVE  IInv'
  <1>1. QueueTypeOK /\ BodyTypeOK /\ BudgetKept /\ RunsApart
    BY TypeSplit DEF IInv
  <1>2. QueueTypeOK' /\ BudgetKept'
    BY <1>1, SettleKept DEF Return
  <1>3. BodyTypeOK'
    BY <1>1, <1>2, SettleMoves DEF IInv, BodyTypeOK, BodyTypeOK, QueueTypeOK, JobRecord, Return, bodyVars, Moved, AddJob, Take, Settle, Die, Leave, Holds, Counts, After, FirstStep, PushStep, Goto
  <1>4. RunsApart'
    BY <1>1, <1>2, SettleMoves DEF IInv, RunsApart, BodyTypeOK, QueueTypeOK, JobRecord, Return, bodyVars, Moved, AddJob, Take, Settle, Die, Leave, Holds, Counts, After, FirstStep, PushStep, Goto
  <1>5. MailedByRuns'
    BY <1>1, <1>2, SettleMoves DEF IInv, MailedByRuns, BodyTypeOK, QueueTypeOK, JobRecord, Return, bodyVars, Moved, AddJob, Take, Settle, Die, Leave, Holds, Counts, After, FirstStep, PushStep, Goto
  <1>6. MarkedForPush'
    BY <1>1, <1>2, SettleMoves DEF IInv, MarkedForPush, BodyTypeOK, QueueTypeOK, JobRecord, Return, bodyVars, Moved, AddJob, Take, Settle, Die, Leave, Holds, Counts, After, FirstStep, PushStep, Goto
  <1>7. PushedByRuns'
    BY <1>1, <1>2, SettleMoves DEF IInv, PushedByRuns, BodyTypeOK, QueueTypeOK, JobRecord, Return, bodyVars, Moved, AddJob, Take, Settle, Die, Leave, Holds, Counts, After, FirstStep, PushStep, Goto
  <1>8. CompletedIsDelivered'
    BY <1>1, <1>2, SettleMoves DEF IInv, CompletedIsDelivered, BodyTypeOK, QueueTypeOK, JobRecord, Return, bodyVars, Moved, AddJob, Take, Settle, Die, Leave, Holds, Counts, After, FirstStep, PushStep, Goto
  <1> QED
    BY <1>2, <1>3, <1>4, <1>5, <1>6, <1>7, <1>8, TypeSplit DEF IInv, TypeOK, BodyTypeOK

LEMMA CrashKept ==
  ASSUME IInv, NEW w \in Workers, Crash(w)
  PROVE  IInv'
  <1>1. QueueTypeOK /\ BodyTypeOK /\ BudgetKept /\ RunsApart
    BY TypeSplit DEF IInv
  <1>2. QueueTypeOK' /\ BudgetKept'
    BY <1>1, DieKept DEF Crash
  <1>3. BodyTypeOK'
    BY <1>1, <1>2 DEF IInv, BodyTypeOK, BodyTypeOK, QueueTypeOK, JobRecord, Crash, bodyVars, Moved, AddJob, Take, Settle, Die, Leave, Holds, Counts, After, FirstStep, PushStep, Goto
  <1>4. RunsApart'
    BY <1>1, <1>2 DEF IInv, RunsApart, BodyTypeOK, QueueTypeOK, JobRecord, Crash, bodyVars, Moved, AddJob, Take, Settle, Die, Leave, Holds, Counts, After, FirstStep, PushStep, Goto
  <1>5. MailedByRuns'
    BY <1>1, <1>2 DEF IInv, MailedByRuns, BodyTypeOK, QueueTypeOK, JobRecord, Crash, bodyVars, Moved, AddJob, Take, Settle, Die, Leave, Holds, Counts, After, FirstStep, PushStep, Goto
  <1>6. MarkedForPush'
    BY <1>1, <1>2 DEF IInv, MarkedForPush, BodyTypeOK, QueueTypeOK, JobRecord, Crash, bodyVars, Moved, AddJob, Take, Settle, Die, Leave, Holds, Counts, After, FirstStep, PushStep, Goto
  <1>7. PushedByRuns'
    BY <1>1, <1>2 DEF IInv, PushedByRuns, BodyTypeOK, QueueTypeOK, JobRecord, Crash, bodyVars, Moved, AddJob, Take, Settle, Die, Leave, Holds, Counts, After, FirstStep, PushStep, Goto
  <1>8. CompletedIsDelivered'
    BY <1>1, <1>2 DEF IInv, CompletedIsDelivered, BodyTypeOK, QueueTypeOK, JobRecord, Crash, bodyVars, Moved, AddJob, Take, Settle, Die, Leave, Holds, Counts, After, FirstStep, PushStep, Goto
  <1> QED
    BY <1>2, <1>3, <1>4, <1>5, <1>6, <1>7, <1>8, TypeSplit DEF IInv, TypeOK, BodyTypeOK

LEMMA StallsKept ==
  ASSUME IInv, NEW j \in Jobs, Stall(j), UNCHANGED bodyVars
  PROVE  IInv'
  <1>1. QueueTypeOK /\ BodyTypeOK /\ BudgetKept /\ RunsApart
    BY TypeSplit DEF IInv
  <1>2. QueueTypeOK' /\ BudgetKept'
    BY <1>1, StallKept DEF Stall, Stalled
  <1>3. \A k \in Jobs : job'[k].runs = job[k].runs
    BY <1>1, StallMoves DEF Moved, QueueTypeOK, JobRecord
  <1>4. \A k \in Jobs : job'[k].state = "completed" => job[k].state = "completed"
    BY <1>1, StallMoves DEF Moved, QueueTypeOK, JobRecord
  <1>5. UNCHANGED <<running, run>> /\ UNCHANGED bodyVars
    BY DEF Stall
  <1>6. BodyTypeOK'
    BY <1>1, <1>2, StallMoves DEF IInv, BodyTypeOK, BodyTypeOK, QueueTypeOK, JobRecord, Stall, Stalled, bodyVars, Moved, AddJob, Take, Settle, Die, Leave, Holds, Counts, After, FirstStep, PushStep, Goto
  <1>7. RunsApart'
    BY <1>1, <1>3, <1>5 DEF RunsApart, QueueTypeOK, bodyVars
  <1>8. MailedByRuns'
    BY <1>3, <1>5 DEF IInv, MailedByRuns, bodyVars
  <1>9. MarkedForPush'
    BY <1>1, <1>2, StallMoves DEF IInv, MarkedForPush, BodyTypeOK, QueueTypeOK, JobRecord, Stall, Stalled, bodyVars, Moved, AddJob, Take, Settle, Die, Leave, Holds, Counts, After, FirstStep, PushStep, Goto
  <1>10. PushedByRuns'
    BY <1>1, <1>2, StallMoves DEF IInv, PushedByRuns, BodyTypeOK, QueueTypeOK, JobRecord, Stall, Stalled, bodyVars, Moved, AddJob, Take, Settle, Die, Leave, Holds, Counts, After, FirstStep, PushStep, Goto
  <1>11. CompletedIsDelivered'
    BY <1>3, <1>4, <1>5 DEF IInv, CompletedIsDelivered, bodyVars
  <1> QED
    BY <1>2, <1>6, <1>7, <1>8, <1>9, <1>10, <1>11, TypeSplit DEF IInv, TypeOK, BodyTypeOK

LEMMA RetriesKept ==
  ASSUME IInv, NEW j \in Jobs, RetryJob(j), UNCHANGED bodyVars
  PROVE  IInv'
  <1>1. QueueTypeOK /\ BodyTypeOK /\ BudgetKept /\ RunsApart
    BY TypeSplit DEF IInv
  <1>2. QueueTypeOK' /\ BudgetKept'
    BY <1>1, RetryJobKept DEF RetryJob
  <1>3. \A k \in Jobs : job'[k].runs = job[k].runs
    BY <1>1, RetryJobMoves DEF Moved, QueueTypeOK, JobRecord
  <1>4. \A k \in Jobs : job'[k].state = "completed" => job[k].state = "completed"
    BY <1>1, RetryJobMoves DEF Moved, QueueTypeOK, JobRecord
  <1>5. UNCHANGED <<running, run>> /\ UNCHANGED bodyVars
    BY DEF RetryJob
  <1>6. BodyTypeOK'
    BY <1>1, <1>2, RetryJobMoves DEF IInv, BodyTypeOK, BodyTypeOK, QueueTypeOK, JobRecord, RetryJob, bodyVars, Moved, AddJob, Take, Settle, Die, Leave, Holds, Counts, After, FirstStep, PushStep, Goto
  <1>7. RunsApart'
    BY <1>1, <1>3, <1>5 DEF RunsApart, QueueTypeOK, bodyVars
  <1>8. MailedByRuns'
    BY <1>3, <1>5 DEF IInv, MailedByRuns, bodyVars
  <1>9. MarkedForPush'
    BY <1>1, <1>2, RetryJobMoves DEF IInv, MarkedForPush, BodyTypeOK, QueueTypeOK, JobRecord, RetryJob, bodyVars, Moved, AddJob, Take, Settle, Die, Leave, Holds, Counts, After, FirstStep, PushStep, Goto
  <1>10. PushedByRuns'
    BY <1>1, <1>2, RetryJobMoves DEF IInv, PushedByRuns, BodyTypeOK, QueueTypeOK, JobRecord, RetryJob, bodyVars, Moved, AddJob, Take, Settle, Die, Leave, Holds, Counts, After, FirstStep, PushStep, Goto
  <1>11. CompletedIsDelivered'
    BY <1>3, <1>4, <1>5 DEF IInv, CompletedIsDelivered, bodyVars
  <1> QED
    BY <1>2, <1>6, <1>7, <1>8, <1>9, <1>10, <1>11, TypeSplit DEF IInv, TypeOK, BodyTypeOK

-----------------------------------------------------------------------------

\* The parts of the correspondence fit together in every state.
THEOREM InvTheorem == Spec => []IInv
  <1>1. Init => IInv
    <2> SUFFICES ASSUME Init PROVE IInv
      OBVIOUS
    <2>1. QueueTypeOK /\ BudgetKept
      BY QueueInitKept DEF Init
    <2>2. BodyTypeOK
      BY DispatchAssumption DEF Init, BodyTypeOK, Row, Unread, DispatchAssumption
    <2>3. RunsApart /\ MailedByRuns
      BY DispatchAssumption, QueueAssumption
         DEF Init, QueueInit, RunsApart, MailedByRuns, DispatchAssumption, QueueAssumption
    <2>4. MarkedForPush
      BY DEF Init, MarkedForPush, Unread
    <2>5. PushedByRuns /\ CompletedIsDelivered
      BY DEF Init, QueueInit, PushedByRuns, CompletedIsDelivered
    <2> QED
      BY <2>1, <2>2, <2>3, <2>4, <2>5, TypeSplit DEF IInv
  <1>2. IInv /\ [Next]_vars => IInv'
    <2> SUFFICES ASSUME IInv, [Next]_vars PROVE IInv'
      OBVIOUS
    <2>1. ASSUME NEW j \in Jobs, Store(j) \/ Enqueue(j) \/ Purge(j) PROVE IInv'
      BY <2>1, StoreKept, EnqueueKept, PurgeKept
    <2>2. ASSUME NEW w \in Workers, Work(w) PROVE IInv'
      BY <2>2, BeginKept, SendMailKept, FindNotificationKept, SampleRowKept, PushKept, MarkKept,
         ReturnKept DEF Work
    <2>3. ASSUME NEW w \in Workers, Crash(w) PROVE IInv'
      BY <2>3, CrashKept
    <2>4. ASSUME NEW j \in Jobs, (Stall(j) \/ RetryJob(j)) /\ UNCHANGED bodyVars PROVE IInv'
      BY <2>4, StallsKept, RetriesKept
    <2>5. ASSUME NEW c \in Clients, NEW op \in {"read", "archive", "push"}, NEW j \in Jobs,
                 NEW u \in Recipients, Load(c, op, j, u)
          PROVE  IInv'
      BY <2>5, LoadKept
    <2>6. ASSUME NEW c \in Clients, Resend(c) \/ Save(c) PROVE IInv'
      BY <2>6, ResendKept, SaveKept
    <2>7. ASSUME NEW u \in Recipients, ReadAll(u) PROVE IInv'
      BY <2>7, ReadAllKept
    <2>8. CASE UNCHANGED vars
      <3>1. UNCHANGED queueVars /\ UNCHANGED bodyVars
        BY <2>8 DEF vars
      <3>2. QueueTypeOK /\ BodyTypeOK /\ BudgetKept
        BY TypeSplit DEF IInv
      <3>3. QueueTypeOK' /\ BudgetKept'
        BY <3>1, <3>2, QueueUnchanged
      <3>4. BodyTypeOK'
        BY <3>1, <3>2 DEF BodyTypeOK, bodyVars
      <3>5. RunsApart' /\ MailedByRuns'
        BY <3>1 DEF IInv, RunsApart, MailedByRuns, bodyVars, queueVars
      <3>6. MarkedForPush' /\ PushedByRuns' /\ CompletedIsDelivered'
        BY <3>1 DEF IInv, MarkedForPush, PushedByRuns, CompletedIsDelivered, bodyVars, queueVars
      <3> QED
        BY <3>3, <3>4, <3>5, <3>6 DEF IInv, TypeOK, BodyTypeOK
    <2> QED
      BY <2>1, <2>2, <2>3, <2>4, <2>5, <2>6, <2>7, <2>8 DEF Next
  <1> QED
    BY <1>1, <1>2, PTL DEF Spec

\* The variables keep their types.
THEOREM TypeTheorem == Spec => []TypeOK
  <1>1. IInv => TypeOK
    BY DEF IInv
  <1> QED
    BY <1>1, InvTheorem, PTL

\* A dispatch is mailed at most once for each run it is allowed.
THEOREM MailsBoundedTheorem == Spec => []MailsBounded
  <1>1. IInv => MailsBounded
    <2> SUFFICES ASSUME IInv, NEW j \in Jobs
                 PROVE  mails[j] \subseteq 1 .. MaxAttempts + MaxStalls + job[j].retried
      BY DEF MailsBounded
    <2>1. job[j] \in JobRecord /\ Budget(job[j])
      BY BudgetEach DEF IInv, TypeOK, QueueTypeOK
    <2>2. job[j].runs <= MaxAttempts + MaxStalls + job[j].retried
      BY <2>1, QueueAssumption DEF Budget, JobRecord, QueueAssumption
    <2>3. mails[j] \subseteq 1 .. job[j].runs
      BY DEF IInv, MailedByRuns
    <2> QED
      BY <2>1, <2>2, <2>3, QueueAssumption DEF JobRecord, QueueAssumption
  <1> QED
    BY <1>1, InvTheorem, PTL

\* A completed dispatch was mailed by the run that completed it, and pushed
\* unless it had expired or its sample recipient had pushed it again.
THEOREM CompletedIsDeliveredTheorem == Spec => []CompletedIsDelivered
  <1>1. IInv => CompletedIsDelivered
    BY DEF IInv
  <1> QED
    BY <1>1, InvTheorem, PTL
=============================================================================
