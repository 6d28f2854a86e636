----------------------- MODULE CorrespondenceDispatch -----------------------
(***************************************************************************)
(* A request for correspondence: its in-app notification, the job that     *)
(* mails it and pushes it to the recipients, redelivered by the queue, and *)
(* the recipients, who read, archive and push again meanwhile.             *)
(***************************************************************************)
EXTENDS JobQueue

CONSTANTS
    Mailed, Pushed,   \* dispatches with a template, with push
    Recipients,       \* users notified
    Sample,           \* the first of userNotificationIds
    Clients,          \* user requests in flight
    MaxCommands       \* user requests considered

VARIABLES
    stored,      \* dispatches whose notification is stored
    purged,      \* and whose notification was purged since
    rows,        \* user notifications
    at,          \* where a worker is in the handler
    mails,       \* runs that mailed the dispatch
    pushes,      \* dispatches some run pushed to all recipients
    resent,      \* recipients who pushed it again themselves
    client,      \* a user's request with the row it loaded
    commands

bodyVars == <<stored, purged, rows, at, mails, pushes, resent, client, commands>>
vars == <<queueVars, bodyVars>>

DispatchAssumption ==
    /\ Mailed \subseteq Jobs
    /\ Pushed \subseteq Jobs
    /\ Sample \in Recipients
    /\ MaxCommands \in Nat
ASSUME DispatchAssumption

Row == [read: BOOLEAN, archived: BOOLEAN, sent: BOOLEAN]
Unread == [read |-> FALSE, archived |-> FALSE, sent |-> FALSE]
Operations == {"read", "archive", "push", "save"}
Request == [op: Operations, job: Jobs, user: Recipients, row: Row]
NoRequest == [op |-> "none"]

Init ==
    /\ QueueInit
    /\ stored = {}
    /\ purged = {}
    /\ rows = [j \in Jobs |-> [u \in Recipients |-> Unread]]
    /\ at = [w \in Workers |-> "idle"]
    /\ mails = [j \in Jobs |-> {}]
    /\ pushes = {}
    /\ resent = [j \in Jobs |-> {}]
    /\ client = [c \in Clients |-> NoRequest]
    /\ commands = 0

-----------------------------------------------------------------------------
(* The orchestrator *)

\* The notification and its recipients' rows, in one statement
Store(j) ==
    /\ j \notin stored
    /\ stored' = stored \cup {j}
    /\ UNCHANGED <<queueVars, purged, rows, at, mails, pushes, resent, client, commands>>

\* It may never come to this: the notification is then only seen in the app.
Enqueue(j) ==
    /\ j \in stored
    /\ AddJob(j)
    /\ UNCHANGED bodyVars

\* Mutation: nobody asks whether there is anything to purge.
Purgeable == Jobs \ purged

Expirable == stored \ purged

\* The notification expires, and its rows with it.
Purge(j) ==
    /\ j \in Expirable
    /\ purged' = purged \cup {j}
    /\ UNCHANGED <<queueVars, stored, rows, at, mails, pushes, resent, client, commands>>

-----------------------------------------------------------------------------
(* The handler *)

Goto(w, l) == at' = [at EXCEPT ![w] = l]

PushStep(j) == IF j \in Pushed THEN "find" ELSE "ok"

FirstStep(j) == IF j \in Mailed THEN "mail" ELSE PushStep(j)

Begin(w, j) ==
    /\ Take(w, j)
    /\ Goto(w, FirstStep(j))
    /\ UNCHANGED <<stored, purged, rows, mails, pushes, resent, client, commands>>

\* Mutation: a failed mail is only logged.
FailedMailLogged(w) == Goto(w, PushStep(running[w]))

\* It is thrown to the worker, which tells by its text whether to try again.
FailedMail(w) == \E verdict \in {"retry", "fatal"} : Goto(w, verdict)

\* The mail server may have taken a mail that failed.
SendMail(w) ==
    LET j == running[w] IN
    /\ at[w] = "mail"
    /\ \/ /\ mails' = [mails EXCEPT ![j] = @ \cup {run[w]}]
          /\ Goto(w, PushStep(j)) \/ Goto(w, "retry")
       \/ FailedMail(w) /\ UNCHANGED mails
    /\ UNCHANGED <<queueVars, stored, purged, rows, pushes, resent, client, commands>>

FindNotification(w) ==
    /\ at[w] = "find"
    /\ Goto(w, IF running[w] \in purged THEN "ok" ELSE "sample") \/ Goto(w, "retry")
    /\ UNCHANGED <<queueVars, stored, purged, rows, mails, pushes, resent, client, commands>>

\* The mark of the first row stands for the batch.
Sent(j) == rows[j][Sample].sent

\* sample?.isPushSent: a row purged by now has no mark.
SampleRow(w) ==
    LET j == running[w] IN
    /\ at[w] = "sample"
    /\ Goto(w, IF j \notin purged /\ Sent(j) THEN "ok" ELSE "push") \/ Goto(w, "retry")
    /\ UNCHANGED <<queueVars, stored, purged, rows, mails, pushes, resent, client, commands>>

\* A push that throws is caught.
Push(w) ==
    /\ at[w] = "push"
    /\ pushes' = pushes \cup {running[w]}
    /\ Goto(w, "mark") \/ Goto(w, "unmark")
    /\ UNCHANGED <<queueVars, stored, purged, rows, mails, resent, client, commands>>

\* bulkMarkPushSent: what failed is marked as sent as well.
MarkAll(j) ==
    rows' = IF j \in purged THEN rows
            ELSE [rows EXCEPT ![j] = [u \in Recipients |-> [rows[j][u] EXCEPT !.sent = TRUE]]]

\* A mark that throws falls into the same catch as the push.
Mark(w) ==
    /\ at[w] = "mark"
    /\ \/ MarkAll(running[w]) /\ Goto(w, "ok")
       \/ Goto(w, "unmark") /\ UNCHANGED rows
    /\ UNCHANGED <<queueVars, stored, purged, mails, pushes, resent, client, commands>>

MarkFailed(w) ==
    /\ at[w] = "unmark"
    /\ \/ MarkAll(running[w]) /\ Goto(w, "ok")
       \/ Goto(w, "retry") /\ UNCHANGED rows
    /\ UNCHANGED <<queueVars, stored, purged, mails, pushes, resent, client, commands>>

Return(w) ==
    /\ at[w] \in {"ok", "retry", "fatal"}
    /\ Settle(w, at[w])
    /\ Goto(w, "idle")
    /\ UNCHANGED <<stored, purged, rows, mails, pushes, resent, client, commands>>

Crash(w) ==
    /\ Die(w)
    /\ Goto(w, "idle")
    /\ UNCHANGED <<stored, purged, rows, mails, pushes, resent, client, commands>>

-----------------------------------------------------------------------------
(* The recipients *)

\* findById, and the change to the loaded copy; what is read or archived
\* already throws.
Load(c, op, j, u) ==
    LET r == rows[j][u] IN
    /\ client[c] = NoRequest
    /\ commands < MaxCommands
    /\ commands' = commands + 1
    /\ j \in stored \ purged
    /\ op = "read" => ~r.read
    /\ op = "archive" => ~r.archived
    /\ client' = [client EXCEPT ![c] =
           [op |-> IF op = "push" THEN "push" ELSE "save", job |-> j, user |-> u,
            row |-> [r EXCEPT !.read = @ \/ op = "read", !.archived = @ \/ op = "archive"]]]
    /\ UNCHANGED <<queueVars, stored, purged, rows, at, mails, pushes, resent>>

\* resendPush: the mark goes to the loaded copy, whatever became of the push;
\* of a notification purged meanwhile nothing is pushed.
Resend(c) ==
    LET q == client[c] IN
    /\ q.op = "push"
    /\ IF q.job \in purged
       THEN client' = [client EXCEPT ![c] = NoRequest] /\ UNCHANGED resent
       ELSE /\ resent' = [resent EXCEPT ![q.job] = @ \cup {q.user}]
            /\ client' = [client EXCEPT ![c] = [q EXCEPT !.op = "save", !.row.sent = TRUE]]
    /\ UNCHANGED <<queueVars, stored, purged, rows, at, mails, pushes, commands>>

\* The whole row is written, marks of others included; a purged one throws.
Save(c) ==
    LET q == client[c] IN
    /\ q.op = "save"
    /\ rows' = IF q.job \in purged THEN rows ELSE [rows EXCEPT ![q.job][q.user] = q.row]
    /\ client' = [client EXCEPT ![c] = NoRequest]
    /\ UNCHANGED <<queueVars, stored, purged, at, mails, pushes, resent, commands>>

\* markAllReadForUser, one statement
ReadAll(u) ==
    /\ commands < MaxCommands
    /\ commands' = commands + 1
    /\ rows' = [j \in Jobs |-> IF j \in stored \ purged
                               THEN [rows[j] EXCEPT ![u].read = TRUE] ELSE rows[j]]
    /\ UNCHANGED <<queueVars, stored, purged, at, mails, pushes, resent, client>>

-----------------------------------------------------------------------------

\* What a worker does by itself
Work(w) ==
    \/ \E j \in Jobs : Begin(w, j)
    \/ SendMail(w)
    \/ FindNotification(w)
    \/ SampleRow(w)
    \/ Push(w)
    \/ Mark(w)
    \/ MarkFailed(w)
    \/ Return(w)

Next ==
    \/ \E j \in Jobs : Store(j) \/ Enqueue(j) \/ Purge(j)
    \/ \E w \in Workers : Work(w) \/ Crash(w)
    \/ \E j \in Jobs : (Stall(j) \/ RetryJob(j)) /\ UNCHANGED bodyVars
    \/ \E c \in Clients, op \in {"read", "archive", "push"}, j \in Jobs, u \in Recipients :
           Load(c, op, j, u)
    \/ \E c \in Clients : Resend(c) \/ Save(c)
    \/ \E u \in Recipients : ReadAll(u)

Spec == Init /\ [][Next]_vars

\* The workers go on, and one of them looks for jobs whose process died.
\* Nothing is asked of the users.
Fairness ==
    /\ \A w \in Workers : WF_vars(Work(w))
    /\ \A j \in Jobs : WF_vars(Orphaned(j) /\ Stall(j) /\ UNCHANGED bodyVars)

FairSpec == Spec /\ Fairness

-----------------------------------------------------------------------------
(* Properties *)

TypeOK ==
    /\ QueueTypeOK
    /\ stored \subseteq Jobs
    /\ purged \subseteq stored
    /\ rows \in [Jobs -> [Recipients -> Row]]
    /\ at \in [Workers -> {"idle", "mail", "find", "sample", "push", "mark", "unmark",
                           "ok", "retry", "fatal"}]
    /\ mails \in [Jobs -> SUBSET (Nat \ {0})]
    /\ pushes \subseteq Jobs
    /\ resent \in [Jobs -> SUBSET Recipients]
    /\ client \in [Clients -> Request \cup {NoRequest}]
    /\ commands \in 0 .. MaxCommands

\* However runs fail, stall, go on without their lock and are retried by hand,
\* a dispatch is mailed at most once for each attempt, stall and retry it is
\* allowed.
MailsBounded ==
    \A j \in Jobs : mails[j] \subseteq 1 .. MaxAttempts + MaxStalls + job[j].retried

\* A dispatch that completed was mailed by the very run that completed it, and
\* pushed by some run - unless its notification had expired or the recipient
\* whose mark stands for all of them had pushed it again.
CompletedIsDelivered ==
    \A j \in Jobs : job[j].state = "completed" =>
        /\ j \in Mailed => job[j].runs \in mails[j]
        /\ j \in Pushed => j \in pushes \/ j \in purged \/ Sample \in resent[j]

\* Every job queued comes to its end, whatever fails, stalls or dies.
EveryDispatchSettles ==
    \A j \in Jobs : job[j].state = "waiting" ~> job[j].state \in {"completed", "failed"}

-----------------------------------------------------------------------------
(* The inductive invariant *)

\* Runs are numbered, and no two workers are in the same one.
RunsApart ==
    /\ \A w \in Workers :
          /\ at[w] = "idle" <=> running[w] = NoJob
          /\ running[w] # NoJob => run[w] \in 1 .. job[running[w]].runs
    /\ \A w, v \in Workers :
          running[w] = running[v] /\ run[w] = run[v] /\ running[w] # NoJob => w = v

\* Mails are sent by runs, and a run that is past its mail has sent it.
MailedByRuns ==
    /\ \A j \in Jobs : mails[j] \subseteq 1 .. job[j].runs
    /\ \A w \in Workers :
          running[w] \in Mailed /\ at[w] \in {"find", "sample", "push", "mark", "unmark", "ok"} =>
              run[w] \in mails[running[w]]

\* A row is marked for a push.
MarkedForPush ==
    /\ \A j \in Jobs, u \in Recipients : rows[j][u].sent => j \in pushes \/ u \in resent[j]
    /\ \A c \in Clients : client[c] # NoRequest =>
          LET q == client[c] IN q.row.sent => q.job \in pushes \/ q.user \in resent[q.job]

\* A run marks what it pushed, and ends well if somebody did.
PushedByRuns ==
    \A w \in Workers :
        /\ at[w] \in {"mark", "unmark"} => running[w] \in pushes
        /\ at[w] = "ok" /\ running[w] \in Pushed =>
              \/ running[w] \in pushes \cup purged
              \/ Sample \in resent[running[w]]

IInv ==
    /\ TypeOK
    /\ BudgetKept
    /\ RunsApart
    /\ MailedByRuns
    /\ MarkedForPush
    /\ PushedByRuns
    /\ CompletedIsDelivered
=============================================================================
