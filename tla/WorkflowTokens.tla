---------------------------- MODULE WorkflowTokens ----------------------------
(***************************************************************************)
(* StateMachineRunner on parallel and inclusive gateways and sub-processes: *)
(* the walk of one request through the definition, with its call stack, the *)
(* tokens it leaves in workflow_tokens, and the requests after it.  One     *)
(* instance.  Forms, claims and idempotency keys are the business of        *)
(* WorkflowOrchestrator; the event log has no effect on a walk.             *)
(***************************************************************************)
EXTENDS Naturals, Sequences, FiniteSets

CONSTANTS
    Kind,         \* what each element is
    Flows,        \* its outgoing flows, in order
    Inner,        \* the elements inside embedded sub-processes
    Body,         \* the start event inside each of these
    StartEvent,
    Requests,     \* requests and workers in flight
    MaxFaults     \* awaits that reject and crashes

VARIABLES
    instance,     \* workflow_instances
    open,         \* inbox rows of user tasks, queue jobs of service tasks
    tokens,       \* workflow_tokens, in the order of their creation
    pc,           \* where a request is
    row,          \* the instance in its memory
    at, token,    \* the element its walk is at, and the token it carries there
    stack,        \* the runner's calls that wait for a result
    res,          \* what the last of them returned
    terminated,   \* history: an end event with terminateAll was reached
    uprooted,     \* history: a cancel took the tokens
    torn,         \* history: tokens made by a walk that failed
    faults

walk == <<row, at, token, stack, res>>
history == <<terminated, uprooted, torn>>
vars == <<instance, open, tokens, pc, walk, history, faults>>

Elements == DOMAIN Kind
Targets(e) == {Flows[e][i] : i \in DOMAIN Flows[e]}
Tasks == {e \in Elements : Kind[e] \in {"userTask", "serviceTask"}}
NoElement == "nowhere"
NoToken == 0

\* What an element may be.  A fork or join is a parallel gateway, inclusive an
\* inclusive one that splits; terminate is an end event with terminateAll; a
\* sub-process is embedded, or names a definition.
Kinds == {"startEvent", "endEvent", "terminate", "userTask", "serviceTask", "exclusive",
          "fork", "inclusive", "join", "embedded", "subProcess"}

\* A definition has finitely many elements and starts at its start event; the
\* flows of an embedded one stay in it.
TokensAssumption ==
    /\ NoElement \notin Elements
    /\ IsFiniteSet(Elements)
    /\ Kind \in [Elements -> Kinds]
    /\ Flows \in [Elements -> Seq(Elements)]
    /\ Inner \subseteq Elements
    /\ \A e \in Elements : \A f \in Targets(e) : e \in Inner <=> f \in Inner
    /\ Body \in [{e \in Elements : Kind[e] = "embedded"} -> Inner]
    /\ StartEvent \in Elements \ Inner
    /\ \A e \in {StartEvent} \cup {Body[d] : d \in DOMAIN Body} : Kind[e] = "startEvent"
    /\ MaxFaults \in Nat
ASSUME TokensAssumption

Row == [status: {"NONE", "RUNNING", "COMPLETED", "CANCELLED"},
        at: Elements \cup {NoElement}, version: Nat]

Token == [gateway: Elements, born: Elements, at: Elements,
          status: {"ACTIVE", "WAITING", "CONSUMED", "CANCELLED"}]

\* What a call of the runner returns: not halted, or halted and why
Results == {"going", "userTask", "serviceTask", "subProcess", "join", "completed"}

Branch == [to: Elements, token: Nat]

\* What a walk passes without halting
Passed == {"startEvent", "exclusive", "fork", "inclusive", "join", "endEvent", "terminate"}

\* What splits the walk, and the gateways followFlow leaves a second time
Forks == {"fork", "inclusive"}
Gateways == Forks \cup {"exclusive"}

\* A call that waits: followFlow in its loop (again: for advanceFrom),
\* handleParallelFork, enterSubProcess
Frame == [call: {"followFlow"}, element: Elements, token: Nat, again: BOOLEAN]
    \cup [call: {"fork"}, rest: Seq(Branch), res: Results, row: Row]
    \cup [call: {"embedded"}, element: Elements, token: Nat, row: Row]

Init ==
    /\ instance = [status |-> "NONE", at |-> NoElement, version |-> 0]
    /\ open = [e \in Tasks |-> "none"]
    /\ tokens = <<>>
    /\ pc = [p \in Requests |-> "idle"]
    /\ row = [p \in Requests |-> instance]
    /\ at = [p \in Requests |-> NoElement]
    /\ token = [p \in Requests |-> NoToken]
    /\ stack = [p \in Requests |-> <<>>]
    /\ res = [p \in Requests |-> "going"]
    /\ terminated = FALSE
    /\ uprooted = FALSE
    /\ torn = {}
    /\ faults = 0

-----------------------------------------------------------------------------
(* Helpers *)

Goto(p, l) == pc' = [pc EXCEPT ![p] = l]
Top(p) == Head(stack[p])
Push(p, f) == stack' = [stack EXCEPT ![p] = <<f>> \o @]
Pop(p) == stack' = [stack EXCEPT ![p] = Tail(@)]

\* The walk goes on at e with token t, or returns r to the call on the stack.
RunTo(p, e, t) ==
    /\ at' = [at EXCEPT ![p] = e]
    /\ token' = [token EXCEPT ![p] = t]
    /\ Goto(p, "enter")

Return(p, r) == res' = [res EXCEPT ![p] = r] /\ Goto(p, "return")

\* The tokens in the hands of a request: the one it carries and those below
FrameTokens(f) == IF f.call = "fork" THEN {f.rest[i].token : i \in DOMAIN f.rest} ELSE {f.token}
StackTokens(s) == UNION {FrameTokens(s[i]) : i \in DOMAIN s}
Held(p) == {token[p]} \cup StackTokens(stack[p])

Forget(p) ==
    /\ Goto(p, "idle")
    /\ row' = [row EXCEPT ![p] = [status |-> "NONE", at |-> NoElement, version |-> 0]]
    /\ at' = [at EXCEPT ![p] = NoElement]
    /\ token' = [token EXCEPT ![p] = NoToken]
    /\ stack' = [stack EXCEPT ![p] = <<>>]
    /\ res' = [res EXCEPT ![p] = "going"]

\* The request throws; the rows it wrote stay.
Throw(p) == Forget(p) /\ torn' = torn \cup (Held(p) \ {NoToken})

\* The tokens the repository returns as active
Live == {t \in DOMAIN tokens : tokens[t].status \in {"ACTIVE", "WAITING"}}

\* What is to become of some tokens
Marked(taken, s) ==
    [t \in DOMAIN tokens |-> IF t \in taken THEN [tokens[t] EXCEPT !.status = s] ELSE tokens[t]]

Cancelled == Marked(Live, "CANCELLED")

\* How many flows lead to an element
Incoming(e) ==
    LET flows == UNION {{<<d, i>> : i \in DOMAIN Flows[d]} : d \in Elements}
    IN  Cardinality({f \in flows : Flows[f[1]][f[2]] = e})

-----------------------------------------------------------------------------
(* Requests *)

Start(p) ==
    /\ pc[p] = "idle"
    /\ instance.status = "NONE"
    /\ instance' = [instance EXCEPT !.status = "RUNNING"]
    /\ row' = [row EXCEPT ![p] = instance']
    /\ RunTo(p, StartEvent, NoToken)
    /\ UNCHANGED <<open, tokens, stack, res, history, faults>>

\* completeUserTask up to its conditional update of the inbox row
ReadTask(p, e) ==
    /\ pc[p] = "idle"
    /\ Kind[e] = "userTask" /\ open[e] = "open"
    /\ instance.status = "RUNNING"
    /\ row' = [row EXCEPT ![p] = instance]
    /\ at' = [at EXCEPT ![p] = e]
    /\ Goto(p, "inbox")
    /\ UNCHANGED <<instance, open, tokens, token, stack, res, history, faults>>

\* A task inside an embedded definition is completed in the inbox and then
\* not found.
CompleteInbox(p) ==
    /\ pc[p] = "inbox"
    /\ open' = [open EXCEPT ![at[p]] = "done"]
    /\ \/ /\ open[at[p]] = "open" /\ at[p] \notin Inner
          /\ Goto(p, "leave")
          /\ UNCHANGED <<walk, torn>>
       \/ (open[at[p]] = "done" \/ at[p] \in Inner) /\ Throw(p)
    /\ UNCHANGED <<instance, tokens, terminated, uprooted, faults>>

\* A worker takes the job and calls completeServiceTask, which does not look
\* at the status.  Inside an embedded definition the task is not found.
RunJob(p, e) ==
    /\ pc[p] = "idle"
    /\ Kind[e] = "serviceTask" /\ open[e] = "open"
    /\ open' = [open EXCEPT ![e] = "done"]
    /\ \/ /\ e \notin Inner
          /\ row' = [row EXCEPT ![p] = instance]
          /\ at' = [at EXCEPT ![p] = e]
          /\ Goto(p, "leave")
       \/ e \in Inner /\ UNCHANGED <<pc, row, at>>
    /\ UNCHANGED <<instance, tokens, token, stack, res, history, faults>>

\* cancelWorkflow takes the tokens first and the instance after.
Cancel(p) ==
    /\ pc[p] = "idle"
    /\ instance.status = "RUNNING"
    /\ row' = [row EXCEPT ![p] = [instance EXCEPT !.status = "CANCELLED"]]
    /\ Goto(p, "cancel")
    /\ UNCHANGED <<instance, open, tokens, at, token, stack, res, history, faults>>

CancelTokens(p) ==
    /\ pc[p] = "cancel"
    /\ tokens' = Cancelled
    /\ uprooted' = TRUE
    /\ Goto(p, "persist")
    /\ UNCHANGED <<instance, open, walk, terminated, torn, faults>>

-----------------------------------------------------------------------------
(* The walk *)

\* runToHalt: enterElement, and for what does not halt completeElement
Enter(p) ==
    LET e == at[p]
        entered == [row EXCEPT ![p].at = e]
    IN
    /\ pc[p] = "enter"
    /\ \/ /\ Kind[e] \in Passed \/ (Kind[e] = "subProcess" /\ row[p].status # "RUNNING")
          /\ row' = entered
          /\ Goto(p, "leave")
          /\ UNCHANGED <<open, at, token, stack, res, torn>>
       \/ /\ e \in Tasks
          /\ Kind[e] = "userTask" => open[e] = "none"
          /\ open' = [open EXCEPT ![e] = IF @ = "none" THEN "open" ELSE @]
          /\ row' = entered
          /\ Return(p, Kind[e])
          /\ UNCHANGED <<at, token, stack, torn>>
       \/ /\ Kind[e] = "userTask" /\ open[e] # "none"
          /\ Throw(p)
          /\ UNCHANGED open
       \/ /\ Kind[e] = "subProcess" /\ row[p].status = "RUNNING"
          /\ row' = entered
          /\ Return(p, "subProcess")
          /\ UNCHANGED <<open, at, token, stack, torn>>
       \/ /\ Kind[e] = "embedded"
          /\ row' = entered
          /\ Push(p, [call |-> "embedded", element |-> e, token |-> token[p], row |-> entered[p]])
          /\ RunTo(p, Body[e], NoToken)
          /\ UNCHANGED <<open, res, torn>>
    /\ UNCHANGED <<instance, tokens, terminated, uprooted, faults>>

\* What is left along one flow
Followed == {"startEvent", "exclusive", "embedded", "subProcess", "userTask", "serviceTask"}

\* A token is moved whatever has become of it.
Moved(t, e, s) ==
    IF t = NoToken THEN tokens ELSE [tokens EXCEPT ![t] = [@ EXCEPT !.at = e, !.status = s]]

\* followFlow along one of the flows, the conditions choose which
Follow(p) ==
    /\ pc[p] = "leave"
    /\ Kind[at[p]] \in Followed
    /\ \E f \in Targets(at[p]) :
         /\ tokens' = Moved(token[p], f, "ACTIVE")
         /\ Push(p, [call |-> "followFlow", element |-> f, token |-> token[p], again |-> FALSE])
         /\ RunTo(p, f, token[p])
    /\ UNCHANGED <<instance, open, row, res, history, faults>>

\* A task that leads nowhere halts the walk where it is.
StayAtTask(p) ==
    /\ pc[p] = "leave"
    /\ at[p] \in Tasks /\ Targets(at[p]) = {}
    /\ Return(p, Kind[at[p]])
    /\ UNCHANGED <<instance, open, tokens, row, at, token, stack, history, faults>>

\* No flow leads on, or there is a choice and no condition holds.
NoFlow(p) ==
    /\ pc[p] = "leave"
    /\ \/ Kind[at[p]] \in Followed \cup Forks /\ at[p] \notin Tasks /\ Targets(at[p]) = {}
       \/ Kind[at[p]] \in {"exclusive", "inclusive"}
       \/ Kind[at[p]] \in Followed /\ Len(Flows[at[p]]) > 1
    /\ Throw(p)
    /\ UNCHANGED <<instance, open, tokens, terminated, uprooted, faults>>

\* Mutations: every branch runs with the first token, or with the next one's.
BranchesOfFirst(targets, n) == [i \in DOMAIN targets |-> [to |-> targets[i], token |-> n + 1]]
BranchesOfNext(targets, n) == [i \in DOMAIN targets |-> [to |-> targets[i], token |-> n + i + 1]]

\* The branches of a fork, with the tokens after the n there are
Branches(targets, n) == [i \in DOMAIN targets |-> [to |-> targets[i], token |-> n + i]]

\* The ways to pick n of m, in order
Picks(n, m) == {f \in [1 .. n -> 1 .. m] : \A i, j \in 1 .. n : i < j => f[i] < f[j]}

\* The flows a fork takes: all, or those whose condition holds
Splits(e) ==
    LET m == Len(Flows[e]) IN
    IF Kind[e] = "fork" THEN {Flows[e]}
    ELSE UNION {{[i \in 1 .. n |-> Flows[e][f[i]]] : f \in Picks(n, m)} : n \in 1 .. m}

\* handleParallelFork: one token for each flow, and the first branch
Fork(p) ==
    /\ pc[p] = "leave"
    /\ Kind[at[p]] \in Forks /\ Targets(at[p]) # {}
    /\ \E targets \in Splits(at[p]) :
         LET branches == Branches(targets, Len(tokens)) IN
         /\ tokens' = tokens \o [i \in DOMAIN targets |->
              [gateway |-> at[p], born |-> targets[i], at |-> targets[i], status |-> "ACTIVE"]]
         /\ Push(p, [call |-> "fork", rest |-> Tail(branches), res |-> "going", row |-> row[p]])
         /\ RunTo(p, Head(branches).to, Head(branches).token)
    /\ UNCHANGED <<instance, open, row, res, history, faults>>

\* markWaiting writes the element of the token as the fork made it.
MarkWaiting(p) ==
    /\ pc[p] = "leave"
    /\ Kind[at[p]] = "join"
    /\ tokens' = Moved(token[p], tokens[token[p]].born, "WAITING")
    /\ Goto(p, "join")
    /\ UNCHANGED <<instance, open, walk, history, faults>>

\* The tokens isJoinComplete counts
Arrived(e) == {t \in Live : tokens[t].gateway = e /\ tokens[t].at = e}

CheckJoin(p) ==
    LET e == at[p]
        taken == {t \in Live : tokens[t].at = e}
        f == Flows[e][1]
    IN
    /\ pc[p] = "join"
    /\ IF Cardinality(Arrived(e)) < Incoming(e)
       THEN Return(p, "join") /\ UNCHANGED <<tokens, row, at, token, stack, torn>>
       ELSE /\ tokens' = Marked(taken, "CONSUMED")
            /\ IF Len(Flows[e]) # 1 THEN Throw(p)
               ELSE /\ Push(p, [call |-> "followFlow", element |-> f, token |-> NoToken, again |-> FALSE])
                    /\ RunTo(p, f, NoToken)
                    /\ UNCHANGED <<row, res, torn>>
    /\ UNCHANGED <<instance, open, terminated, uprooted, faults>>

\* An end event consumes its token ...
Consume(p) ==
    /\ pc[p] = "leave"
    /\ Kind[at[p]] = "endEvent"
    /\ tokens' = Marked({token[p]}, "CONSUMED")
    /\ Goto(p, "ended")
    /\ UNCHANGED <<instance, open, walk, history, faults>>

\* Mutation: the count takes in the token just consumed.
MayCompleteWithOne == Cardinality(Live) <= 1

MayComplete == Live = {}

\* Mutation: an end event does not halt the walk while tokens are left.
EndResultGoing == "going"

EndResult == "completed"

\* ... and completes the instance when there is no other.
CheckEnd(p) ==
    /\ pc[p] = "ended"
    /\ row' = IF MayComplete THEN [row EXCEPT ![p].status = "COMPLETED"] ELSE row
    /\ Return(p, EndResult)
    /\ UNCHANGED <<instance, open, tokens, at, token, stack, history, faults>>

Terminate(p) ==
    /\ pc[p] = "leave"
    /\ Kind[at[p]] = "terminate"
    /\ tokens' = Cancelled
    /\ row' = [row EXCEPT ![p].status = "COMPLETED"]
    /\ Return(p, "completed")
    /\ terminated' = TRUE
    /\ UNCHANGED <<instance, open, at, token, stack, uprooted, torn, faults>>

-----------------------------------------------------------------------------
(* What the calls on the stack do with a result *)

\* followFlow returns what halted.
ReturnHalt(p) ==
    /\ pc[p] = "return" /\ stack[p] # <<>> /\ Top(p).call = "followFlow"
    /\ res[p] # "going" \/ (~Top(p).again /\ row[p].status = "COMPLETED")
    /\ Pop(p)
    /\ res' = [res EXCEPT ![p] = IF @ = "going" THEN "completed" ELSE @]
    /\ UNCHANGED <<instance, open, tokens, pc, row, at, token, history, faults>>

\* A fork all of whose branches ended is left once more ...
LeaveAgain(p) ==
    /\ pc[p] = "return" /\ stack[p] # <<>> /\ Top(p).call = "followFlow"
    /\ res[p] = "going" /\ ~Top(p).again /\ row[p].status # "COMPLETED"
    /\ Kind[Top(p).element] \in Gateways
    /\ stack' = [stack EXCEPT ![p] = <<[Top(p) EXCEPT !.again = TRUE]>> \o Tail(@)]
    /\ at' = [at EXCEPT ![p] = Top(p).element]
    /\ token' = [token EXCEPT ![p] = Top(p).token]
    /\ Goto(p, "leave")
    /\ UNCHANGED <<instance, open, tokens, row, res, history, faults>>

\* Where followFlow goes on after that: the element the walk came to last
NextElement(p) == row[p].at

\* ... and then the walk goes on there.
GoOn(p) ==
    /\ pc[p] = "return" /\ stack[p] # <<>> /\ Top(p).call = "followFlow"
    /\ res[p] = "going"
    /\ \/ Top(p).again
       \/ Kind[Top(p).element] \notin Gateways /\ row[p].status # "COMPLETED"
    /\ stack' = [stack EXCEPT ![p] =
         <<[Top(p) EXCEPT !.again = FALSE, !.element = NextElement(p)]>> \o Tail(@)]
    /\ RunTo(p, NextElement(p), Top(p).token)
    /\ UNCHANGED <<instance, open, tokens, row, res, history, faults>>

\* Mutation: the loop over the branches ends with the first that halts.
BranchesLeftUntilHalt(f) == IF f.res = "going" THEN f.rest ELSE <<>>

BranchesLeft(f) == f.rest

\* handleParallelFork keeps the last result that halted, with its copy of the
\* instance, and runs the next branch on the copy of the one before.
Collect(p) ==
    LET halts == res[p] \notin {"going", "completed"}
        f == IF halts THEN [Top(p) EXCEPT !.res = res[p], !.row = row[p]] ELSE Top(p)
        left == BranchesLeft(f)
    IN
    /\ pc[p] = "return" /\ stack[p] # <<>> /\ Top(p).call = "fork"
    /\ IF left # <<>>
       THEN /\ stack' = [stack EXCEPT ![p] = <<[f EXCEPT !.rest = Tail(left)]>> \o Tail(@)]
            /\ RunTo(p, Head(left).to, Head(left).token)
            /\ UNCHANGED <<row, res>>
       ELSE /\ Pop(p)
            /\ res' = [res EXCEPT ![p] = f.res]
            /\ row' = IF f.res = "going" THEN row ELSE [row EXCEPT ![p] = f.row]
            /\ UNCHANGED <<pc, at, token>>
    /\ UNCHANGED <<instance, open, tokens, history, faults>>

\* enterSubProcess takes the context of an embedded walk and nothing else.
LeaveEmbedded(p) ==
    /\ pc[p] = "return" /\ stack[p] # <<>> /\ Top(p).call = "embedded"
    /\ row' = [row EXCEPT ![p] = Top(p).row]
    /\ at' = [at EXCEPT ![p] = Top(p).element]
    /\ token' = [token EXCEPT ![p] = Top(p).token]
    /\ Pop(p)
    /\ Goto(p, "leave")
    /\ UNCHANGED <<instance, open, tokens, res, history, faults>>

\* The walk is over.
EndWalk(p) ==
    /\ pc[p] = "return" /\ stack[p] = <<>>
    /\ Goto(p, "persist")
    /\ UNCHANGED <<instance, open, tokens, walk, history, faults>>

\* updateWithVersion
Persist(p) ==
    /\ pc[p] = "persist"
    /\ \/ /\ row[p].version = instance.version
          /\ instance' = [row[p] EXCEPT !.version = @ + 1]
          /\ Forget(p)
          /\ UNCHANGED torn
       \/ /\ row[p].version # instance.version
          /\ Throw(p)
          /\ UNCHANGED instance
    /\ UNCHANGED <<open, tokens, terminated, uprooted, faults>>

Fail(p) ==
    /\ pc[p] # "idle"
    /\ faults < MaxFaults
    /\ faults' = faults + 1
    /\ Throw(p)
    /\ UNCHANGED <<instance, open, tokens, terminated, uprooted>>

\* What a request does by itself once it has begun
Proceed(p) ==
    \/ CompleteInbox(p) \/ CancelTokens(p)
    \/ Enter(p) \/ Follow(p) \/ StayAtTask(p) \/ NoFlow(p) \/ Fork(p)
    \/ MarkWaiting(p) \/ CheckJoin(p)
    \/ Consume(p) \/ CheckEnd(p) \/ Terminate(p)
    \/ ReturnHalt(p) \/ LeaveAgain(p) \/ GoOn(p)
    \/ Collect(p) \/ LeaveEmbedded(p) \/ EndWalk(p)
    \/ Persist(p)

Next ==
    \E p \in Requests :
        \/ Start(p) \/ Cancel(p)
        \/ \E e \in Tasks : ReadTask(p, e) \/ RunJob(p, e)
        \/ Proceed(p) \/ Fail(p)

Spec == Init /\ [][Next]_vars

\* The event loop goes on with every request.
FairSpec == Spec /\ \A p \in Requests : WF_vars(Proceed(p))

-----------------------------------------------------------------------------
(* Properties *)

TypeOK ==
    /\ instance \in Row
    /\ open \in [Tasks -> {"none", "open", "done"}]
    /\ tokens \in Seq(Token)
    /\ pc \in [Requests -> {"idle", "inbox", "cancel", "enter", "leave", "join",
                            "ended", "return", "persist"}]
    /\ row \in [Requests -> Row]
    /\ at \in [Requests -> Elements \cup {NoElement}]
    /\ token \in [Requests -> DOMAIN tokens \cup {NoToken}]
    /\ stack \in [Requests -> Seq(Frame)]
    /\ res \in [Requests -> Results]
    /\ terminated \in BOOLEAN /\ uprooted \in BOOLEAN
    /\ torn \subseteq DOMAIN tokens
    /\ faults \in 0 .. MaxFaults

\* Tokens are what keeps an instance from completing while a branch of it has
\* work: when it completes, by an end event that does not terminate and with
\* no cancel in between, none of its tasks is open.
NothingLeft ==
    instance.status = "COMPLETED" /\ ~terminated /\ ~uprooted =>
        \A e \in Tasks \ Inner : open[e] # "open"

\* No branch is forgotten: an active token that no walk carries, and none
\* that failed has dropped, stands at a task with its inbox row or job, at a
\* sub-process, or at a fork whose branches took over.
BranchesAccounted ==
    \A t \in DOMAIN tokens \ torn :
        tokens[t].status = "ACTIVE" /\ (\A p \in Requests : t \notin Held(p)) =>
            \/ Kind[tokens[t].at] \in {"subProcess", "fork", "inclusive"}
            \/ tokens[t].at \in Tasks /\ open[tokens[t].at] # "none"

\* A consumed token takes no part in anything again, in whatever walk.
ConsumedForGood ==
    [][\A t \in DOMAIN tokens : tokens[t].status = "CONSUMED" => tokens'[t].status = "CONSUMED"]_vars

\* The runner's loop comes to an end, also where it leaves a fork twice.
EveryWalkEnds == \A p \in Requests : pc[p] # "idle" ~> pc[p] = "idle"

-----------------------------------------------------------------------------
(* What the definition's schema says, and the code does not keep *)

\* "`join` waits for all incoming tokens": in a definition whose tasks all lead
\* to its joins, and with one request after the other, an instance all of whose
\* tasks are done is past them.
JoinPasses ==
    /\ \A p \in Requests : pc[p] = "idle"
    /\ \A e \in Tasks : open[e] = "done"
    => instance.at \notin {e \in Elements : Kind[e] = "join"}
-----------------------------------------------------------------------------
(* The inductive invariant *)

\* Frame i of a stack has an embedded one under it or is one.
Inside(s, i) == \E j \in DOMAIN s : j >= i /\ s[j].call = "embedded"

\* A walk can be at e, inside an embedded definition or not.
Reached(e, inside) ==
    /\ e \in Elements
    /\ e \in Inner <=> inside
    /\ Kind[e] = "join" => \E d \in Elements : e \in Targets(d)

\* A token's place: an element the walk is at, or the fork it was left at
StandsAt(t, e) == t = NoToken \/ tokens[t].at = e \/ Kind[tokens[t].at] \in Forks

\* Nobody has to carry the token: it is accounted for where it stands.
Placed(t) ==
    t # NoToken /\ tokens[t].status = "ACTIVE" =>
        \/ Kind[tokens[t].at] \in Forks \cup {"subProcess"}
        \/ tokens[t].at \in Tasks /\ open[tokens[t].at] # "none"

\* A fork or an embedded definition among frames i to j
Crossed(s, i, j) == \E k \in i .. j : s[k].call # "followFlow"

\* Tokens of frame i (0 for what runs on the stack) and of frame j differ.
Parted(s, i, j) == (i > 0 /\ s[i].call = "fork") \/ Crossed(s, i + 1, j)

\* No token and no embedded definition around: no fork around either
Alone(s, i, t) == t = NoToken /\ ~Inside(s, i) => \A j \in DOMAIN s : j >= i => s[j].call # "fork"

Walking(p) == pc[p] \in {"enter", "leave", "join", "ended"}

\* A result came back that lets the walk go on.
Back(p) == pc[p] = "return" /\ res[p] = "going"

\* Frame i is one the walk goes on in with its token.
Resumes(s, i, back) ==
    \/ s[i].call # "followFlow"
    \/ i = 1 /\ back
    \/ i > 1 /\ s[i - 1].call = "fork"

Resumed(s, back) == UNION {FrameTokens(s[i]) : i \in {k \in DOMAIN s : Resumes(s, k, back)}}

\* The tokens a request may still move or consume
Usable(p) ==
    (Resumed(stack[p], Back(p)) \cup {t \in {token[p]} : pc[p] \in {"enter", "leave"}}) \ {NoToken}

Clean == ~terminated /\ ~uprooted

\* What a frame says by itself
FrameOK(s, i) ==
    LET f == s[i] IN
    CASE f.call = "followFlow" -> Reached(f.element, Inside(s, i + 1))
      [] f.call = "fork" ->
           /\ \A k \in DOMAIN f.rest :
                /\ f.rest[k].token # NoToken
                /\ Reached(f.rest[k].to, Inside(s, i + 1))
                /\ \A l \in DOMAIN f.rest : f.rest[k].token = f.rest[l].token => k = l
           /\ f.res # "completed"
           /\ f.res # "going" => Reached(f.row.at, Inside(s, i + 1))
           /\ f.row.status # "NONE"
      [] f.call = "embedded" ->
           /\ Kind[f.element] = "embedded"
           /\ Reached(f.element, Inside(s, i + 1))
           /\ f.row.at = f.element
           /\ f.row.status # "NONE"

\* What runs with token t, at e, on frame f
CarriesOn(t, f) ==
    CASE f.call = "followFlow" -> t = f.token
      [] f.call = "fork" -> t # NoToken
      [] f.call = "embedded" -> t = NoToken

RunsOn(e, t, f) == CarriesOn(t, f) /\ (f.call = "followFlow" => e = f.element)

\* Frame f on frame g
FrameOn(f, g) ==
    CASE f.call = "fork" -> g.call = "followFlow" => Kind[g.element] \in Forks
      [] f.call = "embedded" -> RunsOn(f.element, f.token, g)
      [] f.call = "followFlow" -> CarriesOn(f.token, g)

Stacked(s, i) ==
    /\ i < Len(s) => FrameOn(s[i], s[i + 1])
    /\ s[i].call # "fork" => /\ i = Len(s) => s[i].token = NoToken
                             /\ Alone(s, i + 1, s[i].token)

StackOK(s) ==
    \A i \in DOMAIN s :
        /\ FrameOK(s, i)
        /\ Stacked(s, i)
        /\ \A j \in DOMAIN s : i < j /\ Parted(s, i, j) =>
             FrameTokens(s[i]) \cap FrameTokens(s[j]) \subseteq {NoToken}

\* Token t differs from those of the frames it is parted from.
Apart(t, s) == \A j \in DOMAIN s : Parted(s, 0, j) => t \notin FrameTokens(s[j]) \/ t = NoToken

\* What runs at e with token t on stack s
RunOK(e, t, s) ==
    /\ Reached(e, Inside(s, 1))
    /\ s = <<>> => t = NoToken
    /\ s # <<>> => RunsOn(e, t, s[1])
    /\ Alone(s, 1, t)

\* Where a request is
WalkOK(p) ==
    LET s == stack[p] IN
    /\ pc[p] \in {"idle", "inbox", "cancel", "persist"} => s = <<>>
    /\ pc[p] \in {"idle", "inbox", "cancel"} => token[p] = NoToken
    /\ pc[p] = "inbox" => at[p] \in Tasks
    /\ pc[p] # "idle" => row[p].status # "NONE"
    /\ pc[p] \in {"inbox", "cancel"} => row[p].status # "COMPLETED"
    /\ Walking(p) => RunOK(at[p], token[p], s)
    /\ pc[p] = "leave" /\ at[p] \in Tasks => s = <<>>
    /\ pc[p] = "leave" /\ Kind[at[p]] = "endEvent" => row[p].at = at[p]
    /\ pc[p] = "join" => Kind[at[p]] = "join"
    /\ pc[p] = "ended" => Kind[at[p]] = "endEvent" /\ row[p].at = at[p]
    /\ pc[p] \in {"join", "ended", "leave", "return"} /\ s # <<>> => Reached(row[p].at, Inside(s, 1))
    /\ Apart(token[p], s)
    /\ Back(p) /\ s # <<>> /\ s[1].call = "followFlow" => Kind[s[1].element] \in Forks

\* A frame the walk goes on in finds its tokens where it left them.
FrameStands(f) ==
    CASE f.call = "followFlow" -> f.token = NoToken \/ Kind[tokens[f.token].at] \in Forks
      [] f.call = "fork" -> \A k \in DOMAIN f.rest : StandsAt(f.rest[k].token, f.rest[k].to)
      [] f.call = "embedded" -> StandsAt(f.token, f.element)

\* Where the tokens in its hands are
CarryOK(p) ==
    LET s == stack[p] IN
    /\ pc[p] \in {"enter", "leave"} => StandsAt(token[p], at[p])
    /\ pc[p] \in {"join", "ended", "return", "persist"} => Placed(token[p])
    /\ pc[p] = "return" /\ s # <<>> /\ s[1].call = "followFlow" => Placed(s[1].token)
    /\ \A i \in DOMAIN s : Resumes(s, i, Back(p)) => FrameStands(s[i])
    /\ \A t \in Usable(p) : tokens[t].status # "CONSUMED"

\* Nobody carries another's token, and what nobody carries is accounted for.
TokensApart ==
    /\ \A p, q \in Requests : p # q => Held(p) \cap Held(q) \subseteq {NoToken}
    /\ \A p \in Requests : Held(p) \subseteq DOMAIN tokens \cup {NoToken}

\* The gateway of a token is a fork.
ForkedByForks == \A t \in DOMAIN tokens : Kind[tokens[t].gateway] \in Forks

\* A request that may yet enter another element, or complete
Going(p) ==
    \/ Walking(p)
    \/ /\ pc[p] = "return"
       /\ \/ res[p] \in {"going", "completed"}
          \/ \E i \in DOMAIN stack[p] : stack[p][i].call # "followFlow"

OpenTasks == {e \in Tasks \ Inner : open[e] = "open"}

\* A live token that nobody will move or consume any more
Stuck == \E t \in Live : \A p \in Requests : t \notin Usable(p)

\* Control is in one place: a request that goes on, or an open task.
OneControl ==
    /\ \A p, q \in Requests : Going(p) /\ Going(q) => p = q
    /\ \A p \in Requests : Going(p) => OpenTasks = {}
    /\ \A d, e \in OpenTasks : d = e

\* A request that found the instance complete and has not said so yet
Completing(p) == pc[p] # "idle" /\ row[p].status = "COMPLETED"

\* None of the copies of the instance on a stack is complete.
SavedOK(s) ==
    \A i \in DOMAIN s :
        LET f == s[i] IN
        f.call = "embedded" \/ (f.call = "fork" /\ f.res # "going") => f.row.status # "COMPLETED"

\* It is at an end event, and on its way back from there.
Ending(p) ==
    /\ Usable(p) = {}
    /\ pc[p] \in {"enter", "leave", "ended", "return", "persist"}
    /\ pc[p] \in {"enter", "leave"} => Kind[at[p]] = "endEvent"
    /\ pc[p] = "return" => Kind[row[p].at] = "endEvent" /\ res[p] \in {"going", "completed"}

CompletingOK(p) ==
    /\ OpenTasks = {}
    /\ \A q \in Requests \ {p} : ~Going(q)
    /\ Ending(p)

\* Only tokens taken all at once hide what is left.
ControlKept ==
    /\ instance.status = "NONE" => /\ \A p \in Requests : pc[p] = "idle"
                                   /\ OpenTasks = {}
    /\ Clean =>
         /\ \A t \in DOMAIN tokens : tokens[t].status # "CANCELLED"
         /\ Stuck \/ OneControl
         /\ \A p \in Requests : SavedOK(stack[p]) /\ (Completing(p) => CompletingOK(p))
         /\ instance.status = "COMPLETED" => OpenTasks = {} /\ \A p \in Requests : ~Going(p)

IInv ==
    /\ TypeOK
    /\ \A p \in Requests : StackOK(stack[p]) /\ WalkOK(p) /\ CarryOK(p)
    /\ TokensApart
    /\ ForkedByForks
    /\ BranchesAccounted
    /\ ControlKept
=============================================================================
