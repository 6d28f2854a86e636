---------------------- MODULE WorkflowOrchestratorProofs ----------------------
(***************************************************************************)
(* Proofs about WorkflowOrchestrator, for every set of elements, users,    *)
(* requests and workers and every bound: the type invariant, the inductive *)
(* invariant IInv part by part, and the safety properties it implies.      *)
(***************************************************************************)
EXTENDS WorkflowOrchestrator, TLAPS

(* The kinds of step a behaviour takes, to split a proof on.               *)
ArrivalStep ==
  \/ \E p \in Clients : Arrive(p)
  \/ \E p \in Workers, s \in ServiceTasks : TakeJob(p, s)

QueueStep ==
  \/ \E s \in ServiceTasks : Stall(s)
  \/ \E e \in UserTasks : FireTimer(e) \/ CheckEscalation(e) \/ Escalate(e)

(* Records with some fields replaced are records still.                    *)
LEMMA JobUpdate ==
  ASSUME NEW j \in Job, NEW x \in {"waiting", "active", "completed", "failed"},
         NEW o \in Workers \cup {NoWorker}, NEW n \in Nat
  PROVE  /\ [j EXCEPT !.state = x, !.owner = o] \in Job
         /\ [j EXCEPT !.state = x, !.attempts = n, !.owner = o] \in Job
         /\ [j EXCEPT !.state = x, !.stalls = n, !.owner = o] \in Job
  BY DEF Job

(* What the queue makes of a job is a job that was not absent.             *)
LEMMA JobAfterType ==
  ASSUME NEW j \in Job, NEW verdict
  PROVE  JobAfter(j, verdict) \in Job /\ JobAfter(j, verdict).state # "absent"
<1> DEFINE n == j.attempts + 1
<1>1. n \in Nat /\ NoWorker \in Workers \cup {NoWorker}
  BY DEF Job
<1> DEFINE done == [j EXCEPT !.state = "completed", !.owner = NoWorker]
           again == [j EXCEPT !.state = "waiting", !.attempts = n, !.owner = NoWorker]
           over == [j EXCEPT !.state = "failed", !.attempts = n, !.owner = NoWorker]
<1>2. JobAfter(j, verdict) \in {done, again, over}
  BY DEF JobAfter, Job
<1> HIDE DEF n
<1>3. done \in Job /\ again \in Job /\ over \in Job
  BY <1>1, JobUpdate
<1>4. done.state = "completed" /\ again.state = "waiting" /\ over.state = "failed"
  BY DEF Job
<1> HIDE DEF done, again, over
<1> QED
  BY <1>2, <1>3, <1>4

LEMMA StalledType ==
  ASSUME NEW j \in Job
  PROVE  Stalled(j) \in Job /\ Stalled(j).state # "absent"
<1> DEFINE n == j.stalls + 1
<1>1. n \in Nat /\ NoWorker \in Workers \cup {NoWorker}
  BY DEF Job
<1> DEFINE again == [j EXCEPT !.state = "waiting", !.stalls = n, !.owner = NoWorker]
           over == [j EXCEPT !.state = "failed", !.owner = NoWorker]
<1>2. Stalled(j) \in {again, over}
  BY DEF Stalled, Job
<1> HIDE DEF n
<1>3. again \in Job /\ over \in Job
  BY <1>1, JobUpdate
<1>4. again.state = "waiting" /\ over.state = "failed"
  BY DEF Job
<1> HIDE DEF again, over
<1> QED
  BY <1>2, <1>3, <1>4

(* A verdict on a job, and the end of a request, keep the types.           *)
LEMMA TypeSettle ==
  ASSUME TypeOK, NEW p \in Procs, NEW verdict, Settle(p, verdict)
  PROVE  jobs' \in [ServiceTasks -> Job]
<1>1. \A s \in ServiceTasks : JobAfter(jobs[s], verdict) \in Job
  BY JobAfterType DEF TypeOK
<1> QED
  BY <1>1 DEF Settle, TypeOK

LEMMA TypeRetire ==
  ASSUME TypeOK, NEW p \in Procs, Retire(p)
  PROVE  /\ pc' \in [Procs -> Steps]
         /\ req' \in [Procs -> Request]
         /\ at' \in [Procs -> Elements \cup {NoElement}]
         /\ task' \in [Procs -> InboxRow]
         /\ base' \in [Procs -> InstanceRow]
         /\ result' \in [Procs -> InstanceRow]
<1>1. NoInstance \in InstanceRow /\ NoTask \in InboxRow /\ NoRequest \in Request
  BY DEF NoInstance, InstanceRow, NoTask, InboxRow, NoRequest, Request, Kinds
<1> QED
  BY <1>1 DEF Retire, TypeOK, Steps

(* Variables keep their types: the base fact of every other proof.         *)
LEMMA TypeInit == Init => TypeOK
<1> SUFFICES ASSUME Init PROVE TypeOK
  OBVIOUS
<1>1. NoInstance \in InstanceRow /\ NoTask \in InboxRow /\ NoJob \in Job /\ NoRequest \in Request
  BY DEF NoInstance, InstanceRow, NoTask, InboxRow, NoJob, Job, NoRequest, Request, Kinds
<1> QED
  BY <1>1 DEF Init, TypeOK, Steps, NoInstance, NoTask, NoJob, NoRequest

(* The same, for a step of a client, of the queue, or of any request.      *)
LEMMA TypeArrival == TypeOK /\ ArrivalStep => TypeOK'
<1> SUFFICES ASSUME TypeOK, ArrivalStep PROVE TypeOK'
  OBVIOUS
<1> USE DEF TypeOK, Begin, Steps, Kinds, Request, rows, history, Procs
<1>0. NoInstance \in InstanceRow /\ NoTask \in InboxRow /\ NoJob \in Job /\ NoRequest \in Request
  BY DEF NoInstance, InstanceRow, NoTask, InboxRow, NoJob, Job, NoRequest
<1>1. ASSUME NEW p \in Clients, StartWorkflow(p) PROVE TypeOK'
  <2> DEFINE row == [NoInstance EXCEPT !.status = "Running"]
             new == [row EXCEPT !.element = StartEvent]
             r == [NoRequest EXCEPT !.kind = "start"]
  <2>1. row \in InstanceRow /\ new \in InstanceRow
    BY DEF NoInstance, InstanceRow, Elements
  <2>2. r \in Request
    BY DEF NoRequest
  <2>3. StartEvent \in Elements
    BY DEF Elements
  <2> HIDE DEF row, new, r
  <2> QED
    BY <1>0, <1>1, <2>1, <2>2, <2>3 DEF StartWorkflow, row, new, r
<1>2. ASSUME NEW p \in Clients, NEW e \in UserTasks, NEW u \in Users,
             NEW k \in {<<e, u>>} \cup ClientKeys, RequestComplete(p, e, u, k)
      PROVE TypeOK'
  <2>1. e \in Elements /\ k \in Keys
    BY DEF Elements, Keys, DefaultKeys
  <2> QED
    BY <1>0, <1>2, <2>1 DEF RequestComplete
<1>3. ASSUME NEW p \in Clients, NEW e \in UserTasks, NEW u \in Users, RequestClaim(p, e, u)
      PROVE TypeOK'
  BY <1>0, <1>3 DEF RequestClaim, Elements
<1>4. ASSUME NEW p \in Clients, NEW e \in UserTasks, NEW u \in Users, NEW v \in Users,
             RequestDelegate(p, e, u, v)
      PROVE TypeOK'
  BY <1>0, <1>4 DEF RequestDelegate, Elements
<1>5. ASSUME NEW p \in Clients, RequestCancel(p) PROVE TypeOK'
  <2>1. [instance EXCEPT !.status = "Cancelled"] \in InstanceRow
    BY DEF InstanceRow, Terminal
  <2>2. [NoRequest EXCEPT !.kind = "cancel"] \in Request
    BY DEF NoRequest
  <2> QED
    BY <1>0, <1>5, <2>1, <2>2 DEF RequestCancel
<1>6. ASSUME NEW p \in Clients, NEW e \in Elements, RequestSkip(p, e) PROVE TypeOK'
  <2>1. [NoRequest EXCEPT !.kind = "skip", !.elem = e] \in Request
    BY DEF NoRequest
  <2> QED
    BY <1>0, <1>6, <2>1 DEF RequestSkip
<1>7. ASSUME NEW p \in Workers, NEW s \in ServiceTasks, TakeJob(p, s) PROVE TypeOK'
  <2>1. [jobs[s] EXCEPT !.state = "active", !.owner = p] \in Job
    BY JobUpdate
  <2> QED
    BY <1>0, <1>7, <2>1 DEF TakeJob, Elements, Keys
<1> QED
  BY <1>1, <1>2, <1>3, <1>4, <1>5, <1>6, <1>7 DEF ArrivalStep, Arrive

LEMMA TypeQueue == TypeOK /\ QueueStep => TypeOK'
<1> SUFFICES ASSUME TypeOK, QueueStep PROVE TypeOK'
  OBVIOUS
<1> USE DEF TypeOK, locals, history
<1>1. ASSUME NEW s \in ServiceTasks, Stall(s) PROVE TypeOK'
  <2>1. Stalled(jobs[s]) \in Job
    BY StalledType
  <2>2. faults' \in Nat
    BY <1>1 DEF Stall, Inject
  <2> QED
    BY <1>1, <2>1, <2>2 DEF Stall
<1>2. ASSUME NEW e \in UserTasks, FireTimer(e) \/ CheckEscalation(e) PROVE TypeOK'
  BY <1>2 DEF FireTimer, CheckEscalation
<1>3. ASSUME NEW e \in UserTasks, Escalate(e) PROVE TypeOK'
  BY <1>3 DEF Escalate, EventTypes, Elements
<1> QED
  BY <1>1, <1>2, <1>3 DEF QueueStep

LEMMA TypeProceed == TypeOK /\ Shape /\ (\E p \in Procs : Proceed(p)) => TypeOK'
<1> SUFFICES ASSUME TypeOK, Shape, NEW p \in Procs, Proceed(p) PROVE TypeOK'
  OBVIOUS
<1>a. ASSUME NEW verdict, Retire(p), Settle(p, verdict),
             UNCHANGED <<instance, timers, reopenings, faults>>,
             inbox' \in [UserTasks -> InboxRow],
             keys' \in [Keys -> {"free", "claimed", "completed"}],
             outbox' \subseteq EventTypes \X (Elements \cup {NoElement}),
             completions' \in [UserTasks -> Nat]
      PROVE  TypeOK'
  BY <1>a, TypeSettle, TypeRetire DEF TypeOK
<1> USE DEF TypeOK, Return, Throw, Goto, Steps, history, locals, rows
<1>1. CASE FindByKey(p) \/ Execute(p)
  BY <1>1, <1>a DEF FindByKey, Execute
<1>2. CASE ClaimKey(p)
  BY <1>2, <1>a DEF ClaimKey
<1>3. CASE CompleteKey(p)
  BY <1>3, <1>a DEF CompleteKey
<1>4. CASE LoadForTask(p)
  <2>1. CASE Throw(p)
    BY <1>4, <2>1, <1>a DEF LoadForTask
  <2>2. CASE Load(p, [instance EXCEPT !.forms = @ \cup {req[p].elem}], "completeInbox")
    <3>1. req[p].elem \in UserTasks
      BY <1>4 DEF LoadForTask, Shape, ShapeOf
    <3>2. [instance EXCEPT !.forms = @ \cup {req[p].elem}] \in InstanceRow
      BY <3>1 DEF InstanceRow
    <3> QED
      BY <1>4, <2>2, <3>2 DEF LoadForTask, Load, Request
  <2> QED
    BY <1>4, <2>1, <2>2 DEF LoadForTask
<1>5. CASE LoadForService(p)
  BY <1>5 DEF LoadForService, Load, Request
<1>6. CASE CompleteInbox(p)
  <2>1. CASE inbox[req[p].elem].status = task[p].status
    <3>1. inbox' \in [UserTasks -> InboxRow]
      <4>1. req[p].elem \in UserTasks
        BY <1>6 DEF CompleteInbox, Shape, ShapeOf
      <4>2. [inbox[req[p].elem] EXCEPT !.status = "Completed"] \in InboxRow
        BY <4>1 DEF InboxRow
      <4>3. inbox' = [inbox EXCEPT ![req[p].elem] = [inbox[req[p].elem] EXCEPT !.status = "Completed"]]
        BY <1>6, <2>1 DEF CompleteInbox
      <4> QED
        BY <4>1, <4>2, <4>3
    <3>2. completions' \in [UserTasks -> Nat]
      BY <1>6, <2>1 DEF CompleteInbox
    <3> QED
      BY <1>6, <2>1, <3>1, <3>2 DEF CompleteInbox
  <2>2. CASE inbox[req[p].elem].status # task[p].status
    BY <1>6, <2>2, <1>a DEF CompleteInbox
  <2> QED
    BY <2>1, <2>2
<1>7. CASE ClaimInbox(p) \/ DelegateInbox(p)
  <2> DEFINE e == req[p].elem
             row(x) == [status |-> x, assignee |-> req[p].user]
  <2>1. row("Claimed") \in InboxRow /\ row("Pending") \in InboxRow
    BY DEF InboxRow, Request
  <2>2. inbox' \in {inbox, [inbox EXCEPT ![e] = row("Claimed")], [inbox EXCEPT ![e] = row("Pending")]}
    BY <1>7 DEF ClaimInbox, DelegateInbox
  <2>3. inbox' \in [UserTasks -> InboxRow]
    <3> HIDE DEF row
    <3> QED
      BY <2>1, <2>2
  <2>4. reopenings' \in [UserTasks -> Nat]
    BY <1>7 DEF ClaimInbox, DelegateInbox
  <2> QED
    BY <1>7, <2>3, <2>4, TypeRetire DEF ClaimInbox, DelegateInbox
<1>8. ASSUME NEW t \in Elements, PassGateway(p, t) PROVE TypeOK'
  BY <1>8 DEF PassGateway, Enter, InstanceRow
<1>9. ASSUME NEW t \in UserTasks, EnterUserTask(p, t) PROVE TypeOK'
  <2>1. CASE inbox[t].status = "absent"
    <3>1. [status |-> "Pending", assignee |-> Assignee[t]] \in InboxRow
      BY ActorAssumption DEF InboxRow
    <3>2. [result[p] EXCEPT !.element = t] \in InstanceRow
      BY DEF InstanceRow, Elements
    <3>3. t \in Elements
      BY DEF Elements
    <3> QED
      BY <1>9, <2>1, <3>1, <3>2, <3>3 DEF EnterUserTask, Enter
  <2>2. CASE inbox[t].status # "absent"
    BY <1>9, <2>2, <1>a DEF EnterUserTask
  <2> QED
    BY <2>1, <2>2
<1>10. CASE ScheduleSla(p) \/ AnnounceTask(p)
  <2>1. timers' \in [UserTasks -> {"none", "scheduled", "escalating", "due", "escalated", "skipped"}]
    BY <1>10 DEF ScheduleSla, AnnounceTask
  <2>2. outbox' \subseteq EventTypes \X (Elements \cup {NoElement})
    BY <1>10 DEF ScheduleSla, AnnounceTask, EventTypes
  <2> QED
    BY <1>10, <2>1, <2>2 DEF ScheduleSla, AnnounceTask
<1>11. ASSUME NEW s \in ServiceTasks, EnterServiceTask(p, s) PROVE TypeOK'
  <2>1. jobs' \in [ServiceTasks -> Job]
    BY <1>11 DEF EnterServiceTask, Job
  <2> QED
    BY <1>11, <2>1 DEF EnterServiceTask, Enter, InstanceRow, Elements
<1>12. ASSUME NEW t \in EndEvents, EnterEndEvent(p, t) PROVE TypeOK'
  <2>1. [result[p] EXCEPT !.element = t, !.status = "Completed"] \in InstanceRow
    BY DEF InstanceRow, Elements, Terminal
  <2> QED
    BY <1>12, <2>1 DEF EnterEndEvent, EventTypes, Elements
<1>13. CASE DeadEnd(p)
  BY <1>13, <1>a DEF DeadEnd
<1>14. CASE Persist(p)
  <2>1. CASE instance.version # base[p].version
    BY <1>14, <2>1, <1>a DEF Persist
  <2>2. CASE instance.version = base[p].version
    <3> DEFINE n == base[p].version + 1
    <3>1. n \in Nat
      BY DEF InstanceRow
    <3> HIDE DEF n
    <3>2. [result[p] EXCEPT !.version = n] \in InstanceRow
      BY <3>1 DEF InstanceRow
    <3> QED
      BY <1>14, <2>2, <3>2, TypeRetire DEF Persist, AfterPersist, n
  <2> QED
    BY <2>1, <2>2
<1>15. CASE AnnounceCancel(p)
  BY <1>15, TypeRetire DEF AnnounceCancel, EventTypes
<1> QED
  BY <1>1, <1>2, <1>3, <1>4, <1>5, <1>6, <1>7, <1>8, <1>9, <1>10, <1>11, <1>12,
     <1>13, <1>14, <1>15 DEF Proceed

LEMMA TypeFault == TypeOK /\ (\E p \in Procs : Reject(p) \/ Crash(p)) => TypeOK'
<1> SUFFICES ASSUME TypeOK, NEW p \in Procs, Reject(p) \/ Crash(p) PROVE TypeOK'
  OBVIOUS
<1>1. CASE Reject(p)
  <2> PICK verdict \in {"retry", "fail"} : Settle(p, verdict)
    BY <1>1 DEF Reject
  <2> QED
    BY <1>1, TypeSettle, TypeRetire DEF Reject, Inject, history, TypeOK
<1>2. CASE Crash(p)
  BY <1>2, TypeRetire DEF Crash, Inject, history, rows, TypeOK
<1> QED
  BY <1>1, <1>2

(* Every step keeps the types.                                             *)
LEMMA TypeStep == TypeOK /\ Shape /\ [Next]_vars => TypeOK'
<1> SUFFICES ASSUME TypeOK, Shape, [Next]_vars PROVE TypeOK'
  OBVIOUS
<1>1. CASE UNCHANGED vars
  BY <1>1 DEF TypeOK, vars, rows, locals, history
<1> QED
  BY <1>1, TypeArrival, TypeQueue, TypeProceed, TypeFault DEF Next, ArrivalStep, QueueStep

-----------------------------------------------------------------------------
(* A step of one request, and what it leaves alone.                        *)

ProcStep(p) ==
  \/ p \in Clients /\ Arrive(p)
  \/ p \in Workers /\ \E s \in ServiceTasks : TakeJob(p, s)
  \/ Proceed(p) \/ Reject(p) \/ Crash(p)

LEMMA NextSplit == Next => QueueStep \/ \E p \in Procs : ProcStep(p)
  BY DEF Next, QueueStep, ProcStep, Procs

SameLocals(q) ==
  /\ pc'[q] = pc[q] /\ req'[q] = req[q] /\ at'[q] = at[q]
  /\ task'[q] = task[q] /\ base'[q] = base[q] /\ result'[q] = result[q]

(* A request's locals are its own.                                         *)
LEMMA Frame ==
  ASSUME TypeOK, NEW p \in Procs, ProcStep(p), NEW q \in Procs, q # p
  PROVE  SameLocals(q)
<1> USE DEF TypeOK, SameLocals
<1>a. Retire(p) => SameLocals(q)
  BY DEF Retire
<1>b. ASSUME NEW r, NEW step, NEW seen, NEW row, NEW new, NEW elem,
             Begin(p, r, step, seen, row, new, elem)
      PROVE  SameLocals(q)
  BY <1>b DEF Begin
<1>1. CASE Arrive(p)
  BY <1>1, <1>b DEF Arrive, StartWorkflow, RequestComplete, RequestClaim, RequestDelegate,
                    RequestCancel, RequestSkip
<1>2. ASSUME NEW s \in ServiceTasks, TakeJob(p, s) PROVE SameLocals(q)
  BY <1>2, <1>b DEF TakeJob
<1>3. CASE Reject(p) \/ Crash(p)
  BY <1>3, <1>a DEF Reject, Crash
<1>4. CASE Proceed(p)
  <2> USE <1>a DEF Goto, Return, Throw
  <2>1. CASE FindByKey(p) \/ ClaimKey(p) \/ CompleteKey(p) \/ Execute(p)
    BY <2>1 DEF FindByKey, ClaimKey, CompleteKey, Execute
  <2>2. CASE LoadForTask(p) \/ LoadForService(p)
    BY <2>2 DEF LoadForTask, LoadForService, Load
  <2>3. CASE CompleteInbox(p) \/ ClaimInbox(p) \/ DelegateInbox(p)
    BY <2>3 DEF CompleteInbox, ClaimInbox, DelegateInbox
  <2>4. ASSUME NEW t \in Elements, PassGateway(p, t) \/ EnterUserTask(p, t)
                                     \/ EnterServiceTask(p, t) \/ EnterEndEvent(p, t)
        PROVE  SameLocals(q)
    BY <2>4 DEF PassGateway, EnterUserTask, EnterServiceTask, EnterEndEvent, Enter
  <2>5. CASE ScheduleSla(p) \/ AnnounceTask(p) \/ DeadEnd(p)
    BY <2>5 DEF ScheduleSla, AnnounceTask, DeadEnd
  <2>6. CASE Persist(p) \/ AnnounceCancel(p)
    BY <2>6 DEF Persist, AnnounceCancel
  <2> QED
    BY <1>4, <2>1, <2>2, <2>3, <2>4, <2>5, <2>6 DEF Proceed, Elements
<1> QED
  BY <1>1, <1>2, <1>3, <1>4 DEF ProcStep

(* A job that exists goes on existing, whatever the verdict on it.         *)
LEMMA SettleServes ==
  ASSUME TypeOK, NEW p \in Procs, NEW verdict, Settle(p, verdict),
         NEW s \in ServiceTasks, jobs[s].state # "absent"
  PROVE  jobs'[s].state # "absent"
<1>1. JobAfter(jobs[s], verdict).state # "absent"
  BY JobAfterType DEF TypeOK
<1> QED
  BY <1>1 DEF Settle, TypeOK

(* What no step takes back: rows of the inbox and the queue, outbox rows,  *)
(* keys that are taken or have a result.                                   *)
Kept ==
  /\ \A e \in UserTasks : inbox[e].status # "absent" => inbox'[e].status # "absent"
  /\ \A s \in ServiceTasks : jobs[s].state # "absent" => jobs'[s].state # "absent"
  /\ outbox \subseteq outbox'
  /\ \A k \in Keys : /\ keys[k] # "free" => keys'[k] # "free"
                     /\ keys[k] = "completed" => keys'[k] = "completed"

LEMMA KeptByArrival == TypeOK /\ ArrivalStep => Kept
<1> SUFFICES ASSUME TypeOK, ArrivalStep PROVE Kept
  OBVIOUS
<1> USE DEF Kept, rows
<1>1. ASSUME NEW p \in Clients, Arrive(p) PROVE Kept
  BY <1>1 DEF Arrive, StartWorkflow, RequestComplete, RequestClaim, RequestDelegate,
              RequestCancel, RequestSkip
<1>2. ASSUME NEW p \in Workers, NEW s \in ServiceTasks, TakeJob(p, s) PROVE Kept
  <2>1. [jobs[s] EXCEPT !.state = "active", !.owner = p].state = "active"
    BY DEF TypeOK, Job
  <2> QED
    BY <1>2, <2>1 DEF TakeJob, TypeOK
<1> QED
  BY <1>1, <1>2 DEF ArrivalStep

LEMMA KeptByQueue == TypeOK /\ QueueStep => Kept
<1> SUFFICES ASSUME TypeOK, QueueStep PROVE Kept
  OBVIOUS
<1>1. ASSUME NEW s \in ServiceTasks, Stall(s) PROVE Kept
  <2>1. Stalled(jobs[s]).state # "absent"
    BY StalledType DEF TypeOK
  <2> QED
    BY <1>1, <2>1 DEF Stall, Kept, TypeOK
<1>2. ASSUME NEW e \in UserTasks, FireTimer(e) \/ CheckEscalation(e) \/ Escalate(e) PROVE Kept
  BY <1>2 DEF FireTimer, CheckEscalation, Escalate, Kept
<1> QED
  BY <1>1, <1>2 DEF QueueStep

LEMMA KeptByProceed == TypeOK /\ Shape /\ (\E p \in Procs : Proceed(p)) => Kept
<1> SUFFICES ASSUME TypeOK, Shape, NEW p \in Procs, Proceed(p) PROVE Kept
  OBVIOUS
<1>a. ASSUME NEW verdict, Settle(p, verdict), inbox' = inbox, outbox' = outbox, keys' = keys
      PROVE  Kept
  BY <1>a, SettleServes DEF Kept
<1> USE DEF Return, Throw, rows
<1>1. CASE FindByKey(p) \/ Execute(p)
  BY <1>1, <1>a DEF FindByKey, Execute, Kept
<1>2. CASE ClaimKey(p)
  <2>1. CASE keys[req[p].key] = "claimed"
    BY <1>2, <2>1, <1>a DEF ClaimKey
  <2>2. CASE keys[req[p].key] # "claimed"
    BY <1>2, <2>2 DEF ClaimKey, Kept, TypeOK
  <2> QED
    BY <2>1, <2>2
<1>3. CASE CompleteKey(p)
  BY <1>3, SettleServes DEF CompleteKey, Kept, TypeOK
<1>4. CASE LoadForTask(p) \/ LoadForService(p)
  BY <1>4, <1>a DEF LoadForTask, LoadForService, Load, Kept
<1>5. CASE CompleteInbox(p)
  <2>1. CASE inbox[req[p].elem].status = task[p].status
    BY <1>5, <2>1 DEF CompleteInbox, Kept, TypeOK, InboxRow
  <2>2. CASE inbox[req[p].elem].status # task[p].status
    BY <1>5, <2>2, <1>a DEF CompleteInbox
  <2> QED
    BY <2>1, <2>2
<1>6. CASE ClaimInbox(p) \/ DelegateInbox(p)
  BY <1>6 DEF ClaimInbox, DelegateInbox, Kept, TypeOK
<1>7. ASSUME NEW t \in Elements, PassGateway(p, t) PROVE Kept
  BY <1>7 DEF PassGateway, Kept
<1>8. ASSUME NEW t \in UserTasks, EnterUserTask(p, t) PROVE Kept
  <2>1. CASE inbox[t].status = "absent"
    BY <1>8, <2>1 DEF EnterUserTask, Kept, TypeOK
  <2>2. CASE inbox[t].status # "absent"
    BY <1>8, <2>2, <1>a DEF EnterUserTask
  <2> QED
    BY <2>1, <2>2
<1>9. ASSUME NEW s \in ServiceTasks, EnterServiceTask(p, s) PROVE Kept
  BY <1>9 DEF EnterServiceTask, Kept, TypeOK, Job
<1>10. CASE ScheduleSla(p) \/ AnnounceTask(p) \/ AnnounceCancel(p)
  BY <1>10 DEF ScheduleSla, AnnounceTask, AnnounceCancel, Kept
<1>11. ASSUME NEW t \in EndEvents, EnterEndEvent(p, t) PROVE Kept
  BY <1>11 DEF EnterEndEvent, Kept
<1>12. CASE DeadEnd(p)
  BY <1>12, <1>a DEF DeadEnd, Kept
<1>13. CASE Persist(p)
  BY <1>13, <1>a DEF Persist, Kept
<1> QED
  BY <1>1, <1>2, <1>3, <1>4, <1>5, <1>6, <1>7, <1>8, <1>9, <1>10, <1>11, <1>12, <1>13 DEF Proceed

LEMMA KeptByNext == TypeOK /\ Shape /\ Next => Kept
<1> SUFFICES ASSUME TypeOK, Shape, Next PROVE Kept
  OBVIOUS
<1>1. ASSUME NEW p \in Procs, Reject(p) \/ Crash(p) PROVE Kept
  BY <1>1, SettleServes DEF Reject, Crash, rows, Kept
<1> QED
  BY <1>1, KeptByArrival, KeptByQueue, KeptByProceed DEF Next, ArrivalStep, QueueStep

(* Nothing but startWorkflow and persistInstance writes the instance row.  *)
Rewrites(p) ==
  /\ pc[p] = "persist"
  /\ instance.version = base[p].version
  /\ instance' = [result[p] EXCEPT !.version = base[p].version + 1]

InstanceMove ==
  \/ instance' = instance
  \/ \E p \in Clients : StartWorkflow(p)
  \/ \E p \in Procs : Persist(p) /\ Rewrites(p)

LEMMA InstanceMoves == Next => InstanceMove
<1> SUFFICES ASSUME Next PROVE InstanceMove
  OBVIOUS
<1> USE DEF InstanceMove, rows
<1>1. ASSUME NEW p \in Clients, Arrive(p) PROVE InstanceMove
  BY <1>1 DEF Arrive, RequestComplete, RequestClaim, RequestDelegate, RequestCancel, RequestSkip
<1>2. ASSUME NEW p \in Procs, Persist(p) PROVE InstanceMove
  BY <1>2 DEF Persist, Rewrites
<1>3. ASSUME NEW p \in Procs, Proceed(p) PROVE InstanceMove
  BY <1>2, <1>3 DEF Proceed, FindByKey, ClaimKey, CompleteKey, Execute, LoadForTask,
       LoadForService, CompleteInbox, ClaimInbox, DelegateInbox, PassGateway, EnterUserTask,
       ScheduleSla, AnnounceTask, EnterServiceTask, EnterEndEvent, DeadEnd, AnnounceCancel
<1>4. ASSUME NEW p \in Procs, Reject(p) \/ Crash(p) PROVE InstanceMove
  BY <1>4 DEF Reject, Crash
<1>5. ASSUME NEW p \in Workers, NEW s \in ServiceTasks, TakeJob(p, s) PROVE InstanceMove
  BY <1>5 DEF TakeJob
<1>6. ASSUME QueueStep PROVE InstanceMove
  BY <1>6 DEF QueueStep, Stall, FireTimer, CheckEscalation, Escalate
<1> QED
  BY <1>1, <1>3, <1>4, <1>5, <1>6 DEF Next, QueueStep

(* A live row only moves up in version, keeps its form data and stays      *)
(* live; the row of a version never changes.                               *)
Evolves ==
  instance.status # "none" =>
    /\ instance'.status # "none"
    /\ instance.version <= instance'.version
    /\ instance'.version = instance.version => instance' = instance
    /\ instance.forms \subseteq instance'.forms

LEMMA InstanceEvolves == TypeOK /\ Snapshot /\ Outcome /\ Next => Evolves
<1> SUFFICES ASSUME TypeOK, Snapshot, Outcome, Next, instance.status # "none"
             PROVE  Evolves
  BY DEF Evolves
<1>1. CASE instance' = instance
  BY <1>1 DEF Evolves, TypeOK, InstanceRow
<1>2. ASSUME NEW p \in Procs, Rewrites(p) PROVE Evolves
  <2> DEFINE n == base[p].version + 1
  <2>1. base[p] = instance /\ result[p].status # "none" /\ base[p].forms \subseteq result[p].forms
    BY <1>2 DEF Rewrites, Snapshot, SnapshotOf, Outcome, OutcomeOf, Loaded
  <2>2. /\ instance'.version = n
        /\ instance'.status = result[p].status
        /\ instance'.forms = result[p].forms
    BY <1>2 DEF Rewrites, TypeOK, InstanceRow
  <2>3. n \in Nat /\ instance.version < n
    BY <1>2 DEF Rewrites, TypeOK, InstanceRow
  <2> QED
    BY <2>1, <2>2, <2>3 DEF Evolves, TypeOK, InstanceRow
<1>3. ~ \E p \in Clients : StartWorkflow(p)
  BY DEF StartWorkflow
<1> QED
  BY <1>1, <1>2, <1>3, InstanceMoves DEF InstanceMove

-----------------------------------------------------------------------------
(* The inductive invariant, part by part.                                  *)

(* Before the instance row exists nothing else does.                       *)
LEMMA UnbornStep ==
  TypeOK /\ Shape /\ Unborn /\ Snapshot /\ Outcome /\ Next => Unborn'
<1> SUFFICES ASSUME TypeOK, Unborn, Snapshot, Outcome, Next, instance'.status = "none"
             PROVE  Unborn'
  BY DEF Unborn
<1>1. instance.status = "none"
  BY InstanceEvolves DEF Evolves
<1>2. /\ \A p \in Procs : pc[p] = "idle"
      /\ \A s \in ServiceTasks : jobs[s].state = "absent"
      /\ \A e \in UserTasks : inbox[e].status = "absent"
  BY <1>1 DEF Unborn
<1>3. ASSUME NEW p \in Clients, Arrive(p) PROVE FALSE
  <2>1. ~ StartWorkflow(p)
    BY DEF StartWorkflow, NoInstance
  <2> QED
    BY <1>1, <1>2, <1>3, <2>1 DEF Arrive, RequestComplete, RequestClaim, RequestDelegate,
         RequestCancel, RequestSkip
<1>4. ASSUME NEW p \in Workers, NEW s \in ServiceTasks, TakeJob(p, s) PROVE FALSE
  BY <1>2, <1>4 DEF TakeJob
<1>5. ASSUME NEW p \in Procs, Proceed(p) PROVE FALSE
  BY <1>2, <1>5 DEF Proceed, FindByKey, ClaimKey, CompleteKey, Execute, LoadForTask,
       LoadForService, CompleteInbox, ClaimInbox, DelegateInbox, PassGateway, EnterUserTask,
       ScheduleSla, AnnounceTask, EnterServiceTask, EnterEndEvent, DeadEnd, Persist, AnnounceCancel
<1>6. ASSUME NEW p \in Procs, Reject(p) \/ Crash(p) PROVE FALSE
  BY <1>2, <1>6 DEF Reject, Crash
<1>7. ASSUME NEW s \in ServiceTasks, Stall(s) PROVE FALSE
  BY <1>2, <1>7 DEF Stall
<1>8. ASSUME NEW e \in UserTasks, FireTimer(e) \/ CheckEscalation(e) \/ Escalate(e)
      PROVE  Unborn'
  BY <1>2, <1>8 DEF FireTimer, CheckEscalation, Escalate, locals, Unborn
<1> QED
  BY <1>3, <1>4, <1>5, <1>6, <1>7, <1>8 DEF Next

(* A retired request has no shape, no snapshot and no outcome to keep.     *)
Retired(p) == pc'[p] = "idle" /\ req'[p] = NoRequest

LEMMA RetireRetires ==
  ASSUME TypeOK, NEW p \in Procs, Retire(p)
  PROVE  Retired(p)
  BY DEF Retire, Retired, TypeOK

(* Each step of a request leaves it with the kind, key and element that    *)
(* its next step needs.                                                    *)
LEMMA ShapeOwn ==
  ASSUME TypeOK, Shape, NEW p \in Procs, ProcStep(p)
  PROVE  ShapeOf(p)'
<1> USE DEF ShapeOf, Loaded
<1>a. Retired(p) => ShapeOf(p)'
  BY DEF Retired, NoRequest
<1>b. Retire(p) => ShapeOf(p)'
  BY <1>a, RetireRetires
<1>c. ASSUME NEW r, NEW step, NEW seen, NEW row, NEW new, NEW elem,
             Begin(p, r, step, seen, row, new, elem)
      PROVE  pc'[p] = step /\ req'[p] = r /\ task'[p] = seen /\ at'[p] = elem
  BY <1>c DEF Begin, TypeOK
<1>1. StartWorkflow(p) => ShapeOf(p)'
  BY <1>c DEF StartWorkflow, NoRequest, Elements
<1>2. ASSUME NEW e \in UserTasks, NEW u \in Users, NEW k \in {<<e, u>>} \cup ClientKeys,
             RequestComplete(p, e, u, k)
      PROVE  ShapeOf(p)'
  BY <1>2, <1>c DEF RequestComplete
<1>3. ASSUME NEW e \in UserTasks, NEW u \in Users, RequestClaim(p, e, u) PROVE ShapeOf(p)'
  BY <1>3, <1>c DEF RequestClaim
<1>4. ASSUME NEW e \in UserTasks, NEW u \in Users, NEW v \in Users, RequestDelegate(p, e, u, v)
      PROVE  ShapeOf(p)'
  BY <1>4, <1>c DEF RequestDelegate
<1>5. RequestCancel(p) => ShapeOf(p)'
  BY <1>c DEF RequestCancel, NoRequest
<1>6. ASSUME NEW e \in Elements, RequestSkip(p, e) PROVE ShapeOf(p)'
  <2>1. [NoRequest EXCEPT !.kind = "skip", !.elem = e].kind = "skip"
    BY DEF NoRequest
  <2>2. pc'[p] = "advance" /\ req'[p].kind = "skip" /\ at'[p] \in Elements
    BY <1>6, <1>c, <2>1 DEF RequestSkip
  <2> QED
    BY <2>2
<1>7. ASSUME NEW s \in ServiceTasks, TakeJob(p, s) PROVE ShapeOf(p)'
  BY <1>7, <1>c DEF TakeJob
<1>8. CASE Proceed(p)
  <2> USE <1>b DEF Return, Throw, Goto, rows, TypeOK
  <2>0. ShapeOf(p)
    BY DEF Shape
  <2>1. CASE FindByKey(p) \/ ClaimKey(p) \/ CompleteKey(p) \/ Execute(p)
    BY <2>0, <2>1 DEF FindByKey, ClaimKey, CompleteKey, Execute
  <2>2. CASE LoadForTask(p)
    <3>1. CASE Retire(p)
      BY <1>b, <3>1
    <3>2. CASE ~ Retire(p)
      <4>1. /\ task[p].status \in {"Pending", "Claimed"} /\ req[p].kind = "complete"
            /\ pc' = [pc EXCEPT ![p] = "completeInbox"] /\ UNCHANGED <<req, task>>
            /\ at' = [at EXCEPT ![p] = req[p].elem]
        BY <2>2, <3>2 DEF LoadForTask, Load
      <4> QED
        BY <2>0, <4>1
    <3> QED
      BY <3>1, <3>2
  <2>3. CASE LoadForService(p)
    BY <2>0, <2>3 DEF LoadForService, Load, Elements
  <2>4. CASE CompleteInbox(p)
    <3>1. CASE Retire(p)
      BY <1>b, <3>1
    <3>2. CASE ~ Retire(p)
      <4>1. /\ pc[p] = "completeInbox" /\ pc' = [pc EXCEPT ![p] = "advance"]
            /\ UNCHANGED <<req, at, task>>
        BY <2>4, <3>2 DEF CompleteInbox
      <4>2. at[p] \in Elements
        BY <2>0, <4>1 DEF Elements
      <4> QED
        BY <2>0, <4>1, <4>2
    <3> QED
      BY <3>1, <3>2
  <2>5. CASE ClaimInbox(p) \/ DelegateInbox(p)
    BY <2>5 DEF ClaimInbox, DelegateInbox
  <2>6. ASSUME NEW t \in Elements, PassGateway(p, t) PROVE ShapeOf(p)'
    BY <2>0, <2>6 DEF PassGateway, Enter
  <2>7. ASSUME NEW t \in UserTasks, EnterUserTask(p, t) PROVE ShapeOf(p)'
    BY <2>0, <2>7 DEF EnterUserTask, Enter
  <2>8. CASE ScheduleSla(p) \/ AnnounceTask(p)
    BY <2>0, <2>8 DEF ScheduleSla, AnnounceTask
  <2>9. ASSUME NEW s \in ServiceTasks, EnterServiceTask(p, s) PROVE ShapeOf(p)'
    BY <2>0, <2>9 DEF EnterServiceTask, Enter
  <2>10. ASSUME NEW t \in EndEvents, EnterEndEvent(p, t) PROVE ShapeOf(p)'
    BY <2>0, <2>10 DEF EnterEndEvent
  <2>11. CASE DeadEnd(p)
    BY <2>0, <2>11 DEF DeadEnd
  <2>12. CASE Persist(p)
    BY <2>0, <2>12 DEF Persist, AfterPersist
  <2>13. CASE AnnounceCancel(p)
    BY <2>13 DEF AnnounceCancel
  <2> QED
    BY <1>8, <2>1, <2>2, <2>3, <2>4, <2>5, <2>6, <2>7, <2>8, <2>9, <2>10, <2>11, <2>12, <2>13
       DEF Proceed
<1>9. CASE Reject(p) \/ Crash(p)
  BY <1>9, <1>b DEF Reject, Crash
<1> QED
  BY <1>1, <1>2, <1>3, <1>4, <1>5, <1>6, <1>7, <1>8, <1>9 DEF ProcStep, Arrive

LEMMA ShapeStep == TypeOK /\ Shape /\ Next => Shape'
<1> SUFFICES ASSUME TypeOK, Shape, Next, NEW q \in Procs PROVE ShapeOf(q)'
  BY DEF Shape
<1>0. SameLocals(q) => ShapeOf(q)'
  BY DEF Shape, ShapeOf, SameLocals, Loaded
<1>1. CASE QueueStep
  BY <1>0, <1>1 DEF QueueStep, Stall, FireTimer, CheckEscalation, Escalate, locals, SameLocals
<1>2. ASSUME NEW p \in Procs, ProcStep(p) PROVE ShapeOf(q)'
  BY <1>0, <1>2, Frame, ShapeOwn
<1> QED
  BY <1>1, <1>2, NextSplit

(* A request that steps from one loaded position to the next has the same  *)
(* base, and one that has just loaded has the current row as its base.     *)
LoadedStep(p) ==
  \/ Loaded(p) /\ base'[p] = base[p] /\ req'[p] = req[p] /\ instance' = instance
  \/ /\ base'[p] = instance' /\ instance'.status # "none"
     /\ req'[p].kind \in {"start", "complete", "cancel"} => instance'.status = "Running"

LEMMA LoadedSteps ==
  ASSUME TypeOK, Unborn, Shape, NEW p \in Procs, ProcStep(p), Loaded(p)'
  PROVE  LoadedStep(p)
<1> USE DEF Loaded, LoadedStep
<1>a. ~ Retire(p)
  BY RetireRetires DEF Retired
<1>b. ASSUME NEW r, NEW step, NEW seen, NEW row, NEW new, NEW elem,
             Begin(p, r, step, seen, row, new, elem)
      PROVE  pc'[p] = step /\ req'[p] = r /\ base'[p] = row
  BY <1>b DEF Begin, TypeOK
<1>c. pc[p] # "idle" => instance.status # "none"
  BY DEF Unborn
<1>1. StartWorkflow(p) => LoadedStep(p)
  <2> DEFINE row == [NoInstance EXCEPT !.status = "Running"]
  <2>1. row.status = "Running"
    BY DEF NoInstance
  <2> HIDE DEF row
  <2> QED
    BY <1>b, <2>1 DEF StartWorkflow, row
<1>2. ASSUME NEW e \in UserTasks, NEW u \in Users, NEW v \in Users,
             \/ \E k \in {<<e, u>>} \cup ClientKeys : RequestComplete(p, e, u, k)
             \/ RequestClaim(p, e, u) \/ RequestDelegate(p, e, u, v)
      PROVE  FALSE
  <2>1. pc'[p] \in {"findByKey", "claimInbox", "delegateInbox"}
    BY <1>2, <1>b DEF RequestComplete, RequestClaim, RequestDelegate
  <2> QED
    BY <2>1
<1>3. RequestCancel(p) => LoadedStep(p)
  BY <1>b DEF RequestCancel, rows
<1>4. ASSUME NEW e \in Elements, RequestSkip(p, e) PROVE LoadedStep(p)
  <2>1. [NoRequest EXCEPT !.kind = "skip", !.elem = e].kind = "skip"
    BY DEF NoRequest
  <2> QED
    BY <1>4, <1>b, <2>1 DEF RequestSkip, rows
<1>5. ASSUME NEW s \in ServiceTasks, TakeJob(p, s) PROVE FALSE
  BY <1>5, <1>b DEF TakeJob
<1>6. CASE Proceed(p)
  <2> USE <1>a DEF Return, Throw, Goto, rows, TypeOK
  <2>1. CASE FindByKey(p) \/ ClaimKey(p) \/ CompleteKey(p) \/ Execute(p)
    BY <2>1 DEF FindByKey, ClaimKey, CompleteKey, Execute
  <2>2. CASE LoadForTask(p)
    BY <1>c, <2>2 DEF LoadForTask, Load
  <2>3. CASE LoadForService(p)
    BY <1>c, <2>3 DEF LoadForService, Load
  <2>4. CASE CompleteInbox(p) \/ ClaimInbox(p) \/ DelegateInbox(p)
    BY <2>4 DEF CompleteInbox, ClaimInbox, DelegateInbox
  <2>5. ASSUME NEW t \in Elements, PassGateway(p, t) \/ EnterUserTask(p, t)
                                     \/ EnterServiceTask(p, t) \/ EnterEndEvent(p, t)
        PROVE  LoadedStep(p)
    BY <2>5 DEF PassGateway, EnterUserTask, EnterServiceTask, EnterEndEvent, Enter
  <2>6. CASE ScheduleSla(p) \/ AnnounceTask(p) \/ DeadEnd(p)
    BY <2>6 DEF ScheduleSla, AnnounceTask, DeadEnd
  <2>7. CASE Persist(p) \/ AnnounceCancel(p)
    BY <2>7 DEF Persist, AfterPersist, AnnounceCancel
  <2> QED
    BY <1>6, <2>1, <2>2, <2>3, <2>4, <2>5, <2>6, <2>7 DEF Proceed, Elements
<1>7. CASE Reject(p) \/ Crash(p)
  BY <1>7, <1>a DEF Reject, Crash
<1> QED
  BY <1>1, <1>2, <1>3, <1>4, <1>5, <1>6, <1>7 DEF ProcStep, Arrive

LEMMA QueueFrame ==
  QueueStep => /\ instance' = instance /\ inbox' = inbox /\ keys' = keys
               /\ UNCHANGED history
               /\ \A q \in Procs : SameLocals(q)
  BY DEF QueueStep, Stall, FireTimer, CheckEscalation, Escalate, locals, SameLocals

(* A snapshot stays the row of its version.                                *)
LEMMA SnapshotStep ==
  TypeOK /\ Unborn /\ Shape /\ Snapshot /\ Outcome /\ Next => Snapshot'
<1> SUFFICES ASSUME TypeOK, Unborn, Shape, Snapshot, Outcome, Next, NEW q \in Procs,
                    Loaded(q)'
             PROVE  SnapshotOf(q)'
  BY DEF Snapshot, SnapshotOf
<1>0. Evolves /\ TypeOK'
  BY InstanceEvolves, TypeStep
<1>1. ASSUME SameLocals(q) PROVE SnapshotOf(q)'
  <2>1. Loaded(q) /\ SnapshotOf(q) /\ instance.status # "none"
    BY <1>1 DEF SameLocals, Loaded, Snapshot, Unborn
  <2>2. /\ base[q].status # "none" /\ base[q].version <= instance.version
        /\ base[q].version = instance.version => base[q] = instance
        /\ req[q].kind \in {"start", "complete", "cancel"} => base[q].status = "Running"
    BY <2>1 DEF SnapshotOf
  <2>3. base[q].version \in Nat /\ instance.version \in Nat /\ instance'.version \in Nat
    BY <1>0 DEF TypeOK, InstanceRow
  <2>4. base[q].version <= instance'.version
    BY <1>0, <2>1, <2>2, <2>3 DEF Evolves
  <2>5. base[q].version = instance'.version => base[q] = instance'
    BY <1>0, <2>1, <2>2, <2>3 DEF Evolves
  <2>6. base'[q] = base[q] /\ req'[q] = req[q]
    BY <1>1 DEF SameLocals
  <2> QED
    BY <2>2, <2>4, <2>5, <2>6 DEF SnapshotOf
<1>2. ASSUME ProcStep(q) PROVE SnapshotOf(q)'
  <2>1. LoadedStep(q)
    BY <1>2, LoadedSteps
  <2>2. SnapshotOf(q) /\ instance'.version <= instance'.version
    BY <1>0 DEF Snapshot, TypeOK, InstanceRow
  <2> QED
    BY <2>1, <2>2 DEF LoadedStep, SnapshotOf
<1>3. ASSUME NEW p \in Procs, ProcStep(p) PROVE SnapshotOf(q)'
  BY <1>1, <1>2, <1>3, Frame
<1> QED
  BY <1>1, <1>3, NextSplit, QueueFrame

LEMMA KeptServed ==
  ASSUME Kept
  PROVE  /\ Announced => Announced'
         /\ \A x : Served(x) => Served(x)'
  BY DEF Kept, Announced, Served

(* Elements that are neither kind of task need no row and no job.          *)
LEMMA NoTaskServed ==
  /\ \A x \in Gateways \cup EndEvents \cup {StartEvent} : Served(x)'
  /\ Served(NoElement)'
  BY GraphAssumption DEF Served, Elements

(* The row a request will write is live, announced if completed, keeps the *)
(* form data, and halts where there is something to do.                    *)
LEMMA OutcomeOwn ==
  ASSUME TypeOK, Unborn, Shape, Outcome, CompletionAnnounced, HaltIsServed, Kept,
         NEW p \in Procs, ProcStep(p)
  PROVE  OutcomeOf(p)'
<1>a. ~ Loaded(p)' => OutcomeOf(p)'
  BY DEF OutcomeOf
<1>b. Retire(p) => OutcomeOf(p)'
  BY <1>a, RetireRetires DEF Retired, Loaded
<1>c. ASSUME NEW r, NEW step, NEW seen, NEW row, NEW new, NEW elem,
             Begin(p, r, step, seen, row, new, elem)
      PROVE  pc'[p] = step /\ req'[p] = r /\ base'[p] = row /\ result'[p] = new
  BY <1>c DEF Begin, TypeOK
<1>d. instance.status = "Completed" => Announced'
  BY KeptServed DEF CompletionAnnounced, Announced
<1>e. \A x : x = instance.element => Served(x)'
  BY KeptServed DEF HaltIsServed, Served
<1>f. pc[p] # "idle" => instance.status # "none"
  BY DEF Unborn
<1>g. ASSUME Loaded(p), req'[p] = req[p], base'[p] = base[p], result'[p] = result[p]
      PROVE  OutcomeOf(p)'
  BY <1>g, KeptServed DEF Outcome, OutcomeOf
<1>1. StartWorkflow(p) => OutcomeOf(p)'
  <2> DEFINE row == [NoInstance EXCEPT !.status = "Running"]
             new == [row EXCEPT !.element = StartEvent]
             r == [NoRequest EXCEPT !.kind = "start"]
  <2>1. /\ new.status = "Running" /\ new.element = StartEvent /\ new.forms = row.forms
        /\ r.kind = "start"
    BY DEF NoInstance, NoRequest
  <2> HIDE DEF row, new, r
  <2>2. Served(StartEvent)'
    BY NoTaskServed
  <2>3. SUFFICES ASSUME StartWorkflow(p) PROVE OutcomeOf(p)'
    OBVIOUS
  <2>4. req'[p] = r /\ base'[p] = row /\ result'[p] = new
    BY <2>3, <1>c DEF StartWorkflow, row, new, r
  <2> QED
    BY <2>1, <2>2, <2>4 DEF OutcomeOf
<1>2. ASSUME NEW e \in UserTasks, NEW u \in Users, NEW v \in Users,
             \/ \E k \in {<<e, u>>} \cup ClientKeys : RequestComplete(p, e, u, k)
             \/ RequestClaim(p, e, u) \/ RequestDelegate(p, e, u, v)
      PROVE  OutcomeOf(p)'
  <2>1. pc'[p] \in {"findByKey", "claimInbox", "delegateInbox"}
    BY <1>2, <1>c DEF RequestComplete, RequestClaim, RequestDelegate
  <2> QED
    BY <2>1, <1>a DEF Loaded
<1>3. RequestCancel(p) => OutcomeOf(p)'
  <2> DEFINE new == [instance EXCEPT !.status = "Cancelled"]
             r == [NoRequest EXCEPT !.kind = "cancel"]
  <2>1. /\ new.status = "Cancelled" /\ new.element = instance.element
        /\ new.forms = instance.forms /\ r.kind = "cancel"
    BY DEF NoRequest, TypeOK, InstanceRow
  <2> HIDE DEF new, r
  <2>2. SUFFICES ASSUME RequestCancel(p) PROVE OutcomeOf(p)'
    OBVIOUS
  <2>3. req'[p] = r /\ base'[p] = instance /\ result'[p] = new
    BY <2>2, <1>c DEF RequestCancel, new, r
  <2> QED
    BY <1>e, <2>1, <2>3 DEF OutcomeOf
<1>4. ASSUME NEW e \in Elements, RequestSkip(p, e) PROVE OutcomeOf(p)'
  <2> DEFINE r == [NoRequest EXCEPT !.kind = "skip", !.elem = e]
  <2>1. r.kind = "skip"
    BY DEF NoRequest
  <2> HIDE DEF r
  <2>2. /\ req'[p] = r /\ base'[p] = instance /\ result'[p] = instance
        /\ instance.status # "none"
    BY <1>4, <1>c DEF RequestSkip, r
  <2> QED
    BY <1>d, <1>e, <2>1, <2>2 DEF OutcomeOf
<1>5. ASSUME NEW s \in ServiceTasks, TakeJob(p, s) PROVE OutcomeOf(p)'
  <2>1. pc'[p] = "findByKey"
    BY <1>5, <1>c DEF TakeJob
  <2> QED
    BY <2>1, <1>a DEF Loaded
<1>6. CASE Proceed(p)
  <2> USE <1>b DEF Return, Throw, Goto, rows
  <2>1. CASE FindByKey(p) \/ ClaimKey(p) \/ CompleteKey(p) \/ Execute(p)
    BY <2>1, <1>a DEF FindByKey, ClaimKey, CompleteKey, Execute, TypeOK, Loaded
  <2>2. CASE LoadForTask(p)
    <3> DEFINE new == [instance EXCEPT !.forms = @ \cup {req[p].elem}]
    <3>1. /\ new.status = instance.status /\ new.element = instance.element
          /\ new.forms = instance.forms \cup {req[p].elem}
      BY DEF TypeOK, InstanceRow
    <3> HIDE DEF new
    <3>2. CASE ~ Retire(p)
      <4>1. /\ base'[p] = instance /\ result'[p] = new /\ req'[p] = req[p]
            /\ instance.status = "Running"
        BY <2>2, <3>2 DEF LoadForTask, Load, TypeOK, new
      <4> QED
        BY <3>1, <4>1, <1>e DEF OutcomeOf
    <3> QED
      BY <3>2
  <2>3. CASE LoadForService(p)
    <3>1. /\ base'[p] = instance /\ result'[p] = instance /\ req'[p] = req[p]
          /\ req[p].kind = "service" /\ instance.status # "none"
      BY <2>3, <1>f DEF LoadForService, Load, TypeOK
    <3> QED
      BY <3>1, <1>d, <1>e DEF OutcomeOf
  <2>4. CASE CompleteInbox(p)
    BY <2>4, <1>g DEF CompleteInbox, Loaded
  <2>5. CASE ClaimInbox(p) \/ DelegateInbox(p)
    BY <2>5 DEF ClaimInbox, DelegateInbox
  <2>6. ASSUME NEW t, NEW step, Enter(p, t, step), Loaded(p), Served(t)' PROVE OutcomeOf(p)'
    <3>1. req'[p] = req[p] /\ base'[p] = base[p]
      BY <2>6 DEF Enter
    <3>2. /\ result'[p].element = t /\ result'[p].status = result[p].status
          /\ result'[p].forms = result[p].forms
      BY <2>6 DEF Enter, TypeOK, InstanceRow
    <3> QED
      BY <2>6, <3>1, <3>2, KeptServed DEF Outcome, OutcomeOf
  <2>7. ASSUME NEW t \in Elements, PassGateway(p, t) PROVE OutcomeOf(p)'
    BY <2>6, <2>7, NoTaskServed DEF PassGateway, Loaded
  <2>8. ASSUME NEW t \in UserTasks, EnterUserTask(p, t) PROVE OutcomeOf(p)'
    <3>1. CASE inbox[t].status = "absent"
      <4>1. inbox'[t].status = "Pending"
        BY <2>8, <3>1 DEF EnterUserTask, TypeOK
      <4>2. Served(t)'
        BY <4>1, GraphAssumption DEF Served
      <4> QED
        BY <2>6, <2>8, <3>1, <4>2 DEF EnterUserTask, Loaded
    <3>2. CASE inbox[t].status # "absent"
      BY <2>8, <3>2 DEF EnterUserTask
    <3> QED
      BY <3>1, <3>2
  <2>9. CASE ScheduleSla(p) \/ AnnounceTask(p)
    BY <2>9, <1>g DEF ScheduleSla, AnnounceTask, Loaded
  <2>10. ASSUME NEW s \in ServiceTasks, EnterServiceTask(p, s) PROVE OutcomeOf(p)'
    <3>1. jobs'[s].state # "absent"
      BY <2>10 DEF EnterServiceTask, TypeOK, Job
    <3>2. Served(s)'
      BY <3>1, GraphAssumption DEF Served
    <3> QED
      BY <2>6, <2>10, <3>2 DEF EnterServiceTask, Loaded
  <2>11. ASSUME NEW t \in EndEvents, EnterEndEvent(p, t) PROVE OutcomeOf(p)'
    <3>1. Loaded(p) /\ req'[p] = req[p] /\ base'[p] = base[p]
      BY <2>11 DEF EnterEndEvent, Loaded
    <3>2. Announced'
      BY <2>11 DEF EnterEndEvent, Announced
    <3> DEFINE new == [result[p] EXCEPT !.element = t, !.status = "Completed"]
    <3>3. new.element = t /\ new.status = "Completed" /\ new.forms = result[p].forms
      BY DEF TypeOK, InstanceRow
    <3> HIDE DEF new
    <3>4. result'[p] = new
      BY <2>11 DEF EnterEndEvent, TypeOK, new
    <3> QED
      BY <3>1, <3>2, <3>3, <3>4, NoTaskServed DEF Outcome, OutcomeOf
  <2>12. CASE DeadEnd(p)
    BY <2>12, <1>g DEF DeadEnd, Loaded
  <2>13. CASE Persist(p)
    <3>1. Retire(p) \/ ~ Loaded(p)'
      BY <2>13 DEF Persist, AfterPersist, Loaded, TypeOK
    <3> QED
      BY <3>1, <1>a
  <2>14. CASE AnnounceCancel(p)
    BY <2>14 DEF AnnounceCancel
  <2> QED
    BY <1>6, <2>1, <2>2, <2>3, <2>4, <2>5, <2>7, <2>8, <2>9, <2>10, <2>11, <2>12, <2>13, <2>14
       DEF Proceed
<1>7. CASE Reject(p) \/ Crash(p)
  BY <1>7, <1>b DEF Reject, Crash
<1> QED
  BY <1>1, <1>2, <1>3, <1>4, <1>5, <1>6, <1>7 DEF ProcStep, Arrive

LEMMA OutcomeStep ==
  TypeOK /\ Unborn /\ Shape /\ Outcome /\ CompletionAnnounced /\ HaltIsServed /\ Next => Outcome'
<1> SUFFICES ASSUME TypeOK, Unborn, Shape, Outcome, CompletionAnnounced, HaltIsServed, Next,
                    NEW q \in Procs
             PROVE  OutcomeOf(q)'
  BY DEF Outcome
<1>0. Kept
  BY KeptByNext
<1>1. SameLocals(q) => OutcomeOf(q)'
  BY <1>0, KeptServed DEF Outcome, OutcomeOf, SameLocals, Loaded
<1>2. ASSUME NEW p \in Procs, ProcStep(p) PROVE OutcomeOf(q)'
  BY <1>0, <1>1, <1>2, Frame, OutcomeOwn
<1> QED
  BY <1>1, <1>2, NextSplit, QueueFrame

(* The two facts about the instance row come from the outcome it took.     *)
LEMMA RowStep ==
  TypeOK /\ Shape /\ Outcome /\ CompletionAnnounced /\ HaltIsServed /\ Next
    => CompletionAnnounced' /\ HaltIsServed'
<1> SUFFICES ASSUME TypeOK, Shape, Outcome, CompletionAnnounced, HaltIsServed, Next
             PROVE  CompletionAnnounced' /\ HaltIsServed'
  OBVIOUS
<1>0. Kept
  BY KeptByNext
<1>1. CASE instance' = instance
  BY <1>0, <1>1 DEF Kept, CompletionAnnounced, HaltIsServed
<1>2. ASSUME NEW p \in Clients, StartWorkflow(p) PROVE CompletionAnnounced' /\ HaltIsServed'
  <2>1. instance'.status = "Running" /\ instance'.element = NoElement
    BY <1>2 DEF StartWorkflow, NoInstance
  <2> QED
    BY <2>1, GraphAssumption DEF CompletionAnnounced, HaltIsServed, Elements
<1>3. ASSUME NEW p \in Procs, Rewrites(p) PROVE CompletionAnnounced' /\ HaltIsServed'
  <2>1. instance'.status = result[p].status /\ instance'.element = result[p].element
    BY <1>3 DEF Rewrites, TypeOK, InstanceRow
  <2>2. (result[p].status = "Completed" => Announced) /\ Served(result[p].element)
    BY <1>3 DEF Rewrites, Outcome, OutcomeOf, Loaded
  <2>3. (result[p].status = "Completed" => Announced') /\ \A x : x = result[p].element => Served(x)'
    BY <1>0, <2>2, KeptServed
  <2> QED
    BY <2>1, <2>3 DEF CompletionAnnounced, HaltIsServed, Announced, Served
<1> QED
  BY <1>1, <1>2, <1>3, InstanceMoves DEF InstanceMove

(* A key is claimed, and given its result, by the request that has it.     *)
KeyMove ==
  \/ keys' = keys
  \/ \E p \in Procs : /\ ClaimKey(p)
                      /\ keys[req[p].key] # "claimed"
                      /\ keys' = [keys EXCEPT ![req[p].key] = IF @ = "free" THEN "claimed" ELSE @]
  \/ \E p \in Procs : /\ CompleteKey(p)
                      /\ keys' = [keys EXCEPT ![req[p].key] = "completed"]

LEMMA KeyMoves == Next => KeyMove
<1> SUFFICES ASSUME Next PROVE KeyMove
  OBVIOUS
<1> USE DEF KeyMove, rows
<1>1. ASSUME NEW p \in Clients, Arrive(p) PROVE KeyMove
  BY <1>1 DEF Arrive, StartWorkflow, RequestComplete, RequestClaim, RequestDelegate,
              RequestCancel, RequestSkip
<1>2. ASSUME NEW p \in Procs, ClaimKey(p) \/ CompleteKey(p) PROVE KeyMove
  BY <1>2 DEF ClaimKey, CompleteKey
<1>3. ASSUME NEW p \in Procs, Proceed(p) PROVE KeyMove
  BY <1>2, <1>3 DEF Proceed, FindByKey, Execute, LoadForTask,
       LoadForService, CompleteInbox, ClaimInbox, DelegateInbox, PassGateway, EnterUserTask,
       ScheduleSla, AnnounceTask, EnterServiceTask, EnterEndEvent, DeadEnd, Persist, AnnounceCancel
<1>4. ASSUME NEW p \in Procs, Reject(p) \/ Crash(p) PROVE KeyMove
  BY <1>4 DEF Reject, Crash
<1>5. ASSUME NEW p \in Workers, NEW s \in ServiceTasks, TakeJob(p, s) PROVE KeyMove
  BY <1>5 DEF TakeJob
<1> QED
  BY <1>1, <1>3, <1>4, <1>5, QueueFrame DEF Next, QueueStep

(* completeKey is reached only from a write that held the form, or from    *)
(* nowhere: its key's element is the request's element.                    *)
LEMMA FormsStep ==
  TypeOK /\ Unborn /\ Shape /\ Snapshot /\ Outcome /\ FormsInRow /\ Next => FormsInRow'
<1> SUFFICES ASSUME TypeOK, Unborn, Shape, Snapshot, Outcome, FormsInRow, Next
             PROVE  FormsInRow'
  OBVIOUS
<1>0. instance.status # "none" => instance.forms \subseteq instance'.forms
  BY InstanceEvolves DEF Evolves
<1>1. ASSUME NEW q \in Procs, pc'[q] = "completeKey", req'[q].kind = "complete"
      PROVE  req'[q].elem \in instance'.forms
  <2>1. CASE SameLocals(q)
    BY <1>0, <1>1, <2>1 DEF SameLocals, FormsInRow, Unborn
  <2>2. CASE ProcStep(q)
    <3>0. pc'[q] # "idle" /\ ~ Retire(q)
      BY <1>1, RetireRetires DEF Retired
    <3>1. ASSUME NEW r, NEW step, NEW seen, NEW row, NEW new, NEW elem,
                 Begin(q, r, step, seen, row, new, elem)
          PROVE  pc'[q] = step
      BY <3>1 DEF Begin, TypeOK
    <3>2. ~ Arrive(q) /\ ~ \E s \in ServiceTasks : TakeJob(q, s)
      BY <1>1, <3>1 DEF Arrive, StartWorkflow, RequestComplete, RequestClaim, RequestDelegate,
                        RequestCancel, RequestSkip, TakeJob
    <3>3. Proceed(q)
      BY <2>2, <3>0, <3>2 DEF ProcStep, Reject, Crash
    <3>4. Persist(q) /\ req'[q] = req[q]
      BY <1>1, <3>0, <3>3 DEF Proceed, FindByKey, ClaimKey, CompleteKey, Execute, LoadForTask,
           LoadForService, Load, CompleteInbox, ClaimInbox, DelegateInbox, PassGateway, Enter,
           EnterUserTask, ScheduleSla, AnnounceTask, EnterServiceTask, EnterEndEvent, DeadEnd, Persist,
           AnnounceCancel, Goto, Return, Throw, TypeOK
    <3>5. instance' = [result[q] EXCEPT !.version = base[q].version + 1] /\ Loaded(q)
      BY <3>0, <3>4 DEF Persist, Throw, Loaded
    <3>6. req[q].elem \in result[q].forms
      BY <1>1, <3>4, <3>5 DEF Outcome, OutcomeOf
    <3> QED
      BY <3>4, <3>5, <3>6 DEF TypeOK, InstanceRow
  <2> QED
    BY <2>1, <2>2, Frame, NextSplit, QueueFrame
<1>2. ASSUME NEW e \in UserTasks, NEW u \in Users, keys'[<<e, u>>] = "completed"
      PROVE  e \in instance'.forms
  <2>1. CASE keys[<<e, u>>] = "completed"
    <3>1. e \in instance.forms
      BY <2>1 DEF FormsInRow, AcknowledgedFormKept
    <3> QED
      BY <1>0, <3>1 DEF Unborn, NoInstance
  <2>2. CASE keys[<<e, u>>] # "completed"
    <3>1. PICK p \in Procs : CompleteKey(p) /\ req[p].key = <<e, u>>
      <4>1. <<e, u>> \in Keys
        BY DEF Keys, DefaultKeys
      <4> QED
        BY <1>2, <2>2, <4>1, KeyMoves DEF KeyMove, TypeOK
    <3>2. ShapeOf(p) /\ pc[p] = "completeKey"
      BY <3>1 DEF Shape, CompleteKey
    <3>3. <<e, u>> \notin ServiceTasks \cup ClientKeys
      BY KeyAssumption DEF DefaultKeys
    <3>4. req[p].kind = "complete" /\ req[p].elem = e
      BY <3>1, <3>2, <3>3 DEF ShapeOf
    <3>5. e \in instance.forms /\ instance.status # "none"
      BY <3>2, <3>4 DEF FormsInRow, Unborn
    <3> QED
      BY <1>0, <3>5
  <2> QED
    BY <2>1, <2>2
<1> QED
  BY <1>1, <1>2 DEF FormsInRow, AcknowledgedFormKept

(* Every completion finds the row open, and a delegation that overwrites a *)
(* completion is counted.                                                  *)
LEMMA OfferStep == TypeOK /\ Shape /\ OfferBalance /\ Next => OfferBalance'
<1> SUFFICES ASSUME TypeOK, Shape, OfferBalance, Next PROVE OfferBalance'
  OBVIOUS
<1> USE DEF OfferBalance, rows, history
<1>0. UNCHANGED <<inbox, history>> => OfferBalance'
  OBVIOUS
<1>1. ASSUME NEW p \in Clients, Arrive(p) PROVE OfferBalance'
  BY <1>0, <1>1 DEF Arrive, StartWorkflow, RequestComplete, RequestClaim, RequestDelegate,
                    RequestCancel, RequestSkip
<1>2. ASSUME NEW p \in Procs, CompleteInbox(p) PROVE OfferBalance'
  <2>1. CASE inbox[req[p].elem].status = task[p].status
    <3> DEFINE e == req[p].elem
    <3>1. e \in UserTasks /\ inbox[e].status # "Completed"
      BY <1>2, <2>1 DEF CompleteInbox, Shape, ShapeOf
    <3>2. /\ inbox' = [inbox EXCEPT ![e].status = "Completed"]
          /\ completions' = [completions EXCEPT ![e] = @ + 1]
          /\ reopenings' = reopenings
      BY <1>2, <2>1 DEF CompleteInbox
    <3> HIDE DEF e
    <3>3. inbox'[e].status = "Completed" /\ \A x \in UserTasks \ {e} : inbox'[x] = inbox[x]
      BY <3>1, <3>2 DEF TypeOK, InboxRow
    <3>4. completions'[e] = completions[e] + 1 /\ completions[e] <= reopenings[e]
      BY <3>1, <3>2 DEF TypeOK
    <3> QED
      BY <3>2, <3>3, <3>4 DEF TypeOK
  <2>2. CASE inbox[req[p].elem].status # task[p].status
    BY <1>0, <1>2, <2>2 DEF CompleteInbox
  <2> QED
    BY <2>1, <2>2
<1>3. ASSUME NEW p \in Procs, ClaimInbox(p) PROVE OfferBalance'
  <2>1. CASE inbox[req[p].elem].status = "Pending"
    <3>1. /\ inbox'[req[p].elem].status # "Completed"
          /\ \A x \in UserTasks \ {req[p].elem} : inbox'[x] = inbox[x]
      BY <1>3, <2>1 DEF ClaimInbox, TypeOK, Shape, ShapeOf
    <3> QED
      BY <1>3, <2>1, <3>1 DEF ClaimInbox, TypeOK
  <2>2. CASE inbox[req[p].elem].status # "Pending"
    BY <1>0, <1>3, <2>2 DEF ClaimInbox
  <2> QED
    BY <2>1, <2>2
<1>4. ASSUME NEW p \in Procs, DelegateInbox(p) PROVE OfferBalance'
  <2> DEFINE e == req[p].elem
  <2>1. e \in UserTasks /\ completions' = completions
    BY <1>4 DEF DelegateInbox, Shape, ShapeOf
  <2>2. /\ inbox'[e].status = "Pending" /\ \A x \in UserTasks \ {e} : inbox'[x] = inbox[x]
        /\ \A x \in UserTasks \ {e} : reopenings'[x] = reopenings[x]
        /\ reopenings'[e] = IF inbox[e].status = "Completed" THEN reopenings[e] + 1 ELSE reopenings[e]
    BY <1>4, <2>1 DEF DelegateInbox, TypeOK
  <2> HIDE DEF e
  <2>3. completions[e] <= reopenings'[e]
    BY <2>1, <2>2 DEF TypeOK
  <2> QED
    BY <2>1, <2>2, <2>3 DEF TypeOK
<1>5. ASSUME NEW p \in Procs, NEW t \in UserTasks, EnterUserTask(p, t) PROVE OfferBalance'
  <2>1. CASE inbox[t].status = "absent"
    <3>1. inbox'[t].status = "Pending" /\ \A x \in UserTasks \ {t} : inbox'[x] = inbox[x]
      BY <1>5, <2>1 DEF EnterUserTask, TypeOK
    <3> QED
      BY <1>5, <2>1, <3>1 DEF EnterUserTask, TypeOK
  <2>2. CASE inbox[t].status # "absent"
    BY <1>0, <1>5, <2>2 DEF EnterUserTask
  <2> QED
    BY <2>1, <2>2
<1>6. ASSUME NEW p \in Procs, Proceed(p) PROVE OfferBalance'
  BY <1>0, <1>2, <1>3, <1>4, <1>5, <1>6 DEF Proceed, FindByKey, ClaimKey, CompleteKey, Execute,
       LoadForTask, LoadForService, PassGateway, ScheduleSla, AnnounceTask, EnterServiceTask, EnterEndEvent,
       DeadEnd, Persist, AnnounceCancel
<1>7. ASSUME NEW p \in Procs, Reject(p) \/ Crash(p) PROVE OfferBalance'
  BY <1>0, <1>7 DEF Reject, Crash
<1>8. ASSUME NEW p \in Workers, NEW s \in ServiceTasks, TakeJob(p, s) PROVE OfferBalance'
  BY <1>0, <1>8 DEF TakeJob
<1> QED
  BY <1>0, <1>1, <1>6, <1>7, <1>8, QueueFrame DEF Next, QueueStep

(* A service task's key is not free while a worker holds it, so a second   *)
(* worker gets past the claim only when the key has its result.            *)
LEMMA KeysStep == TypeOK /\ Shape /\ KeysTaken /\ Next => KeysTaken'
<1> SUFFICES ASSUME TypeOK, Shape, KeysTaken, Next PROVE KeysTaken'
  OBVIOUS
<1>0. Kept
  BY KeptByNext
<1> DEFINE Holds(p, s) == Holding(p) /\ req[p].kind = "service" /\ req[p].elem = s
<1>1. ASSUME NEW q \in Procs, NEW s, Holds(q, s)'
      PROVE  /\ s \in ServiceTasks
             /\ SameLocals(q) => Holds(q, s)
             /\ Holds(q, s) \/ /\ keys'[s] # "free"
                               /\ keys[s] = "free" \/ keys'[s] = "completed"
  <2>0. SameLocals(q) => Holds(q, s)
    BY <1>1 DEF SameLocals, Holding
  <2>1. CASE SameLocals(q)
    BY <2>0, <2>1 DEF Shape, ShapeOf
  <2>2. CASE ProcStep(q)
    <3>0. pc'[q] # "idle" /\ ~ Retire(q)
      BY <1>1, RetireRetires DEF Retired, Holding
    <3>1. ASSUME NEW r, NEW step, NEW seen, NEW row, NEW new, NEW elem,
                 Begin(q, r, step, seen, row, new, elem)
          PROVE  pc'[q] = step /\ req'[q] = r
      BY <3>1 DEF Begin, TypeOK
    <3>2. ~ Arrive(q)
      <4>1. /\ [NoRequest EXCEPT !.kind = "start"].kind # "service"
            /\ [NoRequest EXCEPT !.kind = "cancel"].kind # "service"
            /\ \A e : [NoRequest EXCEPT !.kind = "skip", !.elem = e].kind # "service"
        BY DEF NoRequest
      <4>2. ~ StartWorkflow(q)
        BY <1>1, <3>1, <4>1 DEF StartWorkflow
      <4>3. ~ RequestCancel(q)
        BY <1>1, <3>1, <4>1 DEF RequestCancel
      <4>4. ~ \E e \in Elements : RequestSkip(q, e)
        BY <1>1, <3>1, <4>1 DEF RequestSkip
      <4>5. ASSUME NEW e \in UserTasks, NEW u \in Users, NEW v \in Users,
                   \/ \E k \in {<<e, u>>} \cup ClientKeys : RequestComplete(q, e, u, k)
                   \/ RequestClaim(q, e, u) \/ RequestDelegate(q, e, u, v)
            PROVE  FALSE
        <5>1. pc'[q] \in {"findByKey", "claimInbox", "delegateInbox"}
          BY <3>1, <4>5 DEF RequestComplete, RequestClaim, RequestDelegate
        <5> QED
          BY <1>1, <5>1 DEF Holding
      <4> QED
        BY <4>2, <4>3, <4>4, <4>5 DEF Arrive
    <3>6. ~ \E x \in ServiceTasks : TakeJob(q, x)
      <4>1. ASSUME NEW x \in ServiceTasks, TakeJob(q, x) PROVE pc'[q] = "findByKey"
        BY <3>1, <4>1 DEF TakeJob
      <4> QED
        BY <1>1, <4>1 DEF Holding
    <3>3. Proceed(q)
      BY <2>2, <3>0, <3>2, <3>6 DEF ProcStep, Reject, Crash
    <3>4. req'[q] = req[q] /\ (Holding(q) \/ ClaimKey(q))
      BY <1>1, <3>0, <3>3 DEF Proceed, FindByKey, ClaimKey, CompleteKey, Execute, LoadForTask,
           LoadForService, Load, CompleteInbox, ClaimInbox, DelegateInbox, PassGateway, Enter,
           EnterUserTask, ScheduleSla, AnnounceTask, EnterServiceTask, EnterEndEvent, DeadEnd, Persist,
           AnnounceCancel, Goto, Return, Throw, TypeOK, Holding
    <3>5. s \in ServiceTasks /\ req[q].key = s
      BY <1>1, <3>4 DEF Shape, ShapeOf
    <3>7. CASE ClaimKey(q)
      <4>1. keys[s] # "claimed" /\ keys' = [keys EXCEPT ![s] = IF @ = "free" THEN "claimed" ELSE @]
        BY <3>0, <3>5, <3>7 DEF ClaimKey, Throw
      <4> QED
        BY <2>0, <3>5, <4>1 DEF TypeOK, Keys
    <3> QED
      BY <1>1, <2>0, <3>4, <3>5, <3>7
  <2> QED
    BY <2>1, <2>2, Frame, NextSplit, QueueFrame
<1>2. ASSUME NEW q \in Procs, NEW s, Holds(q, s)' PROVE keys'[s] # "free"
  BY <1>0, <1>1, <1>2 DEF KeysTaken, Kept, Keys
<1>3. ASSUME NEW p \in Workers, NEW q \in Workers, p # q, NEW s, Holds(p, s)', Holds(q, s)'
      PROVE  keys'[s] = "completed"
  <2>1. p \in Procs /\ q \in Procs
    BY DEF Procs
  <2>2. s \in ServiceTasks /\ s \in Keys
    BY <1>1, <1>3, <2>1 DEF Keys
  <2>3. CASE Holds(p, s) /\ Holds(q, s)
    BY <1>0, <2>2, <2>3, <1>3 DEF KeysTaken, HandlerExclusive, Kept
  <2>4. SameLocals(p) \/ SameLocals(q)
    BY <1>3, <2>1, Frame, NextSplit, QueueFrame
  <2>5. Holds(p, s) \/ Holds(q, s)
    BY <1>1, <1>3, <2>1, <2>4
  <2>6. keys[s] # "free"
    BY <2>1, <2>5 DEF KeysTaken
  <2> QED
    BY <1>1, <1>3, <2>1, <2>3, <2>5, <2>6
<1> QED
  BY <1>2, <1>3 DEF KeysTaken, HandlerExclusive

-----------------------------------------------------------------------------
(* The inductive invariant as a whole, and what follows from it.           *)

LEMMA InvInit == Init => IInv
<1> SUFFICES ASSUME Init PROVE IInv
  OBVIOUS
<1>1. TypeOK
  BY TypeInit
<1>2. /\ instance = NoInstance /\ NoInstance.status = "none" /\ NoInstance.element = NoElement
      /\ \A p \in Procs : pc[p] = "idle" /\ req[p] = NoRequest
      /\ NoRequest.kind = "none"
  BY DEF Init, NoInstance, NoRequest
<1>3. Unborn
  BY DEF Init, Unborn, NoInstance, NoTask, NoJob
<1>4. Shape /\ Snapshot /\ Outcome
  BY <1>2 DEF Shape, ShapeOf, Snapshot, SnapshotOf, Outcome, OutcomeOf, Loaded
<1>5. CompletionAnnounced /\ HaltIsServed
  BY <1>2, GraphAssumption DEF CompletionAnnounced, HaltIsServed, Elements
<1>6. FormsInRow
  BY <1>2 DEF Init, FormsInRow, AcknowledgedFormKept, Keys, DefaultKeys
<1>7. OfferBalance
  BY DEF Init, OfferBalance, NoTask
<1>8. KeysTaken
  BY <1>2 DEF KeysTaken, HandlerExclusive, Procs
<1> QED
  BY <1>1, <1>3, <1>4, <1>5, <1>6, <1>7, <1>8 DEF IInv

LEMMA InvStep == IInv /\ [Next]_vars => IInv'
<1> SUFFICES ASSUME IInv, [Next]_vars PROVE IInv'
  OBVIOUS
<1>1. CASE Next
  BY <1>1, TypeStep, UnbornStep, ShapeStep, SnapshotStep, OutcomeStep, RowStep, FormsStep,
     OfferStep, KeysStep DEF IInv
<1>2. CASE UNCHANGED vars
  <2> USE <1>2 DEF IInv, vars, rows, locals, history
  <2>1. TypeOK'
    BY DEF TypeOK
  <2>2. Unborn' /\ Shape'
    BY DEF Unborn, Shape, ShapeOf, Loaded
  <2>3. Snapshot' /\ Outcome'
    BY DEF Snapshot, SnapshotOf, Outcome, OutcomeOf, Loaded, Announced, Served
  <2>4. CompletionAnnounced' /\ HaltIsServed' /\ FormsInRow'
    BY DEF CompletionAnnounced, HaltIsServed, FormsInRow, AcknowledgedFormKept
  <2>5. OfferBalance' /\ KeysTaken'
    BY DEF OfferBalance, KeysTaken, HandlerExclusive, Holding
  <2> QED
    BY <2>1, <2>2, <2>3, <2>4, <2>5
<1> QED
  BY <1>1, <1>2

(* The invariant holds of every workflow, whatever its definition.         *)
THEOREM InvTheorem == Spec => []IInv
  BY InvInit, InvStep, PTL DEF Spec

(* Every variable has its type in every reachable state.                   *)
THEOREM TypeTheorem == Spec => []TypeOK
<1>1. IInv => TypeOK
  BY DEF IInv
<1> QED
  BY <1>1, InvTheorem, PTL

(* An acknowledged completion never loses its form data: no stale write    *)
(* gets past the version check, however many requests and workers race.    *)
THEOREM FormsTheorem == Spec => []AcknowledgedFormKept
<1>1. IInv => AcknowledgedFormKept
  BY DEF IInv, FormsInRow
<1> QED
  BY <1>1, InvTheorem, PTL

(* completeTask lets one completion through for each offer of the task.    *)
THEOREM OfferTheorem == Spec => []OneCompletionPerOffer
<1>1. IInv => OneCompletionPerOffer
  <2> SUFFICES ASSUME IInv, NEW e \in UserTasks PROVE completions[e] <= 1 + reopenings[e]
    BY DEF OneCompletionPerOffer
  <2>1. completions[e] \in Nat /\ reopenings[e] \in Nat
    BY DEF IInv, TypeOK
  <2>2. completions[e] <= reopenings[e] + (IF inbox[e].status = "Completed" THEN 1 ELSE 0)
    BY DEF IInv, OfferBalance
  <2> QED
    BY <2>1, <2>2
<1> QED
  BY <1>1, InvTheorem, PTL

(* workflow.completed is in the outbox before any instance is Completed.   *)
THEOREM AnnouncedTheorem == Spec => []CompletionAnnounced
<1>1. IInv => CompletionAnnounced
  BY DEF IInv
<1> QED
  BY <1>1, InvTheorem, PTL

(* An instance halts only where a task row or a queue job exists.          *)
THEOREM ServedTheorem == Spec => []HaltIsServed
<1>1. IInv => HaltIsServed
  BY DEF IInv
<1> QED
  BY <1>1, InvTheorem, PTL

(* The idempotency key keeps a service handler to one worker at a time     *)
(* until it has a result.                                                  *)
THEOREM HandlerTheorem == Spec => []HandlerExclusive
<1>1. IInv => HandlerExclusive
  BY DEF IInv, KeysTaken
<1> QED
  BY <1>1, InvTheorem, PTL

(* The version check loses no update: what is overwritten is what was read.*)
THEOREM LockTheorem == Spec => NoLostUpdate
<1> DEFINE Step1 == instance.status # "none" /\ instance' # instance
                      => \E p \in Procs : pc[p] = "persist" /\ base[p] = instance
<1>1. IInv /\ [Next]_vars => [Step1]_vars
  <2> SUFFICES ASSUME IInv, Next, instance.status # "none", instance' # instance
               PROVE  \E p \in Procs : pc[p] = "persist" /\ base[p] = instance
    OBVIOUS
  <2>1. PICK p \in Procs : Rewrites(p)
    BY InstanceMoves DEF InstanceMove, StartWorkflow
  <2> QED
    BY <2>1 DEF Rewrites, IInv, Snapshot, SnapshotOf, Loaded
<1> QED
  BY <1>1, InvTheorem, PTL DEF Spec, NoLostUpdate

(* A user's request never moves an instance that has ended.                *)
THEOREM EndedTheorem == Spec => EndedMovedOnlyByServiceOrSkip
<1> DEFINE Move == instance.status \in Terminal /\ instance' # instance
                     => \E p \in Procs : /\ pc[p] = "persist" /\ pc'[p] # "persist"
                                         /\ req[p].kind \in {"service", "skip"}
<1>1. IInv /\ [Next]_vars => [Move]_vars
  <2> SUFFICES ASSUME IInv, Next, instance.status \in Terminal, instance' # instance
               PROVE  \E p \in Procs : /\ pc[p] = "persist" /\ pc'[p] # "persist"
                                      /\ req[p].kind \in {"service", "skip"}
    OBVIOUS
  <2>1. PICK p \in Procs : Persist(p) /\ Rewrites(p)
    BY InstanceMoves DEF InstanceMove, StartWorkflow, Terminal
  <2>2. base[p].status \in Terminal /\ Loaded(p)
    BY <2>1 DEF Rewrites, IInv, Snapshot, SnapshotOf, Loaded
  <2>3. req[p].kind \in {"service", "skip"}
    BY <2>2 DEF IInv, Snapshot, SnapshotOf, Shape, ShapeOf, Terminal
  <2>4. pc[p] = "persist" /\ pc'[p] # "persist"
    BY <2>1 DEF Persist, Rewrites, AfterPersist, Retire, Throw, Goto, IInv, TypeOK
  <2> QED
    BY <2>3, <2>4
<1> QED
  BY <1>1, InvTheorem, PTL DEF Spec, EndedMovedOnlyByServiceOrSkip
=============================================================================
