------------------------- MODULE WorkflowOrchestrator -------------------------
(***************************************************************************)
(* One workflow instance of nestjs-shared-workflow and the requests that   *)
(* race on it.  WorkflowOrchestratorService opens no transaction: each     *)
(* `await` on a repository commits by itself, `SELECT .. FOR UPDATE` gives *)
(* its lock back at once, and the only guard is the version compared by    *)
(* updateWithVersion when the request ends.  So every action below is one  *)
(* such call, and requests interleave, fail and die between calls.         *)
(*                                                                         *)
(* Scope: definitions of start and end events, user tasks, service tasks   *)
(* and exclusive gateways.  Without a fork no token row exists, so the     *)
(* token calls of handleEndEvent and cancelWorkflow find nothing to do.    *)
(* Gateway conditions read form data that is not modelled: any outgoing    *)
(* flow may be the selected one.                                           *)
(***************************************************************************)
EXTENDS Naturals, FiniteSets

CONSTANTS
  StartEvent, EndEvents, UserTasks, ServiceTasks, Gateways,  \* the elements
  Flows,            \* the sequence flows, pairs <<sourceRef, targetRef>>
  NoElement,
  SlaTasks,         \* the user tasks with slaHours
  Users, Nobody,
  Assignee,         \* what assigneeExpression resolves to, per user task
  Candidates,       \* per user task, who acts by role or permission
  ClientKeys, NoKey, \* idempotency keys a client may send of its own
  Clients, Workers, NoWorker,  \* HTTP requests in flight; queue workers
  Operations,       \* the kinds of request that arrive
  MaxAttempts,      \* attempts of a queue job (3 in queue-module.config.ts)
  MaxStalls,        \* maxStalledCount of the worker
  MaxFaults,        \* bound: faults injected in a behaviour
  MaxSkipVersion    \* bound: no force-skip starts at or above this version

Elements == {StartEvent} \cup EndEvents \cup UserTasks \cup ServiceTasks \cup Gateways
Procs == Clients \cup Workers
DefaultKeys == UserTasks \X Users
Keys == DefaultKeys \cup ServiceTasks \cup ClientKeys

Kinds == {"none", "start", "complete", "claim", "delegate", "cancel", "skip", "service"}

ASSUME GraphAssumption ==
  /\ Flows \subseteq Elements \X Elements
  /\ SlaTasks \subseteq UserTasks
  /\ \A e \in EndEvents : \A t \in Elements : <<e, t>> \notin Flows
  /\ UserTasks \cap ServiceTasks = {}
  /\ (UserTasks \cup ServiceTasks) \cap (Gateways \cup EndEvents \cup {StartEvent}) = {}
  /\ EndEvents \cap (Gateways \cup {StartEvent}) = {}
  /\ NoElement \notin Elements

ASSUME ActorAssumption ==
  /\ Assignee \in [UserTasks -> Users \cup {Nobody}]
  /\ Candidates \in [UserTasks -> SUBSET Users]
  /\ Nobody \notin Users
  /\ Clients \cap Workers = {}
  /\ NoWorker \notin Procs
  /\ Operations \subseteq Kinds

ASSUME KeyAssumption ==
  /\ DefaultKeys \cap (ServiceTasks \cup ClientKeys) = {}
  /\ ServiceTasks \cap ClientKeys = {}
  /\ NoKey \notin Keys

ASSUME BoundAssumption ==
  /\ MaxAttempts \in Nat \ {0}
  /\ MaxStalls \in Nat
  /\ MaxFaults \in Nat
  /\ MaxSkipVersion \in Nat

VARIABLES
  instance,     \* the workflow_instances row
  inbox,        \* the workflow_task_inbox rows, by user task
  keys,         \* the workflow_idempotency_keys rows, by key
  jobs,         \* the BullMQ service jobs, by service task (their jobId)
  timers,       \* the SLA timer and escalation jobs, by user task
  outbox,       \* the workflow_outbox rows, as <<eventType, elementId>>
  pc, req, at, task, base, result,  \* each request's position and locals
  completions,  \* history: how often each inbox row was completed
  reopenings,   \* history: how often a delegation overwrote a completion
  faults        \* history: faults injected so far

rows   == <<instance, inbox, keys, jobs, timers, outbox>>
locals == <<pc, req, at, task, base, result>>
history == <<completions, reopenings>>
vars   == <<rows, locals, history, faults>>

Terminal == {"Completed", "Cancelled"}
InstanceRow == [status : {"none", "Running"} \cup Terminal,
                element : Elements \cup {NoElement},
                version : Nat,
                forms : SUBSET UserTasks]
InboxRow == [status : {"absent", "Pending", "Claimed", "Completed"},
             assignee : Users \cup {Nobody}]
Job == [state : {"absent", "waiting", "active", "completed", "failed"},
        attempts : Nat, stalls : Nat, owner : Workers \cup {NoWorker}]
Request == [kind : Kinds,
            elem : Elements \cup {NoElement},
            user : Users \cup {Nobody},
            key : Keys \cup {NoKey}]
Steps == {"idle", "findByKey", "claimKey", "execute", "load", "completeInbox",
          "claimInbox", "delegateInbox", "advance", "scheduleSla", "announceTask",
          "persist", "announceCancel", "completeKey"}
EventTypes == {"workflow.task.created", "workflow.task.escalated",
               "workflow.completed", "workflow.cancelled"}

NoInstance == [status |-> "none", element |-> NoElement, version |-> 0, forms |-> {}]
NoTask     == [status |-> "absent", assignee |-> Nobody]
NoJob      == [state |-> "absent", attempts |-> 0, stalls |-> 0, owner |-> NoWorker]
NoRequest  == [kind |-> "none", elem |-> NoElement, user |-> Nobody, key |-> NoKey]

Init ==
  /\ instance = NoInstance
  /\ inbox = [e \in UserTasks |-> NoTask]
  /\ keys = [k \in Keys |-> "free"]
  /\ jobs = [s \in ServiceTasks |-> NoJob]
  /\ timers = [e \in UserTasks |-> "none"]
  /\ outbox = {}
  /\ pc = [p \in Procs |-> "idle"]
  /\ req = [p \in Procs |-> NoRequest]
  /\ at = [p \in Procs |-> NoElement]
  /\ task = [p \in Procs |-> NoTask]
  /\ base = [p \in Procs |-> NoInstance]
  /\ result = [p \in Procs |-> NoInstance]
  /\ completions = [e \in UserTasks |-> 0]
  /\ reopenings = [e \in UserTasks |-> 0]
  /\ faults = 0

-----------------------------------------------------------------------------
(* How a request begins, moves on and ends.                                *)

(* A request of kind k arrives with what it has read so far.               *)
Begin(p, r, step, seen, row, new, elem) ==
  /\ pc[p] = "idle"
  /\ pc' = [pc EXCEPT ![p] = step]
  /\ req' = [req EXCEPT ![p] = r]
  /\ task' = [task EXCEPT ![p] = seen]
  /\ base' = [base EXCEPT ![p] = row]
  /\ result' = [result EXCEPT ![p] = new]
  /\ at' = [at EXCEPT ![p] = elem]

Goto(p, step) == pc' = [pc EXCEPT ![p] = step]

Retire(p) ==
  /\ pc' = [pc EXCEPT ![p] = "idle"]
  /\ req' = [req EXCEPT ![p] = NoRequest]
  /\ task' = [task EXCEPT ![p] = NoTask]
  /\ base' = [base EXCEPT ![p] = NoInstance]
  /\ result' = [result EXCEPT ![p] = NoInstance]
  /\ at' = [at EXCEPT ![p] = NoElement]

(* BullMQ takes a verdict only from the worker that still holds the job.   *)
HoldsJob(p) ==
  /\ req[p].kind = "service"
  /\ jobs[req[p].elem].state = "active"
  /\ jobs[req[p].elem].owner = p

(* Mutation: an attempt that failed is not counted.                        *)
JobAfterUncounted(j, verdict) ==
  CASE verdict = "done" -> [j EXCEPT !.state = "completed", !.owner = NoWorker]
    [] verdict = "retry" -> [j EXCEPT !.state = "waiting", !.owner = NoWorker]
    [] OTHER -> [j EXCEPT !.state = "failed", !.owner = NoWorker]

JobAfter(j, verdict) ==
  CASE verdict = "done" -> [j EXCEPT !.state = "completed", !.owner = NoWorker]
    [] verdict = "retry" /\ j.attempts + 1 < MaxAttempts ->
         [j EXCEPT !.state = "waiting", !.attempts = @ + 1, !.owner = NoWorker]
    [] OTHER -> [j EXCEPT !.state = "failed", !.attempts = @ + 1, !.owner = NoWorker]

Settle(p, verdict) ==
  jobs' = IF HoldsJob(p) THEN [jobs EXCEPT ![req[p].elem] = JobAfter(@, verdict)]
                         ELSE jobs

(* The request answers; a service job reports completion to the queue.     *)
Return(p) == Retire(p) /\ Settle(p, "done")

(* The request throws; what it wrote before stays written.                 *)
Throw(p) == Retire(p) /\ Settle(p, "retry")

(* canUserActOnTask, on the inbox row as the request read it.              *)
MayAct(u, e, row) == u = row.assignee \/ u \in Candidates[e]

-----------------------------------------------------------------------------
(* The requests.                                                           *)

(* startWorkflow: the row is created before anything runs.                 *)
StartWorkflow(p) ==
  LET row == [NoInstance EXCEPT !.status = "Running"]
  IN /\ "start" \in Operations
     /\ instance.status = "none"
     /\ instance' = row
     /\ Begin(p, [NoRequest EXCEPT !.kind = "start"], "advance", NoTask,
              row, [row EXCEPT !.element = StartEvent], StartEvent)
     /\ UNCHANGED <<inbox, keys, jobs, timers, outbox, history, faults>>

(* completeUserTask reads the task before it claims its key.               *)
RequestComplete(p, e, u, k) ==
  /\ "complete" \in Operations
  /\ inbox[e].status # "absent"
  /\ Begin(p, [kind |-> "complete", elem |-> e, user |-> u, key |-> k],
           "findByKey", inbox[e], NoInstance, NoInstance, NoElement)
  /\ UNCHANGED <<rows, history, faults>>

RequestClaim(p, e, u) ==
  /\ "claim" \in Operations
  /\ inbox[e].status # "absent"
  /\ MayAct(u, e, inbox[e])
  /\ Begin(p, [kind |-> "claim", elem |-> e, user |-> u, key |-> NoKey],
           "claimInbox", inbox[e], NoInstance, NoInstance, NoElement)
  /\ UNCHANGED <<rows, history, faults>>

RequestDelegate(p, e, from, to) ==
  /\ "delegate" \in Operations
  /\ inbox[e].status # "absent"
  /\ MayAct(from, e, inbox[e])
  /\ Begin(p, [kind |-> "delegate", elem |-> e, user |-> to, key |-> NoKey],
           "delegateInbox", inbox[e], NoInstance, NoInstance, NoElement)
  /\ UNCHANGED <<rows, history, faults>>

(* Mutation: cancelWorkflow does not look at the status.                   *)
RequestCancelAny(p) ==
  /\ "cancel" \in Operations
  /\ instance.status # "none"
  /\ Begin(p, [NoRequest EXCEPT !.kind = "cancel"], "persist", NoTask,
           instance, [instance EXCEPT !.status = "Cancelled"], NoElement)
  /\ UNCHANGED <<rows, history, faults>>

RequestCancel(p) ==
  /\ "cancel" \in Operations
  /\ instance.status = "Running"
  /\ Begin(p, [NoRequest EXCEPT !.kind = "cancel"], "persist", NoTask,
           instance, [instance EXCEPT !.status = "Cancelled"], NoElement)
  /\ UNCHANGED <<rows, history, faults>>

(* forceSkipElement takes any element and any status of the instance.      *)
RequestSkip(p, e) ==
  /\ "skip" \in Operations
  /\ instance.status # "none"
  /\ instance.version < MaxSkipVersion
  /\ Begin(p, [NoRequest EXCEPT !.kind = "skip", !.elem = e], "advance", NoTask,
           instance, instance, e)
  /\ UNCHANGED <<rows, history, faults>>

(* A worker takes a waiting ProcessServiceTaskJob.                         *)
TakeJob(p, s) ==
  /\ jobs[s].state = "waiting"
  /\ jobs' = [jobs EXCEPT ![s] = [@ EXCEPT !.state = "active", !.owner = p]]
  /\ Begin(p, [kind |-> "service", elem |-> s, user |-> Nobody, key |-> s],
           "findByKey", NoTask, NoInstance, NoInstance, NoElement)
  /\ UNCHANGED <<instance, inbox, keys, timers, outbox, history, faults>>

-----------------------------------------------------------------------------
(* Idempotency, shared by completeUserTask and ProcessServiceTaskHandler.  *)

FindByKey(p) ==
  /\ pc[p] = "findByKey"
  /\ IF keys[req[p].key] = "completed"
       THEN Return(p)
       ELSE /\ Goto(p, "claimKey")
            /\ UNCHANGED <<jobs, req, at, task, base, result>>
  /\ UNCHANGED <<instance, inbox, keys, timers, outbox, history, faults>>

(* Mutation: requireFreshClaim lets a claimed key pass.                    *)
ClaimKeyAnyway(p) ==
  /\ pc[p] = "claimKey"
  /\ keys' = [keys EXCEPT ![req[p].key] = IF @ = "free" THEN "claimed" ELSE @]
  /\ Goto(p, IF req[p].kind = "service" THEN "execute" ELSE "load")
  /\ UNCHANGED <<jobs, req, at, task, base, result>>
  /\ UNCHANGED <<instance, inbox, timers, outbox, history, faults>>

(* requireFreshClaim: a key claimed and without result is a conflict, a    *)
(* key completed since findByKey lets the request run on.                  *)
ClaimKey(p) ==
  LET k == req[p].key
  IN /\ pc[p] = "claimKey"
     /\ \/ /\ keys[k] # "claimed"
           /\ keys' = [keys EXCEPT ![k] = IF @ = "free" THEN "claimed" ELSE @]
           /\ Goto(p, IF req[p].kind = "service" THEN "execute" ELSE "load")
           /\ UNCHANGED <<jobs, req, at, task, base, result>>
        \/ /\ keys[k] = "claimed"
           /\ Throw(p)
           /\ UNCHANGED keys
     /\ UNCHANGED <<instance, inbox, timers, outbox, history, faults>>

CompleteKey(p) ==
  /\ pc[p] = "completeKey"
  /\ keys' = [keys EXCEPT ![req[p].key] = "completed"]
  /\ Return(p)
  /\ UNCHANGED <<instance, inbox, timers, outbox, history, faults>>

(* The service task handler runs, outside the database.                    *)
Execute(p) ==
  /\ pc[p] = "execute"
  /\ Goto(p, "load")
  /\ UNCHANGED <<rows, req, at, task, base, result, history, faults>>

-----------------------------------------------------------------------------
(* Reading the instance and completing the inbox row.                      *)

Load(p, row, step) ==
  /\ base' = [base EXCEPT ![p] = instance]
  /\ result' = [result EXCEPT ![p] = row]
  /\ at' = [at EXCEPT ![p] = req[p].elem]
  /\ Goto(p, step)
  /\ UNCHANGED <<jobs, req, task>>

(* Mutation: the form data is merged under the wrong name.                 *)
LoadUnderUser(p) ==
  LET r == req[p]
      allowed == /\ MayAct(r.user, r.elem, task[p])
                 /\ task[p].status \in {"Pending", "Claimed"}
                 /\ instance.status = "Running"
  IN /\ pc[p] = "load"
     /\ r.kind = "complete"
     /\ \/ /\ allowed
           /\ Load(p, [instance EXCEPT !.forms = @ \cup {r.user}], "completeInbox")
        \/ /\ ~allowed
           /\ Throw(p)
     /\ UNCHANGED <<instance, inbox, keys, timers, outbox, history, faults>>

(* Authorization and status are judged on the task read at the start, the  *)
(* instance's status on a read of now; the form data joins the context.    *)
LoadForTask(p) ==
  LET r == req[p]
      allowed == /\ MayAct(r.user, r.elem, task[p])
                 /\ task[p].status \in {"Pending", "Claimed"}
                 /\ instance.status = "Running"
  IN /\ pc[p] = "load"
     /\ r.kind = "complete"
     /\ \/ /\ allowed
           /\ Load(p, [instance EXCEPT !.forms = @ \cup {r.elem}], "completeInbox")
        \/ /\ ~allowed
           /\ Throw(p)
     /\ UNCHANGED <<instance, inbox, keys, timers, outbox, history, faults>>

(* completeServiceTask advances whatever status it reads.                  *)
LoadForService(p) ==
  /\ pc[p] = "load"
  /\ req[p].kind = "service"
  /\ Load(p, instance, "advance")
  /\ UNCHANGED <<instance, inbox, keys, timers, outbox, history, faults>>

(* Mutation: completeTask updates the row whatever its status.             *)
CompleteInboxAlways(p) ==
  LET e == req[p].elem
  IN /\ pc[p] = "completeInbox"
     /\ inbox' = [inbox EXCEPT ![e].status = "Completed"]
     /\ completions' = [completions EXCEPT ![e] = @ + 1]
     /\ Goto(p, "advance")
     /\ UNCHANGED <<jobs, req, at, task, base, result>>
     /\ UNCHANGED <<instance, keys, timers, outbox, reopenings, faults>>

(* inboxRepo.completeTask: an update conditional on the status read.       *)
CompleteInbox(p) ==
  LET e == req[p].elem
  IN /\ pc[p] = "completeInbox"
     /\ \/ /\ inbox[e].status = task[p].status
           /\ inbox' = [inbox EXCEPT ![e].status = "Completed"]
           /\ completions' = [completions EXCEPT ![e] = @ + 1]
           /\ Goto(p, "advance")
           /\ UNCHANGED <<jobs, req, at, task, base, result>>
        \/ /\ inbox[e].status # task[p].status
           /\ Throw(p)
           /\ UNCHANGED <<inbox, completions>>
     /\ UNCHANGED <<instance, keys, timers, outbox, reopenings, faults>>

(* inboxRepo.claimTask: an update conditional on Pending.                  *)
ClaimInbox(p) ==
  LET e == req[p].elem
  IN /\ pc[p] = "claimInbox"
     /\ inbox' = IF inbox[e].status = "Pending"
                   THEN [inbox EXCEPT ![e] = [status |-> "Claimed", assignee |-> req[p].user]]
                   ELSE inbox
     /\ Retire(p)
     /\ UNCHANGED <<instance, keys, jobs, timers, outbox, history, faults>>

(* delegateTask writes the row it read back, whatever the row is by now.   *)
DelegateInbox(p) ==
  LET e == req[p].elem
  IN /\ pc[p] = "delegateInbox"
     /\ inbox' = [inbox EXCEPT ![e] = [status |-> "Pending", assignee |-> req[p].user]]
     /\ reopenings' = [reopenings EXCEPT ![e] =
                         IF inbox[e].status = "Completed" THEN @ + 1 ELSE @]
     /\ Retire(p)
     /\ UNCHANGED <<instance, keys, jobs, timers, outbox, completions, faults>>

-----------------------------------------------------------------------------
(* StateMachineRunner: from a completed element to the next halt.          *)

(* The next element on the way, and the row as it will be persisted.       *)
Enter(p, t, step) ==
  /\ at' = [at EXCEPT ![p] = t]
  /\ result' = [result EXCEPT ![p].element = t]
  /\ Goto(p, step)
  /\ UNCHANGED <<req, task, base>>

PassGateway(p, t) ==
  /\ pc[p] = "advance"
  /\ <<at[p], t>> \in Flows
  /\ t \in Gateways \cup {StartEvent}
  /\ Enter(p, t, "advance")
  /\ UNCHANGED <<rows, history, faults>>

(* The row's id is `instance:element`: a second entry violates the key.    *)
EnterUserTask(p, t) ==
  /\ pc[p] = "advance"
  /\ <<at[p], t>> \in Flows
  /\ \/ /\ inbox[t].status = "absent"
        /\ inbox' = [inbox EXCEPT ![t] = [status |-> "Pending", assignee |-> Assignee[t]]]
        /\ Enter(p, t, IF t \in SlaTasks THEN "scheduleSla" ELSE "announceTask")
        /\ UNCHANGED jobs
     \/ /\ inbox[t].status # "absent"
        /\ Throw(p)
        /\ UNCHANGED inbox
  /\ UNCHANGED <<instance, keys, timers, outbox, history, faults>>

(* The rest of enterUserTask: the SLA timer, if the task has one, ...      *)
ScheduleSla(p) ==
  /\ pc[p] = "scheduleSla"
  /\ timers' = [timers EXCEPT ![at[p]] = IF @ = "none" THEN "scheduled" ELSE @]
  /\ Goto(p, "announceTask")
  /\ UNCHANGED <<instance, inbox, keys, jobs, outbox, req, at, task, base, result, history, faults>>

(* ... and the outbox row.                                                 *)
AnnounceTask(p) ==
  /\ pc[p] = "announceTask"
  /\ outbox' = outbox \cup {<<"workflow.task.created", at[p]>>}
  /\ Goto(p, "persist")
  /\ UNCHANGED <<instance, inbox, keys, jobs, timers, req, at, task, base, result, history, faults>>

(* Mutation: the service job is not enqueued.                              *)
EnterServiceTaskSilently(p, s) ==
  /\ pc[p] = "advance"
  /\ <<at[p], s>> \in Flows
  /\ Enter(p, s, "persist")
  /\ UNCHANGED <<instance, inbox, jobs, keys, timers, outbox, history, faults>>

(* enqueue with a dedupeKey: BullMQ ignores a jobId it already has.  The   *)
(* job can be taken before the row that names it is persisted.             *)
EnterServiceTask(p, s) ==
  /\ pc[p] = "advance"
  /\ <<at[p], s>> \in Flows
  /\ jobs' = [jobs EXCEPT ![s].state = IF @ = "absent" THEN "waiting" ELSE @]
  /\ Enter(p, s, "persist")
  /\ UNCHANGED <<instance, inbox, keys, timers, outbox, history, faults>>

(* Mutation: handleEndEvent writes no outbox row.                          *)
EnterEndEventSilently(p, t) ==
  /\ pc[p] = "advance"
  /\ <<at[p], t>> \in Flows
  /\ at' = [at EXCEPT ![p] = t]
  /\ result' = [result EXCEPT ![p] = [@ EXCEPT !.element = t, !.status = "Completed"]]
  /\ Goto(p, "persist")
  /\ UNCHANGED <<instance, inbox, keys, jobs, timers, outbox, req, task, base, history, faults>>

(* handleEndEvent writes workflow.completed before the row is persisted.   *)
EnterEndEvent(p, t) ==
  /\ pc[p] = "advance"
  /\ <<at[p], t>> \in Flows
  /\ outbox' = outbox \cup {<<"workflow.completed", t>>}
  /\ at' = [at EXCEPT ![p] = t]
  /\ result' = [result EXCEPT ![p] = [@ EXCEPT !.element = t, !.status = "Completed"]]
  /\ Goto(p, "persist")
  /\ UNCHANGED <<instance, inbox, keys, jobs, timers, req, task, base, history, faults>>

(* No outgoing flow: a task halts where it is, anything else throws.       *)
DeadEnd(p) ==
  /\ pc[p] = "advance"
  /\ \A t \in Elements : <<at[p], t>> \notin Flows
  /\ \/ /\ at[p] \in UserTasks \cup ServiceTasks
        /\ Goto(p, "persist")
        /\ UNCHANGED <<jobs, req, at, task, base, result>>
     \/ /\ at[p] \notin UserTasks \cup ServiceTasks
        /\ Throw(p)
  /\ UNCHANGED <<instance, inbox, keys, timers, outbox, history, faults>>

-----------------------------------------------------------------------------
(* persistInstance, and what the request does after it.                    *)

AfterPersist(kind) ==
  CASE kind = "cancel" -> "announceCancel"
    [] kind \in {"complete", "service"} -> "completeKey"
    [] OTHER -> "idle"

(* Mutations: the row is written whatever its version; the version is not  *)
(* counted up.                                                             *)
PersistBlindly(p) ==
  /\ pc[p] = "persist"
  /\ instance' = [result[p] EXCEPT !.version = instance.version + 1]
  /\ IF AfterPersist(req[p].kind) = "idle"
       THEN Retire(p)
       ELSE /\ Goto(p, AfterPersist(req[p].kind))
            /\ UNCHANGED <<req, at, task, base, result>>
  /\ UNCHANGED jobs
  /\ UNCHANGED <<inbox, keys, timers, outbox, history, faults>>

PersistUncounted(p) ==
  /\ pc[p] = "persist"
  /\ \/ /\ instance.version = base[p].version
        /\ instance' = [result[p] EXCEPT !.version = base[p].version]
        /\ IF AfterPersist(req[p].kind) = "idle"
             THEN Retire(p)
             ELSE /\ Goto(p, AfterPersist(req[p].kind))
                  /\ UNCHANGED <<req, at, task, base, result>>
        /\ UNCHANGED jobs
     \/ /\ instance.version # base[p].version
        /\ Throw(p)
        /\ UNCHANGED instance
  /\ UNCHANGED <<inbox, keys, timers, outbox, history, faults>>

Persist(p) ==
  /\ pc[p] = "persist"
  /\ \/ /\ instance.version = base[p].version
        /\ instance' = [result[p] EXCEPT !.version = base[p].version + 1]
        /\ IF AfterPersist(req[p].kind) = "idle"
             THEN Retire(p)
             ELSE /\ Goto(p, AfterPersist(req[p].kind))
                  /\ UNCHANGED <<req, at, task, base, result>>
        /\ UNCHANGED jobs
     \/ /\ instance.version # base[p].version
        /\ Throw(p)
        /\ UNCHANGED instance
  /\ UNCHANGED <<inbox, keys, timers, outbox, history, faults>>

AnnounceCancel(p) ==
  /\ pc[p] = "announceCancel"
  /\ outbox' = outbox \cup {<<"workflow.cancelled", NoElement>>}
  /\ Retire(p)
  /\ UNCHANGED <<instance, inbox, keys, jobs, timers, history, faults>>

-----------------------------------------------------------------------------
(* WorkflowTimerHandler, then EscalationJobHandler: both skip a task that  *)
(* is Completed; the second writes its row one call after it has looked.   *)

FireTimer(e) ==
  /\ timers[e] = "scheduled"
  /\ timers' = [timers EXCEPT ![e] =
                  IF inbox[e].status = "Completed" THEN "skipped" ELSE "escalating"]
  /\ UNCHANGED <<instance, inbox, keys, jobs, outbox, locals, history, faults>>

CheckEscalation(e) ==
  /\ timers[e] = "escalating"
  /\ timers' = [timers EXCEPT ![e] =
                  IF inbox[e].status = "Completed" THEN "skipped" ELSE "due"]
  /\ UNCHANGED <<instance, inbox, keys, jobs, outbox, locals, history, faults>>

Escalate(e) ==
  /\ timers[e] = "due"
  /\ timers' = [timers EXCEPT ![e] = "escalated"]
  /\ outbox' = outbox \cup {<<"workflow.task.escalated", e>>}
  /\ UNCHANGED <<instance, inbox, keys, jobs, locals, history, faults>>

-----------------------------------------------------------------------------
(* Faults: an await that rejects, a process that dies, a stalled job.      *)

Inject == faults < MaxFaults /\ faults' = faults + 1

(* Any await of a request may reject, also where two appends to the event  *)
(* log take the same sequence number.  isRetryableError decides the job's  *)
(* fate.                                                                   *)
Reject(p) ==
  /\ Inject
  /\ pc[p] # "idle"
  /\ Retire(p)
  /\ \E verdict \in {"retry", "fail"} : Settle(p, verdict)
  /\ UNCHANGED <<instance, inbox, keys, timers, outbox, history>>

(* The process dies: nothing is reported to the queue.                     *)
Crash(p) ==
  /\ Inject
  /\ pc[p] # "idle"
  /\ Retire(p)
  /\ UNCHANGED <<rows, history>>

Stalled(j) ==
  IF j.stalls < MaxStalls
    THEN [j EXCEPT !.state = "waiting", !.stalls = @ + 1, !.owner = NoWorker]
    ELSE [j EXCEPT !.state = "failed", !.owner = NoWorker]

(* The queue takes back the job of a dead worker, or, as a fault, of a     *)
(* worker too busy to renew its lock, which goes on running.               *)
Stall(s) ==
  LET w == jobs[s].owner
      alive == pc[w] # "idle" /\ req[w].kind = "service" /\ req[w].elem = s
  IN /\ jobs[s].state = "active"
     /\ IF alive THEN Inject ELSE UNCHANGED faults
     /\ jobs' = [jobs EXCEPT ![s] = Stalled(@)]
     /\ UNCHANGED <<instance, inbox, keys, timers, outbox, locals, history>>

-----------------------------------------------------------------------------

Arrive(p) ==
  \/ StartWorkflow(p)
  \/ \E e \in UserTasks, u \in Users :
       \/ \E k \in {<<e, u>>} \cup ClientKeys : RequestComplete(p, e, u, k)
       \/ RequestClaim(p, e, u)
       \/ \E v \in Users : RequestDelegate(p, e, u, v)
  \/ RequestCancel(p)
  \/ \E e \in Elements : RequestSkip(p, e)

Proceed(p) ==
  \/ FindByKey(p) \/ ClaimKey(p) \/ CompleteKey(p) \/ Execute(p)
  \/ LoadForTask(p) \/ LoadForService(p)
  \/ CompleteInbox(p) \/ ClaimInbox(p) \/ DelegateInbox(p)
  \/ \E t \in Elements : PassGateway(p, t)
  \/ \E t \in UserTasks : EnterUserTask(p, t)
  \/ ScheduleSla(p) \/ AnnounceTask(p)
  \/ \E s \in ServiceTasks : EnterServiceTask(p, s)
  \/ \E t \in EndEvents : EnterEndEvent(p, t)
  \/ DeadEnd(p)
  \/ Persist(p) \/ AnnounceCancel(p)

Next ==
  \/ \E p \in Clients : Arrive(p)
  \/ \E p \in Workers, s \in ServiceTasks : TakeJob(p, s)
  \/ \E p \in Procs : Proceed(p) \/ Reject(p) \/ Crash(p)
  \/ \E s \in ServiceTasks : Stall(s)
  \/ \E e \in UserTasks : FireTimer(e) \/ CheckEscalation(e) \/ Escalate(e)

Spec == Init /\ [][Next]_vars

(* What the Node event loop and the queue give: a request that can go on   *)
(* goes on, a waiting job is taken, the job of a dead worker is found, a   *)
(* timer fires.  No request ever has to arrive.                            *)
Fairness ==
  /\ \A p \in Procs : WF_vars(Proceed(p))
  /\ \A s \in ServiceTasks : /\ WF_vars(\E p \in Workers : TakeJob(p, s))
                             /\ WF_vars(Stall(s) /\ UNCHANGED faults)
  /\ \A e \in UserTasks : WF_vars(FireTimer(e) \/ CheckEscalation(e) \/ Escalate(e))

FairSpec == Spec /\ Fairness

-----------------------------------------------------------------------------
(* Properties.                                                             *)

(* Every variable keeps to the values its rows and locals can hold.        *)
TypeOK ==
  /\ instance \in InstanceRow
  /\ inbox \in [UserTasks -> InboxRow]
  /\ keys \in [Keys -> {"free", "claimed", "completed"}]
  /\ jobs \in [ServiceTasks -> Job]
  /\ timers \in [UserTasks -> {"none", "scheduled", "escalating", "due",
                               "escalated", "skipped"}]
  /\ outbox \subseteq EventTypes \X (Elements \cup {NoElement})
  /\ pc \in [Procs -> Steps]
  /\ req \in [Procs -> Request]
  /\ at \in [Procs -> Elements \cup {NoElement}]
  /\ task \in [Procs -> InboxRow]
  /\ base \in [Procs -> InstanceRow]
  /\ result \in [Procs -> InstanceRow]
  /\ completions \in [UserTasks -> Nat]
  /\ reopenings \in [UserTasks -> Nat]
  /\ faults \in Nat

(* Optimistic locking does what it is for (updateWithVersion): a request   *)
(* replaces exactly the row it read, so nothing written between its read   *)
(* and its write is lost from the instance row.                            *)
NoLostUpdate ==
  [][ instance.status # "none" /\ instance' # instance
        => \E p \in Procs : pc[p] = "persist" /\ base[p] = instance ]_vars

(* A completion that was acknowledged - its idempotency key holds a result *)
(* and repeats of the request are answered from it - has its form data in  *)
(* the instance's context, whatever other requests did before or after.    *)
AcknowledgedFormKept ==
  \A e \in UserTasks, u \in Users :
    keys[<<e, u>>] = "completed" => e \in instance.forms

(* Each inbox row is completed at most once for each time it was offered:  *)
(* completeTask's conditional update picks one of the racing requests, and *)
(* only a delegation that overwrote a completion offers the task again.    *)
OneCompletionPerOffer ==
  \A e \in UserTasks : completions[e] <= 1 + reopenings[e]

(* Only completeServiceTask and forceSkipElement, which do not look at the *)
(* status, write to an instance that has ended: no user's completion and   *)
(* no second cancel gets past the status they read plus the version check. *)
EndedMovedOnlyByServiceOrSkip ==
  [][ instance.status \in Terminal /\ instance' # instance
        => \E p \in Procs : /\ pc[p] = "persist" /\ pc'[p] # "persist"
                            /\ req[p].kind \in {"service", "skip"} ]_vars

(* An instance that is Completed has announced it: handleEndEvent writes   *)
(* the outbox row before the status can reach the instance row.            *)
CompletionAnnounced ==
  instance.status = "Completed"
    => \E t \in EndEvents : <<"workflow.completed", t>> \in outbox

(* A running instance never points at work that does not exist: the inbox  *)
(* row or the queue job is made before the row that names it is persisted. *)
HaltIsServed ==
  /\ instance.element \in UserTasks => inbox[instance.element].status # "absent"
  /\ instance.element \in ServiceTasks => jobs[instance.element].state # "absent"

(* The steps of a request that holds its idempotency key.                  *)
Holding(p) == pc[p] \in {"execute", "load", "completeInbox", "advance",
                         "scheduleSla", "announceTask", "persist", "completeKey"}

(* The idempotency key makes the service task's handler exclusive: two     *)
(* workers are past the claim of one service task only once it has a       *)
(* result, through the window between findByKey and requireFreshClaim.     *)
HandlerExclusive ==
  \A p, q \in Workers :
    /\ p # q
    /\ req[p].kind = "service" /\ req[q].kind = "service"
    /\ req[p].elem = req[q].elem
    /\ Holding(p) /\ Holding(q)
    => keys[req[p].elem] = "completed"

(* Every service job that was enqueued is settled one day: it is completed *)
(* or has failed for good, whatever died on the way.                       *)
EveryJobSettles ==
  \A s \in ServiceTasks :
    jobs[s].state \in {"waiting", "active"} ~> jobs[s].state \in {"completed", "failed"}

-----------------------------------------------------------------------------
(* The inductive invariant behind the safety properties, part by part.     *)

(* Past its read of the instance and before its write.                     *)
Loaded(p) == pc[p] \in {"completeInbox", "advance", "scheduleSla", "announceTask", "persist"}

Unborn ==
  instance.status = "none" =>
    /\ instance = NoInstance
    /\ \A p \in Procs : pc[p] = "idle"
    /\ \A s \in ServiceTasks : jobs[s].state = "absent"
    /\ \A e \in UserTasks : inbox[e].status = "absent"

(* Which kind of request stands at which step, and with which key.         *)
ShapeOf(p) ==
  /\ req[p].kind = "complete" =>
       /\ req[p].elem \in UserTasks
       /\ req[p].key \in {<<req[p].elem, req[p].user>>} \cup ClientKeys
  /\ req[p].kind = "service" =>
       req[p].elem \in ServiceTasks /\ req[p].key = req[p].elem
  /\ pc[p] \in {"findByKey", "claimKey", "load", "completeKey"} =>
       req[p].kind \in {"complete", "service"}
  /\ pc[p] = "execute" => req[p].kind = "service"
  /\ pc[p] = "completeInbox" =>
       /\ req[p].kind = "complete" /\ at[p] = req[p].elem
       /\ task[p].status \in {"Pending", "Claimed"}
  /\ pc[p] \in {"claimInbox", "delegateInbox"} =>
       req[p].kind \in {"claim", "delegate"} /\ req[p].elem \in UserTasks
  /\ pc[p] \in {"scheduleSla", "announceTask"} => at[p] \in UserTasks
  /\ pc[p] = "advance" => at[p] \in Elements
  /\ pc[p] = "announceCancel" => req[p].kind = "cancel"
  /\ Loaded(p) => req[p].kind \in {"start", "complete", "cancel", "skip", "service"}

Shape == \A p \in Procs : ShapeOf(p)

(* What a request read is the row of its version; it read a live row       *)
(* unless it is one that does not look.                                    *)
SnapshotOf(p) ==
  Loaded(p) =>
    /\ base[p].status # "none"
    /\ base[p].version <= instance.version
    /\ base[p].version = instance.version => base[p] = instance
    /\ req[p].kind \in {"start", "complete", "cancel"} => base[p].status = "Running"

Snapshot == \A p \in Procs : SnapshotOf(p)

Announced == \E t \in EndEvents : <<"workflow.completed", t>> \in outbox

Served(x) ==
  /\ x \in UserTasks => inbox[x].status # "absent"
  /\ x \in ServiceTasks => jobs[x].state # "absent"

(* The row a request is about to write.                                    *)
OutcomeOf(p) ==
  Loaded(p) =>
    /\ result[p].status # "none"
    /\ result[p].status = "Completed" => Announced
    /\ base[p].forms \subseteq result[p].forms
    /\ req[p].kind = "complete" => req[p].elem \in result[p].forms
    /\ Served(result[p].element)

Outcome == \A p \in Procs : OutcomeOf(p)

FormsInRow ==
  /\ \A p \in Procs : pc[p] = "completeKey" /\ req[p].kind = "complete"
                        => req[p].elem \in instance.forms
  /\ AcknowledgedFormKept

OfferBalance ==
  \A e \in UserTasks :
    completions[e] <= reopenings[e] + (IF inbox[e].status = "Completed" THEN 1 ELSE 0)

KeysTaken ==
  /\ \A p \in Procs : Holding(p) /\ req[p].kind = "service"
                        => keys[req[p].elem] # "free"
  /\ HandlerExclusive

IInv ==
  /\ TypeOK
  /\ Unborn
  /\ Shape
  /\ Snapshot
  /\ Outcome
  /\ CompletionAnnounced
  /\ HaltIsServed
  /\ FormsInRow
  /\ OfferBalance
  /\ KeysTaken
=============================================================================
