---------------------------- MODULE WorkflowStart ----------------------------
(***************************************************************************)
(* startWorkflow under an idempotency key, with the key's 24 h expiry: the *)
(* same form is submitted again, by a double click, by a client that timed *)
(* out or the next day.  A claim is one database transaction of up to      *)
(* three statements.  What happens inside the instance is the business of  *)
(* WorkflowOrchestrator: here it is started, and recorded under the key.   *)
(***************************************************************************)
EXTENDS Naturals

CONSTANTS
    Requests,     \* calls of startWorkflow in flight
    Keys,         \* the clients' idempotency keys
    MaxFaults     \* calls that reject or die

VARIABLES
    keys,         \* workflow_idempotency_keys
    lock,         \* whose uncommitted delete holds a key's row
    pc, key,      \* where a call is, and its key
    stale,        \* whether the row it read was replaced since
    mine,         \* the instance it created
    started,      \* the instances created under each key
    serial,       \* next instance id
    inflight,     \* calls running when a key's row was last written
    answered,     \* history: keys under which an instance was answered
    raced,        \* history: keys of which a fresh row was deleted
    late,         \* history: calls begun on a key with a live answer
    faults

vars == <<keys, lock, pc, key, stale, mine, started, serial, inflight, answered, raced, late, faults>>

None == 0
Nobody == "nobody"
NoKey == "no key"

StartAssumption ==
    /\ Nobody \notin Requests
    /\ NoKey \notin Keys
    /\ MaxFaults \in Nat
ASSUME StartAssumption

Row == [there: BOOLEAN, live: BOOLEAN, result: Nat]
NoRow == [there |-> FALSE, live |-> FALSE, result |-> None]
Fresh == [there |-> TRUE, live |-> TRUE, result |-> None]

Busy == {p \in Requests : pc[p] # "idle"}

Init ==
    /\ keys = [k \in Keys |-> NoRow]
    /\ lock = [k \in Keys |-> Nobody]
    /\ pc = [p \in Requests |-> "idle"]
    /\ key = [p \in Requests |-> NoKey]
    /\ stale = [p \in Requests |-> FALSE]
    /\ mine = [p \in Requests |-> None]
    /\ started = [k \in Keys |-> {}]
    /\ serial = 1
    /\ inflight = [k \in Keys |-> {}]
    /\ answered = {}
    /\ raced = {}
    /\ late = {}
    /\ faults = 0

Goto(p, l) == pc' = [pc EXCEPT ![p] = l]

\* The call is over; its transaction, if one is open, rolls back.
End(p) ==
    /\ Goto(p, "idle")
    /\ key' = [key EXCEPT ![p] = NoKey]
    /\ stale' = [stale EXCEPT ![p] = FALSE]
    /\ mine' = [mine EXCEPT ![p] = None]
    /\ late' = late \ {p}
    /\ lock' = [k \in Keys |-> IF lock[k] = p THEN Nobody ELSE lock[k]]

\* A call without a key meets none of this and is left out.
Begin(p, k) ==
    /\ pc[p] = "idle"
    /\ key' = [key EXCEPT ![p] = k]
    /\ Goto(p, "find")
    /\ late' = IF k \in answered /\ keys[k].live THEN late \cup {p} ELSE late
    /\ UNCHANGED <<keys, lock, stale, mine, started, serial, inflight, answered, raced, faults>>

\* Whose call ends takes it off the calls a row waits for (see Expire).
Settles(p) == inflight' = [k \in Keys |-> inflight[k] \ {p}]

\* Mutation: the lookup goes by the instanceId column, which the claim of a
\* start leaves empty.
FoundByColumn(r) == FALSE

Found(r) == r.result # None

\* A result is returned, of an expired key too; a row without one is claimed.
FindByKey(p) ==
    /\ pc[p] = "find"
    /\ IF Found(keys[key[p]])
       THEN End(p) /\ Settles(p)
       ELSE Goto(p, "claim") /\ UNCHANGED <<key, stale, mine, late, lock, inflight>>
    /\ UNCHANGED <<keys, started, serial, answered, raced, faults>>

\* Mutation: an expired key is refused like a live one.
ClaimableNever(r) == ~r.there

\* Whether a claim may take the row's place
Claimable(r) == ~r.live

\* The first statement of the claim.  A live row with a result is not claimed,
\* and requireFreshClaim lets the call go on.
ReadClaim(p) ==
    LET r == keys[key[p]] IN
    /\ pc[p] = "claim"
    /\ \/ /\ Claimable(r)
          /\ Goto(p, IF r.there THEN "delete" ELSE "insert")
          /\ stale' = [stale EXCEPT ![p] = FALSE]
          /\ UNCHANGED <<key, mine, late, lock, inflight>>
       \/ /\ ~Claimable(r) /\ r.result # None
          /\ Goto(p, "create")
          /\ stale' = [stale EXCEPT ![p] = FALSE]
          /\ UNCHANGED <<key, mine, late, lock, inflight>>
       \/ ~Claimable(r) /\ r.result = None /\ End(p) /\ Settles(p)
    /\ UNCHANGED <<keys, started, serial, answered, raced, faults>>

\* The delete goes by the key: it takes whatever row is there now, also a
\* fresh one - or, if it had begun before that one was committed, it finds
\* its own row gone and throws.
DeleteExpired(p) ==
    LET k == key[p] IN
    /\ pc[p] = "delete"
    /\ lock[k] = Nobody
    /\ \/ /\ lock' = [lock EXCEPT ![k] = p]
          /\ Goto(p, "insert")
          /\ raced' = IF stale[p] THEN raced \cup {k} ELSE raced
          /\ UNCHANGED <<key, stale, mine, late, inflight>>
       \/ stale[p] /\ End(p) /\ Settles(p) /\ UNCHANGED raced
    /\ UNCHANGED <<keys, started, serial, answered, faults>>

\* Mutation: the insert became an upsert.
MayInsertAnyhow(p) == lock[key[p]] \in {p, Nobody}

\* It waits for a deleter; a row that is there violates the unique key.
MayInsert(p) == lock[key[p]] = p \/ (lock[key[p]] = Nobody /\ ~keys[key[p]].there)

\* The insert and the commit; the other calls' row is replaced.
InsertClaim(p) ==
    LET k == key[p] IN
    /\ pc[p] = "insert"
    /\ \/ /\ MayInsert(p)
          /\ keys' = [keys EXCEPT ![k] = Fresh]
          /\ lock' = [lock EXCEPT ![k] = Nobody]
          /\ stale' = [q \in Requests |-> IF key[q] = k THEN q # p ELSE stale[q]]
          /\ inflight' = [inflight EXCEPT ![k] = Busy]
          /\ Goto(p, "create")
          /\ UNCHANGED <<key, mine, late>>
       \/ /\ lock[k] = Nobody /\ keys[k].there
          /\ End(p) /\ Settles(p)
          /\ UNCHANGED keys
    /\ UNCHANGED <<started, serial, answered, raced, faults>>

\* The instance row, its first event, the run to the first halt and the save
CreateInstance(p) ==
    /\ pc[p] = "create"
    /\ serial' = serial + 1
    /\ started' = [started EXCEPT ![key[p]] = @ \cup {serial}]
    /\ mine' = [mine EXCEPT ![p] = serial]
    /\ Goto(p, "complete")
    /\ UNCHANGED <<keys, lock, key, stale, inflight, answered, raced, late, faults>>

\* Mutation: the key is recorded for the instance.
ResultOfKey(p) == key[p]

Result(p) == mine[p]

\* The result goes to whatever row the key has.
CompleteKey(p) ==
    LET k == key[p] IN
    /\ pc[p] = "complete"
    /\ lock[k] = Nobody
    /\ End(p)
    /\ \/ /\ keys' = [keys EXCEPT ![k].result = Result(p)]
          /\ inflight' = [j \in Keys |-> (IF j = k THEN Busy ELSE inflight[j]) \ {p}]
          /\ answered' = answered \cup {k}
       \/ stale[p] /\ Settles(p) /\ UNCHANGED <<keys, answered>>
    /\ UNCHANGED <<started, serial, raced, faults>>

\* An await rejects or the process dies; a claimed key stays claimed.
Fail(p) ==
    /\ pc[p] # "idle"
    /\ faults < MaxFaults
    /\ faults' = faults + 1
    /\ End(p) /\ Settles(p)
    /\ UNCHANGED <<keys, started, serial, answered, raced>>

\* 24 hours pass: more than the calls take that ran when the row was written.
Expire(k) ==
    /\ keys[k].live
    /\ inflight[k] = {}
    /\ keys' = [keys EXCEPT ![k].live = FALSE]
    /\ UNCHANGED <<lock, pc, key, stale, mine, started, serial, inflight, answered, raced, late, faults>>

\* What a call does by itself
Proceed(p) ==
    \/ FindByKey(p)
    \/ ReadClaim(p)
    \/ DeleteExpired(p)
    \/ InsertClaim(p)
    \/ CreateInstance(p)
    \/ CompleteKey(p)

Next ==
    \/ \E p \in Requests, k \in Keys : Begin(p, k)
    \/ \E p \in Requests : Proceed(p) \/ Fail(p)
    \/ \E k \in Keys : Expire(k)

Spec == Init /\ [][Next]_vars

\* The event loop goes on with every call, time passes, and the clients of a
\* key ask again whatever those of other keys do.
Fairness ==
    /\ \A p \in Requests : WF_vars(Proceed(p))
    /\ \A k \in Keys : WF_vars(Expire(k)) /\ SF_vars(\E p \in Requests : Begin(p, k))

FairSpec == Spec /\ Fairness

-----------------------------------------------------------------------------
(* Properties *)

Starting == {"create", "complete"}

TypeOK ==
    /\ keys \in [Keys -> Row]
    /\ lock \in [Keys -> Requests \cup {Nobody}]
    /\ pc \in [Requests -> {"idle", "find", "claim", "delete", "insert", "create", "complete"}]
    /\ key \in [Requests -> Keys \cup {NoKey}]
    /\ stale \in [Requests -> BOOLEAN]
    /\ mine \in [Requests -> Nat]
    /\ started \in [Keys -> SUBSET Nat]
    /\ serial \in Nat \ {0}
    /\ inflight \in [Keys -> SUBSET Requests]
    /\ answered \subseteq Keys
    /\ raced \subseteq Keys
    /\ late \subseteq Requests
    /\ faults \in 0 .. MaxFaults

\* Two calls start under one key at once only when a third has recorded its
\* result already - as long as nobody deleted another one's fresh claim.
OneStarter ==
    \A p, q \in Requests :
        p # q /\ key[p] = key[q] /\ key[p] \in Keys \ raced
        /\ pc[p] \in Starting /\ pc[q] \in Starting =>
            keys[key[p]].result # None

\* A call that begins while its key has a live answer starts nothing, though
\* the key may expire before the call looks.  Nothing is said of calls that
\* begin after the expiry: the code gives them the old instance, the runbook
\* would have them start a new one.
LiveAnswerReplayed == \A p \in late : key[p] \notin raced => pc[p] \notin Starting

\* A key whose first call died is not lost: who asks again gets an instance,
\* after the expiry.
EveryKeyAnswered == \A k \in Keys : <>(k \in answered)

-----------------------------------------------------------------------------
(* The inductive invariant: of keys without a race *)

\* A key answered has its result.
ResultKept == \A k \in answered \ raced : keys[k].result # None

\* A call that found no result is waited for by a row that has one, and one
\* that starts by the row it starts under, which is live.
WaitedFor ==
    \A p \in Requests : key[p] \in Keys \ raced =>
        /\ pc[p] \notin {"idle", "find"} /\ keys[key[p]].result # None => p \in inflight[key[p]]
        /\ pc[p] \in Starting => keys[key[p]].live /\ p \in inflight[key[p]]

\* An expired row waits for nobody, and one being replaced is expired.
ExpiredAlone ==
    \A k \in Keys \ raced :
        /\ ~keys[k].live => inflight[k] = {}
        /\ lock[k] # Nobody => ~keys[k].live
        /\ \A p \in Requests : key[p] = k /\ pc[p] = "delete" /\ ~stale[p] => ~keys[k].live

\* Keys, locks and places fit together.
Places ==
    /\ \A k \in Keys : lock[k] # Nobody => key[lock[k]] = k /\ pc[lock[k]] = "insert"
    /\ \A p \in Requests : pc[p] # "idle" <=> key[p] \in Keys
    /\ \A p \in Requests : pc[p] = "complete" => mine[p] # None
    /\ \A p \in Requests : pc[p] \in Starting => keys[key[p]].there
    /\ \A k \in Keys : inflight[k] \subseteq Busy
    /\ \A p \in late : key[p] \in answered
    /\ \A k \in Keys : keys[k].live => keys[k].there
    /\ \A k \in Keys : ~keys[k].there => keys[k].result = None

\* Of a call late for its key nothing but the replay is left.
LateFinds == \A p \in late : key[p] \notin raced => pc[p] = "find"

IInv ==
    /\ TypeOK
    /\ Places
    /\ ResultKept
    /\ WaitedFor
    /\ ExpiredAlone
    /\ OneStarter
    /\ LateFinds

-----------------------------------------------------------------------------
(* What the documentation says, and the code does not keep *)

\* "Pass `idempotencyKey` on start/complete for safe retries": one key starts
\* one instance.
StartedOnce == \A k \in Keys : \A i, j \in started[k] : i = j
=============================================================================
