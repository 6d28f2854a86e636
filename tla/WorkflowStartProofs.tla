------------------------- MODULE WorkflowStartProofs -------------------------
(***************************************************************************)
(* Proofs about WorkflowStart: types, one starter at a time, and that a    *)
(* live answer is only replayed, for any number of calls and keys.         *)
(***************************************************************************)
EXTENDS WorkflowStart, TLAPS

\* A call ends and leaves the rows as they are.
Quit(p) ==
    /\ End(p) /\ Settles(p)
    /\ UNCHANGED <<keys, started, serial, answered, raced>>
    /\ faults' \in 0 .. MaxFaults

\* A call goes on and nothing else happens.
Goes(p, l) ==
    /\ Goto(p, l)
    /\ UNCHANGED <<keys, lock, key, mine, started, serial, inflight, answered, raced, late, faults>>
    /\ stale' \in [Requests -> BOOLEAN]
    /\ \A q \in Requests \ {p} : stale'[q] = stale[q]

LEMMA QuitInv ==
  ASSUME IInv, NEW p \in Requests, Quit(p)
  PROVE  IInv'
  <1>1. TypeOK /\ Places /\ ResultKept /\ WaitedFor /\ ExpiredAlone /\ OneStarter /\ LateFinds
    BY DEF IInv
  <1>2. /\ pc'[p] = "idle" /\ key'[p] = NoKey /\ p \notin late'
        /\ \A q \in Requests \ {p} : /\ pc'[q] = pc[q] /\ key'[q] = key[q] /\ stale'[q] = stale[q]
                                     /\ mine'[q] = mine[q] /\ (q \in late' <=> q \in late)
        /\ \A k \in Keys : lock'[k] = IF lock[k] = p THEN Nobody ELSE lock[k]
        /\ \A k \in Keys : inflight'[k] = inflight[k] \ {p}
        /\ keys' = keys /\ answered' = answered /\ raced' = raced
    BY <1>1 DEF Quit, End, Settles, Goto, TypeOK
  <1>3. NoKey \notin Keys /\ Nobody \notin Requests
    BY StartAssumption DEF StartAssumption
  <1>4. TypeOK'
    BY <1>1, <1>3 DEF Quit, End, Settles, Goto, TypeOK, None
  <1>5. Busy' = Busy \ {p}
    BY <1>2 DEF Busy
  <1>6. Places'
    <2>1. \A k \in Keys : lock'[k] # Nobody => key'[lock'[k]] = k /\ pc'[lock'[k]] = "insert"
      BY <1>1, <1>2 DEF Places, TypeOK
    <2>2. \A q \in Requests : pc'[q] # "idle" <=> key'[q] \in Keys
      BY <1>1, <1>2, <1>3 DEF Places
    <2>3. (\A q \in Requests : pc[q] = "complete" => mine[q] # None)'
      BY <1>1, <1>2 DEF Places
    <2>7. (\A q \in Requests : pc[q] \in Starting => keys[key[q]].there)'
      BY <1>1, <1>2 DEF Places, Starting
    <2>4. \A k \in Keys : inflight'[k] \subseteq Busy'
      BY <1>1, <1>2, <1>5 DEF Places
    <2>5. \A q \in late' : key'[q] \in answered'
      BY <1>1, <1>2, <1>4 DEF Places, TypeOK
    <2>6. (\A k \in Keys : keys'[k].live => keys'[k].there) /\ (\A k \in Keys : ~keys'[k].there => keys'[k].result = None)
      BY <1>1, <1>2 DEF Places
    <2> QED
      BY <2>1, <2>2, <2>3, <2>4, <2>5, <2>6, <2>7 DEF Places
  <1>7. ResultKept'
    BY <1>1, <1>2 DEF ResultKept
  <1>8. WaitedFor'
    BY <1>1, <1>2, <1>3 DEF WaitedFor
  <1>9. ExpiredAlone'
    BY <1>1, <1>2, <1>3 DEF ExpiredAlone
  <1>10. OneStarter'
    BY <1>1, <1>2, <1>3 DEF OneStarter, Starting
  <1>11. LateFinds'
    BY <1>1, <1>2, <1>4 DEF LateFinds, TypeOK
  <1> QED
    BY <1>4, <1>6, <1>7, <1>8, <1>9, <1>10, <1>11 DEF IInv

\* What going on takes: the new place suits the row.
LEMMA GoesInv ==
  ASSUME IInv, NEW p \in Requests, NEW l \in {"claim", "delete", "insert", "create"}, Goes(p, l),
         pc[p] \in {"find", "claim"}, p \notin late \/ key[p] \in raced,
         key[p] \notin raced => (keys[key[p]].result # None => p \in inflight[key[p]]),
         l = "delete" => ~keys[key[p]].live,
         l = "create" => keys[key[p]].live /\ keys[key[p]].result # None
  PROVE  IInv'
  <1>1. TypeOK /\ Places /\ ResultKept /\ WaitedFor /\ ExpiredAlone /\ OneStarter /\ LateFinds
    BY DEF IInv
  <1>2. /\ pc'[p] = l /\ \A q \in Requests \ {p} : pc'[q] = pc[q] /\ stale'[q] = stale[q]
        /\ UNCHANGED <<keys, lock, key, mine, started, serial, inflight, answered, raced, late, faults>>
    BY <1>1 DEF Goes, Goto, TypeOK
  <1>3. TypeOK'
    BY <1>1, <1>2 DEF Goes, Goto, TypeOK
  <1>4. Busy' = Busy
    BY <1>2 DEF Busy
  <1>5. Places'
    <2>1. \A k \in Keys : lock[k] # Nobody => lock[k] # p
      BY <1>1 DEF Places
    <2>2. (\A k \in Keys : lock[k] # Nobody => key[lock[k]] = k /\ pc[lock[k]] = "insert")'
      BY <1>1, <1>2, <2>1 DEF Places, TypeOK
    <2>3. (\A q \in Requests : pc[q] # "idle" <=> key[q] \in Keys)'
      BY <1>1, <1>2 DEF Places
    <2>4. (\A q \in Requests : /\ pc[q] = "complete" => mine[q] # None
                              /\ pc[q] \in Starting => keys[key[q]].there)'
      BY <1>1, <1>2 DEF Places, Starting
    <2> QED
      BY <1>1, <1>2, <1>4, <2>2, <2>3, <2>4 DEF Places
  <1>6. ResultKept'
    BY <1>1, <1>2 DEF ResultKept
  <1>7. WaitedFor'
    BY <1>1, <1>2 DEF WaitedFor, Starting
  <1>8. ExpiredAlone'
    BY <1>1, <1>2 DEF ExpiredAlone
  <1>9. OneStarter'
    BY <1>1, <1>2 DEF OneStarter, Starting
  <1>10. LateFinds'
    BY <1>1, <1>2 DEF LateFinds, TypeOK
  <1> QED
    BY <1>3, <1>5, <1>6, <1>7, <1>8, <1>9, <1>10 DEF IInv

LEMMA BeginInv ==
  ASSUME IInv, NEW p \in Requests, NEW k \in Keys, Begin(p, k)
  PROVE  IInv'
  <1>1. TypeOK /\ Places /\ ResultKept /\ WaitedFor /\ ExpiredAlone /\ OneStarter /\ LateFinds
    BY DEF IInv
  <1>2. /\ pc[p] = "idle" /\ pc'[p] = "find" /\ key'[p] = k
        /\ \A q \in Requests \ {p} : pc'[q] = pc[q] /\ key'[q] = key[q]
        /\ late' = IF k \in answered /\ keys[k].live THEN late \cup {p} ELSE late
        /\ UNCHANGED <<keys, lock, stale, mine, started, serial, inflight, answered, raced, faults>>
    BY <1>1 DEF Begin, Goto, TypeOK
  <1>3. TypeOK'
    BY <1>1, <1>2 DEF Begin, Goto, TypeOK
  <1>4. Busy \subseteq Busy'
    BY <1>2 DEF Busy
  <1>5. p \notin late
    BY <1>1, <1>2, StartAssumption DEF Places, TypeOK, StartAssumption
  <1>6. Places'
    <2>1. \A j \in Keys : lock[j] # Nobody => lock[j] # p
      BY <1>1, <1>2 DEF Places
    <2>2. (\A j \in Keys : lock[j] # Nobody => key[lock[j]] = j /\ pc[lock[j]] = "insert")'
      BY <1>1, <1>2, <2>1 DEF Places, TypeOK
    <2>3. (\A q \in Requests : pc[q] # "idle" <=> key[q] \in Keys)'
      BY <1>1, <1>2 DEF Places
    <2>4. (\A q \in Requests : /\ pc[q] = "complete" => mine[q] # None
                              /\ pc[q] \in Starting => keys[key[q]].there)'
      BY <1>1, <1>2 DEF Places, Starting
    <2>5. (\A q \in late : key[q] \in answered)'
      BY <1>1, <1>2, <1>5 DEF Places, TypeOK
    <2> QED
      BY <1>1, <1>2, <1>4, <2>2, <2>3, <2>4, <2>5 DEF Places
  <1>7. ResultKept'
    BY <1>1, <1>2 DEF ResultKept
  <1>8. WaitedFor'
    BY <1>1, <1>2 DEF WaitedFor, Starting
  <1>9. ExpiredAlone'
    BY <1>1, <1>2 DEF ExpiredAlone
  <1>10. OneStarter'
    BY <1>1, <1>2 DEF OneStarter, Starting
  <1>11. LateFinds'
    BY <1>1, <1>2, <1>5 DEF LateFinds, TypeOK
  <1> QED
    BY <1>3, <1>6, <1>7, <1>8, <1>9, <1>10, <1>11 DEF IInv

LEMMA FindInv ==
  ASSUME IInv, NEW p \in Requests, FindByKey(p)
  PROVE  IInv'
  <1>1. TypeOK /\ Places /\ ResultKept
    BY DEF IInv
  <1>2. CASE Found(keys[key[p]])
    BY <1>1, <1>2, QuitInv DEF FindByKey, Quit, TypeOK
  <1>3. CASE ~Found(keys[key[p]])
    <2>1. Goes(p, "claim") /\ pc[p] = "find" /\ keys[key[p]].result = None
      BY <1>1, <1>3 DEF FindByKey, Goes, Found, TypeOK
    <2>2. p \in late => key[p] \in raced
      BY <1>1, <2>1 DEF Places, ResultKept
    <2> QED
      BY <2>1, <2>2, GoesInv
  <1> QED
    BY <1>2, <1>3

LEMMA ReadInv ==
  ASSUME IInv, NEW p \in Requests, ReadClaim(p)
  PROVE  IInv'
  <1>1. TypeOK /\ Places /\ WaitedFor /\ LateFinds /\ pc[p] = "claim" /\ key[p] \in Keys
    BY DEF IInv, Places, ReadClaim
  <1>2. CASE End(p) /\ Settles(p)
    BY <1>1, <1>2, QuitInv DEF ReadClaim, Quit, TypeOK
  <1>3. p \notin late \/ key[p] \in raced
    BY <1>1 DEF LateFinds
  <1>4. key[p] \notin raced => (keys[key[p]].result # None => p \in inflight[key[p]])
    BY <1>1 DEF WaitedFor
  <1>5. CASE Claimable(keys[key[p]]) /\ ~(End(p) /\ Settles(p))
    <2>1. PICK l \in {"delete", "insert"} : Goes(p, l)
      BY <1>1, <1>5 DEF ReadClaim, Goes, TypeOK
    <2> QED
      BY <1>1, <1>3, <1>4, <1>5, <2>1, GoesInv DEF Claimable
  <1>6. CASE ~Claimable(keys[key[p]]) /\ ~(End(p) /\ Settles(p))
    <2>1. Goes(p, "create") /\ keys[key[p]].result # None
      BY <1>1, <1>6 DEF ReadClaim, Goes, TypeOK
    <2> QED
      BY <1>1, <1>3, <1>4, <1>6, <2>1, GoesInv DEF Claimable
  <1> QED
    BY <1>2, <1>5, <1>6

LEMMA DeleteInv ==
  ASSUME IInv, NEW p \in Requests, DeleteExpired(p)
  PROVE  IInv'
  <1>1. TypeOK /\ Places /\ ResultKept /\ WaitedFor /\ ExpiredAlone /\ OneStarter /\ LateFinds
    BY DEF IInv
  <1>2. PICK k \in Keys : key[p] = k
    BY <1>1 DEF Places, DeleteExpired
  <1>3. CASE End(p) /\ Settles(p) /\ UNCHANGED raced
    BY <1>1, <1>3, QuitInv DEF DeleteExpired, Quit, TypeOK
  <1>4. CASE ~(End(p) /\ Settles(p) /\ UNCHANGED raced)
    <2>1. /\ pc[p] = "delete" /\ pc'[p] = "insert" /\ lock[k] = Nobody
          /\ \A q \in Requests \ {p} : pc'[q] = pc[q]
          /\ \A j \in Keys : lock'[j] = IF j = k THEN p ELSE lock[j]
          /\ raced' = IF stale[p] THEN raced \cup {k} ELSE raced
          /\ UNCHANGED <<keys, key, stale, mine, late, started, serial, inflight, answered, faults>>
      BY <1>1, <1>2, <1>4 DEF DeleteExpired, Goto, TypeOK
    <2>2. TypeOK'
      BY <1>1, <1>2, <1>4 DEF DeleteExpired, Goto, TypeOK
    <2>3. Busy' = Busy
      BY <2>1 DEF Busy
    <2>4. Places'
      <3>1. \A j \in Keys : lock[j] # Nobody => lock[j] # p
        BY <1>1, <2>1 DEF Places
      <3>2. (\A j \in Keys : lock[j] # Nobody => key[lock[j]] = j /\ pc[lock[j]] = "insert")'
        BY <1>1, <1>2, <2>1, <3>1 DEF Places, TypeOK
      <3>3. (\A q \in Requests : pc[q] # "idle" <=> key[q] \in Keys)'
        BY <1>1, <2>1 DEF Places
      <3>4. (\A q \in Requests : /\ pc[q] = "complete" => mine[q] # None
                                /\ pc[q] \in Starting => keys[key[q]].there)'
        BY <1>1, <2>1 DEF Places, Starting
      <3> QED
        BY <1>1, <2>1, <2>3, <3>2, <3>3, <3>4 DEF Places
    <2>5. ResultKept'
      BY <1>1, <2>1 DEF ResultKept
    <2>6. WaitedFor'
      BY <1>1, <2>1 DEF WaitedFor, Starting
    <2>7. ExpiredAlone'
      BY <1>1, <1>2, <2>1 DEF ExpiredAlone
    <2>8. OneStarter'
      BY <1>1, <2>1 DEF OneStarter, Starting
    <2>9. LateFinds'
      BY <1>1, <2>1 DEF LateFinds, TypeOK
    <2> QED
      BY <2>2, <2>4, <2>5, <2>6, <2>7, <2>8, <2>9 DEF IInv
  <1> QED
    BY <1>3, <1>4

LEMMA InsertInv ==
  ASSUME IInv, NEW p \in Requests, InsertClaim(p)
  PROVE  IInv'
  <1>1. TypeOK /\ Places /\ ResultKept /\ WaitedFor /\ ExpiredAlone /\ OneStarter /\ LateFinds
    BY DEF IInv
  <1>2. PICK k \in Keys : key[p] = k
    BY <1>1 DEF Places, InsertClaim
  <1>3. CASE End(p) /\ Settles(p)
    <2>1. CASE UNCHANGED keys
      BY <1>1, <1>3, <2>1, QuitInv DEF InsertClaim, Quit, TypeOK
    <2>2. CASE keys' # keys
      <3>1. pc'[p] = "idle"
        BY <1>1, <1>3 DEF End, Goto, TypeOK
      <3>2. ~Goto(p, "create")
        BY <1>1, <3>1 DEF Goto, TypeOK
      <3> QED
        BY <2>2, <3>2 DEF InsertClaim
    <2> QED
      BY <2>1, <2>2
  <1>4. CASE ~(End(p) /\ Settles(p))
    <2>1. /\ pc[p] = "insert" /\ MayInsert(p) /\ pc'[p] = "create"
          /\ \A q \in Requests \ {p} : pc'[q] = pc[q]
          /\ \A j \in Keys : keys'[j] = IF j = k THEN Fresh ELSE keys[j]
          /\ \A j \in Keys : lock'[j] = IF j = k THEN Nobody ELSE lock[j]
          /\ \A j \in Keys : inflight'[j] = IF j = k THEN Busy ELSE inflight[j]
          /\ \A q \in Requests : stale'[q] = IF key[q] = k THEN q # p ELSE stale[q]
          /\ UNCHANGED <<key, mine, late, started, serial, answered, raced, faults>>
      BY <1>1, <1>2, <1>4 DEF InsertClaim, Goto, TypeOK
    <2>2. TypeOK'
      <3>1. keys' \in [Keys -> Row] /\ inflight' \in [Keys -> SUBSET Requests]
        <4>1. Fresh \in Row /\ Busy \subseteq Requests
          BY DEF Fresh, Row, None, Busy
        <4>2. keys' = [keys EXCEPT ![k] = Fresh] /\ inflight' = [inflight EXCEPT ![k] = Busy]
          BY <1>2, <1>4 DEF InsertClaim
        <4> QED
          BY <1>1, <4>1, <4>2 DEF TypeOK
      <3>2. lock' \in [Keys -> Requests \cup {Nobody}] /\ stale' \in [Requests -> BOOLEAN]
        BY <1>1, <1>2, <1>4 DEF InsertClaim, TypeOK
      <3>3. pc' \in [Requests -> {"idle", "find", "claim", "delete", "insert", "create", "complete"}]
        <4>1. Goto(p, "create")
          BY <1>4 DEF InsertClaim
        <4> QED
          BY <1>1, <4>1 DEF Goto, TypeOK
      <3> QED
        BY <1>1, <2>1, <3>1, <3>2, <3>3 DEF TypeOK
    <2>3. Busy' = Busy
      BY <2>1 DEF Busy
    <2>4. Fresh.live /\ Fresh.there /\ Fresh.result = None
      BY DEF Fresh
    <2>5. k \notin raced => /\ k \notin answered
                           /\ \A q \in Requests : key[q] = k => pc[q] \notin Starting
      <3>1. CASE lock[k] = p
        BY <1>1, <1>2, <2>1, <3>1, StartAssumption DEF StartAssumption, ResultKept, WaitedFor, ExpiredAlone
      <3>2. CASE ~keys[k].there
        BY <1>1, <1>2, <2>1, <3>2 DEF ResultKept, WaitedFor, Places
      <3> QED
        BY <1>2, <2>1, <3>1, <3>2 DEF MayInsert
    <2>6. Places'
      <3>1. \A j \in Keys \ {k} : lock[j] # Nobody => lock[j] # p
        BY <1>1, <1>2 DEF Places
      <3>2. (\A j \in Keys : lock[j] # Nobody => key[lock[j]] = j /\ pc[lock[j]] = "insert")'
        BY <1>1, <2>1, <3>1 DEF Places, TypeOK
      <3>3. (\A q \in Requests : pc[q] # "idle" <=> key[q] \in Keys)'
        BY <1>1, <1>2, <2>1 DEF Places
      <3>4. (\A q \in Requests : /\ pc[q] = "complete" => mine[q] # None
                                /\ pc[q] \in Starting => keys[key[q]].there)'
        BY <1>1, <1>2, <2>1, <2>4, <3>3 DEF Places, Starting
      <3>5. (\A j \in Keys : inflight[j] \subseteq Busy)'
        BY <1>1, <2>1, <2>3 DEF Places
      <3>6. (\A j \in Keys : (keys[j].live => keys[j].there) /\ (~keys[j].there => keys[j].result = None))'
        BY <1>1, <2>1, <2>4 DEF Places
      <3> QED
        BY <1>1, <2>1, <3>2, <3>3, <3>4, <3>5, <3>6 DEF Places
    <2>7. ResultKept'
      BY <1>1, <2>1, <2>5 DEF ResultKept, TypeOK
    <2>8. WaitedFor'
      <3>1. p \in Busy
        BY <2>1 DEF Busy
      <3> QED
        BY <1>1, <1>2, <2>1, <2>4, <2>5, <3>1 DEF WaitedFor, Starting
    <2>9. ExpiredAlone'
      <3> SUFFICES ASSUME NEW j \in Keys, j \notin raced
                   PROVE  /\ ~keys'[j].live => inflight'[j] = {}
                          /\ lock'[j] # Nobody => ~keys'[j].live
                          /\ \A q \in Requests : key[q] = j /\ pc'[q] = "delete" /\ ~stale'[q] => ~keys'[j].live
        BY <2>1 DEF ExpiredAlone
      <3>1. CASE j = k
        BY <1>2, <2>1, <2>4, <3>1
      <3>2. CASE j # k
        BY <1>1, <1>2, <2>1, <3>2 DEF ExpiredAlone
      <3> QED
        BY <3>1, <3>2
    <2>10. OneStarter'
      BY <1>1, <1>2, <2>1, <2>5 DEF OneStarter, Starting
    <2>11. LateFinds'
      BY <1>1, <2>1 DEF LateFinds, TypeOK
    <2> QED
      BY <2>2, <2>6, <2>7, <2>8, <2>9, <2>10, <2>11 DEF IInv
  <1> QED
    BY <1>3, <1>4

LEMMA CreateInv ==
  ASSUME IInv, NEW p \in Requests, CreateInstance(p)
  PROVE  IInv'
  <1>1. TypeOK /\ Places /\ ResultKept /\ WaitedFor /\ ExpiredAlone /\ OneStarter /\ LateFinds
    BY DEF IInv
  <1>2. /\ pc[p] = "create" /\ pc'[p] = "complete" /\ mine'[p] = serial
        /\ \A q \in Requests \ {p} : pc'[q] = pc[q] /\ mine'[q] = mine[q]
        /\ UNCHANGED <<keys, lock, key, stale, inflight, answered, raced, late, faults>>
    BY <1>1 DEF CreateInstance, Goto, TypeOK
  <1>3. TypeOK'
    <2>1. serial \in Nat /\ serial' \in Nat \ {0}
      BY <1>1 DEF CreateInstance, TypeOK
    <2>2. started' \in [Keys -> SUBSET Nat] /\ mine' \in [Requests -> Nat]
      BY <1>1, <2>1 DEF CreateInstance, TypeOK
    <2>3. pc' \in [Requests -> {"idle", "find", "claim", "delete", "insert", "create", "complete"}]
      BY <1>1 DEF CreateInstance, Goto, TypeOK
    <2> QED
      BY <1>1, <1>2, <2>1, <2>2, <2>3 DEF CreateInstance, TypeOK
  <1>4. Busy' = Busy
    BY <1>2 DEF Busy
  <1>5. Places'
    <2>1. \A k \in Keys : lock[k] # Nobody => lock[k] # p
      BY <1>1, <1>2 DEF Places
    <2>2. (\A k \in Keys : lock[k] # Nobody => key[lock[k]] = k /\ pc[lock[k]] = "insert")'
      BY <1>1, <1>2, <2>1 DEF Places, TypeOK
    <2>3. (\A q \in Requests : pc[q] # "idle" <=> key[q] \in Keys)'
      BY <1>1, <1>2 DEF Places
    <2>4. (\A q \in Requests : pc[q] = "complete" => mine[q] # None)'
      BY <1>1, <1>2 DEF Places, TypeOK, None
    <2>5. (\A q \in Requests : pc[q] \in Starting => keys[key[q]].there)'
      BY <1>1, <1>2 DEF Places, Starting
    <2> QED
      BY <1>1, <1>2, <1>4, <2>2, <2>3, <2>4, <2>5 DEF Places
  <1>6. ResultKept' /\ LateFinds'
    BY <1>1, <1>2 DEF ResultKept, LateFinds, TypeOK, Starting
  <1>7. WaitedFor'
    BY <1>1, <1>2 DEF WaitedFor, Starting
  <1>8. ExpiredAlone'
    BY <1>1, <1>2 DEF ExpiredAlone
  <1>9. OneStarter'
    BY <1>1, <1>2 DEF OneStarter, Starting
  <1> QED
    BY <1>3, <1>5, <1>6, <1>7, <1>8, <1>9 DEF IInv

LEMMA CompleteInv ==
  ASSUME IInv, NEW p \in Requests, CompleteKey(p)
  PROVE  IInv'
  <1>1. TypeOK /\ Places /\ ResultKept /\ WaitedFor /\ ExpiredAlone /\ OneStarter /\ LateFinds
    BY DEF IInv
  <1>2. PICK k \in Keys : key[p] = k
    BY <1>1 DEF Places, CompleteKey
  <1>3. CASE Settles(p) /\ UNCHANGED <<keys, answered>>
    BY <1>1, <1>3, QuitInv DEF CompleteKey, Quit, TypeOK
  <1>4. CASE ~(Settles(p) /\ UNCHANGED <<keys, answered>>)
    <2>1. /\ keys' = [keys EXCEPT ![k].result = mine[p]]
          /\ inflight' = [j \in Keys |-> (IF j = k THEN Busy ELSE inflight[j]) \ {p}]
          /\ answered' = answered \cup {k}
          /\ UNCHANGED <<started, serial, raced, faults>>
          /\ pc[p] = "complete" /\ lock[k] = Nobody /\ End(p)
      BY <1>2, <1>4 DEF CompleteKey, Result
    <2>2. /\ pc'[p] = "idle" /\ key'[p] = NoKey /\ late' = late \ {p}
          /\ \A q \in Requests \ {p} : /\ pc'[q] = pc[q] /\ key'[q] = key[q]
                                       /\ stale'[q] = stale[q] /\ mine'[q] = mine[q]
          /\ \A j \in Keys : lock'[j] = IF lock[j] = p THEN Nobody ELSE lock[j]
      BY <1>1, <2>1 DEF End, Goto, TypeOK
    <2>3. keys' = [keys EXCEPT ![k] = [keys[k] EXCEPT !.result = mine[p]]]
      BY <2>1
    <2>4. [keys[k] EXCEPT !.result = mine[p]] \in Row /\ keys[k] \in Row
      BY <1>1 DEF TypeOK, Row
    <2>5. /\ \A j \in Keys : keys'[j] = IF j = k THEN [keys[k] EXCEPT !.result = mine[p]] ELSE keys[j]
          /\ keys' \in [Keys -> Row]
      BY <1>1, <2>3, <2>4 DEF TypeOK
    <2>6. \A j \in Keys : /\ keys'[j].there = keys[j].there /\ keys'[j].live = keys[j].live
                        /\ keys'[j].result = IF j = k THEN mine[p] ELSE keys[j].result
      BY <2>4, <2>5 DEF Row
    <2>7. mine[p] # None /\ keys[k].there
      BY <1>1, <1>2, <2>1 DEF Places, Starting
    <2>8. NoKey \notin Keys /\ Nobody \notin Requests
      BY StartAssumption DEF StartAssumption
    <2>9. TypeOK'
      <3>1. inflight' \in [Keys -> SUBSET Requests]
        BY <1>1, <2>1 DEF TypeOK, Busy
      <3>2. lock' \in [Keys -> Requests \cup {Nobody}] /\ late' \subseteq Requests
        BY <1>1, <2>1 DEF End, TypeOK
      <3>3. /\ pc' \in [Requests -> {"idle", "find", "claim", "delete", "insert", "create", "complete"}]
            /\ key' \in [Requests -> Keys \cup {NoKey}]
            /\ stale' \in [Requests -> BOOLEAN] /\ mine' \in [Requests -> Nat]
        BY <1>1, <2>1 DEF End, Goto, TypeOK, None
      <3> QED
        BY <1>1, <2>1, <2>5, <3>1, <3>2, <3>3 DEF TypeOK
    <2>10. Busy' = Busy \ {p}
      BY <2>1, <2>2 DEF Busy
    <2>11. Places'
      <3>1. (\A j \in Keys : lock[j] # Nobody => key[lock[j]] = j /\ pc[lock[j]] = "insert")'
        BY <1>1, <2>2 DEF Places, TypeOK
      <3>2. (\A q \in Requests : pc[q] # "idle" <=> key[q] \in Keys)'
        BY <1>1, <2>2, <2>8 DEF Places
      <3>3. (\A q \in Requests : pc[q] = "complete" => mine[q] # None)'
        BY <1>1, <2>2 DEF Places
      <3>4. (\A q \in Requests : pc[q] \in Starting => keys[key[q]].there)'
        BY <1>1, <2>2, <2>6, <3>2 DEF Places, Starting
      <3>5. (\A j \in Keys : inflight[j] \subseteq Busy)'
        BY <1>1, <2>1, <2>10 DEF Places
      <3>6. (\A q \in late : key[q] \in answered)'
        BY <1>1, <2>1, <2>2 DEF Places, TypeOK
      <3>7. (\A j \in Keys : keys[j].live => keys[j].there)' /\ (\A j \in Keys : ~keys[j].there => keys[j].result = None)'
        BY <1>1, <2>6, <2>7 DEF Places
      <3> QED
        BY <3>1, <3>2, <3>3, <3>4, <3>5, <3>6, <3>7 DEF Places
    <2>12. ResultKept'
      BY <1>1, <2>1, <2>6, <2>7 DEF ResultKept, TypeOK
    <2>13. WaitedFor'
      <3> SUFFICES ASSUME NEW q \in Requests, key'[q] \in Keys, key'[q] \notin raced
                   PROVE  /\ pc'[q] \notin {"idle", "find"} /\ keys'[key'[q]].result # None => q \in inflight'[key'[q]]
                          /\ pc'[q] \in Starting => keys'[key'[q]].live /\ q \in inflight'[key'[q]]
        BY <2>1 DEF WaitedFor
      <3>1. q # p /\ key[q] = key'[q] /\ pc'[q] = pc[q]
        BY <2>2, <2>8
      <3>2. inflight'[key[q]] = (IF key[q] = k THEN Busy ELSE inflight[key[q]]) \ {p}
        BY <2>1, <3>1
      <3>3. CASE key[q] = k
        BY <1>1, <2>6, <3>1, <3>2, <3>3 DEF WaitedFor, Busy, Starting
      <3>4. CASE key[q] # k
        BY <1>1, <2>6, <3>1, <3>2, <3>4 DEF WaitedFor
      <3> QED
        BY <3>3, <3>4
    <2>14. ExpiredAlone'
      <3> SUFFICES ASSUME NEW j \in Keys, j \notin raced
                   PROVE  /\ ~keys'[j].live => inflight'[j] = {}
                          /\ lock'[j] # Nobody => ~keys'[j].live
                          /\ \A q \in Requests : key'[q] = j /\ pc'[q] = "delete" /\ ~stale'[q] => ~keys'[j].live
        BY <2>1 DEF ExpiredAlone
      <3>1. j = k => keys[j].live
        BY <1>1, <1>2, <2>1 DEF WaitedFor, Starting
      <3>2. ~keys'[j].live => inflight'[j] = {}
        BY <1>1, <2>1, <2>6, <3>1 DEF ExpiredAlone
      <3>3. lock'[j] # Nobody => ~keys'[j].live
        BY <1>1, <2>2, <2>6 DEF ExpiredAlone
      <3>4. \A q \in Requests : key'[q] = j /\ pc'[q] = "delete" /\ ~stale'[q] => ~keys'[j].live
        BY <1>1, <2>2, <2>6 DEF ExpiredAlone
      <3> QED
        BY <3>2, <3>3, <3>4
    <2>15. OneStarter'
      BY <1>1, <2>1, <2>2, <2>6, <2>7, <2>8 DEF OneStarter, Starting
    <2>16. LateFinds'
      BY <1>1, <2>1, <2>2 DEF LateFinds, TypeOK
    <2> QED
      BY <2>9, <2>11, <2>12, <2>13, <2>14, <2>15, <2>16 DEF IInv
  <1> QED
    BY <1>3, <1>4

LEMMA ExpireInv ==
  ASSUME IInv, NEW k \in Keys, Expire(k)
  PROVE  IInv'
  <1>1. TypeOK /\ Places /\ ResultKept /\ WaitedFor /\ ExpiredAlone /\ OneStarter /\ LateFinds
    BY DEF IInv
  <1>2. /\ inflight[k] = {} /\ keys[k].live
        /\ keys' = [keys EXCEPT ![k] = [keys[k] EXCEPT !.live = FALSE]]
        /\ UNCHANGED <<lock, pc, key, stale, mine, started, serial, inflight, answered, raced, late, faults>>
    BY DEF Expire
  <1>3. [keys[k] EXCEPT !.live = FALSE] \in Row /\ keys[k] \in Row
    <2>1. keys[k] \in Row
      BY <1>1 DEF TypeOK
    <2> QED
      BY <2>1 DEF Row
  <1>4. /\ \A j \in Keys : keys'[j] = IF j = k THEN [keys[k] EXCEPT !.live = FALSE] ELSE keys[j]
        /\ keys' \in [Keys -> Row]
    BY <1>1, <1>2, <1>3 DEF TypeOK
  <1>5. \A j \in Keys : /\ keys'[j].there = keys[j].there /\ keys'[j].result = keys[j].result
                      /\ keys'[j].live <=> j # k /\ keys[j].live
    BY <1>3, <1>4 DEF Row
  <1>6. TypeOK'
    BY <1>1, <1>2, <1>4 DEF TypeOK
  <1>7. Places'
    <2>1. (\A q \in Requests : pc[q] \in Starting => keys[key[q]].there)'
      BY <1>1, <1>2, <1>5 DEF Places, Starting
    <2>2. (\A j \in Keys : keys[j].live => keys[j].there)' /\ (\A j \in Keys : ~keys[j].there => keys[j].result = None)'
      BY <1>1, <1>2, <1>5 DEF Places
    <2>3. (\A j \in Keys : lock[j] # Nobody => key[lock[j]] = j /\ pc[lock[j]] = "insert")'
      BY <1>1, <1>2 DEF Places
    <2>4. /\ (\A q \in Requests : pc[q] # "idle" <=> key[q] \in Keys)'
          /\ (\A q \in Requests : pc[q] = "complete" => mine[q] # None)'
      BY <1>1, <1>2 DEF Places
    <2>5. (\A j \in Keys : inflight[j] \subseteq Busy)' /\ (\A q \in late : key[q] \in answered)'
      BY <1>1, <1>2 DEF Places, Busy
    <2> QED
      BY <2>1, <2>2, <2>3, <2>4, <2>5 DEF Places
  <1>8. ResultKept' /\ LateFinds'
    BY <1>1, <1>2, <1>5 DEF ResultKept, LateFinds, TypeOK
  <1>9. WaitedFor'
    BY <1>1, <1>2, <1>5 DEF WaitedFor
  <1>10. ExpiredAlone'
    BY <1>1, <1>2, <1>5 DEF ExpiredAlone
  <1>11. OneStarter'
    BY <1>1, <1>2, <1>5 DEF OneStarter
  <1> QED
    BY <1>6, <1>7, <1>8, <1>9, <1>10, <1>11 DEF IInv

LEMMA InitInv == Init => IInv
  <1> SUFFICES ASSUME Init PROVE IInv
    OBVIOUS
  <1>1. NoKey \notin Keys /\ MaxFaults \in Nat
    BY StartAssumption DEF StartAssumption
  <1>2. TypeOK
    BY <1>1 DEF Init, TypeOK, Row, NoRow, None
  <1>3. Places
    BY <1>1 DEF Init, Places, NoRow, Starting
  <1>4. ResultKept /\ WaitedFor /\ ExpiredAlone /\ OneStarter /\ LateFinds
    BY <1>1 DEF Init, ResultKept, WaitedFor, ExpiredAlone, OneStarter, LateFinds
  <1> QED
    BY <1>2, <1>3, <1>4 DEF IInv

LEMMA NextInv ==
  ASSUME IInv, [Next]_vars
  PROVE  IInv'
  <1>1. ASSUME NEW p \in Requests, Fail(p) PROVE IInv'
    BY <1>1, QuitInv, StartAssumption DEF Fail, Quit, IInv, TypeOK, StartAssumption
  <1>2. ASSUME NEW p \in Requests, Proceed(p) PROVE IInv'
    BY <1>2, FindInv, ReadInv, DeleteInv, InsertInv, CreateInv, CompleteInv DEF Proceed
  <1>3. CASE UNCHANGED vars
    <2>1. TypeOK /\ Places /\ ResultKept /\ WaitedFor /\ ExpiredAlone /\ OneStarter /\ LateFinds
      BY DEF IInv
    <2>2. UNCHANGED <<keys, lock, pc, key, stale, mine, started, serial, inflight, answered, raced, late, faults>>
      BY <1>3 DEF vars
    <2>3. TypeOK' /\ Places'
      BY <2>1, <2>2 DEF TypeOK, Places, Busy
    <2>4. ResultKept' /\ WaitedFor' /\ ExpiredAlone'
      BY <2>1, <2>2 DEF ResultKept, WaitedFor, ExpiredAlone
    <2>5. OneStarter' /\ LateFinds'
      BY <2>1, <2>2 DEF OneStarter, LateFinds
    <2> QED
      BY <2>3, <2>4, <2>5 DEF IInv
  <1> QED
    BY <1>1, <1>2, <1>3, BeginInv, ExpireInv DEF Next

\* The inductive invariant holds in every reachable state.
THEOREM InvTheorem == Spec => []IInv
  <1>1. IInv /\ [Next]_vars => IInv'
    BY NextInv
  <1> QED
    BY <1>1, InitInv, PTL DEF Spec

\* The keys, the locks and the calls keep their types.
THEOREM TypeTheorem == Spec => []TypeOK
  <1>1. IInv => TypeOK
    BY DEF IInv
  <1> QED
    BY <1>1, InvTheorem, PTL

\* The claim lets one call start at a time, until a result is recorded.
THEOREM OneStarterTheorem == Spec => []OneStarter
  <1>1. IInv => OneStarter
    BY DEF IInv
  <1> QED
    BY <1>1, InvTheorem, PTL

\* A call begun while its key had a live answer starts nothing, whatever expires
\* before it looks.
THEOREM ReplayTheorem == Spec => []LiveAnswerReplayed
  <1>1. IInv => LiveAnswerReplayed
    BY DEF IInv, LateFinds, LiveAnswerReplayed, Starting
  <1> QED
    BY <1>1, InvTheorem, PTL
=============================================================================
