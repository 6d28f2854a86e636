------------------------- MODULE DocumentStoreProofs -------------------------
(***************************************************************************)
(* Proofs about DocumentStore: types, the limit, files behind documents    *)
(* and documents behind files, for any number of documents, entities and   *)
(* requests, and any faults.                                               *)
(***************************************************************************)
EXTENDS DocumentStore, FiniteSetTheorems, TLAPS

\* A step of request p
StepOf(p) ==
    \/ \E d \in Documents : Upload(p, d)
    \/ \E d \in Documents, op \in {"delete", "rename"} : Find(p, d, op)
    \/ Count(p) \/ StoreFile(p) \/ Insert(p) \/ FailInsert(p)
    \/ Recount(p) \/ Uploaded(p)
    \/ DeleteRow(p) \/ RemoveFile(p) \/ Rename(p)
    \/ Fail(p)

LEMMA NoneIsNoDocument == None \notin Documents
  BY StoreAssumption DEF StoreAssumption

LEMMA MappingsType == Mappings \in [Documents -> SUBSET Entities]
  BY StoreAssumption DEF StoreAssumption

\* A request that is not idle has a document.
LEMMA HasDocument ==
  ASSUME TypeOK, NEW p \in Requests, ShapeOf(p), pc[p] # "idle"
  PROVE  doc[p] \in Documents
  BY NoneIsNoDocument DEF TypeOK, ShapeOf

\* Types are kept.
LEMMA TypeStep ==
  ASSUME IInv, NEW p \in Requests, StepOf(p)
  PROVE  TypeOK'
  <1> USE NoneIsNoDocument, MappingsType
  <1>0. TypeOK /\ (\A q \in Requests : ShapeOf(q)) /\ UploadsApart /\ ListedHasFile /\ FilesAccounted
    BY DEF IInv
  <1>h. pc[p] # "idle" => doc[p] \in Documents
    BY <1>0, HasDocument
  <1>m. faults < MaxFaults => faults + 1 \in 0 .. MaxFaults
    BY <1>0, StoreAssumption DEF StoreAssumption, TypeOK
  <1>1. ASSUME NEW d \in Documents, Upload(p, d)
        PROVE  TypeOK'
    BY <1>1, <1>0, <1>h DEF Upload, TypeOK, Goto, history
  <1>2. ASSUME NEW d \in Documents, NEW op \in {"delete", "rename"}, Find(p, d, op)
        PROVE  TypeOK'
    BY <1>2, <1>0, <1>h DEF Find, TypeOK, Goto, history
  <1>3. CASE Count(p)
    BY <1>3, <1>0, <1>h DEF Count, TypeOK, Goto, End, history
  <1>4. CASE StoreFile(p)
    BY <1>4, <1>0, <1>h DEF StoreFile, TypeOK, Goto, history
  <1>5. CASE Insert(p)
    BY <1>5, <1>0, <1>h DEF Insert, TypeOK, Goto, Write, Written, history
  <1>6. CASE FailInsert(p)
    BY <1>6, <1>0, <1>h, <1>m DEF FailInsert, TypeOK, Goto, Write, Written, history
  <1>7. CASE Recount(p)
    BY <1>7, <1>0, <1>h DEF Recount, TypeOK, Goto, history
  <1>8. CASE Uploaded(p)
    BY <1>8, <1>0, <1>h DEF Uploaded, TypeOK, Goto, End, history
  <1>9. CASE DeleteRow(p)
    BY <1>9, <1>0, <1>h DEF DeleteRow, TypeOK, Goto, Write, Written, history
  <1>10. CASE RemoveFile(p)
    BY <1>10, <1>0, <1>h DEF RemoveFile, TypeOK, Goto, End, history
  <1>11. CASE Rename(p)
    BY <1>11, <1>0, <1>h DEF Rename, TypeOK, Goto, End, Write, Written, history
  <1>12. CASE Fail(p)
    BY <1>12, <1>0, <1>h, <1>m DEF Fail, TypeOK, Goto, End, history
  <1> QED
    BY <1>1, <1>2, <1>3, <1>4, <1>5, <1>6, <1>7, <1>8, <1>9, <1>10, <1>11, <1>12 DEF StepOf

\* Every request goes on knowing where its document is.
LEMMA ShapeStep ==
  ASSUME IInv, NEW p \in Requests, StepOf(p)
  PROVE  \A q \in Requests : ShapeOf(q)'
  <1> USE NoneIsNoDocument, MappingsType
  <1>0. TypeOK /\ (\A q \in Requests : ShapeOf(q)) /\ UploadsApart /\ ListedHasFile /\ FilesAccounted
    BY DEF IInv
  <1>h. pc[p] # "idle" => doc[p] \in Documents
    BY <1>0, HasDocument
  <1>1. ASSUME NEW d \in Documents, Upload(p, d)
        PROVE  \A q \in Requests : ShapeOf(q)'
    BY <1>1, <1>0, <1>h DEF Upload, TypeOK, ShapeOf, UploadsApart, Goto, history
  <1>2. ASSUME NEW d \in Documents, NEW op \in {"delete", "rename"}, Find(p, d, op)
        PROVE  \A q \in Requests : ShapeOf(q)'
    BY <1>2, <1>0, <1>h DEF Find, TypeOK, ShapeOf, UploadsApart, Goto, history
  <1>3. CASE Count(p)
    BY <1>3, <1>0, <1>h DEF Count, TypeOK, ShapeOf, UploadsApart, Goto, End, history
  <1>4. CASE StoreFile(p)
    BY <1>4, <1>0, <1>h DEF StoreFile, TypeOK, ShapeOf, UploadsApart, Goto, history
  <1>5. CASE Insert(p)
    BY <1>5, <1>0, <1>h DEF Insert, TypeOK, ShapeOf, UploadsApart, Goto, Write, Written, history
  <1>6. CASE FailInsert(p)
    BY <1>6, <1>0, <1>h DEF FailInsert, TypeOK, ShapeOf, UploadsApart, Goto, Write, Written, history
  <1>7. CASE Recount(p)
    BY <1>7, <1>0, <1>h DEF Recount, TypeOK, ShapeOf, UploadsApart, Goto, history
  <1>8. CASE Uploaded(p)
    BY <1>8, <1>0, <1>h DEF Uploaded, TypeOK, ShapeOf, UploadsApart, Goto, End, history
  <1>9. CASE DeleteRow(p)
    BY <1>9, <1>0, <1>h DEF DeleteRow, TypeOK, ShapeOf, UploadsApart, Goto, Write, Written, history
  <1>10. CASE RemoveFile(p)
    BY <1>10, <1>0, <1>h DEF RemoveFile, TypeOK, ShapeOf, UploadsApart, Goto, End, history
  <1>11. CASE Rename(p)
    BY <1>11, <1>0, <1>h DEF Rename, TypeOK, ShapeOf, UploadsApart, Goto, End, Write, Written, history
  <1>12. CASE Fail(p)
    BY <1>12, <1>0, <1>h DEF Fail, TypeOK, ShapeOf, UploadsApart, Goto, End, history
  <1> QED
    BY <1>1, <1>2, <1>3, <1>4, <1>5, <1>6, <1>7, <1>8, <1>9, <1>10, <1>11, <1>12 DEF StepOf

\* No two requests come to hold a document not yet inserted.
LEMMA ApartStep ==
  ASSUME IInv, NEW p \in Requests, StepOf(p)
  PROVE  UploadsApart'
  <1> USE NoneIsNoDocument, MappingsType
  <1>0. TypeOK /\ (\A q \in Requests : ShapeOf(q)) /\ UploadsApart /\ ListedHasFile /\ FilesAccounted
    BY DEF IInv
  <1>h. pc[p] # "idle" => doc[p] \in Documents
    BY <1>0, HasDocument
  <1>1. ASSUME NEW d \in Documents, Upload(p, d)
        PROVE  UploadsApart'
    BY <1>1, <1>0, <1>h DEF Upload, TypeOK, ShapeOf, UploadsApart, Goto, history
  <1>2. ASSUME NEW d \in Documents, NEW op \in {"delete", "rename"}, Find(p, d, op)
        PROVE  UploadsApart'
    BY <1>2, <1>0, <1>h DEF Find, TypeOK, ShapeOf, UploadsApart, Goto, history
  <1>3. CASE Count(p)
    BY <1>3, <1>0, <1>h DEF Count, TypeOK, ShapeOf, UploadsApart, Goto, End, history
  <1>4. CASE StoreFile(p)
    BY <1>4, <1>0, <1>h DEF StoreFile, TypeOK, ShapeOf, UploadsApart, Goto, history
  <1>5. CASE Insert(p)
    BY <1>5, <1>0, <1>h DEF Insert, TypeOK, ShapeOf, UploadsApart, Goto, Write, Written, history
  <1>6. CASE FailInsert(p)
    BY <1>6, <1>0, <1>h DEF FailInsert, TypeOK, ShapeOf, UploadsApart, Goto, Write, Written, history
  <1>7. CASE Recount(p)
    BY <1>7, <1>0, <1>h DEF Recount, TypeOK, ShapeOf, UploadsApart, Goto, history
  <1>8. CASE Uploaded(p)
    BY <1>8, <1>0, <1>h DEF Uploaded, TypeOK, ShapeOf, UploadsApart, Goto, End, history
  <1>9. CASE DeleteRow(p)
    BY <1>9, <1>0, <1>h DEF DeleteRow, TypeOK, ShapeOf, UploadsApart, Goto, Write, Written, history
  <1>10. CASE RemoveFile(p)
    BY <1>10, <1>0, <1>h DEF RemoveFile, TypeOK, ShapeOf, UploadsApart, Goto, End, history
  <1>11. CASE Rename(p)
    BY <1>11, <1>0, <1>h DEF Rename, TypeOK, ShapeOf, UploadsApart, Goto, End, Write, Written, history
  <1>12. CASE Fail(p)
    BY <1>12, <1>0, <1>h DEF Fail, TypeOK, ShapeOf, UploadsApart, Goto, End, history
  <1> QED
    BY <1>1, <1>2, <1>3, <1>4, <1>5, <1>6, <1>7, <1>8, <1>9, <1>10, <1>11, <1>12 DEF StepOf

\* A file goes only after its row.
LEMMA FileStep ==
  ASSUME IInv, NEW p \in Requests, StepOf(p)
  PROVE  ListedHasFile'
  <1> USE NoneIsNoDocument, MappingsType
  <1>0. TypeOK /\ (\A q \in Requests : ShapeOf(q)) /\ UploadsApart /\ ListedHasFile /\ FilesAccounted
    BY DEF IInv
  <1>h. pc[p] # "idle" => doc[p] \in Documents
    BY <1>0, HasDocument
  <1>1. ASSUME NEW d \in Documents, Upload(p, d)
        PROVE  ListedHasFile'
    BY <1>1, <1>0, <1>h DEF Upload, TypeOK, ShapeOf, ListedHasFile, Goto, history
  <1>2. ASSUME NEW d \in Documents, NEW op \in {"delete", "rename"}, Find(p, d, op)
        PROVE  ListedHasFile'
    BY <1>2, <1>0, <1>h DEF Find, TypeOK, ShapeOf, ListedHasFile, Goto, history
  <1>3. CASE Count(p)
    BY <1>3, <1>0, <1>h DEF Count, TypeOK, ShapeOf, ListedHasFile, Goto, End, history
  <1>4. CASE StoreFile(p)
    BY <1>4, <1>0, <1>h DEF StoreFile, TypeOK, ShapeOf, ListedHasFile, Goto, history
  <1>5. CASE Insert(p)
    BY <1>5, <1>0, <1>h DEF Insert, TypeOK, ShapeOf, ListedHasFile, Goto, Write, Written, history
  <1>6. CASE FailInsert(p)
    BY <1>6, <1>0, <1>h DEF FailInsert, TypeOK, ShapeOf, ListedHasFile, Goto, Write, Written, history
  <1>7. CASE Recount(p)
    BY <1>7, <1>0, <1>h DEF Recount, TypeOK, ShapeOf, ListedHasFile, Goto, history
  <1>8. CASE Uploaded(p)
    BY <1>8, <1>0, <1>h DEF Uploaded, TypeOK, ShapeOf, ListedHasFile, Goto, End, history
  <1>9. CASE DeleteRow(p)
    BY <1>9, <1>0, <1>h DEF DeleteRow, TypeOK, ShapeOf, ListedHasFile, Goto, Write, Written, history
  <1>10. CASE RemoveFile(p)
    BY <1>10, <1>0, <1>h DEF RemoveFile, TypeOK, ShapeOf, ListedHasFile, Goto, End, history
  <1>11. CASE Rename(p)
    BY <1>11, <1>0, <1>h DEF Rename, TypeOK, ShapeOf, ListedHasFile, Goto, End, Write, Written, history
  <1>12. CASE Fail(p)
    BY <1>12, <1>0, <1>h DEF Fail, TypeOK, ShapeOf, ListedHasFile, Goto, End, history
  <1> QED
    BY <1>1, <1>2, <1>3, <1>4, <1>5, <1>6, <1>7, <1>8, <1>9, <1>10, <1>11, <1>12 DEF StepOf

\* A file without a row is in the hands of a request.
LEMMA AccountedStep ==
  ASSUME IInv, NEW p \in Requests, StepOf(p)
  PROVE  FilesAccounted'
  <1> USE NoneIsNoDocument, MappingsType
  <1>0. TypeOK /\ (\A q \in Requests : ShapeOf(q)) /\ UploadsApart /\ ListedHasFile /\ FilesAccounted
    BY DEF IInv
  <1>h. pc[p] # "idle" => doc[p] \in Documents
    BY <1>0, HasDocument
  <1>1. ASSUME NEW d \in Documents, Upload(p, d)
        PROVE  FilesAccounted'
    BY <1>1, <1>0, <1>h DEF Upload, TypeOK, ShapeOf, FilesAccounted, Goto, history
  <1>2. ASSUME NEW d \in Documents, NEW op \in {"delete", "rename"}, Find(p, d, op)
        PROVE  FilesAccounted'
    BY <1>2, <1>0, <1>h DEF Find, TypeOK, ShapeOf, FilesAccounted, Goto, history
  <1>3. CASE Count(p)
    BY <1>3, <1>0, <1>h DEF Count, TypeOK, ShapeOf, FilesAccounted, Goto, End, history
  <1>4. CASE StoreFile(p)
    BY <1>4, <1>0, <1>h DEF StoreFile, TypeOK, ShapeOf, FilesAccounted, Goto, history
  <1>5. CASE Insert(p)
    BY <1>5, <1>0, <1>h DEF Insert, TypeOK, ShapeOf, FilesAccounted, Goto, Write, Written, history
  <1>6. CASE FailInsert(p)
    BY <1>6, <1>0, <1>h DEF FailInsert, TypeOK, ShapeOf, FilesAccounted, Goto, Write, Written, history
  <1>7. CASE Recount(p)
    BY <1>7, <1>0, <1>h DEF Recount, TypeOK, ShapeOf, FilesAccounted, Goto, history
  <1>8. CASE Uploaded(p)
    BY <1>8, <1>0, <1>h DEF Uploaded, TypeOK, ShapeOf, FilesAccounted, Goto, End, history
  <1>9. CASE DeleteRow(p)
    BY <1>9, <1>0, <1>h DEF DeleteRow, TypeOK, ShapeOf, FilesAccounted, Goto, Write, Written, history
  <1>10. CASE RemoveFile(p)
    BY <1>10, <1>0, <1>h DEF RemoveFile, TypeOK, ShapeOf, FilesAccounted, Goto, End, history
  <1>11. CASE Rename(p)
    BY <1>11, <1>0, <1>h DEF Rename, TypeOK, ShapeOf, FilesAccounted, Goto, End, Write, Written, history
  <1>12. CASE Fail(p)
    BY <1>12, <1>0, <1>h DEF Fail, TypeOK, ShapeOf, FilesAccounted, Goto, End, history
  <1> QED
    BY <1>1, <1>2, <1>3, <1>4, <1>5, <1>6, <1>7, <1>8, <1>9, <1>10, <1>11, <1>12 DEF StepOf

\* Any part of the documents is finite.
LEMMA CountedFinite ==
  ASSUME NEW S \in SUBSET Documents, NEW T \in SUBSET S
  PROVE  IsFiniteSet(S) /\ Cardinality(T) \in Nat /\ Cardinality(S) \in Nat /\ Cardinality(T) <= Cardinality(S)
  <1>1. IsFiniteSet(S) /\ IsFiniteSet(T)
    BY FS_Subset, StoreAssumption DEF StoreAssumption
  <1> QED
    BY <1>1, FS_Subset, FS_CardinalityType

\* What keeps the limit: no document comes to be counted, or all of the entity
\* were counted just now.
LEMMA LimitFromParts ==
  ASSUME LimitKept,
         \A e \in Entities : Counted(e)' \subseteq Counted(e) \/ (Counted(e)' \subseteq Listed(e) /\ ~Over(e))
  PROVE  LimitKept'
  <1> SUFFICES ASSUME NEW e \in Entities PROVE Cardinality(Counted(e)') <= Limit[e]
    BY DEF LimitKept
  <1>1. Limit[e] \in Nat
    BY StoreAssumption DEF StoreAssumption
  <1>2. Counted(e) \in SUBSET Documents /\ Listed(e) \in SUBSET Documents
    BY DEF Counted, Listed
  <1>3. CASE Counted(e)' \subseteq Counted(e)
    <2>1. Cardinality(Counted(e)') <= Cardinality(Counted(e)) /\ Cardinality(Counted(e)') \in Nat /\ Cardinality(Counted(e)) \in Nat
      BY <1>2, <1>3, CountedFinite
    <2> QED
      BY <2>1, <1>1 DEF LimitKept
  <1>4. CASE Counted(e)' \subseteq Listed(e) /\ ~Over(e)
    <2>1. Cardinality(Counted(e)') <= Cardinality(Listed(e)) /\ Cardinality(Counted(e)') \in Nat /\ Cardinality(Listed(e)) \in Nat
      BY <1>2, <1>4, CountedFinite
    <2> QED
      BY <2>1, <1>1, <1>4 DEF Over
  <1> QED
    BY <1>3, <1>4


\* Whoever joins the counted documents of an entity was part of a count within its limit.
LEMMA CountedStep ==
  ASSUME IInv, NEW p \in Requests, StepOf(p)
  PROVE  \A e \in Entities : Counted(e)' \subseteq Counted(e) \/ (Counted(e)' \subseteq Listed(e) /\ ~Over(e))
  <1> USE NoneIsNoDocument, MappingsType
  <1>0. TypeOK /\ (\A q \in Requests : ShapeOf(q)) /\ UploadsApart /\ ListedHasFile /\ FilesAccounted
    BY DEF IInv
  <1>h. pc[p] # "idle" => doc[p] \in Documents
    BY <1>0, HasDocument
  <1>1. ASSUME NEW d \in Documents, Upload(p, d)
        PROVE  \A e \in Entities : Counted(e)' \subseteq Counted(e) \/ (Counted(e)' \subseteq Listed(e) /\ ~Over(e))
    BY <1>1, <1>0, <1>h DEF Upload, TypeOK, ShapeOf, Counted, Listed, Recounting, Goto, history
  <1>2. ASSUME NEW d \in Documents, NEW op \in {"delete", "rename"}, Find(p, d, op)
        PROVE  \A e \in Entities : Counted(e)' \subseteq Counted(e) \/ (Counted(e)' \subseteq Listed(e) /\ ~Over(e))
    BY <1>2, <1>0, <1>h DEF Find, TypeOK, ShapeOf, Counted, Listed, Recounting, Goto, history
  <1>3. CASE Count(p)
    BY <1>3, <1>0, <1>h DEF Count, TypeOK, ShapeOf, Counted, Listed, Recounting, Goto, End, history
  <1>4. CASE StoreFile(p)
    BY <1>4, <1>0, <1>h DEF StoreFile, TypeOK, ShapeOf, Counted, Listed, Recounting, Goto, history
  <1>5. CASE Insert(p)
    BY <1>5, <1>0, <1>h DEF Insert, TypeOK, ShapeOf, Counted, Listed, Recounting, Goto, Write, Written, history
  <1>6. CASE FailInsert(p)
    BY <1>6, <1>0, <1>h DEF FailInsert, TypeOK, ShapeOf, Counted, Listed, Recounting, Goto, Write, Written, history
  <1>7. CASE Recount(p)
    <2>1. row' = row /\ revived' = revived /\ misreported' = misreported /\ failed' = failed /\ doc' = doc
      BY <1>7 DEF Recount, history
    <2>2. \A e \in Entities : Listed(e)' = Listed(e)
      BY <2>1 DEF Listed
    <2>3. PICK f \in todo[p] : \/ ~Over(f) /\ todo' = [todo EXCEPT ![p] = @ \ {f}] /\ pc' = pc
                               \/ Goto(p, "rollback") /\ todo' = todo
      BY <1>7 DEF Recount
    <2>4. CASE ~Over(f) /\ todo' = [todo EXCEPT ![p] = @ \ {f}] /\ pc' = pc
      <3>1. \A e \in Entities \ {f}, d \in Documents : Recounting(d, e) => Recounting(d, e)'
        BY <2>1, <2>4, <1>0 DEF Recounting, TypeOK
      <3>2. \A e \in Entities \ {f} : Counted(e)' \subseteq Counted(e)
        BY <2>1, <2>2, <3>1 DEF Counted, Listed
      <3>3. Counted(f)' \subseteq Listed(f)
        BY <2>2, <1>0 DEF Counted, TypeOK
      <3> QED
        BY <2>4, <3>2, <3>3
    <2>5. CASE Goto(p, "rollback") /\ todo' = todo
      <3>1. \A e \in Entities, d \in Documents : Recounting(d, e) => Recounting(d, e)'
        BY <1>7, <2>1, <2>5, <1>0 DEF Recounting, Goto, TypeOK
      <3> QED
        BY <2>1, <2>2, <3>1 DEF Counted, Listed
    <2> QED
      BY <2>3, <2>4, <2>5
  <1>8. CASE Uploaded(p)
    BY <1>8, <1>0, <1>h DEF Uploaded, TypeOK, ShapeOf, Counted, Listed, Recounting, Goto, End, history
  <1>9. CASE DeleteRow(p)
    BY <1>9, <1>0, <1>h DEF DeleteRow, TypeOK, ShapeOf, Counted, Listed, Recounting, Goto, Write, Written, history
  <1>10. CASE RemoveFile(p)
    BY <1>10, <1>0, <1>h DEF RemoveFile, TypeOK, ShapeOf, Counted, Listed, Recounting, Goto, End, history
  <1>11. CASE Rename(p)
    BY <1>11, <1>0, <1>h DEF Rename, TypeOK, ShapeOf, Counted, Listed, Recounting, Goto, End, Write, Written, history
  <1>12. CASE Fail(p)
    BY <1>12, <1>0, <1>h DEF Fail, TypeOK, ShapeOf, Counted, Listed, Recounting, Goto, End, history
  <1> QED
    BY <1>1, <1>2, <1>3, <1>4, <1>5, <1>6, <1>7, <1>8, <1>9, <1>10, <1>11, <1>12 DEF StepOf

\* The inductive invariant holds in every reachable state.
THEOREM InvTheorem == Spec => []IInv
  <1>1. Init => IInv
    <2> SUFFICES ASSUME Init PROVE IInv
      OBVIOUS
    <2>1. TypeOK /\ (\A p \in Requests : ShapeOf(p)) /\ UploadsApart /\ ListedHasFile /\ FilesAccounted
      BY StoreAssumption DEF StoreAssumption, Init, TypeOK, ShapeOf, UploadsApart, ListedHasFile, FilesAccounted
    <2>2. \A e \in Entities : Counted(e) = {}
      BY DEF Init, Counted, Listed
    <2>3. LimitKept
      BY <2>2, FS_EmptySet, StoreAssumption DEF StoreAssumption, LimitKept
    <2> QED
      BY <2>1, <2>3 DEF IInv
  <1>2. IInv /\ [Next]_vars => IInv'
    <2> SUFFICES ASSUME IInv, [Next]_vars PROVE IInv'
      OBVIOUS
    <2>1. ASSUME NEW p \in Requests, StepOf(p)
          PROVE  IInv'
      <3>1. \A e \in Entities : Counted(e)' \subseteq Counted(e) \/ (Counted(e)' \subseteq Listed(e) /\ ~Over(e))
        BY <2>1, CountedStep
      <3>2. LimitKept
        BY DEF IInv
      <3>3. LimitKept'
        BY <3>1, <3>2, LimitFromParts
      <3> QED
        BY <2>1, <3>3, TypeStep, ShapeStep, ApartStep, FileStep, AccountedStep DEF IInv
    <2>2. CASE UNCHANGED vars
      <3>1. TypeOK' /\ (\A p \in Requests : ShapeOf(p))' /\ UploadsApart'
        BY <2>2 DEF vars, history, IInv, TypeOK, ShapeOf, UploadsApart
      <3>2. ListedHasFile' /\ FilesAccounted'
        BY <2>2 DEF vars, history, IInv, ListedHasFile, FilesAccounted
      <3>3. \A e \in Entities : Counted(e)' = Counted(e)
        BY <2>2 DEF vars, history, Counted, Listed, Recounting
      <3> QED
        BY <3>1, <3>2, <3>3 DEF IInv, LimitKept
    <2> QED
      BY <2>1, <2>2 DEF Next, StepOf
  <1> QED
    BY <1>1, <1>2, PTL DEF Spec

\* Type correctness of the rows, the files and the requests' locals.
THEOREM TypeTheorem == Spec => []TypeOK
  <1>1. IInv => TypeOK
    BY DEF IInv
  <1> QED
    BY <1>1, InvTheorem, PTL

\* The count after the insert keeps every entity within its limit, whatever
\* races and fails, but for the documents LimitKept names.
THEOREM LimitTheorem == Spec => []LimitKept
  <1>1. IInv => LimitKept
    BY DEF IInv
  <1> QED
    BY <1>1, InvTheorem, PTL

\* Every document in the list has its file, but for those ListedHasFile names.
THEOREM FileTheorem == Spec => []ListedHasFile
  <1>1. IInv => ListedHasFile
    BY DEF IInv
  <1> QED
    BY <1>1, InvTheorem, PTL

\* No file is left without a document unless a call failed.
THEOREM AccountedTheorem == Spec => []FilesAccounted
  <1>1. IInv => FilesAccounted
    BY DEF IInv
  <1> QED
    BY <1>1, InvTheorem, PTL
=============================================================================
