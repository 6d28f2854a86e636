---------------------------- MODULE DocumentStore ----------------------------
(***************************************************************************)
(* Documents of nestjs-shared-dms: a row in dms_document_reference and a   *)
(* file at the storage provider, written apart, and a limit on the         *)
(* documents of an entity that is counted before the upload and again      *)
(* after the insert.  One action is the code between two awaits.           *)
(***************************************************************************)
EXTENDS Naturals, FiniteSets

CONSTANTS
    Documents,    \* one for each upload
    Entities,     \* those with maxDocumentsPerEntity
    Mappings,     \* the entities each document is uploaded for
    Limit,        \* maxDocumentsPerEntity
    Requests,     \* requests in flight
    MaxFaults     \* calls that reject and crashes

VARIABLES
    row,          \* dms_document_reference
    files,        \* the documents with a file at the provider
    pc, doc,      \* where a request is, and its document
    todo,         \* the mappings its loop has not come to
    revived,      \* history: documents deleted and written back
    misreported,  \* history: those inserted by a call that rejected
    failed,       \* history: those of a request that failed
    faults

history == <<revived, misreported, failed>>
vars == <<row, files, pc, doc, todo, history, faults>>

None == "none"

StoreAssumption ==
    /\ IsFiniteSet(Documents)
    /\ None \notin Documents
    /\ Mappings \in [Documents -> SUBSET Entities]
    /\ Limit \in [Entities -> Nat]
    /\ MaxFaults \in Nat
ASSUME StoreAssumption

Init ==
    /\ row = [d \in Documents |-> "none"]
    /\ files = {}
    /\ pc = [p \in Requests |-> "idle"]
    /\ doc = [p \in Requests |-> None]
    /\ todo = [p \in Requests |-> {}]
    /\ revived = {}
    /\ misreported = {}
    /\ failed = {}
    /\ faults = 0

Goto(p, l) == pc' = [pc EXCEPT ![p] = l]

End(p) ==
    /\ Goto(p, "idle")
    /\ doc' = [doc EXCEPT ![p] = None]
    /\ todo' = [todo EXCEPT ![p] = {}]

\* countByEntity
Listed(e) == {d \in Documents : row[d] = "live" /\ e \in Mappings[d]}

-----------------------------------------------------------------------------
(* Upload *)

Upload(p, d) ==
    /\ pc[p] = "idle"
    /\ row[d] = "none" /\ d \notin failed /\ \A q \in Requests : doc[q] # d
    /\ doc' = [doc EXCEPT ![p] = d]
    /\ todo' = [todo EXCEPT ![p] = Mappings[d]]
    /\ Goto(p, "count")
    /\ UNCHANGED <<row, files, history, faults>>

\* assertLimitNotReached, one mapping after the other
Count(p) ==
    /\ pc[p] = "count"
    /\ \E e \in todo[p] :
           \/ /\ Cardinality(Listed(e)) < Limit[e]
              /\ todo' = [todo EXCEPT ![p] = @ \ {e}]
              /\ UNCHANGED <<pc, doc>>
           \/ Cardinality(Listed(e)) >= Limit[e] /\ End(p)
    /\ UNCHANGED <<row, files, history, faults>>

StoreFile(p) ==
    /\ pc[p] = "count" /\ todo[p] = {}
    /\ files' = files \cup {doc[p]}
    /\ todo' = [todo EXCEPT ![p] = Mappings[doc[p]]]
    /\ Goto(p, "insert")
    /\ UNCHANGED <<row, doc, history, faults>>

\* Mutation: the row is what the step is called.
WrittenAs(p) == pc[p]

\* What the aggregate in memory makes of the row, deletedAt included
Written(p) == IF pc[p] \in {"delete", "rollback"} THEN "deleted" ELSE "live"

Write(p) == row' = [row EXCEPT ![doc[p]] = Written(p)]

Insert(p) ==
    /\ pc[p] = "insert"
    /\ Write(p)
    /\ Goto(p, "recount")
    /\ UNCHANGED <<files, doc, todo, history, faults>>

\* The insert rejects, though the row may be there.
FailInsert(p) ==
    /\ pc[p] = "insert"
    /\ faults < MaxFaults
    /\ faults' = faults + 1
    /\ Goto(p, "compensate")
    /\ \/ Write(p) /\ misreported' = misreported \cup {doc[p]}
       \/ UNCHANGED <<row, misreported>>
    /\ UNCHANGED <<files, doc, todo, revived, failed>>

\* Mutation: one more than the limit is let through.
OverByTwo(e) == Cardinality(Listed(e)) > Limit[e] + 1

Over(e) == Cardinality(Listed(e)) > Limit[e]

\* The second count, the upload's own row included
Recount(p) ==
    /\ pc[p] = "recount"
    /\ \E e \in todo[p] :
           \/ /\ ~Over(e)
              /\ todo' = [todo EXCEPT ![p] = @ \ {e}]
              /\ UNCHANGED pc
           \/ Over(e) /\ Goto(p, "rollback") /\ UNCHANGED todo
    /\ UNCHANGED <<row, files, doc, history, faults>>

Uploaded(p) ==
    /\ pc[p] = "recount" /\ todo[p] = {}
    /\ End(p)
    /\ UNCHANGED <<row, files, history, faults>>

-----------------------------------------------------------------------------
(* Delete and rename *)

\* findById does not find a deleted document.
Find(p, d, op) ==
    /\ pc[p] = "idle"
    /\ row[d] = "live"
    /\ doc' = [doc EXCEPT ![p] = d]
    /\ Goto(p, op)
    /\ UNCHANGED <<row, files, todo, history, faults>>

\* Mutation: the file goes first.
DeleteFileFirst(p) ==
    /\ pc[p] \in {"delete", "rollback"}
    /\ files' = files \ {doc[p]}
    /\ Goto(p, "remove")
    /\ UNCHANGED <<row, doc, todo, history, faults>>

\* Mutation: the file is left to whoever cleans up.
DeleteRowOnly(p) ==
    /\ pc[p] \in {"delete", "rollback"}
    /\ Write(p)
    /\ End(p)
    /\ UNCHANGED <<files, history, faults>>

\* The row of a document, or of an upload over the limit, is marked ...
DeleteRow(p) ==
    /\ pc[p] \in {"delete", "rollback"}
    /\ Write(p)
    /\ Goto(p, "remove")
    /\ UNCHANGED <<files, doc, todo, history, faults>>

\* ... and then its file removed, as after an insert that rejected.  A file
\* that is gone already makes it throw, and the request is over all the same.
RemoveFile(p) ==
    /\ pc[p] \in {"remove", "compensate"}
    /\ files' = files \ {doc[p]}
    /\ End(p)
    /\ UNCHANGED <<row, history, faults>>

\* The update writes deletedAt as it was read.
Rename(p) ==
    /\ pc[p] = "rename"
    /\ Write(p)
    /\ revived' = IF row[doc[p]] = "deleted" THEN revived \cup {doc[p]} ELSE revived
    /\ End(p)
    /\ UNCHANGED <<files, misreported, failed, faults>>

\* Any other call rejects, or the process dies.
Fail(p) ==
    /\ pc[p] # "idle"
    /\ faults < MaxFaults
    /\ faults' = faults + 1
    /\ failed' = failed \cup {doc[p]}
    /\ End(p)
    /\ UNCHANGED <<row, files, revived, misreported>>

Next ==
    \E p \in Requests :
        \/ \E d \in Documents : Upload(p, d)
        \/ \E d \in Documents, op \in {"delete", "rename"} : Find(p, d, op)
        \/ Count(p) \/ StoreFile(p) \/ Insert(p) \/ FailInsert(p)
        \/ Recount(p) \/ Uploaded(p)
        \/ DeleteRow(p) \/ RemoveFile(p) \/ Rename(p)
        \/ Fail(p)

Spec == Init /\ [][Next]_vars

-----------------------------------------------------------------------------
(* Properties *)

TypeOK ==
    /\ row \in [Documents -> {"none", "live", "deleted"}]
    /\ files \subseteq Documents
    /\ pc \in [Requests -> {"idle", "count", "insert", "compensate", "recount",
                            "rollback", "delete", "rename", "remove"}]
    /\ doc \in [Requests -> Documents \cup {None}]
    /\ todo \in [Requests -> SUBSET Entities]
    /\ revived \subseteq Documents
    /\ misreported \subseteq Documents
    /\ failed \subseteq Documents
    /\ faults \in 0 .. MaxFaults

\* A document whose upload has not yet counted again for an entity
Recounting(d, e) ==
    \E p \in Requests : doc[p] = d /\ pc[p] \in {"recount", "rollback"} /\ e \in todo[p]

Counted(e) ==
    {d \in Listed(e) : d \notin revived \cup misreported \cup failed /\ ~Recounting(d, e)}

\* The count before the upload lets racing uploads through, the count after it
\* does not: however they interleave, with deletions and renames too, an entity
\* has no more documents than its limit - but for those whose request failed
\* and those a rename wrote back.
LimitKept == \A e \in Entities : Cardinality(Counted(e)) <= Limit[e]

\* Whatever call fails and wherever a process dies, a document in the list has
\* its file.  Only two things take it away: a rename that writes back a
\* deleted row, and an insert that rejects with its row written.
ListedHasFile ==
    \A d \in Documents \ (revived \cup misreported) : row[d] = "live" => d \in files

\* No file without a document is left behind, unless a call for it failed.
FilesAccounted ==
    \A d \in files \ failed :
        \/ row[d] = "live"
        \/ \E p \in Requests : doc[p] = d /\ pc[p] \in {"insert", "compensate", "remove"}

-----------------------------------------------------------------------------
(* The inductive invariant *)

Uploading(p) == pc[p] \in {"count", "insert", "compensate", "recount", "rollback"}

\* What a request knows of its document
ShapeOf(p) ==
    /\ pc[p] = "idle" <=> doc[p] = None
    /\ pc[p] \in {"count", "insert"} => row[doc[p]] = "none"
    /\ pc[p] = "insert" => doc[p] \in files
    /\ pc[p] = "insert" => todo[p] = Mappings[doc[p]]
    /\ pc[p] = "compensate" => row[doc[p]] = "none" \/ doc[p] \in misreported
    /\ pc[p] \in {"delete", "rename", "recount", "rollback"} => row[doc[p]] # "none"
    /\ pc[p] = "remove" => row[doc[p]] = "deleted" \/ doc[p] \in revived

\* A document not yet inserted is in the hands of its one upload.
UploadsApart ==
    \A p, q \in Requests :
        doc[p] = doc[q] /\ doc[p] # None /\ row[doc[p]] = "none" => p = q

IInv ==
    /\ TypeOK
    /\ \A p \in Requests : ShapeOf(p)
    /\ UploadsApart
    /\ LimitKept
    /\ ListedHasFile
    /\ FilesAccounted
=============================================================================
