------------------------ MODULE MCWorkflowOrchestrator ------------------------
(* DONATION_REQUEST in small: a service task, a user task, a gateway that   *)
(* loops back to the user task or goes on to a second service task or a     *)
(* second user task, then the end.  Each configuration takes some elements. *)
EXTENDS WorkflowOrchestrator, TLC

CONSTANTS start, end, ut, ut2, svc1, svc2, xg,
          u1, u2, none, nobody, c1, c2, w1, w2, k1

MCFlows == (Elements \X Elements) \cap
           {<<start, svc1>>, <<svc1, ut>>, <<start, ut>>, <<ut, xg>>, <<xg, ut>>,
            <<xg, svc2>>, <<xg, ut2>>, <<xg, end>>, <<svc2, end>>, <<ut2, end>>}

(* u1 is resolved as the assignee of ut and calls through the facade with  *)
(* no permission; u2 holds update:task, as every caller of the controller.  *)
MCAssignee == [e \in UserTasks |-> IF e = ut THEN u1 ELSE nobody]
MCCandidates == [e \in UserTasks |-> IF e = ut THEN Users \ {u1} ELSE Users]

Symmetry == Permutations(Clients) \cup Permutations(Workers)
=============================================================================
