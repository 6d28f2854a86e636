-------------------------- MODULE MCWorkflowTokens --------------------------
(* WorkflowTokens on a definition with every kind of element: A forks to a
   task, a choice and the join, F is a fork inside a branch, B takes some of
   its flows, m has an embedded definition of its own, v leads nowhere. *)
EXTENDS WorkflowTokens, TLC

MCKind == [start |-> "startEvent", x |-> "exclusive", A |-> "fork", B |-> "inclusive",
           u |-> "userTask", v |-> "userTask", y |-> "exclusive", F |-> "fork", s |-> "serviceTask",
           c |-> "subProcess", J |-> "join", T |-> "terminate", end |-> "endEvent",
           m |-> "embedded", ms |-> "startEvent", my |-> "exclusive", mu |-> "userTask", me |-> "endEvent"]

MCFlows == [start |-> <<"x">>, x |-> <<"A", "B", "m">>, A |-> <<"u", "y", "J">>, B |-> <<"end", "u", "v">>,
            u |-> <<"J">>, v |-> <<>>, y |-> <<"F", "T", "s", "c">>, F |-> <<"end", "end">>, s |-> <<"J", "c">>,
            c |-> <<"end">>, J |-> <<"end">>, T |-> <<>>, end |-> <<>>,
            m |-> <<"u", "end">>, ms |-> <<"my">>, my |-> <<"mu", "me">>, mu |-> <<"me">>, me |-> <<>>]

MCInner == {"ms", "my", "mu", "me"}
MCBody == [m |-> "ms"]

\* Two tasks side by side, and a join
MCPairKind == [start |-> "startEvent", A |-> "fork", u |-> "userTask", s |-> "serviceTask",
               J |-> "join", end |-> "endEvent"]
MCPairFlows == [start |-> <<"A">>, A |-> <<"u", "s">>, u |-> <<"J">>, s |-> <<"J">>,
                J |-> <<"end">>, end |-> <<>>]
MCNoBody == [e \in {} |-> "start"]
=============================================================================
