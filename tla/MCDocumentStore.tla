--------------------------- MODULE MCDocumentStore ---------------------------
(* Three uploads in two requests, or three at once: d1 for one entity, d2 and *)
(* d3 for two, with room for one document and for two.                        *)
EXTENDS DocumentStore, TLC

CONSTANTS d1, d2, d3

MCMappings == [d \in Documents |-> IF d = d1 THEN {"case"} ELSE Entities]

MCLimit == [e \in Entities |-> IF e = "case" THEN 1 ELSE 2]

Symmetry == Permutations(Requests)
=============================================================================
