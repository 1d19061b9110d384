------------------------------ MODULE MCScopes ------------------------------
(* A process with two thread groups, for two and for three threads.        *)
EXTENDS Scopes

MCNTasks == [g \in Groups |-> IF g = 11 THEN 2 ELSE 3]
=============================================================================
