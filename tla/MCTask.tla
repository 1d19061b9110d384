------------------------------- MODULE MCTask -------------------------------
(* Instances of Task: two scopes of one thread, or a scope in each of two. *)
EXTENDS Task

MCOwnThread == [t \in {"A", "B"} |-> IF t = "A" THEN 1 ELSE 2]
MCOneThread == [t \in {"A", "B"} |-> 1]
MCPools == [t \in {"A", "B"} |-> IF t = "A" THEN "left" ELSE "right"]
MCRefusedPool == [t \in {"A", "B"} |-> IF t = "A" THEN "left" ELSE "none"]
MCManyByOne == [t \in {"A", "B"} |-> IF t = "A" THEN 4 ELSE 1]
MCTwoEach == [t \in {"A", "B"} |-> 2]

=============================================================================
