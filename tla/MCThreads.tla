------------------------------ MODULE MCThreads ------------------------------
(* Thread groups for two threads.                                          *)
EXTENDS ThreadGroup

MCNTasks == [g \in Groups |-> 2]
=============================================================================
