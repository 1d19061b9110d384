----------------------------- MODULE MCSession ------------------------------
(* Instances of Session: a rank without QV_PORT, and one that has it set   *)
(* to a port on which nobody may ever listen; and a representative whose   *)
(* QV_PORT is no number.                                                   *)
EXTENDS Session

MCEnv == [r \in {0, 1} |-> IF r = 0 THEN QVI_PORT_UNSET ELSE "other"]

(* A directory may be left over on the default port. *)
MCInit == Init /\ sdir["other"] = "none"
MCFairSpec == MCInit /\ [][Next]_vars /\ Fairness

MCEnvMalformed == [r \in {0, 1} |-> IF r = 0 THEN Malformed ELSE QVI_PORT_UNSET]

=============================================================================
