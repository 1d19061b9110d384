------------------------------ MODULE CloseSpec ------------------------------
(***************************************************************************)
(* What solve_ap_mapping promises its caller, as a one-step specification: *)
(* for the given counts and affinities it either returns a matching that   *)
(* is a result of the problem, or throws because there are sources but no  *)
(* destination to map them to.                                             *)
(***************************************************************************)
EXTENDS Naturals

CONSTANTS
    IsResult(_, _, _, _),  \* nsrc, ndst, affinities, matching: the matching
                           \* is what the caller asked for
    None                   \* the result before there is one

VARIABLES nsrc, ndst, affinities, status, result

vars == <<nsrc, ndst, affinities, status, result>>

Init ==
    /\ nsrc \in Nat
    /\ ndst \in Nat
    /\ status = "solve"
    /\ result = None

Return ==
    /\ status = "solve"
    /\ status' = "done"
    /\ IsResult(nsrc, ndst, affinities, result')
    /\ UNCHANGED <<nsrc, ndst, affinities>>

Throw ==
    /\ status = "solve"
    /\ nsrc > 0
    /\ ndst = 0
    /\ status' = "throw"
    /\ UNCHANGED <<nsrc, ndst, affinities, result>>

Next == Return \/ Throw

Spec == Init /\ [][Next]_vars
=============================================================================
