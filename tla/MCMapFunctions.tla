--------------------------- MODULE MCMapFunctions ---------------------------
(* Inputs of up to seven sources and destinations; the processing units    *)
(* have gaps in their numbering, and some colors are negative.             *)
EXTENDS MapFunctions

(* One core has a single processing unit and one is outside of the cgroup. *)
MCCores == {{0, 1}, {2, 4}, {7}, {}}
MCAffinity(dev) == IF dev = 0 THEN {2, 4} ELSE {7}
MCPalette == {-2, 0, 1, 5, 9}
=============================================================================
