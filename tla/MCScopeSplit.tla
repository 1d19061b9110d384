---------------------------- MODULE MCScopeSplit ----------------------------
(* Instances of ScopeSplit: four processing units, two cores, two devices. *)
EXTENDS ScopeSplit

MCPUs == 0..3
MCCores == {{0, 1}, {2, 3}}

(* One device near each core, or both near the second one. *)
MCAffinity(dev) == IF dev = 0 THEN {0, 1} ELSE {2, 3}
MCSharedAffinity(dev) == {2, 3}

MCBindings == {{0, 1, 2, 3}, {3}}
MCNode == {{0, 1, 2, 3}}
(* Two colors are in the range of three pieces and out of that of two. *)
MCColors == {0, 2, -1, -2, -3, -4}
MCFewColors == {0, 3, -2}
MCClose == {-2}
=============================================================================
