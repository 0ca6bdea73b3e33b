-------------------------- MODULE MCWaylandWindow --------------------------
(* Scales over a denominator of 2 as in MCWayland; one staged size, *)
(* two configures and four host generations let a cancelled request, a     *)
(* resize that rearms it and a second request overlap.                     *)
EXTENDS WaylandWindow

FirstExtent == [width |-> 1, height |-> 2]
Sizes == {[width |-> 3, height |-> 0]}
PreferredScales == {4, 15}
OneScale == {4}
=============================================================================
