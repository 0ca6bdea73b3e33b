----------------------------- MODULE MCWayland -----------------------------
(* The parts of the Wayland platform that do not share state, side by side: *)
(* in each behaviour one of them moves.  Scales are over a denominator of  *)
(* 2, with and without fractional scaling: 3 rounds up to 4 as an integer  *)
(* scale, and 15, the largest, overflows the effective scale, or as a      *)
(* fractional scale a buffer dimension.  8 and 15 stand for the limits     *)
(* 2^31-1 and 2^32-1, and 7 for the 32-bit clock's.                        *)
EXTENDS WaylandSurface, WaylandInput, WaylandConnection, FrameClock, TLC

FirstExtent == [width |-> 1, height |-> 2]
Sizes == {0, 3}
PreferredScales == {2, 3, 15}
RepeatSettings == {[interval |-> 0, delay |-> 0], [interval |-> 1, delay |-> 0]}
KindOf == [n \in {"s1", "s2", "c1", "f1"} |->
             IF n = "c1" THEN "shm" ELSE IF n = "f1" THEN "fractional_scale" ELSE "seat"]
RepeatingKeysAlike == Permutations(RepeatingKeys)

VARIABLE explored

(* Type invariant. *)
WaylandTypeOK == TypeOK /\ InputTypeOK /\ ConnectionTypeOK /\ ClockTypeOK

WaylandInit ==
  /\ explored \in {"surface", "input", "connection", "clock"}
  /\ Init /\ InputInit /\ ConnectionInit /\ ClockInit
  /\ explored # "surface" => ~surface.fractional_scale_supported
  /\ explored # "clock" => now = 0

WaylandNext ==
  /\ UNCHANGED explored
  /\ \/ explored = "surface" /\ Next /\ UNCHANGED <<inputVars, connectionVars, clockVars>>
     \/ explored = "input" /\ InputNext /\ UNCHANGED <<vars, connectionVars, clockVars>>
     \/ explored = "connection" /\ ConnectionNext /\ UNCHANGED <<vars, inputVars, clockVars>>
     \/ explored = "clock" /\ ClockNext /\ UNCHANGED <<vars, inputVars, connectionVars>>

WaylandSpec == WaylandInit /\ [][WaylandNext]_<<explored, vars, inputVars, connectionVars, clockVars>>
=============================================================================
