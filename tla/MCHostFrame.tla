---------------------------- MODULE MCHostFrame ----------------------------
(* Bounds for HostFrame.  The generation limits are the counters' own:     *)
(* the code stops the host when one is reached, and so does the model.     *)
EXTENDS HostFrame

\* Two pulse times: equal, later and earlier timestamps all occur.
Times == {0, 1}
=============================================================================
