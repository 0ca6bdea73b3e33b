--------------------------- MODULE MCRasterThread ---------------------------
(* Two client threads and at most three submissions: one being rendered,   *)
(* one queued behind it and one arriving around a stop.                    *)
EXTENDS RasterThread

CONSTANTS c1, c2
ClientThreads == {c1, c2}
=============================================================================
