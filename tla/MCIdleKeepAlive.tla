--------------------------- MODULE MCIdleKeepAlive ---------------------------
(* IdleKeepAlive for a few seconds and two intervals.                       *)
EXTENDS IdleKeepAlive

ShortIntervals == {0, 2, 3}
BeforeStart == -1
=============================================================================
