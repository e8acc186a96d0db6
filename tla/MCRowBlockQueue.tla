-------------------------- MODULE MCRowBlockQueue --------------------------
(* Model checking of one phase: every window of up to MaxRows rows with every *)
(* requested pool of up to MaxThreads threads.                               *)
EXTENDS RowBlockQueue
=============================================================================
