-------------------------- MODULE MCBufferManager --------------------------
(* The buffer manager with few buffers, so that caches fill, overflow and    *)
(* are contended, and a uint32_t of 4096 values, so that initialize() wraps. *)
EXTENDS BufferManager, TLC

\* 64 bytes; and 64 rows of 64 bytes, which wraps to 0.
MCGeometry == {<<512, 1>>, <<512, 64>>}

Symmetry == Permutations(Worker) \cup Permutations(Block)
=============================================================================
