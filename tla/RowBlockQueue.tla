--------------------------- MODULE RowBlockQueue ---------------------------
(***************************************************************************)
(* The row-block work queue (src/redcli/rle4k_block_pipeline.h) and the    *)
(* worker pool every phase of the benchmark builds around it               *)
(* (src/redcli/main.cpp, the three rle4k_phase_*_window functions).        *)
(*                                                                         *)
(* The main thread constructs a queue over the `total` rows of a window,   *)
(* spawns `nthreads` workers one after the other, and joins them in the    *)
(* order of their creation.  A worker repeats: pop a row, process it; it   *)
(* leaves its loop at the first pop that returns -1.  The only object the  *)
(* workers share through the queue is the atomic counter next_.            *)
(*                                                                         *)
(* What is done with a row is left open here: Finish(t) is the end of the  *)
(* loop body.  StripPipeline extends this module and gives the bodies of   *)
(* the raster, encode and decode workers.                                  *)
(***************************************************************************)
EXTENDS Integers, FiniteSets

CONSTANTS
  MaxThreads,   \* the largest pool: the literal 10 of the clamp
  MaxRows       \* the largest window: cache_blocks

ASSUME MaxThreadsAssumption == MaxThreads \in Nat \ {0}
ASSUME MaxRowsAssumption == MaxRows \in Nat \ {0}

Thread == 1 .. MaxThreads
Row    == 0 .. MaxRows - 1
NoRow  == -1

VARIABLES
  total,        \* total_: rows of this window
  nthreads,     \* size of this phase's pool, after the clamp
  next,         \* next_: the atomic counter
  mpc,          \* main thread: "spawn", "join" or "joined"
  spawned,      \* threads started so far
  joined,       \* threads joined so far
  wpc,          \* per thread: "unborn", "pop", "work" or "exited"
  wrow,         \* per thread: the row its loop body works on
  finished      \* rows whose loop body has ended

queueVars == <<total, nthreads, next, mpc, spawned, joined, wpc, wrow, finished>>

Smaller(a, b) == IF a < b THEN a ELSE b
Larger(a, b)  == IF a > b THEN a ELSE b

\* nthreads = max(1, min(nthreads, min(nwin, 10)))
PoolSize(requested, rows) ==
  Larger(1, Smaller(requested, Smaller(rows, MaxThreads)))

-----------------------------------------------------------------------------
\* What a phase starts from: next_(0), no thread yet.
Init ==
  \E rows \in 1 .. MaxRows, requested \in Thread :
    /\ total    = rows
    /\ nthreads = PoolSize(requested, rows)
    /\ next     = 0
    /\ mpc      = "spawn"
    /\ spawned  = 0
    /\ joined   = 0
    /\ wpc      = [t \in Thread |-> "unborn"]
    /\ wrow     = [t \in Thread |-> NoRow]
    /\ finished = {}

\* The same, as a step: every call of a phase function constructs its own
\* queue, on the main thread's stack, and its own thread objects.
StartQueue(rows, requested) ==
  /\ total'    = rows
  /\ nthreads' = PoolSize(requested, rows)
  /\ next'     = 0
  /\ mpc'      = "spawn"
  /\ spawned'  = 0
  /\ joined'   = 0
  /\ wpc'      = [t \in Thread |-> "unborn"]
  /\ wrow'     = [t \in Thread |-> NoRow]
  /\ finished' = {}

\* workers.emplace_back(...): the new thread runs at once, beside the loop
\* that is still creating the others.
Spawn ==
  /\ mpc = "spawn"
  /\ spawned' = spawned + 1
  /\ wpc' = [wpc EXCEPT ![spawned + 1] = "pop"]
  /\ mpc' = IF spawned + 1 = nthreads THEN "join" ELSE "spawn"
  /\ UNCHANGED <<total, nthreads, next, joined, wrow, finished>>

\* Faulty: the loop runs once too often (row <= total_).
Pop_OffByOne(t) ==
  /\ wpc[t] = "pop"
  /\ next' = next + 1
  /\ IF next <= total
     THEN /\ wpc'  = [wpc EXCEPT ![t] = "work"]
          /\ wrow' = [wrow EXCEPT ![t] = next]
     ELSE /\ wpc'  = [wpc EXCEPT ![t] = "exited"]
          /\ wrow' = wrow
  /\ UNCHANGED <<total, nthreads, mpc, spawned, joined, finished>>

\* Faulty: a load and a store in place of fetch_add, whose increment another
\* thread may overwrite.
Pop_LostUpdate(t) ==
  /\ wpc[t] = "pop"
  /\ next' \in {next, next + 1}
  /\ IF next < total
     THEN /\ wpc'  = [wpc EXCEPT ![t] = "work"]
          /\ wrow' = [wrow EXCEPT ![t] = next]
     ELSE /\ wpc'  = [wpc EXCEPT ![t] = "exited"]
          /\ wrow' = wrow
  /\ UNCHANGED <<total, nthreads, mpc, spawned, joined, finished>>

\* Faulty: a pop of -1 does not end the worker's loop.
Pop_NoBreak(t) ==
  /\ wpc[t] = "pop"
  /\ next' = next + 1
  /\ IF next < total
     THEN /\ wpc'  = [wpc EXCEPT ![t] = "work"]
          /\ wrow' = [wrow EXCEPT ![t] = next]
     ELSE UNCHANGED <<wpc, wrow>>
  /\ UNCHANGED <<total, nthreads, mpc, spawned, joined, finished>>

\* int local = work.pop(); if (local < 0) break;
\* fetch_add is one atomic step; the comparison with total_ is on a local.
Pop(t) ==
  /\ wpc[t] = "pop"
  /\ next' = next + 1
  /\ IF next < total
     THEN /\ wpc'  = [wpc EXCEPT ![t] = "work"]
          /\ wrow' = [wrow EXCEPT ![t] = next]
     ELSE /\ wpc'  = [wpc EXCEPT ![t] = "exited"]
          /\ wrow' = wrow
  /\ UNCHANGED <<total, nthreads, mpc, spawned, joined, finished>>

\* Faulty: break where the loop body has continue.
Finish_Break(t) ==
  /\ wpc[t] = "work"
  /\ wpc'  = [wpc EXCEPT ![t] = "exited"]
  /\ wrow' = [wrow EXCEPT ![t] = NoRow]
  /\ finished' = finished \cup {wrow[t]}
  /\ UNCHANGED <<total, nthreads, next, mpc, spawned, joined>>

\* Faulty: `continue` re-enters the body without another pop.
Finish_NoPop(t) ==
  /\ wpc[t] = "work"
  /\ finished' = finished \cup {wrow[t]}
  /\ UNCHANGED <<total, nthreads, next, mpc, spawned, joined, wpc, wrow>>

\* The loop body ends, by falling off its end or by `continue`.
Finish(t) ==
  /\ wpc[t] = "work"
  /\ wpc'  = [wpc EXCEPT ![t] = "pop"]
  /\ wrow' = [wrow EXCEPT ![t] = NoRow]
  /\ finished' = finished \cup {wrow[t]}
  /\ UNCHANGED <<total, nthreads, next, mpc, spawned, joined>>

\* for (auto& w : workers) if (w.joinable()) w.join();
Join ==
  /\ mpc = "join"
  /\ wpc[joined + 1] = "exited"
  /\ joined' = joined + 1
  /\ mpc' = IF joined + 1 = nthreads THEN "joined" ELSE "join"
  /\ UNCHANGED <<total, nthreads, next, spawned, wpc, wrow, finished>>

\* The main thread may call the next phase once it has joined this one.
NextPhase ==
  /\ mpc = "joined"
  /\ \E rows \in 1 .. MaxRows, requested \in Thread : StartQueue(rows, requested)

Next ==
  \/ Spawn
  \/ \E t \in Thread : Pop(t)
  \/ \E t \in Thread : Finish(t)
  \/ Join
  \/ NextPhase

\* The operating system schedules every thread that can run: each worker and
\* the main thread are weakly fair.  Nothing is assumed of their order.
Fairness ==
  /\ WF_queueVars(Spawn)
  /\ WF_queueVars(Join)
  /\ \A t \in Thread : WF_queueVars(Pop(t)) /\ WF_queueVars(Finish(t))

Spec == Init /\ [][Next]_queueVars

FairSpec == Spec /\ Fairness

-----------------------------------------------------------------------------
Working(t) == wpc[t] = "work"

\* Every variable has its type.
TypeOK ==
  /\ total    \in 1 .. MaxRows
  /\ nthreads \in Thread
  /\ next     \in Nat
  /\ mpc      \in {"spawn", "join", "joined"}
  /\ spawned  \in 0 .. nthreads
  /\ joined   \in 0 .. nthreads
  /\ wpc      \in [Thread -> {"unborn", "pop", "work", "exited"}]
  /\ wrow     \in [Thread -> Row \cup {NoRow}]
  /\ finished \subseteq Row

\* A worker's row is a row of the window, no row is ever in the hands of two
\* workers, and none is handed out again once its loop body has ended: the slots raw[local], digests[local],
\* enc_cache[local], check_bufs[local] and decoded_ok[local], which the loop
\* bodies write without a lock, each have one writer per phase.
RowIssuedOnce ==
  /\ \A t, u \in Thread :
       Working(t) /\ Working(u) /\ t # u => wrow[t] # wrow[u]
  /\ \A t \in Thread :
       Working(t) => wrow[t] \in 0 .. total - 1 /\ wrow[t] \notin finished

\* When the main thread goes on after the join loop, every row of the window
\* has been processed and no worker still runs: what it then reads of the
\* slots is complete and is no longer written.
JoinedMeansAllDone ==
  mpc = "joined" =>
    /\ finished = 0 .. total - 1
    /\ \A t \in Thread : wpc[t] \in {"unborn", "exited"}

\* The counter runs past the end by at most one pop of each worker: it stays
\* far from the int's limit and the rows it names stay unissued.
OvershootBounded == next <= total + nthreads

\* Every phase ends, and with it the wall-clock interval spawn->join.
PhaseTerminates == mpc = "spawn" ~> mpc = "joined"

-----------------------------------------------------------------------------
\* The inductive invariant behind RowIssuedOnce and JoinedMeansAllDone.

\* Where the main thread is in its two loops.
LoopsInv ==
  /\ mpc = "spawn"  => spawned < nthreads /\ joined = 0
  /\ mpc = "join"   => spawned = nthreads /\ joined < nthreads
  /\ mpc = "joined" => spawned = nthreads /\ joined = nthreads
  /\ \A t \in Thread : wpc[t] = "unborn" <=> t > spawned
  /\ \A t \in Thread : t <= joined => wpc[t] = "exited"

\* The counter separates the rows handed out from those that are not, a worker
\* only leaves once all are, and a row handed out is held or finished.
CounterInv ==
  /\ \A t \in Thread : Working(t) => wrow[t] < next
  /\ \A t \in Thread : wpc[t] = "exited" => next >= total
  /\ finished \subseteq 0 .. total - 1
  /\ \A r \in finished : r < next
  /\ \A r \in 0 .. total - 1 :
       r < next => r \in finished \/ \E t \in Thread : Working(t) /\ wrow[t] = r

QueueInv == TypeOK /\ LoopsInv /\ CounterInv /\ RowIssuedOnce

\* The counter overshoots once per worker that has left its loop.
Exited == {t \in Thread : wpc[t] = "exited"}

OvershootInv == next <= total + Cardinality(Exited)

=============================================================================
