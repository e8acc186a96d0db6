------------------------- MODULE RowBlockQueueProofs -------------------------
(***************************************************************************)
(* Safety of the row-block queue and its worker pool, for every number of  *)
(* threads and every window size.                                          *)
(***************************************************************************)
EXTENDS RowBlockQueue, FiniteSetTheorems, TLAPS

\* The clamp yields a pool of at least one thread and at most the cap, for
\* every request: without the lower bound a phase would join nobody and go on
\* with no row processed.
LEMMA PoolSizeInRange ==
  ASSUME NEW requested \in Int, NEW rows \in Nat \ {0}
  PROVE  PoolSize(requested, rows) \in Thread
  BY MaxThreadsAssumption DEF PoolSize, Larger, Smaller, Thread

\* A freshly constructed queue satisfies the invariant, in whatever state the
\* previous phase left its own.
LEMMA StartQueueEstablishes ==
  ASSUME NEW rows \in 1 .. MaxRows, NEW requested \in Thread,
         StartQueue(rows, requested)
  PROVE  QueueInv'
  <1>1. PoolSize(requested, rows) \in Thread
    BY PoolSizeInRange, MaxRowsAssumption DEF Thread
  <1>2. TypeOK'
    BY <1>1, MaxRowsAssumption, MaxThreadsAssumption DEF StartQueue, TypeOK, Thread, Row, NoRow
  <1>3. LoopsInv'
    BY <1>1, MaxThreadsAssumption DEF StartQueue, LoopsInv, Thread
  <1>4. CounterInv'
    BY <1>1, MaxRowsAssumption DEF StartQueue, CounterInv, Working
  <1>5. RowIssuedOnce'
    BY DEF StartQueue, RowIssuedOnce, Working
  <1> QED BY <1>2, <1>3, <1>4, <1>5 DEF QueueInv

\* The first queue has issued nothing and no thread runs.
LEMMA InitEstablishes == Init => QueueInv
  <1> SUFFICES ASSUME NEW rows \in 1 .. MaxRows, NEW requested \in Thread,
                      total = rows, nthreads = PoolSize(requested, rows),
                      next = 0, mpc = "spawn", spawned = 0, joined = 0,
                      wpc = [t \in Thread |-> "unborn"],
                      wrow = [t \in Thread |-> NoRow], finished = {}
               PROVE  QueueInv
    BY DEF Init
  <1>1. PoolSize(requested, rows) \in Thread
    BY PoolSizeInRange, MaxRowsAssumption DEF Thread
  <1>2. TypeOK
    BY <1>1, MaxRowsAssumption, MaxThreadsAssumption DEF TypeOK, Thread, Row, NoRow
  <1>3. LoopsInv
    BY <1>1, MaxThreadsAssumption DEF LoopsInv, Thread
  <1>4. CounterInv
    BY MaxRowsAssumption DEF CounterInv, Working
  <1>5. RowIssuedOnce
    BY DEF RowIssuedOnce, Working
  <1> QED BY <1>2, <1>3, <1>4, <1>5 DEF QueueInv

\* Starting one more thread disturbs only the loop bookkeeping.
LEMMA SpawnPreserves == QueueInv /\ Spawn => QueueInv'
  <1> SUFFICES ASSUME QueueInv, Spawn PROVE QueueInv'
    OBVIOUS
  <1> USE DEF QueueInv
  <1>1. spawned + 1 \in Thread /\ wpc[spawned + 1] = "unborn" /\ spawned + 1 <= nthreads
    BY MaxThreadsAssumption DEF Spawn, TypeOK, LoopsInv, Thread
  <1>2. TypeOK'
    BY <1>1 DEF Spawn, TypeOK, Thread
  <1>3. LoopsInv'
    BY <1>1 DEF Spawn, TypeOK, LoopsInv, Thread
  <1>4. \A t \in Thread : /\ Working(t)' <=> Working(t)
                          /\ wpc'[t] = "exited" <=> wpc[t] = "exited"
    BY <1>1 DEF Spawn, TypeOK, Working
  <1>5. CounterInv'
    BY <1>4 DEF Spawn, CounterInv
  <1>6. RowIssuedOnce'
    BY <1>4 DEF Spawn, RowIssuedOnce
  <1> QED BY <1>2, <1>3, <1>5, <1>6

\* The atomic increment hands the row `next` to one worker, or sends it home.
LEMMA PopPreserves ==
  ASSUME NEW t \in Thread, QueueInv, Pop(t)
  PROVE  QueueInv'
  <1> USE DEF QueueInv
  <1>1. CASE next < total
    <2>1. /\ next' = next + 1 /\ wpc' = [wpc EXCEPT ![t] = "work"]
          /\ wrow' = [wrow EXCEPT ![t] = next]
          /\ UNCHANGED <<total, nthreads, mpc, spawned, joined, finished>>
          /\ next \in 0 .. total - 1 /\ next \in Row
      BY <1>1, MaxRowsAssumption DEF Pop, TypeOK, Row
    <2>2. TypeOK'
      BY <2>1 DEF TypeOK
    <2>3. LoopsInv'
      BY <2>1 DEF TypeOK, LoopsInv, Pop
    <2>4. \A u \in Thread : /\ Working(u)' <=> Working(u) \/ u = t
                            /\ u # t => wrow'[u] = wrow[u]
      BY <2>1 DEF TypeOK, Working
    <2>5. wrow'[t] = next /\ ~Working(t)
      BY <2>1 DEF TypeOK, Pop, Working
    <2>6. CounterInv'
      <3>1. \A u \in Thread : Working(u)' => wrow'[u] < next'
        BY <2>1, <2>4, <2>5 DEF TypeOK, CounterInv, Row, NoRow
      <3>2. \A u \in Thread : wpc'[u] = "exited" => next' >= total'
        BY <1>1, <2>1 DEF TypeOK, CounterInv
      <3>3. finished' \subseteq 0 .. total' - 1 /\ \A r \in finished' : r < next'
        BY <2>1 DEF TypeOK, CounterInv, Row
      <3>4. \A r \in 0 .. total' - 1 :
              r < next' => r \in finished' \/ \E u \in Thread : Working(u)' /\ wrow'[u] = r
        <4> SUFFICES ASSUME NEW r \in 0 .. total - 1, r < next + 1
                     PROVE  r \in finished \/ \E u \in Thread : Working(u)' /\ wrow'[u] = r
          BY <2>1
        <4>1. CASE r = next
          BY <4>1, <2>4, <2>5
        <4>2. CASE r < next
          BY <4>2, <2>4, <2>5 DEF CounterInv
        <4> QED BY <4>1, <4>2 DEF TypeOK
      <3> QED BY <3>1, <3>2, <3>3, <3>4 DEF CounterInv, Working
    <2>7. RowIssuedOnce'
      <3>1. next \notin finished /\ \A u \in Thread : Working(u) => wrow[u] # next
        BY DEF TypeOK, CounterInv, Row, NoRow
      <3> QED BY <2>1, <2>4, <2>5, <3>1 DEF RowIssuedOnce, Working
    <2> QED BY <2>2, <2>3, <2>6, <2>7
  <1>2. CASE ~(next < total)
    <2>1. /\ next' = next + 1 /\ wpc' = [wpc EXCEPT ![t] = "exited"]
          /\ UNCHANGED <<total, nthreads, mpc, spawned, joined, finished, wrow>>
          /\ wpc[t] = "pop"
      BY <1>2 DEF Pop
    <2>2. TypeOK'
      BY <2>1 DEF TypeOK
    <2>3. LoopsInv'
      BY <2>1 DEF TypeOK, LoopsInv
    <2>4. \A u \in Thread : Working(u)' <=> Working(u)
      BY <2>1 DEF TypeOK, Working
    <2>5. CounterInv'
      <3>1. \A u \in Thread : Working(u)' => wrow'[u] < next'
        BY <2>1, <2>4 DEF TypeOK, CounterInv, Row, NoRow
      <3>2. \A u \in Thread : wpc'[u] = "exited" => next' >= total'
        BY <1>2, <2>1 DEF TypeOK
      <3>3. finished' \subseteq 0 .. total' - 1 /\ \A r \in finished' : r < next'
        BY <2>1 DEF TypeOK, CounterInv, Row
      <3>4. \A r \in 0 .. total' - 1 :
              r < next' => r \in finished' \/ \E u \in Thread : Working(u)' /\ wrow'[u] = r
        BY <1>2, <2>1, <2>4 DEF TypeOK, CounterInv
      <3> QED BY <3>1, <3>2, <3>3, <3>4 DEF CounterInv, Working
    <2>6. RowIssuedOnce'
      BY <2>1, <2>4 DEF RowIssuedOnce
    <2> QED BY <2>2, <2>3, <2>5, <2>6
  <1> QED BY <1>1, <1>2

\* A row that leaves a worker's hands is finished.
LEMMA FinishPreserves ==
  ASSUME NEW t \in Thread, QueueInv, Finish(t)
  PROVE  QueueInv'
  <1> USE DEF QueueInv
  <1>1. /\ wpc[t] = "work"
        /\ wpc' = [wpc EXCEPT ![t] = "pop"]
        /\ wrow' = [wrow EXCEPT ![t] = NoRow]
        /\ finished' = finished \cup {wrow[t]}
        /\ UNCHANGED <<total, nthreads, next, mpc, spawned, joined>>
    BY DEF Finish
  <1>2. wrow[t] \in 0 .. total - 1 /\ wrow[t] < next /\ wrow[t] \in Row
    BY <1>1, MaxRowsAssumption DEF RowIssuedOnce, CounterInv, Working, TypeOK, Row, NoRow
  <1>3. TypeOK'
    BY <1>1, <1>2 DEF TypeOK
  <1>4. LoopsInv'
    BY <1>1 DEF TypeOK, LoopsInv
  <1>5. \A u \in Thread : /\ Working(u)' <=> Working(u) /\ u # t
                          /\ u # t => wrow'[u] = wrow[u]
    BY <1>1 DEF TypeOK, Working
  <1>6. CounterInv'
    <2>1. \A u \in Thread : Working(u)' => wrow'[u] < next'
      BY <1>1, <1>5 DEF CounterInv
    <2>2. \A u \in Thread : wpc'[u] = "exited" => next' >= total'
      BY <1>1 DEF TypeOK, CounterInv
    <2>3. finished' \subseteq 0 .. total' - 1 /\ \A r \in finished' : r < next'
      BY <1>1, <1>2 DEF CounterInv
    <2>4. \A r \in 0 .. total' - 1 :
            r < next' => r \in finished' \/ \E u \in Thread : Working(u)' /\ wrow'[u] = r
      <3> SUFFICES ASSUME NEW r \in 0 .. total - 1, r < next
                   PROVE  r \in finished' \/ \E u \in Thread : Working(u)' /\ wrow'[u] = r
        BY <1>1
      <3>1. r \in finished \/ \E u \in Thread : Working(u) /\ wrow[u] = r
        BY DEF CounterInv
      <3> QED BY <3>1, <1>1, <1>5
    <2> QED BY <2>1, <2>2, <2>3, <2>4 DEF CounterInv, Working
  <1>7. RowIssuedOnce'
    <2>1. \A u, v \in Thread :
            Working(u)' /\ Working(v)' /\ u # v => wrow'[u] # wrow'[v]
      BY <1>5 DEF RowIssuedOnce
    <2>2. \A u \in Thread :
            Working(u)' => wrow'[u] \in 0 .. total' - 1 /\ wrow'[u] \notin finished'
      BY <1>1, <1>5 DEF RowIssuedOnce, Working
    <2> QED BY <2>1, <2>2 DEF RowIssuedOnce, Working
  <1> QED BY <1>3, <1>4, <1>6, <1>7

\* Joining a thread that has left its loop changes nothing about the rows.
LEMMA JoinPreserves == QueueInv /\ Join => QueueInv'
  <1> SUFFICES ASSUME QueueInv, Join PROVE QueueInv'
    OBVIOUS
  <1> USE DEF QueueInv
  <1>1. TypeOK'
    BY MaxThreadsAssumption DEF Join, TypeOK, LoopsInv, Thread
  <1>2. LoopsInv'
    BY MaxThreadsAssumption DEF Join, TypeOK, LoopsInv, Thread
  <1>3. CounterInv'
    BY DEF Join, CounterInv, Working
  <1>4. RowIssuedOnce'
    BY DEF Join, RowIssuedOnce, Working
  <1> QED BY <1>1, <1>2, <1>3, <1>4

\* No step of any phase breaks the queue's invariant.
LEMMA NextPreserves == QueueInv /\ [Next]_queueVars => QueueInv'
  <1> SUFFICES ASSUME QueueInv, [Next]_queueVars PROVE QueueInv'
    OBVIOUS
  <1>1. CASE Spawn
    BY <1>1, SpawnPreserves
  <1>2. CASE \E t \in Thread : Pop(t)
    BY <1>2, PopPreserves
  <1>3. CASE \E t \in Thread : Finish(t)
    BY <1>3, FinishPreserves
  <1>4. CASE Join
    BY <1>4, JoinPreserves
  <1>5. CASE NextPhase
    BY <1>5, StartQueueEstablishes DEF NextPhase
  <1>6. CASE UNCHANGED queueVars
    BY <1>6 DEF queueVars, QueueInv, TypeOK, LoopsInv, CounterInv, RowIssuedOnce, Working
  <1> QED BY <1>1, <1>2, <1>3, <1>4, <1>5, <1>6 DEF Next

\* The inductive invariant holds in every reachable state of every phase.
THEOREM QueueCorrect == Spec => []QueueInv
  <1>1. Init => QueueInv
    BY InitEstablishes
  <1>2. QueueInv /\ [Next]_queueVars => QueueInv'
    BY NextPreserves
  <1> QED BY <1>1, <1>2, PTL DEF Spec

\* The queue and the pool are well typed, for every pool and window.
THEOREM QueueTypeCorrect == Spec => []TypeOK
  <1>1. QueueInv => TypeOK
    BY DEF QueueInv
  <1> QED BY <1>1, QueueCorrect, PTL

\* No two workers ever hold the same row and no row is handed out twice: the
\* unlocked writes of the loop bodies to their slots cannot collide.
THEOREM RowsAreIssuedOnce == Spec => []RowIssuedOnce
  <1>1. QueueInv => RowIssuedOnce
    BY DEF QueueInv
  <1> QED BY <1>1, QueueCorrect, PTL

\* With the invariant, a joined pool has processed the whole window.
LEMMA QueueInvImpliesDone == QueueInv => JoinedMeansAllDone
  <1> SUFFICES ASSUME QueueInv, mpc = "joined"
               PROVE  /\ finished = 0 .. total - 1
                      /\ \A t \in Thread : wpc[t] \in {"unborn", "exited"}
    BY DEF JoinedMeansAllDone
  <1> USE DEF QueueInv
  <1>1. \A t \in Thread : wpc[t] \in {"unborn", "exited"}
    <2> TAKE t \in Thread
    <2>1. CASE t <= joined
      BY <2>1 DEF LoopsInv
    <2>2. CASE t > joined
      BY <2>2 DEF LoopsInv
    <2> QED BY <2>1, <2>2, MaxThreadsAssumption DEF TypeOK, Thread
  <1>2. wpc[1] = "exited" /\ 1 \in Thread
    BY MaxThreadsAssumption DEF TypeOK, LoopsInv, Thread
  <1>3. next >= total
    BY <1>2 DEF CounterInv
  <1>4. \A t \in Thread : ~Working(t)
    BY <1>1 DEF Working
  <1>5. \A r \in 0 .. total - 1 : r \in finished
    BY <1>3, <1>4 DEF CounterInv, TypeOK
  <1> QED BY <1>1, <1>5 DEF CounterInv

\* What the main thread reads after its join loop is complete and at rest, for
\* every window and pool: this is where the pool of at least one thread counts.
THEOREM JoinCompletesWindow == Spec => []JoinedMeansAllDone
  <1> QED BY QueueInvImpliesDone, QueueCorrect, PTL

-----------------------------------------------------------------------------
\* Threads are finitely many, and so are those that have left their loop.
LEMMA ExitedFinite ==
  /\ IsFiniteSet(Exited) /\ Cardinality(Exited) \in Nat
  /\ IsFiniteSet(Exited') /\ Cardinality(Exited') \in Nat
  <1>1. IsFiniteSet(Thread)
    BY FS_Interval, MaxThreadsAssumption DEF Thread
  <1>2. Exited \in SUBSET Thread /\ Exited' \in SUBSET Thread
    BY DEF Exited
  <1>3. IsFiniteSet(Exited) /\ IsFiniteSet(Exited')
    BY <1>1, <1>2, FS_Subset
  <1> QED BY <1>3, FS_CardinalityType

\* A pop raises the counter past the end only together with the set of the
\* threads that have left.
LEMMA NextOvershoots ==
  QueueInv /\ OvershootInv /\ [Next]_queueVars => OvershootInv'
  <1> SUFFICES ASSUME QueueInv, OvershootInv, [Next]_queueVars PROVE OvershootInv'
    OBVIOUS
  <1> USE DEF QueueInv
  <1>1. CASE Spawn
    <2>1. spawned + 1 \in Thread /\ wpc[spawned + 1] = "unborn"
      BY <1>1, MaxThreadsAssumption DEF Spawn, TypeOK, LoopsInv, Thread
    <2>2. Exited' = Exited
      BY <1>1, <2>1 DEF Spawn, TypeOK, Exited
    <2> QED BY <1>1, <2>2 DEF Spawn, OvershootInv
  <1>2. ASSUME NEW t \in Thread, Pop(t) PROVE OvershootInv'
    <2>1. CASE next < total
      <3>1. Exited' = Exited
        BY <1>2, <2>1 DEF Pop, TypeOK, Exited
      <3>2. next' = next + 1 /\ total' = total
        BY <1>2 DEF Pop
      <3> QED BY <2>1, <3>1, <3>2, ExitedFinite DEF TypeOK, OvershootInv
    <2>2. CASE ~(next < total)
      <3>1. Exited' = Exited \cup {t} /\ t \notin Exited
        BY <1>2, <2>2 DEF Pop, TypeOK, Exited
      <3>2. Cardinality(Exited') = Cardinality(Exited) + 1
        BY <3>1, ExitedFinite, FS_AddElement
      <3>3. next' = next + 1 /\ total' = total
        BY <1>2 DEF Pop
      <3> QED BY <3>2, <3>3, ExitedFinite DEF TypeOK, OvershootInv
    <2> QED BY <2>1, <2>2
  <1>3. ASSUME NEW t \in Thread, Finish(t) PROVE OvershootInv'
    <2>1. Exited' = Exited
      BY <1>3 DEF Finish, TypeOK, Exited
    <2> QED BY <1>3, <2>1 DEF Finish, OvershootInv
  <1>4. CASE Join
    BY <1>4 DEF Join, OvershootInv, Exited
  <1>5. CASE NextPhase
    <2>1. PICK rows \in 1 .. MaxRows, requested \in Thread : StartQueue(rows, requested)
      BY <1>5 DEF NextPhase
    <2>2. next' = 0 /\ total' \in Nat
      BY <2>1, MaxRowsAssumption DEF StartQueue
    <2> QED BY <2>2, ExitedFinite DEF OvershootInv
  <1>6. CASE UNCHANGED queueVars
    BY <1>6 DEF queueVars, OvershootInv, Exited
  <1> QED BY <1>1, <1>2, <1>3, <1>4, <1>5, <1>6 DEF Next

\* Only started threads have left, so the overshoot is bounded by the pool.
LEMMA OvershootInvImpliesBound == QueueInv /\ OvershootInv => OvershootBounded
  <1> SUFFICES ASSUME QueueInv, OvershootInv PROVE OvershootBounded
    OBVIOUS
  <1>1. nthreads \in Nat /\ spawned \in 0 .. nthreads
    BY DEF QueueInv, TypeOK, Thread
  <1>2. Exited \in SUBSET (1 .. nthreads)
    BY <1>1, MaxThreadsAssumption DEF QueueInv, LoopsInv, TypeOK, Exited, Thread
  <1>3. IsFiniteSet(1 .. nthreads) /\ Cardinality(1 .. nthreads) = nthreads
    BY <1>1, FS_Interval, MaxThreadsAssumption DEF QueueInv, TypeOK, Thread
  <1>4. Cardinality(Exited) <= nthreads
    BY <1>2, <1>3, FS_Subset
  <1> QED BY <1>1, <1>4, ExitedFinite DEF OvershootInv, OvershootBounded, QueueInv, TypeOK

\* The shared int stays within one pop per worker of the window's size, for
\* every pool and window: with cache_blocks rows it cannot wrap around and
\* hand out a row again.
THEOREM OvershootIsBounded == Spec => []OvershootBounded
  <1>1. Init => OvershootInv
    <2> SUFFICES ASSUME Init PROVE OvershootInv
      OBVIOUS
    <2>1. next = 0 /\ total \in Nat
      BY MaxRowsAssumption DEF Init
    <2> QED BY <2>1, ExitedFinite DEF OvershootInv
  <1>2. QueueInv /\ OvershootInv /\ [Next]_queueVars => OvershootInv'
    BY NextOvershoots
  <1> QED BY <1>1, <1>2, OvershootInvImpliesBound, QueueCorrect, PTL DEF Spec
=============================================================================
