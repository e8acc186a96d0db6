\* Windows smaller, equal to and larger than the pool all occur, so the pool
\* clamp, workers that never get a row and workers that get several do too.
CONSTANTS
  MaxThreads = 4
  MaxRows = 5
SPECIFICATION FairSpec
INVARIANTS
  TypeOK
  RowIssuedOnce
  JoinedMeansAllDone
  OvershootBounded
  QueueInv
PROPERTY PhaseTerminates
