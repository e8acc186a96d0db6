\* The documents and command lines of MCCommandLine.cfg.
CONSTANTS
  Situations <- MCSituations
  IntMax = 5000
  DoubleMax = 100000
SPECIFICATION Spec
INVARIANT CommentsSayNothing
