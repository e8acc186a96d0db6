\* Documents of every shape, and command lines of up to three words after run.
CONSTANTS
  Situations <- MCSituations
  IntMax = 5000
  DoubleMax = 100000
SPECIFICATION Spec
INVARIANTS
  RunUsesStrongestSource
  BuiltinIsDefault
  OnlyBadValuesCrash
