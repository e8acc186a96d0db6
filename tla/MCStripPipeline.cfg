\* Two threads on windows of up to three rows: rows are contended, slots are
\* reused by a second window, and the last window is smaller than the first.
CONSTANTS
  MaxThreads = 2
  MaxRows = 3
  Options <- MCOptions
SPECIFICATION StripFair
INVARIANTS
  SlotsHoldWindowRows
  DropLosesNothing
  VerdictIsRoundTrip
  ReportedTotals
  StripInv
PROPERTIES
  ImplementsStripSpec
  ColumnEnds
