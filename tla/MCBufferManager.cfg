\* Two workers beside the main thread; requests below and above the preferred
\* size; a stack of two for normal buffers, of which the upper may be too small
\* and the lower fit, and of one for big ones, which overflows.
CONSTANTS
  Main = Main
  Worker = {w1, w2}
  Block = {b1, b2}
  Request = {50, 100}
  Geometry <- MCGeometry
  CapNormal = 2
  CapBig = 1
  UintRange = 4096
SYMMETRY Symmetry
SPECIFICATION Spec
INVARIANTS
  TypeOK
  OneOwner
  NothingLeaks
  LargeEnough
  RaiseTookEffect
PROPERTY NeverLowered
