\* All sources combined, on images of five sizes.
CONSTANTS
  ConfigFiles <- MCConfigFiles
  CommandLines <- MCCommandLines
  EnvThreads = {0, 5, 64}
  Images <- MCImages
  MaxWorkers = 10
SPECIFICATION Spec
INVARIANTS
  ParametersFitPipeline
  StrongestSourceWins
  AutoWidthFits
  GridCoversImage
