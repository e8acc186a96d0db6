\* Configuration files that leave keys out, on one image.
CONSTANTS
  ConfigFiles <- MCConfigFiles
  CommandLines <- NoArguments
  EnvThreads = {0}
  Images <- MCImages
  MaxWorkers = 10
SPECIFICATION Spec
INVARIANT MissingKeyHasDefault
