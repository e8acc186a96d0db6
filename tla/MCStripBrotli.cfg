\* --check with Brotli as the format, on one window of two rows.
CONSTANTS
  MaxThreads = 2
  MaxRows = 2
  Options <- BrotliOptions
SPECIFICATION StripSafety
INVARIANT CheckedOkMeansRestored
