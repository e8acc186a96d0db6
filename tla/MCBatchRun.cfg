\* Every list of up to three files, with two format lists and all switches.
CONSTANTS
  Inputs <- MCInputs
  FormatIds <- MCFormatIds
  Switches <- MCSwitches
SPECIFICATION FairSpec
INVARIANTS
  BatchTypeOK
  RecordsTellTheirFile
  OneSourceSize
  EveryGoodFileReported
  ExitCodeTellsLoading
  CsvAgreesWithConsole
PROPERTY BatchEnds
