\* Two commands and a user who saves or removes a file, all at the same time.
CONSTANTS
  Processes = {p1, p2}
  Commands = {"init", "edit", "run"}
  Pieces = 2
  KnowsExeDir = TRUE
  Where <- BuildTree
  MaxSaves = 1
  p1 = p1
  p2 = p2
SPECIFICATION Spec
INVARIANT DamageIsConfined
PROPERTIES
  FoundIsKept
  CommandsAgreeOnFile
