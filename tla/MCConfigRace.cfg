\* One init in the repository, and a user who saves a file meanwhile.
CONSTANTS
  Processes = {p1}
  Commands = {"init"}
  Pieces = 2
  KnowsExeDir = TRUE
  Where <- BuildTree
  MaxSaves = 1
  p1 = p1
SPECIFICATION Spec
PROPERTY NeverOverwritten
