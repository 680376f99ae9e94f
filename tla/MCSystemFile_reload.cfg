CONSTANTS
  Uploads = {"first", "second"}
  FileOf <- MCFileOf
  Bytecode = "bytecode.txt"
  NoFile = "none"
  Pieces = 4
  CodePieces = 2
  Faults = {}
SPECIFICATION FairSpec
PROPERTIES
  ReloadFollows
CHECK_DEADLOCK FALSE
