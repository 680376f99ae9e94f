CONSTANTS
  Uploads = {"first", "second", "project"}
  FileOf <- MCFileOf
  Bytecode = "bytecode.txt"
  NoFile = "none"
  Pieces = 3
  CodePieces = 1
  Faults = {"open", "write", "abort", "power", "overlap"}
SPECIFICATION Spec
INVARIANTS
  OneLostPerFault
  RunsRightProgram
CHECK_DEADLOCK FALSE
