SPECIFICATION Spec
CONSTANTS
  NumInputs = 4
  NumOutputs = 1
  OutputOffset = 3
  MemSize = 9
  Word = 8
  Preset = 5
  MaxDt = 2
  StackMax = 3
  Columns = 3
  Wired = 1
  Settable <- MCSettable
  Drawings <- MCDrawings
  Programs <- MCPrograms
  InitialMem <- MCMem
PROPERTY LatchHolds
