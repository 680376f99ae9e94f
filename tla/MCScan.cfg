SPECIFICATION FairSpec
CONSTANTS
  NumInputs = 3
  NumOutputs = 1
  OutputOffset = 3
  MemSize = 9
  Word = 8
  Preset = 5
  MaxDt = 2
  StackMax = 3
  Columns = 5
  Wired = 1
  Settable <- MCSettable
  Drawings <- MCDrawings
  Programs <- MCPrograms
  InitialMem <- MCMem
INVARIANTS TypeOK NoUnderflow ScanMeaning SimulatorAgrees
PROPERTIES LatchHolds 
