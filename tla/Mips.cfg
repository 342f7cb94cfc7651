CONSTANTS
  ByteBits = 2
  Registers <- MCRegisters
  Programs <- MCPrograms
  DataAddress <- MCDataAddress
  DataSets <- MCDataSets
SPECIFICATION Spec
INVARIANTS CopiesWhole Disciplined
PROPERTIES Implements
CHECK_DEADLOCK FALSE
