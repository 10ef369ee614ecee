SPECIFICATION Spec
CONSTANTS
  Bytes = {"_", "0", "x"}
  Space = "_"
  Digits = {"0"}
  ASCII <- MCASCII
  Capacity = 4
  ManualDictionary <- MCManualDictionary
  Compares <- MCCompares
  Mutations <- MCMutations
  MemMemWords <- MCMemMemWords
  Cases <- MCCases
  MinBytesToInsert = 2
  Tries = 2
  CmpRingSize = 2
  MaxDictSize = 2
  MutateDepth = 2
INVARIANTS
  WithinBuffer
  OnlyASCII
  EntriesAreApplied
  RecordedOnce
PROPERTIES
  MaskKept
