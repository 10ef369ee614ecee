SPECIFICATION FlowSpec
CONSTANTS
  Lengths <- MCLengths
  Programs <- MCPrograms
  Blocks <- MCBlocks
  NumLabels = 2
  MaxKilled = 1
INVARIANTS
  TracesExact
  CountersRight
  FocusExecuted
