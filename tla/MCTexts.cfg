CONSTANT Inputs <- MCInputs
SPECIFICATION TextSpec
INVARIANTS
  ReadsBack
  AsWritten
  SourceIsRead
CHECK_DEADLOCK FALSE
