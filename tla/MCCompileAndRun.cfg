CONSTANTS
  Value <- MCValue
  Zero = 0
  Arith <- MCArith
  FrameSlots = 1
  StackSize = 16
  VectorSlots = 16
  MaxFrames = 4
  Instructions <- MCInstructions
  Packages <- MCPackages
  MaxEvaluations = 2
  Sources <- MCSourcesAndComposed
  NameOf <- MangledName
  TypeIn <- GraphType
  GraphValues <- MCAllGraphValues
  Additional = {0, 1, 2}
SPECIFICATION CompileAndRunSpec
INVARIANTS
  FunctionsFound
  PopsUnreadParams
  StackSizeCounts
  CompilesAsExpected
  ReturnsDenotation
  CompiledNeverFaults
  EvaluationsAgree
  AsExpected
PROPERTY EventuallyReturns
