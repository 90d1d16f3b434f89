CONSTANTS
  Value <- MCValue
  Zero = 0
  Arith <- MCArith
  FrameSlots = 1
  StackSize = 12
  VectorSlots = 12
  MaxFrames = 4
  Instructions <- MCInstructions
  Packages = {}
  MaxEvaluations = 1
  Sources <- MCReadsParam
  NameOf <- MangledName
  TypeIn <- GraphType
  GraphValues <- MCReadsParamValues
  Additional = {0, 1, 2}
SPECIFICATION CompileAndRunSpec
INVARIANT CalleesPopOperands
