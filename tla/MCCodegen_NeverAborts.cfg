CONSTANTS
  Value <- MCValue
  Zero = 0
  Arith <- MCArith
  Sources <- MCSources
  NameOf <- MangledName
  TypeIn <- GraphType
  GraphValues <- MCGraphValues
  Additional = {0, 1, 2}
SPECIFICATION CompileSpec
INVARIANT NeverAborts
CHECK_DEADLOCK FALSE
