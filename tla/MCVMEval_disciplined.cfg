CONSTANTS
  Value <- MCValue
  Zero = 0
  Arith <- MCArith
  FrameSlots = 2
  StackSize = 5
  VectorSlots = 6
  MaxFrames = 3
  Instructions <- Disciplined
SPECIFICATION OwningSpec
INVARIANTS
  TypeOK
  OneStrongRef
  WeakAboveStrong
  DeallocNeverFails
PROPERTY ImplementsStackMachine
