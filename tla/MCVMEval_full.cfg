CONSTANTS
  Value <- MCValue
  Zero = 0
  Arith <- MCArith
  FrameSlots = 2
  StackSize = 4
  VectorSlots = 6
  MaxFrames = 3
  Instructions <- AllInstructions
SPECIFICATION Spec
INVARIANT VectorStackBounded
PROPERTIES
  OnlyCopiesUnstack
  OnlyTopVectorWritten
