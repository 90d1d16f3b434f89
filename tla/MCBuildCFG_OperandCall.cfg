CONSTANTS
  Null = Null
  Sources <- MCOperandCall
  Intrinsics <- IntrinsicPackage
  MaxDepth = 8
  Fuel = 4
  ReferredBy <- LookedUpIn
  References <- VisitedIn
SPECIFICATION BuildAndCollectSpec
INVARIANT VisitorReturnsCorrectType
