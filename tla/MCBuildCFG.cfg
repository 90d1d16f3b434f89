CONSTANTS
  Null = Null
  Sources <- MCSources
  Intrinsics <- Products
  MaxDepth = 8
  Fuel = 4
  ReferredBy <- LookedUpIn
  References <- VisitedIn
SPECIFICATION BuildAndCollectSpec
INVARIANTS
  BuildTypeOK
  PackageComplete
  ReferencesResolved
  DenotesSource
  FirstOrderEnds
PROPERTY
  BuiltAndCollected
