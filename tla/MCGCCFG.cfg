CONSTANTS
  main = main
  f = f
  g = g
  absent = absent
  Key <- MCKey
  Packages <- MCPackages
SPECIFICATION GCSpec
INVARIANTS
  GCTypeOK
  KeepsWhatIsNeeded
  NeverErasesNeeded
  RecursionBounded
PROPERTY Terminates
