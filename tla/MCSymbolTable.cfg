CONSTANTS
  Thread <- MCThread
  String <- MCString
  MaxId = 2
  Free = Free
SPECIFICATION SymbolSpec
INVARIANTS
  SymbolTypeOK
  SymbolsIdentify
  NamesKept
PROPERTIES
  ImplementsInterning
  Unlocks
