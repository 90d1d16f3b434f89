CONSTANT Inputs <- MCMisplaced
SPECIFICATION TextSpec
INVARIANT ErrorsNameTheirLine
CHECK_DEADLOCK FALSE
