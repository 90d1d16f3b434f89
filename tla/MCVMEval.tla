------------------------------ MODULE MCVMEval ------------------------------
(* Small instances of VMEval: vectors of two slots, samples 0 and 1.       *)
EXTENDS VMEval

MCValue == {0, 1}

\* Addition and multiplication modulo 2 tell the operations and their operands apart.
MCArith(operation, x, y) ==
  IF operation = "ADD" THEN (x + y) % 2 ELSE (x * y) % 2

Offsets == {0, 1}

\* All opcodes but those that break the discipline of references: vector
\* arithmetic and DROP_V.  OwningSpec leaves out the copies of strong ones.
Disciplined ==
  [op : {"PUSH"}, operand : MCValue]
    \cup [op : {"COPY", "REF_VEC"}, operand : {1, 2}]
    \cup [op : {"DROP_S", "CALL"}, operand : Offsets]
    \cup [op : {"SS"}, operation : {"ADD", "MUL"}, operand : Offsets]
    \cup [op : {"FILL", "RET", "EXIT"}]

AllInstructions ==
  [op : {"PUSH"}, operand : {1}]
    \cup [op : {"COPY", "REF_VEC"}, operand : {1, 2}]
    \cup [op : {"DROP_S", "DROP_V", "CALL"}, operand : Offsets]
    \cup [op : Flavours, operation : {"ADD", "MUL"}, operand : Offsets]
    \cup [op : {"FILL", "RET", "EXIT"}]
=============================================================================
