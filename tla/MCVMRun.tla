------------------------------- MODULE MCVMRun -------------------------------
(***************************************************************************)
(* Packages for VMRun.                                                     *)
(*                                                                         *)
(* Examples: the eight packages of src/test/runtime/vm-eval/examples.  A   *)
(* vector of three samples takes one slot, of which one sample stands for  *)
(* all: each example is run once for each sample of its @with clause, with *)
(* the sample its @expect clause has in the same place.                    *)
(*                                                                         *)
(* Programs: every package whose main is three instructions of Body and an *)
(* EXIT, with one of three functions f after it: one that adds to its      *)
(* argument, one that pushes a pointer to itself and drops it, one that    *)
(* calls itself; and packages that do not define f.                        *)
(***************************************************************************)
EXTENDS VMRun

Inst(op, operand) == [op |-> op, operand |-> operand]
Plus(flavour, operand) == [op |-> flavour, operation |-> "ADD", operand |-> operand]
Op0(op) == [op |-> op]
PUSH_SYM(symbol) == [op |-> "PUSH_SYM", symbol |-> symbol]

MCInstructions ==
  [op : {"PUSH", "COPY", "REF_VEC", "DROP_S", "DROP_V", "CALL"}, operand : 0 .. 36]
    \cup [op : Flavours, operation : Operations, operand : 0 .. 18]
    \cup [op : {"FILL", "RET", "EXIT"}]

\* A package with the single function main.
OnlyMain(instructions, Result(_), samples) ==
  { [ code    |-> instructions,
      symbols |-> [s \in {"main"} |-> 0],
      entry   |-> "main",
      param   |-> [lane \in Lanes |-> x],
      expect  |-> [lane \in Lanes |-> Result(x)] ] : x \in samples }

Same(x) == x
Five(x) == 5
Two(x) == 2
Single(x) == 1
Twice(x) == x + x
PlusTwo(x) == x + 2
PlusThree(x) == x + 3

binaryop_scalar_scalar ==
  OnlyMain(<<Inst("PUSH", 2), Inst("PUSH", 3), Plus("SS", 1), Op0("RET"), Op0("FILL"), Op0("EXIT")>>,
       Five, {1, 2, 3})
binaryop_scalar_vector ==
  OnlyMain(<<Inst("PUSH", 2), Op0("RET"), Plus("SV", 0), Op0("EXIT")>>, PlusTwo, {1, 2, 3})
binaryop_vector_scalar ==
  OnlyMain(<<Inst("PUSH", 2), Inst("REF_VEC", 2), Op0("RET"), Plus("VS", 1), Op0("EXIT")>>,
       PlusTwo, {1, 2, 3})
binaryop_vector_vector ==
  OnlyMain(<<Inst("REF_VEC", 1), Op0("RET"), Plus("VV", 0), Op0("EXIT")>>, Twice, {1, 2, 3})
drop_s ==
  OnlyMain(<<Inst("PUSH", 1), Inst("PUSH", 2), Inst("DROP_S", 2), Op0("RET"), Op0("FILL"), Op0("EXIT")>>,
       Two, {0})
drop_v_strong ==
  OnlyMain(<<Inst("PUSH", 1), Op0("FILL"), Op0("RET"), Inst("DROP_V", 1), Op0("EXIT")>>, Single, {1, 2, 3})
drop_v_weak ==
  OnlyMain(<<Inst("PUSH", 1), Inst("REF_VEC", 2), Inst("DROP_V", 1), Op0("RET"), Inst("DROP_V", 1), Op0("EXIT")>>,
       Same, {1, 2, 3})
function_call ==
  { [p EXCEPT !.symbols = [s \in {"main", "myFunc"} |-> IF s = "main" THEN 0 ELSE 5]] :
      p \in OnlyMain(<<Inst("PUSH", 1), PUSH_SYM("myFunc"), Op0("RET"), Inst("CALL", 0), Op0("EXIT"),
                   Inst("PUSH", 2), Plus("SS", 0), Op0("RET"), Plus("SV", 0), Op0("EXIT")>>,
                 PlusThree, {1, 2, 3}) }

Examples ==
  UNION { binaryop_scalar_scalar, binaryop_scalar_vector, binaryop_vector_scalar,
          binaryop_vector_vector, drop_s, drop_v_strong, drop_v_weak, function_call }

----------------------------------------------------------------------------
Body ==
  { Inst("PUSH", 1), PUSH_SYM("f"), Inst("COPY", 1), Inst("REF_VEC", 1), Inst("DROP_S", 0),
    Inst("DROP_V", 0), Inst("CALL", 0), Inst("CALL", 1), [op |-> "FILL"], [op |-> "RET"],
    [op |-> "SV", operation |-> "ADD", operand |-> 0],
    [op |-> "SS", operation |-> "MUL", operand |-> 0] }

Functions ==
  { << Inst("PUSH", 2), [op |-> "RET"],
       [op |-> "SV", operation |-> "ADD", operand |-> 0], [op |-> "EXIT"] >>,
    << Inst("PUSH", 1), PUSH_SYM("f"), [op |-> "RET"], Inst("DROP_S", 1), [op |-> "EXIT"] >>,
    << PUSH_SYM("f"), Inst("CALL", 0), [op |-> "EXIT"] >> }

Symbols(defined) == [s \in defined |-> IF s = "main" THEN 0 ELSE 4]

Programs ==
  { [ code    |-> main \o <<[op |-> "EXIT"]>> \o function,
      symbols |-> Symbols(defined),
      entry   |-> "main",
      param   |-> [lane \in Lanes |-> 3] ] :
    main \in [1 .. 3 -> Body], function \in Functions,
    defined \in {{"main"}, {"main", "f"}} }

MCPackages == Examples \cup Programs

----------------------------------------------------------------------------
IsExample == "expect" \in DOMAIN package

(* An example ends, without a fault, in what its test expects             *)
(* (src/test/runtime/vm-eval/examples).                                    *)
AsExpected ==
  IsExample => /\ status \in {"running", "returned", "done"}
               /\ \A i \in DOMAIN results : results[i] = package.expect
=============================================================================
