-------------------------------- MODULE VMRun --------------------------------
(***************************************************************************)
(* Evaluating a package (the test entry point eval, lookup and PUSH_SYM's  *)
(* fixup in src/lib/runtime/VMEval.cpp; Package in Instruction.hpp).       *)
(*                                                                         *)
(* The instruction executed is no longer any instruction but the one the   *)
(* activation's instruction pointer names.  The package is shared by       *)
(* every evaluation of it, and evaluating it rewrites its code.            *)
(***************************************************************************)
EXTENDS VMEval

CONSTANTS
  Packages,         \* the packages to evaluate, each with its parameter
  MaxEvaluations    \* bound: evaluations of one package

(* Code is instructions and symbols to look up; a symbol's value and a      *)
(* sample each fit where an immediate does.                                *)
ASSUME PackagesAssumption ==
  \A p \in Packages :
    /\ p.code = [i \in 1 .. Len(p.code) |-> p.code[i]]
    /\ \A i \in DOMAIN p.code : p.code[i].op # "PUSH_SYM" => p.code[i] \in Instruction
    /\ p.symbols \in [DOMAIN p.symbols -> Value]
    /\ p.param \in [Lanes -> Value]

VARIABLES
  package,    \* the Package: code, symbols, and the fixed parameter and entry
  code,       \* package.code as the evaluations so far left it
  instPtrs,   \* the instruction pointer of each activation in frames
  results     \* what the completed evaluations returned

runVars == <<vm, frames, status, package, code, instPtrs, results>>

\* Beyond VMEval's: a failed lookup throws; a fetch outside the code, or an
\* opcode applied to operands of the wrong type, is undefined behaviour.
RunStatus == Status \cup {"thrown", "wild", "illtyped", "done"}

InstPtr == instPtrs[Len(instPtrs)]
Fetched == code[InstPtr + 1]      \* instruction pointers count from 0

Defined(symbol) == symbol \in DOMAIN package.symbols

lookup(symbol) == package.symbols[symbol]

Fixup_secondInstruction(symbol) == [op |-> "PUSH", operand |-> lookup(symbol) + 1]

\* What a PUSH_SYM is rewritten to once it has looked its symbol up.
Fixup(symbol) == [op |-> "PUSH", operand |-> lookup(symbol)]

Advance(ptrs) == [ptrs EXCEPT ![Len(ptrs)] = @ + 1]

\* ++instPtr; a CALL's is done when its callee has returned, which comes to the same.
MoveInstPtrs ==
  instPtrs' =
    IF status' # "running" THEN instPtrs
    ELSE IF Len(frames') > Len(frames) THEN Append(Advance(instPtrs), Get(vm, 1).payload)
    ELSE IF Len(frames') < Len(frames) THEN Caller(instPtrs)
    ELSE Advance(instPtrs)

Perform(inst) ==
  \/ OperandsFit(inst) /\ Execute(inst)
  \/ ~OperandsFit(inst) /\ Stop("illtyped")

PushSymbol ==
  \/ /\ Defined(Fetched.symbol)
     /\ Perform([op |-> "PUSH", operand |-> lookup(Fetched.symbol)])
     /\ code' = [code EXCEPT ![InstPtr + 1] = Fixup(Fetched.symbol)]
  \/ /\ ~Defined(Fetched.symbol)
     /\ Stop("thrown")
     /\ UNCHANGED code

Evaluate ==
  /\ status = "running"
  /\ \/ /\ InstPtr + 1 \in DOMAIN code
        /\ \/ Fetched.op = "PUSH_SYM" /\ PushSymbol
           \/ Fetched.op # "PUSH_SYM" /\ Perform(Fetched) /\ UNCHANGED code
     \/ InstPtr + 1 \notin DOMAIN code /\ Stop("wild") /\ UNCHANGED code
  /\ MoveInstPtrs
  /\ UNCHANGED <<package, results>>

\* The entry point has allocated the parameter's vector; it looks the entry up.
Started(p) ==
  [ vm       |-> Store(Alloc(Fresh), StrongRef(0), p.param),
    frames   |-> <<NewFrame(0)>>,
    status   |-> IF p.entry \in DOMAIN p.symbols THEN "running" ELSE "thrown",
    instPtrs |-> IF p.entry \in DOMAIN p.symbols THEN <<p.symbols[p.entry]>> ELSE <<0>> ]

\* The result is read back through the parameter's own reference.
ReadResult ==
  /\ status = "returned"
  /\ \/ /\ CanDereference(vm, StrongRef(0))
        /\ results' = Append(results, Buffer(vm, StrongRef(0)))
        /\ status' = "done"
     \/ /\ ~CanDereference(vm, StrongRef(0))
        /\ status' = "dereference"
        /\ UNCHANGED results
  /\ UNCHANGED <<vm, frames, package, code, instPtrs>>

EvaluateAgain ==
  /\ status = "done"
  /\ Len(results) < MaxEvaluations
  /\ vm' = Started(package).vm
  /\ frames' = Started(package).frames
  /\ status' = Started(package).status
  /\ instPtrs' = Started(package).instPtrs
  /\ UNCHANGED <<package, code, results>>

RunInit ==
  /\ package \in Packages
  /\ code = package.code
  /\ vm = Started(package).vm
  /\ frames = Started(package).frames
  /\ status = Started(package).status
  /\ instPtrs = Started(package).instPtrs
  /\ results = <<>>

Over ==
  \/ status \notin {"running", "returned", "done"}
  \/ status = "done" /\ Len(results) = MaxEvaluations

RunStep == Evaluate \/ ReadResult \/ EvaluateAgain

RunNext == RunStep \/ (Over /\ UNCHANGED runVars)

(* One thread runs the loop and nothing blocks it.                         *)
RunSpec == RunInit /\ [][RunNext]_runVars /\ WF_runVars(RunStep)

----------------------------------------------------------------------------
\* Correctness.

(* The fixup does not change what a package means: once an evaluation has *)
(* returned, no later one of the code it rewrote ends in a failed lookup   *)
(* or a fault, and each returns what that one did (VMEval.cpp:59-60:       *)
(* "future calls skip the symbol lookup").                                 *)
EvaluationsAgree ==
  /\ \A i, j \in DOMAIN results : results[i] = results[j]
  /\ results # <<>> => status \in {"running", "returned", "done"}
=============================================================================
