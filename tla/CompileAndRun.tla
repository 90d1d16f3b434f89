---------------------------- MODULE CompileAndRun ----------------------------
(***************************************************************************)
(* Packages on the virtual machine, as they come from the compiler or as   *)
(* they are written by hand.  A package of graphs is compiled (Codegen),   *)
(* its main is evaluated with a vector as its parameter (VMRun), and what  *)
(* main leaves on the scalar stack is compared with what its graph         *)
(* denotes.  A package of graphs without a main is only compiled.          *)
(*                                                                         *)
(* A compiled main's result may be a scalar, which the entry point would   *)
(* not read back: these runs end where main returns.                       *)
(***************************************************************************)
EXTENDS VMRun, Codegen, SerializeType, TLC

allVars == <<compileVars, runVars>>

\* What the entry point is asked for: main, of a vector.
Mains == {symbol \in DOMAIN source : symbol.name = <<"main">> /\ symbol.type.params = <<VectorType(F32)>>}
HasMain == Mains # {}
Main == CHOOSE symbol \in Mains : TRUE

Parameter == [lane \in Lanes |-> Zero]

Loaded == [ code |-> output.code, symbols |-> output.symbols,
            entry |-> MangledName(Main), param |-> Parameter ]

CompileAndRunInit ==
  /\ CompileInit
  /\ package = <<>> /\ code = <<>>
  /\ vm = Fresh /\ frames = <<NewFrame(0)>> /\ instPtrs = <<0>>
  /\ status = "compiling"
  /\ results = <<>>

\* A package that is read from its text (src/test/runners/EvalTest.hpp).
WrittenInit ==
  /\ RunInit
  /\ source = <<>> /\ pending = {} /\ output = [code |-> <<>>, symbols |-> <<>>]
  /\ context = NoContext /\ visits = <<>> /\ aborted = FALSE

FromCompiler == source # <<>>

Compile ==
  /\ status = "compiling"
  /\ CompileNext
  /\ UNCHANGED runVars

\* The compiled package is handed to the entry point.
Load ==
  /\ status = "compiling"
  /\ pending = {}
  /\ ~aborted
  /\ HasMain
  /\ package' = Loaded
  /\ code' = output.code
  /\ vm' = Started(Loaded).vm
  /\ frames' = Started(Loaded).frames
  /\ status' = Started(Loaded).status
  /\ instPtrs' = Started(Loaded).instPtrs
  /\ UNCHANGED <<compileVars, results>>

Run == Evaluate /\ UNCHANGED compileVars

RunWritten == ~FromCompiler /\ (ReadResult \/ EvaluateAgain) /\ UNCHANGED compileVars

Work == Compile \/ Load \/ Run \/ RunWritten

Finished ==
  IF FromCompiler
    THEN \/ aborted \/ status \notin {"compiling", "running"}
         \/ pending = {} /\ ~HasMain
    ELSE Over

CompileAndRunNext == Work \/ (Finished /\ UNCHANGED allVars)

(* Compiler and machine run in one thread, one after the other.            *)
CompileAndRunSpec ==
  (CompileAndRunInit \/ WrittenInit) /\ [][CompileAndRunNext]_allVars /\ WF_allVars(Work)

----------------------------------------------------------------------------
\* What a graph denotes.  The denotation of a function is its typed symbol.

RECURSIVE Denote(_, _)
Denote(v, args) ==
  CASE v.kind = "fp"    -> v.value
    [] v.kind = "ref"   -> TypedSymbol(v.type, v.name)
    [] v.kind = "param" -> args[v.index + 1]
    [] v.kind = "op"    -> Arith(v.operation, Denote(v.lhs, args), Denote(v.rhs, args))
    [] v.kind = "call"  -> Denote(source[Denote(v.function, args)],
                                  [i \in DOMAIN v.params |-> Denote(v.params[i], args)])

Denotation == Denote(source[Main], <<Parameter>>)

\* The parameters a value reads.
RECURSIVE ParamsRead(_)
ParamsRead(v) ==
  CASE v.kind \in {"fp", "ref"} -> {}
    [] v.kind = "param" -> {v.index}
    [] v.kind = "op"    -> ParamsRead(v.lhs) \cup ParamsRead(v.rhs)
    [] v.kind = "call"  ->
         ParamsRead(v.function) \cup UNION {ParamsRead(v.params[i]) : i \in DOMAIN v.params}

\* No parameter is read below a root, and what is called at a root is no
\* leaf without parameters.
KeepsContract ==
  \A symbol \in DOMAIN source :
    LET root == source[symbol] IN
    /\ IsLeaf(root) \/ ParamsRead(root) = {}
    /\ root.kind = "call" =>
         LET callee == Denote(root.function, <<>>) IN
         callee.type.params = <<>> => ~IsLeaf(source[callee])

----------------------------------------------------------------------------
\* Correctness.

ReturnsVector == Main.type.result.kind = "vector"

Denoted(slot) ==
  \/ ~ReturnsVector /\ slot = Scalar(Denotation)
  \/ ReturnsVector /\ CanDereference(vm, slot) /\ Buffer(vm, slot) = Denotation

(* A compiled main, whatever it calls, leaves what its graph denotes and   *)
(* nothing else, in whatever order the package's functions were compiled:  *)
(* the stack offsets, the pops of unread parameters and the pops that RET  *)
(* passes on to callees (Codegen.cpp:66-159, VMEval.cpp:121-148) add up.   *)
(* Below a vector that main returns, DROP_V leaves main's parameter: it    *)
(* pops nothing where newTop is the vector's offset (VMEval.cpp:96-121).   *)
ReturnsDenotation ==
  FromCompiler /\ status = "returned" /\ KeepsContract =>
    /\ Denoted(Get(vm, 1))
    /\ Depth(vm) = IF ReturnsVector THEN 2 ELSE 1

(* Compiled code never runs outside the package's code, applies no opcode  *)
(* to operands of another type, looks up no symbol that is not there and   *)
(* fails one assertion only: dereference's, in an operation on a vector    *)
(* that is read below a root.  COPY and REF_VEC do not consume the         *)
(* parameter, whose vector then lies below the operation's result          *)
(* (Codegen.cpp:80-88 and 100-114, VMState.hpp:197).                       *)
CompiledNeverFaults ==
  FromCompiler =>
    \/ status \in {"compiling", "running", "returned"}
    \/ status = "dereference" /\ Fetched.op \in VectorFlavours

(* Every package is compiled, or the compiler stops at an assertion or a   *)
(* null type; and the main of what is compiled returns, or stops at an     *)
(* operation on a vector.                                                  *)
EventuallyReturns ==
  FromCompiler => <>(\/ aborted \/ status \in {"returned", "dereference"}
                     \/ pending = {} /\ ~HasMain)

(* "The callee should pop all operands from the stack before returning"    *)
(* (Instruction.hpp:70): main's result replaces main's parameter, and      *)
(* nothing of what main's callees were passed is left.                     *)
CalleesPopOperands == status = "returned" => Depth(vm) = 1
=============================================================================
