---------------------------- MODULE CodegenProofs ----------------------------
(***************************************************************************)
(* Theorems about Codegen: what compiled code does, for every package of   *)
(* well-formed graphs, in whatever order its functions are compiled, and   *)
(* for every caller.                                                       *)
(*                                                                         *)
(* The properties speak of a run of code, from a symbol to the first EXIT, *)
(* on a stack of graph values.  Runs are functions on the positions in the *)
(* code; the lemmas on them (RunExists, RunsAgree, ExecuteNext) say that   *)
(* one exists and how an instruction more continues it.                    *)
(*                                                                         *)
(* None of the properties is inductive: a function's code says nothing of  *)
(* how far the visitor has come.  CompileInv adds                          *)
(*   FinishedInv  each compiled function's code lies behind its symbol,    *)
(*                ends in its only EXIT, and leaves the graph's value;     *)
(*   VisitsInv    the visits lead from the root to the visited value;      *)
(*   BodyInv      each parameter is read once or is still unused;          *)
(*   StackInv     the code emitted so far, run for any caller, leaves the  *)
(*                caller's slots and the parameters as they were, and on   *)
(*                top of them the operands that each visit has emitted,    *)
(*                beginning at the visit's base.                           *)
(* A value below the root then finds its operands on top and leaves itself *)
(* in their place (BelowRootInductive); at the root, the count of unused   *)
(* parameters is what the cleanup must pop (CleanupOfOperation,            *)
(* CleanupOfLeaf, RootInductive).                                          *)
(***************************************************************************)
EXTENDS Codegen, FiniteSetTheorems, SequenceTheorems, WellFoundedInduction, TLAPS

----------------------------------------------------------------------------
\* Runs of a function's code.

\* A set of natural numbers that is not empty has a least one.
LEMMA LeastExists ==
  ASSUME NEW T \in SUBSET Nat, T # {}
  PROVE  \E l \in T : \A j \in T : l <= j
<1> DEFINE R == {ss \in Nat \X Nat : ss[1] < ss[2]}
<1>1. IsWellFoundedOn(R, Nat)
  BY NatLessThanWellFounded DEF OpToRel
<1>2. \E l \in T : \A j \in T : ~(<<j, l>> \in R)
  <2> HIDE DEF R
  <2> QED BY <1>1, WFMin
<1>3. PICK l \in T : \A j \in T : ~(<<j, l>> \in R)
  BY <1>2
<1>4. ASSUME NEW j \in T PROVE l <= j
  <2>1. <<j, l>> \in Nat \X Nat
    OBVIOUS
  <2>2. ~(j < l)
    BY <1>3, <2>1
  <2> QED BY <2>2
<1> QED BY <1>4

\* run[i] is what the first i instructions do, for i up to size.
IsRun(run, code, type, additional, size) ==
  run = [i \in 0 .. size |->
           IF i = 0 THEN Entered(type, additional) ELSE Effect(code[i], run[i - 1], type)]

(* Code of any length has a run: the least length of one that has none     *)
(* would be one more than a length of one that has.                        *)
LEMMA RunExists ==
  ASSUME NEW code, NEW type, NEW additional, NEW size \in Nat
  PROVE  \E run : IsRun(run, code, type, additional, size)
<1> DEFINE Has(n) == \E run : IsRun(run, code, type, additional, n)
           Fails  == {n \in Nat : ~Has(n)}
           entered == Entered(type, additional)
           Next(i, m) == Effect(code[i], m, type)
<1> SUFFICES ASSUME Fails # {} PROVE FALSE
  OBVIOUS
<1>1. PICK l \in Fails : \A n \in Fails : l <= n
  <2>1. Fails \in SUBSET Nat
    OBVIOUS
  <2> HIDE DEF Fails
  <2> QED BY <2>1, LeastExists
<1>2. l # 0
  <2> SUFFICES ASSUME l = 0 PROVE FALSE
    OBVIOUS
  <2> DEFINE f == [i \in 0 .. 0 |-> entered]
  <2>1. f = [i \in 0 .. 0 |-> IF i = 0 THEN entered ELSE Next(i, f[i - 1])]
    <3> HIDE DEF entered, Next
    <3> QED OBVIOUS
  <2> HIDE DEF f
  <2>2. IsRun(f, code, type, additional, 0)
    BY <2>1 DEF IsRun
  <2> QED BY <2>2, <1>1
<1>3. l \in Nat /\ l - 1 \in Nat /\ Has(l - 1)
  <2>1. l \in Nat /\ l - 1 \in Nat /\ ~(l <= l - 1)
    BY <1>1, <1>2
  <2> QED BY <1>1, <2>1
<1>4. PICK g : IsRun(g, code, type, additional, l - 1)
  BY <1>3
<1> DEFINE f == [i \in 0 .. l |-> IF i = 0 THEN entered ELSE Next(i, g[i - 1])]
<1>5. g = [i \in 0 .. l - 1 |-> IF i = 0 THEN entered ELSE Next(i, g[i - 1])]
  BY <1>4 DEF IsRun
<1> HIDE DEF entered, Next
<1>6. ASSUME NEW i \in 0 .. l - 1 PROVE f[i] = g[i]
  <2>1. g[i] = IF i = 0 THEN entered ELSE Next(i, g[i - 1])
    BY <1>5
  <2> QED BY <2>1, <1>3
<1>7. ASSUME NEW i \in 0 .. l, i # 0 PROVE f[i - 1] = g[i - 1]
  <2>1. i - 1 \in 0 .. l - 1
    BY <1>3, <1>7
  <2> QED BY <2>1, <1>6
<1>8. f = [i \in 0 .. l |-> IF i = 0 THEN entered ELSE Next(i, f[i - 1])]
  <2> DEFINE h == [i \in 0 .. l |-> IF i = 0 THEN entered ELSE Next(i, f[i - 1])]
  <2>1. ASSUME NEW i \in 0 .. l PROVE f[i] = h[i]
    BY <1>7
  <2> QED BY <2>1
<1> HIDE DEF f
<1>9. IsRun(f, code, type, additional, l)
  BY <1>8 DEF IsRun, entered, Next
<1> QED BY <1>1, <1>9

(* What the first instructions do depends on these only.                   *)
LEMMA RunsAgree ==
  ASSUME NEW code, NEW other, NEW type, NEW additional,
         NEW size \in Nat, NEW longer \in Nat, size <= longer,
         NEW f, IsRun(f, code, type, additional, size),
         NEW g, IsRun(g, other, type, additional, longer),
         \A i \in 1 .. size : code[i] = other[i]
  PROVE  \A i \in 0 .. size : f[i] = g[i]
<1> DEFINE Differ == {i \in 0 .. size : f[i] # g[i]}
           entered == Entered(type, additional)
           Next(inst, m) == Effect(inst, m, type)
<1> SUFFICES ASSUME Differ # {} PROVE FALSE
  OBVIOUS
<1>1. PICK l \in Differ : \A i \in Differ : l <= i
  <2>1. Differ \in SUBSET Nat
    OBVIOUS
  <2> HIDE DEF Differ
  <2> QED BY <2>1, LeastExists
<1>2. /\ f = [i \in 0 .. size |-> IF i = 0 THEN entered ELSE Next(code[i], f[i - 1])]
      /\ g = [i \in 0 .. longer |-> IF i = 0 THEN entered ELSE Next(other[i], g[i - 1])]
  BY DEF IsRun
<1> HIDE DEF entered, Next
<1>3. l \in 0 .. size /\ l \in 0 .. longer /\ f[l] # g[l]
  BY <1>1
<1>4. l # 0
  BY <1>2, <1>3
<1>5. l \in 1 .. size /\ l - 1 \in 0 .. size /\ ~(l <= l - 1)
  BY <1>3, <1>4
<1>6. f[l - 1] = g[l - 1]
  <2>1. l - 1 \notin Differ
    BY <1>1, <1>5
  <2> QED BY <2>1, <1>5
<1>7. f[l] = Next(code[l], f[l - 1]) /\ g[l] = Next(other[l], g[l - 1])
  BY <1>2, <1>3, <1>4
<1> QED BY <1>3, <1>5, <1>6, <1>7

\* What code does is the end of a run of it.
LEMMA ExecutedRun ==
  ASSUME NEW code, NEW type, NEW additional, Len(code) \in Nat
  PROVE  \E run : /\ IsRun(run, code, type, additional, Len(code))
                  /\ Executed(code, type, additional) = run[Len(code)]
<1> DEFINE after == CHOOSE run : IsRun(run, code, type, additional, Len(code))
<1>1. \E run : IsRun(run, code, type, additional, Len(code))
  BY RunExists
<1>2. IsRun(after, code, type, additional, Len(code))
  BY <1>1
<1>3. Executed(code, type, additional) = after[Len(code)]
  BY DEF Executed, IsRun
<1> QED BY <1>2, <1>3

(* Without code the stack stays as it was entered with.                    *)
LEMMA ExecuteNone ==
  ASSUME NEW type, NEW additional
  PROVE  Executed(<<>>, type, additional) = Entered(type, additional)
<1>1. Len(<<>>) = 0
  OBVIOUS
<1>2. PICK run : IsRun(run, <<>>, type, additional, 0) /\ Executed(<<>>, type, additional) = run[0]
  BY <1>1, ExecutedRun
<1> QED BY <1>2 DEF IsRun

\* An instruction more acts on what the code before it leaves.
LEMMA ExecuteNext ==
  ASSUME NEW Insts, NEW code \in Seq(Insts), NEW inst \in Insts, NEW type, NEW additional
  PROVE  Executed(code \o <<inst>>, type, additional)
           = Effect(inst, Executed(code, type, additional), type)
<1> DEFINE all == code \o <<inst>>
           n   == Len(code)
<1>1. n \in Nat /\ Len(all) = n + 1 /\ all[n + 1] = inst /\ \A i \in 1 .. n : code[i] = all[i]
  OBVIOUS
<1> HIDE DEF all
<1>2. PICK f : IsRun(f, code, type, additional, n) /\ Executed(code, type, additional) = f[n]
  BY <1>1, ExecutedRun
<1>3. PICK g : IsRun(g, all, type, additional, n + 1) /\ Executed(all, type, additional) = g[n + 1]
  BY <1>1, ExecutedRun
<1> HIDE DEF n
<1>4. f[n] = g[n]
  <2>1. /\ n \in Nat /\ n + 1 \in Nat /\ n <= n + 1
        /\ IsRun(f, code, type, additional, n) /\ IsRun(g, all, type, additional, n + 1)
    BY <1>1, <1>2, <1>3
  <2>2. \A i \in 1 .. n : code[i] = all[i]
    BY <1>1
  <2>3. \A i \in 0 .. n : f[i] = g[i]
    <3> DEFINE m == n + 1
    <3>1. m \in Nat /\ n <= m /\ IsRun(g, all, type, additional, m)
      BY <2>1
    <3> HIDE DEF m
    <3> QED BY ONLY <2>1, <2>2, <3>1, RunsAgree
  <2> QED BY <2>3, <1>1
<1>5. g[n + 1] = Effect(all[n + 1], g[n], type)
  BY <1>1, <1>3 DEF IsRun
<1> QED BY <1>1, <1>2, <1>3, <1>4, <1>5 DEF all

----------------------------------------------------------------------------
\* What is in the code, and on the stack.

Values == {graphValue[2] : graphValue \in GraphValues}

Slots == Values \cup [kind : {"caller"}, slot : Nat] \cup [kind : {"param"}, index : Nat]

Emittable ==
  {[op |-> "PUSH", operand |-> v.value] : v \in Values}
    \cup {[op |-> "PUSH_SYM", symbol |-> NameOf(SymbolOf(v))] : v \in Values}
    \cup [op : {"COPY", "REF_VEC", "DROP_S", "DROP_V", "CALL"}, operand : Nat]
    \cup [op : Flavours, operation : {v.operation : v \in Values}, operand : Nat]
    \cup [op : {"RET", "EXIT"}]

\* No two functions of a package have one mangled name, nor have two that
\* are called.
NamesApart ==
  /\ \A s \in Sources : \A a, b \in DOMAIN s : NameOf(a) = NameOf(b) => a = b
  /\ \A v, w \in References : NameOf(SymbolOf(v)) = NameOf(SymbolOf(w)) => SymbolOf(v) = SymbolOf(w)

\* What GraphsAssumption says of one value of a function's graph.
LEMMA GraphValueFacts ==
  ASSUME NEW type, NEW v, <<type, v>> \in GraphValues
  PROVE  /\ v \in Values /\ Len(type.params) \in Nat /\ WellFormed(v, type)
         /\ \A i \in 1 .. OperandCount(v) : <<type, Operand(v, i)>> \in GraphValues
<1> DEFINE g == <<type, v>>
<1>1. g \in GraphValues /\ g[1] = type /\ g[2] = v
  OBVIOUS
<1>2. v \in Values
  BY <1>1 DEF Values
<1>3. \A h \in GraphValues :
        /\ Len(h[1].params) \in Nat /\ WellFormed(h[2], h[1])
        /\ \A i \in 1 .. OperandCount(h[2]) : <<h[1], Operand(h[2], i)>> \in GraphValues
  BY GraphsAssumption DEF Hold
<1> HIDE DEF g
<1> QED BY <1>1, <1>2, <1>3

\* The root of a package's function is such a value.
LEMMA RootIsGraphValue ==
  ASSUME NEW s \in Sources, NEW symbol \in DOMAIN s
  PROVE  <<symbol.type, s[symbol]>> \in GraphValues
  BY GraphsAssumption DEF Hold

\* Leaves, and no others, have no operands.
LEMMA OperandCounts ==
  ASSUME NEW type, NEW v, <<type, v>> \in GraphValues
  PROVE  /\ OperandCount(v) \in Nat
         /\ IsLeaf(v) <=> OperandCount(v) = 0
<1>1. WellFormed(v, type)
  BY GraphValueFacts
<1>2. CASE v.kind = "call"
  <2>1. PICK n \in Nat : v.params = [i \in 1 .. n |-> v.params[i]]
    BY <1>1, <1>2 DEF WellFormed
  <2>2. Len(v.params) \in Nat
    BY <2>1
  <2> QED BY <1>2, <2>2 DEF OperandCount, IsLeaf
<1>3. CASE v.kind # "call"
  <2>1. IsLeaf(v) \/ v.kind = "op"
    BY <1>1, <1>3 DEF WellFormed, IsLeaf
  <2>2. CASE IsLeaf(v)
    BY <2>2 DEF OperandCount, IsLeaf
  <2>3. CASE v.kind = "op"
    BY <2>3 DEF OperandCount, IsLeaf
  <2> QED BY <2>1, <2>2, <2>3
<1> QED BY <1>2, <1>3

\* A name stands for the reference it was made from.
LEMMA CalledByName ==
  ASSUME NamesApart, NEW type, NEW v, <<type, v>> \in GraphValues, v.kind = "ref"
  PROVE  Called[NameOf(SymbolOf(v))] = v
<1> DEFINE name == NameOf(SymbolOf(v))
           w == Called[name]
<1>1. v \in References
  BY GraphValueFacts DEF References, Values
<1>2. w = CHOOSE r \in References : NameOf(SymbolOf(r)) = name
  BY <1>1 DEF Called
<1>3. w \in References /\ NameOf(SymbolOf(w)) = name
  <2> HIDE DEF w
  <2> QED BY <1>1, <1>2
<1>4. SymbolOf(w) = SymbolOf(v)
  <2> HIDE DEF w
  <2> QED BY <1>1, <1>3 DEF NamesApart
<1>5. \A r \in References : r = [kind |-> "ref", name |-> r.name, type |-> r.type]
  <2> SUFFICES ASSUME NEW g \in GraphValues, g[2].kind = "ref"
               PROVE  g[2] = [kind |-> "ref", name |-> g[2].name, type |-> g[2].type]
    BY DEF References
  <2>1. WellFormed(g[2], g[1])
    BY GraphsAssumption DEF Hold
  <2> QED BY <2>1 DEF WellFormed
<1> HIDE DEF w
<1>6. w.name = v.name /\ w.type = v.type
  BY <1>4 DEF SymbolOf
<1> QED BY <1>1, <1>3, <1>5, <1>6 DEF w

----------------------------------------------------------------------------
\* What single instructions do.

\* Whether a state of a run has these fields, and its stack these slots.
IsState(m) ==
  /\ m = [ stack |-> m.stack, resultOffset |-> m.resultOffset,
           additional |-> m.additional, underflow |-> m.underflow ]
  /\ m.stack \in Seq(Slots)
  /\ m.resultOffset \in Nat /\ m.additional \in Nat /\ m.underflow = FALSE

(* A value takes the place of the topmost slots.                           *)
LEMMA Replaced ==
  ASSUME NEW m, IsState(m), NEW n \in 0 .. Len(m.stack), NEW v \in Slots
  PROVE  LET r == Replace(m, n, v)
             d == Len(m.stack) - n
         IN /\ IsState(r)
            /\ r.resultOffset = m.resultOffset /\ r.additional = m.additional
            /\ Len(r.stack) = d + 1 /\ r.stack[d + 1] = v
            /\ \A i \in 1 .. d : r.stack[i] = m.stack[i]
<1> DEFINE d == Len(m.stack) - n
           below == SubSeq(m.stack, 1, d)
           stack == Append(below, v)
           r == Replace(m, n, v)
<1>1. d \in Nat /\ d <= Len(m.stack) /\ m.stack \in Seq(Slots)
  BY DEF IsState
<1>2. below \in Seq(Slots) /\ Len(below) = d /\ \A i \in 1 .. d : below[i] = m.stack[i]
  <2> HIDE DEF d
  <2> QED BY <1>1
<1>3. stack \in Seq(Slots) /\ Len(stack) = d + 1 /\ stack[d + 1] = v
      /\ \A i \in 1 .. d : stack[i] = m.stack[i]
  <2> HIDE DEF d, below
  <2> QED BY <1>1, <1>2
<1>4. r = [m EXCEPT !.stack = stack, !.underflow = FALSE]
  <2>1. (m.underflow \/ n > Len(m.stack)) = FALSE
    BY <1>1 DEF IsState
  <2> QED BY <2>1 DEF Replace
<1>5. r = [ stack |-> stack, resultOffset |-> m.resultOffset,
            additional |-> m.additional, underflow |-> FALSE ]
  <2> HIDE DEF stack, r
  <2> QED BY <1>4 DEF IsState
<1> HIDE DEF stack, r, d
<1>6. IsState(r) /\ r.resultOffset = m.resultOffset /\ r.additional = m.additional /\ r.stack = stack
  BY <1>3, <1>5 DEF IsState
<1> QED BY <1>3, <1>6 DEF d, r

\* The slots on top hold a value's operands.
Ready(m, v) ==
  LET count == OperandCount(v)
      below == Len(m.stack) - count
  IN /\ count <= Len(m.stack)
     /\ \A i \in 1 .. count : m.stack[below + i] = Operand(v, i)

\* PUSH leaves the constant it was emitted for.
LEMMA FPEffect ==
  ASSUME NEW type, NEW v, <<type, v>> \in GraphValues, v.kind = "fp", NEW m
  PROVE  Effect([op |-> "PUSH", operand |-> v.value], m, type) = Replace(m, 0, v)
<1>1. v = [kind |-> "fp", value |-> v.value]
  BY GraphValueFacts DEF WellFormed
<1> DEFINE inst == [op |-> "PUSH", operand |-> v.value]
<1>2. inst.op = "PUSH" /\ inst.operand = v.value
  OBVIOUS
<1> HIDE DEF inst
<1>3. Effect(inst, m, type) = Replace(m, 0, [kind |-> "fp", value |-> inst.operand])
  BY <1>2 DEF Effect, Flavours, VectorFlavours
<1> QED BY <1>1, <1>2, <1>3 DEF inst

\* PUSH_SYM leaves the reference it was emitted for.
LEMMA RefEffect ==
  ASSUME NamesApart, NEW type, NEW v, <<type, v>> \in GraphValues, v.kind = "ref", NEW m
  PROVE  Effect([op |-> "PUSH_SYM", symbol |-> NameOf(SymbolOf(v))], m, type) = Replace(m, 0, v)
<1> DEFINE inst == [op |-> "PUSH_SYM", symbol |-> NameOf(SymbolOf(v))]
<1>1. inst.op = "PUSH_SYM" /\ inst.symbol = NameOf(SymbolOf(v))
  OBVIOUS
<1> HIDE DEF inst
<1>2. Effect(inst, m, type) = Replace(m, 0, Called[inst.symbol])
  BY <1>1 DEF Effect, Flavours, VectorFlavours
<1> QED BY <1>1, <1>2, CalledByName DEF inst

\* COPY and REF_VEC leave the slot at their offset from the top.
LEMMA ParamEffect ==
  ASSUME NEW type, NEW m, IsState(m), NEW op \in {"COPY", "REF_VEC"},
         NEW offset \in 1 .. Len(m.stack)
  PROVE  Effect([op |-> op, operand |-> offset], m, type)
           = Replace(m, 0, m.stack[Len(m.stack) + 1 - offset])
<1> DEFINE inst == [op |-> op, operand |-> offset]
<1>1. inst.op = op /\ inst.operand = offset
  OBVIOUS
<1> HIDE DEF inst
<1>2. Effect(inst, m, type) = Replace(m, 0, m.stack[Len(m.stack) + 1 - offset])
  BY <1>1 DEF Effect, Flavours, VectorFlavours
<1> QED BY <1>2 DEF inst

\* An arithmetic instruction leaves the operation whose operands lie on top.
LEMMA OpEffect ==
  ASSUME NEW type, NEW v, <<type, v>> \in GraphValues, v.kind = "op",
         NEW m, IsState(m), Ready(m, v), NEW pops \in Nat
  PROVE  Effect([op |-> v.flavour, operation |-> v.operation, operand |-> pops], m, type)
           = Replace(m, OperandCount(v) + pops + m.resultOffset, v)
<1> DEFINE inst == [op |-> v.flavour, operation |-> v.operation, operand |-> pops]
           size == Len(m.stack)
<1>1. /\ v = [ kind |-> "op", flavour |-> v.flavour, operation |-> v.operation,
               lhs |-> v.lhs, rhs |-> v.rhs ]
      /\ v.flavour \in Flavours
  BY GraphValueFacts DEF WellFormed
<1>2. OperandCount(v) = 2 /\ Operand(v, 1) = v.rhs /\ Operand(v, 2) = v.lhs
  BY DEF OperandCount, Operand, IsLeaf
<1>3. size \in Nat /\ size >= 2 /\ m.stack[size - 1] = v.rhs /\ m.stack[size] = v.lhs
  <2>1. size \in Nat /\ size >= 2
    BY <1>2 DEF IsState, Ready
  <2>2. m.stack[size - 2 + 1] = v.rhs /\ m.stack[size - 2 + 2] = v.lhs
    BY <1>2 DEF Ready
  <2>3. size - 2 + 1 = size - 1 /\ size - 2 + 2 = size
    BY <2>1
  <2> QED BY <2>1, <2>2, <2>3
<1>4. inst.op = v.flavour /\ inst.operation = v.operation /\ inst.operand = pops
      /\ inst.op \in Flavours
  BY <1>1
<1>5. /\ 1 \in 1 .. size /\ 2 \in 1 .. size /\ size + 1 - 1 = size /\ size + 1 - 2 = size - 1
      /\ m.resultOffset \in Nat
  BY <1>3 DEF IsState
<1> HIDE DEF inst, size
<1>6. Effect(inst, m, type)
        = Replace(m, 2 + (pops + m.resultOffset),
                  [ kind |-> "op", flavour |-> inst.op, operation |-> inst.operation,
                    lhs |-> m.stack[size], rhs |-> m.stack[size - 1] ])
  BY <1>4, <1>5 DEF Effect, Flavours, VectorFlavours, size
<1>7. 2 + (pops + m.resultOffset) = OperandCount(v) + pops + m.resultOffset
  BY <1>2, <1>5
<1> QED BY <1>1, <1>3, <1>4, <1>6, <1>7 DEF inst

\* So does CALL with a call.
LEMMA CallEffect ==
  ASSUME NEW type, NEW v, <<type, v>> \in GraphValues, v.kind = "call",
         NEW m, IsState(m), Ready(m, v), NEW pops \in Nat
  PROVE  Effect([op |-> "CALL", operand |-> pops], m, type)
           = Replace(m, OperandCount(v) + pops + m.resultOffset, v)
<1> DEFINE inst == [op |-> "CALL", operand |-> pops]
           size == Len(m.stack)
           count == Len(TypeIn(v.function, type).params)
<1>1. /\ v = [kind |-> "call", function |-> v.function, params |-> v.params]
      /\ count \in Nat /\ v.params = [i \in 1 .. count |-> v.params[i]]
  BY GraphValueFacts DEF WellFormed
<1> HIDE DEF count
<1>2. /\ Len(v.params) = count /\ OperandCount(v) = count + 1
      /\ Operand(v, count + 1) = v.function
      /\ \A i \in 1 .. count : Operand(v, count + 1 - i) = v.params[i]
  <2>1. Len(v.params) = count
    BY <1>1
  <2>2. OperandCount(v) = count + 1
    BY <2>1 DEF OperandCount, IsLeaf
  <2>3. \A i \in 1 .. count + 1 :
          Operand(v, i) = IF i <= count THEN v.params[count + 1 - i] ELSE v.function
    BY <2>1 DEF Operand
  <2>4. ASSUME NEW i \in 1 .. count
        PROVE  Operand(v, count + 1 - i) = v.params[i]
    <3>1. count + 1 - i \in 1 .. count + 1 /\ count + 1 - i <= count /\ count + 1 - (count + 1 - i) = i
      BY <1>1
    <3> QED BY <2>3, <3>1
  <2>5. count + 1 \in 1 .. count + 1 /\ ~(count + 1 <= count)
    BY <1>1
  <2> QED BY <2>1, <2>2, <2>3, <2>4, <2>5
<1>3. /\ size \in Nat /\ count + 1 <= size
      /\ \A i \in 1 .. count + 1 : m.stack[size - (count + 1) + i] = Operand(v, i)
  BY <1>2 DEF Ready, IsState
<1>4. m.stack[size] = v.function
  <2>1. size - (count + 1) + (count + 1) = size /\ count + 1 \in 1 .. count + 1
    BY <1>1, <1>3
  <2> HIDE DEF size
  <2>2. m.stack[size - (count + 1) + (count + 1)] = v.function
    BY <1>2, <1>3, <2>1
  <2> QED BY <2>1, <2>2
<1>5. ASSUME NEW i \in 1 .. count
      PROVE  i + 1 \in 1 .. size /\ m.stack[size + 1 - (i + 1)] = v.params[i]
  <2> HIDE DEF size
  <2>1. /\ count + 1 - i \in 1 .. count + 1 /\ i + 1 \in 1 .. size
        /\ size - (count + 1) + (count + 1 - i) = size + 1 - (i + 1)
    BY <1>1, <1>3
  <2>2. m.stack[size - (count + 1) + (count + 1 - i)] = v.params[i]
    BY <1>2, <1>3, <2>1
  <2> QED BY <2>1, <2>2
<1> DEFINE Nth(n) == IF n \in 1 .. size THEN m.stack[size + 1 - n] ELSE [kind |-> "none"]
<1>6. Nth(1) = v.function /\ \A i \in 1 .. count : Nth(i + 1) = v.params[i]
  <2>1. 1 \in 1 .. size /\ size + 1 - 1 = size
    BY <1>1, <1>3
  <2> HIDE DEF size
  <2> QED BY <1>4, <1>5, <2>1
<1>7. inst.op = "CALL" /\ inst.operand = pops
  OBVIOUS
<1>8. Effect(inst, m, type)
        = Replace(m, 1 + Len(TypeIn(Nth(1), type).params) + (pops + m.resultOffset),
                  [ kind |-> "call", function |-> Nth(1),
                    params |-> [i \in 1 .. Len(TypeIn(Nth(1), type).params) |-> Nth(i + 1)] ])
  <2> HIDE DEF inst
  <2> QED BY <1>7 DEF Effect, Flavours, VectorFlavours
<1> HIDE DEF inst, Nth
<1>9. 1 + count + (pops + m.resultOffset) = OperandCount(v) + pops + m.resultOffset
  BY <1>1, <1>2 DEF IsState
<1>10. [i \in 1 .. count |-> Nth(i + 1)] = v.params
  <2>1. [i \in 1 .. count |-> Nth(i + 1)] = [i \in 1 .. count |-> v.params[i]]
    BY <1>6
  <2> QED BY <1>1, <2>1
<1> QED BY <1>1, <1>6, <1>8, <1>9, <1>10 DEF inst, count

\* DROP_S and DROP_V leave the top slot in place of those below it.
LEMMA DropEffect ==
  ASSUME NEW type, NEW m, IsState(m), Len(m.stack) > 0, NEW op \in {"DROP_S", "DROP_V"},
         NEW pops \in Nat
  PROVE  Effect([op |-> op, operand |-> pops], m, type)
           = Replace(m, 1 + (pops + m.resultOffset), m.stack[Len(m.stack)])
<1> DEFINE inst == [op |-> op, operand |-> pops]
           size == Len(m.stack)
<1>1. inst.op = op /\ inst.operand = pops /\ 1 \in 1 .. size /\ size + 1 - 1 = size
  BY DEF IsState
<1> HIDE DEF inst
<1>2. Effect(inst, m, type) = Replace(m, 1 + (pops + m.resultOffset), m.stack[size])
  BY <1>1 DEF Effect, Flavours, VectorFlavours
<1> QED BY <1>2 DEF inst

\* RET has the next instruction pop what the caller passes on.
LEMMA ReturnEffect ==
  ASSUME NEW type, NEW m, IsState(m)
  PROVE  LET r == Effect([op |-> "RET"], m, type) IN
         /\ IsState(r) /\ r.stack = m.stack /\ r.additional = m.additional
         /\ r.resultOffset = m.additional
<1> DEFINE inst == [op |-> "RET"]
           r == [m EXCEPT !.resultOffset = m.additional]
<1>1. inst.op = "RET"
  OBVIOUS
<1>2. Effect(inst, m, type) = r
  <2> HIDE DEF inst
  <2> QED BY <1>1 DEF Effect, Flavours, VectorFlavours
<1>3. r = [ stack |-> m.stack, resultOffset |-> m.additional,
            additional |-> m.additional, underflow |-> m.underflow ]
  BY DEF IsState
<1> HIDE DEF r
<1> QED BY <1>2, <1>3 DEF IsState

\* EXIT changes no slot.
LEMMA ExitEffect ==
  ASSUME NEW type, NEW m
  PROVE  Effect([op |-> "EXIT"], m, type) = m
<1> DEFINE inst == [op |-> "EXIT"]
<1>1. inst.op = "EXIT"
  OBVIOUS
<1> HIDE DEF inst
<1> QED BY <1>1 DEF Effect, Flavours, VectorFlavours, inst

----------------------------------------------------------------------------
\* The inductive invariant.

\* The part lies in the code behind the first start instructions.
LiesAt(all, start, part) ==
  /\ start \in Nat /\ start + Len(part) <= Len(all)
  /\ \A i \in 1 .. Len(part) : all[start + i] = part[i]

\* How many slots a function's code leaves below its result.
Kept(symbol, part, additional) ==
  IF ~IsLeaf(source[symbol]) THEN Reads(part)
  ELSE IF Len(symbol.type.params) = 0 THEN additional ELSE 0

\* What a run of a function's whole code leaves, for any caller.
Leaves(symbol, part, additional) ==
  LET m    == Executed(part, symbol.type, additional)
      kept == Kept(symbol, part, additional)
  IN /\ m.stack \in Seq(Slots) /\ ~m.underflow
     /\ kept \in Nat /\ Len(m.stack) = kept + 1 /\ m.stack[kept + 1] = source[symbol]
     /\ \A i \in 1 .. kept : m.stack[i] = Entered(symbol.type, additional).stack[i]

IsCompiled(symbol, part) ==
  /\ part \in Seq(Emittable) /\ part # <<>>
  /\ \A i \in 1 .. Len(part) : part[i].op = "EXIT" <=> i = Len(part)
  /\ \A additional \in Nat : Leaves(symbol, part, additional)

FinishedInv ==
  \A symbol \in DOMAIN source \ pending :
    /\ NameOf(symbol) \in DOMAIN output.symbols
    /\ \E part : IsCompiled(symbol, part)
                 /\ LiesAt(output.code, output.symbols[NameOf(symbol)], part)

\* The rest is about the function being compiled.

Arity == Len(context.symbol.type.params)

ContextInv ==
  /\ context = [ symbol |-> context.symbol, stackSize |-> context.stackSize,
                 unusedParams |-> context.unusedParams ]
  /\ context.symbol \in pending
  /\ context.stackSize \in Nat
  /\ context.unusedParams \subseteq 0 .. Arity - 1
  /\ NameOf(context.symbol) \in DOMAIN output.symbols
  /\ output.symbols[NameOf(context.symbol)] \in 0 .. Len(output.code)

\* The visits lead from the root of the graph to the visited value.
VisitsInv ==
  /\ visits[1].value = source[context.symbol]
  /\ \A k \in 1 .. Len(visits) :
       /\ <<context.symbol.type, visits[k].value>> \in GraphValues
       /\ visits[k].emitted <= OperandCount(visits[k].value)
  /\ \A k \in 1 .. Len(visits) - 1 :
       /\ visits[k].emitted < OperandCount(visits[k].value)
       /\ visits[k + 1].value = Operand(visits[k].value, visits[k].emitted + 1)

\* Each parameter is read once or is still unused.
BodyInv ==
  /\ \A i \in 1 .. Len(CurrentCode) : CurrentCode[i].op # "EXIT"
  /\ ~aborted => Reads(CurrentCode) + Cardinality(context.unusedParams) = Arity
  /\ Len(visits) = 1 /\ visits[1].emitted = 0 =>
       CurrentCode = <<>> /\ context.unusedParams = 0 .. Arity - 1

\* How many values lay above the parameters as each visit began.
Bases(base) ==
  /\ base \in [1 .. Len(visits) -> Nat]
  /\ base[1] = 0
  /\ \A k \in 1 .. Len(visits) - 1 : base[k + 1] = base[k] + visits[k].emitted
  /\ \A k, j \in 1 .. Len(visits) : k < j => base[k] + visits[k].emitted <= base[j]
  /\ context.stackSize = base[Len(visits)] + visits[Len(visits)].emitted

\* The code so far leaves the operands emitted by each visit, one above the other.
OnStack(base, additional) ==
  LET type  == context.symbol.type
      m     == Executed(CurrentCode, type, additional)
      lower == additional + Arity
  IN /\ IsState(m) /\ m.resultOffset = 0 /\ m.additional = additional
     /\ Len(m.stack) = lower + context.stackSize
     /\ \A i \in 1 .. lower : m.stack[i] = Entered(type, additional).stack[i]
     /\ \A k \in 1 .. Len(visits) : \A i \in 1 .. visits[k].emitted :
          m.stack[lower + base[k] + i] = Operand(visits[k].value, i)

StackInv == \E base : Bases(base) /\ \A additional \in Nat : OnStack(base, additional)

CompileInv ==
  /\ source \in Sources /\ pending \subseteq DOMAIN source
  /\ output = [code |-> output.code, symbols |-> output.symbols]
  /\ output.code \in Seq(Emittable)
  /\ visits \in Seq([value : Values, emitted : Nat])
  /\ FinishedInv
  /\ visits # <<>> => ContextInv /\ VisitsInv /\ BodyInv /\ StackInv

----------------------------------------------------------------------------
\* Code that grows.

\* Code that is appended leaves what lies before it.
LEMMA LaidBehind ==
  ASSUME NEW Insts, NEW all \in Seq(Insts), NEW more \in Seq(Insts)
  PROVE  /\ all \o more \in Seq(Insts) /\ Len(all \o more) = Len(all) + Len(more)
         /\ \A start, part : Len(part) \in Nat /\ LiesAt(all, start, part)
                              => LiesAt(all \o more, start, part)
<1>1. /\ all \o more \in Seq(Insts)
      /\ Len(all \o more) = Len(all) + Len(more)
      /\ \A i \in 1 .. Len(all) : (all \o more)[i] = all[i]
  BY ConcatProperties
<1>2. Len(all) \in Nat /\ Len(more) \in Nat
  OBVIOUS
<1>3. ASSUME NEW start, NEW part, Len(part) \in Nat, LiesAt(all, start, part)
      PROVE  LiesAt(all \o more, start, part)
  <2>1. start \in Nat /\ start + Len(part) <= Len(all)
    BY <1>3 DEF LiesAt
  <2>2. start + Len(part) <= Len(all \o more)
    BY <1>1, <1>2, <1>3, <2>1
  <2>3. ASSUME NEW i \in 1 .. Len(part)
        PROVE  (all \o more)[start + i] = part[i]
    <3>1. start + i \in 1 .. Len(all)
      BY <1>2, <1>3, <2>1
    <3>2. all[start + i] = part[i]
      BY <1>3 DEF LiesAt
    <3> QED
      BY <1>1, <3>1, <3>2
  <2> QED
    BY <2>1, <2>2, <2>3 DEF LiesAt
<1> QED
  BY <1>1, <1>3

\* The code behind a start.
LEMMA Behind ==
  ASSUME NEW Insts, NEW all \in Seq(Insts), NEW start \in 0 .. Len(all)
  PROVE  LET tail == SubSeq(all, start + 1, Len(all)) IN
         /\ tail \in Seq(Insts) /\ Len(tail) = Len(all) - start
         /\ \A i \in 1 .. Len(tail) : tail[i] = all[start + i]
         /\ LiesAt(all, start, tail)
<1> DEFINE tail == SubSeq(all, start + 1, Len(all))
<1>1. /\ Len(all) \in Nat /\ start \in Nat /\ start + 1 \in Int /\ Len(all) \in Int
      /\ \A i \in start + 1 .. Len(all) : all[i] \in Insts
  OBVIOUS
<1>2. /\ tail \in Seq(Insts)
      /\ Len(tail) = IF start + 1 <= Len(all) THEN Len(all) - (start + 1) + 1 ELSE 0
      /\ \A i \in 1 .. Len(all) - (start + 1) + 1 : tail[i] = all[(start + 1) + i - 1]
  BY <1>1, SubSeqProperties
<1> HIDE DEF tail
<1>3. Len(tail) = Len(all) - start /\ Len(all) - (start + 1) + 1 = Len(all) - start
  BY <1>1, <1>2
<1>4. \A i \in 1 .. Len(tail) : tail[i] = all[start + i]
  <2> SUFFICES ASSUME NEW i \in 1 .. Len(tail) PROVE tail[i] = all[start + i]
    OBVIOUS
  <2>1. (start + 1) + i - 1 = start + i /\ i \in 1 .. Len(all) - (start + 1) + 1
    BY <1>1, <1>3
  <2> QED BY <1>2, <2>1
<1>5. LiesAt(all, start, tail)
  BY <1>1, <1>3, <1>4 DEF LiesAt
<1> QED BY <1>2, <1>3, <1>4, <1>5 DEF tail

\* What lies behind a start grows by what is appended.
LEMMA BehindGrows ==
  ASSUME NEW Insts, NEW all \in Seq(Insts), NEW start \in 0 .. Len(all), NEW more \in Seq(Insts)
  PROVE  SubSeq(all \o more, start + 1, Len(all \o more))
           = SubSeq(all, start + 1, Len(all)) \o more
<1> DEFINE longer == all \o more
           tail == SubSeq(all, start + 1, Len(all))
           tail2 == SubSeq(longer, start + 1, Len(longer))
<1>1. /\ longer \in Seq(Insts) /\ Len(longer) = Len(all) + Len(more)
      /\ \A i \in 1 .. Len(all) + Len(more) :
           longer[i] = IF i <= Len(all) THEN all[i] ELSE more[i - Len(all)]
  BY ConcatProperties
<1>2. Len(all) \in Nat /\ Len(more) \in Nat /\ start \in Nat /\ start <= Len(all)
  OBVIOUS
<1> HIDE DEF longer
<1>3. start \in 0 .. Len(longer)
  BY <1>1, <1>2
<1>4. /\ tail \in Seq(Insts) /\ Len(tail) = Len(all) - start
      /\ \A i \in 1 .. Len(tail) : tail[i] = all[start + i]
  BY Behind
<1>5. /\ tail2 \in Seq(Insts) /\ Len(tail2) = Len(longer) - start
      /\ \A i \in 1 .. Len(tail2) : tail2[i] = longer[start + i]
  BY <1>1, <1>3, Behind
<1> HIDE DEF tail, tail2
<1>6. /\ tail \o more \in Seq(Insts) /\ Len(tail \o more) = Len(tail) + Len(more)
      /\ \A i \in 1 .. Len(tail) + Len(more) :
           (tail \o more)[i] = IF i <= Len(tail) THEN tail[i] ELSE more[i - Len(tail)]
  BY <1>4, ConcatProperties
<1>7. Len(tail2) = Len(tail) + Len(more)
  BY <1>1, <1>2, <1>4, <1>5
<1>8. ASSUME NEW i \in 1 .. Len(tail2)
      PROVE  tail2[i] = (tail \o more)[i]
  <2>1. /\ start + i \in 1 .. Len(all) + Len(more) /\ i \in 1 .. Len(tail) + Len(more)
        /\ start + i <= Len(all) <=> i <= Len(tail)
        /\ (start + i) - Len(all) = i - Len(tail)
    BY <1>2, <1>4, <1>7
  <2>2. tail2[i] = IF start + i <= Len(all) THEN all[start + i] ELSE more[(start + i) - Len(all)]
    BY <1>1, <1>5, <2>1
  <2>3. CASE i <= Len(tail)
    <3>1. i \in 1 .. Len(tail)
      BY <1>2, <1>4, <2>3
    <3> QED BY <1>4, <1>6, <2>1, <2>2, <2>3, <3>1
  <2>4. CASE ~(i <= Len(tail))
    BY <1>6, <2>1, <2>2, <2>4
  <2> QED BY <2>3, <2>4
<1>9. tail2 = tail \o more
  BY <1>5, <1>6, <1>7, <1>8, SeqEqual
<1> QED BY <1>9 DEF tail2, tail, longer

\* What lies in the code from a symbol on is what CodeOf cuts out.
LEMMA LaidOutIsFound ==
  ASSUME NEW Insts, output.code \in Seq(Insts), NEW name,
         NEW part \in Seq(Insts), part # <<>>,
         \A i \in 1 .. Len(part) : part[i].op = "EXIT" <=> i = Len(part),
         LiesAt(output.code, output.symbols[name], part)
  PROVE  CodeOf(name) = part
<1> DEFINE all   == output.code
           at    == output.symbols[name]
           ends  == {i \in at + 1 .. Len(all) : all[i].op = "EXIT"} \cup {Len(all)}
           end   == CHOOSE i \in ends : \A j \in ends : i <= j
           last  == at + Len(part)
<1>1. /\ at \in Nat /\ Len(part) \in Nat \ {0} /\ Len(all) \in Nat /\ last <= Len(all)
      /\ \A i \in 1 .. Len(part) : all[at + i] = part[i]
  BY DEF LiesAt
<1>2. last \in ends
  <2>1. Len(part) \in 1 .. Len(part) /\ last \in 1 .. Len(all) /\ last >= at + 1
    BY <1>1
  <2>2. all[last].op = "EXIT"
    BY <1>1, <2>1
  <2> QED
    BY <1>1, <2>1, <2>2
<1>3. \A j \in ends : last <= j
  <2> SUFFICES ASSUME NEW j \in ends, ~(last <= j)
               PROVE  FALSE
    OBVIOUS
  <2>1. j \in 1 .. Len(all) /\ j >= at + 1 /\ all[j].op = "EXIT"
    <3>1. j # Len(all)
      BY <1>1
    <3> QED BY <1>1, <3>1
  <2>2. j - at \in 1 .. Len(part) /\ j - at # Len(part) /\ at + (j - at) = j
    BY <1>1, <2>1
  <2> HIDE DEF ends, last, at, all
  <2>3. all[j] = part[j - at]
    BY <1>1, <2>2
  <2> QED
    BY <2>1, <2>2, <2>3
<1>4. end = last
  <2>1. \A i, j \in ends : i \in Int /\ j \in Int
    BY <1>1
  <2> HIDE DEF ends, last
  <2>2. end \in ends /\ \A j \in ends : end <= j
    BY <1>2, <1>3
  <2> QED
    BY <1>2, <1>3, <2>1, <2>2
<1>5. SubSeq(all, at + 1, last) = part
  <2>1. /\ SubSeq(all, at + 1, last) \in Seq(Insts)
        /\ Len(SubSeq(all, at + 1, last)) = Len(part)
        /\ \A i \in 1 .. Len(part) : SubSeq(all, at + 1, last)[i] = all[at + i]
    <3>1. last = at + Len(part)
      OBVIOUS
    <3> HIDE DEF at, last, all
    <3>2. all \in Seq(Insts)
      BY DEF all
    <3>3. at + 1 \in 1 .. Len(all) /\ last \in 1 .. Len(all)
      BY <1>1, <3>1
    <3>4. last - (at + 1) + 1 = Len(part) /\ ~(at + 1 > last)
      BY <1>1, <3>1
    <3>5. \A i \in 1 .. Len(part) : (at + 1) + i - 1 = at + i
      BY <1>1
    <3> QED
      BY <3>2, <3>3, <3>4, <3>5, SubSeqProperties
  <2> HIDE DEF at, last, all
  <2> QED
    BY <1>1, <2>1, SeqEqual
<1> QED
  BY <1>4, <1>5 DEF CodeOf

\* Only COPY and REF_VEC add to the reads.
LEMMA ReadsNext ==
  ASSUME NEW Insts, NEW code \in Seq(Insts), NEW inst \in Insts
  PROVE  /\ Reads(code) \in Nat
         /\ Reads(code \o <<inst>>) = Reads(code) + (IF inst.op \in {"COPY", "REF_VEC"} THEN 1 ELSE 0)
<1> DEFINE all == code \o <<inst>>
           n == Len(code)
           R == {i \in 1 .. n : code[i].op \in {"COPY", "REF_VEC"}}
           A == {i \in 1 .. n + 1 : all[i].op \in {"COPY", "REF_VEC"}}
<1>1. /\ n \in Nat /\ DOMAIN code = 1 .. n /\ DOMAIN all = 1 .. n + 1
      /\ all[n + 1] = inst /\ \A i \in 1 .. n : all[i] = code[i]
  OBVIOUS
<1>2. Reads(code) = Cardinality(R) /\ Reads(all) = Cardinality(A)
  BY <1>1 DEF Reads
<1> HIDE DEF all, n
<1>3. IsFiniteSet(R) /\ Cardinality(R) \in Nat
  <2>1. IsFiniteSet(1 .. n)
    BY <1>1, FS_Interval
  <2>2. R \subseteq 1 .. n
    OBVIOUS
  <2> HIDE DEF R
  <2> QED BY <2>1, <2>2, FS_Subset, FS_CardinalityType
<1>4. n + 1 \notin R
  BY <1>1
<1>5. A = IF inst.op \in {"COPY", "REF_VEC"} THEN R \cup {n + 1} ELSE R
  <2>1. \A i : i \in 1 .. n + 1 <=> i \in 1 .. n \/ i = n + 1
    BY <1>1
  <2> QED BY <1>1, <2>1
<1> HIDE DEF R, A
<1>6. Cardinality(R \cup {n + 1}) = Cardinality(R) + 1
  BY <1>3, <1>4, FS_AddElement
<1>7. Reads(all) = Reads(code) + (IF inst.op \in {"COPY", "REF_VEC"} THEN 1 ELSE 0)
  BY <1>2, <1>3, <1>5, <1>6
<1> QED BY <1>2, <1>3, <1>7 DEF all

\* There are n indices of n parameters.
LEMMA CardinalityBelow ==
  ASSUME NEW n \in Nat
  PROVE  Cardinality(0 .. n - 1) = n
<1> DEFINE last == n - 1
<1>1. 0 \in Int /\ last \in Int /\ last + 1 = n /\ (last < 0 => n = 0)
  OBVIOUS
<1> HIDE DEF last
<1>2. Cardinality(0 .. last) = IF 0 > last THEN 0 ELSE last - 0 + 1
  BY <1>1, FS_Interval
<1>3. Cardinality(0 .. last) = n
  BY <1>1, <1>2
<1> QED BY <1>3 DEF last

\* A function's arity, and that of the parameters that are not used yet.
LEMMA Arities ==
  ASSUME CompileInv, visits # <<>>
  PROVE  /\ Arity \in Nat /\ context.symbol \in DOMAIN source
         /\ IsFiniteSet(context.unusedParams) /\ Cardinality(context.unusedParams) \in Nat
<1>1. /\ context.symbol \in DOMAIN source /\ source \in Sources
      /\ context.unusedParams \subseteq 0 .. Arity - 1
  BY DEF CompileInv, ContextInv
<1>2. Arity \in Nat
  BY <1>1, RootIsGraphValue, GraphValueFacts DEF Arity
<1>3. IsFiniteSet(0 .. Arity - 1)
  BY <1>2, FS_Interval
<1> QED BY <1>1, <1>2, <1>3, FS_Subset, FS_CardinalityType

----------------------------------------------------------------------------
\* The steps that emit nothing.

\* Nothing is compiled yet, and nothing visited.
LEMMA InitCompileInv ==
  ASSUME CompileInit
  PROVE  CompileInv
<1>1. output.code \in Seq(Emittable) /\ output = [code |-> output.code, symbols |-> output.symbols]
  BY DEF CompileInit
<1>2. visits = <<>> /\ visits \in Seq([value : Values, emitted : Nat])
  BY DEF CompileInit
<1>3. source \in Sources /\ pending = DOMAIN source
  BY DEF CompileInit
<1> QED BY <1>1, <1>2, <1>3 DEF CompileInv, FinishedInv

\* Whether code is a function's depends on the source alone.
LEMMA CompiledStays ==
  ASSUME source' = source, NEW symbol, NEW part
  PROVE  IsCompiled(symbol, part)' = IsCompiled(symbol, part)
<1>1. ASSUME NEW additional PROVE Leaves(symbol, part, additional)' = Leaves(symbol, part, additional)
  BY DEF Leaves, Kept
<1> QED BY <1>1 DEF IsCompiled

\* What has been compiled stays.
LEMMA FinishedStays ==
  ASSUME CompileInv, source' = source, NEW more \in Seq(Emittable),
         output'.code = output.code \o more, NEW symbol \in DOMAIN source \ pending,
         /\ NameOf(symbol) \in DOMAIN output'.symbols
         /\ output'.symbols[NameOf(symbol)] = output.symbols[NameOf(symbol)]
  PROVE  /\ NameOf(symbol) \in DOMAIN output'.symbols
         /\ \E part : IsCompiled(symbol, part)'
                      /\ LiesAt(output'.code, output'.symbols[NameOf(symbol)], part)
<1>1. PICK part : IsCompiled(symbol, part)
                    /\ LiesAt(output.code, output.symbols[NameOf(symbol)], part)
  BY DEF CompileInv, FinishedInv
<1>2. IsCompiled(symbol, part)'
  BY <1>1, CompiledStays
<1>3. Len(part) \in Nat /\ output.code \in Seq(Emittable)
  BY <1>1 DEF IsCompiled, CompileInv
<1>4. LiesAt(output'.code, output'.symbols[NameOf(symbol)], part)
  BY <1>1, <1>3, LaidBehind
<1> QED BY <1>2, <1>4

\* The operand's visit begins where the operands emitted so far end.
LEMMA EmitOperandInductive ==
  ASSUME CompileInv, visits # <<>>, EmitOperand
  PROVE  CompileInv'
<1> DEFINE n == Len(visits)
           v == visits[n].value
           e == visits[n].emitted
           w == Operand(v, e + 1)
           type == context.symbol.type
           Record == [value : Values, emitted : Nat]
<1>1. /\ source' = source /\ pending' = pending /\ output' = output /\ context' = context
      /\ aborted' = aborted /\ e < OperandCount(v) /\ visits' = Append(visits, Visit(w))
  BY DEF EmitOperand
<1>2. ContextInv /\ VisitsInv /\ BodyInv /\ StackInv /\ visits \in Seq(Record)
  BY DEF CompileInv
<1>3. n \in Nat /\ n >= 1 /\ e \in Nat /\ <<type, v>> \in GraphValues
  <2> HIDE DEF Record
  <2>1. n \in Nat /\ n >= 1 /\ visits[n] \in Record
    BY <1>2
  <2> QED BY <1>2, <2>1 DEF VisitsInv, Record
<1>4. <<type, w>> \in GraphValues /\ w \in Values /\ OperandCount(w) \in Nat
  <2>1. OperandCount(v) \in Nat
    BY <1>3, OperandCounts
  <2>2. e + 1 \in 1 .. OperandCount(v)
    BY <1>1, <1>3, <2>1
  <2>3. <<type, w>> \in GraphValues
    BY <1>3, <2>2, GraphValueFacts
  <2> QED BY <2>3, GraphValueFacts, OperandCounts
<1> HIDE DEF w
<1>5. /\ visits' \in Seq(Record) /\ Len(visits') = n + 1
      /\ visits'[n + 1] = [value |-> w, emitted |-> 0]
      /\ \A k \in 1 .. n : visits'[k] = visits[k]
  BY <1>1, <1>2, <1>4 DEF Visit
<1> HIDE DEF n
<1>6. \A k : k \in 1 .. n + 1 <=> k \in 1 .. n \/ k = n + 1
  BY <1>3
<1>7. VisitsInv'
  <2>1. visits'[1].value = source'[context'.symbol]
    <3>1. 1 \in 1 .. n
      BY <1>3
    <3> QED BY <1>1, <1>2, <1>5, <3>1 DEF VisitsInv
  <2>2. \A k \in 1 .. n + 1 :
          /\ <<type, visits'[k].value>> \in GraphValues
          /\ visits'[k].emitted <= OperandCount(visits'[k].value)
    <3>1. \A k \in 1 .. n : /\ <<type, visits'[k].value>> \in GraphValues
                            /\ visits'[k].emitted <= OperandCount(visits'[k].value)
      BY <1>2, <1>5 DEF VisitsInv, n
    <3>2. /\ <<type, visits'[n + 1].value>> \in GraphValues
          /\ visits'[n + 1].emitted <= OperandCount(visits'[n + 1].value)
      BY <1>4, <1>5
    <3> QED BY <1>6, <3>1, <3>2
  <2>3. \A k \in 1 .. n :
          /\ visits'[k].emitted < OperandCount(visits'[k].value)
          /\ visits'[k + 1].value = Operand(visits'[k].value, visits'[k].emitted + 1)
    <3> SUFFICES ASSUME NEW k \in 1 .. n
                 PROVE  /\ visits[k].emitted < OperandCount(visits[k].value)
                        /\ visits'[k + 1].value = Operand(visits[k].value, visits[k].emitted + 1)
      BY <1>5
    <3>1. CASE k = n
      BY <1>1, <1>5, <3>1 DEF w
    <3>2. CASE k # n
      <4>1. k \in 1 .. n - 1 /\ k + 1 \in 1 .. n
        BY <1>3, <3>2
      <4> QED BY <1>2, <1>5, <4>1 DEF VisitsInv, n
    <3> QED BY <3>1, <3>2
  <2>4. (n + 1) - 1 = n
    BY <1>3
  <2> QED BY <1>1, <1>5, <2>1, <2>2, <2>3, <2>4 DEF VisitsInv
<1>8. CurrentCode' = CurrentCode /\ Arity' = Arity
  BY <1>1 DEF CurrentCode, Arity
<1>9. ContextInv'
  BY <1>1, <1>2, <1>8 DEF ContextInv
<1>10. BodyInv'
  <2>1. Len(visits') # 1
    BY <1>3, <1>5
  <2> QED BY <1>1, <1>2, <1>8, <2>1 DEF BodyInv
<1>11. StackInv'
  <2>1. PICK base : Bases(base) /\ \A additional \in Nat : OnStack(base, additional)
    BY <1>2 DEF StackInv
  <2> DEFINE top == base[n] + e
  <2>2. /\ base \in [1 .. n -> Nat] /\ base[1] = 0 /\ context.stackSize = top /\ top \in Nat
        /\ \A k \in 1 .. n - 1 : base[k + 1] = base[k] + visits[k].emitted
        /\ \A k, j \in 1 .. n : k < j => base[k] + visits[k].emitted <= base[j]
    <3>1. n \in 1 .. n
      BY <1>3
    <3> QED BY <1>3, <2>1, <3>1 DEF Bases, n
  <2> HIDE DEF top
  <2>3. PICK more \in [1 .. n + 1 -> Nat] :
          more[n + 1] = top /\ \A k \in 1 .. n : more[k] = base[k]
    <3> DEFINE f == [k \in 1 .. n + 1 |-> IF k = n + 1 THEN top ELSE base[k]]
    <3>1. f \in [1 .. n + 1 -> Nat] /\ f[n + 1] = top /\ \A k \in 1 .. n : f[k] = base[k]
      BY <1>3, <2>2
    <3> HIDE DEF f
    <3> QED BY <3>1
  <2>4. Bases(more)'
    <3>1. more[1] = 0
      <4>1. 1 \in 1 .. n
        BY <1>3
      <4> QED BY <2>2, <2>3, <4>1
    <3>2. \A k \in 1 .. n : more[k + 1] = more[k] + visits'[k].emitted
      <4> SUFFICES ASSUME NEW k \in 1 .. n PROVE more[k + 1] = base[k] + visits[k].emitted
        BY <1>5, <2>3
      <4>1. CASE k = n
        BY <2>3, <4>1 DEF top
      <4>2. CASE k # n
        <5>1. k \in 1 .. n - 1 /\ k + 1 \in 1 .. n
          BY <1>3, <4>2
        <5> QED BY <2>2, <2>3, <5>1
      <4> QED BY <4>1, <4>2
    <3>3. \A k, j \in 1 .. n + 1 : k < j => more[k] + visits'[k].emitted <= more[j]
      <4> SUFFICES ASSUME NEW k \in 1 .. n + 1, NEW j \in 1 .. n + 1, k < j
                   PROVE  more[k] + visits'[k].emitted <= more[j]
        OBVIOUS
      <4>1. k \in 1 .. n
        BY <1>3
      <4>2. CASE j \in 1 .. n
        BY <1>5, <2>2, <2>3, <4>1, <4>2
      <4>3. CASE j = n + 1
        <5>1. base[k] \in Nat /\ visits[k].emitted \in Nat /\ base[n] \in Nat
          <6> HIDE DEF Record
          <6>1. n \in 1 .. n /\ \A i \in 1 .. n : visits[i] \in Record
            BY <1>2, <1>3 DEF n
          <6>2. visits[k].emitted \in Nat
            BY <4>1, <6>1 DEF Record
          <6> QED BY <2>2, <4>1, <6>1, <6>2
        <5>2. base[k] + visits[k].emitted <= top
          <6>1. CASE k = n
            BY <5>1, <6>1 DEF top
          <6>2. CASE k # n
            <7>1. k < n /\ n \in 1 .. n
              BY <1>3, <4>1, <6>2
            <7>2. base[k] + visits[k].emitted <= base[n]
              BY <2>2, <4>1, <7>1
            <7> QED BY <1>3, <5>1, <7>2 DEF top
          <6> QED BY <6>1, <6>2
        <5> QED BY <1>5, <2>3, <4>1, <4>3, <5>2
      <4> QED BY <1>6, <4>2, <4>3
    <3>4. context'.stackSize = more[n + 1] + visits'[n + 1].emitted
      BY <1>1, <1>5, <2>2, <2>3
    <3>5. Len(visits') = n + 1 /\ Len(visits') - 1 = n
      BY <1>3, <1>5
    <3> QED BY <2>3, <3>1, <3>2, <3>3, <3>4, <3>5 DEF Bases
  <2>5. ASSUME NEW additional \in Nat
        PROVE  OnStack(more, additional)'
    <3> DEFINE m == Executed(CurrentCode, type, additional)
               lower == additional + Arity
    <3>1. OnStack(base, additional)
      BY <2>1
    <3>2. \A k \in 1 .. n + 1 : \A i \in 1 .. visits'[k].emitted :
            m.stack[lower + more[k] + i] = Operand(visits'[k].value, i)
      <4>1. \A k \in 1 .. n : \A i \in 1 .. visits[k].emitted :
              m.stack[lower + base[k] + i] = Operand(visits[k].value, i)
        BY <3>1 DEF OnStack, n
      <4> HIDE DEF m, lower
      <4>2. \A k \in 1 .. n : \A i \in 1 .. visits'[k].emitted :
              m.stack[lower + more[k] + i] = Operand(visits'[k].value, i)
        BY <1>5, <2>3, <4>1
      <4>3. 1 .. visits'[n + 1].emitted = {}
        BY <1>5
      <4> QED BY <1>6, <4>2, <4>3
    <3>3. /\ IsState(m) /\ m.resultOffset = 0 /\ m.additional = additional
          /\ Len(m.stack) = lower + context.stackSize
          /\ \A i \in 1 .. lower : m.stack[i] = Entered(type, additional).stack[i]
      BY <3>1 DEF OnStack
    <3>4. /\ m' = m /\ lower' = lower /\ context' = context /\ Len(visits') = n + 1
      BY <1>1, <1>5, <1>8
    <3>5. OnStack(more, additional)' <=>
            /\ IsState(m') /\ m'.resultOffset = 0 /\ m'.additional = additional
            /\ Len(m'.stack) = lower' + context'.stackSize
            /\ \A i \in 1 .. lower' : m'.stack[i] = Entered(context'.symbol.type, additional).stack[i]
            /\ \A k \in 1 .. Len(visits') : \A i \in 1 .. visits'[k].emitted :
                 m'.stack[lower' + more[k] + i] = Operand(visits'[k].value, i)
      BY DEF OnStack
    <3> HIDE DEF m, lower
    <3> QED BY <3>2, <3>3, <3>4, <3>5
  <2> QED BY <2>4, <2>5 DEF StackInv
<1>12. FinishedInv'
  <2>1. FinishedInv
    BY DEF CompileInv
  <2>2. \A symbol, part : IsCompiled(symbol, part)' = IsCompiled(symbol, part)
    BY <1>1, CompiledStays
  <2> QED BY <1>1, <2>1, <2>2 DEF FinishedInv
<1> QED BY <1>1, <1>2, <1>5, <1>7, <1>9, <1>10, <1>11, <1>12 DEF CompileInv

\* A function is entered with its caller's slots and, above them, its parameters.
LEMMA EnteredState ==
  ASSUME NEW type, Len(type.params) \in Nat, NEW additional \in Nat
  PROVE  LET m    == Entered(type, additional)
             size == additional + Len(type.params)
         IN /\ IsState(m) /\ m.resultOffset = 0 /\ m.additional = additional
            /\ Len(m.stack) = size
            /\ \A i \in 1 .. size : i > additional =>
                 m.stack[i] = [kind |-> "param", index |-> size - i]
<1> DEFINE m     == Entered(type, additional)
           size  == additional + Len(type.params)
           stack == [i \in 1 .. size |-> IF i <= additional THEN [kind |-> "caller", slot |-> i]
                                         ELSE [kind |-> "param", index |-> size - i]]
<1>1. size \in Nat
  OBVIOUS
<1>2. m = [stack |-> stack, resultOffset |-> 0, additional |-> additional, underflow |-> FALSE]
  BY DEF Entered
<1> HIDE DEF size, m
<1>3. \A i \in 1 .. size : stack[i] \in Slots
  <2> SUFFICES ASSUME NEW i \in 1 .. size PROVE stack[i] \in Slots
    OBVIOUS
  <2>1. i \in Nat /\ size - i \in Nat
    BY <1>1
  <2> QED BY <2>1 DEF Slots
<1>4. stack \in Seq(Slots) /\ Len(stack) = size
  <2>1. stack \in [1 .. size -> Slots]
    BY <1>3
  <2> HIDE DEF stack
  <2> QED BY <1>1, <2>1
<1>5. \A i \in 1 .. size : i > additional => stack[i] = [kind |-> "param", index |-> size - i]
  BY <1>1
<1> HIDE DEF stack
<1> QED BY <1>2, <1>4, <1>5 DEF IsState, m, size

\* A new symbol leads to the end of the code, and hides no other function's.
LEMMA BeginFunctionInductive ==
  ASSUME NamesApart, CompileInv, ~aborted, NEW symbol \in pending, BeginFunction(symbol)
  PROVE  CompileInv'
<1> DEFINE type  == symbol.type
           n     == Len(type.params)
           name  == NameOf(symbol)
           root  == source[symbol]
           Record == [value : Values, emitted : Nat]
<1>1. /\ source' = source /\ pending' = pending /\ aborted' = aborted
      /\ output' = [output EXCEPT !.symbols = Named(output.symbols, name, Len(output.code))]
      /\ context' = Context(symbol) /\ visits' = <<Visit(root)>>
  BY DEF BeginFunction
<1>2. /\ source \in Sources /\ pending \subseteq DOMAIN source /\ symbol \in DOMAIN source
      /\ output = [code |-> output.code, symbols |-> output.symbols]
      /\ output.code \in Seq(Emittable) /\ FinishedInv
  BY DEF CompileInv
<1>3. /\ output' = [code |-> output'.code, symbols |-> output'.symbols]
      /\ output'.code = output.code
      /\ output'.symbols = Named(output.symbols, name, Len(output.code))
  BY <1>1, <1>2
<1>4. <<type, root>> \in GraphValues /\ root \in Values /\ n \in Nat /\ OperandCount(root) \in Nat
  <2>1. <<type, root>> \in GraphValues
    BY <1>2, RootIsGraphValue
  <2> QED BY <2>1, GraphValueFacts, OperandCounts
<1> HIDE DEF root
<1>5. /\ visits' \in Seq(Record) /\ Len(visits') = 1
      /\ visits'[1] = [value |-> root, emitted |-> 0]
  BY <1>1, <1>4 DEF Visit
<1>6. /\ context' = [symbol |-> symbol, stackSize |-> 0, unusedParams |-> 0 .. n - 1]
      /\ context'.symbol = symbol /\ context'.stackSize = 0 /\ context'.unusedParams = 0 .. n - 1
      /\ Arity' = n
  BY <1>1 DEF Context, Arity
<1>7. Len(output.code) \in Nat
  BY <1>2
<1>8. name \in DOMAIN output'.symbols /\ output'.symbols[name] = Len(output.code)
  BY <1>3 DEF Named
<1>9. ContextInv'
  BY <1>1, <1>3, <1>6, <1>7, <1>8 DEF ContextInv
<1>10. VisitsInv'
  <2>1. \A k \in 1 .. Len(visits') : k = 1
    BY <1>5
  <2>2. \A k \in 1 .. Len(visits') - 1 : FALSE
    BY <1>5
  <2>3. visits'[1].value = root /\ visits'[1].emitted <= OperandCount(root)
    BY <1>4, <1>5
  <2> QED BY <1>1, <1>4, <1>6, <2>1, <2>2, <2>3 DEF VisitsInv, root
<1>11. CurrentCode' = <<>>
  <2>1. CurrentCode' = SubSeq(output.code, Len(output.code) + 1, Len(output.code))
    BY <1>3, <1>6, <1>8 DEF CurrentCode
  <2> QED BY <1>7, <2>1, SubSeqEmpty
<1>12. BodyInv'
  <2>1. Reads(<<>>) = 0
    <3>1. {i \in DOMAIN <<>> : <<>>[i].op \in {"COPY", "REF_VEC"}} = {}
      OBVIOUS
    <3> QED BY <3>1, FS_EmptySet DEF Reads
  <2>2. Cardinality(0 .. n - 1) = n
    <3> HIDE DEF n
    <3> QED BY <1>4, CardinalityBelow
  <2>3. Reads(CurrentCode') + Cardinality(context'.unusedParams) = Arity'
    <3> HIDE DEF n
    <3> QED BY <1>4, <1>6, <1>11, <2>1, <2>2
  <2>4. 1 .. Len(CurrentCode') = {}
    BY <1>11
  <2> QED BY <1>6, <1>11, <2>3, <2>4 DEF BodyInv
<1>13. StackInv'
  <2>1. PICK base \in [1 .. 1 -> Nat] : base[1] = 0
    <3> DEFINE f == [k \in 1 .. 1 |-> 0]
    <3>1. f \in [1 .. 1 -> Nat] /\ f[1] = 0
      OBVIOUS
    <3> QED BY <3>1
  <2>2. Bases(base)'
    <3>1. \A k, j \in 1 .. 1 : ~(k < j)
      OBVIOUS
    <3>2. 1 .. 0 = {} /\ 1 - 1 = 0 /\ 0 = 0 + 0
      OBVIOUS
    <3> QED BY <1>5, <1>6, <2>1, <3>1, <3>2 DEF Bases
  <2>3. ASSUME NEW additional \in Nat
        PROVE  OnStack(base, additional)'
    <3> DEFINE m == Entered(type, additional)
               lower == additional + n
    <3>1. /\ IsState(m) /\ m.resultOffset = 0 /\ m.additional = additional
          /\ Len(m.stack) = lower /\ lower \in Nat
      BY <1>4, EnteredState
    <3>2. Executed(CurrentCode, context.symbol.type, additional)' = m
      BY <1>6, <1>11, ExecuteNone
    <3>3. (additional + Arity)' = lower /\ lower + context'.stackSize = lower
      <4> HIDE DEF n
      <4> QED BY <1>4, <1>6
    <3>4. \A k \in 1 .. Len(visits') : 1 .. visits'[k].emitted = {}
      <4>1. \A k \in 1 .. Len(visits') : k = 1
        BY <1>5
      <4> QED BY <1>5, <4>1
    <3>5. context'.symbol.type = type
      BY <1>6
    <3> HIDE DEF m, lower
    <3>6. OnStack(base, additional)' <=>
            LET r == Executed(CurrentCode, context.symbol.type, additional)'
                l == (additional + Arity)'
            IN /\ IsState(r) /\ r.resultOffset = 0 /\ r.additional = additional
               /\ Len(r.stack) = l + context'.stackSize
               /\ \A i \in 1 .. l : r.stack[i] = Entered(context'.symbol.type, additional).stack[i]
               /\ \A k \in 1 .. Len(visits') : \A i \in 1 .. visits'[k].emitted :
                    r.stack[l + base[k] + i] = Operand(visits'[k].value, i)
      BY DEF OnStack
    <3> QED BY <3>1, <3>2, <3>3, <3>4, <3>5, <3>6 DEF m
  <2> QED BY <2>2, <2>3 DEF StackInv
<1>14. FinishedInv'
  <2> SUFFICES ASSUME NEW s \in DOMAIN source \ pending
               PROVE  /\ NameOf(s) \in DOMAIN output'.symbols
                      /\ \E part : IsCompiled(s, part)'
                                   /\ LiesAt(output'.code, output'.symbols[NameOf(s)], part)
    BY <1>1 DEF FinishedInv
  <2>1. NameOf(s) # name
    BY <1>2 DEF NamesApart
  <2>2. NameOf(s) \in DOMAIN output.symbols
        /\ \E part : IsCompiled(s, part) /\ LiesAt(output.code, output.symbols[NameOf(s)], part)
    BY <1>2 DEF FinishedInv
  <2>3. NameOf(s) \in DOMAIN output'.symbols /\ output'.symbols[NameOf(s)] = output.symbols[NameOf(s)]
    BY <1>3, <2>1, <2>2 DEF Named
  <2>4. \A part : IsCompiled(s, part)' = IsCompiled(s, part)
    BY <1>1, CompiledStays
  <2> QED BY <1>3, <2>2, <2>3, <2>4
<1> QED BY <1>1, <1>2, <1>3, <1>5, <1>9, <1>10, <1>12, <1>13, <1>14 DEF CompileInv

----------------------------------------------------------------------------
\* The visited value has all its operands on the stack.

AllEmitted == visits[Len(visits)].emitted = OperandCount(Visited)

\* What the invariant says of the stack once all operands are emitted.
LEMMA StateFacts ==
  ASSUME CompileInv, visits # <<>>, AllEmitted, NEW additional \in Nat
  PROVE  LET type  == context.symbol.type
             m     == Executed(CurrentCode, type, additional)
             lower == additional + Arity
         IN /\ <<type, Visited>> \in GraphValues
            /\ IsState(m) /\ m.resultOffset = 0 /\ m.additional = additional
            /\ Len(m.stack) = lower + context.stackSize
            /\ \A i \in 1 .. lower : m.stack[i] = Entered(type, additional).stack[i]
            /\ Ready(m, Visited)
            /\ OperandCount(Visited) <= context.stackSize
            /\ returnNode => OperandCount(Visited) = context.stackSize
<1> DEFINE type  == context.symbol.type
           m     == Executed(CurrentCode, type, additional)
           lower == additional + Arity
           n     == Len(visits)
           v     == visits[n].value
           count == OperandCount(v)
           Record == [value : Values, emitted : Nat]
<1>1. ContextInv /\ VisitsInv /\ StackInv /\ visits \in Seq(Record)
  BY DEF CompileInv
<1>2. n \in Nat /\ n \in 1 .. n /\ v = Visited /\ visits[n].emitted = count
  <2> HIDE DEF Record
  <2> QED BY <1>1 DEF AllEmitted, Visited
<1> HIDE DEF n, v
<1>3. <<type, v>> \in GraphValues /\ count \in Nat
  <2>1. <<type, v>> \in GraphValues
    BY <1>1, <1>2 DEF VisitsInv, n, v
  <2> QED BY <2>1, OperandCounts
<1>4. PICK base : Bases(base) /\ OnStack(base, additional)
  BY <1>1 DEF StackInv
<1>5. /\ base[n] \in Nat /\ context.stackSize = base[n] + count
      /\ n = 1 => base[n] = 0
  BY <1>2, <1>4 DEF Bases, n
<1>6. /\ IsState(m) /\ m.resultOffset = 0 /\ m.additional = additional
      /\ Len(m.stack) = lower + context.stackSize
      /\ \A i \in 1 .. lower : m.stack[i] = Entered(type, additional).stack[i]
      /\ \A i \in 1 .. count : m.stack[lower + base[n] + i] = Operand(v, i)
  BY <1>2, <1>4 DEF OnStack, n, v
<1>7. lower \in Nat
  BY Arities
<1> HIDE DEF m, lower, count
<1>8. Len(m.stack) - count = lower + base[n] /\ count <= Len(m.stack)
  BY <1>3, <1>5, <1>6, <1>7
<1>9. Ready(m, v)
  BY <1>6, <1>8 DEF Ready, count
<1>10. count <= context.stackSize /\ (n = 1 => count = context.stackSize)
  BY <1>3, <1>5
<1> QED BY <1>2, <1>3, <1>6, <1>9, <1>10 DEF returnNode, m, lower, count, n

\* A value below the root leaves itself in the place of its operands.
LEMMA BelowRootInductive ==
  ASSUME CompileInv, visits # <<>>, ~returnNode, AllEmitted,
         NEW inst \in Emittable, inst.op # "EXIT",
         NEW next, NEW asserted \in BOOLEAN, Leave(<<inst>>, next, asserted),
         next = [ symbol       |-> context.symbol,
                  stackSize    |-> context.stackSize - OperandCount(Visited) + 1,
                  unusedParams |-> next.unusedParams ],
         next.unusedParams \subseteq context.unusedParams,
         asserted => ~aborted
            /\ (IF inst.op \in {"COPY", "REF_VEC"} THEN 1 ELSE 0) + Cardinality(next.unusedParams)
                  = Cardinality(context.unusedParams),
         \A additional \in Nat :
           LET type == context.symbol.type
               m    == Executed(CurrentCode, type, additional)
           IN Effect(inst, m, type) = Replace(m, OperandCount(Visited), Visited)
  PROVE  CompileInv'
<1> DEFINE n == Len(visits)
           p == n - 1
           v == Visited
           e == visits[p].emitted
           u == visits[p].value
           count == OperandCount(v)
           type == context.symbol.type
           Record == [value : Values, emitted : Nat]
<1>1. /\ output' = [output EXCEPT !.code = output.code \o <<inst>>]
      /\ aborted' = ~asserted
      /\ visits' = [SubSeq(visits, 1, n - 1) EXCEPT ![n - 1].emitted = @ + 1]
      /\ context' = next /\ pending' = pending /\ source' = source
  BY DEF Leave, returnNode
<1>2. /\ ContextInv /\ VisitsInv /\ BodyInv /\ StackInv /\ visits \in Seq(Record)
      /\ output = [code |-> output.code, symbols |-> output.symbols]
      /\ output.code \in Seq(Emittable) /\ FinishedInv
  BY DEF CompileInv
<1>3. n \in Nat /\ p \in Nat /\ p >= 1 /\ n = p + 1
  <2> HIDE DEF Record
  <2> QED BY <1>2 DEF returnNode
<1>4. \A k \in 1 .. n : visits[k] = [value |-> visits[k].value, emitted |-> visits[k].emitted]
        /\ visits[k].value \in Values /\ visits[k].emitted \in Nat
  <2>1. \A k \in 1 .. n : visits[k] \in Record
    <3> HIDE DEF Record
    <3> QED BY <1>2
  <2> HIDE DEF n
  <2> QED BY <2>1
<1>5. /\ visits' \in Seq(Record) /\ Len(visits') = p
      /\ visits'[p] = [value |-> u, emitted |-> e + 1]
      /\ \A k \in 1 .. p - 1 : visits'[k] = visits[k]
  <2> DEFINE sub == SubSeq(visits, 1, n - 1)
             incremented == [value |-> u, emitted |-> e + 1]
  <2>1. sub \in Seq(Record) /\ Len(sub) = p /\ \A k \in 1 .. p : sub[k] = visits[k]
    <3> HIDE DEF Record
    <3> QED BY <1>2, <1>3
  <2> HIDE DEF sub, n, p
  <2>2. p \in 1 .. n /\ p \in 1 .. p /\ n - 1 = p
    BY <1>3
  <2>3. incremented \in Record
    <3>1. u \in Values /\ e \in Nat
      BY <1>4, <2>2
    <3>2. e + 1 \in Nat
      BY <3>1
    <3> HIDE DEF u, e
    <3> QED BY <3>1, <3>2
  <2>4. visits' = [sub EXCEPT ![p] = incremented]
    <3>1. sub[p] = [value |-> u, emitted |-> e]
      BY <1>4, <2>1, <2>2
    <3>2. [sub[p] EXCEPT !.emitted = @ + 1] = incremented
      BY <3>1
    <3> HIDE DEF incremented
    <3> QED BY <1>1, <2>2, <3>2 DEF sub
  <2> HIDE DEF incremented, Record
  <2>5. visits' \in Seq(Record) /\ Len(visits') = p /\ visits'[p] = incremented
        /\ \A k \in 1 .. p - 1 : visits'[k] = sub[k]
    BY <1>3, <2>1, <2>2, <2>3, <2>4
  <2> QED BY <1>3, <2>1, <2>5 DEF incremented
<1> HIDE DEF n, p
<1>6. /\ p \in 1 .. n /\ p \in 1 .. n - 1 /\ n \in 1 .. n
      /\ \A k : k \in 1 .. p <=> k \in 1 .. p - 1 \/ k = p
      /\ \A k \in 1 .. p - 1 : k \in 1 .. n - 1 /\ k \in 1 .. n /\ k \in 1 .. p /\ k + 1 \in 1 .. p /\ k # p
  BY <1>3
<1>7. /\ <<type, u>> \in GraphValues /\ e \in Nat /\ e < OperandCount(u) /\ v = Operand(u, e + 1)
      /\ OperandCount(u) \in Nat /\ <<type, v>> \in GraphValues /\ count \in Nat /\ v \in Slots
      /\ visits[n].value = v /\ visits[n].emitted = count
  <2>1. visits[n].value = v /\ visits[n].emitted = count
    BY DEF AllEmitted, Visited, n
  <2>2. /\ <<type, u>> \in GraphValues /\ e < OperandCount(u)
        /\ visits[p + 1].value = Operand(u, e + 1) /\ <<type, visits[n].value>> \in GraphValues
    BY <1>2, <1>6 DEF VisitsInv, n
  <2>3. e \in Nat
    BY <1>4, <1>6
  <2>4. v \in Slots
    BY <2>1, <2>2, GraphValueFacts DEF Slots
  <2> QED BY <1>3, <2>1, <2>2, <2>3, <2>4, OperandCounts
<1>8. VisitsInv'
  <2>1. \A k \in 1 .. p - 1 :
          /\ <<type, visits[k].value>> \in GraphValues
          /\ visits[k].emitted <= OperandCount(visits[k].value)
          /\ visits[k].emitted < OperandCount(visits[k].value)
          /\ visits[k + 1].value = Operand(visits[k].value, visits[k].emitted + 1)
    BY <1>2, <1>6 DEF VisitsInv, n
  <2>2. \A k \in 1 .. p : visits'[k].value = visits[k].value
    <3>1. visits'[p].value = visits[p].value
      BY <1>5
    <3> QED BY <1>5, <1>6, <3>1
  <2>3. visits'[1].value = source[context.symbol]
    <3>1. 1 \in 1 .. p
      BY <1>3
    <3> QED BY <1>2, <2>2, <3>1 DEF VisitsInv
  <2>4. e + 1 <= OperandCount(u)
    BY <1>7
  <2>5. ASSUME NEW k \in 1 .. p
        PROVE  /\ <<type, visits'[k].value>> \in GraphValues
               /\ visits'[k].emitted <= OperandCount(visits'[k].value)
    <3>1. CASE k = p
      BY <1>5, <1>7, <2>4, <3>1
    <3>2. CASE k \in 1 .. p - 1
      BY <1>5, <2>1, <3>2
    <3> QED BY <1>6, <3>1, <3>2
  <2>6. ASSUME NEW k \in 1 .. p - 1
        PROVE  /\ visits'[k].emitted < OperandCount(visits'[k].value)
               /\ visits'[k + 1].value = Operand(visits'[k].value, visits'[k].emitted + 1)
    <3>1. k + 1 \in 1 .. p
      BY <1>6
    <3> QED BY <1>5, <2>1, <2>2, <3>1
  <2>7. context'.symbol = context.symbol
    BY <1>1
  <2> QED BY <1>1, <1>5, <2>3, <2>5, <2>6, <2>7 DEF VisitsInv
<1> DEFINE start == output.symbols[NameOf(context.symbol)]
<1>9. /\ output' = [code |-> output'.code, symbols |-> output'.symbols]
      /\ output'.code = output.code \o <<inst>> /\ output'.symbols = output.symbols
      /\ output'.code \in Seq(Emittable) /\ Len(output'.code) = Len(output.code) + 1
  <2>1. /\ output'.code = output.code \o <<inst>> /\ output'.symbols = output.symbols
        /\ output' = [code |-> output'.code, symbols |-> output'.symbols]
    BY <1>1, <1>2
  <2> QED BY <1>2, <2>1
<1>10. /\ context'.symbol = context.symbol /\ context'.stackSize = context.stackSize - count + 1
       /\ context'.unusedParams = next.unusedParams /\ Arity' = Arity
  BY <1>1 DEF Arity
<1>11. start \in 0 .. Len(output.code)
  BY <1>2 DEF ContextInv
<1>12. CurrentCode' = CurrentCode \o <<inst>> /\ CurrentCode \in Seq(Emittable)
  <2>1. <<inst>> \in Seq(Emittable)
    OBVIOUS
  <2>2. CurrentCode = SubSeq(output.code, start + 1, Len(output.code))
    BY DEF CurrentCode
  <2>3. CurrentCode' = SubSeq(output.code \o <<inst>>, start + 1, Len(output.code \o <<inst>>))
    BY <1>9, <1>10 DEF CurrentCode
  <2> HIDE DEF start
  <2> QED BY <1>2, <1>11, <2>1, <2>2, <2>3, BehindGrows, Behind
<1>13. ContextInv'
  <2>1. context.stackSize \in Nat /\ count <= context.stackSize
    BY <1>2, StateFacts DEF ContextInv
  <2>2. context'.stackSize \in Nat
    BY <1>7, <1>10, <2>1
  <2>3. context' = [ symbol |-> context'.symbol, stackSize |-> context'.stackSize,
                     unusedParams |-> context'.unusedParams ]
    BY <1>1, <1>10
  <2>4. start \in 0 .. Len(output'.code)
    BY <1>2, <1>9, <1>11
  <2> HIDE DEF start
  <2> QED BY <1>1, <1>2, <1>9, <1>10, <2>2, <2>3, <2>4 DEF ContextInv, start
<1>14. BodyInv'
  <2>1. \A i \in 1 .. Len(CurrentCode') : CurrentCode'[i].op # "EXIT"
    <3>1. \A i \in 1 .. Len(CurrentCode) : CurrentCode[i].op # "EXIT"
      BY <1>2 DEF BodyInv
    <3> DEFINE body == CurrentCode
    <3>2. body \in Seq(Emittable)
      BY <1>12
    <3> HIDE DEF body
    <3>3. /\ Len(body \o <<inst>>) = Len(body) + 1 /\ (body \o <<inst>>)[Len(body) + 1] = inst
          /\ \A i \in 1 .. Len(body) : (body \o <<inst>>)[i] = body[i]
          /\ \A i \in 1 .. Len(body) + 1 : i \in 1 .. Len(body) \/ i = Len(body) + 1
      BY <3>2
    <3>4. \A i \in 1 .. Len(body) + 1 : (body \o <<inst>>)[i].op # "EXIT"
      BY <3>1, <3>3 DEF body
    <3> QED BY <1>12, <3>3, <3>4 DEF body
  <2>2. ASSUME ~aborted'
        PROVE  Reads(CurrentCode') + Cardinality(context'.unusedParams) = Arity'
    <3> DEFINE one == IF inst.op \in {"COPY", "REF_VEC"} THEN 1 ELSE 0
    <3>1. Reads(CurrentCode) \in Nat /\ Reads(CurrentCode') = Reads(CurrentCode) + one
      BY <1>12, ReadsNext
    <3>2. asserted /\ ~aborted
      BY <1>1, <2>2
    <3>3. one + Cardinality(next.unusedParams) = Cardinality(context.unusedParams)
      BY <3>2
    <3>4. Reads(CurrentCode) + Cardinality(context.unusedParams) = Arity
      BY <1>2, <3>2 DEF BodyInv
    <3>5. one \in Nat
      OBVIOUS
    <3>6. Cardinality(next.unusedParams) \in Nat
      BY Arities, FS_Subset, FS_CardinalityType
    <3> HIDE DEF one
    <3> QED BY <1>10, <3>1, <3>3, <3>4, <3>5, <3>6
  <2>3. ~(Len(visits') = 1 /\ visits'[1].emitted = 0)
    BY <1>5, <1>7
  <2> QED BY <2>1, <2>2, <2>3 DEF BodyInv
<1>15. StackInv'
  <2>1. PICK base : Bases(base) /\ \A additional \in Nat : OnStack(base, additional)
    BY <1>2 DEF StackInv
  <2>2. /\ base \in [1 .. n -> Nat] /\ base[1] = 0
        /\ context.stackSize = base[n] + count /\ base[n] = base[p] + e
        /\ \A k \in 1 .. n - 1 : base[k + 1] = base[k] + visits[k].emitted
        /\ \A k, j \in 1 .. n : k < j => base[k] + visits[k].emitted <= base[j]
    <3>1. /\ base \in [1 .. n -> Nat] /\ base[1] = 0
          /\ context.stackSize = base[n] + visits[n].emitted
          /\ \A k \in 1 .. n - 1 : base[k + 1] = base[k] + visits[k].emitted
          /\ \A k, j \in 1 .. n : k < j => base[k] + visits[k].emitted <= base[j]
      BY <2>1 DEF Bases, n
    <3> QED BY <1>3, <1>6, <1>7, <3>1
  <2>3. PICK less \in [1 .. p -> Nat] : \A k \in 1 .. p : less[k] = base[k]
    <3> DEFINE f == [k \in 1 .. p |-> base[k]]
    <3>1. f \in [1 .. p -> Nat] /\ \A k \in 1 .. p : f[k] = base[k]
      BY <1>3, <2>2
    <3> HIDE DEF f
    <3> QED BY <3>1
  <2>4. Bases(less)'
    <3>1. less[1] = 0
      <4>1. 1 \in 1 .. p
        BY <1>3
      <4> QED BY <2>2, <2>3, <4>1
    <3>2. \A k \in 1 .. p - 1 : less[k + 1] = less[k] + visits'[k].emitted
      BY <1>5, <1>6, <2>2, <2>3
    <3>3. ASSUME NEW k \in 1 .. p, NEW j \in 1 .. p, k < j
          PROVE  less[k] + visits'[k].emitted <= less[j]
      <4>1. k \in 1 .. p - 1 /\ k \in 1 .. n /\ j \in 1 .. n
        BY <1>3, <3>3
      <4> QED BY <1>5, <2>2, <2>3, <3>3, <4>1
    <3>4. context'.stackSize = less[p] + visits'[p].emitted
      <4>1. less[p] = base[p] /\ base[p] \in Nat /\ base[n] \in Nat
        BY <1>3, <1>6, <2>2, <2>3
      <4>2. visits'[p].emitted = e + 1
        BY <1>5
      <4> QED BY <1>7, <1>10, <2>2, <4>1, <4>2
    <3>5. Len(visits') = p
      BY <1>5
    <3> QED BY <2>3, <3>1, <3>2, <3>3, <3>4, <3>5 DEF Bases
  <2>5. ASSUME NEW additional \in Nat
        PROVE  OnStack(less, additional)'
    <3> DEFINE m == Executed(CurrentCode, type, additional)
               r == Replace(m, count, v)
               lower == additional + Arity
               d == lower + base[n]
    <3>1. /\ IsState(m) /\ m.resultOffset = 0 /\ m.additional = additional
          /\ Len(m.stack) = lower + context.stackSize
          /\ \A i \in 1 .. lower : m.stack[i] = Entered(type, additional).stack[i]
          /\ \A k \in 1 .. n : \A i \in 1 .. visits[k].emitted :
               m.stack[lower + base[k] + i] = Operand(visits[k].value, i)
      <4>1. OnStack(base, additional)
        BY <2>1
      <4> QED BY <4>1 DEF OnStack, n
    <3>2. (Executed(CurrentCode, context.symbol.type, additional))' = r
      <4>1. Executed(CurrentCode \o <<inst>>, type, additional) = Effect(inst, m, type)
        BY <1>12, ExecuteNext
      <4>2. Effect(inst, m, type) = r
        OBVIOUS
      <4>3. (Executed(CurrentCode, context.symbol.type, additional))'
              = Executed(CurrentCode \o <<inst>>, type, additional)
        BY <1>10, <1>12
      <4> HIDE DEF m, r
      <4> QED BY <4>1, <4>2, <4>3
    <3>3. lower \in Nat /\ (additional + Arity)' = lower
      BY <1>10, Arities
    <3> HIDE DEF m, lower, count, v, e, u
    <3>4. /\ d \in Nat /\ base[n] \in Nat /\ Len(m.stack) = d + count /\ Len(m.stack) - count = d
          /\ count \in 0 .. Len(m.stack) /\ context'.stackSize = base[n] + 1
          /\ lower + context'.stackSize = d + 1
      <4>1. base[n] \in Nat
        BY <1>6, <2>2
      <4>2. Len(m.stack) = lower + (base[n] + count)
        BY <2>2, <3>1
      <4>3. context'.stackSize = (base[n] + count) - count + 1
        BY <1>10, <2>2 DEF count
      <4>4. count \in Nat
        BY <1>7 DEF count
      <4>5. d = lower + base[n] /\ lower \in Nat
        BY <3>3
      <4> HIDE DEF d, r
      <4>6. d \in Nat /\ Len(m.stack) = d + count
        BY ONLY <4>1, <4>2, <4>4, <4>5
      <4>7. Len(m.stack) - count = d /\ count \in 0 .. Len(m.stack)
        BY ONLY <4>4, <4>6
      <4>8. context'.stackSize = base[n] + 1 /\ lower + context'.stackSize = d + 1
        BY ONLY <4>1, <4>3, <4>4, <4>5
      <4> QED BY <4>1, <4>6, <4>7, <4>8
    <3>5. /\ IsState(r) /\ r.resultOffset = 0 /\ r.additional = additional
          /\ Len(r.stack) = d + 1 /\ r.stack[d + 1] = v
          /\ \A i \in 1 .. d : r.stack[i] = m.stack[i]
      <4> HIDE DEF d
      <4>1. v \in Slots
        BY <1>7 DEF v
      <4> QED BY <3>1, <3>4, <4>1, Replaced
    <3> HIDE DEF r, d
    <3>6. \A i \in 1 .. lower : r.stack[i] = Entered(type, additional).stack[i]
      <4>1. \A i \in 1 .. lower : i \in 1 .. d
        BY <3>3, <3>4 DEF d
      <4> QED BY <3>1, <3>5, <4>1
    <3>7. ASSUME NEW k \in 1 .. p, NEW i \in 1 .. visits'[k].emitted
          PROVE  r.stack[lower + less[k] + i] = Operand(visits'[k].value, i)
      <4>1. k \in 1 .. n /\ k < n /\ less[k] = base[k] /\ base[k] \in Nat /\ visits[k].emitted \in Nat
        <5>1. k \in 1 .. n /\ k < n
          BY <1>3
        <5> QED BY <1>4, <2>2, <2>3, <5>1
      <4>2. base[k] + visits[k].emitted <= base[n]
        BY <1>6, <2>2, <4>1
      <4>3. visits'[k].value = visits[k].value
        <5>1. visits'[p].value = visits[p].value
          BY <1>5 DEF u
        <5> QED BY <1>5, <1>6, <5>1
      <4>4. CASE i \in 1 .. visits[k].emitted
        <5>1. lower + base[k] + i \in 1 .. d
          <6>1. i \in Nat /\ 1 <= i /\ i <= visits[k].emitted
            BY <4>1, <4>4
          <6>2. \A a, b, c, x \in Nat : i <= x /\ b + x <= c => a + b + i \in 1 .. a + c
            BY <6>1
          <6>3. lower + base[k] + i \in 1 .. lower + base[n]
            BY <3>3, <3>4, <4>1, <4>2, <6>1, <6>2
          <6> QED BY <6>3 DEF d
        <5>2. m.stack[lower + base[k] + i] = Operand(visits[k].value, i)
          BY <3>1, <4>1, <4>4
        <5> QED BY <3>5, <4>1, <4>3, <5>1, <5>2
      <4>5. CASE i \notin 1 .. visits[k].emitted
        <5>1. k = p
          <6> SUFFICES ASSUME k # p PROVE FALSE
            OBVIOUS
          <6>1. visits'[k] = visits[k]
            BY <1>5, <1>6
          <6> QED BY <3>7, <4>5, <6>1
        <5>2. visits[k].emitted = e /\ visits[k].value = u /\ visits'[k].emitted = e + 1
          BY <1>5, <5>1 DEF e, u
        <5>3. i = e + 1
          BY <1>7, <4>5, <5>2
        <5>4. lower + base[p] + i = d + 1
          BY <1>7, <2>2, <3>3, <4>1, <5>1, <5>3 DEF d
        <5> QED BY <1>7, <3>5, <4>1, <4>3, <5>1, <5>2, <5>3, <5>4
      <4> QED BY <4>4, <4>5
    <3>8. context'.symbol.type = type /\ Len(visits') = p
      BY <1>5, <1>10
    <3>9. OnStack(less, additional)' <=>
            LET q == (Executed(CurrentCode, context.symbol.type, additional))'
                l == (additional + Arity)'
            IN /\ IsState(q) /\ q.resultOffset = 0 /\ q.additional = additional
               /\ Len(q.stack) = l + context'.stackSize
               /\ \A i \in 1 .. l : q.stack[i] = Entered(context'.symbol.type, additional).stack[i]
               /\ \A k \in 1 .. Len(visits') : \A i \in 1 .. visits'[k].emitted :
                    q.stack[l + less[k] + i] = Operand(visits'[k].value, i)
      BY DEF OnStack
    <3> QED BY <3>2, <3>3, <3>4, <3>5, <3>6, <3>7, <3>8, <3>9
  <2> QED BY <2>4, <2>5 DEF StackInv
<1>16. FinishedInv'
  <2> SUFFICES ASSUME NEW s \in DOMAIN source \ pending
               PROVE  /\ NameOf(s) \in DOMAIN output'.symbols
                      /\ \E part : IsCompiled(s, part)'
                                   /\ LiesAt(output'.code, output'.symbols[NameOf(s)], part)
    BY <1>1 DEF FinishedInv
  <2>1. NameOf(s) \in DOMAIN output'.symbols /\ output'.symbols[NameOf(s)] = output.symbols[NameOf(s)]
    BY <1>2, <1>9 DEF FinishedInv
  <2>2. <<inst>> \in Seq(Emittable)
    OBVIOUS
  <2> QED BY <1>1, <1>9, <2>1, <2>2, FinishedStays
<1> QED
  BY <1>1, <1>5, <1>8, <1>9, <1>13, <1>14, <1>15, <1>16 DEF CompileInv

----------------------------------------------------------------------------
\* The root of a function's graph.

\* Compilation ends with code that leaves the root's value.
LEMMA RootInductive ==
  ASSUME CompileInv, visits # <<>>, returnNode,
         NEW instructions \in Seq(Emittable), instructions # <<>>,
         \A i \in 1 .. Len(instructions) : instructions[i].op = "EXIT" <=> i = Len(instructions),
         NEW next, next.unusedParams = {}, Leave(instructions, next, TRUE),
         \A additional \in Nat : Leaves(context.symbol, CurrentCode \o instructions, additional)
  PROVE  CompileInv'
<1> DEFINE symbol == context.symbol
           start  == output.symbols[NameOf(symbol)]
           body   == CurrentCode
           part   == body \o instructions
           Record == [value : Values, emitted : Nat]
<1>1. /\ output' = [output EXCEPT !.code = output.code \o instructions]
      /\ visits' = <<>> /\ pending' = pending \ {symbol} /\ source' = source
  BY DEF Leave
<1>2. /\ ContextInv /\ BodyInv /\ FinishedInv
      /\ source \in Sources /\ pending \subseteq DOMAIN source
      /\ output = [code |-> output.code, symbols |-> output.symbols]
      /\ output.code \in Seq(Emittable)
  BY DEF CompileInv
<1>3. /\ output' = [code |-> output'.code, symbols |-> output'.symbols]
      /\ output'.code = output.code \o instructions /\ output'.symbols = output.symbols
      /\ output'.code \in Seq(Emittable)
      /\ Len(output'.code) = Len(output.code) + Len(instructions)
  <2>1. /\ output' = [code |-> output'.code, symbols |-> output'.symbols]
        /\ output'.code = output.code \o instructions /\ output'.symbols = output.symbols
    BY <1>1, <1>2
  <2> QED BY <1>2, <2>1, LaidBehind
<1>4. start \in 0 .. Len(output.code) /\ symbol \in pending /\ NameOf(symbol) \in DOMAIN output.symbols
  BY <1>2 DEF ContextInv
<1>5. /\ body = SubSeq(output.code, start + 1, Len(output.code))
      /\ body \in Seq(Emittable) /\ Len(body) \in Nat
      /\ part = SubSeq(output'.code, start + 1, Len(output'.code))
  <2>1. body = SubSeq(output.code, start + 1, Len(output.code))
    BY DEF CurrentCode
  <2> HIDE DEF start, body
  <2>2. body \in Seq(Emittable)
    BY <1>2, <1>4, <2>1, Behind
  <2>3. part = SubSeq(output'.code, start + 1, Len(output'.code))
    <3> DEFINE all == output.code
    <3>1. all \in Seq(Emittable) /\ start \in 0 .. Len(all)
      BY <1>2, <1>4
    <3>2. output'.code = all \o instructions /\ body = SubSeq(all, start + 1, Len(all))
      BY <1>3, <2>1
    <3> HIDE DEF all
    <3>3. SubSeq(all \o instructions, start + 1, Len(all \o instructions))
            = SubSeq(all, start + 1, Len(all)) \o instructions
      BY <3>1, BehindGrows
    <3> QED BY <3>2, <3>3
  <2>4. Len(body) \in Nat
    BY <2>2
  <2> QED BY <2>1, <2>2, <2>3, <2>4
<1> HIDE DEF body
<1>6. /\ part \in Seq(Emittable) /\ Len(part) = Len(body) + Len(instructions) /\ Len(part) \in Nat
      /\ \A i \in 1 .. Len(body) + Len(instructions) :
           part[i] = IF i <= Len(body) THEN body[i] ELSE instructions[i - Len(body)]
  BY <1>5, ConcatProperties
<1> HIDE DEF part
<1>7. LiesAt(output'.code, start, part)
  <2>1. start \in 0 .. Len(output'.code)
    BY <1>2, <1>3, <1>4
  <2> HIDE DEF start
  <2> QED BY <1>3, <1>5, <2>1, Behind
<1>8. part # <<>> /\ \A i \in 1 .. Len(part) : part[i].op = "EXIT" <=> i = Len(part)
  <2>1. Len(instructions) \in Nat /\ Len(instructions) > 0
    BY EmptySeq
  <2>2. part # <<>>
    <3>1. Len(part) > 0
      <4> DEFINE a == Len(body)
                 b == Len(instructions)
      <4>1. a \in Nat /\ b \in Nat /\ b > 0 /\ Len(part) = a + b
        BY <1>5, <1>6, <2>1
      <4> HIDE DEF a, b
      <4> QED BY <4>1
    <3>2. Len(<<>>) = 0
      OBVIOUS
    <3> QED BY <3>1, <3>2
  <2>3. ASSUME NEW i \in 1 .. Len(part)
        PROVE  part[i].op = "EXIT" <=> i = Len(part)
    <3>1. CASE i <= Len(body)
      <4>1. i \in 1 .. Len(body) /\ i # Len(part) /\ part[i] = body[i]
        BY <1>5, <1>6, <2>1, <3>1
      <4>2. body[i].op # "EXIT"
        BY <1>2, <4>1 DEF BodyInv, body
      <4> QED BY <4>1, <4>2
    <3>2. CASE ~(i <= Len(body))
      <4> DEFINE j == i - Len(body)
      <4>1. j \in 1 .. Len(instructions) /\ part[i] = instructions[j]
            /\ (j = Len(instructions) <=> i = Len(part))
        <5> DEFINE a == Len(body)
                   b == Len(instructions)
        <5>1. a \in Nat /\ b \in Nat /\ Len(part) = a + b /\ i \in 1 .. a + b /\ ~(i <= a)
          BY <1>5, <1>6, <2>1, <3>2
        <5>2. part[i] = instructions[i - a]
          BY <1>6, <5>1
        <5> HIDE DEF a, b
        <5>3. i - a \in 1 .. b /\ (i - a = b <=> i = Len(part))
          BY <5>1
        <5> QED BY <5>2, <5>3 DEF a, b
      <4> HIDE DEF j
      <4> QED BY <4>1
    <3> QED BY <3>1, <3>2
  <2> QED BY <2>2, <2>3
<1>9. IsCompiled(symbol, part)
  BY <1>6, <1>8 DEF IsCompiled, part, body
<1>10. FinishedInv'
  <2> SUFFICES ASSUME NEW s \in DOMAIN source \ (pending \ {symbol})
               PROVE  /\ NameOf(s) \in DOMAIN output'.symbols
                      /\ \E q : IsCompiled(s, q)'
                                /\ LiesAt(output'.code, output'.symbols[NameOf(s)], q)
    BY <1>1 DEF FinishedInv
  <2>1. CASE s = symbol
    <3>1. PICK q : q = part
      OBVIOUS
    <3>2. IsCompiled(symbol, q)
      BY <1>9, <3>1
    <3>3. PICK t : t = symbol
      OBVIOUS
    <3>4. IsCompiled(t, q)'
      <4>1. IsCompiled(t, q)
        BY <3>2, <3>3
      <4> QED BY <1>1, <4>1, CompiledStays
    <3>5. s = t
      BY <2>1, <3>3
    <3>6. LiesAt(output'.code, output'.symbols[NameOf(s)], q)
      BY <1>3, <1>7, <2>1, <3>1
    <3>7. NameOf(s) \in DOMAIN output'.symbols
      BY <1>3, <1>4, <2>1
    <3> QED BY <3>4, <3>5, <3>6, <3>7
  <2>2. CASE s # symbol
    <3>1. s \in DOMAIN source \ pending
      BY <2>2
    <3>2. NameOf(s) \in DOMAIN output'.symbols /\ output'.symbols[NameOf(s)] = output.symbols[NameOf(s)]
      BY <1>2, <1>3, <3>1 DEF FinishedInv
    <3> QED BY <1>1, <1>3, <3>1, <3>2, FinishedStays
  <2> QED BY <2>1, <2>2
<1>11. visits' \in Seq(Record)
  BY <1>1
<1> QED BY <1>1, <1>2, <1>3, <1>10, <1>11 DEF CompileInv

\* Three instructions act one after the other.
LEMMA ExecuteThree ==
  ASSUME NEW Insts, NEW code \in Seq(Insts), NEW a \in Insts, NEW b \in Insts, NEW c \in Insts,
         NEW type, NEW additional
  PROVE  /\ Executed(code \o <<a, b, c>>, type, additional)
              = Effect(c, Effect(b, Effect(a, Executed(code, type, additional), type), type), type)
         /\ Reads(code) \in Nat
         /\ {a.op, b.op, c.op} \cap {"COPY", "REF_VEC"} = {} => Reads(code \o <<a, b, c>>) = Reads(code)
<1> DEFINE A == code \o <<a>>
           B == A \o <<b>>
<1>1. A \in Seq(Insts) /\ B \in Seq(Insts)
  OBVIOUS
<1>2. code \o <<a, b, c>> = B \o <<c>>
  <2>1. code \o <<a, b, c>> = Append(Append(Append(code, a), b), c)
    OBVIOUS
  <2>2. Append(code, a) = A
    BY AppendIsConcat
  <2> HIDE DEF A
  <2>3. Append(A, b) = B
    BY <1>1, AppendIsConcat
  <2> HIDE DEF B
  <2>4. Append(B, c) = B \o <<c>>
    BY <1>1, AppendIsConcat
  <2> QED BY <2>1, <2>2, <2>3, <2>4
<1> HIDE DEF B
<1>3. Executed(B \o <<c>>, type, additional) = Effect(c, Executed(B, type, additional), type)
  BY <1>1, ExecuteNext
<1>4. /\ Reads(B) \in Nat
      /\ Reads(B \o <<c>>) = Reads(B) + (IF c.op \in {"COPY", "REF_VEC"} THEN 1 ELSE 0)
  BY <1>1, ReadsNext
<1> HIDE DEF A
<1>5. Executed(B, type, additional) = Effect(b, Executed(A, type, additional), type)
  BY <1>1, ExecuteNext DEF B
<1>6. /\ Reads(A) \in Nat
      /\ Reads(B) = Reads(A) + (IF b.op \in {"COPY", "REF_VEC"} THEN 1 ELSE 0)
  BY <1>1, ReadsNext DEF B
<1>7. Executed(A, type, additional) = Effect(a, Executed(code, type, additional), type)
  BY ExecuteNext DEF A
<1>8. /\ Reads(code) \in Nat
      /\ Reads(A) = Reads(code) + (IF a.op \in {"COPY", "REF_VEC"} THEN 1 ELSE 0)
  BY ReadsNext DEF A
<1>9. {a.op, b.op, c.op} \cap {"COPY", "REF_VEC"} = {} => Reads(B \o <<c>>) = Reads(code)
  <2> SUFFICES ASSUME {a.op, b.op, c.op} \cap {"COPY", "REF_VEC"} = {}
               PROVE  Reads(B \o <<c>>) = Reads(code)
    OBVIOUS
  <2>1. /\ a.op \notin {"COPY", "REF_VEC"} /\ b.op \notin {"COPY", "REF_VEC"}
        /\ c.op \notin {"COPY", "REF_VEC"}
    OBVIOUS
  <2> QED BY <1>4, <1>6, <1>8, <2>1
<1> QED BY <1>2, <1>3, <1>5, <1>7, <1>8, <1>9

\* So do four, on the stack a function is entered with.
LEMMA ExecuteFour ==
  ASSUME NEW Insts, NEW a \in Insts, NEW b \in Insts, NEW c \in Insts, NEW d \in Insts,
         NEW type, NEW additional
  PROVE  Executed(<<a, b, c, d>>, type, additional)
           = Effect(d, Effect(c, Effect(b, Effect(a, Entered(type, additional), type), type), type), type)
<1>1. PICK none \in Seq(Insts) : none = <<>>
  <2>1. <<>> \in Seq(Insts)
    OBVIOUS
  <2> QED BY <2>1, Zenon
<1>2. PICK one \in Seq(Insts) : one = <<a>> /\ one = none \o <<a>>
  <2>1. <<a>> \in Seq(Insts)
    OBVIOUS
  <2>2. none \o <<a>> = <<a>>
    BY <1>1, <2>1, ConcatEmptySeq
  <2> QED BY <2>1, <2>2, Zenon
<1>3. <<a, b, c, d>> = one \o <<b, c, d>>
  BY <1>2
<1>4. Executed(one \o <<b, c, d>>, type, additional)
        = Effect(d, Effect(c, Effect(b, Executed(one, type, additional), type), type), type)
  BY ExecuteThree
<1>5. Executed(none \o <<a>>, type, additional) = Effect(a, Executed(none, type, additional), type)
  BY ExecuteNext
<1>6. Executed(none, type, additional) = Entered(type, additional)
  BY <1>1, ExecuteNone
<1> QED BY <1>2, <1>3, <1>4, <1>5, <1>6

\* What the invariant says of the visited value; of a root that is a leaf, nothing precedes.
LEMMA VisitedFacts ==
  ASSUME CompileInv, visits # <<>>
  PROVE  /\ <<context.symbol.type, Visited>> \in GraphValues
         /\ returnNode => Visited = source[context.symbol]
         /\ IsLeaf(Visited) => AllEmitted /\ OperandCount(Visited) = 0
         /\ IsLeaf(Visited) /\ returnNode =>
              CurrentCode = <<>> /\ context.unusedParams = 0 .. Arity - 1
<1> DEFINE n == Len(visits)
           Record == [value : Values, emitted : Nat]
<1>1. VisitsInv /\ BodyInv /\ visits \in Seq(Record)
  BY DEF CompileInv
<1>2. n \in Nat /\ n \in 1 .. n /\ visits[n] \in Record
  <2> HIDE DEF Record
  <2> QED BY <1>1
<1>3. visits[n].emitted \in Nat
  BY <1>2
<1> HIDE DEF n
<1>4. /\ <<context.symbol.type, Visited>> \in GraphValues
      /\ visits[n].emitted <= OperandCount(Visited)
  BY <1>1, <1>2 DEF VisitsInv, Visited, n
<1>5. ASSUME returnNode PROVE n = 1 /\ Visited = source[context.symbol]
  BY <1>1, <1>5 DEF returnNode, Visited, VisitsInv, n
<1>6. ASSUME IsLeaf(Visited) PROVE AllEmitted /\ OperandCount(Visited) = 0 /\ visits[n].emitted = 0
  <2>1. OperandCount(Visited) = 0
    BY <1>4, <1>6, OperandCounts
  <2> QED BY <1>3, <1>4, <2>1 DEF AllEmitted, n
<1>7. ASSUME IsLeaf(Visited), returnNode
      PROVE  CurrentCode = <<>> /\ context.unusedParams = 0 .. Arity - 1
  BY <1>1, <1>5, <1>6, <1>7 DEF BodyInv, n
<1> QED BY <1>4, <1>5, <1>6, <1>7

\* A root that takes its operands, unread parameters and what it is to pop.
LEMMA CleanupOfOperation ==
  ASSUME CompileInv, visits # <<>>, returnNode, AllEmitted, ~aborted, ~IsLeaf(Visited),
         NEW inst \in Emittable, inst.op \notin {"COPY", "REF_VEC", "EXIT"},
         \A m : IsState(m) /\ Ready(m, Visited) =>
           Effect(inst, m, context.symbol.type)
             = Replace(m, OperandCount(Visited) + Cardinality(context.unusedParams) + m.resultOffset, Visited),
         NEW additional \in Nat
  PROVE  Leaves(context.symbol, CurrentCode \o <<[op |-> "RET"], inst, [op |-> "EXIT"]>>, additional)
<1> DEFINE type  == context.symbol.type
           v     == Visited
           ret   == [op |-> "RET"]
           exit  == [op |-> "EXIT"]
           part  == CurrentCode \o <<ret, inst, exit>>
           n     == Arity
           p     == Cardinality(context.unusedParams)
           count == OperandCount(v)
           m     == Executed(CurrentCode, type, additional)
           r     == Effect(ret, m, type)
           pops  == count + p + additional
           q     == Replace(r, pops, v)
           d     == n - p
<1>1. /\ <<type, v>> \in GraphValues
      /\ IsState(m) /\ m.additional = additional
      /\ Len(m.stack) = additional + n + context.stackSize
      /\ \A i \in 1 .. additional + n : m.stack[i] = Entered(type, additional).stack[i]
      /\ Ready(m, v) /\ count = context.stackSize
  BY StateFacts
<1>2. ret \in Emittable /\ exit \in Emittable /\ CurrentCode \in Seq(Emittable)
  <2>1. ret \in Emittable /\ exit \in Emittable
    BY DEF Emittable
  <2> DEFINE start == output.symbols[NameOf(context.symbol)]
             all == output.code
  <2>2. all \in Seq(Emittable) /\ start \in 0 .. Len(all)
    BY DEF CompileInv, ContextInv
  <2> HIDE DEF start, all
  <2>3. SubSeq(all, start + 1, Len(all)) \in Seq(Emittable)
    BY <2>2, Behind
  <2> QED BY <2>1, <2>3 DEF CurrentCode, start, all
<1>3. /\ Executed(part, type, additional) = Effect(exit, Effect(inst, r, type), type)
      /\ Reads(part) = Reads(CurrentCode) /\ Reads(CurrentCode) \in Nat
  <2>1. {ret.op, inst.op, exit.op} \cap {"COPY", "REF_VEC"} = {}
    OBVIOUS
  <2> HIDE DEF ret, exit
  <2> QED BY <1>2, <2>1, ExecuteThree
<1>4. n \in Nat /\ p \in Nat /\ count \in Nat /\ Reads(CurrentCode) = d /\ d \in Nat
  <2>1. n \in Nat /\ p \in Nat /\ Reads(CurrentCode) + p = n
    BY Arities DEF CompileInv, BodyInv
  <2>2. count \in Nat
    BY <1>1, OperandCounts
  <2> QED BY <1>3, <2>1, <2>2
<1>5. /\ IsState(r) /\ r.stack = m.stack /\ r.resultOffset = additional
  BY <1>1, ReturnEffect
<1> HIDE DEF ret, m, r
<1>6. Effect(inst, r, type) = q
  <2>1. Ready(r, v)
    BY <1>1, <1>5 DEF Ready
  <2> QED BY <1>5, <2>1
<1>7. /\ Executed(part, type, additional) = q
  BY <1>3, <1>6, ExitEffect
<1> HIDE DEF q, part, exit, n, p, count, v
<1>8. Len(r.stack) - pops = d /\ pops \in 0 .. Len(r.stack) /\ d <= additional + n
  BY <1>1, <1>4, <1>5
<1>9. v \in Slots
  BY <1>1, GraphValueFacts DEF Slots
<1>10. /\ IsState(q) /\ Len(q.stack) = d + 1 /\ q.stack[d + 1] = v
       /\ \A i \in 1 .. d : q.stack[i] = m.stack[i]
  <2> DEFINE under == Len(r.stack) - pops
  <2>1. pops \in 0 .. Len(r.stack) /\ IsState(r) /\ v \in Slots /\ q = Replace(r, pops, v)
    BY <1>5, <1>8, <1>9 DEF q
  <2> HIDE DEF pops
  <2>2. /\ IsState(q) /\ Len(q.stack) = under + 1 /\ q.stack[under + 1] = v
        /\ \A i \in 1 .. under : q.stack[i] = r.stack[i]
    BY <2>1, Replaced
  <2>3. under = d /\ r.stack = m.stack
    BY <1>5, <1>8
  <2> HIDE DEF under
  <2> QED BY <2>2, <2>3
<1>11. \A i \in 1 .. d : q.stack[i] = Entered(type, additional).stack[i]
  <2>1. \A i \in 1 .. d : i \in 1 .. additional + n
    BY <1>4, <1>8
  <2> QED BY <1>1, <1>10, <2>1
<1>12. v = source[context.symbol]
  BY VisitedFacts DEF v
<1>13. Kept(context.symbol, part, additional) = d
  BY <1>3, <1>4, <1>12 DEF Kept, v
<1> HIDE DEF d
<1> QED BY <1>4, <1>7, <1>10, <1>11, <1>12, <1>13 DEF Leaves, IsState, part, ret, exit

\* A root that is a leaf drops all parameters, and what it is to pop.
LEMMA CleanupOfLeaf ==
  ASSUME CompileInv, visits # <<>>, returnNode, IsLeaf(Visited),
         NEW inst \in Emittable, NEW dropOp \in {"DROP_S", "DROP_V"},
         NEW additional \in Nat,
         \A m : IsState(m) /\ m.stack = Executed(CurrentCode, context.symbol.type, additional).stack =>
           Effect(inst, m, context.symbol.type) = Replace(m, 0, Visited)
  PROVE  Leaves(context.symbol, CurrentCode \o Cleanup(inst, TRUE, dropOp), additional)
<1> DEFINE type  == context.symbol.type
           v     == Visited
           ret   == [op |-> "RET"]
           exit  == [op |-> "EXIT"]
           n     == Arity
           drop  == [op |-> dropOp, operand |-> n]
           m     == Entered(type, additional)
<1>1. /\ <<type, v>> \in GraphValues /\ CurrentCode = <<>> /\ context.unusedParams = 0 .. n - 1
      /\ v = source[context.symbol]
  BY VisitedFacts
<1>2. n \in Nat /\ Len(type.params) = n
  BY Arities DEF Arity
<1>3. popCount = n
  <2>1. Cardinality(0 .. n - 1) = n
    <3> HIDE DEF n
    <3> QED BY <1>2, CardinalityBelow
  <2> QED BY <1>1, <2>1 DEF popCount
<1>4. Executed(CurrentCode, type, additional) = m
  BY <1>1, ExecuteNone
<1>5. /\ IsState(m) /\ m.resultOffset = 0 /\ m.additional = additional
      /\ Len(m.stack) = additional + n
  BY <1>2, EnteredState
<1>6. ret \in Emittable /\ exit \in Emittable /\ drop \in Emittable
  <2>1. drop \in [op : {"COPY", "REF_VEC", "DROP_S", "DROP_V", "CALL"}, operand : Nat]
    <3> HIDE DEF n
    <3> QED BY <1>2
  <2> QED BY <2>1 DEF Emittable
<1>7. v \in Slots /\ Len(m.stack) \in Nat
  BY <1>1, <1>5, GraphValueFacts DEF Slots, IsState
<1> HIDE DEF m, n, v
<1>8. \A s : IsState(s) /\ s.stack = m.stack => Effect(inst, s, type) = Replace(s, 0, v)
  BY <1>4 DEF v
<1>9. CASE n # 0
  <2> DEFINE part == <<inst, ret, drop, exit>>
             a == Effect(inst, m, type)
             b == Effect(ret, a, type)
             q == Effect(drop, b, type)
  <2>1. Cleanup(inst, TRUE, dropOp) = part
    BY <1>3, <1>9 DEF Cleanup
  <2>2. CurrentCode \o part = part
    <3>1. part \in Seq(Emittable)
      <4> HIDE DEF ret, drop, exit
      <4> QED BY <1>6
    <3> HIDE DEF part
    <3> QED BY <1>1, <3>1, ConcatEmptySeq
  <2>3. Executed(part, type, additional) = q
    <3>1. Executed(part, type, additional) = Effect(exit, q, type)
      <4> HIDE DEF ret, drop, exit
      <4> QED BY <1>6, ExecuteFour DEF m
    <3> QED BY <3>1, ExitEffect
  <2>4. a = Replace(m, 0, v)
    BY <1>5, <1>8
  <2>5. /\ IsState(a) /\ a.additional = additional
        /\ Len(a.stack) = additional + n + 1 /\ a.stack[additional + n + 1] = v
    <3>1. 0 \in 0 .. Len(m.stack) /\ Len(m.stack) - 0 = additional + n
      BY <1>5, <1>7
    <3> HIDE DEF a
    <3> QED BY <1>5, <1>7, <2>4, <3>1, Replaced
  <2> HIDE DEF a
  <2>6. IsState(b) /\ b.stack = a.stack /\ b.resultOffset = additional
    BY <2>5, ReturnEffect
  <2> HIDE DEF b
  <2>7. q = Replace(b, 1 + (n + additional), v)
    <3>1. Len(b.stack) = additional + n + 1 /\ Len(b.stack) > 0 /\ b.stack[Len(b.stack)] = v
      BY <1>2, <2>5, <2>6
    <3>2. Effect(drop, b, type) = Replace(b, 1 + (n + b.resultOffset), b.stack[Len(b.stack)])
      BY <1>2, <2>6, <3>1, DropEffect
    <3> QED BY <2>6, <3>1, <3>2
  <2> HIDE DEF q
  <2>8. IsState(q) /\ Len(q.stack) = 1 /\ q.stack[1] = v
    <3> DEFINE k == 1 + (n + additional)
    <3>1. k \in 0 .. Len(b.stack) /\ Len(b.stack) - k = 0 /\ 0 + 1 = 1
      BY <1>2, <2>5, <2>6
    <3> HIDE DEF k
    <3>2. q = Replace(b, k, v)
      BY <2>7 DEF k
    <3> DEFINE under == Len(b.stack) - k
    <3>3. IsState(q) /\ Len(q.stack) = under + 1 /\ q.stack[under + 1] = v
      BY <1>7, <2>6, <3>1, <3>2, Replaced
    <3>4. under = 0
      BY <3>1
    <3> HIDE DEF under
    <3> QED BY <3>3, <3>4
  <2>9. Kept(context.symbol, part, additional) = 0
    BY <1>1, <1>2, <1>9 DEF Kept, v
  <2>10. Leaves(context.symbol, part, additional)
    <3> HIDE DEF part
    <3>1. 1 .. 0 = {} /\ 0 + 1 = 1 /\ 0 \in Nat
      OBVIOUS
    <3> QED BY <1>1, <2>3, <2>8, <2>9, <3>1 DEF Leaves, IsState
  <2> QED BY <2>1, <2>2, <2>10
<1>10. CASE n = 0
  <2> DEFINE part == <<ret, inst, exit>>
             b == Effect(ret, m, type)
             q == Effect(inst, b, type)
  <2>1. Cleanup(inst, TRUE, dropOp) = part
    BY <1>3, <1>10 DEF Cleanup
  <2>2. CurrentCode \in Seq(Emittable)
    BY <1>1
  <2>3. Executed(CurrentCode \o part, type, additional) = q
    <3>1. Executed(CurrentCode \o part, type, additional) = Effect(exit, q, type)
      <4> HIDE DEF ret, exit
      <4> QED BY <1>4, <1>6, <2>2, ExecuteThree
    <3> QED BY <3>1, ExitEffect
  <2>4. IsState(b) /\ b.stack = m.stack
    BY <1>5, ReturnEffect
  <2> HIDE DEF b
  <2>5. q = Replace(b, 0, v)
    BY <1>8, <2>4
  <2> HIDE DEF q
  <2>6. /\ IsState(q) /\ Len(q.stack) = additional + 1 /\ q.stack[additional + 1] = v
        /\ \A i \in 1 .. additional : q.stack[i] = m.stack[i]
    <3>1. 0 \in 0 .. Len(b.stack) /\ Len(b.stack) - 0 = additional
      BY <1>5, <1>10, <2>4
    <3> QED BY <1>7, <2>4, <2>5, <3>1, Replaced
  <2>7. Kept(context.symbol, CurrentCode \o part, additional) = additional
    BY <1>1, <1>2, <1>10 DEF Kept, v
  <2>8. Leaves(context.symbol, CurrentCode \o part, additional)
    <3> HIDE DEF part
    <3> QED BY <1>1, <2>3, <2>6, <2>7 DEF Leaves, IsState, m
  <2> QED BY <2>1, <2>8
<1> QED BY <1>9, <1>10

\* The end of a function is well-formed code with its only EXIT.
LEMMA CleanupInstructions ==
  ASSUME CompileInv, visits # <<>>, NEW inst \in Emittable, inst.op # "EXIT",
         NEW explicitPop \in BOOLEAN, NEW dropOp \in {"DROP_S", "DROP_V"}
  PROVE  LET instructions == Cleanup(inst, explicitPop, dropOp) IN
         /\ instructions \in Seq(Emittable) /\ instructions # <<>>
         /\ \A i \in 1 .. Len(instructions) : instructions[i].op = "EXIT" <=> i = Len(instructions)
<1> DEFINE ret  == [op |-> "RET"]
           exit == [op |-> "EXIT"]
           drop == [op |-> dropOp, operand |-> popCount]
           instructions == Cleanup(inst, explicitPop, dropOp)
<1>1. popCount \in Nat
  BY Arities DEF popCount
<1>2. ret \in Emittable /\ exit \in Emittable /\ drop \in Emittable
  <2>1. drop \in [op : {"COPY", "REF_VEC", "DROP_S", "DROP_V", "CALL"}, operand : Nat]
    BY <1>1
  <2> QED BY <2>1 DEF Emittable
<1>3. ret.op # "EXIT" /\ exit.op = "EXIT" /\ drop.op # "EXIT"
  OBVIOUS
<1>4. instructions = <<inst, ret, drop, exit>> \/ instructions = <<ret, inst, exit>>
  BY DEF Cleanup
<1> HIDE DEF ret, exit, drop, instructions
<1>5. CASE instructions = <<inst, ret, drop, exit>>
  <2>1. instructions \in Seq(Emittable) /\ Len(instructions) = 4 /\ instructions # <<>>
    BY <1>2, <1>5
  <2>2. instructions[1] = inst /\ instructions[2] = ret /\ instructions[3] = drop /\ instructions[4] = exit
    BY <1>5
  <2>3. \A i \in 1 .. 4 : i = 1 \/ i = 2 \/ i = 3 \/ i = 4
    OBVIOUS
  <2> QED BY <1>3, <2>1, <2>2, <2>3 DEF instructions
<1>6. CASE instructions = <<ret, inst, exit>>
  <2>1. instructions \in Seq(Emittable) /\ Len(instructions) = 3 /\ instructions # <<>>
    BY <1>2, <1>6
  <2>2. instructions[1] = ret /\ instructions[2] = inst /\ instructions[3] = exit
    BY <1>6
  <2>3. \A i \in 1 .. 3 : i = 1 \/ i = 2 \/ i = 3
    OBVIOUS
  <2> QED BY <1>3, <2>1, <2>2, <2>3 DEF instructions
<1> QED BY <1>4, <1>5, <1>6

----------------------------------------------------------------------------
\* The steps that emit.

\* The end of a leaf's visit, given that its instruction pushes it.
LEMMA LeafInductive ==
  ASSUME CompileInv, visits # <<>>, ~aborted, IsLeaf(Visited),
         NEW inst \in Emittable, inst.op # "EXIT", NEW dropOp \in {"DROP_S", "DROP_V"},
         NEW next, NEW asserted \in BOOLEAN, Leave(emit(inst, TRUE, dropOp), next, asserted),
         next = [ symbol       |-> context.symbol,
                  stackSize    |-> context.stackSize + 1,
                  unusedParams |-> next.unusedParams ],
         returnNode => asserted /\ next.unusedParams = {},
         ~returnNode =>
           /\ next.unusedParams \subseteq context.unusedParams
           /\ asserted =>
                (IF inst.op \in {"COPY", "REF_VEC"} THEN 1 ELSE 0) + Cardinality(next.unusedParams)
                  = Cardinality(context.unusedParams),
         \A additional \in Nat : \A m :
           IsState(m) /\ m.stack = Executed(CurrentCode, context.symbol.type, additional).stack =>
             Effect(inst, m, context.symbol.type) = Replace(m, 0, Visited)
  PROVE  CompileInv'
<1>1. AllEmitted /\ OperandCount(Visited) = 0
  BY VisitedFacts
<1>2. CASE returnNode
  <2> DEFINE instructions == Cleanup(inst, TRUE, dropOp)
  <2>1. /\ instructions \in Seq(Emittable) /\ instructions # <<>>
        /\ \A i \in 1 .. Len(instructions) : instructions[i].op = "EXIT" <=> i = Len(instructions)
    BY CleanupInstructions
  <2>2. emit(inst, TRUE, dropOp) = instructions
    BY <1>2 DEF emit
  <2>3. \A additional \in Nat : Leaves(context.symbol, CurrentCode \o instructions, additional)
    <3> TAKE additional \in Nat
    <3> QED BY <1>2, CleanupOfLeaf
  <2>4. asserted = TRUE /\ next.unusedParams = {}
    BY <1>2
  <2>5. Leave(instructions, next, TRUE)
    BY <2>2, <2>4
  <2> HIDE DEF instructions
  <2> QED BY <1>2, <2>1, <2>3, <2>4, <2>5, RootInductive
<1>3. CASE ~returnNode
  <2>1. Leave(<<inst>>, next, asserted)
    BY <1>3 DEF emit
  <2>2. context.stackSize + 1 = context.stackSize - OperandCount(Visited) + 1
    <3>1. context.stackSize \in Nat
      BY DEF CompileInv, ContextInv
    <3> QED BY <1>1, <3>1
  <2>3. \A additional \in Nat :
          LET type == context.symbol.type
              m    == Executed(CurrentCode, type, additional)
          IN Effect(inst, m, type) = Replace(m, OperandCount(Visited), Visited)
    <3> TAKE additional \in Nat
    <3> DEFINE m == Executed(CurrentCode, context.symbol.type, additional)
    <3>1. IsState(m)
      BY <1>1, StateFacts
    <3> QED BY <1>1, <3>1
  <2> QED BY <1>1, <1>3, <2>1, <2>2, <2>3, BelowRootInductive
<1> QED BY <1>2, <1>3

\* The end of another value's, given that its instruction puts it in the place of its operands.
LEMMA OperationInductive ==
  ASSUME CompileInv, visits # <<>>, ~aborted, ~IsLeaf(Visited), AllEmitted,
         NEW inst \in Emittable, inst.op \notin {"COPY", "REF_VEC", "EXIT"},
         NEW next, Leave(emit(inst, FALSE, "DROP_S"), next, TRUE),
         next = [ symbol       |-> context.symbol,
                  stackSize    |-> context.stackSize - OperandCount(Visited) + 1,
                  unusedParams |-> IF returnNode THEN {} ELSE context.unusedParams ],
         \A m : IsState(m) /\ Ready(m, Visited) =>
           Effect(inst, m, context.symbol.type)
             = Replace(m, OperandCount(Visited) + popCount + m.resultOffset, Visited)
  PROVE  CompileInv'
<1>1. next.unusedParams = IF returnNode THEN {} ELSE context.unusedParams
  OBVIOUS
<1>2. CASE returnNode
  <2> DEFINE instructions == Cleanup(inst, FALSE, "DROP_S")
  <2>1. /\ instructions \in Seq(Emittable) /\ instructions # <<>>
        /\ \A i \in 1 .. Len(instructions) : instructions[i].op = "EXIT" <=> i = Len(instructions)
    BY CleanupInstructions
  <2>2. emit(inst, FALSE, "DROP_S") = instructions
    BY <1>2 DEF emit
  <2>3. instructions = <<[op |-> "RET"], inst, [op |-> "EXIT"]>>
    BY DEF Cleanup
  <2>4. popCount = Cardinality(context.unusedParams)
    BY <1>2 DEF popCount
  <2>5. \A additional \in Nat : Leaves(context.symbol, CurrentCode \o instructions, additional)
    <3> TAKE additional \in Nat
    <3>1. Leaves(context.symbol, CurrentCode \o <<[op |-> "RET"], inst, [op |-> "EXIT"]>>, additional)
      BY <1>2, <2>4, CleanupOfOperation
    <3> HIDE DEF instructions
    <3> QED BY <2>3, <3>1
  <2>6. Leave(instructions, next, TRUE)
    BY <2>2
  <2> HIDE DEF instructions
  <2> QED BY <1>1, <1>2, <2>1, <2>5, <2>6, RootInductive
<1>3. CASE ~returnNode
  <2>1. Leave(<<inst>>, next, TRUE)
    BY <1>3 DEF emit
  <2>2. \A additional \in Nat :
          LET type == context.symbol.type
              m    == Executed(CurrentCode, type, additional)
          IN Effect(inst, m, type) = Replace(m, OperandCount(Visited), Visited)
    <3> TAKE additional \in Nat
    <3> DEFINE m == Executed(CurrentCode, context.symbol.type, additional)
               count == OperandCount(Visited)
    <3>1. IsState(m) /\ Ready(m, Visited) /\ m.resultOffset = 0
          /\ <<context.symbol.type, Visited>> \in GraphValues
      BY StateFacts
    <3>2. count \in Nat /\ popCount = 0
      BY <1>3, <3>1, OperandCounts DEF popCount
    <3> HIDE DEF m, count
    <3>3. count + popCount + m.resultOffset = count
      BY <3>1, <3>2
    <3> QED BY <3>1, <3>3 DEF m, count
  <2>3. (IF inst.op \in {"COPY", "REF_VEC"} THEN 1 ELSE 0) + Cardinality(next.unusedParams)
          = Cardinality(context.unusedParams)
    <3>1. Cardinality(context.unusedParams) \in Nat
      BY Arities
    <3> QED BY <1>1, <1>3, <3>1
  <2>4. /\ next.unusedParams = context.unusedParams
        /\ next = [ symbol       |-> context.symbol,
                    stackSize    |-> context.stackSize - OperandCount(Visited) + 1,
                    unusedParams |-> next.unusedParams ]
    BY <1>3
  <2> QED BY <1>3, <2>1, <2>2, <2>3, <2>4, BelowRootInductive
<1> QED BY <1>2, <1>3

\* The contexts that the visitors leave.
LEMMA EmittedContext ==
  ASSUME CompileInv, visits # <<>>
  PROVE  LET unused == IF returnNode THEN {} ELSE context.unusedParams IN
         /\ pushValue(Emitted) = [ symbol       |-> context.symbol,
                                   stackSize    |-> context.stackSize + 1,
                                   unusedParams |-> unused ]
         /\ \A index : pushValue(markUsed(Emitted, index))
                         = [ symbol       |-> context.symbol,
                             stackSize    |-> context.stackSize + 1,
                             unusedParams |-> unused \ {index} ]
         /\ \A count : popOperands(Emitted, count)
                         = [ symbol       |-> context.symbol,
                             stackSize    |-> context.stackSize - (count - 1),
                             unusedParams |-> unused ]
         /\ context.stackSize \in Nat /\ popCount \in Nat
<1> DEFINE unused == IF returnNode THEN {} ELSE context.unusedParams
<1>1. /\ context = [ symbol |-> context.symbol, stackSize |-> context.stackSize,
                     unusedParams |-> context.unusedParams ]
      /\ context.stackSize \in Nat
  BY DEF CompileInv, ContextInv
<1>2. Emitted = [symbol |-> context.symbol, stackSize |-> context.stackSize, unusedParams |-> unused]
  <2>1. CASE returnNode
    BY <1>1, <2>1 DEF Emitted
  <2>2. CASE ~returnNode
    BY <1>1, <2>2 DEF Emitted
  <2> QED BY <2>1, <2>2
<1>3. popCount \in Nat
  BY Arities DEF popCount
<1> HIDE DEF unused
<1>4. pushValue(Emitted) = [ symbol |-> context.symbol, stackSize |-> context.stackSize + 1,
                             unusedParams |-> unused ]
  BY <1>2 DEF pushValue
<1>5. ASSUME NEW index
      PROVE  pushValue(markUsed(Emitted, index))
               = [ symbol |-> context.symbol, stackSize |-> context.stackSize + 1,
                   unusedParams |-> unused \ {index} ]
  <2>1. markUsed(Emitted, index) = [ symbol |-> context.symbol, stackSize |-> context.stackSize,
                                     unusedParams |-> unused \ {index} ]
    <3> DEFINE rest == unused \ {index}
    <3>1. Emitted.unusedParams \ {index} = rest
      BY <1>2
    <3> HIDE DEF rest
    <3>2. markUsed(Emitted, index) = [Emitted EXCEPT !.unusedParams = rest]
      BY <3>1 DEF markUsed
    <3> QED BY <1>2, <3>2 DEF rest
  <2> QED BY <2>1 DEF pushValue
<1>6. ASSUME NEW count
      PROVE  popOperands(Emitted, count)
               = [ symbol |-> context.symbol, stackSize |-> context.stackSize - (count - 1),
                   unusedParams |-> unused ]
  BY <1>2 DEF popOperands
<1> QED BY <1>1, <1>3, <1>4, <1>5, <1>6 DEF unused

\* One lemma for each visitor.
LEMMA FPValueInductive ==
  ASSUME CompileInv, visits # <<>>, ~aborted, acceptFPValue
  PROVE  CompileInv'
<1> DEFINE inst == [op |-> "PUSH", operand |-> Visited.value]
           type == context.symbol.type
           next == pushValue(Emitted)
           unused == IF returnNode THEN {} ELSE context.unusedParams
<1>1. <<type, Visited>> \in GraphValues /\ Visited.kind = "fp" /\ IsLeaf(Visited)
      /\ Leave(emit(inst, TRUE, "DROP_S"), next, TRUE)
  BY VisitedFacts DEF acceptFPValue, IsLeaf
<1>2. inst \in Emittable /\ inst.op = "PUSH"
  BY <1>1, GraphValueFacts DEF Emittable
<1>3. /\ next = [ symbol |-> context.symbol, stackSize |-> context.stackSize + 1,
                  unusedParams |-> unused ]
      /\ next.unusedParams = unused
  BY EmittedContext
<1>4. ASSUME ~returnNode PROVE 0 + Cardinality(next.unusedParams) = Cardinality(context.unusedParams)
  BY <1>3, <1>4, Arities
<1>5. \A m : Effect(inst, m, type) = Replace(m, 0, Visited)
  BY <1>1, FPEffect
<1> HIDE DEF inst, next
<1> QED BY <1>1, <1>2, <1>3, <1>4, <1>5, LeafInductive

LEMMA FunctionRefInductive ==
  ASSUME NamesApart, CompileInv, visits # <<>>, ~aborted, acceptFunctionRef
  PROVE  CompileInv'
<1> DEFINE inst == [op |-> "PUSH_SYM", symbol |-> NameOf(SymbolOf(Visited))]
           type == context.symbol.type
           next == pushValue(Emitted)
           unused == IF returnNode THEN {} ELSE context.unusedParams
<1>1. <<type, Visited>> \in GraphValues /\ Visited.kind = "ref" /\ IsLeaf(Visited)
      /\ Leave(emit(inst, TRUE, "DROP_S"), next, TRUE)
  BY VisitedFacts DEF acceptFunctionRef, IsLeaf
<1>2. inst \in Emittable /\ inst.op = "PUSH_SYM"
  BY <1>1, GraphValueFacts DEF Emittable
<1>3. /\ next = [ symbol |-> context.symbol, stackSize |-> context.stackSize + 1,
                  unusedParams |-> unused ]
      /\ next.unusedParams = unused
  BY EmittedContext
<1>4. ASSUME ~returnNode PROVE 0 + Cardinality(next.unusedParams) = Cardinality(context.unusedParams)
  BY <1>3, <1>4, Arities
<1>5. \A m : Effect(inst, m, type) = Replace(m, 0, Visited)
  BY <1>1, RefEffect
<1> HIDE DEF inst, next
<1> QED BY <1>1, <1>2, <1>3, <1>4, <1>5, LeafInductive

\* The slot an offset from the top leads to is the parameter's.
LEMMA ParamIsRead ==
  ASSUME CompileInv, visits # <<>>, Visited.kind = "param", NEW op \in {"COPY", "REF_VEC"},
         NEW additional \in Nat, NEW m, IsState(m),
         m.stack = Executed(CurrentCode, context.symbol.type, additional).stack
  PROVE  Effect([op |-> op, operand |-> paramOffset(Visited.index)], m, context.symbol.type)
           = Replace(m, 0, Visited)
<1> DEFINE type   == context.symbol.type
           n      == Arity
           offset == paramOffset(Visited.index)
           index  == Visited.index
           lower  == additional + n
           slot   == additional + (n - index)
<1>1. /\ <<type, Visited>> \in GraphValues /\ AllEmitted
  BY VisitedFacts DEF IsLeaf
<1>2. /\ Visited = [kind |-> "param", index |-> Visited.index]
      /\ index \in 0 .. n - 1
  BY <1>1, GraphValueFacts DEF WellFormed, Arity
<1>3. /\ Len(m.stack) = lower + context.stackSize
      /\ \A i \in 1 .. lower : m.stack[i] = Entered(type, additional).stack[i]
  BY <1>1, StateFacts
<1>4. n \in Nat /\ n = Len(type.params) /\ context.stackSize \in Nat
  BY Arities, EmittedContext DEF Arity
<1>5. Entered(type, additional).stack[slot] = Visited
  <2>1. \A i \in 1 .. lower : i > additional =>
          Entered(type, additional).stack[i] = [kind |-> "param", index |-> lower - i]
    BY <1>4, EnteredState
  <2> HIDE DEF n, index
  <2>2. slot \in 1 .. lower /\ slot > additional /\ lower - slot = index
    <3>1. n \in Nat /\ index \in 0 .. n - 1
      BY <1>2, <1>4
    <3> QED BY ONLY <3>1, additional \in Nat
  <2> HIDE DEF slot, lower
  <2> QED BY <1>2, <2>1, <2>2 DEF index
<1>6. /\ slot \in 1 .. lower /\ offset \in 1 .. Len(m.stack)
      /\ Len(m.stack) + 1 - offset = slot
  <2>1. offset = context.stackSize + index + 1
    BY DEF paramOffset
  <2>2. n \in Nat /\ index \in 0 .. n - 1 /\ context.stackSize \in Nat
        /\ Len(m.stack) = additional + n + context.stackSize
    BY <1>2, <1>3, <1>4
  <2> DEFINE size  == context.stackSize
             whole == Len(m.stack)
  <2> HIDE DEF n, index, offset, size, whole
  <2>3. /\ n \in Nat /\ index \in 0 .. n - 1 /\ size \in Nat /\ whole = additional + n + size
        /\ offset = size + index + 1
    BY <2>1, <2>2 DEF size, whole
  <2>4. slot \in 1 .. lower /\ offset \in 1 .. whole /\ whole + 1 - offset = slot
    BY ONLY <2>3, additional \in Nat
  <2> QED BY <2>4 DEF whole
<1>7. m.stack[Len(m.stack) + 1 - offset] = Visited
  <2> HIDE DEF offset, slot, lower
  <2> QED BY <1>3, <1>5, <1>6
<1> HIDE DEF offset, slot
<1>8. Effect([op |-> op, operand |-> offset], m, type)
        = Replace(m, 0, m.stack[Len(m.stack) + 1 - offset])
  BY <1>6, ParamEffect
<1> QED BY <1>7, <1>8 DEF offset

LEMMA ParamRefInductive ==
  ASSUME CompileInv, visits # <<>>, ~aborted, acceptParamRef
  PROVE  CompileInv'
<1> DEFINE index  == Visited.index
           offset == paramOffset(index)
           type   == context.symbol.type
           next   == pushValue(markUsed(Emitted, index))
           unused == (IF returnNode THEN {} ELSE context.unusedParams) \ {index}
           asserted == CanMark(index)
           inst(op) == [op |-> op, operand |-> offset]
<1>1. <<type, Visited>> \in GraphValues /\ Visited.kind = "param" /\ IsLeaf(Visited)
  BY VisitedFacts DEF acceptParamRef, IsLeaf
<1>2. index \in Nat
  <2>1. index \in 0 .. Arity - 1
    BY <1>1, GraphValueFacts DEF WellFormed, Arity
  <2> HIDE DEF index
  <2> QED BY <2>1, Arities
<1>3. offset \in Nat /\ context.stackSize \in Nat
  BY <1>2, EmittedContext DEF paramOffset
<1>4. PICK op \in {"COPY", "REF_VEC"}, dropOp \in {"DROP_S", "DROP_V"} :
        Leave(emit(inst(op), TRUE, dropOp), next, asserted)
  <2>1. CASE TypeIn(Visited, type).kind = "vector"
    BY <2>1 DEF acceptParamRef
  <2>2. CASE TypeIn(Visited, type).kind # "vector"
    BY <2>2 DEF acceptParamRef
  <2> QED BY <2>1, <2>2
<1>5. inst(op) \in Emittable /\ inst(op).op \in {"COPY", "REF_VEC"}
  <2> HIDE DEF offset
  <2>1. inst(op) \in [op : {"COPY", "REF_VEC", "DROP_S", "DROP_V", "CALL"}, operand : Nat]
    BY <1>3
  <2> QED BY <2>1 DEF Emittable
<1>6. /\ next = [ symbol |-> context.symbol, stackSize |-> context.stackSize + 1,
                  unusedParams |-> unused ]
      /\ next.unusedParams = unused
  <2>1. \A i : pushValue(markUsed(Emitted, i))
                = [ symbol |-> context.symbol, stackSize |-> context.stackSize + 1,
                    unusedParams |-> (IF returnNode THEN {} ELSE context.unusedParams) \ {i} ]
    BY EmittedContext
  <2>2. next = [ symbol |-> context.symbol, stackSize |-> context.stackSize + 1,
                 unusedParams |-> unused ]
    BY <2>1
  <2> HIDE DEF next, unused
  <2> QED BY <2>2
<1>7. asserted \in BOOLEAN /\ (returnNode => asserted)
  BY DEF CanMark
<1>8. ASSUME ~returnNode
      PROVE  /\ unused \subseteq context.unusedParams
             /\ asserted => 1 + Cardinality(unused) = Cardinality(context.unusedParams)
  <2>1. unused = context.unusedParams \ {index}
    BY <1>8
  <2>2. asserted => index \in context.unusedParams
    BY <1>8 DEF CanMark
  <2>3. IsFiniteSet(context.unusedParams) /\ Cardinality(context.unusedParams) \in Nat
    BY Arities
  <2>4. ASSUME index \in context.unusedParams
        PROVE  Cardinality(context.unusedParams \ {index}) = Cardinality(context.unusedParams) - 1
    BY <2>3, <2>4, FS_RemoveElement
  <2> HIDE DEF unused, asserted
  <2> QED BY <2>1, <2>2, <2>3, <2>4
<1>9. \A additional \in Nat : \A m :
        IsState(m) /\ m.stack = Executed(CurrentCode, type, additional).stack =>
          Effect(inst(op), m, type) = Replace(m, 0, Visited)
  BY <1>1, ParamIsRead
<1>10. returnNode => unused = {}
  OBVIOUS
<1> DEFINE read == inst(op)
<1>11. /\ read \in Emittable /\ read.op \in {"COPY", "REF_VEC"}
       /\ Leave(emit(read, TRUE, dropOp), next, asserted)
       /\ \A additional \in Nat : \A m :
            IsState(m) /\ m.stack = Executed(CurrentCode, type, additional).stack =>
              Effect(read, m, type) = Replace(m, 0, Visited)
  BY <1>4, <1>5, <1>9
<1> HIDE DEF read, next, unused, asserted
<1> QED BY <1>1, <1>6, <1>7, <1>8, <1>10, <1>11, LeafInductive

LEMMA BinaryOpInductive ==
  ASSUME CompileInv, visits # <<>>, ~aborted, acceptBinaryOp,
         TypeIn(Visited, context.symbol.type).kind # "null"
  PROVE  CompileInv'
<1> DEFINE inst == [op |-> Visited.flavour, operation |-> Visited.operation, operand |-> popCount]
           type == context.symbol.type
           next == popOperands(Emitted, 2)
<1>1. /\ <<type, Visited>> \in GraphValues /\ Visited.kind = "op"
      /\ ~IsLeaf(Visited) /\ OperandCount(Visited) = 2 /\ AllEmitted
      /\ Leave(emit(inst, FALSE, "DROP_S"), next, TRUE)
  BY VisitedFacts DEF acceptBinaryOp, IsLeaf, OperandCount, AllEmitted
<1>2. Visited.flavour \in Flavours /\ Visited \in Values
  BY <1>1, GraphValueFacts DEF WellFormed
<1>3. inst \in Emittable /\ inst.op \notin {"COPY", "REF_VEC", "EXIT"}
  <2>1. popCount \in Nat
    BY EmittedContext
  <2>2. inst \in [op : Flavours, operation : {v.operation : v \in Values}, operand : Nat]
    BY <1>2, <2>1
  <2>3. inst.op \in Flavours
    BY <1>2
  <2> QED BY <2>2, <2>3 DEF Emittable, Flavours, VectorFlavours
<1>4. next = [ symbol |-> context.symbol, stackSize |-> context.stackSize - OperandCount(Visited) + 1,
               unusedParams |-> IF returnNode THEN {} ELSE context.unusedParams ]
  <2>1. context.stackSize - (2 - 1) = context.stackSize - OperandCount(Visited) + 1
    BY <1>1, EmittedContext
  <2> QED BY <2>1, EmittedContext
<1>5. \A m : IsState(m) /\ Ready(m, Visited) =>
        Effect(inst, m, type) = Replace(m, OperandCount(Visited) + popCount + m.resultOffset, Visited)
  BY <1>1, EmittedContext, OpEffect
<1> HIDE DEF inst, next
<1> QED BY <1>1, <1>3, <1>4, <1>5, OperationInductive

LEMMA CallInductive ==
  ASSUME CompileInv, visits # <<>>, ~aborted, acceptCall
  PROVE  CompileInv'
<1> DEFINE inst == [op |-> "CALL", operand |-> popCount]
           type == context.symbol.type
           count == Len(Visited.params) + 1
           next == popOperands(Emitted, count)
<1>1. /\ <<type, Visited>> \in GraphValues /\ Visited.kind = "call"
      /\ ~IsLeaf(Visited) /\ OperandCount(Visited) = count /\ AllEmitted
      /\ Leave(emit(inst, FALSE, "DROP_S"), next, TRUE)
  BY VisitedFacts DEF acceptCall, IsLeaf, OperandCount, AllEmitted
<1>2. inst \in Emittable /\ inst.op = "CALL"
  <2>1. popCount \in Nat
    BY EmittedContext
  <2>2. inst \in [op : {"COPY", "REF_VEC", "DROP_S", "DROP_V", "CALL"}, operand : Nat]
    BY <2>1
  <2> QED BY <2>2 DEF Emittable
<1>3. next = [ symbol |-> context.symbol, stackSize |-> context.stackSize - OperandCount(Visited) + 1,
               unusedParams |-> IF returnNode THEN {} ELSE context.unusedParams ]
  <2>1. count \in Nat
    BY <1>1, OperandCounts
  <2>2. next = [ symbol |-> context.symbol, stackSize |-> context.stackSize - (count - 1),
                 unusedParams |-> IF returnNode THEN {} ELSE context.unusedParams ]
    BY EmittedContext
  <2> HIDE DEF count, next
  <2>3. context.stackSize - (count - 1) = context.stackSize - OperandCount(Visited) + 1
    BY <1>1, <2>1, EmittedContext
  <2> QED BY <2>2, <2>3
<1>4. \A m : IsState(m) /\ Ready(m, Visited) =>
        Effect(inst, m, type) = Replace(m, OperandCount(Visited) + popCount + m.resultOffset, Visited)
  BY <1>1, EmittedContext, CallEffect
<1> HIDE DEF inst, next
<1> QED BY <1>1, <1>2, <1>3, <1>4, OperationInductive

----------------------------------------------------------------------------
\* The invariant holds in every state.

\* A step that changes nothing, or ends the compiler where it stands.
LEMMA StandsStill ==
  ASSUME CompileInv, UNCHANGED <<source, pending, output, context, visits>>,
         aborted' \in {aborted, TRUE}
  PROVE  CompileInv'
<1>1. /\ source' = source /\ pending' = pending /\ output' = output
      /\ context' = context /\ visits' = visits
  OBVIOUS
<1>2. FinishedInv'
  <2>1. \A symbol, part : IsCompiled(symbol, part)' = IsCompiled(symbol, part)
    BY <1>1, CompiledStays
  <2> QED BY <1>1, <2>1 DEF CompileInv, FinishedInv
<1>3. CurrentCode' = CurrentCode /\ Arity' = Arity
  BY <1>1 DEF CurrentCode, Arity
<1>4. ContextInv' = ContextInv /\ VisitsInv' = VisitsInv
  BY <1>1, <1>3 DEF ContextInv, VisitsInv
<1>5. BodyInv => BodyInv'
  BY <1>1, <1>3 DEF BodyInv
<1>6. StackInv' = StackInv
  BY <1>1, <1>3 DEF StackInv, Bases, OnStack
<1> QED BY <1>1, <1>2, <1>4, <1>5, <1>6 DEF CompileInv

\* Every step keeps the invariant.
LEMMA CompileInvStays ==
  ASSUME NamesApart, CompileInv, [CompileNext]_compileVars
  PROVE  CompileInv'
<1>1. CASE UNCHANGED compileVars
  BY <1>1, StandsStill DEF compileVars
<1>2. ASSUME ~aborted, acceptValue
      PROVE  CompileInv'
  <2>1. visits # <<>>
    BY <1>2 DEF acceptValue
  <2>2. CASE EmitOperand
    BY <2>1, <2>2, EmitOperandInductive
  <2>3. CASE acceptFPValue
    BY <1>2, <2>1, <2>3, FPValueInductive
  <2>4. CASE acceptFunctionRef
    BY <1>2, <2>1, <2>4, FunctionRefInductive
  <2>5. CASE acceptParamRef
    BY <1>2, <2>1, <2>5, ParamRefInductive
  <2>6. CASE acceptBinaryOp
    <3>1. CASE TypeIn(Visited, context.symbol.type).kind # "null"
      BY <1>2, <2>1, <2>6, <3>1, BinaryOpInductive
    <3>2. CASE TypeIn(Visited, context.symbol.type).kind = "null"
      BY <2>6, <3>2, StandsStill DEF acceptBinaryOp
    <3> QED BY <3>1, <3>2
  <2>7. CASE acceptCall
    BY <1>2, <2>1, <2>7, CallInductive
  <2> QED BY <1>2, <2>2, <2>3, <2>4, <2>5, <2>6, <2>7 DEF acceptValue
<1>3. ASSUME ~aborted, NEW symbol \in pending, BeginFunction(symbol)
      PROVE  CompileInv'
  BY <1>3, BeginFunctionInductive
<1> QED BY <1>1, <1>2, <1>3 DEF CompileNext

(* Whatever packages are compiled, and in whatever order their functions   *)
(* are, the compiler's state is that of a stack machine that has run the   *)
(* code it has emitted so far: below lie the slots of the caller and the   *)
(* parameters, then the operands that each visit has emitted; and each     *)
(* parameter is read once or still counts as unused (Codegen.cpp:26-218).  *)
THEOREM AlwaysCompileInv ==
  ASSUME NamesApart
  PROVE  CompileSpec => []CompileInv
<1>1. CompileInit => CompileInv
  BY InitCompileInv
<1>2. CompileInv /\ [CompileNext]_compileVars => CompileInv'
  BY CompileInvStays
<1> QED BY <1>1, <1>2, PTL DEF CompileSpec

\* What CodeOf cuts out of the code does what the invariant says.
LEMMA FinishedLeaves ==
  ASSUME CompileInv, NEW symbol \in DOMAIN source \ pending, NEW additional \in Additional
  PROVE  /\ Leaves(symbol, CodeOf(NameOf(symbol)), additional)
         /\ Len(symbol.type.params) \in Nat
<1>1. PICK part : IsCompiled(symbol, part)
                    /\ LiesAt(output.code, output.symbols[NameOf(symbol)], part)
  BY DEF CompileInv, FinishedInv
<1>2. CodeOf(NameOf(symbol)) = part
  BY <1>1, LaidOutIsFound DEF CompileInv, IsCompiled
<1>3. additional \in Nat
  BY GraphsAssumption
<1>4. <<symbol.type, source[symbol]>> \in GraphValues
  BY RootIsGraphValue DEF CompileInv
<1> QED BY <1>1, <1>2, <1>3, <1>4, GraphValueFacts DEF IsCompiled

(* For all packages of well-formed graphs whose functions' mangled names   *)
(* differ, a function's name leads to code that leaves the value of its    *)
(* graph on top of the stack, however many slots it has to pop             *)
(* (Codegen.cpp:66-124 and 196-218).                                       *)
THEOREM AlwaysFunctionsFound ==
  ASSUME NamesApart
  PROVE  CompileSpec => []FunctionsFound
<1>1. CompileInv => FunctionsFound
  <2> SUFFICES ASSUME CompileInv, NEW symbol \in DOMAIN source \ pending, NEW additional \in Additional
               PROVE  LET stack == Result(symbol, additional).stack IN
                      stack # <<>> /\ stack[Len(stack)] = source[symbol]
    BY DEF FunctionsFound
  <2> DEFINE stack == Result(symbol, additional).stack
             kept  == Kept(symbol, CodeOf(NameOf(symbol)), additional)
  <2>1. stack \in Seq(Slots) /\ kept \in Nat /\ Len(stack) = kept + 1 /\ stack[kept + 1] = source[symbol]
    BY FinishedLeaves DEF Leaves, Result
  <2> HIDE DEF stack, kept
  <2>2. Len(stack) # 0 /\ stack[Len(stack)] = source[symbol]
    BY <2>1
  <2>3. stack # <<>>
    <3>1. Len(<<>>) = 0
      OBVIOUS
    <3> QED BY <2>2, <3>1
  <2> QED BY <2>2, <2>3 DEF stack
<1> QED BY <1>1, AlwaysCompileInv, PTL

(* Under the same assumptions, that value takes the place of the unread    *)
(* parameters and of the slots to pop, no more and no less                 *)
(* (Codegen.cpp:43-45 and 128-159).                                        *)
THEOREM AlwaysPopsUnreadParams ==
  ASSUME NamesApart
  PROVE  CompileSpec => []PopsUnreadParams
<1>1. CompileInv => PopsUnreadParams
  <2> SUFFICES ASSUME CompileInv, NEW symbol \in DOMAIN source \ pending, NEW additional \in Additional
               PROVE  LET m    == Result(symbol, additional)
                          kept == Kept(symbol, CodeOf(NameOf(symbol)), additional)
                      IN /\ ~m.underflow
                         /\ Len(m.stack) = kept + 1
                         /\ \A i \in 1 .. kept :
                              m.stack[i] = Entered(symbol.type, additional).stack[i]
    BY DEF PopsUnreadParams, Kept
  <2> QED BY FinishedLeaves DEF Leaves, Result
<1> QED BY <1>1, AlwaysCompileInv, PTL

(* Under the same assumptions, stackSize is at every step the number of    *)
(* values above the parameters as the next instruction runs, which the     *)
(* offsets of parameters are reckoned from (Codegen.cpp:37-41, 167-185).   *)
THEOREM AlwaysStackSizeCounts ==
  ASSUME NamesApart
  PROVE  CompileSpec => []StackSizeCounts
<1>1. CompileInv => StackSizeCounts
  <2> SUFFICES ASSUME CompileInv, visits # <<>>
               PROVE  context.stackSize + Len(context.symbol.type.params)
                        = Len(Executed(CurrentCode, context.symbol.type, 0).stack)
    BY DEF StackSizeCounts
  <2> DEFINE m == Executed(CurrentCode, context.symbol.type, 0)
  <2>1. Len(m.stack) = 0 + Arity + context.stackSize
    BY DEF CompileInv, StackInv, OnStack
  <2>2. Arity \in Nat /\ context.stackSize \in Nat
    BY Arities, EmittedContext
  <2> HIDE DEF m
  <2>3. context.stackSize + Arity = Len(m.stack)
    BY <2>1, <2>2
  <2> QED BY <2>3 DEF m, Arity
<1> QED BY <1>1, AlwaysCompileInv, PTL
=============================================================================
