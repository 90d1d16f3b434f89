------------------------------- MODULE MCTexts -------------------------------
(***************************************************************************)
(* Texts for Texts.                                                        *)
(*                                                                         *)
(* Written: the texts of types of three levels, of data, of packages of up *)
(* to three lines, of graphs of two levels in packages of up to two        *)
(* functions, and of trees of three levels, among them names that are      *)
(* keywords.                                                               *)
(*                                                                         *)
(* Damaged: some of these with one token left out, or written twice, or a  *)
(* space before it.                                                        *)
(*                                                                         *)
(* Sources: modules of one and two declarations as a programmer would      *)
(* write them, on one line and on several, beside the module meant; and    *)
(* modules with operators whose names the language has not.                *)
(***************************************************************************)
EXTENDS Texts

x == <<"x">>
y == <<"y">>
f == <<"f">>
one == <<"1">>
half == <<"0", ".", "5">>
million == <<"1", "000000">>
above == <<"2", ".", "000000", "5">>

As(format, texts) == {[format |-> format, text |-> text] : text \in texts}

Omitted(text)  == {RemoveAt(text, k) : k \in DOMAIN text}
Doubled(text) == {InsertAt(text, k, text[k]) : k \in DOMAIN text}
Spaced(text)   == {InsertAt(text, k, " ") : k \in DOMAIN text}

Damaged(texts) == UNION {Omitted(text) \cup Doubled(text) \cup Spaced(text) : text \in texts}

Upto(n, S) == UNION {[1 .. k -> S] : k \in 1 .. n}

----------------------------------------------------------------------------
Types1 == {TypeFormat!F32, TypeFormat!AnyType, TypeFormat!VectorType(TypeFormat!F32)}
Types2 ==
  Types1 \cup {TypeFormat!FunctionType(r, ps) : r \in Types1, ps \in {<<>>} \cup Upto(2, Types1)}
Types3 ==
  Types2 \cup {TypeFormat!VectorType(t) : t \in Types2}
    \cup {TypeFormat!FunctionType(r, <<t>>) : r \in Types1, t \in Types2}

TypeTexts == {TypeFormat!TypeText(t) : t \in Types3}

TypeInputs ==
  As("type", TypeTexts \cup Damaged({TypeFormat!TypeText(t) : t \in Types2}))

----------------------------------------------------------------------------
DataTexts == {DataFormat!DataText(DataFormat!Data(values)) : values \in Upto(3, {one, <<"1", "2">>, half})}

DataInputs ==
  As("data", DataTexts \cup Damaged(DataTexts)
               \cup {<<"{">> \o n \o <<" ">> \o one \o <<"}">> :
                      n \in {million, above, <<"0", "1">>, <<"1", ".", "0">>, <<"1", ".">>}})

----------------------------------------------------------------------------
Line(name, operand) == name \o operand \o <<"\n">>

Lines ==
  { Line(<<"push", "_sym">>, <<" ", "f">>), Line(<<"push">>, <<" ", "f32", " ", "1", ".", "5">>),
    Line(<<"copy">>, <<" ", "1">>), Line(<<"fill">>, <<>>), Line(<<"add_ss">>, <<" ", "2">>),
    Line(<<"call">>, <<" ", "1", "2">>), Line(<<"ret">>, <<>>), Line(<<"exit">>, <<>>),
    Line(<<".">>, x), Line(<<".">>, <<"y", "-", "x">>), Line(<<>>, <<>>) }

OtherLines ==
  { Line(<<name>>, <<" ", "1">>) : name \in {"ref_vec", "drop_s", "drop_v", "add_vv", "add_sv",
      "add_vs", "mul_vv", "mul_sv", "mul_vs", "mul_ss"} } \cup {Line(<<"push">>, <<" ", "f32", " ">> \o million)}

Programs == {FlattenSeq(lines) : lines \in Upto(3, Lines)}

InstructionInputs ==
  As("instruction", Programs \cup OtherLines
                      \cup Damaged({FlattenSeq(lines) : lines \in Upto(2, Lines \ {<<"\n">>})}))

----------------------------------------------------------------------------
Values1 == {GraphFormat!FPValue(<<"1", ".", "5">>), GraphFormat!ParamRef(one), GraphFormat!FunctionRef(f, TypeFormat!FunctionType(TypeFormat!F32, <<TypeFormat!F32>>))}

Values2 ==
  Values1 \cup {GraphFormat!BinaryOp(v, o, l, r) : v \in {"VV", "VS", "SV", "SS"}, o \in {"ADD", "MUL"}, l, r \in Values1}
    \cup {GraphFormat!CallFunc(v, ps) : v \in Values1, ps \in {<<>>} \cup Upto(2, Values1)}

Key(name, type) == GraphFormat!TypedSymbol(type, name)

Singles == {[k \in {Key(f, TypeFormat!FunctionType(TypeFormat!F32, <<>>))} |-> v] : v \in Values2}

Pairs ==
  { [k \in {Key(f, TypeFormat!F32), Key(n, t)} |-> IF k = Key(f, TypeFormat!F32) THEN v ELSE w] :
    n \in {f, x}, t \in {TypeFormat!AnyType, TypeFormat!VectorType(TypeFormat!F32)}, v, w \in Values1 }

GraphTexts == UNION {GraphFormat!acceptPackage(p) : p \in Singles \cup Pairs}

Twice == << "(", "f", " ", "F32", " ", "(", "fp", " ", "1", ")", ")", "\n",
            "(", "f", " ", "F32", " ", "(", "fp", " ", "2", ")", ")" >>

GraphInputs ==
  LET AText(p) == CHOOSE text \in GraphFormat!acceptPackage(p) : TRUE IN
  As("graph", GraphTexts \cup {Twice}
    \cup Damaged({AText(p) : p \in {q \in Pairs : \A k, l \in DOMAIN q : q[k] = q[l]}})
    \cup Damaged({AText(p) : p \in {q \in Singles : \A k \in DOMAIN q :
                     q[k].kind = "call" /\ q[k].function.kind = "ref"}}))

----------------------------------------------------------------------------
Names == {x, <<"let">>, <<"operators">>, <<"\\">>}

Trees1 == {TreeFormat!Identifier(n) : n \in Names} \cup {TreeFormat!Scalar(one), TreeFormat!Scalar(<<"1", ".", "5">>)}

\* One level above those in S.
Above(S) ==
  {TreeFormat!Apply(a, bs) : a \in S, bs \in Upto(2, {TreeFormat!Identifier(y), TreeFormat!Scalar(one)})}
    \cup {TreeFormat!Function(ps, a) : ps \in Upto(2, {x, y}), a \in S}
    \cup {TreeFormat!LexicalScope(<<TreeFormat!Declaration(n, a)>>, b) : n \in Names, a, b \in S}
    \cup {TreeFormat!OperatorSequence(a, ts) :
             a \in S, ts \in Upto(2, { TreeFormat!Term(<<"+">>, TreeFormat!Identifier(x)),
                                        TreeFormat!Term(<<"\\">>, TreeFormat!Scalar(one)) })}

Trees2 == Above(Trees1)

Trees3 ==
  {TreeFormat!Apply(a, <<b>>) : a \in Trees2, b \in {TreeFormat!Identifier(y)}}
    \cup {TreeFormat!Apply(TreeFormat!Identifier(f), <<b>>) : b \in Trees2}
    \cup {TreeFormat!Function(<<x>>, b) : b \in Trees2}

\* Applications of names that begin something else.
Alike ==
  LET Named(n, params) == TreeFormat!Apply(TreeFormat!Identifier(n), params)
      Inner == Named(<<"+">>, <<TreeFormat!Identifier(y)>>)
  IN { Named(f, <<Named(n, <<TreeFormat!Identifier(x), Inner, e>>)>>) :
         n \in Names, e \in {TreeFormat!Identifier(y), Inner} }
       \cup {Named(f, <<TreeFormat!Apply(Named(<<"let">>, <<TreeFormat!Identifier(x), TreeFormat!Scalar(one)>>),
                                        <<TreeFormat!Identifier(x), TreeFormat!Identifier(y)>>)>>)}

Modules ==
  {TreeFormat!Module(<<TreeFormat!Declaration(x, e)>>) : e \in Trees1 \cup Trees2 \cup Trees3 \cup Alike}
    \cup {TreeFormat!Module(<<TreeFormat!Declaration(<<"let">>, e), TreeFormat!Declaration(x, TreeFormat!Scalar(million))>>) : e \in Trees1}

TreeTexts == {TreeFormat!acceptModule(m) : m \in Modules}

ToDamage ==
  LET S == Above({TreeFormat!Identifier(x)}) IN
  S \cup {TreeFormat!Apply(TreeFormat!Identifier(f), <<e>>) : e \in S}

TreeInputs ==
  As("tree", TreeTexts \cup
    Damaged({TreeFormat!acceptModule(TreeFormat!Module(<<TreeFormat!Declaration(x, e)>>)) : e \in ToDamage}))

----------------------------------------------------------------------------
\* Expressions as they are written in a source, in parentheses where they
\* are parts of another.
RECURSIVE Infix(_)

Part(e) ==
  IF e.kind \in {"scalar", "identifier"} THEN TreeFormat!ExpressionText(e) ELSE <<"(">> \o Infix(e) \o <<")">>

Operand(e) == IF e.kind = "apply" THEN Infix(e) ELSE Part(e)

Infix(e) ==
  CASE e.kind = "apply" -> TreeFormat!Joined(<<Part(e.function)>> \o [i \in DOMAIN e.params |-> Part(e.params[i])], <<" ">>)
    [] e.kind = "operators" ->
         Operand(e.lhs) \o FlattenSeq([i \in DOMAIN e.terms |->
                              <<" ">> \o e.terms[i].symbol \o <<" ">> \o Operand(e.terms[i].operand)])
    [] OTHER -> Part(e)

Atoms == {TreeFormat!Identifier(x), TreeFormat!Identifier(y), TreeFormat!Scalar(<<"1", ".", "5">>)}

Operators == {<<"+">>, <<"*">>, <<"-", ".">>}

Exprs2 ==
  {TreeFormat!Apply(a, bs) : a \in Atoms, bs \in Upto(2, Atoms)}
    \cup {TreeFormat!OperatorSequence(a, ts) : a \in Atoms, ts \in Upto(2, {TreeFormat!Term(o, b) : o \in Operators, b \in Atoms})}

Simple == {TreeFormat!Apply(TreeFormat!Identifier(f), <<TreeFormat!Identifier(x)>>), TreeFormat!OperatorSequence(TreeFormat!Identifier(x), <<TreeFormat!Term(<<"+">>, TreeFormat!Scalar(one))>>)}

Exprs3 ==
  {TreeFormat!Apply(a, <<b, c>>) : a, b \in Simple, c \in Simple \cup Atoms}
    \cup {TreeFormat!OperatorSequence(a, <<TreeFormat!Term(<<"*">>, b)>>) : a, b \in Simple}

Function(name, params, value) == TreeFormat!Declaration(name, TreeFormat!Function(params, value))

DeclarationText(d, breaks) ==
  d.name \o <<" ">> \o FlattenSeq([i \in DOMAIN d.value.params |-> d.value.params[i] \o <<" ">>])
    \o <<"=">> \o breaks \o Infix(d.value.value) \o breaks \o <<";">>

Written(declarations, breaks) ==
  [ format |-> "source",
    text   |-> TreeFormat!Joined([i \in DOMAIN declarations |-> DeclarationText(declarations[i], breaks)], <<"\n">>) \o <<"\n">>,
    meant  |-> TreeFormat!Module(declarations) ]

\* No operator's name has one of these.
Refused == {"\\", "|", "[", "}"}

SourceInputs ==
  {Written(<<Function(f, ps, e)>>, breaks) :
     ps \in {<<>>, <<x>>, <<x, y>>}, e \in Atoms \cup Exprs2 \cup Exprs3, breaks \in {<<" ">>, <<"\n">>}}
  \cup {Written(<<Function(f, <<x>>, e), Function(<<"y">>, <<>>, d)>>, <<" ">>) : e, d \in Atoms \cup Simple}
  \cup { [Written(<<Function(f, <<x>>, TreeFormat!OperatorSequence(a, <<TreeFormat!Term(name, b)>>))>>, <<" ">>)
            EXCEPT !.meant = Unset] :
          name \in {<<c>> : c \in Refused} \cup {<<"+", c>> : c \in Refused}, a, b \in Atoms }
  \cup As("source", Damaged({Written(<<Function(f, <<x>>, e)>>, <<" ">>).text : e \in Simple}))

----------------------------------------------------------------------------
MCInputs ==
  UNION {TypeInputs, DataInputs, InstructionInputs, GraphInputs, TreeInputs, SourceInputs}

\* An instruction without its operand, on the first of three lines.
MCMisplaced == As("instruction", {<<"copy", "\n", "ret", "\n", "exit">>})
=============================================================================
