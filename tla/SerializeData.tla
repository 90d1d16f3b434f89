---------------------------- MODULE SerializeData ----------------------------
(***************************************************************************)
(* Data values as text (src/lib/runtime/SerializeData.cpp): the samples of *)
(* a vector of floating-point numbers, the only type that is read.         *)
(***************************************************************************)
EXTENDS ParseUtil, StringifyUtil

Data(values) == [values |-> values]

data ==
  reading(Data(<<>>),
    then(<< match("{"), optionalWhitespace, collect("values", delimited(real, whitespace)),
            optionalWhitespace, match("}"), emit >>))

readData(text) == read(text, <<>>, data)

DataText(value) ==
  <<"{">> \o Joined([i \in DOMAIN value.values |-> NumberText(value.values[i])], <<" ">>) \o <<"}">>
=============================================================================
