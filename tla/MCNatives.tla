----------------------------- MODULE MCNatives -----------------------------
(* One top level and one function, of a few statements each, in families   *)
(* that each put one kind of question to the analysis of native slots.     *)
EXTENDS Natives, SequencesExt

MCSymbols == {"g", "h", "l", "m", "p"}
MCGlobals == {"g", "h"}
MCNames == {"g", "h", "m", "p"}
MCNameOf == [s \in MCSymbols |-> IF s = "l" THEN "g" ELSE s]

(* Programs that keep all agreements but the first. *)
OthersAgree ==
  status = "running" => IndexesAgree /\ ArgumentsAgree /\ MeaningsAgree

(* An expression over others, whose nodes come first. *)
E(kind, arg, operands) ==
  LET start(i) == FoldLeft(LAMBDA n, e : n + Len(e), 0, SubSeq(operands, 1, i - 1))
      placed(i) ==
        [n \in 1..Len(operands[i]) |->
           [operands[i][n] EXCEPT !.kids = [k \in 1..Len(@) |-> @[k] + start(i)]]]
      nodes == FoldLeft(LAMBDA all, i : all \o placed(i), <<>>, [i \in 1..Len(operands) |-> i])
  IN Append(nodes, [kind |-> kind, arg |-> arg, gives |-> "int",
                    kids |-> [i \in 1..Len(operands) |-> start(i + 1)]])

None == E("none", "", <<>>)
Num == E("number", "", <<>>)
Flt == E("float", "", <<>>)
Txt == E("string", "", <<>>)
Read(s) == E("read", s, <<>>)
Op(class, a, b) == E("binary", class, <<a, b>>)
Choice(a, b) == E("ternary", "", <<Num, a, b>>)
Minus(a) == E("minus", "", <<a>>)
List(elements) == E("array", "", elements)
Calling(type, tag) == [E("call", type, <<>>) EXCEPT ![1].gives = tag]

Leaves == {Num, Flt, Txt}
Declared(s, type, e) == Statement("declare", s, type, e)
Assigned(s, e) == Statement("assign", s, "auto", e)
Used(e) == Statement("use", "", "auto", e)
Each(value, type, index, index_type, e) ==
  [Statement("foreach", value, type, e) EXCEPT !.index = index, !.index_type = index_type]

Program(top, body) ==
  [top |-> top, body |-> body, first |-> "top", params |-> <<>>, param_types |-> <<>>,
   args |-> <<>>, constants |-> {}]

(* Expressions over two. *)
Over(a, b) ==
  {Op(class, a, b) : class \in {"arith", "div", "pow", "bits", "compare", "concat"}}
  \cup {Choice(a, b), Minus(a), E("not", "", <<a>>), E("length", "", <<a>>),
        E("logic", "", <<a, b>>), E("cast", "float", <<a>>), E("index", "int", <<List(<<a>>)>>)}

Flat == Leaves \cup UNION {Over(a, b) : a, b \in Leaves}
          \cup {E("print", "", <<>>), Calling("int", "int"), Calling("int", "string")}

(* A local, declared with a type and a value, and given another.           *)
Types3 == {"auto", "int", "F64"}

Local ==
  {Program(<<>>, <<Declared("m", type, first), Assigned("m", then), Used(Read("m"))>>) :
     type \in Types3, first \in Leaves, then \in Flat}

(* A local declared twice, with or without agreement. *)
Redeclared ==
  {Program(<<>>, <<Declared("m", type, first), Declared("m", other, second), Used(Read("m"))>>) :
     type \in Types3, other \in Types3, first \in Leaves, second \in Leaves}

(* What a local holds goes into another, which is declared first.          *)
Chain ==
  {Program(<<>>, <<Declared("m", type, Num), Assigned("m", Read("l")),
                   Declared("l", other, first), Assigned("l", then)>>) :
     type \in Types3, other \in Types3, first \in Leaves, then \in Leaves \cup {Read("m")}}

(* Deeper expressions over a native variable.                              *)
Deep ==
  {Program(<<>>, <<Declared("m", type, first), Used(e)>>) :
     type \in {"int", "F64"}, first \in {Num, Flt},
     e \in UNION {Over(a, Read("m")) \cup Over(Read("m"), a) :
                    a \in {Minus(Read("m")), Choice(Num, Flt), Op("compare", Flt, Read("m")),
                           Op("arith", Num, Read("m")), Txt}}}

(* A local that means a global until it is declared, in a function that    *)
(* stands before or after the global; and a global used by a function.     *)
Shadow ==
  {[Program(<<Declared("g", type, first)>>,
            <<Assigned("l", then), Used(e), Declared("l", other, second)>>)
      EXCEPT !.first = order] :
     order \in {"top", "body"}, type \in Types3, other \in Types3, first \in Leaves,
     second \in Leaves, then \in Leaves, e \in {Read("l"), Op("arith", Read("l"), Flt)}}

Shared ==
  {[Program(<<Declared("g", type, first), Assigned("h", e)>>,
            <<Assigned("g", then), Used(Op("arith", Read("g"), Read("h")))>>)
      EXCEPT !.first = order, !.constants = constants] :
     order \in {"top", "body"}, type \in Types3, first \in Leaves, then \in Leaves,
     e \in {Read("g"), Minus(Read("g"))}, constants \in {{}, {"g"}}}

(* The variables of a loop, which may have no type. *)
Types4 == {"unknown"} \cup Types3

Loops ==
  {Program(<<>>, <<Each("m", type, index, index_type, array), Assigned("m", then), Used(Read("m"))>>) :
     type \in Types4, index \in {NoSymbol, "l"}, index_type \in Types4,
     array \in {List(<<Num>>), List(<<Num, Txt>>), List(<<Num, Flt>>), Txt}, then \in Leaves}
  \cup
  {Program(<<>>, <<Each("m", "auto", "l", "auto", List(<<Num>>)), Assigned("l", then),
                   Declared("l", "int", Num), Used(Read("l"))>>) : then \in Leaves}

(* Parameters, two of which may have the same name. *)
Params ==
  {[Program(<<>>, <<Assigned("p", then), Used(Op("arith", Read("p"), Num))>>)
      EXCEPT !.params = params, !.param_types = <<type, other>>,
             !.args = <<Scalar(tag, 91), Scalar(last, 92)>>] :
     params \in {<<"p", NoSymbol>>, <<"p", "p">>, <<NoSymbol, "p">>},
     type \in Types3, other \in {"int", "F64"}, then \in {Num, Flt, Read("p")},
     tag \in {"int", "float", "string"}, last \in {"int", "float"}}

(* A loop's index that is also a variable, or another loop's value: the    *)
(* flags of one declaration and the type of another.                       *)
Reused ==
  {Program(<<>>, <<Assigned("l", Read("m")), Declared("m", type, first),
                   Each("p", "unknown", "m", index_type, List(<<Num>>)), Assigned("m", then)>>) :
     type \in Types3, index_type \in Types4, then \in {Num, Flt},
     first \in {None, Num, Flt, Txt, Read("p"), Minus(Num), Op("arith", Num, Num),
                Choice(Num, Num), E("cast", "float", <<Num>>), E("length", "", <<Txt>>)}}
  \cup
  {Program(<<>>, <<Assigned("l", Read("m")), Each("p", "unknown", "m", type, List(<<Num>>)), other,
                   Assigned("m", then)>>) :
     type \in Types4, then \in {Num, Flt},
     other \in {Declared("m", of, first) : of \in Types3, first \in {None, Num, Flt}}
                \cup {Each("m", of, NoSymbol, "auto", List(<<Flt>>)) : of \in Types4}
                \cup {Each("m", of, "m", "int", List(<<Flt>>)) : of \in Types4}}

MCPrograms ==
  Local \cup Redeclared \cup Chain \cup Deep \cup Shadow \cup Shared \cup Loops \cup Params \cup Reused
=============================================================================
