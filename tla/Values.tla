------------------------------- MODULE Values -------------------------------
(***************************************************************************)
(* The values of a HolyD program (src/src/runtime.c), and its expressions. *)
(* Of a value only its tag is told, the elements an array has, by their    *)
(* tags, and the statement that made it, or Lost if a conversion has kept  *)
(* nothing of it.  An expression is a list of nodes, operands before their  *)
(* operators and the whole last, each a kind, an argument and its operands: *)
(*   none (of a declaration without a value, which is given 0), number,    *)
(*   float, string, read (a symbol), array n, call (of a function          *)
(*   declared to return a type and giving a tag), print, not 1, minus 1,   *)
(*   length 1, cast 1 (to a tag), index 1 (of an element with a tag),      *)
(*   binary 2 (a class of operators), logic 2 (&& and ||), ternary 3       *)
(***************************************************************************)
EXTENDS Naturals, Sequences

Lost == 0

Value(tag, from, elements) == [tag |-> tag, from |-> from, elements |-> elements]
Scalar(tag, from) == Value(tag, from, {})

Error == Scalar("error", Lost)      \* the runtime has printed it and stops
Unbound == Scalar("unbound", Lost)

Numeric == {"int", "float"}

-----------------------------------------------------------------------------
(* Operators: "arith" is + - *, "div" is /, "bits" is % & | ^ and the      *)
(* shifts, and "pow" is **.                                                *)

HDConcat(a, b, from) ==
  LET elements(v) == IF v.tag = "array" THEN v.elements ELSE {v.tag} IN
  CASE a.tag = "string" /\ b.tag = "string" -> Scalar("string", from)
    [] "array" \in {a.tag, b.tag} -> Value("array", from, elements(a) \cup elements(b))
    [] OTHER -> Error

HDBinary(op, a, b, from) ==
  IF op = "concat" THEN HDConcat(a, b, from)
  ELSE IF ~({a.tag, b.tag} \subseteq Numeric) THEN Error
  ELSE CASE op = "pow" -> IF b.tag = "int" THEN Scalar(a.tag, from) ELSE Error
         [] op = "bits" -> IF {a.tag, b.tag} = {"int"} THEN Scalar("int", from) ELSE Error
         [] op = "compare" -> Scalar("int", from)
         [] op \in {"arith", "div"} ->
              Scalar(IF "float" \in {a.tag, b.tag} THEN "float" ELSE "int", from)

HDIndex(a, tag, from) ==
  IF a.tag = "array" /\ tag \in a.elements THEN Scalar(tag, from) ELSE Error

HDLength(a, from) == IF a.tag \in {"array", "string"} THEN Scalar("int", from) ELSE Error

HDCast(kind, a, from) ==
  CASE kind = "bool" -> Scalar("int", from)
    [] kind # "bool" /\ a.tag \in Numeric -> Scalar(kind, from)
    [] OTHER -> Error

(* v.i64 and HDAsDouble(v): of a value that is not a number, 0. *)
AsI64(v) ==
  CASE v.tag \in {"int", "error"} -> v [] OTHER -> Scalar("int", Lost)

HDAsDouble(v) ==
  CASE v.tag \in {"float", "error"} -> v
    [] v.tag = "int" -> Scalar("float", v.from)
    [] OTHER -> Scalar("float", Lost)

-----------------------------------------------------------------------------
(* Expressions *)

Tags == {"int", "float", "string", "array"}

(* A value that a variable may hold: nothing has been lost of it. *)
Proper(v) ==
  /\ v \in [tag : Tags, from : Nat \ {Lost}, elements : SUBSET Tags]
  /\ v.tag # "array" => v.elements = {}

Operators == {"arith", "div", "bits", "pow", "compare", "concat"}

Kinds ==
  [none |-> 0, number |-> 0, float |-> 0, string |-> 0, read |-> 0, call |-> 0, print |-> 0, not |-> 1,
   minus |-> 1, length |-> 1, cast |-> 1, index |-> 1, binary |-> 2, logic |-> 2, ternary |-> 3]

(* What the parser builds, and what may be read where it stands. *)
NodeOK(node, n, readable) ==
  /\ node.kids \in Seq(1..n - 1)
  /\ node.kind \in DOMAIN Kinds \cup {"array"}
  /\ node.kind # "array" => Len(node.kids) = Kinds[node.kind]
  /\ node.kind = "read" => node.arg \in readable
  /\ node.kind = "binary" => node.arg \in Operators
  /\ node.kind = "cast" => node.arg \in {"int", "float", "bool"}
  /\ node.kind = "call" => node.gives \in Tags

ExpressionOK(e, readable) ==
  Len(e) \in Nat \ {0} /\ \A n \in 1..Len(e) : NodeOK(e[n], n, readable)

(* What is known of a node's operands. *)
Operands(node, known) == [i \in 1..Len(node.kids) |-> known[node.kids[i]]]

(* The operands that are evaluated, a condition having been "truth".       *)
Evaluated(node, truth) ==
  CASE node.kind = "ternary" -> {1, IF truth THEN 2 ELSE 3}
    [] node.kind = "logic" -> IF truth THEN {1, 2} ELSE {1}
    [] OTHER -> 1..Len(node.kids)

(* What an operator makes of its operands' values, whichever way they were *)
(* come by.  Failures that depend on more than tags (a division by zero, an *)
(* index out of bounds) are left out: they end the program everywhere.     *)
Apply(node, v, from, truth) ==
  IF \E i \in Evaluated(node, truth) : v[i] = Error THEN Error
  ELSE CASE node.kind \in {"none", "number"} -> Scalar("int", from)
         [] node.kind = "float" -> Scalar("float", from)
         [] node.kind = "string" -> Scalar("string", from)
         [] node.kind = "array" -> Value("array", from, {v[i].tag : i \in 1..Len(v)})
         [] node.kind = "call" -> Scalar(node.gives, from)
         [] node.kind \in {"print", "not", "logic"} -> Scalar("int", from)
         [] node.kind = "minus" -> HDBinary("arith", Scalar("int", from), v[1], from)
         [] node.kind = "length" -> HDLength(v[1], from)
         [] node.kind = "cast" -> HDCast(node.arg, v[1], from)
         [] node.kind = "index" -> HDIndex(v[1], node.arg, from)
         [] node.kind = "binary" -> HDBinary(node.arg, v[1], v[2], from)
         [] node.kind = "ternary" -> IF truth THEN v[2] ELSE v[3]

EvalNode(node, v, meaning, from, truth) ==
  IF node.kind = "read" THEN (IF meaning[node.arg] = Unbound THEN Error ELSE meaning[node.arg])
  ELSE Apply(node, v, from, truth)

(* The value of each node, given what each symbol means. *)
Eval(e, meaning, from, truth) ==
  LET value[n \in 1..Len(e)] == EvalNode(e[n], Operands(e[n], value), meaning, from, truth)
  IN value

Whole(e, known) == known[Len(e)]
=============================================================================
