------------------------------ MODULE TypeCheck ------------------------------
(***************************************************************************)
(* The types that src/src/typecheck.c gives to symbols and expressions, in *)
(* one walk over the program, which refuses nothing.  "int" is any of the  *)
(* integer types and bool; "error" is what is no type; of arrays only the  *)
(* element's type is told.                                                 *)
(***************************************************************************)
EXTENDS Values

CONSTANT
  Symbols,
  NoSymbol

Types == {"error", "unknown", "auto", "void", "int", "F64", "string"}

Elements ==
  [ints |-> "int", floats |-> "F64", strings |-> "string", things |-> "unknown",
   errors |-> "error"]
ArrayTypes == DOMAIN Elements
ArrayOf(t) ==
  IF \E a \in ArrayTypes : Elements[a] = t
  THEN CHOOSE a \in ArrayTypes : Elements[a] = t ELSE "things"

(* Statements.  "type" is what the source says: of a declaration, of a     *)
(* foreach's value and index, of which "unknown" is an untyped one.        *)
Statement(op, symbol, type, expr) ==
  [op |-> op, symbol |-> symbol, type |-> type, expr |-> expr,
   index |-> NoSymbol, index_type |-> "auto"]

-----------------------------------------------------------------------------

(* Mutant: an integer and a float have an integer's type. *)
common_typeLeft(left, right) ==
  CASE left = right -> left
    [] left \in {"unknown", "auto"} -> right
    [] right \in {"unknown", "auto"} /\ left \notin {"unknown", "auto"} -> left
    [] OTHER -> left

(* Of types that are not arrays, which is what arrays are of.              *)
common_plain(left, right) ==
  CASE left = right -> left
    [] left \in {"unknown", "auto"} -> right
    [] right \in {"unknown", "auto"} /\ left \notin {"unknown", "auto"} -> left
    [] {left, right} = {"int", "F64"} -> "F64"
    [] OTHER -> "unknown"

common_type(left, right) ==
  IF left # right /\ {left, right} \subseteq ArrayTypes
  THEN ArrayOf(common_plain(Elements[left], Elements[right]))
  ELSE common_plain(left, right)

(* The element type of an array of elements of these types. *)
element_type(kid) ==
  LET upto[i \in 0..Len(kid)] == IF i = 0 THEN "unknown" ELSE common_type(upto[i - 1], kid[i])
  IN upto[Len(kid)]

infer_node(node, kid, types) ==
  CASE node.kind = "none" -> "unknown"
    [] node.kind \in {"number", "length", "print", "not", "logic"} -> "int"
    [] node.kind = "float" -> "F64"
    [] node.kind = "string" -> "string"
    [] node.kind = "read" -> types[node.arg]
    [] node.kind = "binary" /\ node.arg = "compare" -> "int"
    [] node.kind = "binary" /\ node.arg # "compare" ->
         IF node.arg = "concat" /\ "string" \in {kid[1], kid[2]} THEN "string"
         ELSE common_type(kid[1], kid[2])
    [] node.kind = "minus" -> kid[1]
    [] node.kind = "cast" -> IF node.arg = "float" THEN "F64" ELSE "int"
    [] node.kind = "ternary" -> common_type(kid[2], kid[3])
    [] node.kind = "array" -> ArrayOf(element_type(kid))
    [] node.kind = "index" ->
         (CASE kid[1] = "string" -> "int"
            [] kid[1] \in ArrayTypes -> Elements[kid[1]]
            [] OTHER -> "unknown")
    [] node.kind = "call" -> node.arg

infer_expr(e, types) ==
  LET type[n \in 1..Len(e)] == infer_node(e[n], Operands(e[n], type), types) IN type

(* The symbols' types after a statement. *)
check_stmt(s, types) ==
  LET inferred == Whole(s.expr, infer_expr(s.expr, types)) IN
  CASE s.op = "declare" ->
         [types EXCEPT ![s.symbol] = IF s.type = "auto" THEN inferred ELSE s.type]
    [] s.op = "assign" ->
         [types EXCEPT ![s.symbol] = IF @ \in {"unknown", "auto"} THEN inferred ELSE @]
    [] s.op = "foreach" ->
         LET element == IF inferred \in ArrayTypes THEN Elements[inferred] ELSE "unknown"
             valued == [types EXCEPT ![s.symbol] = IF s.type = "auto" THEN element ELSE s.type]
         IN IF s.index = NoSymbol THEN valued
            ELSE [valued EXCEPT ![s.index] = IF s.index_type = "auto" THEN "int"
                                             ELSE s.index_type]
    [] s.op = "use" -> types

(* A symbol's first declaration, parameters before the body: what          *)
(* add_symbol keeps.                                                       *)
Binders(statements, symbol) ==
  {i \in 1..Len(statements) :
     statements[i].op # "use" /\ symbol \in {statements[i].symbol, statements[i].index}}

Explicit(statements, symbol) ==
  {i \in Binders(statements, symbol) : statements[i].op # "assign"}

Least(S) == CHOOSE i \in S : \A j \in S : i <= j

declaration(statements, symbol) ==
  CASE Explicit(statements, symbol) # {} -> Least(Explicit(statements, symbol))
    [] Explicit(statements, symbol) = {} /\ Binders(statements, symbol) # {} ->
         Least(Binders(statements, symbol))
    [] OTHER -> 0

(* A symbol has the flags of all its declarations, and of them the first.  *)
IsParameterOf(params, symbol) == \E p \in 1..Len(params) : params[p] = symbol

IsForeachValue(statements, symbol) ==
  \E i \in 1..Len(statements) : statements[i].op = "foreach" /\ statements[i].symbol = symbol

IsForeachIndex(statements, symbol) == \E i \in 1..Len(statements) : statements[i].index = symbol

(* The flags say which member of the declaration is the type.  Those of a  *)
(* foreach's value and of a variable are its first, in either kind of      *)
(* node; where an index's type would be, a variable has its value, which   *)
(* is taken for a type's syntax.                                           *)
IsMisread(statements, params, symbol) ==
  /\ ~IsParameterOf(params, symbol)
  /\ IsForeachIndex(statements, symbol) /\ ~IsForeachValue(statements, symbol)
  /\ statements[declaration(statements, symbol)].op = "declare"

(* The value of its first declaration. *)
FirstValue(statements, symbol) ==
  LET first == statements[declaration(statements, symbol)] IN Whole(first.expr, first.expr)

Misread(statements, params) ==
  {FirstValue(statements, s).kind : s \in {t \in Symbols : IsMisread(statements, params, t)}}

seed_symbol_types(statements, params, param_types) ==
  [symbol \in Symbols |->
     LET first == statements[declaration(statements, symbol)] IN
     CASE IsParameterOf(params, symbol) ->
            param_types[Least({p \in 1..Len(params) : params[p] = symbol})]
       [] IsMisread(statements, params, symbol) ->
            IF FirstValue(statements, symbol).kind = "none" THEN "unknown" ELSE "error"
       [] OTHER ->
            IF Explicit(statements, symbol) = {} THEN "unknown"
            ELSE IF IsForeachIndex(statements, symbol) /\ ~IsForeachValue(statements, symbol)
            THEN first.index_type ELSE first.type]

(* What a node of the kind does that is taken for a type's syntax.  The    *)
(* numbers of the kinds of nodes overlap with those of types: a float, a   *)
(* string, a name or an operator is one that has another, whose address is *)
(* a place in the source; a number is a name, which is only read if a      *)
(* place is a number as long as the name of a type; others are no type.    *)
Followed == {"float", "string", "read", "binary", "logic", "minus", "not"}

Survives(statements, params) == Misread(statements, params) \cap Followed = {}

MayCrash(statements, params) ==
  Misread(statements, params) \cap (Followed \cup {"number"}) # {}
=============================================================================
