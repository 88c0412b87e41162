----------------------------- MODULE MCBytecode -----------------------------
(***************************************************************************)
(* Statement lists put together from small parts.  Parts are written with  *)
(* node 0; the node of a construct is the place of its first item.  Labels *)
(* and gotos keep node 0: a body has one label.                            *)
(***************************************************************************)
EXTENDS Bytecode, FiniteSetsExt

MCValues == 0..2
MCNodes == 0..24

I(kind) == [kind |-> kind, node |-> 0, arity |-> 0]
Uses(kind, n) == [kind |-> kind, node |-> 0, arity |-> n]

(* Expressions: a value, a call, and operators over them. *)
Value == <<I("operand")>>
Unsupported == <<I("unsupported")>>
Both(a, b) == a \o b \o <<Uses("apply", 2)>>
And(a, b) == a \o <<Uses("and", 1)>> \o b \o <<Uses("endand", 1)>>
Or(a, b) == a \o <<Uses("or", 1)>> \o b \o <<Uses("endor", 1)>>
If(c, a, b) == c \o <<Uses("if", 1)>> \o a \o <<I("else")>> \o b \o <<I("endif")>>

Binary(a, b) == {Both(a, b), And(a, b), Or(a, b)}
Shallow == Binary(Value, Value) \cup {Value, If(Value, Value, Value)}
Deep == UNION {Binary(a, b) : a, b \in Shallow} \cup {If(a, b, Value) : a, b \in Shallow}

(* An array literal that just fits, one that does not, and a call where    *)
(* the stack is full.                                                      *)
Wide == {Value \o Value \o Value \o <<Uses("apply", 3)>>,
         Value \o Value \o Value \o Value \o <<Uses("apply", 4)>>,
         Value \o Value \o Value \o <<I("call"), Uses("apply", 4)>>}

IndexAssign == Value \o Value \o Value \o <<Uses("drop", 3)>>

Statement(e) == e \o <<Uses("drop", 1)>>
ReturnOf(e) == e \o <<Uses("return", 1)>>
While(c, body, step) == <<I("loop")>> \o c \o <<Uses("do", 1)>> \o body \o <<I("next")>>
                          \o step \o <<I("end")>>
Foreach(a, body) == a \o <<Uses("foreach", 1), I("each")>> \o body \o <<I("next"), I("endeach")>>

Leaves == {Statement(Value), <<I("break")>>, <<I("continue")>>, <<I("label")>>, <<I("goto")>>}

Around(body) == {While(Value, body, <<>>), Foreach(Value, body), If(Value, body, <<>>)}

Lists == {<<>>} \cup Leaves
Loops == UNION {Around(a \o b) : a, b \in Lists}
Nested == UNION {Around(a \o b) \cup Around(b \o a) :
                   a \in Leaves, b \in UNION {Around(c) : c \in Leaves}}

Cases ==
  {Statement(e) : e \in Deep \cup Wide}
  \cup {a \o b : a \in Loops \cup Nested, b \in Lists}
  \cup {b \o a : a \in Loops \cup Nested, b \in Leaves}
  \cup {While(And(Value, Value), If(Value, <<I("continue")>>, <<I("break")>>), Statement(Value)),
        Statement(Unsupported), Statement(Both(Value, Unsupported)),
        Foreach(Unsupported, <<I("break")>>), If(Value, ReturnOf(Unsupported), <<>>),
        IndexAssign, ReturnOf(Value), If(Value, ReturnOf(Value), <<>>), <<>>}

-----------------------------------------------------------------------------

Opens == {"and", "or", "if", "loop", "foreach"}
Closes == {"endand", "endor", "endif", "end", "endeach"}
InOrder == Opens \cup Closes \cup {"else", "do", "next", "each"}

Depth(part, i) ==
  Cardinality({j \in 1..i : part[j].kind \in Opens})
    - Cardinality({j \in 1..i - 1 : part[j].kind \in Closes})

Opener(part, i) ==
  Max({j \in 1..i : part[j].kind \in Opens /\ Depth(part, j) = Depth(part, i)})

Body(part) ==
  [i \in 1..Len(part) |->
     IF part[i].kind \in InOrder THEN [part[i] EXCEPT !.node = Opener(part, i)] ELSE part[i]]
  \o <<I("finish")>>

(* The contexts of a body, each from the one before. *)
Following(body, n) ==
  LET i == Len(n)
      item == body[i]
      now == n[i]
      opened == n[Head(now.open)]
      replaced == <<i>> \o Tail(now.open) IN
  CASE item.kind \in {"operand", "unsupported", "apply", "call", "main"} ->
         [now EXCEPT !.operands = @ - item.arity + 1]
    [] item.kind \in {"drop", "return", "foreach"} -> [now EXCEPT !.operands = @ - item.arity]
    [] item.kind \in {"if", "and", "or", "loop"} ->
         [now EXCEPT !.open = <<i>> \o @, !.operands = @ - item.arity]
    [] item.kind = "else" -> [now EXCEPT !.open = replaced, !.operands = opened.operands - 1]
    [] item.kind \in {"endif", "endand", "endor"} -> [now EXCEPT !.open = Tail(@)]
    [] item.kind = "do" ->
         [now EXCEPT !.open = replaced, !.loops = <<i>> \o @, !.operands = 0]
    [] item.kind = "each" -> [now EXCEPT !.open = <<i>> \o @, !.loops = <<i>> \o @]
    [] item.kind = "next" -> [now EXCEPT !.part = "step"]
    [] item.kind \in Ends ->
         [now EXCEPT !.open = Tail(@), !.loops = Tail(@), !.part = "body"]
    [] OTHER -> now

MCNesting(body) ==
  LET upto[i \in 1..Len(body)] ==
        IF i = 1 THEN <<Outermost>>
        ELSE LET n == upto[i - 1] IN Append(n, Following(body, n))
  IN upto[Len(body)]

CallMain == Statement(<<I("main")>>)
CallMainWith(value) == Statement(value \o <<Uses("main", 1)>>)

(* Every case alone, and programs of a function and a top level. *)
MCPrograms ==
  {[bodies |-> <<Body(part)>>, entry |-> FALSE] : part \in Cases}
  \cup {[bodies |-> <<Body(f), Body(top)>>, entry |-> entry] :
          f \in {<<>>, Foreach(Value, <<I("break")>>), <<I("goto"), I("label")>>,
                 ReturnOf(Unsupported)},
          top \in {<<>>, Statement(Value), CallMain, CallMain \o CallMain, If(Value, CallMain, <<>>),
                   CallMainWith(Value),
                   Foreach(Value, Foreach(Value, <<I("continue")>>)),
                   <<I("goto")>> \o Foreach(Value, <<>>) \o <<I("label")>>},
          entry \in BOOLEAN}
=============================================================================
