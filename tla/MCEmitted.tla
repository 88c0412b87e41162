----------------------------- MODULE MCEmitted -----------------------------
(* Statements put together from small parts, as in MCBytecode.             *)
EXTENDS Emitted, SequencesExt

MCValues == 0..2
MCNodes == 0..24

(* A tree over others, whose nodes come first. *)
T(kind, parts) ==
  LET start(i) == FoldLeft(LAMBDA n, t : n + Len(t), 0, SubSeq(parts, 1, i - 1))
      placed(i) ==
        [n \in 1..Len(parts[i]) |->
           [parts[i][n] EXCEPT !.kids = [k \in 1..Len(@) |-> @[k] + start(i)]]]
      nodes == FoldLeft(LAMBDA all, i : all \o placed(i), <<>>, [i \in 1..Len(parts) |-> i])
  IN Append(nodes, [kind |-> kind, kids |-> [i \in 1..Len(parts) |-> start(i + 1)]])

V == T("value", <<>>)
Leaf(kind) == T(kind, <<>>)
Nothing == T("block", <<>>)
Block(list) == T("block", list)
Calling(n) == T("call", [i \in 1..n |-> V])
Discard(e) == T("discard", <<e>>)

(* Expressions of every kind over values, and those over them. *)
Binary(a, b) == {T(kind, <<a, b>>) : kind \in {"binary", "and", "or"}}

Shallow ==
  Binary(V, V) \cup {V, T("ternary", <<V, V, V>>), T("minus", <<V>>), T("call", <<V, V>>)}

Deep ==
  UNION {Binary(a, b) : a, b \in Shallow}
  \cup {T("ternary", <<a, b, V>>) : a, b \in Shallow}
  \cup {T(kind, <<a>>) : kind \in {"minus", "not", "cast", "length", "array"}, a \in Shallow}
  \cup {T("index", <<a, V>>) : a \in Shallow}
  \cup {T("call", <<V, a, V>>) : a \in Shallow}

(* Arrays and calls in each other, and calls with more arguments than      *)
(* there are registers.                                                    *)
Wide ==
  {T("call", <<T("array", <<V, V, V>>), V>>), T("array", <<Calling(3), V, Calling(0)>>),
   Calling(5), T("array", <<Calling(6)>>), T("minus", <<Calling(5)>>)}

Assignments ==
  {T("indexassign", <<a, b, V>>) : a \in {V, Calling(2)}, b \in {V, T("binary", <<V, V>>)}}

(* A variable declared twice: the second time its slot has a value. *)
Redeclared ==
  {Block(<<T("declare", <<V>>), T("declare", <<e>>)>>) :
     e \in Shallow \cup {T("ternary", <<a, V, V>>) : a \in Shallow}}

Refused ==
  {T("refused", <<>>), T("refused", <<V>>), T("array", <<V, T("refused", <<V, V>>), Calling(1)>>),
   T("array", <<T("main", <<V, V>>), Calling(1)>>)}

Leaves == {Discard(V), Leaf("break"), Leaf("continue"), Leaf("label"), Leaf("goto")}
Lists == {Nothing} \cup Leaves

While(c, b) == T("while", <<c, b>>)
For(b) == T("for", <<T("assign", <<V>>), V, b, T("assign", <<V>>)>>)
Foreach(a, b) == T("foreach", <<a, b>>)
If(c, b) == T("if", <<c, b, Nothing>>)

Around(c) == {While(V, c), For(c), Foreach(V, c), If(V, c)}
Loops1 == UNION {Around(Block(<<a, b>>)) : a, b \in Lists}
Inner == UNION {Around(c) : c \in Leaves}
Loops2 == UNION {Around(Block(<<a, b>>)) \cup Around(Block(<<b, a>>)) : a \in Leaves, b \in Inner}

(* What the resolver accepts. *)
Sound(t) ==
  LET b == BodyOf(t)
      those(kinds) == {i \in 1..Len(b) : b[i].kind \in kinds} IN
  /\ Cardinality(those({"label"})) <= 1
  /\ \A i \in those({"break", "continue"}) : LoopsAround(b, i) # {}
  /\ \A i \in those({"goto"}) :
       \E l \in those({"label"}) : ForeachsAround(b, l) \subseteq ForeachsAround(b, i)

Cases ==
  {Discard(e) : e \in Deep \cup Wide \cup Refused}
  \cup Assignments \cup Redeclared
  \cup {Block(<<a, b>>) : a \in Loops1, b \in Lists}
  \cup {Block(<<b, a>>) : a \in Loops1, b \in Leaves}
  \cup Loops2
  \cup {T("print", <<V>>), T("return", <<V>>), If(V, T("return", <<V>>)), Nothing,
        T("if", <<T("and", <<V, V>>), T("assign", <<V>>), T("print", <<V>>)>>),
        Foreach(T("array", <<V, V>>), Foreach(V, Discard(T("binary", <<V, Calling(2)>>))))}

Function(t) == [tree |-> t, main |-> FALSE, entry |-> FALSE]

(* The entry point called, with arguments too, and only mentioned. *)
Main == Leaf("main")
Mention == Leaf("mention")

InConditional == {Discard(T("ternary", <<V, Main, V>>)), Discard(T("ternary", <<Main, V, V>>))}

Mentioned ==
  {T("assign", <<Mention>>), If(V, T("declare", <<Mention>>)),
   Discard(T("ternary", <<V, Mention, Calling(1)>>)),
   Block(<<Discard(T("binary", <<Mention, V>>)), Discard(Main)>>)}

Tops ==
  {Nothing, Discard(V), Discard(Main), Block(<<Discard(Main), Discard(Main)>>),
   If(V, Discard(Main)), T("assign", <<T("and", <<V, Main>>)>>),
   Discard(T("main", <<V>>)), T("return", <<T("not", <<T("main", <<Calling(1), V>>)>>)>>),
   T("declare", <<T("array", <<Main>>)>>), Foreach(V, Leaf("break"))}
  \cup InConditional \cup Mentioned

MCPrograms ==
  {Function(t) : t \in {u \in Cases : Sound(u)}}
  \cup {[tree |-> t, main |-> TRUE, entry |-> entry] : t \in Tops, entry \in BOOLEAN}
-----------------------------------------------------------------------------

(* Operators over two calls. *)
MCOperandPrograms ==
  {Function(Discard(T(kind, <<Calling(n), Calling(1)>>))) :
     kind \in {"binary", "index"}, n \in 0..2}
=============================================================================
