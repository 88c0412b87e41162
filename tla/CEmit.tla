------------------------------- MODULE CEmit -------------------------------
(***************************************************************************)
(* The C backend (src/src/emit_c.c): a call's arguments go through an      *)
(* array of its own, _tN, declared by a walk ahead of the one that uses    *)
(* it; loops, conditionals and operators become C's.                       *)
(***************************************************************************)
EXTENDS Target

CONSTANT
  Order   \* "left" or "right": the operand of a C call that is evaluated first

-----------------------------------------------------------------------------
(* Call sites, in the order in which they take their numbers: the width of *)
(* each.                                                                   *)

Takes(node) ==
  CASE node.kind \in {"array"} \cup Calls -> <<Len(node.kids)>>
    [] node.kind = "indexassign" -> <<3>>
    [] node.kind \in {"foreach", "print"} -> <<1>>
    [] OTHER -> <<>>

(* Mutant: a call's number is counted after its arguments'. *)
CountedAfter(tree) ==
  LET sites[n \in 1..Len(tree)] == Gathered(tree[n], sites) \o Takes(tree[n]) IN sites

Counted(tree) ==
  LET sites[n \in 1..Len(tree)] == Takes(tree[n]) \o Gathered(tree[n], sites) IN sites

(* A refused call's arguments are counted and not emitted. *)
Used(tree) ==
  LET sites[n \in 1..Len(tree)] ==
        Takes(tree[n])
          \o (IF Refuses(tree[n]) THEN <<>> ELSE Gathered(tree[n], sites))
  IN sites

declare_temps(tree) ==
  LET widths == Counted(tree)[Len(tree)] IN
  [i \in 1..Len(widths) |-> IF widths[i] > 0 THEN widths[i] ELSE 1]

(* The first number that the i-th part of a node can take. *)
IdOf(tree, m, id, i) ==
  LET taken == [j \in 1..Len(tree[m].kids) |-> Len(Used(tree)[tree[m].kids[j]])] IN
  id + Len(Takes(tree[m])) + Total(taken, i - 1)

Temp(id, i) == <<"t", id, i>>
(* Mutant: a call takes its arguments from the second element on. *)
TempsFromOne(id, n) == [i \in 1..n |-> Temp(id, i)]

Temps(id, n) == [i \in 1..n |-> Temp(id, i - 1)]

-----------------------------------------------------------------------------
(* Expressions *)

(* "id" is the number of the next call site. *)
ExpressionContexts == [at : Nat, id : Nat, dest : Locations, live : Seq(Locations)]

CValue(tree, m, at, i) == <<"c", Final(tree, tree[m].kids[i], Place(tree, m, at, i)), 0>>

emit_operand(tree, m, c, i, dest, live, code) ==
  code[i][[at |-> Place(tree, m, c.at, i), id |-> IdOf(tree, m, c.id, i),
           dest |-> dest, live |-> live]]

(* "code" is what is emitted for each part in each context. *)
emit_expression(tree, m, c, code) ==
  LET kind == tree[m].kind
      n == Len(tree[m].kids)
      live == c.live
      dest == c.dest
      kid(i, to, held) == emit_operand(tree, m, c, i, to, held, code)
      value(i) == CValue(tree, m, c.at, i)
      values(i) == [j \in 1..i |-> value(j)]
      last == Final(tree, m, c.at)
      node == NodeOf(tree, m, c.at)
      emit_args_into ==
        Joined([i \in 1..n |-> kid(i, Temp(c.id, i - 1), live \o Temps(c.id, i - 1))], n)
      decides == IF kind = "and" THEN "jz" ELSE "jnz" IN
  CASE kind \in {"value", "mention"} -> Compute("eval", c.at, live, <<>>, dest)
    [] kind = "minus" ->
         LET zero == <<"c", c.at, 0>> IN
         Constant(c.at, live, 0, zero) \o kid(1, value(1), Append(live, zero))
           \o Compute("eval", last, live, <<zero, value(1)>>, dest)
    [] kind \in Unary ->
         kid(1, value(1), live) \o Compute("eval", last, live, values(1), dest)
    [] kind \in Pairs ->
         (IF Order = "left" THEN kid(1, value(1), live) \o kid(2, value(2), Append(live, value(1)))
          ELSE kid(2, value(2), live) \o kid(1, value(1), Append(live, value(2))))
         \o Compute("eval", last, live, values(2), dest)
    [] kind = "array" -> emit_args_into \o Compute("eval", last, live, Temps(c.id, n), dest)
    [] kind = "call" -> emit_args_into \o Compute("call", last, live, Temps(c.id, n), dest)
    [] Refuses(tree[m]) -> Compute("refuse", c.at, live, <<>>, dest)
    [] kind = "main" /\ ~Refuses(tree[m]) -> Compute("main", c.at, live, <<>>, dest)
    [] kind \in {"and", "or"} ->
         kid(1, value(1), live)
           \o Branch(decides, Place(tree, m, c.at, 2) - 1, live, value(1), <<"settled", node>>)
           \o kid(2, value(2), live)
           \o Compute("truth", last, live, <<value(2)>>, dest)
           \o After(Go(last, Append(live, dest), <<"join", node>>))
           \o Label(<<"settled", node>>)
           \o Constant(node, Append(live, value(1)), IF kind = "and" THEN 0 ELSE 1, dest)
           \o Label(<<"join", node>>)
    [] kind = "ternary" ->
         kid(1, value(1), live)
           \o Branch("jz", node, live, value(1), <<"other", node>>)
           \o kid(2, dest, live)
           \o Go(Place(tree, m, c.at, 3) - 1, Append(live, dest), <<"join", node>>)
           \o Label(<<"other", node>>)
           \o kid(3, dest, live)
           \o Label(<<"join", node>>)
    [] OTHER -> <<>>

ExpressionCode(tree) ==
  LET code[m \in 1..Len(tree)] ==
        [c \in ExpressionContexts |-> emit_expression(tree, m, c, Parts(tree[m], code))]
  IN code

-----------------------------------------------------------------------------
(* Statements.  A continue is C's, which goes to the innermost while's     *)
(* test, unless something follows the body; then it is a goto to a label   *)
(* there, which is only written if a continue needs it.                    *)

StatementContexts == [at : Nat, id : Nat, loop : [node : Nat, label : BOOLEAN]]

has_own_continue(tree) ==
  LET own[n \in 1..Len(tree)] ==
        \/ tree[n].kind = "continue"
        \/ tree[n].kind \in {"block", "if"} /\ \E i \in 1..Len(tree[n].kids) :
             Parts(tree[n], own)[i]
  IN own

(* Mutant: a foreach has nothing after its body. *)
continue_labelFor(tree, m) ==
  tree[m].kind = "for" /\ has_own_continue(tree)[tree[m].kids[3]]

continue_label(tree, m) ==
  CASE tree[m].kind = "for" -> has_own_continue(tree)[tree[m].kids[3]]
    [] tree[m].kind = "foreach" -> has_own_continue(tree)[tree[m].kids[2]]
    [] OTHER -> FALSE

(* The i-th part, an expression; a condition's jump. *)
emit_value(tree, m, c, i, dest, live) ==
  emit_operand(tree, m, c, i, dest, live, Parts(tree[m], ExpressionCode(tree)))

emit_condition(tree, m, c, i, to) ==
  emit_value(tree, m, c, i, CValue(tree, m, c.at, i), <<>>)
    \o Branch("jz", Place(tree, m, c.at, i + 1) - 1, <<>>, CValue(tree, m, c.at, i), to)

emit_leaving(tree, m, c) ==
  LET kind == tree[m].kind IN
  CASE kind = "break" -> Go(c.at, <<>>, <<"done", c.loop.node>>)
    [] kind = "continue" ->
         Go(c.at, <<>>, <<IF c.loop.label THEN "next" ELSE "top", c.loop.node>>)
    [] kind = "label" -> Label(UserLabel)
    [] kind = "goto" -> Go(c.at, <<>>, UserLabel)
    [] kind = "return" ->
         emit_value(tree, m, c, 1, CValue(tree, m, c.at, 1), <<>>)
           \o Compute("return", Final(tree, m, c.at), <<>>, <<CValue(tree, m, c.at, 1)>>, Nowhere)

emit_body(tree, m, c, i, loop, code) ==
  code[i][[at |-> Place(tree, m, c.at, i), id |-> IdOf(tree, m, c.id, i), loop |-> loop]]

emit_iteration(tree, m, c, code) ==
  LET kind == tree[m].kind
      node == NodeOf(tree, m, c.at)
      last == Final(tree, m, c.at)
      within == [node |-> node, label |-> continue_label(tree, m)]
      kid(i, loop) == emit_body(tree, m, c, i, loop, code)
      top == Label(<<"top", node>>)
      again == Go(last, <<>>, <<"top", node>>)
      done == Label(<<"done", node>>)
      landing == IF within.label THEN Label(<<"next", node>>) ELSE <<>> IN
  CASE kind = "while" ->
         top \o emit_condition(tree, m, c, 1, <<"done", node>>) \o kid(2, within) \o again \o done
    [] kind = "for" ->
         kid(1, c.loop) \o top \o emit_condition(tree, m, c, 2, <<"done", node>>)
           \o kid(3, within) \o landing \o kid(4, c.loop) \o again \o done
    [] kind = "foreach" ->
         LET array == Temp(c.id, 0)
             counter == <<"fe", c.id, 0>> IN
         emit_value(tree, m, c, 1, array, <<>>) \o Enter(node, array, counter) \o top
           \o Until(node + 1, array, counter, Nowhere, <<"done", node>>)
           \o Bind(node + 1, array, counter, Nowhere, Nowhere) \o kid(2, within)
           \o landing \o Step(last, counter) \o After(again) \o done

emit_statement(tree, m, c, code) ==
  LET kind == tree[m].kind
      node == NodeOf(tree, m, c.at)
      last == Final(tree, m, c.at)
      kid(i) == emit_body(tree, m, c, i, c.loop, code)
      value == CValue(tree, m, c.at, 1) IN
  CASE kind \in {"declare", "assign", "discard"} ->
         emit_value(tree, m, c, 1, value, <<>>) \o Drop(last, <<value>>)
    [] kind = "indexassign" ->
         emit_value(tree, m, c, 1, Temp(c.id, 0), Temps(c.id, 0))
           \o emit_value(tree, m, c, 2, Temp(c.id, 1), Temps(c.id, 1))
           \o emit_value(tree, m, c, 3, Temp(c.id, 2), Temps(c.id, 2))
           \o Drop(last, Temps(c.id, 3))
    [] kind = "print" ->
         LET answer == <<"c", last - 1, 0>> IN
         emit_value(tree, m, c, 1, Temp(c.id, 0), <<>>)
           \o Compute("call", last - 1, <<>>, Temps(c.id, 1), answer) \o Drop(last, <<answer>>)
    [] kind = "block" -> Joined([i \in 1..Len(tree[m].kids) |-> kid(i)], Len(tree[m].kids))
    [] kind = "if" ->
         emit_condition(tree, m, c, 1, <<"other", node>>) \o kid(2)
           \o Go(Place(tree, m, c.at, 3) - 1, <<>>, <<"join", node>>)
           \o Label(<<"other", node>>) \o kid(3) \o Label(<<"join", node>>)
    [] kind \in Loops -> emit_iteration(tree, m, c, code)
    [] kind \in Jumps \cup {"return"} -> emit_leaving(tree, m, c)
    [] OTHER -> <<>>

StatementCode(tree) ==
  LET code[m \in 1..Len(tree)] ==
        [c \in StatementContexts |-> emit_statement(tree, m, c, Parts(tree[m], code))]
  IN code

-----------------------------------------------------------------------------
(* Functions and the top level *)

(* A conditional expression is not looked into, and a name is only a call  *)
(* where it is a statement.                                                *)
stmt_calls(tree) ==
  LET calls[n \in 1..Len(tree)] ==
        \/ tree[n].kind = "main"
        \/ tree[n].kind # "ternary" /\ \E i \in 1..Len(tree[n].kids) : Parts(tree[n], calls)[i]
  IN calls

CFunction(program) ==
  LET tree == program.tree
      end == Size(tree)[Len(tree)] + 1 IN
  StatementCode(tree)[Len(tree)][[at |-> 1, id |-> 0, loop |-> [node |-> 0, label |-> FALSE]]]
    \o (IF program.main /\ program.entry /\ ~stmt_calls(tree)[Len(tree)]
        THEN Compute("main", end, <<>>, <<>>, <<"c", end, 0>>) ELSE <<>>)
    \o Compute("finish", end, <<>>, <<>>, Nowhere)
=============================================================================
