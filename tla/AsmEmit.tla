------------------------------ MODULE AsmEmit ------------------------------
(***************************************************************************)
(* The assembly backend (src/src/emit_asm.c): each expression is told      *)
(* where its value goes and which scratch slots are free, and a walk ahead *)
(* of it takes the maximum of the slots and outgoing arguments needed.     *)
(***************************************************************************)
EXTENDS Target, AsmFrame

Scratch(i) == <<"scratch", i, 0>>
Slots(next, n) == [i \in 1..n |-> Scratch(next + i - 1)]

-----------------------------------------------------------------------------
(* How many scratch slots *)

(* The most of the first n counts. *)
Most(counts, n) ==
  LET upto[i \in 0..n] == IF i = 0 THEN 0 ELSE max_int(upto[i - 1], counts[i]) IN upto[n]

(* Mutant: only calls and arrays hold anything beside the operand.         *)
HeldOne(node, i) ==
  IF node.kind \in {"array"} \cup Calls THEN Len(node.kids) ELSE 1

(* What a construct holds while its i-th part is evaluated. *)
Held(node, i) ==
  CASE node.kind \in {"array"} \cup Calls -> Len(node.kids)
    [] node.kind \in Pairs \cup {"minus", "print"} -> 2
    [] node.kind = "indexassign" -> 3
    [] node.kind = "foreach" -> 4
    [] node.kind \in Branches \cup {"while"} -> IF i = 1 THEN 1 ELSE 0
    [] node.kind = "for" -> IF i = 2 THEN 1 ELSE 0
    [] node.kind = "block" -> 0
    [] OTHER -> 1

scratch_for(tree) ==
  LET count[n \in 1..Len(tree)] ==
        Most([i \in 1..Len(tree[n].kids) |-> Held(tree[n], i) + Parts(tree[n], count)[i]],
             Len(tree[n].kids))
  IN count

(* Of calls the caller's destination is the first argument; a print, a     *)
(* bare string's too, has four and a native HD_MIN_ARGS, five.             *)
Arguments(node) ==
  CASE node.kind \in {"array"} \cup Calls -> Len(node.kids) + 1
    [] node.kind = "print" -> 4
    [] OTHER -> 0

max_args(tree) ==
  LET most[n \in 1..Len(tree)] ==
        max_int(Arguments(tree[n]), Most(Parts(tree[n], most), Len(tree[n].kids)))
  IN most

Outgoing(tree) == max_int(HD_MIN_ARGS, max_args(tree)[Len(tree)])

-----------------------------------------------------------------------------
(* Expressions *)

(* Where the first item of an expression is, where its value goes, the     *)
(* first slot that is free, and what its context holds.                    *)
ExprContexts == [at : Nat, dest : Locations, next : Nat, live : Seq(Locations)]

Asked(at, dest, next, live) == [at |-> at, dest |-> dest, next |-> next, live |-> live]

(* Mutant: a ternary's condition is put where its value is to go. *)
ConditionInPlace(dest, next) == dest

Condition(dest, next) == Scratch(next)

(* "code" is what is emitted for each part in each context. *)
emit_expr(tree, m, c, code) ==
  LET node == tree[m]
      kind == node.kind
      n == Len(node.kids)
      place(i) == Place(tree, m, c.at, i)
      kid(i, dest, next, live) == code[i][Asked(place(i), dest, next, live)]
      slot == Scratch(c.next)
      last == Final(tree, m, c.at)
      id == NodeOf(tree, m, c.at)
      in_order(first, k) ==
        Joined([i \in 1..n |-> kid(i, Scratch(c.next + first + i - 1), c.next + k,
                                   c.live \o Slots(c.next, first + i - 1))], n)
      decides == IF kind = "and" THEN "jz" ELSE "jnz" IN
  CASE kind \in {"value", "mention"} -> Compute("eval", c.at, c.live, <<>>, c.dest)
    [] kind = "minus" ->
         Constant(c.at, c.live, 0, slot) \o in_order(1, 2)
           \o Compute("eval", last, c.live, Slots(c.next, 2), c.dest)
    [] kind \in Unary \cup Pairs \cup {"array"} ->
         in_order(0, n) \o Compute("eval", last, c.live, Slots(c.next, n), c.dest)
    [] kind = "call" ->
         in_order(0, n) \o Compute("call", last, c.live, Slots(c.next, n), c.dest)
    [] Refuses(node) -> Compute("refuse", c.at, c.live, <<>>, c.dest)
    [] kind = "main" /\ ~Refuses(node) -> Compute("main", c.at, c.live, <<>>, c.dest)
    [] kind \in {"and", "or"} ->
         kid(1, slot, c.next + 1, c.live)
           \o Branch(decides, place(2) - 1, c.live, slot, <<"settled", id>>)
           \o kid(2, slot, c.next + 1, c.live)
           \o Compute("truth", last, c.live, <<slot>>, Rax)
           \o After(Go(last, Append(c.live, Rax), <<"join", id>>))
           \o Label(<<"settled", id>>)
           \o Constant(id, Append(c.live, slot), IF kind = "and" THEN 0 ELSE 1, Rax)
           \o Label(<<"join", id>>)
           \o After(Compute("copy", last, c.live, <<Rax>>, c.dest))
    [] kind = "ternary" ->
         LET condition == Condition(c.dest, c.next) IN
         kid(1, condition, c.next + 1, c.live)
           \o Branch("jz", id, c.live, condition, <<"other", id>>)
           \o kid(2, c.dest, c.next, c.live)
           \o Go(place(3) - 1, Append(c.live, c.dest), <<"join", id>>)
           \o Label(<<"other", id>>)
           \o kid(3, c.dest, c.next, c.live)
           \o Label(<<"join", id>>)
    [] OTHER -> <<>>

ExprCode(tree) ==
  LET code[m \in 1..Len(tree)] ==
        [c \in ExprContexts |-> emit_expr(tree, m, c, Parts(tree[m], code))]
  IN code

-----------------------------------------------------------------------------
(* Statements: where an assignment's value goes is NameScope's matter, and *)
(* a declaration's goes straight to the variable's slot.                   *)

(* "leaving" is where break and continue jump to in a loop's body. *)
StmtContexts == [at : Nat, next : Nat, leaving : [break : Labels, continue : Labels]]

Leaving(kind, id) ==
  [break |-> <<"done", id>>,
   continue |-> IF kind = "while" THEN <<"top", id>> ELSE <<"next", id>>]

(* The i-th part, an expression; a condition's jump. *)
emit_part(tree, m, c, i, dest, next, live) ==
  ExprCode(tree)[tree[m].kids[i]][Asked(Place(tree, m, c.at, i), dest, next, live)]

emit_test(tree, m, c, i, to) ==
  emit_part(tree, m, c, i, Scratch(c.next), c.next + 1, <<>>)
    \o Branch("jz", Place(tree, m, c.at, i + 1) - 1, <<>>, Scratch(c.next), to)

emit_jump(tree, m, c) ==
  LET kind == tree[m].kind IN
  CASE kind = "break" -> Go(c.at, <<>>, c.leaving.break)
    [] kind = "continue" -> Go(c.at, <<>>, c.leaving.continue)
    [] kind = "label" -> Label(UserLabel)
    [] kind = "goto" -> Go(c.at, <<>>, UserLabel)
    [] kind = "return" ->
         emit_part(tree, m, c, 1, Scratch(c.next), c.next + 1, <<>>)
           \o Compute("return", Final(tree, m, c.at), <<>>, <<Scratch(c.next)>>, Nowhere)

emit_loop(tree, m, c, code) ==
  LET node == tree[m]
      id == NodeOf(tree, m, c.at)
      last == Final(tree, m, c.at)
      within(i, next, leaving) ==
        code[i][[at |-> Place(tree, m, c.at, i), next |-> next, leaving |-> leaving]]
      inner == Leaving(node.kind, id)
      top == Label(<<"top", id>>)
      again == Go(last, <<>>, <<"top", id>>)
      done == Label(<<"done", id>>)
      landing == Label(<<"next", id>>) IN
  CASE node.kind = "while" ->
         top \o emit_test(tree, m, c, 1, <<"done", id>>) \o within(2, c.next, inner)
           \o again \o done
    [] node.kind = "for" ->
         within(1, c.next, c.leaving) \o top \o emit_test(tree, m, c, 2, <<"done", id>>)
           \o within(3, c.next, inner) \o landing \o within(4, c.next, c.leaving)
           \o again \o done
    [] node.kind = "foreach" ->
         LET array == Scratch(c.next)
             counter == Scratch(c.next + 1)
             staging == Scratch(c.next + 2)
             boxed == Scratch(c.next + 3) IN
         emit_part(tree, m, c, 1, array, c.next + 4, <<>>) \o Enter(id, array, counter) \o top
           \o Until(id + 1, array, counter, staging, <<"done", id>>)
           \o Bind(id + 1, array, counter, staging, boxed) \o within(2, c.next + 4, inner)
           \o landing \o Step(last, counter) \o After(again) \o done

emit_stmt(tree, m, c, code) ==
  LET node == tree[m]
      kind == node.kind
      kid(i) == code[i][[c EXCEPT !.at = Place(tree, m, c.at, i)]]
      expr(i, n) ==
        emit_part(tree, m, c, i, Scratch(c.next + i - 1), c.next + n, Slots(c.next, i - 1))
      slot == Scratch(c.next)
      last == Final(tree, m, c.at)
      id == NodeOf(tree, m, c.at) IN
  CASE kind = "declare" ->
         emit_part(tree, m, c, 1, Home, c.next, <<>>) \o Drop(last, <<Home>>)
    [] kind \in {"assign", "discard"} -> expr(1, 1) \o Drop(last, <<slot>>)
    [] kind = "indexassign" ->
         expr(1, 3) \o expr(2, 3) \o expr(3, 3) \o Drop(last, Slots(c.next, 3))
    [] kind = "print" ->
         expr(1, 2) \o Compute("call", last - 1, <<>>, <<slot>>, Scratch(c.next + 1))
           \o Drop(last, <<Scratch(c.next + 1)>>)
    [] kind = "block" -> Joined([i \in 1..Len(node.kids) |-> kid(i)], Len(node.kids))
    [] kind = "if" ->
         emit_test(tree, m, c, 1, <<"other", id>>) \o kid(2)
           \o Go(Place(tree, m, c.at, 3) - 1, <<>>, <<"join", id>>)
           \o Label(<<"other", id>>) \o kid(3) \o Label(<<"join", id>>)
    [] kind \in Loops -> emit_loop(tree, m, c, code)
    [] kind \in Jumps \cup {"return"} -> emit_jump(tree, m, c)
    [] OTHER -> <<>>

StmtCode(tree) ==
  LET code[m \in 1..Len(tree)] ==
        [c \in StmtContexts |-> emit_stmt(tree, m, c, Parts(tree[m], code))]
  IN code

-----------------------------------------------------------------------------
(* Functions and the top level *)

(* Mutant: only the statements themselves are looked at. *)
calls_nameAlone(tree) ==
  LET calls[n \in 1..Len(tree)] ==
        \/ tree[n].kind \in {"main", "mention"}
        \/ /\ tree[n].kind \in {"block", "discard", "if"}
           /\ \E i \in 1..Len(tree[n].kids) : Parts(tree[n], calls)[i]
  IN calls

(* A name read as a variable's counts as well as a call. *)
calls_name(tree) == Holds(tree, {"main", "mention"})

(* A function's end returns 0, the top level's calls the entry point.      *)
AsmFunction(program) ==
  LET tree == program.tree
      end == Size(tree)[Len(tree)] + 1 IN
  StmtCode(tree)[Len(tree)][[at |-> 1, next |-> 0, leaving |-> Leaving("block", 0)]]
    \o (IF ~program.main THEN Constant(end, <<>>, 0, Scratch(0))
        ELSE IF program.entry /\ ~calls_name(tree)[Len(tree)]
             THEN Compute("main", end, <<>>, <<>>, Scratch(0)) ELSE <<>>)
    \o Compute("finish", end, <<>>, <<>>, Nowhere)

ScratchCount(program) == max_int(1, scratch_for(program.tree)[Len(program.tree)])
=============================================================================
