-------------------------------- MODULE Trees --------------------------------
(***************************************************************************)
(* Statements as the parser leaves them, and as Bodies lists them.  A tree *)
(* is a list of nodes, parts before what they are parts of and the whole   *)
(* last; a node is a kind and its parts in the order they are executed:    *)
(*   value, minus 1, not 1, cast 1, length 1, binary 2, index 2, array n,  *)
(*   and 2, or 2, ternary 3                                                *)
(*   mention 0 (the entry point's name, read as a variable's)              *)
(*   call n (a print, a native, or a function with n parameters),          *)
(*   refused n (an unknown function, or a wrong number of arguments),      *)
(*   main n (a call of the entry point, refused if it has arguments)       *)
(*   declare 1, assign 1, indexassign 3, print 1 (a bare string),          *)
(*   discard 1 (an expression as a statement), block n, if 3,              *)
(*   while 2, for 4 <<first, condition, body, step>>,                      *)
(*   foreach 2 <<array, body>>, break, continue, label, goto, return 1     *)
(* A missing else, step, initialiser or body is an empty block; a name     *)
(* that is a whole statement is a call of it, if it is a function's.       *)
(***************************************************************************)
EXTENDS Bodies

Calls == {"call", "refused", "main"}
Branches == {"ternary", "if"}
Unary == {"not", "cast", "length"}
Pairs == {"binary", "index"}

Expressions ==
  {"value", "mention", "minus", "array", "and", "or", "ternary"} \cup Calls \cup Unary \cup Pairs

(* Statements whose parts are expressions, and the loops and jumps.        *)
Simple == {"declare", "assign", "indexassign", "print", "discard", "return"}
Loops == {"while", "for", "foreach"}
Jumps == {"break", "continue", "label", "goto"}
Statements == Simple \cup Loops \cup Jumps \cup {"block", "if"}

Arity(kind) ==
  CASE kind \in {"value", "mention"} \cup Jumps -> 0
    [] kind \in Pairs \cup {"and", "or", "while", "foreach"} -> 2
    [] kind \in Branches \cup {"indexassign"} -> 3
    [] kind = "for" -> 4
    [] OTHER -> 1

(* Whether the i-th part is an expression. *)
Evaluates(kind, i) ==
  \/ kind \in Expressions \cup Simple
  \/ kind \in {"if", "while", "foreach"} /\ i = 1
  \/ kind = "for" /\ i = 2

NodeOK(tree, n) ==
  LET node == tree[n] IN
  /\ node.kind \in Expressions \cup Statements
  /\ node.kids \in Seq(1..n - 1)
  /\ node.kind \notin {"array", "block"} \cup Calls => Len(node.kids) = Arity(node.kind)
  /\ \A i \in 1..Len(node.kids) :
       /\ tree[node.kids[i]].kind \in (IF Evaluates(node.kind, i) THEN Expressions ELSE Statements)
       /\ node.kind = "discard" => tree[node.kids[i]].kind # "mention"

TreeOK(tree) ==
  /\ Len(tree) \in Nat \ {0}
  /\ \A n \in 1..Len(tree) : NodeOK(tree, n)
  /\ tree[Len(tree)].kind \in Statements

-----------------------------------------------------------------------------

(* What is known of a node's parts. *)
Parts(node, known) == [i \in 1..Len(node.kids) |-> known[node.kids[i]]]

(* The sum of the first n numbers, and the first n lists as one. *)
Total(numbers, n) ==
  LET upto[i \in 0..n] == IF i = 0 THEN 0 ELSE upto[i - 1] + numbers[i] IN upto[n]

Joined(pieces, n) ==
  LET upto[i \in 0..n] == IF i = 0 THEN <<>> ELSE upto[i - 1] \o pieces[i] IN upto[n]

Gathered(node, known) == Joined(Parts(node, known), Len(node.kids))

(* Whether a node, or something in it, is of these kinds. *)
Holds(tree, kinds) ==
  LET holds[n \in 1..Len(tree)] ==
        tree[n].kind \in kinds \/ \E i \in 1..Len(tree[n].kids) : Parts(tree[n], holds)[i]
  IN holds

(* A call that only reports an error: its arguments are not evaluated.     *)
Refuses(node) == node.kind = "refused" \/ (node.kind = "main" /\ node.kids # <<>>)

(* The items of a construct that are not its parts', and how many of them  *)
(* come before its i-th part.                                              *)
Own(kind) ==
  CASE kind = "block" -> 0
    [] kind \in {"and", "or", "minus", "print"} -> 2
    [] kind \in Branches -> 3
    [] kind \in Loops -> 4
    [] OTHER -> 1

Before(kind, i) ==
  CASE kind \in {"and", "or", "for"} \cup Branches -> i - 1
    [] kind = "minus" -> 1
    [] kind = "while" -> i
    [] kind = "foreach" -> 2 * (i - 1)
    [] OTHER -> 0

Size(tree) ==
  LET size[n \in 1..Len(tree)] ==
        Own(tree[n].kind) + Total(Parts(tree[n], size), Len(tree[n].kids))
  IN size

(* The first item of a node being item "at": the first of its i-th part,   *)
(* the item its construct is known by, and its last.                       *)
Place(tree, n, at, i) ==
  at + Before(tree[n].kind, i) + Total(Parts(tree[n], Size(tree)), i - 1)

NodeOf(tree, n, at) ==
  CASE tree[n].kind = "while" -> at
    [] tree[n].kind = "foreach" -> Place(tree, n, at, 2) - 2
    [] tree[n].kind \in {"and", "or", "for"} \cup Branches -> Place(tree, n, at, 2) - 1
    [] OTHER -> 0

Final(tree, n, at) == at + Size(tree)[n] - 1

(* The items of a node, those of each of its parts being given. *)
ItemsOf(kind, n, node, kid) ==
  LET all == Joined(kid, n)
      item(k, a) == <<[kind |-> k, node |-> node, arity |-> a]>> IN
  CASE kind \in {"value", "mention"} -> item("operand", 0)
    [] kind = "minus" -> item("operand", 0) \o kid[1] \o item("apply", 2)
    [] kind \in Unary \cup Pairs \cup {"array"} -> all \o item("apply", n)
    [] kind \in {"call", "refused"} -> all \o item("call", n)
    [] kind = "main" -> all \o item("main", n)
    [] kind \in {"and", "or"} ->
         kid[1] \o item(kind, 1) \o kid[2]
           \o item(IF kind = "and" THEN "endand" ELSE "endor", 1)
    [] kind \in Branches ->
         kid[1] \o item("if", 1) \o kid[2] \o item("else", 0) \o kid[3] \o item("endif", 0)
    [] kind \in {"declare", "assign", "discard", "indexassign"} -> all \o item("drop", n)
    [] kind = "print" -> kid[1] \o item("call", 1) \o item("drop", 1)
    [] kind = "block" -> all
    [] kind = "while" ->
         item("loop", 0) \o kid[1] \o item("do", 1) \o kid[2] \o item("next", 0) \o item("end", 0)
    [] kind = "for" ->
         kid[1] \o item("loop", 0) \o kid[2] \o item("do", 1) \o kid[3] \o item("next", 0)
           \o kid[4] \o item("end", 0)
    [] kind = "foreach" ->
         kid[1] \o item("foreach", 1) \o item("each", 0) \o kid[2] \o item("next", 0)
           \o item("endeach", 0)
    [] kind = "return" -> kid[1] \o item("return", 1)
    [] kind \in Jumps -> item(kind, 0)

Items(tree) ==
  LET items[n \in 1..Len(tree)] ==
        [at \in Nat |->
           ItemsOf(tree[n].kind, Len(tree[n].kids), NodeOf(tree, n, at),
                   [i \in 1..Len(tree[n].kids) |->
                       Parts(tree[n], items)[i][Place(tree, n, at, i)]])]
  IN items

BodyOf(tree) ==
  Append(Items(tree)[Len(tree)][1], [kind |-> "finish", node |-> 0, arity |-> 0])
=============================================================================
