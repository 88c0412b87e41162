------------------------------- MODULE Nesting -------------------------------
(***************************************************************************)
(* Where an item of a body stands.  The compiler is given a tree, and its  *)
(* functions call one another along it: what a call may rely on is what    *)
(* the calls around it have begun.  A context says so for one item:        *)
(*   open      the constructs around it, innermost first, each by the last *)
(*             of its items before                                         *)
(*   loops     the loops among them, by the "do" or "each" they began with *)
(*   operands  the values that wait to be used                             *)
(*   part      "step" in the increment of the innermost loop: that is an   *)
(*             expression, and no statement stands there                   *)
(***************************************************************************)
EXTENDS Bodies

CONSTANT Nesting(_)   \* the contexts of a body's items

Contexts == [open : Seq(Nat), loops : Seq(Nat), operands : Nat, part : {"body", "step"}]

Outermost == [open |-> <<>>, loops |-> <<>>, operands |-> 0, part |-> "body"]

(* Item i goes on with the innermost construct, which began among the same *)
(* loops.                                                                  *)
Continues(body, n, i, kinds) ==
  /\ n[i].open # <<>>
  /\ body[Head(n[i].open)].kind \in kinds
  /\ body[Head(n[i].open)].node = body[i].node
  /\ n[Head(n[i].open)].loops = n[i].loops
  /\ n[Head(n[i].open)].part = n[i].part

(* Item i goes on with the innermost loop. *)
ContinuesLoop(body, n, i, kinds) ==
  /\ n[i].loops # <<>>
  /\ n[i].open # <<>>
  /\ Head(n[i].open) = Head(n[i].loops)
  /\ body[Head(n[i].loops)].kind \in kinds
  /\ body[Head(n[i].loops)].node = body[i].node

MovesOperands(body, n, i) ==
  LET item == body[i] IN
  \/ /\ item.kind \in {"operand", "unsupported"}
     /\ item.arity = 0
     /\ n[i + 1] = [n[i] EXCEPT !.operands = @ + 1]
  \/ /\ item.kind \in {"apply", "call", "main"}
     /\ item.arity <= n[i].operands
     /\ n[i + 1] = [n[i] EXCEPT !.operands = @ - item.arity + 1]
  \/ /\ item.kind \in {"drop", "return"}
     /\ item.kind = "return" => item.arity = 1
     /\ item.arity <= n[i].operands
     /\ n[i + 1] = [n[i] EXCEPT !.operands = @ - item.arity]

MovesBranch(body, n, i) ==
  LET opened == n[Head(n[i].open)] IN
  \/ /\ body[i].kind \in {"if", "and", "or"}
     /\ n[i].operands > 0
     /\ n[i + 1] = [n[i] EXCEPT !.operands = @ - 1, !.open = <<i>> \o @]
  \/ /\ body[i].kind = "else"
     /\ Continues(body, n, i, {"if"})
     /\ n[i + 1] = [n[i] EXCEPT !.operands = opened.operands - 1, !.open = <<i>> \o Tail(@)]
  \/ /\ \/ body[i].kind = "endif" /\ Continues(body, n, i, {"else"})
        \/ body[i].kind = "endand" /\ Continues(body, n, i, {"and"})
        \/ body[i].kind = "endor" /\ Continues(body, n, i, {"or"})
     /\ n[i].operands = opened.operands
     /\ n[i + 1] = [n[i] EXCEPT !.open = Tail(@)]

MovesLoop(body, n, i) ==
  \/ /\ body[i].kind = "loop"
     /\ n[i].operands = 0 /\ n[i].part = "body"
     /\ n[i + 1] = [n[i] EXCEPT !.open = <<i>> \o @]
  \/ /\ body[i].kind = "do"
     /\ n[i].operands = 1 /\ n[i].part = "body"
     /\ Continues(body, n, i, {"loop"})
     /\ n[i + 1] = [n[i] EXCEPT !.operands = 0, !.open = <<i>> \o Tail(@), !.loops = <<i>> \o @]
  \/ /\ body[i].kind = "foreach"
     /\ n[i].operands = 1 /\ n[i].part = "body"
     /\ body[i + 1].kind = "each" /\ body[i + 1].node = body[i].node
     /\ n[i + 1] = [n[i] EXCEPT !.operands = 0]
  \/ /\ body[i].kind = "each"
     /\ n[i].operands = 0 /\ n[i].part = "body"
     /\ n[i + 1] = [n[i] EXCEPT !.open = <<i>> \o @, !.loops = <<i>> \o @]
  \/ /\ body[i].kind = "next"
     /\ n[i].operands = 0 /\ n[i].part = "body"
     /\ ContinuesLoop(body, n, i, {"do", "each"})
     /\ n[i + 1] = [n[i] EXCEPT !.part = "step"]
  \/ /\ \/ body[i].kind = "end" /\ ContinuesLoop(body, n, i, {"do"})
        \/ body[i].kind = "endeach" /\ ContinuesLoop(body, n, i, {"each"})
     /\ n[i].operands = 0 /\ n[i].part = "step"
     /\ n[i + 1] = [n[i] EXCEPT !.open = Tail(@), !.loops = Tail(@), !.part = "body"]
  \/ /\ body[i].kind \in {"break", "continue", "label", "goto"}
     /\ n[i].operands = 0 /\ n[i].part = "body"
     /\ n[i + 1] = n[i]

(* From each item to the one after it; the last one, and no other, is the  *)
(* end of the body, where nothing is open.                                 *)
Moves(body, n) ==
  /\ n[1] = Outermost
  /\ \A i \in 1..Len(body) - 1 :
       MovesOperands(body, n, i) \/ MovesBranch(body, n, i) \/ MovesLoop(body, n, i)
  /\ body[Len(body)].kind = "finish"
  /\ n[Len(body)] = Outermost

Heads == {"do", "each"}
Ends == {"end", "endeach"}

(* Every loop has a node of its own. *)
LoopsApart(body) ==
  /\ \A i, j \in 1..Len(body) :
       body[i].kind \in Heads /\ body[j].kind \in Heads /\ body[i].node = body[j].node => i = j
  /\ \A i, j \in 1..Len(body) :
       body[i].kind \in Ends /\ body[j].kind \in Ends /\ body[i].node = body[j].node => i = j

WellNested(body, n) ==
  /\ body # <<>>
  /\ n \in Seq(Contexts)
  /\ Len(n) = Len(body)
  /\ Moves(body, n)
  /\ LoopsApart(body)
=============================================================================
