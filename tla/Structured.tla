----------------------------- MODULE Structured -----------------------------
(***************************************************************************)
(* What a statement list (Bodies) means: operands are evaluated left to    *)
(* right, "&&" and "||" stop at the operand that decides, "break" and      *)
(* "continue" belong to the innermost loop, "continue" still takes the     *)
(* loop's next step, a foreach goes through its array once, and a goto     *)
(* goes to its label.  A value is an integer, an array its length: that is *)
(* all of an array that decides where execution goes.                      *)
(***************************************************************************)
EXTENDS Bodies

CONSTANTS
  Values,   \* with 0 (false) and 1 among them
  Nodes

VARIABLES
  body,
  at,       \* the item execution is at
  vals,     \* the operands evaluated so far
  length,   \* of each foreach node, its array's length
  turn,     \* and the element it is at
  element,  \* the element the last foreach gave its variable
  result,
  ended     \* "no", "done" or "failed"

vars == <<body, at, vals, length, turn, element, result, ended>>

None == -1

Item == body[at]
Top == vals[Len(vals)]
Without(n) == SubSeq(vals, 1, Len(vals) - n)

Running(kinds) == ended = "no" /\ Item.kind \in kinds

Going(i) == at' = From(body, i) /\ UNCHANGED <<body, result, ended>>

Straight == UNCHANGED <<length, turn, element>>

Evaluate ==
  /\ Running({"operand", "unsupported", "apply", "call", "main"})
  /\ \E v \in Values : vals' = Append(Without(Item.arity), v)
  /\ Going(at + 1)
  /\ Straight

Drop ==
  /\ Running({"drop"})
  /\ vals' = Without(Item.arity)
  /\ Going(at + 1)
  /\ Straight

(* if, while and for *)
Test ==
  /\ Running({"if", "do"})
  /\ vals' = Without(1)
  /\ Going(IF Top # 0 THEN at + 1
           ELSE IF Item.kind = "if" THEN Where(body, "else", Item.node) + 1
           ELSE LoopEnd(body, Item.node) + 1)
  /\ Straight

(* The first operand of a short-circuit operator decides, or is forgotten. *)
FirstOperand ==
  /\ Running({"and", "or"})
  /\ LET last == Where(body, IF Item.kind = "and" THEN "endand" ELSE "endor", Item.node)
         decides == (Item.kind = "or") <=> (Top # 0) IN
     IF decides
     THEN vals' = Append(Without(1), IF Item.kind = "or" THEN 1 ELSE 0) /\ Going(last + 1)
     ELSE vals' = Without(1) /\ Going(at + 1)
  /\ Straight

SecondOperand ==
  /\ Running({"endand", "endor"})
  /\ vals' = Append(Without(1), IF Top # 0 THEN 1 ELSE 0)
  /\ Going(at + 1)
  /\ Straight

EnterForeach ==
  /\ Running({"foreach"})
  /\ length' = [length EXCEPT ![Item.node] = Top]
  /\ turn' = [turn EXCEPT ![Item.node] = 0]
  /\ vals' = Without(1)
  /\ Going(at + 1)
  /\ UNCHANGED element

Each ==
  /\ Running({"each"})
  /\ IF turn[Item.node] < length[Item.node]
     THEN element' = turn[Item.node] /\ Going(at + 1)
     ELSE UNCHANGED element /\ Going(LoopEnd(body, Item.node) + 1)
  /\ UNCHANGED <<vals, length, turn>>

NextElement ==
  /\ Running({"endeach"})
  /\ turn' = [turn EXCEPT ![Item.node] = @ + 1]
  /\ Going(Where(body, "each", Item.node))
  /\ UNCHANGED <<vals, length, element>>

Jump ==
  /\ Running({"break", "continue", "goto"})
  /\ Going(CASE Item.kind = "break" -> LoopEnd(body, InnermostLoop(body, at)) + 1
             [] Item.kind = "continue" -> Where(body, "next", InnermostLoop(body, at))
             [] Item.kind = "goto" -> Where(body, "label", Item.node))
  /\ UNCHANGED vals
  /\ Straight

Finish ==
  /\ Running({"return", "finish"})
  /\ result' = IF Item.kind = "return" THEN Top ELSE 0
  /\ ended' = "done"
  /\ UNCHANGED <<body, at, vals, length, turn, element>>

(* Evaluation may meet a runtime error anywhere. *)
Fail ==
  /\ ended = "no"
  /\ ended' = "failed"
  /\ UNCHANGED <<body, at, vals, length, turn, element, result>>

Init ==
  /\ at = From(body, 1)
  /\ vals = <<>>
  /\ length = [n \in Nodes |-> None]
  /\ turn = [n \in Nodes |-> None]
  /\ element = None
  /\ result = None
  /\ ended = "no"

Next ==
  \/ Evaluate \/ Drop \/ Test \/ FirstOperand \/ SecondOperand
  \/ EnterForeach \/ Each \/ NextElement \/ Jump \/ Finish \/ Fail

Spec == Init /\ [][Next]_vars
=============================================================================
