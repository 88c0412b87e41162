------------------------------- MODULE Bodies -------------------------------
(***************************************************************************)
(* Statement lists, as Structured explains and Lowering compiles them.     *)
(*                                                                         *)
(* A body is the list of its items in the order they are compiled (a for's *)
(* increment after its body).  The items of one construct share a node:    *)
(*   a "and" b "endand"           a "or" b "endor"                         *)
(*   c "if" ... "else" ... "endif"                     (also a ? b : c)    *)
(*   "loop" c "do" ... "next" increment "end"          (while and for)     *)
(*   a "foreach" "each" ... "next" "endeach"                               *)
(* "operand" evaluates a value without operands, "apply" and "call" one    *)
(* from "arity" operands, "main" is a call of the entry point (refused if  *)
(* it has operands), and "drop" a statement's end, which uses them up.     *)
(* "unsupported" is an expression the grammar has and the bytecode has     *)
(* not, a member of an object or a cast to a string, together with what is *)
(* inside it.  The node of a label and of its gotos is the resolver's      *)
(* label index.                                                            *)
(***************************************************************************)
EXTENDS Integers, Sequences

Kinds ==
  {"operand", "unsupported", "apply", "call", "main", "drop", "and", "endand", "or",
   "endor", "if", "else", "endif", "loop", "do", "next", "end", "foreach", "each", "endeach",
   "break", "continue", "label", "goto", "return", "finish"}

Where(body, kind, node) ==
  CHOOSE i \in 1..Len(body) : body[i].kind = kind /\ body[i].node = node

LoopEnd(body, node) ==
  CHOOSE i \in 1..Len(body) : body[i].node = node /\ body[i].kind \in {"end", "endeach"}

(* The heads of the loops around item i: they are not closed before i.     *)
LoopsAround(body, i) ==
  {head \in 1..i - 1 : /\ body[head].kind \in {"do", "each"}
                       /\ i < LoopEnd(body, body[head].node)}

InnermostLoop(body, i) ==
  body[CHOOSE head \in LoopsAround(body, i) :
         \A other \in LoopsAround(body, i) : other <= head].node

ForeachsAround(body, i) == {head \in LoopsAround(body, i) : body[head].kind = "each"}

(* Items where nothing happens, and the first one from i on where          *)
(* something does: the end of a branch or of a loop's body only leads on.  *)
(* A loop has a condition, so this always ends.                            *)
Silent == {"label", "loop", "next", "else", "endif", "end"}

Onto(body, i) ==
  CASE body[i].kind = "else" -> Where(body, "endif", body[i].node)
    [] body[i].kind = "end" -> Where(body, "loop", body[i].node)
    [] OTHER -> i + 1

From(body, i) ==
  LET skip[k \in 1..Len(body)] == IF body[k].kind \in Silent THEN skip[Onto(body, k)] ELSE k
  IN skip[i]
=============================================================================
