---------------------------- MODULE BoxedProgram ----------------------------
(***************************************************************************)
(* What a program's variables hold, every value keeping its tag: the       *)
(* meaning that the interpreter, the VM and the assembly backend give to a *)
(* top level and one function, and that native slots must not change.      *)
(* Each statement may stand in a conditional and all of them in a loop, so *)
(* those of the running scope are executed in any order.                   *)
(***************************************************************************)
EXTENDS TypeCheck

CONSTANTS
  Globals,     \* the symbols of the top level; the others are the function's
  Names,
  NameOf       \* of each symbol, its name

VARIABLES
  program,     \* any: Init leaves it open
  held,        \* of each symbol, its value or Unbound
  env,         \* of each name the runtime knows, its value
  inside,      \* whether the function is running
  seen,        \* the last value printed
  status       \* "running" or "failed"

vars == <<program, held, env, inside, seen, status>>

(* A program: the top level's statements and the function's, the one that  *)
(* comes first in the file, the function's parameters, their types and the *)
(* arguments' values, and the names of runtime constants.                  *)
Text(p) == IF p.first = "top" THEN p.top \o p.body ELSE p.body \o p.top

InBody(p, i) ==
  IF p.first = "top" THEN i > Len(p.top) ELSE i <= Len(p.body)

(* The global of the same name, of a local that is not a parameter.        *)
Fallback(p, symbol) ==
  LET bound == {g \in Globals : NameOf[g] = NameOf[symbol] /\ Binders(p.top, g) # {}}
      local == symbol \notin Globals /\ ~(\E i \in 1..Len(p.params) : p.params[i] = symbol)
  IN IF local /\ bound # {} THEN CHOOSE g \in bound : TRUE ELSE NoSymbol

(* Where a name leads: its own binding, the global's, the runtime's. *)
Leads(p, values, symbol) ==
  LET fallback == Fallback(p, symbol) IN
  CASE values[symbol] # Unbound -> "own"
    [] values[symbol] = Unbound /\ fallback # NoSymbol /\ values[fallback] # Unbound -> "global"
    [] values[symbol] = Unbound /\ (fallback = NoSymbol \/ values[fallback] = Unbound) ->
         IF env[NameOf[symbol]] # Unbound THEN "env" ELSE "nowhere"

Meaning(p, values) ==
  [symbol \in Symbols |->
     LET leads == Leads(p, values, symbol) IN
     CASE leads = "own" -> values[symbol]
       [] leads = "global" -> values[Fallback(p, symbol)]
       [] OTHER -> env[NameOf[symbol]]]

Executing(i) == status = "running" /\ (inside <=> InBody(program, i))
Statements == 1..Len(Text(program))
At(i) == Text(program)[i]

Result(i, truth) == Whole(At(i).expr, Eval(At(i).expr, Meaning(program, held), i, truth))

Declare ==
  \E i \in Statements, truth \in BOOLEAN :
    /\ Executing(i) /\ At(i).op = "declare" /\ Result(i, truth) # Error
    /\ held' = [held EXCEPT ![At(i).symbol] = Result(i, truth)]
    /\ UNCHANGED <<program, env, inside, seen, status>>

Assign ==
  \E i \in Statements, truth \in BOOLEAN :
    LET leads == Leads(program, held, At(i).symbol)
        target == IF leads = "global" THEN Fallback(program, At(i).symbol) ELSE At(i).symbol IN
    /\ Executing(i) /\ At(i).op = "assign" /\ Result(i, truth) # Error
    /\ IF leads = "env"
       THEN env' = [env EXCEPT ![NameOf[target]] = Result(i, truth)] /\ UNCHANGED held
       ELSE held' = [held EXCEPT ![target] = Result(i, truth)] /\ UNCHANGED env
    /\ UNCHANGED <<program, inside, seen, status>>

(* One turn of a loop over an array. *)
Foreach ==
  \E i \in Statements, truth \in BOOLEAN : \E tag \in Result(i, truth).elements :
    LET index == At(i).index IN
    /\ Executing(i) /\ At(i).op = "foreach"
    /\ held' = [held EXCEPT ![At(i).symbol] = Scalar(tag, i),
                            ![IF index = NoSymbol THEN At(i).symbol ELSE index] =
                              Scalar(IF index = NoSymbol THEN tag ELSE "int", i)]
    /\ UNCHANGED <<program, env, inside, seen, status>>

Use ==
  \E i \in Statements, truth \in BOOLEAN :
    /\ Executing(i) /\ At(i).op = "use" /\ Result(i, truth) # Error
    /\ seen' = Result(i, truth)
    /\ UNCHANGED <<program, held, env, inside, status>>

Fails(i, value) == value = Error \/ (At(i).op = "foreach" /\ value.tag # "array")

RuntimeError ==
  \E i \in Statements, truth \in BOOLEAN :
    /\ Executing(i) /\ Fails(i, Result(i, truth))
    /\ status' = "failed"
    /\ UNCHANGED <<program, held, env, inside, seen>>

(* Of two parameters with one name, the last argument counts. *)
Passed(p, symbol) ==
  LET positions == {i \in 1..Len(p.params) : p.params[i] = symbol} IN
  IF positions = {} THEN Unbound
  ELSE p.args[CHOOSE i \in positions : \A j \in positions : j <= i]

Call ==
  /\ status = "running" /\ ~inside
  /\ inside' = TRUE
  /\ held' = [s \in Symbols |-> IF s \in Globals THEN held[s] ELSE Passed(program, s)]
  /\ UNCHANGED <<program, env, seen, status>>

Return ==
  /\ status = "running" /\ inside
  /\ inside' = FALSE
  /\ held' = [s \in Symbols |-> IF s \in Globals THEN held[s] ELSE Unbound]
  /\ UNCHANGED <<program, env, seen, status>>

RuntimeValue == Scalar("int", 99)

Init ==
  /\ held = [s \in Symbols |-> Unbound]
  /\ env = [n \in Names |-> IF n \in program.constants THEN RuntimeValue ELSE Unbound]
  /\ inside = FALSE
  /\ seen = Unbound
  /\ status = "running"

Next ==
  \/ Declare \/ Assign \/ Foreach \/ Use \/ RuntimeError
  \/ Call \/ Return

Spec == Init /\ [][Next]_vars
=============================================================================
