------------------------------ MODULE Bytecode ------------------------------
(***************************************************************************)
(* The VM (run_chunk in src/src/compiler.c) on the chunks that Lowering    *)
(* compiled: an instruction is a step.  One activation of one chunk is     *)
(* run; each has an operand stack and foreach temporaries of its own, and  *)
(* a call of another function is an instruction that takes operands and    *)
(* leaves a value.  "operand", "apply" and "call" stand for all            *)
(* instructions that do so, "drop" for those that only use operands up;    *)
(* which value is left to chance, and so is whether one of them fails (an  *)
(* undefined name, a wrong type, an index out of range).                   *)
(***************************************************************************)
EXTENDS Lowering

CONSTANTS
  Values,     \* natural numbers, 0 and 1 among them; an array is its length
  StackMax    \* the operands run_chunk has room for

ASSUME ValuesAssumption == Values \subseteq Nat /\ StackMax \in Nat

VARIABLES
  running,   \* the chunk that runs once all are compiled
  status,    \* "compiling", "running", "done", "failed", "undefined"
  ip,
  stack,
  env,       \* the foreach temporaries
  element,   \* what the last foreach gave its variable
  out,       \* what the chunk returned
  entered    \* how often main() was called (history), counted to two

machine == <<running, status, ip, stack, env, element, out, entered>>
vars == <<compiler, machine>>

None == -1

Start ==
  /\ status = "compiling"
  /\ ~Compiling
  /\ ~had_error
  /\ status' = "running"
  /\ env' = [t \in 0..temp_counter - 1 |-> None]
  /\ UNCHANGED <<compiler, running, ip, stack, element, out, entered>>

-----------------------------------------------------------------------------

Instruction == chunks[running][ip]

Needs ==
  CASE Instruction.op \in {"apply", "call", "main", "drop"} -> Instruction.arg
    [] Instruction.op \in {"jumpfalse", "define", "store", "length", "bind"} -> 1
    [] Instruction.op \in {"less", "add", "get"} -> 2
    [] OTHER -> 0

Top == stack[Len(stack)]
Below == stack[Len(stack) - 1]
Without(n) == SubSeq(stack, 1, Len(stack) - n)

(* push_value refuses; a call's result is pushed without asking. *)
Pushes == {"operand", "apply", "const", "load", "length", "less", "add", "get"}

MustFail ==
  \/ Len(stack) < Needs
  \/ Instruction.op \in Pushes /\ Len(Without(Needs)) >= StackMax
  \/ Instruction.op = "load" /\ env[Instruction.arg] = None
  \/ Instruction.op = "get" /\ Top \notin 0..Below - 1

MayFail == Instruction.op \in {"operand", "apply", "call", "main", "drop", "length", "bind"}

RuntimeError ==
  /\ status = "running"
  /\ MustFail \/ MayFail
  /\ status' = "failed"
  /\ UNCHANGED <<compiler, running, ip, stack, env, element, out, entered>>

Executing(ops) == status = "running" /\ Instruction.op \in ops /\ ~MustFail

Pushing(v) == stack' = Append(Without(Needs), v)
Popping == stack' = Without(Needs)

Onward == ip' = ip + 1 /\ UNCHANGED <<compiler, running, status, out>>

Compute ==
  /\ Executing({"operand", "apply"})
  /\ \E v \in Values : Pushing(v)
  /\ Onward
  /\ UNCHANGED <<env, element, entered>>

(* Writing beyond the stack is undefined; nothing is said of what follows. *)
(* A call of the entry point with arguments is refused.                    *)
Call ==
  /\ Executing({"call", "main"})
  /\ Instruction.op = "main" => Instruction.arg = 0
  /\ entered' = IF Instruction.op = "main" /\ entered < 2 THEN entered + 1 ELSE entered
  /\ IF Len(Without(Needs)) < StackMax
     THEN (\E v \in Values : Pushing(v)) /\ Onward
     ELSE status' = "undefined" /\ UNCHANGED <<compiler, running, ip, stack, out>>
  /\ UNCHANGED <<env, element>>

(* What foreach and the short-circuit operators compute. *)
Arithmetic ==
  /\ Executing({"const", "length", "less", "add"})
  /\ Pushing(CASE Instruction.op = "const" -> Instruction.arg
               [] Instruction.op = "length" -> Top
               [] Instruction.op = "less" -> IF Below < Top THEN 1 ELSE 0
               [] Instruction.op = "add" -> Below + Top)
  /\ Onward
  /\ UNCHANGED <<env, element, entered>>

Drop ==
  /\ Executing({"drop"})
  /\ Popping
  /\ Onward
  /\ UNCHANGED <<env, element, entered>>

Load ==
  /\ Executing({"load"})
  /\ Pushing(env[Instruction.arg])
  /\ Onward
  /\ UNCHANGED <<env, element, entered>>

Assign ==
  /\ Executing({"define", "store"})
  /\ env' = [env EXCEPT ![Instruction.arg] = Top]
  /\ Popping
  /\ Onward
  /\ UNCHANGED <<element, entered>>

(* The k-th element of an array is taken to be k. *)
Get ==
  /\ Executing({"get"})
  /\ Pushing(Top)
  /\ Onward
  /\ UNCHANGED <<env, element, entered>>

Bind ==
  /\ Executing({"bind"})
  /\ element' = Top
  /\ Popping
  /\ Onward
  /\ UNCHANGED <<env, entered>>

Jump ==
  /\ Executing({"jump"})
  /\ ip' = Instruction.arg
  /\ UNCHANGED <<compiler, running, status, stack, env, element, out, entered>>

(* Mutant: the condition stays on the stack. *)
JumpIfFalsePeek ==
  /\ Executing({"jumpfalse"})
  /\ ip' = IF Top = 0 THEN Instruction.arg ELSE ip + 1
  /\ UNCHANGED <<compiler, running, status, stack, env, element, out, entered>>

JumpIfFalse ==
  /\ Executing({"jumpfalse"})
  /\ ip' = IF Top = 0 THEN Instruction.arg ELSE ip + 1
  /\ Popping
  /\ UNCHANGED <<compiler, running, status, env, element, out, entered>>

Return ==
  /\ Executing({"return"})
  /\ out' = IF stack = <<>> THEN 0 ELSE Top
  /\ status' = "done"
  /\ UNCHANGED <<compiler, running, ip, stack, env, element, entered>>

Init ==
  /\ CompilerInit
  /\ running \in 1..Len(program.bodies)
  /\ status = "compiling"
  /\ ip = 1
  /\ stack = <<>>
  /\ env = <<>>
  /\ element = None
  /\ out = None
  /\ entered = 0

Run ==
  \/ Compute \/ Call \/ Arithmetic \/ Drop \/ Load \/ Assign \/ Get \/ Bind
  \/ Jump \/ JumpIfFalse \/ Return \/ RuntimeError

Next ==
  \/ Compile /\ UNCHANGED machine
  \/ Start
  \/ Run

Spec == Init /\ [][Next]_vars

-----------------------------------------------------------------------------
(* Properties *)

Ops == {"operand", "apply", "call", "main", "drop", "return", "const", "load", "define",
        "store", "length", "less", "add", "get", "bind", "jump", "jumpfalse"}

(* Addresses are in the chunk or just behind it, jumps that wait for their *)
(* target have none, and the operand stack has room for what is on it.     *)
TypeOK ==
  /\ \A i \in 1..Len(code) :
       code[i].op \in Ops /\ code[i].arg \in Nat /\ code[i].item \in 1..Len(program.bodies[chunk])
  /\ \A i \in 1..Len(labels) : labels[i].target \in 1..Len(code) + 1
  /\ \A i \in 1..Len(pending) : pending[i].jump \in 1..Len(code)
  /\ \A i \in 1..Len(loops) : (loops[i].breaks \cup loops[i].continues) \subseteq 1..Len(code)
  /\ status \in {"compiling", "running", "done", "failed", "undefined"}
  /\ status # "compiling" => ip \in 1..Len(chunks[running])
  /\ Len(stack) <= StackMax
  /\ entered \in 0..2

(* A finished chunk has no jump left to patch, and every construct and     *)
(* loop that was entered has been left (compiler.c, "the alternative to    *)
(* checking is jumping to address -1", "Every loop pops its own scope").   *)
JumpsLand ==
  /\ \A c \in 1..Len(chunks) : \A i \in 1..Len(chunks[c]) :
       chunks[c][i].op \in {"jump", "jumpfalse"} => chunks[c][i].arg \in 1..Len(chunks[c])
  /\ pos = 1 => nested = <<>> /\ loops = <<>>

(* What the resolver accepts is compiled (compiler.c: "A pending goto with *)
(* no label cannot happen: the resolver rejected that", "The resolver has  *)
(* already refused either outside a loop"), but for the expressions there  *)
(* is no bytecode for: each of them is an error, and nothing else is one.  *)
AcceptedCompiles ==
  had_error <=>
    \E b \in 1..Len(program.bodies) : \E i \in At(program.bodies[b], {"unsupported"}) :
      b < chunk \/ (b = chunk /\ i < pos)

(* Two foreach loops of a program never share a temporary, whichever       *)
(* function they are in (make_temp_name counts for the whole program).     *)
TempsDistinct ==
  LET defines(c) == {i \in 1..Len(chunks[c]) : chunks[c][i].op = "define"} IN
  \A c, d \in 1..Len(chunks) : \A i \in defines(c), j \in defines(d) :
    chunks[c][i].arg = chunks[d][j].arg => c = d /\ i = j

Of(instruction) == program.bodies[running][instruction.item]

(* No statement leaves an operand behind: whichever way execution came to  *)
(* a break, a continue, a goto, a foreach's next turn or the end of the    *)
(* chunk, the stack is empty there.  Otherwise a loop would fill it.       *)
StatementsLeaveNothing ==
  /\ status = "running"
  /\ Of(Instruction).kind \in {"break", "continue", "goto", "each", "endeach", "finish"}
  /\ ip > 1 => chunks[running][ip - 1].item # Instruction.item
  => stack = <<>>

(* The operands an instruction takes are on the stack, on whichever way    *)
(* execution came to it, and a return finds its value: the VM's "stack     *)
(* underflow" (pop_value), and the 0 that BC_FUNCTION_RETURN gives for an  *)
(* empty stack, are for code the compiler does not make.                   *)
OperandsAreThere ==
  status = "running" =>
    /\ Needs <= Len(stack)
    /\ Instruction.op = "return" => stack # <<>>

(* A foreach's temporaries are bound wherever they are read: no goto the   *)
(* resolver lets through reaches the inside of a foreach around its head   *)
(* (resolve.c: it "would skip the loop counter it declares").              *)
CountersBound ==
  status = "running" /\ Instruction.op = "load" => env[Instruction.arg] # None

AtTheEnd ==
  /\ running = Len(program.bodies)
  /\ status = "done"
  /\ Of(Instruction).kind = "finish"

(* A file with an entry point whose top level does not call it gets one    *)
(* call of it when the top level has run to its end, whatever statements   *)
(* that consists of.                                                       *)
EntryRuns ==
  LET top == program.bodies[Len(program.bodies)] IN
  AtTheEnd /\ program.entry /\ At(top, {"main"}) = {} => entered = 1

-----------------------------------------------------------------------------
(* The chunk does what the statement list means. *)

Temp(node, k) ==
  LET each == {i \in 1..Len(chunks[running]) :
                 /\ Of(chunks[running][i]).kind = "each"
                 /\ Of(chunks[running][i]).node = node}
  IN chunks[running][(CHOOSE i \in each : \A j \in each : i <= j) + k].arg

HasLoop(node) ==
  /\ status # "compiling"
  /\ \E i \in 1..Len(program.bodies[running]) :
       LET item == program.bodies[running][i] IN item.kind = "each" /\ item.node = node

SettingUp(node) == Instruction.after /\ Of(Instruction) = [kind |-> "foreach", node |-> node, arity |-> 1]

AbsLength == [n \in Nodes |-> IF HasLoop(n) THEN env[Temp(n, 1)] ELSE None]

AbsTurn ==
  [n \in Nodes |-> IF ~HasLoop(n) THEN None
                   ELSE IF SettingUp(n) THEN 0 ELSE env[Temp(n, 0)]]

(* Where execution is once an item's effect is had. *)
Reached(body, i) ==
  CASE body[i].kind \in {"endand", "endor", "foreach"} -> i + 1
    [] body[i].kind = "or" -> Where(body, "endor", body[i].node) + 1
    [] body[i].kind = "endeach" -> Where(body, "each", body[i].node)

AbsAt ==
  LET body == program.bodies[running] IN
  IF status = "compiling" THEN From(body, 1)
  ELSE IF Instruction.after THEN From(body, Reached(body, Instruction.item))
  ELSE From(body, Instruction.item)

(* Between the instructions of one item the stack holds what only they use.*)
AbsVals ==
  IF status = "compiling" THEN <<>>
  ELSE IF \/ Of(Instruction).kind \in {"each", "endeach", "finish"}
          \/ Of(Instruction).kind = "foreach" /\ Instruction.after THEN <<>>
  ELSE IF Instruction.after /\ Instruction.op = "const" THEN Append(stack, Instruction.arg)
  ELSE stack

AbsEnded ==
  CASE status \in {"compiling", "running", "undefined"} -> "no"
    [] status = "done" -> "done"
    [] status = "failed" -> "failed"

Plan == INSTANCE Structured WITH
  body <- program.bodies[running], at <- AbsAt, vals <- AbsVals, length <- AbsLength,
  turn <- AbsTurn, element <- element, result <- out, ended <- AbsEnded

(* The chunk of a body, run by the VM, does what the body means: every     *)
(* step of it is a step of Structured or none.                             *)
ImplementsStructured == Plan!Spec
=============================================================================
