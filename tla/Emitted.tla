------------------------------ MODULE Emitted ------------------------------
(***************************************************************************)
(* What a body does once a native backend has emitted it: an instruction   *)
(* is a step.  As in Bytecode, one activation is run, a value is a small   *)
(* integer and an array its length, what an operator or a call computes is *)
(* left to chance, and so is whether it fails.                             *)
(***************************************************************************)
EXTENDS TLC, AsmEmit, CEmit

CONSTANTS
  Programs,    \* a tree; whether it is the top level; whether there is an entry point
  Values,      \* with 0 and 1 among them
  Nodes,
  Backends     \* of "asm" and "c"

VARIABLES
  program,
  body,      \* its items
  backend,
  code,
  pc,
  mem,       \* of each location written so far, its value
  status,    \* "running", "done" or "failed"
  element,   \* what the last foreach gave its variable
  out,       \* what was returned (at the top level: and ignored)
  entered,   \* how often the entry point was called, counted to two (history)
  called,    \* the last call made by this statement, or 0 (history)
  length,    \* of each foreach, the length its array was last seen to have
  turn       \* and the count it was last seen to have (history)

ASSUME ProgramsAssumption ==
  \A p \in Programs : TreeOK(p.tree) /\ p.main \in BOOLEAN /\ p.entry \in BOOLEAN

ASSUME BackendsAssumption == Backends \subseteq {"asm", "c"}

unit == <<program, body, backend, code>>
memory == <<element, length, turn>>
history == <<entered, called>>
vars == <<unit, pc, mem, status, out, memory, history>>

None == -1

Emit(p, b) == IF b = "asm" THEN AsmFunction(p) ELSE CFunction(p)

Instruction == code[pc]
Read(loc) == IF loc \in DOMAIN mem THEN mem[loc] ELSE None
Source(i) == Read(Instruction.srcs[i])
Node == body[Instruction.item].node

Executing(ops) == status = "running" /\ Instruction.op \in ops

Write(loc, v) == mem' = (loc :> v) @@ mem
Onward == pc' = pc + 1 /\ UNCHANGED <<unit, status, out>>

Evaluate ==
  /\ Executing({"eval"})
  /\ \E v \in Values : Write(Instruction.dest, v)
  /\ Onward
  /\ UNCHANGED <<memory, history>>

Call ==
  /\ Executing({"call", "main"})
  /\ \E v \in Values : Write(Instruction.dest, v)
  /\ entered' = IF Instruction.op = "main" /\ entered < 2 THEN entered + 1 ELSE entered
  /\ called' = Instruction.item
  /\ Onward
  /\ UNCHANGED memory

(* Constants, the answer of HDTruthy as a value, and moves. *)
Move ==
  /\ Executing({"const", "truth", "copy"})
  /\ Write(Instruction.dest,
           CASE Instruction.op = "const" -> Instruction.n
             [] Instruction.op = "truth" -> IF Source(1) # 0 THEN 1 ELSE 0
             [] Instruction.op = "copy" -> Source(1))
  /\ Onward
  /\ UNCHANGED <<memory, history>>

(* A loop keeps its array and its count from one statement to the next,    *)
(* and a variable its slot; all else that a statement leaves behind is     *)
(* forgotten, and TypeOK says that nothing reads it.                       *)
Kept == {Home} \cup
  UNION {{code[i].srcs[1], code[i].srcs[2]} : i \in {j \in 1..Len(code) : code[j].op = "until"}}

EndStatement ==
  /\ Executing({"drop"})
  /\ mem' = [loc \in DOMAIN mem \cap Kept |-> mem[loc]]
  /\ called' = 0
  /\ Onward
  /\ UNCHANGED <<memory, entered>>

Jump ==
  /\ Executing({"jz", "jnz", "jump"})
  /\ pc' = IF \/ Instruction.op = "jump"
              \/ Instruction.op = "jz" /\ Source(1) = 0
              \/ Instruction.op = "jnz" /\ Source(1) # 0
           THEN Instruction.n ELSE pc + 1
  /\ UNCHANGED <<unit, status, out, mem, memory, history>>

EnterForeach ==
  /\ Executing({"enter"})
  /\ Write(Instruction.dest, 0)
  /\ length' = [length EXCEPT ![Node] = Source(1)]
  /\ turn' = [turn EXCEPT ![Node] = 0]
  /\ Onward
  /\ UNCHANGED <<element, history>>

(* The length is read anew on every turn. *)
TestForeach ==
  /\ Executing({"until"})
  /\ Write(Instruction.dest, Source(2))
  /\ length' = [length EXCEPT ![Node] = Source(2)]
  /\ turn' = [turn EXCEPT ![Node] = Source(1)]
  /\ pc' = IF Source(1) >= Source(2) THEN Instruction.n ELSE pc + 1
  /\ UNCHANGED <<unit, status, out, element, history>>

BindElement ==
  /\ Executing({"bind"})
  /\ Source(1) \in 0..Source(2) - 1
  /\ mem' = (Instruction.dest :> Source(1)) @@ (Instruction.spare :> Source(1)) @@ mem
  /\ element' = Source(1)
  /\ Onward
  /\ UNCHANGED <<length, turn, history>>

StepForeach ==
  /\ Executing({"step"})
  /\ Write(Instruction.dest, Source(1) + 1)
  /\ turn' = [turn EXCEPT ![Node] = Source(1) + 1]
  /\ Onward
  /\ UNCHANGED <<element, length, history>>

Finish ==
  /\ Executing({"return", "finish"})
  /\ out' = IF Instruction.op = "return" THEN Source(1) ELSE 0
  /\ status' = "done"
  /\ UNCHANGED <<unit, pc, mem, memory, history>>

MayFail == Instruction.op \in {"eval", "call", "main", "refuse", "drop", "until", "bind"}

RuntimeError ==
  /\ status = "running"
  /\ MayFail
  /\ status' = "failed"
  /\ UNCHANGED <<unit, pc, mem, out, memory, history>>

Init ==
  /\ program \in Programs
  /\ body = BodyOf(program.tree)
  /\ backend \in Backends
  /\ code = Assembled(Emit(program, backend))
  /\ pc = 1
  /\ mem = <<>>
  /\ status = "running"
  /\ element = None
  /\ out = None
  /\ entered = 0
  /\ called = 0
  /\ length = [n \in Nodes |-> None]
  /\ turn = [n \in Nodes |-> None]

Next ==
  \/ Evaluate \/ Call \/ Move \/ EndStatement \/ Jump
  \/ EnterForeach \/ TestForeach \/ BindElement \/ StepForeach
  \/ Finish \/ RuntimeError

Spec == Init /\ [][Next]_vars

-----------------------------------------------------------------------------
(* Properties *)

Uses(ins) == {ins.dest, ins.spare} \cup {ins.srcs[i] : i \in 1..Len(ins.srcs)}
Touched == UNION {Uses(code[i]) : i \in 1..Len(code)}

(* Jumps stay in the code, values where the machine keeps them, and an     *)
(* instruction only reads what an earlier one wrote: neither backend       *)
(* clears its temporaries.                                                 *)
TypeOK ==
  /\ \A i \in 1..Len(code) : code[i].item \in 1..Len(body) /\ code[i].n \in 0..Len(code)
  /\ pc \in 1..Len(code)
  /\ status \in {"running", "done", "failed"}
  /\ DOMAIN mem \subseteq Touched
  /\ status = "running" => \A i \in 1..Len(Instruction.srcs) : Instruction.srcs[i] \in DOMAIN mem

(* The frame is sized by a walk ahead of the one that uses it (emit_asm.c: *)
(* "a maximum cannot drift out of step"): every byte of a scratch slot is  *)
(* where the frame has scratch slots, and every byte of a call's outgoing  *)
(* arguments, of which the first is the caller's destination, below them.  *)
FrameHolds ==
  LET frame == [slots |-> 1, scratch |-> ScratchCount(program),
                max_args |-> Outgoing(program.tree)]
      ArgumentsOf(i) == Len(code[i].srcs) IN
  backend = "asm" =>
    /\ \A loc \in Touched : loc[1] = "scratch" =>
         /\ scratch_base(frame) <= loc_scratch(frame, loc[2])
         /\ loc_scratch(frame, loc[2]) + HD_VALUE_SIZE <= bound_base(frame)
    /\ \A i \in 1..Len(code) : code[i].op \in {"call", "main"} =>
         outgoing(frame, ArgumentsOf(i)) + 8 <= scratch_base(frame)

(* Every element of a call site's array that is used has been declared: of *)
(* the walk that declares them and the one that uses them, both give each  *)
(* site the same number (emit_c.c: they "have to allocate ids in           *)
(* lockstep").  They do not if a refused call has calls in its arguments:  *)
(* the first walk counts them and the second leaves them out, and the next *)
(* site takes an array that was declared for one of them.                  *)
RefusesCalls(tree) ==
  \E n \in 1..Len(tree) : Refuses(tree[n]) /\ Len(Counted(tree)[n]) > 1

Declared(widths, loc) == loc[2] < Len(widths) /\ loc[3] < widths[loc[2] + 1]

TempsDeclared ==
  LET widths == declare_temps(program.tree) IN
  ~RefusesCalls(program.tree) => \A loc \in Touched : loc[1] = "t" => Declared(widths, loc)

(* What the walks over a top level see otherwise than the VM does: the C   *)
(* backend's does not look into a conditional expression, and the assembly *)
(* backend's takes a mention of the entry point's name for a call of it.   *)
Conditional(tree) ==
  \E n \in 1..Len(tree) : tree[n].kind = "ternary" /\ Holds(tree, {"main"})[n]

Mentions(tree) == \E n \in 1..Len(tree) : tree[n].kind = "mention"

Misjudged(tree) == IF backend = "c" THEN Conditional(tree) ELSE Mentions(tree)

(* A top level is to call the entry point at its end if it exists and none *)
(* of its statements is a call of it, the VM's rule (compiler.c:           *)
(* chunk_calls, which finds a call that never runs and one that is refused *)
(* as well).  Both backends promise that ("on the same terms as the VM",   *)
(* "mirrors chunk_calls") and keep it but for what they misjudge; even so, *)
(* the assembly backend adds no call that is not due, and the C backend    *)
(* leaves none out that is.                                                *)
EntryAgrees ==
  LET calls == \E i \in 1..Len(body) : body[i].kind = "main"
      starts == \E i \in 1..Len(code) : code[i].op = "main" /\ body[code[i].item].kind = "finish"
      due == program.main /\ program.entry /\ ~calls IN
  /\ ~Misjudged(program.tree) => (starts <=> due)
  /\ backend = "asm" => (starts => due)
  /\ backend = "c" => (due => starts)

(* No call is made before one to its left: "what is left is order between  *)
(* two independent sub-expressions, which the VM also leaves unobservable  *)
(* because neither can see the other's effects" (emit_c.c).  The calls of  *)
(* two operands do have effects, and are such sub-expressions.             *)
CallsInOrder ==
  status = "running" /\ Instruction.op = "call" => called <= Instruction.item

-----------------------------------------------------------------------------
(* The instructions do what the statement list means. *)

Reached(item) ==
  CASE item.kind \in {"endand", "endor"} -> Instruction.item + 1
    [] item.kind = "endeach" -> Where(body, "each", item.node)

AbsAt ==
  From(body, IF Instruction.after THEN Reached(body[Instruction.item]) ELSE Instruction.item)

AbsVals == [i \in 1..Len(Instruction.live) |-> Read(Instruction.live[i])]

Plan == INSTANCE Structured WITH
  at <- AbsAt, vals <- AbsVals,
  result <- out, ended <- IF status = "running" THEN "no" ELSE status

(* Whichever backend emitted them, every step of the instructions is a     *)
(* step of the body or none: nothing clobbers an operand, a loop's array   *)
(* or its count while it is in use, operands are evaluated left to right,  *)
(* and every jump goes where the statement says.                           *)
ImplementsStructured == Plan!Spec

(* A declaration's initialiser is evaluated into the variable's own slot,  *)
(* where an earlier declaration's value may be: the slot only changes when *)
(* nothing of the initialiser is left to evaluate (emit_asm.c: "the read   *)
(* happens first", "the runtime writes its result through the destination  *)
(* pointer only on the way out").                                          *)
SlotKeptUntilBound ==
  [][Read(Home)' # Read(Home) => body[AbsAt'].kind = "drop"]_vars
=============================================================================
