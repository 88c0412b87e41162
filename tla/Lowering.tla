------------------------------ MODULE Lowering ------------------------------
(***************************************************************************)
(* The compiler's second pass (src/src/compiler.c, HDCompileProgram): it   *)
(* goes over each body once and appends instructions to the body's chunk.  *)
(* A jump whose target is not reached yet is written without one and       *)
(* remembered: by the C function that compiles the construct ("nested",    *)
(* its local variables), by the innermost loop (break and continue) or by  *)
(* the chunk (goto), and patched when the target is reached.               *)
(*                                                                         *)
(* One item is one step.  An instruction carries, besides what the VM      *)
(* reads, the item it was compiled from and whether the item's effect is   *)
(* already had when it runs; only the refinement of Structured reads       *)
(* those.  Addresses count from 1.  Running out of memory is left out, so  *)
(* is how a name was resolved, which SlotFrames models, and so is the      *)
(* second variable a foreach may have, a copy of its hidden index.         *)
(***************************************************************************)
EXTENDS Nesting

CONSTANTS
  Nodes,
  Programs   \* [bodies : Seq of bodies, the top level last; entry : BOOLEAN]

Items == [kind : Kinds, node : Nodes, arity : Nat]

(* Programs come from the parser as trees, which are written down in order.*)
ASSUME ProgramsAssumption ==
  \A p \in Programs :
    /\ p.bodies \in Seq(Seq(Items))
    /\ p.bodies # <<>>
    /\ p.entry \in BOOLEAN
    /\ \A b \in 1..Len(p.bodies) : WellNested(p.bodies[b], Nesting(p.bodies[b]))

VARIABLES
  program,      \* entry: there is an entry point (main, else Main) without parameters
  chunk,        \* the body that is compiled now
  pos,          \* its item
  code,         \* and its instructions so far
  chunks,       \* the finished ones
  nested,       \* [start, jump, array, index], innermost first
  loops,        \* compiler.loops, innermost first: [breaks, continues]
  labels,       \* [label, target]
  pending,      \* [label, jump]
  temp_counter,
  had_error

compiler == <<program, chunk, pos, code, chunks, nested, loops, labels, pending,
              temp_counter, had_error>>

Nowhere == 0

(* The bodies HDCompileProgram is given: those the resolver accepts.       *)
(* Mutant: a label inside a foreach may be the target of any goto.         *)
MayJumpAnywhere(body, label, goto) == body[label].node = body[goto].node

MayJump(body, label, goto) ==
  /\ body[label].node = body[goto].node
  /\ \/ ForeachsAround(body, label) = {}
     \/ \E head \in ForeachsAround(body, label) :
          /\ \A other \in ForeachsAround(body, label) : other <= head
          /\ head \in ForeachsAround(body, goto)

At(body, kinds) == {i \in 1..Len(body) : body[i].kind \in kinds}

Accepted(body) ==
  /\ \A i, j \in At(body, {"label"}) : body[i].node = body[j].node => i = j
  /\ \A g \in At(body, {"goto"}) : \E l \in At(body, {"label"}) : MayJump(body, l, g)
  /\ \A b \in At(body, {"break", "continue"}) : LoopsAround(body, b) # {}

-----------------------------------------------------------------------------

Compiling == chunk <= Len(program.bodies)

Node == program.bodies[chunk][pos]

Lowering(kinds) ==
  /\ Compiling
  /\ Node.kind \in kinds
  /\ pos' = pos + 1

Here == Len(code) + 1

Ins(op, arg)   == [op |-> op, arg |-> arg, item |-> pos, after |-> FALSE]
After(op, arg) == [op |-> op, arg |-> arg, item |-> pos, after |-> TRUE]

Patched(instructions, jumps, target) ==
  [i \in 1..Len(instructions) |->
     IF i \in jumps THEN [instructions[i] EXCEPT !.arg = target] ELSE instructions[i]]

Frame == [start |-> Nowhere, jump |-> Nowhere, array |-> Nowhere, index |-> Nowhere]
Local == Head(nested)
Enter(frame) == nested' = <<frame>> \o nested
Leave == nested' = Tail(nested)

NoJumps == [breaks |-> {}, continues |-> {}]

(* Mutant: the outermost loop. *)
current_loopOutermost == Len(loops)

current_loop == 1

Loop == IF loops = <<>> THEN NoJumps ELSE loops[current_loop]

push_loop == loops' = <<NoJumps>> \o loops
pop_loop == loops' = SubSeq(loops, 2, Len(loops))

(* One instruction for an operand, an operator, a call or the end of a     *)
(* statement.                                                              *)
LowerSimple ==
  /\ Lowering({"operand", "apply", "call", "main", "drop", "return"})
  /\ code' = Append(code, Ins(Node.kind, Node.arity))
  /\ UNCHANGED <<program, chunk, chunks, nested, loops, labels, pending, temp_counter, had_error>>

compile_error == had_error' = TRUE

(* A literal takes the expression's place: nothing of it is compiled.      *)
LowerUnsupported ==
  /\ Lowering({"unsupported"})
  /\ code' = Append(code, Ins("operand", Node.arity))
  /\ compile_error
  /\ UNCHANGED <<program, chunk, chunks, nested, loops, labels, pending, temp_counter>>

LowerTest ==
  /\ Lowering({"if", "and"})
  /\ code' = Append(code, Ins("jumpfalse", Nowhere))
  /\ Enter([Frame EXCEPT !.jump = Here])
  /\ UNCHANGED <<program, chunk, chunks, loops, labels, pending, temp_counter, had_error>>

LowerElse ==
  /\ Lowering({"else"})
  /\ code' = Patched(Append(code, Ins("jump", Nowhere)), {Local.jump}, Here + 1)
  /\ nested' = <<[Local EXCEPT !.jump = Here]>> \o Tail(nested)
  /\ UNCHANGED <<program, chunk, chunks, loops, labels, pending, temp_counter, had_error>>

LowerEndIf ==
  /\ Lowering({"endif"})
  /\ code' = Patched(code, {Local.jump}, Here)
  /\ Leave
  /\ UNCHANGED <<program, chunk, chunks, loops, labels, pending, temp_counter, had_error>>

(* The last operand of && or ||: 1 or 0, and where each comes from.        *)
(* Mutant: the jumps of a false operand pass over the 0 too. *)
NormalisedLate(falses, dones) ==
  Patched(code \o <<Ins("jumpfalse", Nowhere), After("const", 1),
                    After("jump", Nowhere), After("const", 0)>>,
          falses \cup dones \cup {Here, Here + 2}, Here + 4)

Normalised(falses, dones) ==
  Patched(Patched(code \o <<Ins("jumpfalse", Nowhere), After("const", 1),
                            After("jump", Nowhere), After("const", 0)>>,
                  falses \cup {Here}, Here + 3),
          dones \cup {Here + 2}, Here + 4)

LowerEndAnd ==
  /\ Lowering({"endand"})
  /\ code' = Normalised({Local.jump}, {})
  /\ Leave
  /\ UNCHANGED <<program, chunk, chunks, loops, labels, pending, temp_counter, had_error>>

LowerOr ==
  /\ Lowering({"or"})
  /\ code' = code \o <<Ins("jumpfalse", Here + 3), After("const", 1), After("jump", Nowhere)>>
  /\ Enter([Frame EXCEPT !.jump = Here + 2])
  /\ UNCHANGED <<program, chunk, chunks, loops, labels, pending, temp_counter, had_error>>

LowerEndOr ==
  /\ Lowering({"endor"})
  /\ code' = Normalised({}, {Local.jump})
  /\ Leave
  /\ UNCHANGED <<program, chunk, chunks, loops, labels, pending, temp_counter, had_error>>

LowerLoop ==
  /\ Lowering({"loop"})
  /\ Enter([Frame EXCEPT !.start = Here])
  /\ UNCHANGED <<program, chunk, code, chunks, loops, labels, pending, temp_counter, had_error>>

LowerDo ==
  /\ Lowering({"do"})
  /\ code' = Append(code, Ins("jumpfalse", Nowhere))
  /\ nested' = <<[Local EXCEPT !.jump = Here]>> \o Tail(nested)
  /\ push_loop
  /\ UNCHANGED <<program, chunk, chunks, labels, pending, temp_counter, had_error>>

(* Mutant: a temporary is named after the depth of its loop. *)
make_temp_nameByDepth(k) == 2 * Len(nested) + k

make_temp_name(k) == temp_counter + k

(* Mutant: the index is taken to be zero by itself. *)
SetUpArray(array, index) == <<Ins("define", array)>>

SetUp(array, index) == <<Ins("define", array), After("const", 0), After("define", index)>>

(* Mutant: no loop is entered. *)
EnterLoopNot == UNCHANGED loops

EnterLoop == push_loop

(* Defines the two temporaries, then the head of the loop. *)
LowerForeach ==
  LET array == make_temp_name(0)
      index == make_temp_name(1)
      start == Here + Len(SetUp(array, index))
      each(op, arg) == [Ins(op, arg) EXCEPT !.item = pos + 1] IN
  /\ Compiling
  /\ Node.kind = "foreach"
  /\ pos' = pos + 2
  /\ temp_counter' = temp_counter + 2
  /\ code' = code \o SetUp(array, index) \o
       <<each("load", index), each("load", array), each("length", Nowhere),
         each("less", Nowhere), each("jumpfalse", Nowhere),
         each("load", array), each("load", index), each("get", Nowhere),
         each("bind", Nowhere)>>
  /\ Enter([start |-> start, jump |-> start + 4, array |-> array, index |-> index])
  /\ EnterLoop
  /\ UNCHANGED <<program, chunk, chunks, labels, pending, had_error>>

(* What "continue" jumps to is known where the increment begins. *)
LowerNext ==
  /\ Lowering({"next"})
  /\ code' = Patched(code, Loop.continues, Here)
  /\ UNCHANGED <<program, chunk, chunks, nested, loops, labels, pending, temp_counter, had_error>>

(* Closes a loop whose increment is the given instructions. *)
Close(increment, back) ==
  LET closed == code \o increment \o <<back>> IN
  /\ code' = Patched(closed, {Local.jump} \cup Loop.breaks, Len(closed) + 1)
  /\ Leave
  /\ pop_loop
  /\ UNCHANGED <<program, chunk, chunks, labels, pending, temp_counter, had_error>>

LowerEnd ==
  /\ Lowering({"end"})
  /\ Close(<<>>, Ins("jump", Local.start))

LowerEndEach ==
  /\ Lowering({"endeach"})
  /\ Close(<<Ins("load", Local.index), Ins("const", 1), Ins("add", Nowhere),
             Ins("store", Local.index)>>,
           After("jump", Local.start))

record_jump(loop, kind) ==
  IF kind = "break" THEN [loop EXCEPT !.breaks = @ \cup {Here}]
                    ELSE [loop EXCEPT !.continues = @ \cup {Here}]

LowerLeave ==
  /\ Lowering({"break", "continue"})
  /\ IF loops = <<>> THEN compile_error /\ UNCHANGED <<code, loops>>
     ELSE /\ code' = Append(code, Ins("jump", Nowhere))
          /\ loops' = [loops EXCEPT ![current_loop] = record_jump(@, Node.kind)]
          /\ UNCHANGED had_error
  /\ UNCHANGED <<program, chunk, chunks, nested, labels, pending, temp_counter>>

(* Mutant: the address of the last instruction is recorded. *)
declare_labelLast ==
  /\ Lowering({"label"})
  /\ labels' = Append(labels, [label |-> Node.node, target |-> Len(code)])
  /\ UNCHANGED <<program, chunk, code, chunks, nested, loops, pending, temp_counter, had_error>>

declare_label ==
  /\ Lowering({"label"})
  /\ labels' = Append(labels, [label |-> Node.node, target |-> Here])
  /\ UNCHANGED <<program, chunk, code, chunks, nested, loops, pending, temp_counter, had_error>>

Declared(label) == {i \in 1..Len(labels) : labels[i].label = label}

find_label_ip(label) == labels[CHOOSE i \in Declared(label) : \A j \in Declared(label) : i <= j].target

LowerGoto ==
  /\ Lowering({"goto"})
  /\ IF Declared(Node.node) # {}
     THEN /\ code' = Append(code, Ins("jump", find_label_ip(Node.node)))
          /\ UNCHANGED pending
     ELSE /\ code' = Append(code, Ins("jump", Nowhere))
          /\ pending' = Append(pending, [label |-> Node.node, jump |-> Here])
  /\ UNCHANGED <<program, chunk, chunks, nested, loops, labels, temp_counter, had_error>>

-----------------------------------------------------------------------------
(* The end of a chunk *)

TopLevel == chunk = Len(program.bodies)

chunk_calls == \E i \in 1..Len(code) : code[i].op = "main"

(* Mutant: only a file that is nothing but declarations gets the call. *)
EntryCallAlone ==
  IF TopLevel /\ program.entry /\ code = <<>>
  THEN <<Ins("main", 0), Ins("drop", 1)>> ELSE <<>>

(* The entry point is called after the top level, unless that calls it.    *)
EntryCall ==
  IF TopLevel /\ program.entry /\ ~chunk_calls
  THEN <<Ins("main", 0), Ins("drop", 1)>> ELSE <<>>

(* Mutant: what was emitted before its label stays as it is. *)
resolve_labelsNone(instructions) == instructions

resolve_labels(instructions) ==
  [i \in 1..Len(instructions) |->
     IF \E p \in 1..Len(pending) : pending[p].jump = i /\ Declared(pending[p].label) # {}
     THEN [instructions[i] EXCEPT !.arg =
             find_label_ip(pending[CHOOSE p \in 1..Len(pending) : pending[p].jump = i].label)]
     ELSE instructions[i]]

FinishChunk ==
  /\ Compiling
  /\ Node.kind = "finish"
  /\ chunks' = Append(chunks, resolve_labels(
       code \o EntryCall \o <<Ins("const", 0), Ins("return", 1)>>))
  /\ had_error' = (had_error \/ \E p \in 1..Len(pending) : Declared(pending[p].label) = {})
  /\ chunk' = chunk + 1
  /\ pos' = 1
  /\ code' = <<>> /\ labels' = <<>> /\ pending' = <<>>
  /\ UNCHANGED <<program, nested, loops, temp_counter>>

CompilerInit ==
  /\ program \in {p \in Programs : \A b \in 1..Len(p.bodies) : Accepted(p.bodies[b])}
  /\ chunk = 1
  /\ pos = 1
  /\ code = <<>>
  /\ chunks = <<>>
  /\ nested = <<>>
  /\ loops = <<>>
  /\ labels = <<>>
  /\ pending = <<>>
  /\ temp_counter = 0
  /\ had_error = FALSE

Compile ==
  \/ LowerSimple \/ LowerUnsupported \/ LowerTest \/ LowerElse \/ LowerEndIf \/ LowerEndAnd \/ LowerOr \/ LowerEndOr
  \/ LowerLoop \/ LowerDo \/ LowerForeach \/ LowerNext \/ LowerEnd \/ LowerEndEach
  \/ LowerLeave \/ declare_label \/ LowerGoto \/ FinishChunk
=============================================================================
