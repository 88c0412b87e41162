---------------------------- MODULE BytecodeProofs ----------------------------
(***************************************************************************)
(* Proofs about the compiler and the machine, for every program and every  *)
(* stack. CompInv puts the bodies together: the finished chunks are        *)
(* complete, no two of them share a temporary, and LoweringProofs' BodyInv *)
(* holds of the body in hand. RunInv says that the running chunk's states, *)
(* which the compiler foresaw, are those the machine is in: so a statement *)
(* leaves nothing on the stack, a foreach's temporaries are bound where    *)
(* they are read, and the entry point is called once.                      *)
(***************************************************************************)
EXTENDS LoweringProofs

-----------------------------------------------------------------------------
(* The whole program *)

PlainInstructions == [op : Ops, arg : Nat, item : Nat, after : BOOLEAN]

Distinct(C) ==
  \A k, l \in 1..Len(C) : \A i \in 1..Len(C[k]), j \in 1..Len(C[l]) :
    C[k][i].op = "define" /\ C[l][j].op = "define" /\ C[k][i].arg = C[l][j].arg =>
      k = l /\ i = j

TopLevelOf(p) == p.bodies[Len(p.bodies)]

EntryCalled(p, C) ==
  p.entry /\ At(TopLevelOf(p), {"main"}) = {} =>
    \E m : EndsWithCall(TopLevelOf(p), C[Len(p.bodies)], m)

(* The chunks so far; their temporaries are below low. *)
Finished(p, C, low) ==
  /\ C \in Seq(Seq(PlainInstructions))
  /\ Len(C) <= Len(p.bodies)
  /\ \A k \in 1..Len(C) : \E b : Complete(p.bodies[k], C[k], b, low)
  /\ Distinct(C)
  /\ Len(C) = Len(p.bodies) => EntryCalled(p, C)

(* The body that is compiled. *)
InHand(body, a, T) ==
  /\ body = program.bodies[chunk]
  /\ Finished(program, chunks, Base(T))
  /\ BodyInv(body, pos, code, nested, loops, labels, pending, temp_counter, a, T)

CompInv ==
  /\ program \in Programs
  /\ \A k \in 1..Len(program.bodies) : Accepted(program.bodies[k])
  /\ chunk \in 1..Len(program.bodies) + 1
  /\ Len(chunks) = chunk - 1
  /\ Compiling => \E body, a, T : InHand(body, a, T)
  /\ ~Compiling =>
       /\ pos = 1 /\ code = <<>> /\ nested = <<>> /\ loops = <<>>
       /\ labels = <<>> /\ pending = <<>>
       /\ temp_counter \in Nat
       /\ Finished(program, chunks, temp_counter)

(* What the programs are. *)
LEMMA ProgramTyped ==
  ASSUME NEW p, p \in Programs
  PROVE  /\ p.bodies \in Seq(Seq(Items)) /\ Len(p.bodies) \in Nat \ {0}
         /\ \A k \in 1..Len(p.bodies) : Body(p.bodies[k])
<1>1. /\ p.bodies \in Seq(Seq(Items)) /\ p.bodies # <<>>
      /\ \A k \in 1..Len(p.bodies) : WellNested(p.bodies[k], Nesting(p.bodies[k]))
  BY ProgramsAssumption
<1>2. PICK B : B = p.bodies
  OBVIOUS
<1>3. \A k \in 1..Len(B) : B[k] \in Seq(Items)
  BY <1>1, <1>2
<1>4. Len(B) \in Nat \ {0}
  BY <1>1, <1>2
<1> QED
  BY <1>1, <1>2, <1>3, <1>4 DEF Body

(* A step within a body. *)
Proceeds(body, T) ==
  \E b, T2 : /\ BodyInv(body, pos', code', nested', loops', labels', pending', temp_counter', b, T2)
             /\ Base(T2) = Base(T)

(* A step within a body keeps the invariant if it keeps what is known of   *)
(* the body.                                                               *)
LEMMA ItemStep ==
  ASSUME CompInv, Compiling, UNCHANGED <<program, chunk, chunks>>,
         NEW body, NEW a, NEW T, InHand(body, a, T), Proceeds(body, T)
  PROVE  CompInv'
<1>1. PICK b, T2 :
        /\ BodyInv(body, pos', code', nested', loops', labels', pending', temp_counter', b, T2)
        /\ Base(T2) = Base(T)
  BY DEF Proceeds
<1>2. program' = program /\ chunk' = chunk /\ chunks' = chunks
  OBVIOUS
<1>3. InHand(body, b, T2)'
  BY <1>1, <1>2 DEF InHand
<1>4. Compiling'
  BY <1>2 DEF Compiling
<1> QED
  BY <1>2, <1>3, <1>4 DEF CompInv

(* What the body in hand is. *)
LEMMA ItemInHand ==
  ASSUME CompInv, Compiling
  PROVE  \E body, a, T :
           /\ InHand(body, a, T)
           /\ BodyInv(body, pos, code, nested, loops, labels, pending, temp_counter, a, T)
           /\ Accepted(body)
           /\ Kind(body, pos) = Node.kind
           /\ body[pos] = Node
           /\ pos \in 1..Len(body)
<1>1. PICK body, a, T : InHand(body, a, T)
  BY DEF CompInv
<1>2. /\ body = program.bodies[chunk]
      /\ BodyInv(body, pos, code, nested, loops, labels, pending, temp_counter, a, T)
  BY <1>1 DEF InHand
<1>3. Accepted(body)
  <2>1. program \in Programs /\ chunk \in 1..Len(program.bodies) + 1
    BY DEF CompInv
  <2>2. Len(program.bodies) \in Nat
    BY <2>1, ProgramTyped
  <2>3. chunk \in 1..Len(program.bodies)
    BY <2>1, <2>2 DEF Compiling
  <2> QED
    BY <1>2, <2>3 DEF CompInv
<1>4. Kind(body, pos) = Node.kind /\ body[pos] = Node
  BY <1>2 DEF Kind, Node
<1>5. pos \in 1..Len(body)
  BY <1>2, ItemFacts
<1> QED
  BY <1>1, <1>2, <1>3, <1>4, <1>5

(* The compiler's instructions belong to the item in hand. *)
LEMMA InsMade ==
  ASSUME NEW body, pos \in 1..Len(body), NEW op, op \in Ops, NEW arg, arg \in Nat
  PROVE  /\ Made(body, Ins(op, arg), op, arg, pos)
         /\ Made(body, After(op, arg), op, arg, pos)
  BY DEF Made, Ins, After, Instructions

(* The steps of the compiler, one by one.  LowerSimple and                 *)
(* LowerUnsupported:                                                       *)
LEMMA StepSimple ==
  ASSUME CompInv, LowerSimple \/ LowerUnsupported
  PROVE  CompInv'
<1>1. /\ Compiling /\ pos' = pos + 1
      /\ Node.kind \in {"operand", "unsupported", "apply", "call", "main", "drop", "return"}
  BY DEF LowerSimple, LowerUnsupported, Lowering
<1>2. PICK body, a, T :
        /\ InHand(body, a, T)
        /\ BodyInv(body, pos, code, nested, loops, labels, pending, temp_counter, a, T)
        /\ Kind(body, pos) = Node.kind /\ body[pos] = Node /\ pos \in 1..Len(body)
  BY <1>1, ItemInHand
<1>3. PICK op, ins : /\ op = IF Node.kind = "unsupported" THEN "operand" ELSE Node.kind
                     /\ ins = Ins(op, Node.arity)
  OBVIOUS
<1>4. Made(body, ins, op, body[pos].arity, pos)
  <2>1. op \in Ops
    BY <1>1, <1>3 DEF Ops
  <2>2. body[pos].arity \in Nat
    BY <1>2, ItemFacts
  <2>3. Made(body, Ins(op, body[pos].arity), op, body[pos].arity, pos)
    BY <1>2, <2>1, <2>2, InsMade
  <2> QED
    BY <1>2, <1>3, <2>3
<1>5. \E b : BodyInv(body, pos + 1, Append(code, ins), nested, loops, labels, pending,
                     temp_counter, b, T)
  <2>1. /\ Kind(body, pos) \in {"operand", "unsupported", "apply", "call", "main", "drop", "return"}
        /\ op = IF Kind(body, pos) = "unsupported" THEN "operand" ELSE Kind(body, pos)
    BY <1>1, <1>2, <1>3
  <2> QED
    BY <1>2, <1>4, <2>1, SimpleItem
<1>6. code' = Append(code, ins) /\ UNCHANGED <<nested, loops, labels, pending, temp_counter>>
  BY <1>3 DEF LowerSimple, LowerUnsupported, Lowering
<1>7. Proceeds(body, T)
  BY <1>1, <1>5, <1>6 DEF Proceeds
<1>8. UNCHANGED <<program, chunk, chunks>>
  BY DEF LowerSimple, LowerUnsupported
<1> QED
  BY <1>1, <1>2, <1>7, <1>8, ItemStep

-----------------------------------------------------------------------------
(* One step of the compiler *)

(* Frames of constructs that have just begun. *)
LEMMA FrameMade ==
  ASSUME NEW j, j \in Nat
  PROVE  /\ [Frame EXCEPT !.jump = j] \in FrameRecords
         /\ [Frame EXCEPT !.jump = j].jump = j
         /\ [Frame EXCEPT !.start = j] \in FrameRecords
         /\ [Frame EXCEPT !.start = j].start = j
         /\ [Frame EXCEPT !.start = j].jump = Nowhere
  BY DEF Frame, FrameRecords, Nowhere

(* The compiler's locals of the innermost construct. *)
LEMMA LocalThere ==
  ASSUME NEW body, NEW a, NEW T,
         BodyInv(body, pos, code, nested, loops, labels, pending, temp_counter, a, T),
         Open(body, pos) # <<>>
  PROVE  /\ Local \in FrameRecords /\ nested \in Seq(FrameRecords)
         /\ \A j \in Nat : /\ [Local EXCEPT !.jump = j] \in FrameRecords
                         /\ [Local EXCEPT !.jump = j].jump = j
                         /\ [Local EXCEPT !.jump = j].start = Local.start
<1>1. /\ Frames(body, code, a, T, Open(body, pos), nested) /\ Open(body, pos) \in Seq(Nat)
      /\ nested \in Seq(FrameRecords)
  BY ItemFacts
<1>2. PICK p, K : Splits(Open(body, pos), p, K)
  BY DEF Splits
<1>3. PICK g, M : Splits(nested, g, M)
  BY DEF Splits
<1>4. g \in FrameRecords
  BY <1>1, <1>2, <1>3, FramesSplit
<1>5. Local \in FrameRecords
  BY <1>3, <1>4 DEF Local, Splits
<1> QED
  BY <1>1, <1>5 DEF FrameRecords

(* The jumps of the innermost loop. *)
LEMMA LoopThere ==
  ASSUME NEW body, NEW a, NEW T,
         BodyInv(body, pos, code, nested, loops, labels, pending, temp_counter, a, T),
         Loops(body, pos) # <<>>
  PROVE  /\ loops # <<>> /\ loops \in Seq(ScopeRecords)
         /\ Loop \in ScopeRecords
         /\ Splits(loops, Loop, Tail(loops))
         /\ SubSeq(loops, 2, Len(loops)) = Tail(loops)
<1>1. /\ Scopes(body, code, a, T, Loops(body, pos), loops) /\ Loops(body, pos) \in Seq(Nat)
      /\ loops \in Seq(ScopeRecords)
  BY ItemFacts
<1>2. loops # <<>> /\ loops[1] \in ScopeRecords /\ Tail(loops) = SubSeq(loops, 2, Len(loops))
  BY <1>1, ScopesPop
<1>3. Loop = loops[1] /\ Head(loops) = loops[1]
  BY <1>1, <1>2 DEF Loop, current_loop
<1> QED
  BY <1>1, <1>2, <1>3 DEF Splits

(* The address of the next instruction. *)
LEMMA HereIs ==
  ASSUME NEW body, NEW a, NEW T,
         BodyInv(body, pos, code, nested, loops, labels, pending, temp_counter, a, T)
  PROVE  /\ Here = Len(code) + 1 /\ Here \in Nat /\ Len(code) \in Nat
         /\ Nowhere = 0 /\ pos \in 1..Len(body) /\ pos \in Nat
         /\ Body(body)
         /\ Kind(body, pos) # "finish" => NotLast(body, pos)
  BY ItemFacts DEF Here, Nowhere, NotLast, Kind

(* An instruction of the compiler's. *)
LEMMA OpIs ==
  {"jumpfalse", "jump", "const", "load", "store", "add", "define", "length", "less",
   "get", "bind", "main", "drop", "return"} \subseteq Ops
  BY DEF Ops

(* LowerTest keeps the invariant. *)
LEMMA StepTest ==
  ASSUME CompInv, LowerTest
  PROVE  CompInv'
<1>1. Compiling /\ Node.kind \in {"if", "and"} /\ pos' = pos + 1
  BY DEF LowerTest, Lowering
<1>2. PICK body, a, T :
        /\ InHand(body, a, T)
        /\ BodyInv(body, pos, code, nested, loops, labels, pending, temp_counter, a, T)
        /\ Accepted(body)
        /\ Kind(body, pos) = Node.kind /\ body[pos] = Node
  BY <1>1, ItemInHand
<1>3. /\ Here = Len(code) + 1 /\ Here \in Nat /\ Len(code) \in Nat
      /\ Nowhere = 0 /\ pos \in 1..Len(body) /\ pos \in Nat
      /\ Body(body)
      /\ Kind(body, pos) # "finish" => NotLast(body, pos)
  BY <1>2, HereIs
<1>4. Kind(body, pos) \in {"if", "and"}
  BY <1>1, <1>2
<1>5. PICK ins : ins = Ins("jumpfalse", Nowhere)
  OBVIOUS
<1>6. PICK f : f = [Frame EXCEPT !.jump = Here]
  OBVIOUS
<1>7. Made(body, ins, "jumpfalse", Nowhere, pos)
  BY <1>3, <1>5, OpIs, InsMade
<1>8. f \in FrameRecords /\ Awaits(f, code)
  BY <1>3, <1>6, FrameMade DEF Awaits
<1>9. \E b : BodyInv(body, pos + 1, Append(code, ins), Pushed(f, nested), loops, labels, pending,
                     temp_counter, b, T)
  BY <1>2, <1>4, <1>7, <1>8, TestItem
<1>10. /\ code' = Append(code, ins) /\ nested' = Pushed(f, nested)
       /\ loops' = loops /\ labels' = labels /\ pending' = pending /\ temp_counter' = temp_counter
  BY <1>5, <1>6 DEF LowerTest, Enter, Pushed
<1>11. Proceeds(body, T)
  BY <1>1, <1>9, <1>10 DEF Proceeds
<1>12. UNCHANGED <<program, chunk, chunks>>
  BY DEF LowerTest
<1> QED
  BY <1>1, <1>2, <1>11, <1>12, ItemStep

LEMMA StepElse ==
  ASSUME CompInv, LowerElse
  PROVE  CompInv'
<1>1. Compiling /\ Node.kind \in {"else"} /\ pos' = pos + 1
  BY DEF LowerElse, Lowering
<1>2. PICK body, a, T :
        /\ InHand(body, a, T)
        /\ BodyInv(body, pos, code, nested, loops, labels, pending, temp_counter, a, T)
        /\ Accepted(body)
        /\ Kind(body, pos) = Node.kind /\ body[pos] = Node
  BY <1>1, ItemInHand
<1>3. /\ Here = Len(code) + 1 /\ Here \in Nat /\ Len(code) \in Nat
      /\ Nowhere = 0 /\ pos \in 1..Len(body) /\ pos \in Nat
      /\ Body(body)
      /\ Kind(body, pos) # "finish" => NotLast(body, pos)
  BY <1>2, HereIs
<1>4. Kind(body, pos) \in {"else"}
  BY <1>1, <1>2
<1>5. PICK ins : ins = Ins("jump", Nowhere)
  OBVIOUS
<1>6. PICK g, M : g = Local /\ M = Tail(nested) /\ Splits(nested, g, M)
  BY DEF Local, Splits
<1>7. PICK f : f = [Local EXCEPT !.jump = Here]
  OBVIOUS
<1>8. Made(body, ins, "jump", Nowhere, pos)
  BY <1>3, <1>5, OpIs, InsMade
<1>9. f \in FrameRecords /\ Awaits(f, code)
  <2>1. PICK p, K : Splits(Open(body, pos), p, K)
    BY DEF Splits
  <2>2. Open(body, pos) # <<>>
    BY <1>3, <1>4, <2>1, MoveElse
  <2> QED
    BY <1>2, <1>3, <1>7, <2>2, LocalThere DEF Awaits
<1>10. PICK d : Writes(code, ins, d)
  BY DEF Writes
<1>11. PICK e : Patches(d, {g.jump}, Len(d) + 1, e)
  BY DEF Patches
<1>12. \E b : BodyInv(body, pos + 1, e, Pushed(f, M), loops, labels, pending, temp_counter, b, T)
  BY <1>2, <1>4, <1>6, <1>8, <1>9, <1>10, <1>11, ElseItem
<1>13. code' = e
  <2>1. d = Append(code, ins) /\ code \in Seq(Instructions(body)) /\ ins \in Instructions(body)
    BY <1>2, <1>8, <1>10, ItemFacts DEF Writes, Made
  <2>2. Len(d) = Len(code) + 1
    BY <2>1
  <2>3. code' = Patched(d, {g.jump}, Here + 1)
    BY <1>5, <1>6, <2>1 DEF LowerElse
  <2> QED
    BY <1>3, <1>11, <2>2, <2>3 DEF Patches
<1>14. /\ nested' = Pushed(f, M)
       /\ loops' = loops /\ labels' = labels /\ pending' = pending /\ temp_counter' = temp_counter
  BY <1>6, <1>7 DEF LowerElse, Pushed
<1>15. Proceeds(body, T)
  BY <1>1, <1>12, <1>13, <1>14 DEF Proceeds
<1>16. UNCHANGED <<program, chunk, chunks>>
  BY DEF LowerElse
<1> QED
  BY <1>1, <1>2, <1>15, <1>16, ItemStep

LEMMA StepEndIf ==
  ASSUME CompInv, LowerEndIf
  PROVE  CompInv'
<1>1. Compiling /\ Node.kind \in {"endif"} /\ pos' = pos + 1
  BY DEF LowerEndIf, Lowering
<1>2. PICK body, a, T :
        /\ InHand(body, a, T)
        /\ BodyInv(body, pos, code, nested, loops, labels, pending, temp_counter, a, T)
        /\ Accepted(body)
        /\ Kind(body, pos) = Node.kind /\ body[pos] = Node
  BY <1>1, ItemInHand
<1>3. /\ Here = Len(code) + 1 /\ Here \in Nat /\ Len(code) \in Nat
      /\ Nowhere = 0 /\ pos \in 1..Len(body) /\ pos \in Nat
      /\ Body(body)
      /\ Kind(body, pos) # "finish" => NotLast(body, pos)
  BY <1>2, HereIs
<1>4. Kind(body, pos) \in {"endif"}
  BY <1>1, <1>2
<1>5. PICK g, M : g = Local /\ M = Tail(nested) /\ Splits(nested, g, M)
  BY DEF Local, Splits
<1>6. PICK d : Patches(code, {g.jump}, Len(code) + 1, d)
  BY DEF Patches
<1>7. \E b : BodyInv(body, pos + 1, d, M, loops, labels, pending, temp_counter, b, T)
  BY <1>2, <1>4, <1>5, <1>6, EndIfItem
<1>8. /\ code' = d /\ nested' = M
      /\ loops' = loops /\ labels' = labels /\ pending' = pending /\ temp_counter' = temp_counter
  BY <1>3, <1>5, <1>6 DEF LowerEndIf, Leave, Patches
<1>9. Proceeds(body, T)
  BY <1>1, <1>7, <1>8 DEF Proceeds
<1>10. UNCHANGED <<program, chunk, chunks>>
  BY DEF LowerEndIf
<1> QED
  BY <1>1, <1>2, <1>9, <1>10, ItemStep

LEMMA StepEndAnd ==
  ASSUME CompInv, LowerEndAnd
  PROVE  CompInv'
<1>1. Compiling /\ Node.kind \in {"endand"} /\ pos' = pos + 1
  BY DEF LowerEndAnd, Lowering
<1>2. PICK body, a, T :
        /\ InHand(body, a, T)
        /\ BodyInv(body, pos, code, nested, loops, labels, pending, temp_counter, a, T)
        /\ Accepted(body)
        /\ Kind(body, pos) = Node.kind /\ body[pos] = Node
  BY <1>1, ItemInHand
<1>3. /\ Here = Len(code) + 1 /\ Here \in Nat /\ Len(code) \in Nat
      /\ Nowhere = 0 /\ pos \in 1..Len(body) /\ pos \in Nat
      /\ Body(body)
      /\ Kind(body, pos) # "finish" => NotLast(body, pos)
  BY <1>2, HereIs
<1>4. Kind(body, pos) \in {"endand"}
  BY <1>1, <1>2
<1>5. PICK g, M : g = Local /\ M = Tail(nested) /\ Splits(nested, g, M)
  BY DEF Local, Splits
<1>6. PICK x1, x2, x3, x4 : /\ x1 = Ins("jumpfalse", Nowhere) /\ x2 = After("const", 1)
                            /\ x3 = After("jump", Nowhere) /\ x4 = After("const", 0)
  OBVIOUS
<1>7. /\ Made(body, x1, "jumpfalse", Nowhere, pos) /\ Made(body, x2, "const", 1, pos)
      /\ Made(body, x3, "jump", Nowhere, pos) /\ Made(body, x4, "const", 0, pos)
  BY <1>3, <1>6, OpIs, InsMade
<1>8. PICK Q1, Q2 : Q1 = {Local.jump} \cup {Here} /\ Q2 = {} \cup {Here + 2}
  OBVIOUS
<1>9. JumpSets(Kind(body, pos), g, code, Q1, Q2)
  <2>1. Here = Len(code) + 1 /\ Here + 2 = Len(code) + 3
    BY <1>3
  <2> QED
    BY <1>4, <1>5, <1>8, <2>1 DEF JumpSets
<1>10. PICK d : Joins(code, Normal(x1, x2, x3, x4), d)
  BY DEF Joins
<1>11. PICK e : Patches(d, Q1, Len(code) + 4, e)
  BY DEF Patches
<1>12. PICK f : Patches(e, Q2, Len(code) + 5, f)
  BY DEF Patches
<1>13. \E b : BodyInv(body, pos + 1, f, M, loops, labels, pending, temp_counter, b, T)
  <2>1. Kind(body, pos) \in {"endand", "endor"}
    BY <1>4
  <2> QED
    BY <1>2, <1>5, <1>7, <1>9, <1>10, <1>11, <1>12, <2>1, NormalItem
<1>14. code' = f
  <2>1. d = code \o <<Ins("jumpfalse", Nowhere), After("const", 1),
                     After("jump", Nowhere), After("const", 0)>>
    BY <1>6, <1>10 DEF Joins, Normal
  <2>2. Here + 3 = Len(code) + 4 /\ Here + 4 = Len(code) + 5
    BY <1>3
  <2> QED
    BY <1>8, <1>11, <1>12, <2>1, <2>2 DEF LowerEndAnd, Normalised, Patches
<1>15. /\ nested' = M
       /\ loops' = loops /\ labels' = labels /\ pending' = pending /\ temp_counter' = temp_counter
  BY <1>5 DEF LowerEndAnd, Leave
<1>16. Proceeds(body, T)
  BY <1>1, <1>13, <1>14, <1>15 DEF Proceeds
<1>17. UNCHANGED <<program, chunk, chunks>>
  BY DEF LowerEndAnd
<1> QED
  BY <1>1, <1>2, <1>16, <1>17, ItemStep

LEMMA StepEndOr ==
  ASSUME CompInv, LowerEndOr
  PROVE  CompInv'
<1>1. Compiling /\ Node.kind \in {"endor"} /\ pos' = pos + 1
  BY DEF LowerEndOr, Lowering
<1>2. PICK body, a, T :
        /\ InHand(body, a, T)
        /\ BodyInv(body, pos, code, nested, loops, labels, pending, temp_counter, a, T)
        /\ Accepted(body)
        /\ Kind(body, pos) = Node.kind /\ body[pos] = Node
  BY <1>1, ItemInHand
<1>3. /\ Here = Len(code) + 1 /\ Here \in Nat /\ Len(code) \in Nat
      /\ Nowhere = 0 /\ pos \in 1..Len(body) /\ pos \in Nat
      /\ Body(body)
      /\ Kind(body, pos) # "finish" => NotLast(body, pos)
  BY <1>2, HereIs
<1>4. Kind(body, pos) \in {"endor"}
  BY <1>1, <1>2
<1>5. PICK g, M : g = Local /\ M = Tail(nested) /\ Splits(nested, g, M)
  BY DEF Local, Splits
<1>6. PICK x1, x2, x3, x4 : /\ x1 = Ins("jumpfalse", Nowhere) /\ x2 = After("const", 1)
                            /\ x3 = After("jump", Nowhere) /\ x4 = After("const", 0)
  OBVIOUS
<1>7. /\ Made(body, x1, "jumpfalse", Nowhere, pos) /\ Made(body, x2, "const", 1, pos)
      /\ Made(body, x3, "jump", Nowhere, pos) /\ Made(body, x4, "const", 0, pos)
  BY <1>3, <1>6, OpIs, InsMade
<1>8. PICK Q1, Q2 : Q1 = {} \cup {Here} /\ Q2 = {Local.jump} \cup {Here + 2}
  OBVIOUS
<1>9. JumpSets(Kind(body, pos), g, code, Q1, Q2)
  <2>1. Here = Len(code) + 1 /\ Here + 2 = Len(code) + 3
    BY <1>3
  <2> QED
    BY <1>4, <1>5, <1>8, <2>1 DEF JumpSets
<1>10. PICK d : Joins(code, Normal(x1, x2, x3, x4), d)
  BY DEF Joins
<1>11. PICK e : Patches(d, Q1, Len(code) + 4, e)
  BY DEF Patches
<1>12. PICK f : Patches(e, Q2, Len(code) + 5, f)
  BY DEF Patches
<1>13. \E b : BodyInv(body, pos + 1, f, M, loops, labels, pending, temp_counter, b, T)
  <2>1. Kind(body, pos) \in {"endand", "endor"}
    BY <1>4
  <2> QED
    BY <1>2, <1>5, <1>7, <1>9, <1>10, <1>11, <1>12, <2>1, NormalItem
<1>14. code' = f
  <2>1. d = code \o <<Ins("jumpfalse", Nowhere), After("const", 1),
                     After("jump", Nowhere), After("const", 0)>>
    BY <1>6, <1>10 DEF Joins, Normal
  <2>2. Here + 3 = Len(code) + 4 /\ Here + 4 = Len(code) + 5
    BY <1>3
  <2> QED
    BY <1>8, <1>11, <1>12, <2>1, <2>2 DEF LowerEndOr, Normalised, Patches
<1>15. /\ nested' = M
       /\ loops' = loops /\ labels' = labels /\ pending' = pending /\ temp_counter' = temp_counter
  BY <1>5 DEF LowerEndOr, Leave
<1>16. Proceeds(body, T)
  BY <1>1, <1>13, <1>14, <1>15 DEF Proceeds
<1>17. UNCHANGED <<program, chunk, chunks>>
  BY DEF LowerEndOr
<1> QED
  BY <1>1, <1>2, <1>16, <1>17, ItemStep

LEMMA StepOr ==
  ASSUME CompInv, LowerOr
  PROVE  CompInv'
<1>1. Compiling /\ Node.kind \in {"or"} /\ pos' = pos + 1
  BY DEF LowerOr, Lowering
<1>2. PICK body, a, T :
        /\ InHand(body, a, T)
        /\ BodyInv(body, pos, code, nested, loops, labels, pending, temp_counter, a, T)
        /\ Accepted(body)
        /\ Kind(body, pos) = Node.kind /\ body[pos] = Node
  BY <1>1, ItemInHand
<1>3. /\ Here = Len(code) + 1 /\ Here \in Nat /\ Len(code) \in Nat
      /\ Nowhere = 0 /\ pos \in 1..Len(body) /\ pos \in Nat
      /\ Body(body)
      /\ Kind(body, pos) # "finish" => NotLast(body, pos)
  BY <1>2, HereIs
<1>4. Kind(body, pos) \in {"or"}
  BY <1>1, <1>2
<1>5. PICK x1, x2, x3 : /\ x1 = Ins("jumpfalse", Here + 3) /\ x2 = After("const", 1)
                        /\ x3 = After("jump", Nowhere)
  OBVIOUS
<1>6. PICK f : f = [Frame EXCEPT !.jump = Here + 2]
  OBVIOUS
<1>7. /\ Made(body, x1, "jumpfalse", Len(code) + 4, pos) /\ Made(body, x2, "const", 1, pos)
      /\ Made(body, x3, "jump", Nowhere, pos)
  <2>1. Here + 3 = Len(code) + 4 /\ Len(code) + 4 \in Nat
    BY <1>3
  <2> QED
    BY <1>3, <1>5, <2>1, OpIs, InsMade
<1>8. f \in FrameRecords /\ AwaitsThird(f, code)
  <2>1. Here + 2 = Len(code) + 3 /\ Len(code) + 3 \in Nat
    BY <1>3
  <2> QED
    BY <1>6, <2>1, FrameMade DEF AwaitsThird
<1>9. PICK d : Joins(code, OrCode(x1, x2, x3), d)
  BY DEF Joins
<1>10. \E b : BodyInv(body, pos + 1, d, Pushed(f, nested), loops, labels, pending, temp_counter, b, T)
  <2>1. Kind(body, pos) = "or"
    BY <1>4
  <2> QED
    BY <1>2, <1>7, <1>8, <1>9, <2>1, OrItem
<1>11. /\ code' = d /\ nested' = Pushed(f, nested)
       /\ loops' = loops /\ labels' = labels /\ pending' = pending /\ temp_counter' = temp_counter
  BY <1>5, <1>6, <1>9 DEF LowerOr, Enter, Pushed, Joins, OrCode
<1>12. Proceeds(body, T)
  BY <1>1, <1>10, <1>11 DEF Proceeds
<1>13. UNCHANGED <<program, chunk, chunks>>
  BY DEF LowerOr
<1> QED
  BY <1>1, <1>2, <1>12, <1>13, ItemStep

LEMMA StepLoop ==
  ASSUME CompInv, LowerLoop
  PROVE  CompInv'
<1>1. Compiling /\ Node.kind \in {"loop"} /\ pos' = pos + 1
  BY DEF LowerLoop, Lowering
<1>2. PICK body, a, T :
        /\ InHand(body, a, T)
        /\ BodyInv(body, pos, code, nested, loops, labels, pending, temp_counter, a, T)
        /\ Accepted(body)
        /\ Kind(body, pos) = Node.kind /\ body[pos] = Node
  BY <1>1, ItemInHand
<1>3. /\ Here = Len(code) + 1 /\ Here \in Nat /\ Len(code) \in Nat
      /\ Nowhere = 0 /\ pos \in 1..Len(body) /\ pos \in Nat
      /\ Body(body)
      /\ Kind(body, pos) # "finish" => NotLast(body, pos)
  BY <1>2, HereIs
<1>4. Kind(body, pos) \in {"loop"}
  BY <1>1, <1>2
<1>5. PICK f : f = [Frame EXCEPT !.start = Here]
  OBVIOUS
<1>6. f \in FrameRecords /\ Begun(f, code)
  BY <1>3, <1>5, FrameMade DEF Begun
<1>7. \E b : BodyInv(body, pos + 1, code, Pushed(f, nested), loops, labels, pending, temp_counter, b, T)
  BY <1>2, <1>4, <1>6, LoopItem
<1>8. /\ code' = code /\ nested' = Pushed(f, nested)
      /\ loops' = loops /\ labels' = labels /\ pending' = pending /\ temp_counter' = temp_counter
  BY <1>5 DEF LowerLoop, Enter, Pushed
<1>9. Proceeds(body, T)
  BY <1>1, <1>7, <1>8 DEF Proceeds
<1>10. UNCHANGED <<program, chunk, chunks>>
  BY DEF LowerLoop
<1> QED
  BY <1>1, <1>2, <1>9, <1>10, ItemStep

LEMMA StepDo ==
  ASSUME CompInv, LowerDo
  PROVE  CompInv'
<1>1. Compiling /\ Node.kind \in {"do"} /\ pos' = pos + 1
  BY DEF LowerDo, Lowering
<1>2. PICK body, a, T :
        /\ InHand(body, a, T)
        /\ BodyInv(body, pos, code, nested, loops, labels, pending, temp_counter, a, T)
        /\ Accepted(body)
        /\ Kind(body, pos) = Node.kind /\ body[pos] = Node
  BY <1>1, ItemInHand
<1>3. /\ Here = Len(code) + 1 /\ Here \in Nat /\ Len(code) \in Nat
      /\ Nowhere = 0 /\ pos \in 1..Len(body) /\ pos \in Nat
      /\ Body(body)
      /\ Kind(body, pos) # "finish" => NotLast(body, pos)
  BY <1>2, HereIs
<1>4. Kind(body, pos) \in {"do"}
  BY <1>1, <1>2
<1>5. PICK ins : ins = Ins("jumpfalse", Nowhere)
  OBVIOUS
<1>6. PICK g, M : g = Local /\ M = Tail(nested) /\ Splits(nested, g, M)
  BY DEF Local, Splits
<1>7. PICK f : f = [Local EXCEPT !.jump = Here]
  OBVIOUS
<1>8. Made(body, ins, "jumpfalse", Nowhere, pos)
  BY <1>3, <1>5, OpIs, InsMade
<1>9. f \in FrameRecords /\ Awaits(f, code) /\ SameStart(f, g)
  <2>1. PICK p, K : Splits(Open(body, pos), p, K)
    BY DEF Splits
  <2>2. Open(body, pos) # <<>>
    BY <1>3, <1>4, <2>1, MoveDo
  <2> QED
    BY <1>2, <1>3, <1>6, <1>7, <2>2, LocalThere DEF Awaits, SameStart
<1>10. PICK d : Writes(code, ins, d)
  BY DEF Writes
<1>11. PICK l : l = NoJumps /\ Fresh(l)
  <2>1. Fresh(NoJumps)
    BY DEF NoJumps, Fresh, ScopeRecords
  <2> QED
    BY <2>1
<1>12. \E b : BodyInv(body, pos + 1, d, Pushed(f, M), Pushed(l, loops), labels, pending,
                      temp_counter, b, T)
  <2>1. Kind(body, pos) = "do"
    BY <1>4
  <2> QED
    BY <1>2, <1>6, <1>8, <1>9, <1>10, <1>11, <2>1, DoItem
<1>13. /\ code' = d /\ nested' = Pushed(f, M) /\ loops' = Pushed(l, loops)
       /\ labels' = labels /\ pending' = pending /\ temp_counter' = temp_counter
  BY <1>5, <1>6, <1>7, <1>10, <1>11 DEF LowerDo, Pushed, Writes, push_loop
<1>14. Proceeds(body, T)
  BY <1>1, <1>12, <1>13 DEF Proceeds
<1>15. UNCHANGED <<program, chunk, chunks>>
  BY DEF LowerDo
<1> QED
  BY <1>1, <1>2, <1>14, <1>15, ItemStep

LEMMA StepNext ==
  ASSUME CompInv, LowerNext
  PROVE  CompInv'
<1>1. Compiling /\ Node.kind \in {"next"} /\ pos' = pos + 1
  BY DEF LowerNext, Lowering
<1>2. PICK body, a, T :
        /\ InHand(body, a, T)
        /\ BodyInv(body, pos, code, nested, loops, labels, pending, temp_counter, a, T)
        /\ Accepted(body)
        /\ Kind(body, pos) = Node.kind /\ body[pos] = Node
  BY <1>1, ItemInHand
<1>3. /\ Here = Len(code) + 1 /\ Here \in Nat /\ Len(code) \in Nat
      /\ Nowhere = 0 /\ pos \in 1..Len(body) /\ pos \in Nat
      /\ Body(body)
      /\ Kind(body, pos) # "finish" => NotLast(body, pos)
  BY <1>2, HereIs
<1>4. Kind(body, pos) \in {"next"}
  BY <1>1, <1>2
<1>5. Loops(body, pos) # <<>>
  BY <1>3, <1>4, MoveNext
<1>6. PICK l, M : l = Loop /\ Splits(loops, l, M)
  BY <1>2, <1>5, LoopThere
<1>7. PICK d : Patches(code, ContinuesIn(l), Len(code) + 1, d)
  BY DEF Patches
<1>8. \E b : BodyInv(body, pos + 1, d, nested, loops, labels, pending, temp_counter, b, T)
  BY <1>2, <1>4, <1>6, <1>7, NextItem
<1>9. /\ code' = d /\ nested' = nested
      /\ loops' = loops /\ labels' = labels /\ pending' = pending /\ temp_counter' = temp_counter
  BY <1>3, <1>6, <1>7 DEF LowerNext, Patches, ContinuesIn
<1>10. Proceeds(body, T)
  BY <1>1, <1>8, <1>9 DEF Proceeds
<1>11. UNCHANGED <<program, chunk, chunks>>
  BY DEF LowerNext
<1> QED
  BY <1>1, <1>2, <1>10, <1>11, ItemStep

LEMMA StepEnd ==
  ASSUME CompInv, LowerEnd
  PROVE  CompInv'
<1>1. Compiling /\ Node.kind \in {"end"} /\ pos' = pos + 1
  BY DEF LowerEnd, Lowering
<1>2. PICK body, a, T :
        /\ InHand(body, a, T)
        /\ BodyInv(body, pos, code, nested, loops, labels, pending, temp_counter, a, T)
        /\ Accepted(body)
        /\ Kind(body, pos) = Node.kind /\ body[pos] = Node
  BY <1>1, ItemInHand
<1>3. /\ Here = Len(code) + 1 /\ Here \in Nat /\ Len(code) \in Nat
      /\ Nowhere = 0 /\ pos \in 1..Len(body) /\ pos \in Nat
      /\ Body(body)
      /\ Kind(body, pos) # "finish" => NotLast(body, pos)
  BY <1>2, HereIs
<1>4. Kind(body, pos) \in {"end"}
  BY <1>1, <1>2
<1>5. Loops(body, pos) # <<>>
  <2>1. Kind(body, pos) \in Ends
    BY <1>4 DEF Ends
  <2>2. \E h, K, L : EndsLoop(body, pos, h, K, L)
    BY <1>3, <1>4, <2>1, EndsALoop
  <2> QED
    BY <2>2 DEF EndsLoop
<1>6. PICK l, S2 : l = Loop /\ S2 = Tail(loops) /\ Splits(loops, l, S2)
                   /\ S2 = SubSeq(loops, 2, Len(loops))
  BY <1>2, <1>5, LoopThere
<1>7. PICK g, M : g = Local /\ M = Tail(nested) /\ Splits(nested, g, M)
  BY DEF Local, Splits
<1>8. PICK ins : ins = Ins("jump", StartOf(g))
  OBVIOUS
<1>9. Made(body, ins, "jump", StartOf(g), pos)
  <2>1. PICK h, K, L : EndsLoop(body, pos, h, K, L)
    BY <1>3, <1>4, EndsALoop DEF Ends
  <2>2. Local \in FrameRecords
    BY <1>2, <2>1, LocalThere DEF EndsLoop
  <2>3. StartOf(g) \in Nat
    BY <1>7, <2>2 DEF StartOf, FrameRecords
  <2> QED
    BY <1>3, <1>8, <2>3, OpIs, InsMade
<1>10. PICK Q : Q = {Local.jump} \cup Loop.breaks /\ Leaving(Q, g, l)
  <2>1. Leaving({Local.jump} \cup Loop.breaks, g, l)
    BY <1>6, <1>7 DEF Leaving
  <2> QED
    BY <2>1
<1>11. PICK d : Writes(code, ins, d)
  BY DEF Writes
<1>12. PICK e : Patches(d, Q, Len(d) + 1, e)
  BY DEF Patches
<1>13. \E b : BodyInv(body, pos + 1, e, M, S2, labels, pending, temp_counter, b, T)
  <2>1. Kind(body, pos) = "end"
    BY <1>4
  <2> QED
    BY <1>2, <1>6, <1>7, <1>9, <1>10, <1>11, <1>12, <2>1, EndItem
<1>14. code' = e
  <2>1. code \in Seq(Instructions(body)) /\ ins \in Instructions(body)
    BY <1>2, <1>9, ItemFacts DEF Made
  <2>2. d = code \o <<>> \o <<ins>>
    BY <1>11, <2>1 DEF Writes
  <2>3. ins = Ins("jump", Local.start)
    BY <1>7, <1>8 DEF StartOf
  <2>4. code' = Patched(d, Q, Len(d) + 1)
    BY <1>10, <2>2, <2>3 DEF LowerEnd, Close
  <2> QED
    BY <1>12, <2>4 DEF Patches
<1>15. /\ nested' = M /\ loops' = S2
       /\ labels' = labels /\ pending' = pending /\ temp_counter' = temp_counter
  BY <1>6, <1>7 DEF LowerEnd, Close, Leave, pop_loop
<1>16. Proceeds(body, T)
  BY <1>1, <1>13, <1>14, <1>15 DEF Proceeds
<1>17. UNCHANGED <<program, chunk, chunks>>
  BY DEF LowerEnd, Close
<1> QED
  BY <1>1, <1>2, <1>16, <1>17, ItemStep

LEMMA StepEndEach ==
  ASSUME CompInv, LowerEndEach
  PROVE  CompInv'
<1>1. Compiling /\ Node.kind \in {"endeach"} /\ pos' = pos + 1
  BY DEF LowerEndEach, Lowering
<1>2. PICK body, a, T :
        /\ InHand(body, a, T)
        /\ BodyInv(body, pos, code, nested, loops, labels, pending, temp_counter, a, T)
        /\ Accepted(body)
        /\ Kind(body, pos) = Node.kind /\ body[pos] = Node
  BY <1>1, ItemInHand
<1>3. /\ Here = Len(code) + 1 /\ Here \in Nat /\ Len(code) \in Nat
      /\ Nowhere = 0 /\ pos \in 1..Len(body) /\ pos \in Nat
      /\ Body(body)
      /\ Kind(body, pos) # "finish" => NotLast(body, pos)
  BY <1>2, HereIs
<1>4. Kind(body, pos) \in {"endeach"}
  BY <1>1, <1>2
<1>5. Loops(body, pos) # <<>>
  <2>1. Kind(body, pos) \in Ends
    BY <1>4 DEF Ends
  <2>2. \E h, K, L : EndsLoop(body, pos, h, K, L)
    BY <1>3, <1>4, <2>1, EndsALoop
  <2> QED
    BY <2>2 DEF EndsLoop
<1>6. PICK l, S2 : l = Loop /\ S2 = Tail(loops) /\ Splits(loops, l, S2)
                   /\ S2 = SubSeq(loops, 2, Len(loops))
  BY <1>2, <1>5, LoopThere
<1>7. PICK g, M : g = Local /\ M = Tail(nested) /\ Splits(nested, g, M)
  BY DEF Local, Splits
<1>8. StartOf(g) \in Nat /\ IndexOf(g) \in Nat
  <2>1. PICK h, K, L : EndsLoop(body, pos, h, K, L)
    BY <1>3, <1>4, EndsALoop DEF Ends
  <2>2. Local \in FrameRecords
    BY <1>2, <2>1, LocalThere DEF EndsLoop
  <2> QED
    BY <1>7, <2>2 DEF StartOf, IndexOf, FrameRecords
<1>9. PICK x1, x2, x3, x4, x5 :
        /\ x1 = Ins("load", IndexOf(g)) /\ x2 = Ins("const", 1) /\ x3 = Ins("add", Nowhere)
        /\ x4 = Ins("store", IndexOf(g)) /\ x5 = After("jump", StartOf(g))
  OBVIOUS
<1>10. /\ Made(body, x1, "load", IndexOf(g), pos) /\ Made(body, x2, "const", 1, pos)
       /\ Made(body, x3, "add", Nowhere, pos) /\ Made(body, x4, "store", IndexOf(g), pos)
       /\ Made(body, x5, "jump", StartOf(g), pos)
  BY <1>3, <1>8, <1>9, OpIs, InsMade
<1>11. PICK x : x = <<x1, x2, x3, x4>> \o <<x5>>
  OBVIOUS
<1>12. EndEachCode(body, x, pos, IndexOf(g), StartOf(g))
  <2>1. /\ x1 \in Instructions(body) /\ x2 \in Instructions(body) /\ x3 \in Instructions(body)
        /\ x4 \in Instructions(body) /\ x5 \in Instructions(body)
    BY <1>10 DEF Made
  <2>2. /\ x \in Seq(Instructions(body)) /\ Len(x) = 5
        /\ x[1] = x1 /\ x[2] = x2 /\ x[3] = x3 /\ x[4] = x4 /\ x[5] = x5
    BY <1>11, <2>1
  <2> QED
    BY <1>10, <2>2 DEF EndEachCode
<1>13. PICK Q : Q = {Local.jump} \cup Loop.breaks /\ Leaving(Q, g, l)
  <2>1. Leaving({Local.jump} \cup Loop.breaks, g, l)
    BY <1>6, <1>7 DEF Leaving
  <2> QED
    BY <2>1
<1>14. PICK d : Joins(code, x, d)
  BY DEF Joins
<1>15. PICK e : Patches(d, Q, Len(d) + 1, e)
  BY DEF Patches
<1>16. \E b : BodyInv(body, pos + 1, e, M, S2, labels, pending, temp_counter, b, T)
  <2>1. Kind(body, pos) = "endeach"
    BY <1>4
  <2> QED
    BY <1>2, <1>6, <1>7, <1>12, <1>13, <1>14, <1>15, <2>1, EndEachItem
<1>17. code' = e
  <2>1. code \in Seq(Instructions(body)) /\ x \in Seq(Instructions(body))
    BY <1>2, <1>12, ItemFacts DEF EndEachCode
  <2>2. /\ x1 \in Instructions(body) /\ x2 \in Instructions(body) /\ x3 \in Instructions(body)
        /\ x4 \in Instructions(body) /\ x5 \in Instructions(body)
    BY <1>10 DEF Made
  <2>3. d = code \o <<x1, x2, x3, x4>> \o <<x5>>
    BY <1>11, <1>14, <2>1, <2>2 DEF Joins
  <2>4. /\ x1 = Ins("load", Local.index) /\ x4 = Ins("store", Local.index)
        /\ x5 = After("jump", Local.start)
    BY <1>7, <1>9 DEF StartOf, IndexOf
  <2>5. code' = Patched(d, Q, Len(d) + 1)
    BY <1>9, <1>13, <2>3, <2>4 DEF LowerEndEach, Close
  <2> QED
    BY <1>15, <2>5 DEF Patches
<1>18. /\ nested' = M /\ loops' = S2
       /\ labels' = labels /\ pending' = pending /\ temp_counter' = temp_counter
  BY <1>6, <1>7 DEF LowerEndEach, Close, Leave, pop_loop
<1>19. Proceeds(body, T)
  BY <1>1, <1>16, <1>17, <1>18 DEF Proceeds
<1>20. UNCHANGED <<program, chunk, chunks>>
  BY DEF LowerEndEach, Close
<1> QED
  BY <1>1, <1>2, <1>19, <1>20, ItemStep

(* A set of numbers that is not empty has a least one. *)
LEMMA Smallest ==
  ASSUME NEW S, S \in SUBSET Nat, S # {}
  PROVE  \E i \in S : \A j \in S : i <= j
<1> DEFINE less == {ss \in Nat \X Nat : ss[1] < ss[2]}
<1>1. IsWellFoundedOn(less, Nat)
  BY NatLessThanWellFounded, Zenon DEF OpToRel
<1>2. PICK r \in S : \A q \in S : ~(<<q, r>> \in less)
  BY <1>1, WFMin
<1>3. \A q \in S : ~(q < r)
  BY <1>2
<1> QED
  BY <1>3

(* A label that is declared is found. *)
LEMMA FindLabel ==
  ASSUME NEW label, Declared(label) # {}
  PROVE  \E k \in 1..Len(labels) : labels[k].label = label /\ find_label_ip(label) = labels[k].target
<1>1. Declared(label) \in SUBSET Nat
  BY DEF Declared
<1>2. PICK k : k = CHOOSE i \in Declared(label) : \A j \in Declared(label) : i <= j
  OBVIOUS
<1>3. k \in Declared(label)
  BY <1>1, <1>2, Smallest
<1>4. find_label_ip(label) = labels[k].target
  BY <1>2 DEF find_label_ip
<1> QED
  BY <1>3, <1>4 DEF Declared

LEMMA StepGoto ==
  ASSUME CompInv, LowerGoto
  PROVE  CompInv'
<1>1. Compiling /\ Node.kind \in {"goto"} /\ pos' = pos + 1
  BY DEF LowerGoto, Lowering
<1>2. PICK body, a, T :
        /\ InHand(body, a, T)
        /\ BodyInv(body, pos, code, nested, loops, labels, pending, temp_counter, a, T)
        /\ Accepted(body)
        /\ Kind(body, pos) = Node.kind /\ body[pos] = Node
  BY <1>1, ItemInHand
<1>3. /\ Here = Len(code) + 1 /\ Here \in Nat /\ Len(code) \in Nat
      /\ Nowhere = 0 /\ pos \in 1..Len(body) /\ pos \in Nat
      /\ Body(body)
      /\ Kind(body, pos) # "finish" => NotLast(body, pos)
  BY <1>2, HereIs
<1>4. Kind(body, pos) \in {"goto"}
  BY <1>1, <1>2
<1>5. Kind(body, pos) = "goto" /\ Node.node = body[pos].node /\ body[pos].node \in Nodes
  BY <1>2, <1>4, ItemFacts
<1>6. ASSUME Declared(Node.node) # {} PROVE Proceeds(body, T)
  <2>1. PICK k \in 1..Len(labels) :
          labels[k].label = Node.node /\ find_label_ip(Node.node) = labels[k].target
    BY <1>6, FindLabel
  <2>2. PICK target : target = labels[k].target
    OBVIOUS
  <2>3. target \in Nat
    <3>1. Labels(body, code, a, T, pos, labels)
      BY <1>2, ItemFacts
    <3>2. LabelHolds(body, code, a, T, pos, labels[k])
      BY <3>1 DEF Labels
    <3> QED
      BY <1>3, <2>2, <3>2 DEF LabelHolds
  <2>4. PICK ins : ins = Ins("jump", target)
    OBVIOUS
  <2>5. Made(body, ins, "jump", target, pos)
    BY <1>3, <2>3, <2>4, OpIs, InsMade
  <2>6. PICK d : Writes(code, ins, d)
    BY DEF Writes
  <2>7. labels[k].label = body[pos].node
    BY <1>5, <2>1
  <2>8. \E b : BodyInv(body, pos + 1, d, nested, loops, labels, pending, temp_counter, b, T)
    BY <1>2, <1>5, <2>2, <2>5, <2>6, <2>7, GotoBackItem
  <2>9. /\ code' = d /\ pending' = pending
        /\ nested' = nested /\ loops' = loops /\ labels' = labels /\ temp_counter' = temp_counter
    BY <1>6, <2>1, <2>2, <2>4, <2>6 DEF LowerGoto, Writes
  <2> QED
    BY <1>1, <2>8, <2>9 DEF Proceeds
<1>7. ASSUME Declared(Node.node) = {} PROVE Proceeds(body, T)
  <2>1. PICK ins : ins = Ins("jump", Nowhere)
    OBVIOUS
  <2>2. Made(body, ins, "jump", Nowhere, pos)
    BY <1>3, <2>1, OpIs, InsMade
  <2>3. PICK d : Writes(code, ins, d)
    BY DEF Writes
  <2>4. PICK r : r = [label |-> Node.node, jump |-> Here]
    OBVIOUS
  <2>5. Waits(r, body[pos].node, Len(code) + 1)
    BY <1>3, <1>5, <2>4 DEF Waits
  <2>6. PICK P2 : Appends(pending, r, P2)
    BY DEF Appends
  <2>7. \E b : BodyInv(body, pos + 1, d, nested, loops, labels, P2, temp_counter, b, T)
    BY <1>2, <1>5, <2>2, <2>3, <2>5, <2>6, GotoAheadItem
  <2>8. /\ code' = d /\ pending' = P2
        /\ nested' = nested /\ loops' = loops /\ labels' = labels /\ temp_counter' = temp_counter
    BY <1>7, <2>1, <2>3, <2>4, <2>6 DEF LowerGoto, Writes, Appends
  <2> QED
    BY <1>1, <2>7, <2>8 DEF Proceeds
<1>8. Proceeds(body, T)
  BY <1>6, <1>7
<1>9. UNCHANGED <<program, chunk, chunks>>
  BY DEF LowerGoto
<1> QED
  BY <1>1, <1>2, <1>8, <1>9, ItemStep

LEMMA StepLabel ==
  ASSUME CompInv, declare_label
  PROVE  CompInv'
<1>1. Compiling /\ Node.kind \in {"label"} /\ pos' = pos + 1
  BY DEF declare_label, Lowering
<1>2. PICK body, a, T :
        /\ InHand(body, a, T)
        /\ BodyInv(body, pos, code, nested, loops, labels, pending, temp_counter, a, T)
        /\ Accepted(body)
        /\ Kind(body, pos) = Node.kind /\ body[pos] = Node
  BY <1>1, ItemInHand
<1>3. /\ Here = Len(code) + 1 /\ Here \in Nat /\ Len(code) \in Nat
      /\ Nowhere = 0 /\ pos \in 1..Len(body) /\ pos \in Nat
      /\ Body(body)
      /\ Kind(body, pos) # "finish" => NotLast(body, pos)
  BY <1>2, HereIs
<1>4. Kind(body, pos) \in {"label"}
  BY <1>1, <1>2
<1>5. Kind(body, pos) = "label" /\ Node.node = body[pos].node /\ body[pos].node \in Nodes
  BY <1>2, <1>4, ItemFacts
<1>6. PICK r : r = [label |-> Node.node, target |-> Here]
  OBVIOUS
<1>7. Names(r, body[pos].node, Len(code) + 1)
  BY <1>3, <1>5, <1>6 DEF Names
<1>8. PICK R2 : Appends(labels, r, R2)
  BY DEF Appends
<1>9. \E b : BodyInv(body, pos + 1, code, nested, loops, R2, pending, temp_counter, b, T)
  BY <1>2, <1>5, <1>7, <1>8, LabelItem
<1>10. /\ code' = code /\ pending' = pending /\ labels' = R2
       /\ nested' = nested /\ loops' = loops /\ temp_counter' = temp_counter
  BY <1>6, <1>8 DEF declare_label, Appends
<1>11. Proceeds(body, T)
  BY <1>1, <1>9, <1>10 DEF Proceeds
<1>12. UNCHANGED <<program, chunk, chunks>>
  BY DEF declare_label
<1> QED
  BY <1>1, <1>2, <1>11, <1>12, ItemStep

(* The first of a sequence, exchanged. *)
LEMMA HeadChanged ==
  ASSUME NEW S, NEW s, s \in Seq(S), s # <<>>, NEW x, x \in S
  PROVE  [s EXCEPT ![1] = x] = Pushed(x, Tail(s))
<1> DEFINE t == [s EXCEPT ![1] = x]
           u == Pushed(x, Tail(s))
<1>1. /\ Len(s) \in Nat \ {0} /\ Tail(s) \in Seq(S) /\ Len(Tail(s)) = Len(s) - 1
      /\ \A k \in 1..Len(s) - 1 : Tail(s)[k] = s[k + 1]
  BY Pop
<1>2. /\ u \in Seq(S) /\ Len(u) = Len(Tail(s)) + 1 /\ u[1] = x
      /\ \A k \in 1..Len(Tail(s)) + 1 : k = 1 \/ u[k] = Tail(s)[k - 1]
  BY <1>1, Push DEF Pushed
<1>3. t \in Seq(S) /\ Len(t) = Len(s) /\ t[1] = x /\ \A k \in 1..Len(s) : k = 1 \/ t[k] = s[k]
  OBVIOUS
<1> HIDE DEF t, u
<1>4. ASSUME NEW k \in 1..Len(t) PROVE t[k] = u[k]
  <2>1. CASE k = 1
    BY <1>2, <1>3, <2>1
  <2>2. CASE k # 1
    <3>1. k - 1 \in 1..Len(s) - 1 /\ (k - 1) + 1 = k /\ k \in 1..Len(Tail(s)) + 1
      BY <1>1, <1>3, <2>2
    <3>2. u[k] = Tail(s)[k - 1] /\ Tail(s)[k - 1] = s[k]
      BY <1>1, <1>2, <2>2, <3>1
    <3> QED
      BY <1>3, <2>2, <3>2
  <2> QED
    BY <2>1, <2>2
<1>5. Len(t) = Len(u)
  BY <1>1, <1>2, <1>3
<1>6. t = u
  BY <1>2, <1>3, <1>4, <1>5, SeqEqual
<1> QED
  BY <1>6 DEF t, u

LEMMA StepLeave ==
  ASSUME CompInv, LowerLeave
  PROVE  CompInv' /\ had_error' = had_error
<1>1. Compiling /\ Node.kind \in {"break", "continue"} /\ pos' = pos + 1
  BY DEF LowerLeave, Lowering
<1>2. PICK body, a, T :
        /\ InHand(body, a, T)
        /\ BodyInv(body, pos, code, nested, loops, labels, pending, temp_counter, a, T)
        /\ Accepted(body)
        /\ Kind(body, pos) = Node.kind /\ body[pos] = Node
  BY <1>1, ItemInHand
<1>3. /\ Here = Len(code) + 1 /\ Here \in Nat /\ Len(code) \in Nat
      /\ Nowhere = 0 /\ pos \in 1..Len(body) /\ pos \in Nat
      /\ Body(body)
      /\ Kind(body, pos) # "finish" => NotLast(body, pos)
  BY <1>2, HereIs
<1>4. Kind(body, pos) \in {"break", "continue"}
  BY <1>1, <1>2
<1>5. Loops(body, pos) # <<>>
  <2>1. pos \in At(body, {"break", "continue"})
    BY <1>3, <1>4 DEF At, Kind
  <2>2. LoopsAround(body, pos) # {}
    BY <1>2, <2>1 DEF Accepted
  <2>3. LoopsAround(body, pos) = Members(Nesting(body)[pos].loops)
    <3>1. body[pos].kind \notin Ends
      BY <1>4 DEF Kind, Ends
    <3> QED
      BY <1>3, <3>1, LoopsAroundAre
  <2> QED
    BY <2>2, <2>3 DEF Members, Loops
<1>6. /\ loops # <<>> /\ loops \in Seq(ScopeRecords) /\ Loop \in ScopeRecords
      /\ Splits(loops, Loop, Tail(loops))
  BY <1>2, <1>5, LoopThere
<1>7. PICK l, M : l = Loop /\ M = Tail(loops) /\ Splits(loops, l, M) /\ l \in ScopeRecords
  BY <1>6
<1>8. PICK l2 : l2 = record_jump(l, Node.kind)
  OBVIOUS
<1>9. Records(l, l2, Kind(body, pos), code) /\ l2 \in ScopeRecords
  <2>1. CASE Node.kind = "break"
    <3>1. l2 = [l EXCEPT !.breaks = @ \cup {Here}]
      BY <1>8, <2>1 DEF record_jump
    <3>2. l2 \in ScopeRecords /\ l2.breaks = l.breaks \cup {Here} /\ l2.continues = l.continues
      BY <1>3, <1>7, <3>1 DEF ScopeRecords
    <3>3. Kind(body, pos) = "break"
      BY <1>2, <2>1
    <3> QED
      BY <1>3, <3>2, <3>3 DEF Records
  <2>2. CASE Node.kind = "continue"
    <3>1. l2 = [l EXCEPT !.continues = @ \cup {Here}]
      BY <1>8, <2>2 DEF record_jump
    <3>2. l2 \in ScopeRecords /\ l2.continues = l.continues \cup {Here} /\ l2.breaks = l.breaks
      BY <1>3, <1>7, <3>1 DEF ScopeRecords
    <3>3. Kind(body, pos) = "continue"
      BY <1>2, <2>2
    <3> QED
      BY <1>3, <3>2, <3>3 DEF Records
  <2> QED
    BY <1>1, <2>1, <2>2
<1>10. PICK ins : ins = Ins("jump", Nowhere)
  OBVIOUS
<1>11. Made(body, ins, "jump", Nowhere, pos)
  BY <1>3, <1>10, OpIs, InsMade
<1>12. PICK d : Writes(code, ins, d)
  BY DEF Writes
<1>13. \E b : BodyInv(body, pos + 1, d, nested, Pushed(l2, M), labels, pending, temp_counter, b, T)
  BY <1>2, <1>4, <1>5, <1>7, <1>9, <1>11, <1>12, LeaveItem
<1>14. loops' = Pushed(l2, M)
  <2>1. loops' = [loops EXCEPT ![1] = record_jump(@, Node.kind)]
    BY <1>6 DEF LowerLeave, current_loop
  <2>2. loops[1] = l
    BY <1>6, <1>7 DEF Loop, current_loop
  <2>3. loops' = [loops EXCEPT ![1] = l2]
    BY <1>8, <2>1, <2>2
  <2>4. [loops EXCEPT ![1] = l2] = Pushed(l2, Tail(loops))
    BY <1>6, <1>9, HeadChanged
  <2> QED
    BY <1>7, <2>3, <2>4
<1>15. /\ code' = d /\ nested' = nested /\ labels' = labels /\ pending' = pending
       /\ temp_counter' = temp_counter
  BY <1>6, <1>10, <1>12 DEF LowerLeave, Writes
<1>16. had_error' = had_error
  BY <1>6 DEF LowerLeave
<1>17. Proceeds(body, T)
  BY <1>1, <1>13, <1>14, <1>15 DEF Proceeds
<1>18. UNCHANGED <<program, chunk, chunks>>
  BY DEF LowerLeave
<1> QED
  BY <1>1, <1>2, <1>16, <1>17, <1>18, ItemStep

FirstThree(body, y, x1, x2, x3) ==
  /\ y \in Seq(Instructions(body)) /\ Len(y) = 3
  /\ y[1] = x1 /\ y[2] = x2 /\ y[3] = x3

LastNine(body, z, x4, x5, x6, x7, x8, x9, x10, x11, x12) ==
  /\ z \in Seq(Instructions(body)) /\ Len(z) = 9
  /\ z[1] = x4 /\ z[2] = x5 /\ z[3] = x6 /\ z[4] = x7 /\ z[5] = x8
  /\ z[6] = x9 /\ z[7] = x10 /\ z[8] = x11 /\ z[9] = x12

(* Two sequences, joined. *)
LEMMA JoinsAre ==
  ASSUME NEW S, NEW s, s \in Seq(S), NEW t, t \in Seq(S), NEW u, Joins(s, t, u)
  PROVE  /\ u \in Seq(S)
         /\ Len(u) = Len(s) + Len(t)
         /\ \A k \in 1..Len(s) : u[k] = s[k]
         /\ \A k \in 1..Len(t) : u[Len(s) + k] = t[k]
  BY DEF Joins

LEMMA StepForeach ==
  ASSUME CompInv, LowerForeach
  PROVE  CompInv'
<1>1. Compiling /\ Node.kind = "foreach" /\ pos' = pos + 2 /\ temp_counter' = temp_counter + 2
  BY DEF LowerForeach
<1>2. PICK body, a, T :
        /\ InHand(body, a, T)
        /\ BodyInv(body, pos, code, nested, loops, labels, pending, temp_counter, a, T)
        /\ Accepted(body)
        /\ Kind(body, pos) = Node.kind /\ body[pos] = Node
  BY <1>1, ItemInHand
<1>3. /\ Here = Len(code) + 1 /\ Here \in Nat /\ Len(code) \in Nat
      /\ Nowhere = 0 /\ pos \in 1..Len(body) /\ pos \in Nat
      /\ Body(body)
      /\ Kind(body, pos) # "finish" => NotLast(body, pos)
  BY <1>2, HereIs
<1>4. Kind(body, pos) = "foreach"
  BY <1>1, <1>2
<1>5. pos + 1 \in 1..Len(body) /\ pos + 1 \in Nat
  <2>1. NotLast(body, pos) /\ Body(body)
    BY <1>3, <1>4
  <2>2. NotLast(body, pos + 1)
    BY <1>4, <2>1, MoveForeach
  <2> QED
    BY <1>3, <2>2 DEF NotLast
<1>6. PICK array, index : array = temp_counter /\ index = temp_counter + 1
                          /\ array \in Nat /\ index \in Nat
  <2>1. Named(body, code, T, pos, temp_counter)
    BY <1>2, ItemFacts
  <2>2. temp_counter \in Nat
    BY <2>1 DEF Named
  <2> QED
    BY <2>2
<1> DEFINE each(op, arg) == [Ins(op, arg) EXCEPT !.item = pos + 1]
<1>7. \A op \in Ops, arg \in Nat : Made(body, each(op, arg), op, arg, pos + 1)
  BY <1>5 DEF Ins, Made, Instructions
<1>8. PICK x1, x2, x3 :
        /\ x1 = Ins("define", array) /\ x2 = After("const", 0) /\ x3 = After("define", index)
  OBVIOUS
<1>9. PICK x4, x5, x6, x7, x8, x9, x10, x11, x12 :
        /\ x4 = each("load", index) /\ x5 = each("load", array) /\ x6 = each("length", Nowhere)
        /\ x7 = each("less", Nowhere) /\ x8 = each("jumpfalse", Nowhere)
        /\ x9 = each("load", array) /\ x10 = each("load", index)
        /\ x11 = each("get", Nowhere) /\ x12 = each("bind", Nowhere)
  OBVIOUS
<1>10. /\ Made(body, x1, "define", array, pos) /\ Made(body, x2, "const", 0, pos)
       /\ Made(body, x3, "define", index, pos)
  BY <1>3, <1>6, <1>8, OpIs, InsMade
<1> HIDE DEF each
<1>11. /\ Made(body, x4, "load", index, pos + 1) /\ Made(body, x5, "load", array, pos + 1)
       /\ Made(body, x6, "length", Nowhere, pos + 1) /\ Made(body, x7, "less", Nowhere, pos + 1)
       /\ Made(body, x8, "jumpfalse", Nowhere, pos + 1) /\ Made(body, x9, "load", array, pos + 1)
       /\ Made(body, x10, "load", index, pos + 1) /\ Made(body, x11, "get", Nowhere, pos + 1)
       /\ Made(body, x12, "bind", Nowhere, pos + 1)
  BY <1>3, <1>6, <1>7, <1>9, OpIs
<1>12. PICK y : y = <<x1, x2, x3>> /\ FirstThree(body, y, x1, x2, x3)
  <2>1. x1 \in Instructions(body) /\ x2 \in Instructions(body) /\ x3 \in Instructions(body)
    BY <1>10 DEF Made
  <2>2. FirstThree(body, <<x1, x2, x3>>, x1, x2, x3)
    BY <2>1 DEF FirstThree
  <2> QED
    BY <2>2
<1>13. PICK z : /\ z = <<x4, x5, x6, x7, x8, x9, x10, x11, x12>>
                /\ LastNine(body, z, x4, x5, x6, x7, x8, x9, x10, x11, x12)
  <2>1. /\ x4 \in Instructions(body) /\ x5 \in Instructions(body) /\ x6 \in Instructions(body)
        /\ x7 \in Instructions(body) /\ x8 \in Instructions(body) /\ x9 \in Instructions(body)
        /\ x10 \in Instructions(body) /\ x11 \in Instructions(body) /\ x12 \in Instructions(body)
    BY <1>11 DEF Made
  <2>2. LastNine(body, <<x4, x5, x6, x7, x8, x9, x10, x11, x12>>,
                 x4, x5, x6, x7, x8, x9, x10, x11, x12)
    BY <2>1 DEF LastNine
  <2> QED
    BY <2>2
<1>14. PICK x : Joins(y, z, x)
  BY DEF Joins
<1>15. ForeachCode(body, x, pos, temp_counter, temp_counter + 1)
  <2>1. y \in Seq(Instructions(body)) /\ Len(y) = 3 /\ z \in Seq(Instructions(body)) /\ Len(z) = 9
    BY <1>12, <1>13 DEF FirstThree, LastNine
  <2>2. /\ x \in Seq(Instructions(body)) /\ Len(x) = 12
        /\ \A k \in 1..3 : x[k] = y[k]
        /\ \A k \in 1..9 : x[3 + k] = z[k]
    <3>1. /\ x \in Seq(Instructions(body)) /\ Len(x) = Len(y) + Len(z)
          /\ \A k \in 1..Len(y) : x[k] = y[k]
          /\ \A k \in 1..Len(z) : x[Len(y) + k] = z[k]
      <4>1. y \in Seq(Instructions(body)) /\ z \in Seq(Instructions(body)) /\ Joins(y, z, x)
        BY <1>14, <2>1
      <4> QED
        BY <4>1, JoinsAre
    <3> QED
      BY <2>1, <3>1
  <2>3. /\ x[1] = x1 /\ x[2] = x2 /\ x[3] = x3
    BY <1>12, <2>2 DEF FirstThree
  <2>4. /\ x[4] = x4 /\ x[5] = x5 /\ x[6] = x6 /\ x[7] = x7 /\ x[8] = x8 /\ x[9] = x9
        /\ x[10] = x10 /\ x[11] = x11 /\ x[12] = x12
    <3>1. /\ x[3 + 1] = z[1] /\ x[3 + 2] = z[2] /\ x[3 + 3] = z[3] /\ x[3 + 4] = z[4]
          /\ x[3 + 5] = z[5] /\ x[3 + 6] = z[6] /\ x[3 + 7] = z[7] /\ x[3 + 8] = z[8]
          /\ x[3 + 9] = z[9]
      BY <2>2
    <3> QED
      BY <1>13, <3>1 DEF LastNine
  <2>5. ForeachCode(body, x, pos, array, index)
    BY <1>10, <1>11, <2>2, <2>3, <2>4 DEF ForeachCode
  <2> QED
    BY <1>6, <2>5
<1>16. PICK f : /\ f = [start |-> Len(code) + 4, jump |-> Len(code) + 8,
                        array |-> array, index |-> index]
                /\ f \in FrameRecords /\ ForeachFrame(f, code, temp_counter)
  <2>1. [start |-> Len(code) + 4, jump |-> Len(code) + 8, array |-> array, index |-> index]
          \in FrameRecords
    BY <1>3, <1>6 DEF FrameRecords
  <2>2. ForeachFrame([start |-> Len(code) + 4, jump |-> Len(code) + 8,
                      array |-> array, index |-> index], code, temp_counter)
    BY <1>6 DEF ForeachFrame
  <2> QED
    BY <2>1, <2>2
<1>17. PICK l : l = NoJumps /\ Fresh(l)
  <2>1. Fresh(NoJumps)
    BY DEF NoJumps, Fresh, ScopeRecords
  <2> QED
    BY <2>1
<1>18. PICK d : Joins(code, x, d)
  BY DEF Joins
<1>19. \E b, T2 :
         /\ BodyInv(body, pos + 2, d, Pushed(f, nested), Pushed(l, loops), labels, pending,
                    temp_counter + 2, b, T2)
         /\ Base(T2) = Base(T)
  BY <1>2, <1>4, <1>15, <1>16, <1>17, <1>18, ForeachItem
<1>20. code' = d
  <2>1. /\ code \in Seq(Instructions(body))
        /\ y \in Seq(Instructions(body)) /\ z \in Seq(Instructions(body))
    BY <1>2, <1>12, <1>13, ItemFacts DEF FirstThree, LastNine
  <2>2. d = code \o y \o z
    BY <1>14, <1>18, <2>1 DEF Joins
  <2>3. y = SetUp(make_temp_name(0), make_temp_name(1))
    <3>1. make_temp_name(0) = array /\ make_temp_name(1) = index
      BY <1>6 DEF make_temp_name
    <3> QED
      BY <1>8, <1>12, <3>1 DEF SetUp
  <2>4. z = <<each("load", make_temp_name(1)), each("load", make_temp_name(0)),
              each("length", Nowhere),
              each("less", Nowhere), each("jumpfalse", Nowhere),
              each("load", make_temp_name(0)), each("load", make_temp_name(1)),
              each("get", Nowhere), each("bind", Nowhere)>>
    <3>1. make_temp_name(0) = array /\ make_temp_name(1) = index
      BY <1>6 DEF make_temp_name
    <3> QED
      BY <1>9, <1>13, <3>1
  <2>5. code' = code \o SetUp(make_temp_name(0), make_temp_name(1)) \o
           <<each("load", make_temp_name(1)), each("load", make_temp_name(0)),
              each("length", Nowhere),
              each("less", Nowhere), each("jumpfalse", Nowhere),
              each("load", make_temp_name(0)), each("load", make_temp_name(1)),
              each("get", Nowhere), each("bind", Nowhere)>>
    BY DEF LowerForeach, each
  <2> QED
    BY <2>2, <2>3, <2>4, <2>5
<1>21. /\ nested' = Pushed(f, nested) /\ loops' = Pushed(l, loops)
       /\ labels' = labels /\ pending' = pending
  <2>1. make_temp_name(0) = array /\ make_temp_name(1) = index
    BY <1>6 DEF make_temp_name
  <2>2. Here + Len(SetUp(array, index)) = Len(code) + 4
    <3>1. Len(SetUp(array, index)) = 3
      BY DEF SetUp
    <3> QED
      BY <1>3, <3>1
  <2>3. (Len(code) + 4) + 4 = Len(code) + 8
    BY <1>3
  <2>4. nested' = <<[start |-> Here + Len(SetUp(make_temp_name(0), make_temp_name(1))),
                     jump |-> Here + Len(SetUp(make_temp_name(0), make_temp_name(1))) + 4,
                     array |-> make_temp_name(0), index |-> make_temp_name(1)]>> \o nested
    BY DEF LowerForeach, Enter
  <2>5. nested' = <<f>> \o nested
    BY <1>16, <2>1, <2>2, <2>3, <2>4
  <2>6. loops' = <<l>> \o loops
    BY <1>17 DEF LowerForeach, EnterLoop, push_loop
  <2> QED
    BY <2>5, <2>6 DEF LowerForeach, Pushed
<1>22. Proceeds(body, T)
  BY <1>1, <1>19, <1>20, <1>21 DEF Proceeds
<1>23. UNCHANGED <<program, chunk, chunks>>
  BY DEF LowerForeach
<1> QED
  BY <1>1, <1>2, <1>22, <1>23, ItemStep

-----------------------------------------------------------------------------
(* From one body to the next *)

(* The empty sequence. *)
LEMMA NothingYet ==
  ASSUME NEW S
  PROVE  <<>> \in Seq(S) /\ Len(<<>>) = 0
  OBVIOUS

(* A body of which nothing is compiled yet. *)
LEMMA BodyStart ==
  ASSUME NEW body, Body(body), NEW tc, tc \in Nat
  PROVE  \E a, T : /\ BodyInv(body, 1, <<>>, <<>>, <<>>, <<>>, <<>>, tc, a, T)
                   /\ Base(T) = tc
<1>1. /\ 1 \in 1..Len(body) /\ Nesting(body)[1] = Outermost
  BY DEF Body, WellNested, Moves
<1>2. Open(body, 1) = <<>> /\ Loops(body, 1) = <<>> /\ Operands(body, 1) = 0
      /\ Part(body, 1) = "body"
  BY <1>1 DEF Open, Loops, Operands, Part, Outermost
<1>3. PICK T : T \in [Nat -> Nat] /\ Base(T) = tc
  <2>1. [h \in Nat |-> tc] \in [Nat -> Nat] /\ [h \in Nat |-> tc][0] = tc
    OBVIOUS
  <2> QED
    BY <2>1 DEF Base
<1>4. PICK s : s = State(body, T, 0, Loops(body, 1)) /\ s \in States
                /\ s.height = 0 /\ s.bound = {}
  <2>1. Members(Loops(body, 1)) = {}
    BY <1>2 DEF Members
  <2>2. TempsOf(body, T, Loops(body, 1)) = {}
    BY <2>1 DEF TempsOf
  <2>3. State(body, T, 0, Loops(body, 1)) \in States
    BY <2>2 DEF State, States
  <2> QED
    BY <2>2, <2>3 DEF State
<1>5. PICK a : a = <<s>> /\ a \in Seq(States) /\ Len(a) = 1 /\ a[1] = s
  <2>1. <<s>> \in Seq(States) /\ Len(<<s>>) = 1 /\ <<s>>[1] = s
    BY <1>4
  <2> QED
    BY <2>1
<1>6. PICK c : c = <<>> /\ c \in Seq(Instructions(body)) /\ Len(c) = 0
  BY NothingYet
<1>7. Flow(body, c, a)
  BY <1>4, <1>5, <1>6 DEF Flow, FromNothing
<1>8. a[Len(c) + 1] = State(body, T, Operands(body, 1), Loops(body, 1))
  BY <1>2, <1>4, <1>5, <1>6
<1>9. Frames(body, c, a, T, Open(body, 1), <<>>)
  BY <1>2 DEF Frames
<1>10. Scopes(body, c, a, T, Loops(body, 1), <<>>)
  BY <1>2 DEF Scopes
<1>11. Labels(body, c, a, T, 1, <<>>)
  BY DEF Labels
<1>12. Gotos(body, c, a, T, 1, <<>>)
  BY DEF Gotos
<1>13. Unresolved(c) \subseteq Remembered(<<>>, <<>>, <<>>, Part(body, 1))
  BY <1>6 DEF Unresolved
<1>14. Named(body, c, T, 1, tc)
  BY <1>3, <1>6 DEF Named, Apart, Base
<1>15. Sources(body, c, 1)
  BY <1>6 DEF Sources
<1>16. BodyInv(body, 1, c, <<>>, <<>>, <<>>, <<>>, tc, a, T)
  BY <1>1, <1>7, <1>8, <1>9, <1>10, <1>11, <1>12, <1>13, <1>14, <1>15 DEF BodyInv
<1> QED
  BY <1>3, <1>6, <1>16

(* A finished chunk stays one when there are more temporaries. *)
LEMMA CompleteUpTo ==
  ASSUME NEW body, NEW e, NEW b, NEW low, low \in Nat, NEW tc, tc \in Nat, low <= tc,
         Complete(body, e, b, low)
  PROVE  Complete(body, e, b, tc)
<1>1. e \in Seq(Instructions(body))
  BY DEF Complete, Flow
<1>2. ASSUME NEW j \in 1..Len(e), e[j].op \in {"define", "load", "store"} PROVE e[j].arg < tc
  <2>1. PICK n : n = e[j].arg
    OBVIOUS
  <2>2. n \in Nat
    <3>1. e[j] \in Instructions(body)
      BY <1>1
    <3> QED
      BY <2>1, <3>1 DEF Instructions
  <2>3. n < low
    BY <1>2, <2>1 DEF Complete
  <2>4. n < tc
    BY <2>2, <2>3
  <2> QED
    BY <2>1, <2>4
<1> QED
  BY <1>2 DEF Complete

(* One more finished chunk, whose temporaries are its own. *)
LEMMA FinishedGrows ==
  ASSUME NEW p, p \in Programs, NEW C, NEW low, low \in Nat, Finished(p, C, low),
         Len(C) < Len(p.bodies),
         NEW tc, tc \in Nat, NEW e, Apart(e, low, tc),
         NEW b, Complete(p.bodies[Len(C) + 1], e, b, tc),
         NEW D, Appends(C, e, D), Len(D) = Len(p.bodies) => EntryCalled(p, D)
  PROVE  Finished(p, D, tc)
<1>1. /\ C \in Seq(Seq(PlainInstructions)) /\ Len(C) \in Nat /\ Len(p.bodies) \in Nat
      /\ Len(C) <= Len(p.bodies)
      /\ \A k \in 1..Len(C) : \E s : Complete(p.bodies[k], C[k], s, low)
      /\ Distinct(C)
  BY ProgramTyped DEF Finished
<1>2. /\ low <= tc
      /\ \A j \in 1..Len(e) : e[j].op = "define" => low <= e[j].arg
      /\ \A j, k \in 1..Len(e) :
           e[j].op = "define" /\ e[k].op = "define" /\ e[j].arg = e[k].arg => j = k
  BY DEF Apart
<1>3. e \in Seq(PlainInstructions)
  <2>1. e \in Seq(Instructions(p.bodies[Len(C) + 1]))
    BY DEF Complete, Flow
  <2>2. PICK n : n = Len(p.bodies[Len(C) + 1])
    OBVIOUS
  <2>3. n \in Nat
    <3>1. Len(C) + 1 \in 1..Len(p.bodies)
      BY <1>1
    <3>2. p.bodies \in Seq(Seq(Items))
      BY ProgramTyped
    <3>3. p.bodies[Len(C) + 1] \in Seq(Items)
      BY <3>1, <3>2
    <3> QED
      BY <2>2, <3>3
  <2>4. Instructions(p.bodies[Len(C) + 1]) \subseteq PlainInstructions
    BY <2>2, <2>3 DEF Instructions, PlainInstructions
  <2> QED
    BY <2>1, <2>4
<1>4. /\ D \in Seq(Seq(PlainInstructions)) /\ Len(D) = Len(C) + 1
      /\ D[Len(C) + 1] = e /\ \A k \in 1..Len(C) : D[k] = C[k]
  BY <1>1, <1>3 DEF Appends
<1>5. ASSUME NEW k \in 1..Len(D) PROVE \E s : Complete(p.bodies[k], D[k], s, tc)
  <2>1. CASE k \in 1..Len(C)
    <3>1. PICK s : Complete(p.bodies[k], C[k], s, low)
      BY <1>1, <2>1
    <3>2. Complete(p.bodies[k], C[k], s, tc)
      BY <1>2, <3>1, CompleteUpTo
    <3> QED
      BY <1>4, <2>1, <3>2
  <2>2. CASE k = Len(C) + 1
    BY <1>4, <2>2
  <2> QED
    BY <1>1, <1>4, <2>1, <2>2
<1>6. Distinct(D)
  <2>1. ASSUME NEW k \in 1..Len(C), NEW i \in 1..Len(C[k]), C[k][i].op = "define"
        PROVE  C[k][i].arg < low
    BY <1>1, <2>1 DEF Complete
  <2>2. ASSUME NEW k \in 1..Len(C), NEW i \in 1..Len(C[k]), C[k][i].op = "define",
               NEW j \in 1..Len(e), e[j].op = "define"
        PROVE  C[k][i].arg # e[j].arg
    <3>1. PICK n, m : n = C[k][i].arg /\ m = e[j].arg
      OBVIOUS
    <3>2. m \in Nat
      <4>1. e[j] \in PlainInstructions
        BY <1>3
      <4> QED
        BY <3>1, <4>1 DEF PlainInstructions
    <3>3. n < low /\ low <= m
      BY <1>2, <2>1, <2>2, <3>1
    <3>4. n \in Nat
      <4>1. C[k] \in Seq(PlainInstructions)
        BY <1>1
      <4>2. C[k][i] \in PlainInstructions
        BY <4>1
      <4> QED
        BY <3>1, <4>2 DEF PlainInstructions
    <3>5. n # m
      BY <3>2, <3>3, <3>4
    <3> QED
      BY <3>1, <3>5
  <2>3. ASSUME NEW k \in 1..Len(D), NEW l \in 1..Len(D),
               NEW i \in 1..Len(D[k]), NEW j \in 1..Len(D[l]),
               D[k][i].op = "define", D[l][j].op = "define", D[k][i].arg = D[l][j].arg
        PROVE  k = l /\ i = j
    <3>1. CASE k \in 1..Len(C) /\ l \in 1..Len(C)
      <4>1. D[k] = C[k] /\ D[l] = C[l]
        BY <1>4, <3>1
      <4> QED
        BY <1>1, <2>3, <3>1, <4>1 DEF Distinct
    <3>2. CASE k \in 1..Len(C) /\ l = Len(C) + 1
      <4>1. D[k] = C[k] /\ D[l] = e
        BY <1>4, <3>2
      <4> QED
        BY <2>2, <2>3, <3>2, <4>1
    <3>3. CASE k = Len(C) + 1 /\ l \in 1..Len(C)
      <4>1. D[k] = e /\ D[l] = C[l]
        BY <1>4, <3>3
      <4> QED
        BY <2>2, <2>3, <3>3, <4>1
    <3>4. CASE k = Len(C) + 1 /\ l = Len(C) + 1
      <4>1. D[k] = e /\ D[l] = e
        BY <1>4, <3>4
      <4> QED
        BY <1>2, <2>3, <3>4, <4>1
    <3> QED
      BY <1>1, <1>4, <3>1, <3>2, <3>3, <3>4, SMTT(30)
  <2> QED
    BY <2>3 DEF Distinct
<1> QED
  BY <1>1, <1>4, <1>5, <1>6 DEF Finished

(* resolve_labels gives each goto that waits the address of its label. *)
LEMMA LabelsResolved ==
  ASSUME NEW body, NEW a, NEW T,
         BodyInv(body, pos, code, nested, loops, labels, pending, temp_counter, a, T),
         Kind(body, pos) = "finish", Accepted(body),
         NEW d, d \in Seq(Instructions(body))
  PROVE  Resolves(body, d, labels, pending, resolve_labels(d))
<1>1. labels \in Seq([label : Nodes, target : Nat])
  <2>1. Labels(body, code, a, T, pos, labels)
    BY ItemFacts
  <2> QED
    BY <2>1 DEF Labels
<1>2. \A p \in 1..Len(pending) : \E k \in 1..Len(labels) : labels[k].label = pending[p].label
  BY LabelsDeclared
<1>3. ASSUME NEW p \in 1..Len(pending) PROVE Declared(pending[p].label) # {}
  <2>1. PICK k \in 1..Len(labels) : labels[k].label = pending[p].label
    BY <1>2
  <2>2. k \in Declared(pending[p].label)
    BY <2>1 DEF Declared
  <2> QED
    BY <2>2
<1> DEFINE e == resolve_labels(d)
           Waiting(j) == \E p \in 1..Len(pending) : pending[p].jump = j
           Goto(j) == CHOOSE p \in 1..Len(pending) : pending[p].jump = j
           Label(j) == pending[Goto(j)].label
           Found(j) == find_label_ip(Label(j))
<1>4. e = [j \in 1..Len(d) |-> IF Waiting(j) THEN [d[j] EXCEPT !.arg = Found(j)] ELSE d[j]]
  <2>1. ASSUME NEW j
        PROVE  (\E p \in 1..Len(pending) : pending[p].jump = j /\ Declared(pending[p].label) # {})
                  <=> Waiting(j)
    BY <1>3
  <2> HIDE DEF Waiting
  <2> QED
    BY <2>1, Zenon DEF resolve_labels
<1>5. ASSUME NEW j \in 1..Len(d), Waiting(j)
      PROVE  \E p \in 1..Len(pending), k \in 1..Len(labels) :
               /\ pending[p].jump = j /\ labels[k].label = pending[p].label
               /\ Found(j) = labels[k].target /\ Found(j) \in Nat
  <2>1. Goto(j) \in 1..Len(pending) /\ pending[Goto(j)].jump = j
    BY <1>5
  <2>2. PICK p : p = Goto(j) /\ p \in 1..Len(pending) /\ pending[p].jump = j
    BY <2>1
  <2>3. Label(j) = pending[p].label
    BY <2>2
  <2>4. PICK label : label = Label(j) /\ label = pending[p].label
    BY <2>3
  <2>5. Declared(label) # {}
    BY <1>3, <2>2, <2>4
  <2>6. PICK k \in 1..Len(labels) : labels[k].label = label /\ find_label_ip(label) = labels[k].target
    BY <2>5, FindLabel
  <2>7. labels[k].target \in Nat
    <3>1. labels[k] \in [label : Nodes, target : Nat]
      BY <1>1, ElementOfSeq
    <3> QED
      BY <3>1
  <2> QED
    BY <2>2, <2>4, <2>6, <2>7
<1> HIDE DEF Found, Waiting, e
<1>6. Len(d) \in Nat
  OBVIOUS
<1>7. ASSUME NEW j \in 1..Len(d)
      PROVE  /\ e[j] \in Instructions(body)
             /\ e[j].op = d[j].op /\ e[j].item = d[j].item
             /\ Waiting(j) => e[j].arg = Found(j)
             /\ ~Waiting(j) => e[j] = d[j]
  <2>1. d[j] \in Instructions(body)
    OBVIOUS
  <2>2. CASE Waiting(j)
    <3>1. e[j] = [d[j] EXCEPT !.arg = Found(j)]
      BY <1>4, <2>2
    <3>2. Found(j) \in Nat
      BY <1>5, <2>2
    <3> QED
      BY <2>1, <2>2, <3>1, <3>2 DEF Instructions
  <2>3. CASE ~Waiting(j)
    BY <1>4, <2>1, <2>3
  <2> QED
    BY <2>2, <2>3
<1>8. e \in Seq(Instructions(body)) /\ Len(e) = Len(d)
  <2>1. DOMAIN e = 1..Len(d)
    BY <1>4
  <2>2. e \in [1..Len(d) -> Instructions(body)]
    BY <1>4, <1>7
  <2> QED
    BY <1>6, <2>2
<1>9. ASSUME NEW j \in 1..Len(d)
      PROVE  \/ e[j] = d[j] /\ \A p \in 1..Len(pending) : pending[p].jump # j
             \/ \E p \in 1..Len(pending), k \in 1..Len(labels) :
                  /\ pending[p].jump = j /\ labels[k].label = pending[p].label
                  /\ e[j].arg = labels[k].target
  <2>1. CASE Waiting(j)
    <3>1. PICK p \in 1..Len(pending), k \in 1..Len(labels) :
            /\ pending[p].jump = j /\ labels[k].label = pending[p].label
            /\ Found(j) = labels[k].target
      BY <1>5, <2>1
    <3>2. e[j].arg = labels[k].target
      BY <1>7, <2>1, <3>1
    <3> QED
      BY <3>1, <3>2
  <2>2. CASE ~Waiting(j)
    BY <1>7, <2>2 DEF Waiting
  <2> QED
    BY <2>1, <2>2
<1>10. Resolves(body, d, labels, pending, e)
  BY <1>7, <1>8, <1>9 DEF Resolves
<1> QED
  BY <1>10 DEF e

(* The body is at its end. *)
Calls == TopLevel /\ program.entry /\ ~chunk_calls

(* A body with no call of main has no instruction that is one. *)
LEMMA CallsMain ==
  ASSUME NEW body, NEW a, NEW T,
         BodyInv(body, pos, code, nested, loops, labels, pending, temp_counter, a, T),
         At(body, {"main"}) = {}
  PROVE  ~chunk_calls
<1>1. code \in Seq(Instructions(body)) /\ Sources(body, code, pos)
  BY ItemFacts
<1> SUFFICES ASSUME NEW i \in 1..Len(code), code[i].op = "main"
             PROVE  FALSE
  BY DEF chunk_calls
<1>2. PICK m : m = code[i].item
  OBVIOUS
<1>3. m \in 1..Len(body)
  <2>1. code[i] \in Instructions(body)
    BY <1>1
  <2> QED
    BY <1>2, <2>1 DEF Instructions
<1>4. body[m].kind = "main"
  BY <1>1, <1>2 DEF Sources
<1> QED
  BY <1>3, <1>4 DEF At

(* FinishChunk writes the last instructions. *)
LEMMA EndWritten ==
  ASSUME NEW body, pos \in 1..Len(body), NEW c, c \in Seq(Instructions(body))
  PROVE  \E x, d : /\ EndCode(body, x, pos, Calls)
                   /\ Joins(c, x, d)
                   /\ d \in Seq(Instructions(body))
                   /\ d = c \o EntryCall \o <<Ins("const", 0), Ins("return", 1)>>
<1>1. PICK x1, x2, x3, x4 :
        /\ x1 = Ins("main", 0) /\ x2 = Ins("drop", 1)
        /\ x3 = Ins("const", 0) /\ x4 = Ins("return", 1)
  OBVIOUS
<1>2. /\ Made(body, x1, "main", 0, pos) /\ Made(body, x2, "drop", 1, pos)
      /\ Made(body, x3, "const", 0, pos) /\ Made(body, x4, "return", 1, pos)
  BY <1>1, OpIs, InsMade
<1>3. /\ x1 \in Instructions(body) /\ x2 \in Instructions(body)
      /\ x3 \in Instructions(body) /\ x4 \in Instructions(body)
  BY <1>2 DEF Made
<1>4. ASSUME Calls
      PROVE  \E x, d : /\ EndCode(body, x, pos, Calls)
                       /\ Joins(c, x, d)
                       /\ d \in Seq(Instructions(body))
                       /\ d = c \o EntryCall \o <<x3, x4>>
  <2>1. PICK x : /\ x = <<x1, x2>> \o <<x3, x4>> /\ x \in Seq(Instructions(body)) /\ Len(x) = 4
                 /\ x[1] = x1 /\ x[2] = x2 /\ x[3] = x3 /\ x[4] = x4
    <3>1. LET x == <<x1, x2>> \o <<x3, x4>> IN
            /\ x \in Seq(Instructions(body)) /\ Len(x) = 4
            /\ x[1] = x1 /\ x[2] = x2 /\ x[3] = x3 /\ x[4] = x4
      BY <1>3
    <3> QED
      BY <3>1
  <2>2. EndCode(body, x, pos, Calls)
    BY <1>2, <1>4, <2>1 DEF EndCode
  <2>3. PICK d : Joins(c, x, d)
    BY DEF Joins
  <2>4. d \in Seq(Instructions(body))
    BY <2>1, <2>3, JoinsAre
  <2>5. EntryCall = <<x1, x2>>
    BY <1>1, <1>4 DEF EntryCall, Calls
  <2>6. d = c \o <<x1, x2>> \o <<x3, x4>>
    BY <1>3, <2>1, <2>3 DEF Joins
  <2> QED
    BY <2>2, <2>3, <2>4, <2>5, <2>6
<1>5. ASSUME ~Calls
      PROVE  \E x, d : /\ EndCode(body, x, pos, Calls)
                       /\ Joins(c, x, d)
                       /\ d \in Seq(Instructions(body))
                       /\ d = c \o EntryCall \o <<x3, x4>>
  <2>1. PICK x : /\ x = <<x3, x4>> /\ x \in Seq(Instructions(body)) /\ Len(x) = 2
                 /\ x[1] = x3 /\ x[2] = x4
    <3>1. LET x == <<x3, x4>> IN
            /\ x \in Seq(Instructions(body)) /\ Len(x) = 2
            /\ x[1] = x3 /\ x[2] = x4
      BY <1>3
    <3> QED
      BY <3>1
  <2>2. EndCode(body, x, pos, Calls)
    BY <1>2, <1>5, <2>1 DEF EndCode
  <2>3. PICK d : Joins(c, x, d)
    BY DEF Joins
  <2>4. d \in Seq(Instructions(body))
    BY <2>1, <2>3, JoinsAre
  <2>5. EntryCall = <<>>
    BY <1>5 DEF EntryCall, Calls
  <2>6. c \o EntryCall = c
    BY <2>5
  <2>7. d = c \o <<x3, x4>>
    BY <2>1, <2>3 DEF Joins
  <2> QED
    BY <2>2, <2>3, <2>4, <2>6, <2>7
<1>6. \E x, d : /\ EndCode(body, x, pos, Calls)
                /\ Joins(c, x, d)
                /\ d \in Seq(Instructions(body))
                /\ d = c \o EntryCall \o <<x3, x4>>
  BY <1>4, <1>5
<1> QED
  BY <1>1, <1>6

(* Where nothing is open the compiler remembers no construct and no loop. *)
LEMMA NoneOpen ==
  ASSUME NEW body, NEW i, NEW c, NEW N, NEW S, NEW R, NEW P, NEW tc, NEW a, NEW T,
         BodyInv(body, i, c, N, S, R, P, tc, a, T),
         Open(body, i) = <<>>, Loops(body, i) = <<>>
  PROVE  N = <<>> /\ S = <<>>
<1>1. Frames(body, c, a, T, Open(body, i), N) /\ Scopes(body, c, a, T, Loops(body, i), S)
  BY ItemFacts
<1>2. Len(Open(body, i)) = 0 /\ Len(Loops(body, i)) = 0
  OBVIOUS
<1>3. N \in Seq(FrameRecords) /\ Len(N) = 0
  BY <1>1, <1>2 DEF Frames
<1>4. S \in Seq(ScopeRecords) /\ Len(S) = 0
  BY <1>1, <1>2 DEF Scopes
<1> QED
  BY <1>3, <1>4

LEMMA StepFinish ==
  ASSUME CompInv, FinishChunk
  PROVE  CompInv' /\ (had_error' <=> had_error)
<1>1. Compiling /\ Node.kind = "finish"
  BY DEF FinishChunk
<1>2. PICK body, a, T :
        /\ InHand(body, a, T)
        /\ BodyInv(body, pos, code, nested, loops, labels, pending, temp_counter, a, T)
        /\ Accepted(body)
        /\ Kind(body, pos) = Node.kind
        /\ pos \in 1..Len(body)
  BY <1>1, ItemInHand
<1>3. Kind(body, pos) = "finish"
  BY <1>1, <1>2
<1>4. Body(body) /\ code \in Seq(Instructions(body)) /\ Named(body, code, T, pos, temp_counter)
  BY <1>2, ItemFacts
<1>5. PICK x, d : /\ EndCode(body, x, pos, Calls)
                  /\ Joins(code, x, d)
                  /\ d \in Seq(Instructions(body))
                  /\ d = code \o EntryCall \o <<Ins("const", 0), Ins("return", 1)>>
  BY <1>2, <1>4, EndWritten
<1>6. Resolves(body, d, labels, pending, resolve_labels(d))
  BY <1>2, <1>3, <1>5, LabelsResolved
<1>7. PICK e : e = resolve_labels(d) /\ Resolves(body, d, labels, pending, e)
  BY <1>6
<1>8. PICK calls : calls = Calls /\ EndCode(body, x, pos, calls)
  BY <1>5
<1>9. /\ \E b : Complete(body, e, b, temp_counter)
      /\ Apart(e, T[0], temp_counter)
      /\ calls /\ At(body, {"main"}) = {} => EndsWithCall(body, e, Len(code))
  BY <1>2, <1>3, <1>5, <1>7, <1>8, FinishItem
<1>10. PICK b : Complete(body, e, b, temp_counter)
  BY <1>9
<1>11. /\ program \in Programs /\ chunk \in 1..Len(program.bodies) + 1
       /\ Len(chunks) = chunk - 1
       /\ \A k \in 1..Len(program.bodies) : Accepted(program.bodies[k])
  BY DEF CompInv
<1>12. Len(program.bodies) \in Nat \ {0} /\ \A k \in 1..Len(program.bodies) : Body(program.bodies[k])
  BY <1>11, ProgramTyped
<1>13. chunk \in 1..Len(program.bodies) /\ chunk \in Nat
  BY <1>1, <1>11, <1>12 DEF Compiling
<1>14. body = program.bodies[chunk] /\ Finished(program, chunks, Base(T))
  BY <1>2 DEF InHand
<1>15. PICK D : Appends(chunks, e, D) /\ chunks' = D
  <2>1. chunks' = Append(chunks, e)
    BY <1>5, <1>7 DEF FinishChunk
  <2> QED
    BY <2>1 DEF Appends
<1>16. Len(chunks) + 1 = chunk /\ Len(chunks) < Len(program.bodies)
       /\ body = program.bodies[Len(chunks) + 1]
  BY <1>11, <1>12, <1>13, <1>14
<1>17. Len(D) = chunk /\ D[chunk] = e
  <2>1. chunks \in Seq(Seq(PlainInstructions))
    BY <1>14 DEF Finished
  <2> QED
    BY <1>15, <1>16, <2>1 DEF Appends
<1>18. ASSUME Len(D) = Len(program.bodies) PROVE EntryCalled(program, D)
  <2>1. chunk = Len(program.bodies) /\ body = TopLevelOf(program)
    BY <1>14, <1>17, <1>18 DEF TopLevelOf
  <2>2. ASSUME program.entry, At(body, {"main"}) = {}
        PROVE  EndsWithCall(body, e, Len(code))
    <3>1. ~chunk_calls
      BY <1>2, <2>2, CallsMain
    <3>2. Calls
      BY <2>1, <2>2, <3>1 DEF Calls, TopLevel
    <3> QED
      BY <1>8, <1>9, <2>2, <3>2
  <2>3. D[Len(program.bodies)] = e
    BY <1>17, <1>18
  <2> QED
    BY <2>1, <2>2, <2>3 DEF EntryCalled
<1>19. Base(T) \in Nat /\ temp_counter \in Nat /\ Apart(e, Base(T), temp_counter)
  BY <1>4, <1>9 DEF Named, Base
<1>20. Finished(program, D, temp_counter)
  <2>1. Complete(program.bodies[Len(chunks) + 1], e, b, temp_counter)
    BY <1>10, <1>16
  <2> QED
    BY <1>11, <1>14, <1>15, <1>16, <1>18, <1>19, <2>1, FinishedGrows
<1>21. had_error' <=> had_error
  <2>1. \A p \in 1..Len(pending) : \E k \in 1..Len(labels) : labels[k].label = pending[p].label
    BY <1>2, <1>3, LabelsDeclared
  <2>2. \A p \in 1..Len(pending) : Declared(pending[p].label) # {}
    BY <2>1 DEF Declared
  <2> QED
    BY <2>2 DEF FinishChunk
<1>22. nested = <<>> /\ loops = <<>>
  <2>1. Open(body, pos) = <<>> /\ Loops(body, pos) = <<>>
    BY <1>2, <1>3, <1>4, LastFinishes
  <2> QED
    BY <1>2, <2>1, NoneOpen
<1>23. /\ program' = program /\ chunk' = chunk + 1 /\ temp_counter' = temp_counter
       /\ nested' = <<>> /\ loops' = <<>> /\ pos' = 1 /\ code' = <<>>
       /\ labels' = <<>> /\ pending' = <<>>
  BY <1>22 DEF FinishChunk
<1>24. ASSUME Compiling' PROVE \E body1, a1, T1 : InHand(body1, a1, T1)'
  <2>1. chunk + 1 \in 1..Len(program.bodies)
    BY <1>12, <1>13, <1>23, <1>24 DEF Compiling
  <2>2. PICK body1 : body1 = program.bodies[chunk + 1] /\ Body(body1)
    BY <1>12, <2>1
  <2>3. PICK a1, T1 : /\ BodyInv(body1, 1, <<>>, <<>>, <<>>, <<>>, <<>>, temp_counter, a1, T1)
                      /\ Base(T1) = temp_counter
    BY <1>19, <2>2, BodyStart
  <2>4. InHand(body1, a1, T1)'
    BY <1>15, <1>20, <1>23, <2>2, <2>3 DEF InHand
  <2> QED
    BY <2>4
<1>25. chunk' \in 1..Len(program'.bodies) + 1 /\ Len(chunks') = chunk' - 1
  BY <1>12, <1>13, <1>15, <1>17, <1>23
<1>26. program' \in Programs /\ \A k \in 1..Len(program'.bodies) : Accepted(program'.bodies[k])
  BY <1>11, <1>23
<1>27. temp_counter' \in Nat /\ Finished(program', chunks', temp_counter')
  BY <1>15, <1>19, <1>20, <1>23
<1> QED
  BY <1>21, <1>23, <1>24, <1>25, <1>26, <1>27 DEF CompInv

-----------------------------------------------------------------------------
(* The compiler's invariant *)

(* Nothing is open at the first item. *)
LEMMA FirstOpensNothing ==
  ASSUME NEW body, Body(body)
  PROVE  Open(body, 1) = <<>> /\ Loops(body, 1) = <<>>
  BY DEF Body, WellNested, Moves, Outermost, Open, Loops

(* The invariant holds in the beginning, *)
LEMMA CompilerStarts ==
  ASSUME CompilerInit
  PROVE  CompInv
<1>1. /\ program \in Programs
      /\ \A k \in 1..Len(program.bodies) : Accepted(program.bodies[k])
      /\ chunk = 1 /\ pos = 1 /\ code = <<>> /\ chunks = <<>> /\ nested = <<>> /\ loops = <<>>
      /\ labels = <<>> /\ pending = <<>> /\ temp_counter = 0
  BY DEF CompilerInit
<1>2. Len(program.bodies) \in Nat \ {0} /\ \A k \in 1..Len(program.bodies) : Body(program.bodies[k])
  BY <1>1, ProgramTyped
<1>3. Finished(program, chunks, 0)
  BY <1>1, <1>2 DEF Finished, Distinct
<1>4. PICK body : body = program.bodies[1] /\ Body(body)
  BY <1>2
<1>5. PICK a, T : /\ BodyInv(body, 1, <<>>, <<>>, <<>>, <<>>, <<>>, 0, a, T)
                  /\ Base(T) = 0
  BY <1>4, BodyStart
<1>6. InHand(body, a, T)
  BY <1>1, <1>3, <1>4, <1>5 DEF InHand
<1>7. Compiling
  BY <1>1, <1>2 DEF Compiling
<1> QED
  BY <1>1, <1>2, <1>6, <1>7 DEF CompInv

(* every step of the compiler keeps it, *)
LEMMA CompilerSteps ==
  ASSUME CompInv, Compile
  PROVE  CompInv'
<1>1. CASE LowerSimple \/ LowerUnsupported
  BY <1>1, StepSimple
<1>2. CASE LowerTest
  BY <1>2, StepTest
<1>3. CASE LowerElse
  BY <1>3, StepElse
<1>4. CASE LowerEndIf
  BY <1>4, StepEndIf
<1>5. CASE LowerEndAnd
  BY <1>5, StepEndAnd
<1>6. CASE LowerOr
  BY <1>6, StepOr
<1>7. CASE LowerEndOr
  BY <1>7, StepEndOr
<1>8. CASE LowerLoop
  BY <1>8, StepLoop
<1>9. CASE LowerDo
  BY <1>9, StepDo
<1>10. CASE LowerForeach
  BY <1>10, StepForeach
<1>11. CASE LowerNext
  BY <1>11, StepNext
<1>12. CASE LowerEnd
  BY <1>12, StepEnd
<1>13. CASE LowerEndEach
  BY <1>13, StepEndEach
<1>14. CASE LowerLeave
  BY <1>14, StepLeave
<1>15. CASE declare_label
  BY <1>15, StepLabel
<1>16. CASE LowerGoto
  BY <1>16, StepGoto
<1>17. CASE FinishChunk
  BY <1>17, StepFinish
<1> QED
  BY <1>1, <1>2, <1>3, <1>4, <1>5, <1>6, <1>7, <1>8, <1>9, <1>10, <1>11, <1>12, <1>13,
     <1>14, <1>15, <1>16, <1>17 DEF Compile

(* and so does a step that is not the compiler's. *)
LEMMA CompilerRests ==
  ASSUME CompInv, UNCHANGED compiler
  PROVE  CompInv'
<1>1. /\ program' = program /\ chunk' = chunk /\ pos' = pos /\ code' = code /\ chunks' = chunks
      /\ nested' = nested /\ loops' = loops /\ labels' = labels /\ pending' = pending
      /\ temp_counter' = temp_counter
  BY DEF compiler
<1>2. Compiling' <=> Compiling
  BY <1>1 DEF Compiling
<1>3. ASSUME Compiling PROVE \E body, a, T : InHand(body, a, T)'
  <2>1. PICK body, a, T : InHand(body, a, T)
    BY <1>3 DEF CompInv
  <2>2. InHand(body, a, T)'
    BY <1>1, <2>1 DEF InHand
  <2> QED
    BY <2>2
<1> QED
  BY <1>1, <1>2, <1>3 DEF CompInv

(* A step of the machine leaves what was compiled alone. *)
LEMMA MachineLeaves ==
  ASSUME Start \/ Run
  PROVE  UNCHANGED compiler
  BY Zenon DEF Start, Run, Compute, Call, Arithmetic, Drop, Load, Assign, Get, Bind,
     Jump, JumpIfFalse, Return, RuntimeError, Onward

LEMMA CompilerKeeps ==
  ASSUME CompInv, [Next]_vars
  PROVE  CompInv'
<1>1. CASE Compile
  BY <1>1, CompilerSteps
<1>2. CASE Start \/ Run
  BY <1>2, MachineLeaves, CompilerRests
<1>3. CASE UNCHANGED vars
  BY <1>3, CompilerRests DEF vars
<1> QED
  BY <1>1, <1>2, <1>3 DEF Next

(* All the finished chunks, whether a body is in hand or not. *)
LEMMA ChunksComplete ==
  ASSUME CompInv
  PROVE  /\ \A k \in 1..Len(chunks) : \E b, tc : Complete(program.bodies[k], chunks[k], b, tc)
         /\ Distinct(chunks)
<1>1. CASE Compiling
  <2>1. PICK body, a, T : InHand(body, a, T)
    BY <1>1 DEF CompInv
  <2> QED
    BY <2>1 DEF InHand, Finished
<1>2. CASE ~Compiling
  BY <1>2 DEF CompInv, Finished
<1> QED
  BY <1>1, <1>2

(* What the invariant says of the compiler's properties. *)
LEMMA CompilerSafe ==
  ASSUME CompInv
  PROVE  JumpsLand /\ TempsDistinct
<1>2. TempsDistinct
  BY ChunksComplete DEF TempsDistinct, Distinct
<1>3. ASSUME NEW k \in 1..Len(chunks), NEW i \in 1..Len(chunks[k]),
             chunks[k][i].op \in {"jump", "jumpfalse"}
      PROVE  chunks[k][i].arg \in 1..Len(chunks[k])
  <2>1. PICK b, tc : Complete(program.bodies[k], chunks[k], b, tc)
    BY ChunksComplete
  <2> QED
    BY <1>3, <2>1 DEF Complete, Jumps
<1>4. ASSUME pos = 1 PROVE nested = <<>> /\ loops = <<>>
  <2>1. CASE Compiling
    <3>1. PICK body, a, T : InHand(body, a, T)
      BY <2>1 DEF CompInv
    <3>2. BodyInv(body, 1, code, nested, loops, labels, pending, temp_counter, a, T)
      BY <1>4, <3>1 DEF InHand
    <3>3. Open(body, 1) = <<>> /\ Loops(body, 1) = <<>>
      BY <3>2, ItemFacts, FirstOpensNothing
    <3> QED
      BY <3>2, <3>3, NoneOpen
  <2>2. CASE ~Compiling
    BY <2>2 DEF CompInv
  <2> QED
    BY <2>1, <2>2
<1> QED
  BY <1>2, <1>3, <1>4 DEF JumpsLand

(* For every program: what CompInv says of the code and the compiler's     *)
(* memory is always true.                                                  *)
THEOREM CompilerInvariant == Spec => []CompInv
<1>1. Init => CompInv
  BY CompilerStarts DEF Init
<1>2. CompInv /\ [Next]_vars => CompInv'
  BY CompilerKeeps
<1> QED
  BY <1>1, <1>2, PTL DEF Spec

(* JumpsLand, for every program: a finished chunk has no jump without an   *)
(* address, and every construct and loop that was entered has been left    *)
(* (patch_jump, pop_loop and resolve_labels in compiler.c).                *)
THEOREM JumpsLandAlways == Spec => []JumpsLand
<1>1. CompInv => JumpsLand
  BY CompilerSafe
<1> QED
  BY <1>1, CompilerInvariant, PTL

(* The compiler only runs while there is a body left, and the program      *)
(* stays.                                                                  *)
LEMMA CompileCompiles ==
  ASSUME Compile
  PROVE  Compiling /\ program' = program
<1>1. Compiling
  BY Zenon DEF Compile, LowerSimple, LowerUnsupported, LowerTest, LowerElse, LowerEndIf, LowerEndAnd, LowerOr,
     LowerEndOr, LowerLoop, LowerDo, LowerForeach, LowerNext, LowerEnd, LowerEndEach,
     LowerLeave, declare_label, LowerGoto, FinishChunk, Lowering
<1>2. program' = program
  BY Zenon DEF Compile, LowerSimple, LowerUnsupported, LowerTest, LowerElse, LowerEndIf, LowerEndAnd, LowerOr,
     LowerEndOr, LowerLoop, LowerDo, LowerForeach, LowerNext, LowerEnd, LowerEndEach,
     LowerLeave, declare_label, LowerGoto, FinishChunk, Close
<1> QED
  BY <1>1, <1>2

(* The expressions without bytecode before item p of body c. *)
Met(c, p) ==
  \E b \in 1..Len(program.bodies) : \E i \in At(program.bodies[b], {"unsupported"}) :
    b < c \/ (b = c /\ i < p)

(* The item in hand, and the one after it, as the compiler goes on.        *)
LEMMA PassesOne ==
  ASSUME NEW p, NEW q, p \in Nat, q \in Nat, p <= q, chunk \in 1..Len(program.bodies),
         \A i \in p..q - 1 : Kind(program.bodies[chunk], i) # "unsupported"
  PROVE  Met(chunk, q) <=> Met(chunk, p)
<1>1. ASSUME NEW b \in 1..Len(program.bodies), NEW i \in At(program.bodies[b], {"unsupported"}),
             b = chunk, i < q
      PROVE  i < p
  <2>1. i \in 1..Len(program.bodies[chunk]) /\ Kind(program.bodies[chunk], i) = "unsupported"
    BY <1>1 DEF At, Kind
  <2>2. i \notin p..q - 1
    BY <2>1
  <2> QED
    BY <1>1, <2>1, <2>2
<1>2. Met(chunk, q) => Met(chunk, p)
  BY <1>1 DEF Met
<1>3. ASSUME NEW b \in 1..Len(program.bodies), NEW i \in At(program.bodies[b], {"unsupported"}),
             i < p
      PROVE  i < q
  BY <1>3 DEF At
<1> QED
  BY <1>2, <1>3 DEF Met

(* The last item of a body: all of the body is behind. *)
LEMMA PassesBody ==
  ASSUME chunk \in 1..Len(program.bodies), chunk \in Nat,
         NEW body, body = program.bodies[chunk], NEW p, p \in Nat, p = Len(body),
         Kind(body, p) # "unsupported"
  PROVE  Met(chunk + 1, 1) <=> Met(chunk, p)
<1>1. ASSUME NEW b \in 1..Len(program.bodies), NEW i \in At(program.bodies[b], {"unsupported"})
      PROVE  (b < chunk + 1 \/ (b = chunk + 1 /\ i < 1)) <=> (b < chunk \/ (b = chunk /\ i < p))
  <2>1. /\ i \in 1..Len(program.bodies[b]) /\ Kind(program.bodies[b], i) = "unsupported"
        /\ b \in Nat /\ i \in Nat
    BY DEF At, Kind
  <2>2. b = chunk => i < p
    BY <2>1
  <2> QED
    BY <2>1, <2>2
<1> QED
  BY <1>1 DEF Met

(* What the compiler's steps say of its errors: each kind of step. *)
LEMMA ItemErrors ==
  ASSUME CompInv, AcceptedCompiles, Compile
  PROVE  AcceptedCompiles'
<1>1. Compiling /\ program' = program
  BY CompileCompiles
<1>2. PICK body, a, T :
        /\ InHand(body, a, T)
        /\ BodyInv(body, pos, code, nested, loops, labels, pending, temp_counter, a, T)
        /\ Accepted(body)
        /\ Kind(body, pos) = Node.kind
        /\ pos \in 1..Len(body)
  BY <1>1, ItemInHand
<1>3. body = program.bodies[chunk] /\ Body(body) /\ pos \in Nat
  BY <1>2, ItemFacts DEF InHand
<1>4. chunk \in 1..Len(program.bodies) /\ chunk \in Nat
  <2>1. Len(program.bodies) \in Nat \ {0} /\ chunk \in 1..Len(program.bodies) + 1
    BY ProgramTyped DEF CompInv
  <2> QED
    BY <1>1, <2>1 DEF Compiling
<1>5. had_error <=> Met(chunk, pos)
  BY DEF AcceptedCompiles, Met
<1>6. SUFFICES had_error' <=> Met(chunk', pos')
  BY <1>1 DEF AcceptedCompiles, Met
<1>7. CASE LowerUnsupported
  <2>1. /\ Node.kind = "unsupported" /\ pos' = pos + 1 /\ chunk' = chunk /\ had_error' = TRUE
    BY <1>7 DEF LowerUnsupported, Lowering, compile_error
  <2>2. pos \in At(program.bodies[chunk], {"unsupported"})
    BY <1>2, <1>3, <2>1 DEF At, Kind
  <2>3. Met(chunk, pos + 1)
    BY <1>3, <1>4, <2>2 DEF Met
  <2> QED
    BY <2>1, <2>3
<1>8. ASSUME pos' = pos + 1, chunk' = chunk, had_error' = had_error, Node.kind # "unsupported"
      PROVE  had_error' <=> Met(chunk', pos')
  <2>1. PICK q : q = pos + 1 /\ q \in Nat /\ pos <= q /\ \A i \in pos..q - 1 : i = pos
    BY <1>3
  <2>2. Met(chunk, q) <=> Met(chunk, pos)
    BY <1>2, <1>3, <1>4, <1>8, <2>1, PassesOne
  <2> QED
    BY <1>5, <1>8, <2>1, <2>2
<1>9. CASE LowerForeach
  <2>1. /\ Node.kind = "foreach" /\ pos' = pos + 2 /\ chunk' = chunk /\ had_error' = had_error
    BY <1>9 DEF LowerForeach
  <2>2. Kind(body, pos + 1) = "each"
    BY <1>2, <1>3, <2>1, MoveForeach DEF NotLast, Kind
  <2>3. PICK q : q = pos + 2 /\ q \in Nat /\ pos <= q /\ \A i \in pos..q - 1 : i \in {pos, pos + 1}
    BY <1>3
  <2>4. Met(chunk, q) <=> Met(chunk, pos)
    BY <1>2, <1>3, <1>4, <2>1, <2>2, <2>3, PassesOne
  <2> QED
    BY <1>5, <2>1, <2>3, <2>4
<1>10. CASE FinishChunk
  <2>1. /\ Node.kind = "finish" /\ pos' = 1 /\ chunk' = chunk + 1 /\ (had_error' <=> had_error)
    BY <1>10, StepFinish DEF FinishChunk
  <2>2. pos = Len(body) /\ Kind(body, pos) = "finish"
    BY <1>2, <1>3, <2>1, LastFinishes
  <2>3. Met(chunk + 1, 1) <=> Met(chunk, pos)
    BY <1>3, <1>4, <2>2, PassesBody
  <2> QED
    BY <1>5, <2>1, <2>3
<1>11. CASE LowerLeave
  <2>1. pos' = pos + 1 /\ chunk' = chunk /\ Node.kind # "unsupported"
    BY <1>11 DEF LowerLeave, Lowering
  <2> QED
    BY <1>8, <1>11, <2>1, StepLeave
<1>12. CASE LowerEnd \/ LowerEndEach
  <2>1. pos' = pos + 1 /\ chunk' = chunk /\ had_error' = had_error /\ Node.kind # "unsupported"
    BY <1>12 DEF LowerEnd, LowerEndEach, Close, Lowering
  <2> QED
    BY <1>8, <2>1
<1>13. CASE LowerSimple \/ LowerTest \/ LowerElse \/ LowerEndIf \/ LowerEndAnd \/ LowerOr
            \/ LowerEndOr
  <2>1. pos' = pos + 1 /\ chunk' = chunk /\ had_error' = had_error /\ Node.kind # "unsupported"
    BY <1>13 DEF LowerSimple, LowerTest, LowerElse, LowerEndIf, LowerEndAnd, LowerOr, LowerEndOr,
       Lowering
  <2> QED
    BY <1>8, <2>1
<1>14. CASE LowerLoop \/ LowerDo \/ LowerNext \/ declare_label \/ LowerGoto
  <2>1. pos' = pos + 1 /\ chunk' = chunk /\ had_error' = had_error /\ Node.kind # "unsupported"
    BY <1>14 DEF LowerLoop, LowerDo, LowerNext, declare_label, LowerGoto, Lowering
  <2> QED
    BY <1>8, <2>1
<1> QED
  BY <1>7, <1>9, <1>10, <1>11, <1>12, <1>13, <1>14 DEF Compile

(* AcceptedCompiles, for every program: whatever the resolver accepts is   *)
(* compiled without an error, but for the expressions there is no bytecode *)
(* for, each of which is one (resolve_labels, the jumps out of loops and   *)
(* compile_expression in compiler.c).                                      *)
THEOREM AcceptedCompilesAlways == Spec => []AcceptedCompiles
<1>1. Init => AcceptedCompiles
  <2>1. SUFFICES ASSUME Init PROVE AcceptedCompiles
    OBVIOUS
  <2>2. chunk = 1 /\ pos = 1 /\ had_error = FALSE
    BY <2>1 DEF Init, CompilerInit
  <2>3. ~Met(1, 1)
    BY DEF Met, At
  <2> QED
    BY <2>2, <2>3 DEF AcceptedCompiles, Met
<1>2. CompInv /\ AcceptedCompiles /\ [Next]_vars => AcceptedCompiles'
  <2>1. SUFFICES ASSUME CompInv, AcceptedCompiles, [Next]_vars PROVE AcceptedCompiles'
    OBVIOUS
  <2>2. CASE Compile
    BY <2>1, <2>2, ItemErrors
  <2>3. CASE UNCHANGED compiler
    BY <2>1, <2>3 DEF AcceptedCompiles, compiler
  <2> QED
    BY <2>1, <2>2, <2>3, MachineLeaves DEF Next, vars
<1> QED
  BY <1>1, <1>2, CompilerInvariant, PTL DEF Spec

(* TempsDistinct, for every program: no two foreach loops share a          *)
(* temporary (make_temp_name in compiler.c).                               *)
THEOREM TempsDistinctAlways == Spec => []TempsDistinct
<1>1. CompInv => TempsDistinct
  BY CompilerSafe
<1> QED
  BY <1>1, CompilerInvariant, PTL

-----------------------------------------------------------------------------
(* The machine *)

(* The operands the machine asks for are those an instruction takes. *)
LEMMA NeedsAre == Needs = Takes(Instruction)
<1>1. CASE Instruction.op \in {"apply", "call", "main", "drop"}
  <2>1. Needs = Instruction.arg
    BY <1>1, Zenon DEF Needs
  <2> QED
    BY <1>1, <2>1, Zenon DEF Takes
<1>2. CASE Instruction.op \in {"jumpfalse", "define", "store", "length", "bind"}
  <2>1. /\ Instruction.op \notin {"apply", "call", "main", "drop"}
        /\ Instruction.op \notin {"less", "add", "get"}
    BY <1>2
  <2>2. Needs = 1
    BY <1>2, <2>1, Zenon DEF Needs
  <2> QED
    BY <1>2, <2>1, <2>2, Zenon DEF Takes
<1>3. CASE Instruction.op \in {"less", "add", "get"}
  <2>1. /\ Instruction.op \notin {"apply", "call", "main", "drop"}
        /\ Instruction.op \notin {"jumpfalse", "define", "store", "length", "bind"}
    BY <1>3
  <2>2. Needs = 2
    BY <1>3, <2>1, Zenon DEF Needs
  <2> QED
    BY <1>3, <2>1, <2>2, Zenon DEF Takes
<1>4. CASE /\ Instruction.op \notin {"apply", "call", "main", "drop"}
           /\ Instruction.op \notin {"jumpfalse", "define", "store", "length", "bind"}
           /\ Instruction.op \notin {"less", "add", "get"}
  <2>1. Needs = 0
    BY <1>4, Zenon DEF Needs
  <2> QED
    BY <1>4, <2>1, Zenon DEF Takes
<1> QED
  BY <1>1, <1>2, <1>3, <1>4, Zenon

(* What instructions of arithmetic push. *)
Computed ==
  CASE Instruction.op = "const" -> Instruction.arg
    [] Instruction.op = "length" -> Top
    [] Instruction.op = "less" -> IF Below < Top THEN 1 ELSE 0
    [] Instruction.op = "add" -> Below + Top

(* By instruction. *)
LEMMA ComputedIs ==
  /\ Instruction.op = "const" => Computed = Instruction.arg
  /\ Instruction.op = "length" => Computed = Top
  /\ Instruction.op = "less" => Computed = IF Below < Top THEN 1 ELSE 0
  /\ Instruction.op = "add" => Computed = Below + Top
<1>1. ASSUME Instruction.op = "const" PROVE Computed = Instruction.arg
  <2>1. Instruction.op # "length" /\ Instruction.op # "less" /\ Instruction.op # "add"
    BY <1>1
  <2> QED
    BY <1>1, <2>1, Zenon DEF Computed
<1>2. ASSUME Instruction.op = "length" PROVE Computed = Top
  <2>1. Instruction.op # "const" /\ Instruction.op # "less" /\ Instruction.op # "add"
    BY <1>2
  <2> QED
    BY <1>2, <2>1, Zenon DEF Computed
<1>3. ASSUME Instruction.op = "less" PROVE Computed = IF Below < Top THEN 1 ELSE 0
  <2>1. Instruction.op # "const" /\ Instruction.op # "length" /\ Instruction.op # "add"
    BY <1>3
  <2> QED
    BY <1>3, <2>1, Zenon DEF Computed
<1>4. ASSUME Instruction.op = "add" PROVE Computed = Below + Top
  <2>1. Instruction.op # "const" /\ Instruction.op # "length" /\ Instruction.op # "less"
    BY <1>4
  <2> QED
    BY <1>4, <2>1, Zenon DEF Computed
<1> QED
  BY <1>1, <1>2, <1>3, <1>4

RunningBody == program.bodies[running]
Chunk == chunks[running]

(* The machine is in a state that the compiler foresaw. *)
InState(s) ==
  /\ Len(stack) = s.height
  /\ \A t \in s.bound : t \in DOMAIN env /\ env[t] # None

Environments == [0..temp_counter - 1 -> Nat \cup {None}]

(* The entry point was called if execution is behind the call of it. *)
Counted ==
  \A m : running = Len(program.bodies) /\ EndsWithCall(RunningBody, Chunk, m) =>
    /\ ip <= m + 1 => entered = 0
    /\ ip > m + 1 => entered = 1

Foreseen(b) == Complete(RunningBody, Chunk, b, temp_counter) /\ InState(b[ip])

RunInv ==
  /\ running \in 1..Len(program.bodies)
  /\ status \in {"compiling", "running", "done", "failed", "undefined"}
  /\ entered \in 0..2
  /\ stack \in Seq(Nat) /\ Len(stack) <= StackMax
  /\ status = "compiling" => ip = 1 /\ stack = <<>> /\ entered = 0
  /\ status # "compiling" => ~Compiling /\ ip \in 1..Len(Chunk) /\ env \in Environments
  /\ status = "running" => \E b : Foreseen(b)
  /\ status = "done" => Instruction.op = "return"
  /\ status \in {"running", "done"} => Counted

(* What an instruction of a chunk is. *)
Fetched(b) ==
  /\ Foreseen(b)
  /\ Chunk \in Seq(Instructions(RunningBody)) /\ Len(Chunk) \in Nat
  /\ ip \in 1..Len(Chunk) /\ ip \in Nat
  /\ Instruction = Chunk[ip] /\ Instruction \in Instructions(RunningBody)
  /\ FlowAt(RunningBody, Chunk, b, ip)
  /\ Instruction.op # "return" => ip + 1 \in 1..Len(Chunk)
  /\ Instruction.op \in Jumps => Instruction.arg \in 1..Len(Chunk)

(* There is an instruction to run, and what is known of it. *)
LEMMA Fetch ==
  ASSUME RunInv, status = "running"
  PROVE  \E b : Fetched(b)
<1>1. PICK b : Foreseen(b)
  BY DEF RunInv
<1>2. ip \in 1..Len(Chunk) /\ Complete(RunningBody, Chunk, b, temp_counter)
  BY <1>1 DEF RunInv, Foreseen
<1>3. /\ Flow(RunningBody, Chunk, b) /\ Len(Chunk) \in Nat \ {0} /\ Chunk[Len(Chunk)].op = "return"
      /\ \A j \in 1..Len(Chunk) : Chunk[j].op \in Jumps => Chunk[j].arg \in 1..Len(Chunk)
  BY <1>2 DEF Complete
<1>4. /\ Chunk \in Seq(Instructions(RunningBody))
      /\ FlowAt(RunningBody, Chunk, b, ip)
  BY <1>2, <1>3 DEF Flow
<1>5. Instruction = Chunk[ip]
  BY DEF Instruction, Chunk
<1>6. Instruction \in Instructions(RunningBody)
  BY <1>2, <1>4, <1>5, ElementOfSeq
<1>7. ASSUME Instruction.op # "return" PROVE ip + 1 \in 1..Len(Chunk)
  <2>1. ip # Len(Chunk)
    BY <1>3, <1>5, <1>7
  <2> QED
    BY <1>2, <1>3, <2>1
<1>8. Instruction.op \in Jumps => Instruction.arg \in 1..Len(Chunk)
  BY <1>2, <1>3, <1>5
<1> QED
  BY <1>1, <1>2, <1>3, <1>4, <1>5, <1>6, <1>7, <1>8 DEF Fetched

(* Its parts. *)
LEMMA FetchedFacts ==
  ASSUME NEW b, Fetched(b)
  PROVE  /\ Instruction.op \in Ops /\ Instruction.arg \in Nat
         /\ Takes(Instruction) \in Nat /\ Gives(Instruction) \in 0..1
         /\ Len(Chunk) \in Nat /\ ip \in 1..Len(Chunk) /\ ip \in Nat
         /\ InState(b[ip])
<1>1. Instruction \in Instructions(RunningBody)
  BY DEF Fetched
<1>2. Instruction.op \in Ops /\ Instruction.arg \in Nat
  BY <1>1 DEF Instructions
<1>3. Takes(Instruction) \in Nat
  BY <1>2 DEF Takes
<1>4. Gives(Instruction) \in 0..1
  BY DEF Gives
<1> QED
  BY <1>2, <1>3, <1>4 DEF Fetched, Foreseen

(* A step to instruction k, from the state before it to the one there.     *)
Balanced ==
  /\ stack' \in Seq(Nat)
  /\ Len(stack') = Len(stack) - Takes(Instruction) + Gives(Instruction)
  /\ Len(stack') <= StackMax

EnvKept ==
  /\ env' \in Environments
  /\ \A t \in DOMAIN env : t \in DOMAIN env' /\ (env[t] # None => env'[t] # None)
  /\ \A t \in Binds(Instruction) : t \in DOMAIN env' /\ env'[t] # None

(* A step that balances leads from the state before to the one after. *)
LEMMA StateFollows ==
  ASSUME NEW s, NEW t, Leads(Instruction, s, t), InState(s), Balanced, EnvKept
  PROVE  /\ Len(stack') = t.height
         /\ \A x \in t.bound : x \in DOMAIN env' /\ env'[x] # None
<1>1. Len(stack') = t.height
  BY DEF Leads, InState, Balanced
<1>2. ASSUME NEW x \in t.bound PROVE x \in DOMAIN env' /\ env'[x] # None
  <2>1. x \in s.bound \/ x \in Binds(Instruction)
    BY DEF Leads
  <2>2. CASE x \in s.bound
    <3>1. x \in DOMAIN env /\ env[x] # None
      BY <2>2 DEF InState
    <3> QED
      BY <3>1 DEF EnvKept
  <2>3. CASE x \in Binds(Instruction)
    BY <2>3 DEF EnvKept
  <2> QED
    BY <2>1, <2>2, <2>3
<1> QED
  BY <1>1, <1>2

(* Where execution goes, and what it counts on its way. *)
GoesOn ==
  \/ /\ Instruction.op \notin {"main", "jump", "return"}
     /\ ip' = ip + 1 /\ entered' = entered
  \/ /\ Instruction.op \in Jumps
     /\ ip' = Instruction.arg /\ entered' = entered
  \/ /\ Instruction.op = "main"
     /\ ip' = ip + 1
     /\ entered' = IF entered < 2 THEN entered + 1 ELSE entered

(* A step counts a call of main exactly where the compiler wrote one. *)
LEMMA CountedOn ==
  ASSUME RunInv, status = "running", NEW b, Fetched(b), GoesOn, UNCHANGED <<compiler, running>>
  PROVE  Counted'
<1>1. RunningBody' = RunningBody /\ Chunk' = Chunk /\ running' = running /\ program' = program
  BY DEF RunningBody, Chunk, compiler
<1>2. /\ Counted /\ entered \in 0..2
  BY DEF RunInv
<1>3. /\ ip \in 1..Len(Chunk) /\ Instruction = Chunk[ip]
      /\ Complete(RunningBody, Chunk, b, temp_counter)
      /\ Instruction.op \in Jumps => Instruction.arg \in 1..Len(Chunk)
  BY DEF Fetched, Foreseen
<1> SUFFICES ASSUME NEW m, running = Len(program.bodies), EndsWithCall(RunningBody, Chunk, m)
             PROVE  /\ ip' <= m + 1 => entered' = 0
                    /\ ip' > m + 1 => entered' = 1
  BY <1>1 DEF Counted
<1>4. /\ ip <= m + 1 => entered = 0
      /\ ip > m + 1 => entered = 1
  BY <1>2 DEF Counted
<1>5. /\ m \in Nat /\ Len(Chunk) = m + 4
      /\ Chunk[m + 1].op = "main" /\ Chunk[m + 2].op = "drop" /\ Chunk[m + 3].op = "const"
      /\ \A j \in 1..m : Chunk[j].op # "main"
      /\ \A j \in 1..m : Chunk[j].op \in Jumps => Chunk[j].arg \in 1..m + 1
      /\ Chunk[m + 4].op = "return"
  BY <1>3 DEF EndsWithCall, Complete
<1>6. ip \in 1..m \/ ip = m + 1 \/ ip = m + 2 \/ ip = m + 3 \/ ip = m + 4
  <2>1. m \in Nat /\ ip \in 1..m + 4
    <3>1. m \in Nat /\ Len(Chunk) = m + 4
      BY <1>5
    <3> QED
      BY <1>3, <3>1
  <2> QED
    BY <2>1
<1>7. CASE ip \in 1..m
  <2>1. entered = 0 /\ Instruction.op # "main"
    BY <1>3, <1>4, <1>5, <1>7
  <2>2. Instruction.op \in Jumps => Instruction.arg \in 1..m + 1
    BY <1>3, <1>5, <1>7
  <2>3. entered' = 0 /\ ip' \in 1..m + 1
    BY <1>5, <1>7, <2>1, <2>2 DEF GoesOn
  <2> QED
    BY <1>5, <2>3
<1>8. CASE ip = m + 1
  <2>1. Instruction.op = "main" /\ entered = 0
    BY <1>3, <1>4, <1>5, <1>8
  <2>2. entered' = 1 /\ ip' = m + 2
    BY <1>5, <1>8, <2>1 DEF GoesOn, Jumps
  <2> QED
    BY <1>5, <2>2
<1>9. CASE ip = m + 2 \/ ip = m + 3
  <2>1. Instruction.op \in {"drop", "const"} /\ entered = 1
    BY <1>3, <1>4, <1>5, <1>9
  <2>2. entered' = 1 /\ ip' = ip + 1
    BY <2>1 DEF GoesOn, Jumps
  <2> QED
    BY <1>5, <1>9, <2>2
<1>10. CASE ip = m + 4
  <2>1. Instruction.op = "return"
    BY <1>3, <1>5, <1>10
  <2> QED
    BY <2>1 DEF GoesOn, Jumps
<1> QED
  BY <1>6, <1>7, <1>8, <1>9, <1>10

(* A step that goes on, balances and keeps what is bound keeps the         *)
(* invariant.                                                              *)
LEMMA Complies ==
  ASSUME CompInv, RunInv, status = "running", NEW b, Fetched(b), GoesOn, Balanced, EnvKept,
         UNCHANGED <<compiler, running, status>>
  PROVE  RunInv'
<1>1. /\ RunningBody' = RunningBody /\ Chunk' = Chunk /\ running' = running /\ program' = program
      /\ temp_counter' = temp_counter /\ status' = "running"
      /\ (Compiling' <=> Compiling)
  BY DEF RunningBody, Chunk, compiler, Compiling
<1>2. running \in 1..Len(program.bodies) /\ ~Compiling /\ entered \in 0..2
  BY DEF RunInv
<1>3. ip' \in 1..Len(Chunk) /\ Leads(Instruction, b[ip], b[ip'])
  <2>1. FlowAt(RunningBody, Chunk, b, ip) /\ Instruction = Chunk[ip]
    BY DEF Fetched
  <2>2. CASE Instruction.op \notin {"jump", "return"} /\ ip' = ip + 1
    <3>1. Leads(Instruction, b[ip], b[ip + 1])
      BY <2>1, <2>2 DEF FlowAt
    <3>2. ip + 1 \in 1..Len(Chunk)
      BY <2>2 DEF Fetched
    <3> QED
      BY <2>2, <3>1, <3>2
  <2>3. CASE Instruction.op \in Jumps /\ ip' = Instruction.arg
    <3>1. Instruction.arg \in 1..Len(Chunk) /\ Len(Chunk) \in Nat
      BY <2>3 DEF Fetched
    <3>2. PICK k : k = Instruction.arg
      OBVIOUS
    <3>3. k # Nowhere
      BY <3>1, <3>2 DEF Nowhere
    <3>4. Leads(Instruction, b[ip], b[k])
      BY <2>1, <2>3, <3>2, <3>3 DEF FlowAt
    <3> QED
      BY <2>3, <3>1, <3>2, <3>4
  <2>4. Instruction.op # "jump" \/ ip' = Instruction.arg
    BY DEF GoesOn
  <2> QED
    BY <2>2, <2>3, <2>4 DEF GoesOn
<1>4. /\ Len(stack') = b[ip'].height
      /\ \A x \in b[ip'].bound : x \in DOMAIN env' /\ env'[x] # None
  <2>1. PICK s, t : s = b[ip] /\ t = b[ip']
    OBVIOUS
  <2>2. Leads(Instruction, s, t) /\ InState(s)
    BY <1>3, <2>1, FetchedFacts
  <2>3. /\ Len(stack') = t.height
        /\ \A x \in t.bound : x \in DOMAIN env' /\ env'[x] # None
    BY <2>2, StateFollows
  <2> QED
    BY <2>1, <2>3
<1>5. Foreseen(b)'
  BY <1>1, <1>4 DEF Fetched, Foreseen, InState
<1>6. Counted'
  BY CountedOn
<1>7. entered' \in 0..2
  BY <1>2 DEF GoesOn
<1>8. stack' \in Seq(Nat) /\ Len(stack') <= StackMax
  BY DEF Balanced
<1>9. env' \in Environments'
  BY <1>1 DEF EnvKept, Environments
<1> QED
  BY <1>1, <1>2, <1>3, <1>5, <1>6, <1>7, <1>8, <1>9 DEF RunInv

(* The operands on the stack. *)
LEMMA Operand ==
  ASSUME RunInv, NEW n, n \in Nat, n <= Len(stack)
  PROVE  /\ Without(n) \in Seq(Nat) /\ Len(Without(n)) = Len(stack) - n
         /\ Len(stack) \in Nat
         /\ Len(stack) >= 1 => Top \in Nat
         /\ Len(stack) >= 2 => Below \in Nat
<1>1. stack \in Seq(Nat) /\ Len(stack) \in Nat
  BY DEF RunInv
<1>2. Without(n) \in Seq(Nat) /\ Len(Without(n)) = Len(stack) - n
  BY <1>1 DEF Without
<1> QED
  BY <1>1, <1>2 DEF Top, Below

(* Steps that leave a value, leave none, or touch no operand. *)
LEMMA PushBalances ==
  ASSUME RunInv, NEW b, Fetched(b), Needs <= Len(stack), Len(Without(Needs)) < StackMax,
         Gives(Instruction) = 1, NEW v, v \in Nat, stack' = Append(Without(Needs), v)
  PROVE  Balanced
<1>1. Needs = Takes(Instruction) /\ Needs \in Nat
  BY NeedsAre, FetchedFacts
<1>2. PICK n : n = Needs /\ n \in Nat /\ n <= Len(stack)
  BY <1>1
<1>3. PICK w : w = Without(Needs) /\ w \in Seq(Nat) /\ Len(w) = Len(stack) - n /\ Len(stack) \in Nat
  BY <1>2, Operand
<1>4. stack' \in Seq(Nat) /\ Len(stack') = Len(w) + 1
  BY <1>3
<1>5. Len(w) < StackMax /\ StackMax \in Nat /\ Len(w) \in Nat
  BY <1>3, ValuesAssumption
<1>6. Len(stack') = Len(stack) - Takes(Instruction) + Gives(Instruction)
  BY <1>1, <1>2, <1>3, <1>4
<1>7. Len(stack') <= StackMax
  BY <1>4, <1>5
<1> QED
  BY <1>4, <1>6, <1>7 DEF Balanced

LEMMA PopBalances ==
  ASSUME RunInv, NEW b, Fetched(b), Needs <= Len(stack),
         Gives(Instruction) = 0, stack' = Without(Needs)
  PROVE  Balanced
<1>1. Needs = Takes(Instruction) /\ Needs \in Nat
  BY NeedsAre, FetchedFacts
<1>2. PICK n : n = Needs /\ n \in Nat /\ n <= Len(stack)
  BY <1>1
<1>3. PICK w : w = Without(Needs) /\ w \in Seq(Nat) /\ Len(w) = Len(stack) - n /\ Len(stack) \in Nat
  BY <1>2, Operand
<1>4. Len(stack) <= StackMax /\ StackMax \in Nat
  BY ValuesAssumption DEF RunInv
<1>5. stack' \in Seq(Nat) /\ Len(stack') = Len(stack) - n /\ Len(stack') <= StackMax
  BY <1>2, <1>3, <1>4
<1> QED
  BY <1>1, <1>2, <1>5 DEF Balanced

LEMMA StayBalances ==
  ASSUME RunInv, NEW b, Fetched(b), Takes(Instruction) = 0, Gives(Instruction) = 0, stack' = stack
  PROVE  Balanced
<1>1. stack \in Seq(Nat) /\ Len(stack) \in Nat /\ Len(stack) <= StackMax
  BY DEF RunInv
<1> QED
  BY <1>1 DEF Balanced

(* A step that binds no temporary. *)
LEMMA EnvStays ==
  ASSUME RunInv, status = "running", env' = env, Instruction.op # "define"
  PROVE  EnvKept
<1>1. env \in Environments
  BY DEF RunInv
<1> QED
  BY <1>1 DEF EnvKept, Binds

(* An instruction that does not fail. *)
LEMMA Executes ==
  ASSUME RunInv, NEW ops, Executing(ops)
  PROVE  \E b : /\ Fetched(b)
                /\ status = "running" /\ Instruction.op \in ops
                /\ Needs <= Len(stack) /\ Needs = Takes(Instruction)
                /\ Instruction.op \in Pushes => Len(Without(Needs)) < StackMax
                /\ Instruction.op = "load" => env[Instruction.arg] # None
<1>1. status = "running" /\ Instruction.op \in ops /\ ~MustFail
  BY DEF Executing
<1>2. PICK b : Fetched(b)
  BY <1>1, Fetch
<1>3. PICK n : n = Needs /\ n \in Nat /\ n = Takes(Instruction)
  BY <1>2, NeedsAre, FetchedFacts
<1>4. Len(stack) \in Nat /\ StackMax \in Nat
  BY ValuesAssumption DEF RunInv
<1>5. n <= Len(stack)
  BY <1>1, <1>3, <1>4 DEF MustFail
<1>6. Len(Without(n)) \in Nat
  BY <1>3, <1>4, <1>5, Operand
<1>7. Instruction.op \in Pushes => Len(Without(n)) < StackMax
  BY <1>1, <1>3, <1>4, <1>6 DEF MustFail
<1>8. Instruction.op = "load" => env[Instruction.arg] # None
  BY <1>1 DEF MustFail
<1> QED
  BY <1>1, <1>2, <1>3, <1>5, <1>7, <1>8

(* The steps of the machine, one by one. *)
LEMMA StepCompute ==
  ASSUME CompInv, RunInv, Compute
  PROVE  RunInv'
<1>1. Executing({"operand", "apply"})
  BY DEF Compute
<1>2. PICK b :
        /\ Fetched(b)
        /\ status = "running" /\ Instruction.op \in {"operand", "apply"}
        /\ Needs <= Len(stack) /\ Needs = Takes(Instruction)
        /\ Instruction.op \in Pushes => Len(Without(Needs)) < StackMax
  BY <1>1, Executes
<1>3. PICK v : v \in Nat /\ stack' = Append(Without(Needs), v)
  BY ValuesAssumption DEF Compute, Pushing
<1>4. Gives(Instruction) = 1 /\ Instruction.op \in Pushes
  BY <1>2 DEF Gives, Pushes
<1>5. Balanced
  BY <1>2, <1>3, <1>4, PushBalances
<1>6. EnvKept
  <2>1. env' = env
    BY DEF Compute
  <2> QED
    BY <1>2, <2>1, EnvStays
<1>7. GoesOn
  BY <1>2 DEF Compute, Onward, GoesOn
<1>8. UNCHANGED <<compiler, running, status>>
  BY DEF Compute, Onward
<1> QED
  BY <1>2, <1>5, <1>6, <1>7, <1>8, Complies

LEMMA StepCall ==
  ASSUME CompInv, RunInv, Call
  PROVE  RunInv'
<1>1. Executing({"call", "main"})
  BY DEF Call
<1>2. PICK b :
        /\ Fetched(b)
        /\ status = "running" /\ Instruction.op \in {"call", "main"}
        /\ Needs <= Len(stack) /\ Needs = Takes(Instruction)
  BY <1>1, Executes
<1>3. Gives(Instruction) = 1
  BY <1>2 DEF Gives
<1>4. entered' = IF Instruction.op = "main" /\ entered < 2 THEN entered + 1 ELSE entered
  BY DEF Call
<1>5. CASE Len(Without(Needs)) < StackMax
  <2>1. PICK v : v \in Nat /\ stack' = Append(Without(Needs), v)
    BY <1>5, ValuesAssumption DEF Call, Pushing
  <2>2. Balanced
    BY <1>2, <1>3, <1>5, <2>1, PushBalances
  <2>3. EnvKept
    <3>1. env' = env
      BY DEF Call
    <3> QED
      BY <1>2, <3>1, EnvStays
  <2>4. GoesOn
    BY <1>2, <1>4, <1>5 DEF Call, Onward, GoesOn
  <2>5. UNCHANGED <<compiler, running, status>>
    BY <1>5 DEF Call, Onward
  <2> QED
    BY <1>2, <2>2, <2>3, <2>4, <2>5, Complies
<1>6. CASE ~(Len(Without(Needs)) < StackMax)
  <2>1. /\ status' = "undefined" /\ compiler' = compiler /\ running' = running
        /\ ip' = ip /\ stack' = stack /\ env' = env
    BY <1>6 DEF Call
  <2>2. /\ program' = program /\ temp_counter' = temp_counter
        /\ Chunk' = Chunk /\ (Compiling' <=> Compiling)
    BY <2>1 DEF compiler, Chunk, Compiling
  <2>3. entered' \in 0..2
    BY <1>4 DEF RunInv
  <2> QED
    BY <1>2, <2>1, <2>2, <2>3 DEF RunInv, Environments
<1> QED
  BY <1>5, <1>6

LEMMA StepArithmetic ==
  ASSUME CompInv, RunInv, Arithmetic
  PROVE  RunInv'
<1>1. Executing({"const", "length", "less", "add"})
  BY DEF Arithmetic
<1>2. PICK b :
        /\ Fetched(b)
        /\ status = "running" /\ Instruction.op \in {"const", "length", "less", "add"}
        /\ Needs <= Len(stack) /\ Needs = Takes(Instruction)
        /\ Instruction.op \in Pushes => Len(Without(Needs)) < StackMax
  BY <1>1, Executes
<1>3. Gives(Instruction) = 1 /\ Instruction.op \in Pushes
  BY <1>2 DEF Gives, Pushes
<1>4. stack' = Append(Without(Needs), Computed)
  BY Zenon DEF Arithmetic, Pushing, Computed
<1>5. Computed \in Nat
  <2>1. Instruction.arg \in Nat
    BY <1>2, FetchedFacts
  <2>2. Len(stack) \in Nat
    BY DEF RunInv
  <2>3. /\ Len(stack) >= 1 => Top \in Nat
        /\ Len(stack) >= 2 => Below \in Nat
    <3>1. 0 \in Nat /\ 0 <= Len(stack)
      BY <2>2
    <3> QED
      BY <3>1, Operand
  <2>4. CASE Instruction.op = "const"
    BY <2>1, <2>4, ComputedIs
  <2>5. CASE Instruction.op = "length"
    <3>1. Len(stack) >= 1
      BY <1>2, <2>2, <2>5 DEF Takes
    <3> QED
      BY <2>3, <2>5, <3>1, ComputedIs
  <2>6. CASE Instruction.op \in {"less", "add"}
    <3>1. Len(stack) >= 2
      BY <1>2, <2>2, <2>6 DEF Takes
    <3>2. Top \in Nat /\ Below \in Nat
      BY <2>2, <2>3, <3>1
    <3>3. Computed \in {0, 1} \/ Computed = Below + Top
      BY <2>6, ComputedIs
    <3> QED
      BY <3>2, <3>3
  <2> QED
    BY <1>2, <2>4, <2>5, <2>6
<1>6. Balanced
  <2>1. PICK v : v = Computed /\ v \in Nat /\ stack' = Append(Without(Needs), v)
    BY <1>4, <1>5
  <2> QED
    BY <1>2, <1>3, <2>1, PushBalances
<1>7. EnvKept
  <2>1. env' = env
    BY DEF Arithmetic
  <2> QED
    BY <1>2, <2>1, EnvStays
<1>8. GoesOn
  BY <1>2 DEF Arithmetic, Onward, GoesOn
<1>9. UNCHANGED <<compiler, running, status>>
  BY DEF Arithmetic, Onward
<1> QED
  BY <1>2, <1>6, <1>7, <1>8, <1>9, Complies

LEMMA StepDrop ==
  ASSUME CompInv, RunInv, Drop
  PROVE  RunInv'
<1>1. Executing({"drop"})
  BY DEF Drop
<1>2. PICK b :
        /\ Fetched(b)
        /\ status = "running" /\ Instruction.op \in {"drop"}
        /\ Needs <= Len(stack) /\ Needs = Takes(Instruction)
        /\ Instruction.op \in Pushes => Len(Without(Needs)) < StackMax
        /\ Instruction.op = "load" => env[Instruction.arg] # None
  BY <1>1, Executes
<1>3. Gives(Instruction) = 0
  BY <1>2 DEF Gives
<1>4. Balanced
  <2>1. stack' = Without(Needs)
    BY DEF Drop, Popping
  <2> QED
    BY <1>2, <1>3, <2>1, PopBalances
<1>5. EnvKept
  <2>1. env' = env
    BY DEF Drop
  <2> QED
    BY <1>2, <2>1, EnvStays
<1>6. GoesOn
  BY <1>2 DEF Drop, Onward, GoesOn
<1>7. UNCHANGED <<compiler, running, status>>
  BY DEF Drop, Onward
<1> QED
  BY <1>2, <1>4, <1>5, <1>6, <1>7, Complies

LEMMA StepLoad ==
  ASSUME CompInv, RunInv, Load
  PROVE  RunInv'
<1>1. Executing({"load"})
  BY DEF Load
<1>2. PICK b :
        /\ Fetched(b)
        /\ status = "running" /\ Instruction.op \in {"load"}
        /\ Needs <= Len(stack) /\ Needs = Takes(Instruction)
        /\ Instruction.op \in Pushes => Len(Without(Needs)) < StackMax
        /\ Instruction.op = "load" => env[Instruction.arg] # None
  BY <1>1, Executes
<1>3. Gives(Instruction) = 1 /\ Instruction.op \in Pushes
  BY <1>2 DEF Gives, Pushes
<1>4. env[Instruction.arg] \in Nat
  <2>1. PICK n : n = Instruction.arg /\ n \in Nat
    BY <1>2, FetchedFacts
  <2>2. FlowAt(RunningBody, Chunk, b, ip) /\ Instruction = Chunk[ip] /\ InState(b[ip])
    BY <1>2, FetchedFacts DEF Fetched
  <2>3. n \in b[ip].bound
    BY <1>2, <2>1, <2>2 DEF FlowAt
  <2>4. n \in DOMAIN env
    BY <2>2, <2>3 DEF InState
  <2>5. env \in Environments
    BY <1>2 DEF RunInv
  <2>6. env[n] \in Nat \cup {None}
    BY <2>4, <2>5 DEF Environments
  <2> QED
    BY <1>2, <2>1, <2>6
<1>5. Balanced
  <2>1. PICK v : v = env[Instruction.arg] /\ v \in Nat /\ stack' = Append(Without(Needs), v)
    BY <1>4 DEF Load, Pushing
  <2> QED
    BY <1>2, <1>3, <2>1, PushBalances
<1>6. EnvKept
  <2>1. env' = env
    BY DEF Load
  <2> QED
    BY <1>2, <2>1, EnvStays
<1>7. GoesOn
  BY <1>2 DEF Load, Onward, GoesOn
<1>8. UNCHANGED <<compiler, running, status>>
  BY DEF Load, Onward
<1> QED
  BY <1>2, <1>5, <1>6, <1>7, <1>8, Complies

LEMMA StepAssign ==
  ASSUME CompInv, RunInv, Assign
  PROVE  RunInv'
<1>1. Executing({"define", "store"})
  BY DEF Assign
<1>2. PICK b :
        /\ Fetched(b)
        /\ status = "running" /\ Instruction.op \in {"define", "store"}
        /\ Needs <= Len(stack) /\ Needs = Takes(Instruction)
        /\ Instruction.op \in Pushes => Len(Without(Needs)) < StackMax
        /\ Instruction.op = "load" => env[Instruction.arg] # None
  BY <1>1, Executes
<1>3. Gives(Instruction) = 0
  BY <1>2 DEF Gives
<1>4. Balanced
  <2>1. stack' = Without(Needs)
    BY DEF Assign, Popping
  <2> QED
    BY <1>2, <1>3, <2>1, PopBalances
<1>5. Top \in Nat
  <2>1. Needs \in Nat /\ Needs >= 1
    BY <1>2 DEF Takes
  <2>2. Len(stack) >= 1
    BY <1>2, <2>1, Operand
  <2> QED
    BY <1>2, <2>1, <2>2, Operand
<1>6. EnvKept
  <2>1. PICK n : n = Instruction.arg /\ n \in Nat /\ n < temp_counter
    <3>1. Complete(RunningBody, Chunk, b, temp_counter) /\ Instruction = Chunk[ip] /\ ip \in 1..Len(Chunk)
      BY <1>2 DEF Fetched, Foreseen
    <3>2. Instruction.arg < temp_counter
      BY <1>2, <3>1 DEF Complete
    <3> QED
      BY <1>2, <3>2, FetchedFacts
  <2>2. env \in Environments /\ temp_counter \in Nat
    BY <1>2 DEF RunInv, CompInv
  <2>3. n \in 0..temp_counter - 1
    BY <2>1, <2>2
  <2>4. DOMAIN env = 0..temp_counter - 1 /\ \A x \in DOMAIN env : env[x] \in Nat \cup {None}
    BY <2>2 DEF Environments
  <2>5. PICK v : v = Top /\ v \in Nat /\ env' = [env EXCEPT ![n] = v]
    BY <1>5, <2>1 DEF Assign
  <2>6. v # None
    BY <2>5 DEF None
  <2>7. env' \in Environments
    BY <2>2, <2>3, <2>5 DEF Environments
  <2>8. /\ DOMAIN env' = DOMAIN env /\ env'[n] = v
        /\ \A x \in DOMAIN env : x = n \/ env'[x] = env[x]
    BY <2>3, <2>4, <2>5
  <2>9. \A x \in Binds(Instruction) : x = n
    BY <2>1 DEF Binds
  <2> QED
    BY <2>3, <2>4, <2>6, <2>7, <2>8, <2>9 DEF EnvKept
<1>7. GoesOn
  BY <1>2 DEF Assign, Onward, GoesOn
<1>8. UNCHANGED <<compiler, running, status>>
  BY DEF Assign, Onward
<1> QED
  BY <1>2, <1>4, <1>6, <1>7, <1>8, Complies

LEMMA StepGet ==
  ASSUME CompInv, RunInv, Get
  PROVE  RunInv'
<1>1. Executing({"get"})
  BY DEF Get
<1>2. PICK b :
        /\ Fetched(b)
        /\ status = "running" /\ Instruction.op \in {"get"}
        /\ Needs <= Len(stack) /\ Needs = Takes(Instruction)
        /\ Instruction.op \in Pushes => Len(Without(Needs)) < StackMax
        /\ Instruction.op = "load" => env[Instruction.arg] # None
  BY <1>1, Executes
<1>3. Gives(Instruction) = 1 /\ Instruction.op \in Pushes
  BY <1>2 DEF Gives, Pushes
<1>4. Top \in Nat
  <2>1. Needs \in Nat /\ Needs >= 1
    BY <1>2 DEF Takes
  <2>2. Len(stack) >= 1
    BY <1>2, <2>1, Operand
  <2> QED
    BY <1>2, <2>1, <2>2, Operand
<1>5. Balanced
  <2>1. PICK v : v = Top /\ v \in Nat /\ stack' = Append(Without(Needs), v)
    BY <1>4 DEF Get, Pushing
  <2> QED
    BY <1>2, <1>3, <2>1, PushBalances
<1>6. EnvKept
  <2>1. env' = env
    BY DEF Get
  <2> QED
    BY <1>2, <2>1, EnvStays
<1>7. GoesOn
  BY <1>2 DEF Get, Onward, GoesOn
<1>8. UNCHANGED <<compiler, running, status>>
  BY DEF Get, Onward
<1> QED
  BY <1>2, <1>5, <1>6, <1>7, <1>8, Complies

LEMMA StepBind ==
  ASSUME CompInv, RunInv, Bind
  PROVE  RunInv'
<1>1. Executing({"bind"})
  BY DEF Bind
<1>2. PICK b :
        /\ Fetched(b)
        /\ status = "running" /\ Instruction.op \in {"bind"}
        /\ Needs <= Len(stack) /\ Needs = Takes(Instruction)
        /\ Instruction.op \in Pushes => Len(Without(Needs)) < StackMax
        /\ Instruction.op = "load" => env[Instruction.arg] # None
  BY <1>1, Executes
<1>3. Gives(Instruction) = 0
  BY <1>2 DEF Gives
<1>4. Balanced
  <2>1. stack' = Without(Needs)
    BY DEF Bind, Popping
  <2> QED
    BY <1>2, <1>3, <2>1, PopBalances
<1>5. EnvKept
  <2>1. env' = env
    BY DEF Bind
  <2> QED
    BY <1>2, <2>1, EnvStays
<1>6. GoesOn
  BY <1>2 DEF Bind, Onward, GoesOn
<1>7. UNCHANGED <<compiler, running, status>>
  BY DEF Bind, Onward
<1> QED
  BY <1>2, <1>4, <1>5, <1>6, <1>7, Complies

LEMMA StepJump ==
  ASSUME CompInv, RunInv, Jump
  PROVE  RunInv'
<1>1. Executing({"jump"})
  BY DEF Jump
<1>2. PICK b :
        /\ Fetched(b)
        /\ status = "running" /\ Instruction.op \in {"jump"}
        /\ Needs <= Len(stack) /\ Needs = Takes(Instruction)
        /\ Instruction.op \in Pushes => Len(Without(Needs)) < StackMax
        /\ Instruction.op = "load" => env[Instruction.arg] # None
  BY <1>1, Executes
<1>3. Balanced
  <2>1. Takes(Instruction) = 0 /\ Gives(Instruction) = 0 /\ stack' = stack
    BY <1>2 DEF Takes, Gives, Jump
  <2> QED
    BY <1>2, <2>1, StayBalances
<1>4. EnvKept
  <2>1. env' = env
    BY DEF Jump
  <2> QED
    BY <1>2, <2>1, EnvStays
<1>5. GoesOn
  BY <1>2 DEF Jump, GoesOn, Jumps
<1>6. UNCHANGED <<compiler, running, status>>
  BY DEF Jump
<1> QED
  BY <1>2, <1>3, <1>4, <1>5, <1>6, Complies

LEMMA StepJumpIfFalse ==
  ASSUME CompInv, RunInv, JumpIfFalse
  PROVE  RunInv'
<1>1. Executing({"jumpfalse"})
  BY DEF JumpIfFalse
<1>2. PICK b :
        /\ Fetched(b)
        /\ status = "running" /\ Instruction.op \in {"jumpfalse"}
        /\ Needs <= Len(stack) /\ Needs = Takes(Instruction)
        /\ Instruction.op \in Pushes => Len(Without(Needs)) < StackMax
        /\ Instruction.op = "load" => env[Instruction.arg] # None
  BY <1>1, Executes
<1>3. Gives(Instruction) = 0
  BY <1>2 DEF Gives
<1>4. Balanced
  <2>1. stack' = Without(Needs)
    BY DEF JumpIfFalse, Popping
  <2> QED
    BY <1>2, <1>3, <2>1, PopBalances
<1>5. EnvKept
  <2>1. env' = env
    BY DEF JumpIfFalse
  <2> QED
    BY <1>2, <2>1, EnvStays
<1>6. GoesOn
  BY <1>2 DEF JumpIfFalse, GoesOn, Jumps
<1>7. UNCHANGED <<compiler, running, status>>
  BY DEF JumpIfFalse
<1> QED
  BY <1>2, <1>4, <1>5, <1>6, <1>7, Complies

(* A step after which the machine stops. *)
LEMMA Stops ==
  ASSUME CompInv, RunInv, status = "running", status' \in {"done", "failed"},
         status' = "done" => Instruction.op = "return",
         UNCHANGED <<compiler, running, ip, stack, env, entered>>
  PROVE  RunInv'
<1>1. /\ program' = program /\ temp_counter' = temp_counter /\ chunks' = chunks
      /\ Chunk' = Chunk /\ RunningBody' = RunningBody /\ Instruction' = Instruction
      /\ (Compiling' <=> Compiling)
  BY DEF compiler, Chunk, RunningBody, Instruction, Compiling
<1>2. Counted'
  BY <1>1 DEF RunInv, Counted
<1> QED
  BY <1>1, <1>2 DEF RunInv, Environments

LEMMA StepReturn ==
  ASSUME CompInv, RunInv, Return
  PROVE  RunInv'
<1>1. status = "running" /\ Instruction.op = "return" /\ status' = "done"
  BY DEF Return, Executing
<1>2. UNCHANGED <<compiler, running, ip, stack, env, entered>>
  BY DEF Return
<1> QED
  BY <1>1, <1>2, Stops

LEMMA StepError ==
  ASSUME CompInv, RunInv, RuntimeError
  PROVE  RunInv'
<1>1. status = "running" /\ status' = "failed"
  BY DEF RuntimeError
<1>2. UNCHANGED <<compiler, running, ip, stack, env, entered>>
  BY DEF RuntimeError
<1> QED
  BY <1>1, <1>2, Stops

LEMMA StepStart ==
  ASSUME CompInv, RunInv, Start
  PROVE  RunInv'
<1>1. /\ status = "compiling" /\ ~Compiling /\ status' = "running"
      /\ env' = [t \in 0..temp_counter - 1 |-> None]
      /\ compiler' = compiler /\ running' = running /\ ip' = ip /\ stack' = stack
      /\ entered' = entered
  BY DEF Start
<1>2. /\ program' = program /\ temp_counter' = temp_counter /\ chunks' = chunks
      /\ Chunk' = Chunk /\ RunningBody' = RunningBody /\ (Compiling' <=> Compiling)
  BY <1>1 DEF compiler, Chunk, RunningBody, Compiling
<1>3. ip = 1 /\ stack = <<>> /\ entered = 0 /\ running \in 1..Len(program.bodies)
  BY <1>1 DEF RunInv
<1>4. /\ Finished(program, chunks, temp_counter) /\ Len(chunks) = chunk - 1
      /\ chunk \in 1..Len(program.bodies) + 1 /\ program \in Programs
  BY <1>1 DEF CompInv
<1>5. Len(program.bodies) \in Nat
  BY <1>4, ProgramTyped
<1>6. running \in 1..Len(chunks)
  BY <1>1, <1>3, <1>4, <1>5 DEF Compiling
<1>7. PICK b : Complete(RunningBody, Chunk, b, temp_counter)
  BY <1>4, <1>6 DEF Finished, RunningBody, Chunk
<1>8. b[1].height = 0 /\ b[1].bound = {} /\ Len(Chunk) \in Nat \ {0}
  BY <1>7 DEF Complete, Flow, FromNothing
<1>9. Foreseen(b)'
  BY <1>1, <1>2, <1>3, <1>7, <1>8 DEF Foreseen, InState
<1>10. Counted'
  <2> SUFFICES ASSUME NEW m, EndsWithCall(RunningBody, Chunk, m)
               PROVE  1 <= m + 1 /\ ~(1 > m + 1)
    BY <1>1, <1>2, <1>3 DEF Counted
  <2>1. m \in Nat
    BY DEF EndsWithCall
  <2> QED
    BY <2>1
<1>11. env' \in Environments
  BY <1>1 DEF Environments
<1> QED
  BY <1>1, <1>2, <1>3, <1>8, <1>9, <1>10, <1>11 DEF RunInv, Environments

(* The machine has not begun while the compiler runs. *)
LEMMA StepCompile ==
  ASSUME CompInv, RunInv, Compile, UNCHANGED machine
  PROVE  RunInv'
<1>1. Compiling /\ program' = program
  BY CompileCompiles
<1>2. status = "compiling" /\ ip = 1 /\ stack = <<>> /\ entered = 0
      /\ running \in 1..Len(program.bodies)
  BY <1>1 DEF RunInv
<1>3. /\ status' = status /\ ip' = ip /\ stack' = stack /\ entered' = entered
      /\ running' = running
  BY DEF machine
<1>4. stack \in Seq(Nat) /\ Len(stack) <= StackMax
  BY DEF RunInv
<1> QED
  BY <1>1, <1>2, <1>3, <1>4 DEF RunInv

LEMMA StepNone ==
  ASSUME CompInv, RunInv, UNCHANGED vars
  PROVE  RunInv'
<1>1. /\ running' = running /\ status' = status /\ ip' = ip /\ stack' = stack
      /\ env' = env /\ entered' = entered /\ compiler' = compiler
  BY DEF vars, machine
<1>2. /\ program' = program /\ temp_counter' = temp_counter /\ chunks' = chunks
      /\ Chunk' = Chunk /\ RunningBody' = RunningBody /\ Instruction' = Instruction
      /\ (Compiling' <=> Compiling)
  BY <1>1 DEF compiler, Chunk, RunningBody, Instruction, Compiling
<1>3. Counted' <=> Counted
  BY <1>1, <1>2 DEF Counted
<1>4. ASSUME NEW b, Foreseen(b) PROVE Foreseen(b)'
  BY <1>1, <1>2, <1>4 DEF Foreseen, InState
<1>5. (\E b : Foreseen(b)) => \E b : Foreseen(b)'
  BY <1>4
<1> QED
  BY <1>1, <1>2, <1>3, <1>5 DEF RunInv, Environments

(* Every step keeps the machine's invariant, *)
LEMMA MachineSteps ==
  ASSUME CompInv, RunInv, [Next]_vars
  PROVE  RunInv'
<1>1. CASE Compile /\ UNCHANGED machine
  BY <1>1, StepCompile
<1>2. CASE Start
  BY <1>2, StepStart
<1>3. CASE Compute
  BY <1>3, StepCompute
<1>4. CASE Call
  BY <1>4, StepCall
<1>5. CASE Arithmetic
  BY <1>5, StepArithmetic
<1>6. CASE Drop
  BY <1>6, StepDrop
<1>7. CASE Load
  BY <1>7, StepLoad
<1>8. CASE Assign
  BY <1>8, StepAssign
<1>9. CASE Get
  BY <1>9, StepGet
<1>10. CASE Bind
  BY <1>10, StepBind
<1>11. CASE Jump
  BY <1>11, StepJump
<1>12. CASE JumpIfFalse
  BY <1>12, StepJumpIfFalse
<1>13. CASE Return
  BY <1>13, StepReturn
<1>14. CASE RuntimeError
  BY <1>14, StepError
<1>15. CASE UNCHANGED vars
  BY <1>15, StepNone
<1> QED
  BY <1>1, <1>2, <1>3, <1>4, <1>5, <1>6, <1>7, <1>8, <1>9, <1>10, <1>11, <1>12, <1>13,
     <1>14, <1>15 DEF Next, Run

(* which holds in the beginning. *)
LEMMA MachineStarts ==
  ASSUME Init
  PROVE  RunInv
<1>1. StackMax \in Nat
  BY ValuesAssumption
<1>2. stack \in Seq(Nat) /\ Len(stack) = 0
  BY DEF Init
<1> QED
  BY <1>1, <1>2 DEF Init, RunInv

-----------------------------------------------------------------------------
(* What the invariants say *)

(* The code so far, and what is remembered of it. *)
LEMMA CodeTyped ==
  ASSUME CompInv
  PROVE  /\ \A i \in 1..Len(code) :
              code[i].op \in Ops /\ code[i].arg \in Nat
                /\ code[i].item \in 1..Len(program.bodies[chunk])
         /\ \A i \in 1..Len(labels) : labels[i].target \in 1..Len(code) + 1
         /\ \A i \in 1..Len(pending) : pending[i].jump \in 1..Len(code)
         /\ \A i \in 1..Len(loops) : (loops[i].breaks \cup loops[i].continues) \subseteq 1..Len(code)
<1>1. CASE ~Compiling
  <2>1. Len(code) = 0 /\ Len(labels) = 0 /\ Len(pending) = 0 /\ Len(loops) = 0
    BY <1>1 DEF CompInv
  <2> QED
    BY <2>1
<1>2. CASE Compiling
  <2>1. PICK body, a, T : InHand(body, a, T)
    BY <1>2 DEF CompInv
  <2>2. /\ body = program.bodies[chunk]
        /\ BodyInv(body, pos, code, nested, loops, labels, pending, temp_counter, a, T)
    BY <2>1 DEF InHand
  <2>3. /\ code \in Seq(Instructions(body))
        /\ Labels(body, code, a, T, pos, labels)
        /\ Gotos(body, code, a, T, pos, pending)
        /\ Scopes(body, code, a, T, Loops(body, pos), loops)
    BY <2>2, ItemFacts
  <2>4. ASSUME NEW i \in 1..Len(code)
        PROVE  code[i].op \in Ops /\ code[i].arg \in Nat /\ code[i].item \in 1..Len(body)
    <3>1. code[i] \in Instructions(body)
      BY <2>3, ElementOfSeq
    <3> QED
      BY <3>1 DEF Instructions
  <2>5. \A i \in 1..Len(labels) : labels[i].target \in 1..Len(code) + 1
    BY <2>3 DEF Labels, LabelHolds
  <2>6. \A i \in 1..Len(pending) : pending[i].jump \in 1..Len(code)
    BY <2>3 DEF Gotos, GotoHolds
  <2>7. ASSUME NEW i \in 1..Len(loops)
        PROVE  (loops[i].breaks \cup loops[i].continues) \subseteq 1..Len(code)
    <3>1. PICK h, l : l = loops[i] /\ ScopeHolds(body, code, a, T, h, l)
      BY <2>3 DEF Scopes
    <3>2. \A j \in l.breaks \cup l.continues : j \in 1..Len(code)
      BY <3>1 DEF ScopeHolds, Promised
    <3> QED
      BY <3>1, <3>2
  <2> QED
    BY <2>2, <2>4, <2>5, <2>6, <2>7
<1> QED
  BY <1>1, <1>2

(* Each property follows from the two invariants. *)
LEMMA Typed ==
  ASSUME CompInv, RunInv
  PROVE  TypeOK
<1>1. /\ status \in {"compiling", "running", "done", "failed", "undefined"}
      /\ status # "compiling" => ip \in 1..Len(chunks[running])
      /\ Len(stack) <= StackMax
      /\ entered \in 0..2
  BY DEF RunInv, Chunk
<1> QED
  BY <1>1, CodeTyped DEF TypeOK

LEMMA NothingLeft ==
  ASSUME CompInv, RunInv
  PROVE  StatementsLeaveNothing
<1> SUFFICES ASSUME status = "running",
                    Of(Instruction).kind \in Statements,
                    ip > 1 => chunks[running][ip - 1].item # Instruction.item
             PROVE  stack = <<>>
  BY DEF StatementsLeaveNothing, Statements
<1>1. PICK b : Fetched(b)
  BY Fetch
<1>2. /\ FlowAt(RunningBody, Chunk, b, ip) /\ Instruction = Chunk[ip]
      /\ InState(b[ip])
  BY <1>1, FetchedFacts DEF Fetched
<1>3. Begins(RunningBody, Chunk, ip)
  BY <1>2 DEF Begins, Of, RunningBody, Chunk
<1>4. Len(stack) = 0
  BY <1>2, <1>3 DEF FlowAt, InState
<1>5. stack \in Seq(Nat)
  BY DEF RunInv
<1> QED
  BY <1>4, <1>5

LEMMA CountersAre ==
  ASSUME CompInv, RunInv
  PROVE  CountersBound
<1> SUFFICES ASSUME status = "running", Instruction.op = "load"
             PROVE  env[Instruction.arg] # None
  BY DEF CountersBound
<1>1. PICK b : Fetched(b)
  BY Fetch
<1>2. /\ FlowAt(RunningBody, Chunk, b, ip) /\ Instruction = Chunk[ip]
      /\ InState(b[ip])
  BY <1>1, FetchedFacts DEF Fetched
<1>3. PICK n : n = Instruction.arg
  OBVIOUS
<1>4. n \in b[ip].bound
  BY <1>2, <1>3 DEF FlowAt
<1> QED
  BY <1>2, <1>3, <1>4 DEF InState

LEMMA OperandsAre ==
  ASSUME CompInv, RunInv
  PROVE  OperandsAreThere
<1> SUFFICES ASSUME status = "running"
             PROVE  Needs <= Len(stack) /\ (Instruction.op = "return" => stack # <<>>)
  BY DEF OperandsAreThere
<1>1. PICK b : Fetched(b)
  BY Fetch
<1>2. /\ FlowAt(RunningBody, Chunk, b, ip) /\ Instruction = Chunk[ip]
      /\ InState(b[ip])
  BY <1>1, FetchedFacts DEF Fetched
<1>3. Len(stack) = b[ip].height /\ stack \in Seq(Nat)
  BY <1>2 DEF InState, RunInv
<1>4. Needs = Takes(Instruction)
  BY NeedsAre
<1>5. CASE Instruction.op \notin {"jump", "return"}
  <2>1. Takes(Instruction) <= b[ip].height
    BY <1>2, <1>5 DEF FlowAt, Leads
  <2> QED
    BY <1>3, <1>4, <1>5, <2>1
<1>6. CASE Instruction.op \in {"jump", "return"}
  <2>1. Takes(Instruction) = 0
    BY <1>6 DEF Takes
  <2>2. Instruction.op = "return" => b[ip].height > 0
    BY <1>2 DEF FlowAt
  <2>3. Len(stack) \in Nat /\ (stack = <<>> => Len(stack) = 0)
    BY <1>3
  <2> QED
    BY <1>3, <1>4, <2>1, <2>2, <2>3
<1> QED
  BY <1>5, <1>6

LEMMA EntryIs ==
  ASSUME CompInv, RunInv
  PROVE  EntryRuns
<1> SUFFICES ASSUME AtTheEnd, program.entry, At(TopLevelOf(program), {"main"}) = {}
             PROVE  entered = 1
  BY DEF EntryRuns, TopLevelOf
<1>1. /\ running = Len(program.bodies) /\ status = "done" /\ Of(Instruction).kind = "finish"
  BY DEF AtTheEnd
<1>2. /\ ~Compiling /\ ip \in 1..Len(Chunk) /\ Instruction.op = "return" /\ Counted
  BY <1>1 DEF RunInv
<1>3. /\ Finished(program, chunks, temp_counter) /\ Len(chunks) = chunk - 1
      /\ chunk \in 1..Len(program.bodies) + 1 /\ program \in Programs
  BY <1>2 DEF CompInv
<1>4. Len(program.bodies) \in Nat
  BY <1>3, ProgramTyped
<1>5. Len(chunks) = Len(program.bodies)
  BY <1>2, <1>3, <1>4 DEF Compiling
<1>6. EntryCalled(program, chunks)
  BY <1>3, <1>5 DEF Finished
<1>7. PICK m : EndsWithCall(TopLevelOf(program), chunks[Len(program.bodies)], m)
  BY <1>6 DEF EntryCalled
<1>8. EndsWithCall(RunningBody, Chunk, m)
  BY <1>1, <1>7 DEF RunningBody, Chunk, TopLevelOf
<1>9. /\ m \in Nat /\ Len(Chunk) = m + 4 /\ Chunk[m + 1].op = "main"
      /\ \A j \in 1..m : RunningBody[Chunk[j].item].kind # "finish"
  BY <1>8 DEF EndsWithCall
<1>10. Instruction = Chunk[ip] /\ Of(Instruction) = RunningBody[Instruction.item]
  BY DEF Instruction, Chunk, Of, RunningBody
<1>11. ip \notin 1..m
  BY <1>1, <1>9, <1>10
<1>12. ip # m + 1
  BY <1>2, <1>9, <1>10
<1>13. ip > m + 1
  BY <1>2, <1>9, <1>11, <1>12
<1> QED
  BY <1>1, <1>2, <1>8, <1>13 DEF Counted

(* For every program and every stack: the machine is always in a state the *)
(* compiler foresaw.                                                       *)
THEOREM MachineInvariant == Spec => [](CompInv /\ RunInv)
<1>1. Init => CompInv /\ RunInv
  BY CompilerStarts, MachineStarts DEF Init
<1>2. CompInv /\ RunInv /\ [Next]_vars => CompInv' /\ RunInv'
  BY CompilerKeeps, MachineSteps
<1> QED
  BY <1>1, <1>2, PTL DEF Spec

(* TypeOK, for every program and every stack. *)
THEOREM TypeCorrect == Spec => []TypeOK
<1>1. CompInv /\ RunInv => TypeOK
  BY Typed
<1> QED
  BY <1>1, MachineInvariant, PTL

(* StatementsLeaveNothing, for every program: the operand stack is empty   *)
(* wherever a statement has ended, on whichever way execution came there   *)
(* (run_chunk in compiler.c).                                              *)
THEOREM NothingIsLeft == Spec => []StatementsLeaveNothing
<1>1. CompInv /\ RunInv => StatementsLeaveNothing
  BY NothingLeft
<1> QED
  BY <1>1, MachineInvariant, PTL

(* OperandsAreThere, for every program: pop_value never finds the stack    *)
(* empty, and a return has a value to give (run_chunk in compiler.c).      *)
THEOREM NothingIsMissing == Spec => []OperandsAreThere
<1>1. CompInv /\ RunInv => OperandsAreThere
  BY OperandsAre
<1> QED
  BY <1>1, MachineInvariant, PTL

(* CountersBound, for every program: no temporary of a foreach is read     *)
(* before it is bound, whatever gotos there are.                           *)
THEOREM CountersAreBound == Spec => []CountersBound
<1>1. CompInv /\ RunInv => CountersBound
  BY CountersAre
<1> QED
  BY <1>1, MachineInvariant, PTL

(* EntryRuns, for every program: a top level that does not call the entry  *)
(* point has called it once when it has run to its end (HDCompileProgram   *)
(* in compiler.c).                                                         *)
THEOREM EntryIsCalled == Spec => []EntryRuns
<1>1. CompInv /\ RunInv => EntryRuns
  BY EntryIs
<1> QED
  BY <1>1, MachineInvariant, PTL
=============================================================================
