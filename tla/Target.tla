-------------------------------- MODULE Target -------------------------------
(***************************************************************************)
(* What both native backends make of a body: a list of instructions and    *)
(* labels.  An instruction says which item of the body it is emitted for,  *)
(* whether the item has had its effect ("after"), where it finds its       *)
(* operands and leaves its value, and (history) where the operands are     *)
(* that the body has evaluated and not used up, the oldest first.          *)
(* A location is <<"scratch", i, 0>>, a slot of the frame; <<"home">>, the *)
(* declared variable's own slot; <<"rax">>; <<"t", id, i>>, element i of a *)
(* C call site's array; <<"fe", id>>, a C foreach's counter; or <<"c", i>>,*)
(* a value inside of a C expression.                                       *)
(***************************************************************************)
EXTENDS Trees

Locations == {"home", "rax", "nowhere", "scratch", "t", "fe", "c"} \X Nat \X Nat

Home == <<"home", 0, 0>>
Rax == <<"rax", 0, 0>>
Nowhere == <<"nowhere", 0, 0>>

Labels == {"settled", "join", "other", "top", "next", "done", "label"} \X Nat

UserLabel == <<"label", 0>>

Ins(op, item, live, srcs, dest) ==
  [op |-> op, item |-> item, after |-> FALSE, live |-> live, srcs |-> srcs, dest |-> dest,
   n |-> 0, to |-> UserLabel, spare |-> Nowhere]

(* The value of an operand, an operator or a call. *)
Compute(op, item, live, srcs, dest) == <<Ins(op, item, live \o srcs, srcs, dest)>>

Drop(item, srcs) == <<Ins("drop", item, srcs, srcs, Nowhere)>>

Constant(item, live, n, dest) == <<[Ins("const", item, live, <<>>, dest) EXCEPT !.n = n]>>

(* Jumps: where HDTruthy says 0, says 1, and always. *)
Branch(op, item, live, src, to) ==
  <<[Ins(op, item, Append(live, src), <<src>>, Nowhere) EXCEPT !.to = to]>>

Go(item, live, to) == <<[Ins("jump", item, live, <<>>, Nowhere) EXCEPT !.to = to]>>

Label(to) == <<[Ins("label", 1, <<>>, <<>>, Nowhere) EXCEPT !.to = to]>>

After(code) == [i \in 1..Len(code) |-> [code[i] EXCEPT !.after = TRUE]]

(* A foreach's loop, given the item of its head. *)
Enter(item, array, counter) == <<Ins("enter", item, <<array>>, <<array>>, counter)>>

Until(item, array, counter, staging, to) ==
  <<[Ins("until", item, <<>>, <<counter, array>>, staging) EXCEPT !.to = to]>>

Bind(item, array, counter, staging, boxed) ==
  <<[Ins("bind", item, <<>>, <<counter, array>>, staging) EXCEPT !.spare = boxed]>>

Step(item, counter) == <<Ins("step", item, <<>>, <<counter>>, counter)>>

(* The first i of a list, without the labels. *)
Unlabelled(code) ==
  LET upto[i \in 0..Len(code)] ==
        IF i = 0 THEN <<>>
        ELSE IF code[i].op = "label" THEN upto[i - 1] ELSE Append(upto[i - 1], code[i])
  IN upto

(* The assembler, or the C compiler, puts an address for each label. *)
Assembled(code) ==
  LET address(to) ==
        LET place == CHOOSE i \in 1..Len(code) : code[i].op = "label" /\ code[i].to = to
        IN 1 + Len(Unlabelled(code)[place])
      jumps == {"jz", "jnz", "jump", "until"}
      linked(ins) == IF ins.op \in jumps THEN [ins EXCEPT !.n = address(ins.to)] ELSE ins
      whole == Unlabelled(code)[Len(code)]
  IN [i \in 1..Len(whole) |-> linked(whole[i])]
=============================================================================
