------------------------------ MODULE AsmFrame ------------------------------
(***************************************************************************)
(* The frame of a function in assembly (emit_asm.c, open_frame): where the *)
(* prologue's one "sub" puts the caller's destination, the locals, their   *)
(* bound bits, the scratch slots and the outgoing arguments.  Offsets are  *)
(* from %rbp, except for the outgoing arguments', which are from %rsp.     *)
(***************************************************************************)
EXTENDS Integers

CONSTANTS
  HD_VALUE_SIZE,
  HD_MIN_ARGS      \* the most arguments any of the runtime's functions takes

ASSUME SizeAssumption == HD_VALUE_SIZE \in Nat /\ HD_VALUE_SIZE >= 8 /\ HD_VALUE_SIZE % 8 = 0
ASSUME ArgsAssumption == HD_MIN_ARGS \in Nat

max_int(left, right) == IF left > right THEN left ELSE right

align_up(value, alignment) ==
  IF value % alignment = 0 THEN value ELSE value + (alignment - (value % alignment))

(* A frame is its counts of variables, scratch slots and arguments. *)
Frames == [slots : Nat, scratch : Nat, max_args : Nat]

sret_off == -8
locals_base(frame) == sret_off - frame.slots * HD_VALUE_SIZE
bound_base(frame) == locals_base(frame) - frame.slots * 8
scratch_base(frame) == bound_base(frame) - frame.scratch * HD_VALUE_SIZE

frame_size(frame) ==
  align_up(-scratch_base(frame), 16) + align_up(32 + max_int(0, frame.max_args - 4) * 8, 16)

loc_local(frame, slot) == locals_base(frame) + slot * HD_VALUE_SIZE
loc_bound_local(frame, slot) == bound_base(frame) + slot * 8
loc_scratch(frame, index) == scratch_base(frame) + index * HD_VALUE_SIZE

(* The i-th argument of a call, counted from 0, whether in a register (its *)
(* home space) or beyond them.                                             *)
outgoing(frame, i) == 8 * i - frame_size(frame)
=============================================================================
