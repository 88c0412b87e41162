---------------------------- MODULE EmittedProofs ----------------------------
(***************************************************************************)
(* What every body's emitted code satisfies, whichever statements it has.  *)
(*                                                                         *)
(* Code is a function of a tree's nodes: what a node's is follows from     *)
(* what its parts' is (the Is lemmas), so what is claimed of a node's code *)
(* may be assumed of its parts' (Induction).  Claimed are the scratch      *)
(* slots it uses (AsmUsing) or the elements of call sites' arrays          *)
(* (CUsing), how many arguments a call in it passes, and that it is        *)
(* emitted for the node's own items.  The walks that count slots,          *)
(* arguments and sites ahead of the one that emits give a node at least as *)
(* much as its code uses.                                                  *)
(***************************************************************************)
EXTENDS Emitted, WellFoundedInduction, SequenceTheorems, TLAPS

(* Slots of one size, one after another. *)
LEMMA SlotsApart ==
  ASSUME NEW a \in Nat, NEW b \in Nat, NEW s \in Nat, a < b
  PROVE  a * s + s <= b * s
<1>1. PICK d \in Nat : b = a + 1 + d
  BY SMT
<1>2. b * s = a * s + s + d * s
  BY <1>1, SMT
<1>3. d * s \in Nat
  BY SMT
<1> QED
  BY <1>2, <1>3, SMT

LEMMA AlignUp ==
  ASSUME NEW v \in Nat
  PROVE  /\ align_up(v, 16) \in Nat
         /\ align_up(v, 16) >= v
         /\ align_up(v, 16) % 16 = 0
BY SMT DEF align_up

-----------------------------------------------------------------------------
(* The parts of a frame *)

Area(kind, index, offset, size) ==
  [kind |-> kind, index |-> index, offset |-> offset, size |-> size]

Sret == {Area("sret", 0, sret_off, 8)}

Locals(frame) ==
  {Area("local", i, loc_local(frame, i), HD_VALUE_SIZE) : i \in 0..frame.slots - 1}

Bounds(frame) == {Area("bound", i, loc_bound_local(frame, i), 8) : i \in 0..frame.slots - 1}

ScratchSlots(frame) ==
  {Area("scratch", i, loc_scratch(frame, i), HD_VALUE_SIZE) : i \in 0..frame.scratch - 1}

(* The registers' home space is there even if fewer arguments are passed.  *)
ArgumentSlots(frame) ==
  {Area("argument", i, outgoing(frame, i), 8) : i \in 0..max_int(4, frame.max_args) - 1}

Areas(frame) ==
  Sret \cup Locals(frame) \cup Bounds(frame) \cup ScratchSlots(frame) \cup ArgumentSlots(frame)

Within(part, low, high) == low <= part.offset /\ part.offset + part.size <= high

Apart(p, q) == p.offset + p.size <= q.offset \/ q.offset + q.size <= p.offset

(* What the prologue's one "sub" makes room for. *)
LEMMA Bases ==
  ASSUME NEW frame \in Frames
  PROVE  /\ locals_base(frame) \in Int /\ bound_base(frame) \in Int
         /\ scratch_base(frame) \in Int /\ frame_size(frame) \in Nat
         /\ locals_base(frame) <= sret_off
         /\ bound_base(frame) <= locals_base(frame)
         /\ scratch_base(frame) <= bound_base(frame)
         /\ 8 * max_int(4, frame.max_args) - frame_size(frame) <= scratch_base(frame)
         /\ frame_size(frame) % 16 = 0
<1> DEFINE room == 32 + max_int(0, frame.max_args - 4) * 8
<1>1. /\ frame.slots \in Nat /\ frame.scratch \in Nat /\ frame.max_args \in Nat
      /\ HD_VALUE_SIZE \in Nat
  BY SizeAssumption DEF Frames
<1>2. frame.slots * HD_VALUE_SIZE \in Nat /\ frame.scratch * HD_VALUE_SIZE \in Nat
  BY <1>1, SMT
<1>3. /\ locals_base(frame) \in Int /\ bound_base(frame) \in Int
      /\ scratch_base(frame) \in Int /\ -scratch_base(frame) \in Nat
      /\ locals_base(frame) <= sret_off
      /\ bound_base(frame) <= locals_base(frame)
      /\ scratch_base(frame) <= bound_base(frame)
  BY <1>1, <1>2, SMT DEF locals_base, bound_base, scratch_base, sret_off
<1>4. room \in Nat /\ room = 8 * max_int(4, frame.max_args)
  BY <1>1, SMT DEF max_int
<1>5. /\ align_up(-scratch_base(frame), 16) \in Nat
      /\ align_up(-scratch_base(frame), 16) >= -scratch_base(frame)
      /\ align_up(-scratch_base(frame), 16) % 16 = 0
  BY <1>3, AlignUp
<1>6. align_up(room, 16) \in Nat /\ align_up(room, 16) >= room /\ align_up(room, 16) % 16 = 0
  BY <1>4, AlignUp
<1>7. frame_size(frame) = align_up(-scratch_base(frame), 16) + align_up(room, 16)
  BY DEF frame_size
<1> QED
  BY <1>3, <1>4, <1>5, <1>6, <1>7, SMT

(* A table of n slots of one size from a base up. *)
LEMMA InTable ==
  ASSUME NEW base \in Int, NEW size \in Nat, NEW n \in Nat, NEW i \in 0..n - 1
  PROVE  /\ i * size \in Nat /\ n * size \in Nat
         /\ base <= base + i * size
         /\ base + i * size + size <= base + n * size
<1>1. i \in Nat /\ i < n
  BY SMT
<1>2. i * size \in Nat /\ n * size \in Nat
  BY <1>1, SMT
<1>3. i * size + size <= n * size
  BY <1>1, SlotsApart
<1> QED
  BY <1>2, <1>3, SMT

LEMMA TableApart ==
  ASSUME NEW base \in Int, NEW size \in Nat, NEW i \in Nat, NEW j \in Nat, i # j
  PROVE  \/ base + i * size + size <= base + j * size
         \/ base + j * size + size <= base + i * size
<1>1. i * size \in Nat /\ j * size \in Nat
  BY SMT
<1>2. CASE i < j
  BY <1>1, <1>2, SlotsApart, SMT
<1>3. CASE j < i
  BY <1>1, <1>3, SlotsApart, SMT
<1> QED
  BY <1>2, <1>3, SMT

(* Each kind of part keeps to its own region of the frame. *)
LEMMA Regions ==
  ASSUME NEW frame \in Frames, NEW p \in Areas(frame)
  PROVE  /\ p.offset \in Int /\ p.size \in Nat
         /\ p \in Sret => Within(p, sret_off, 0)
         /\ p \in Locals(frame) => Within(p, locals_base(frame), sret_off)
         /\ p \in Bounds(frame) => Within(p, bound_base(frame), locals_base(frame))
         /\ p \in ScratchSlots(frame) => Within(p, scratch_base(frame), bound_base(frame))
         /\ p \in ArgumentSlots(frame) => Within(p, -frame_size(frame), scratch_base(frame))
<1> DEFINE n == max_int(4, frame.max_args)
<1>1. /\ frame.slots \in Nat /\ frame.scratch \in Nat /\ frame.max_args \in Nat
      /\ HD_VALUE_SIZE \in Nat /\ n \in Nat
  BY SizeAssumption, SMT DEF Frames, max_int
<1>2. CASE p \in Sret
  <2>1. p.offset = -8 /\ p.size = 8 /\ p.kind = "sret"
    BY <1>2 DEF Sret, Area, sret_off
  <2>2. p \notin Locals(frame) /\ p \notin Bounds(frame) /\ p \notin ScratchSlots(frame)
        /\ p \notin ArgumentSlots(frame)
    BY <2>1 DEF Locals, Bounds, ScratchSlots, ArgumentSlots, Area
  <2> QED
    BY <2>1, <2>2, SMT DEF Within, sret_off
<1>3. CASE p \in Locals(frame)
  <2>1. PICK i \in 0..frame.slots - 1 : p = Area("local", i, loc_local(frame, i), HD_VALUE_SIZE)
    BY <1>3 DEF Locals
  <2>2. p.offset = loc_local(frame, i) /\ p.size = HD_VALUE_SIZE /\ p.kind = "local"
    BY <2>1 DEF Area
  <2>3. p \notin Sret /\ p \notin Bounds(frame) /\ p \notin ScratchSlots(frame)
        /\ p \notin ArgumentSlots(frame)
    BY <2>2 DEF Sret, Bounds, ScratchSlots, ArgumentSlots, Area
  <2>4. loc_local(frame, i) = locals_base(frame) + i * HD_VALUE_SIZE
    BY DEF loc_local
  <2>5. /\ i * HD_VALUE_SIZE \in Nat
        /\ locals_base(frame) <= loc_local(frame, i)
        /\ loc_local(frame, i) + HD_VALUE_SIZE <= locals_base(frame) + frame.slots * HD_VALUE_SIZE
    BY <1>1, <2>4, Bases, InTable
  <2>6. frame.slots * HD_VALUE_SIZE \in Nat
        /\ locals_base(frame) + frame.slots * HD_VALUE_SIZE = sret_off
    BY <1>1, SMT DEF locals_base, sret_off
  <2> QED
    BY <1>1, <2>2, <2>3, <2>4, <2>5, <2>6, Bases, SMT DEF Within
<1>4. CASE p \in Bounds(frame)
  <2>1. PICK i \in 0..frame.slots - 1 : p = Area("bound", i, loc_bound_local(frame, i), 8)
    BY <1>4 DEF Bounds
  <2>2. p.offset = loc_bound_local(frame, i) /\ p.size = 8 /\ p.kind = "bound"
    BY <2>1 DEF Area
  <2>3. p \notin Sret /\ p \notin Locals(frame) /\ p \notin ScratchSlots(frame)
        /\ p \notin ArgumentSlots(frame)
    BY <2>2 DEF Sret, Locals, ScratchSlots, ArgumentSlots, Area
  <2>4. /\ loc_bound_local(frame, i) \in Int
        /\ bound_base(frame) <= loc_bound_local(frame, i)
        /\ loc_bound_local(frame, i) + 8 <= locals_base(frame)
    <3>1. bound_base(frame) + frame.slots * 8 = locals_base(frame)
      BY <1>1, Bases, SMT DEF bound_base
    <3> QED
      BY <1>1, <3>1, Bases, SMT DEF loc_bound_local
  <2> QED
    BY <2>2, <2>3, <2>4 DEF Within
<1>5. CASE p \in ScratchSlots(frame)
  <2>1. PICK i \in 0..frame.scratch - 1 :
          p = Area("scratch", i, loc_scratch(frame, i), HD_VALUE_SIZE)
    BY <1>5 DEF ScratchSlots
  <2>2. p.offset = loc_scratch(frame, i) /\ p.size = HD_VALUE_SIZE /\ p.kind = "scratch"
    BY <2>1 DEF Area
  <2>3. p \notin Sret /\ p \notin Locals(frame) /\ p \notin Bounds(frame)
        /\ p \notin ArgumentSlots(frame)
    BY <2>2 DEF Sret, Locals, Bounds, ArgumentSlots, Area
  <2>4. loc_scratch(frame, i) = scratch_base(frame) + i * HD_VALUE_SIZE
    BY DEF loc_scratch
  <2>5. /\ i * HD_VALUE_SIZE \in Nat
        /\ scratch_base(frame) <= loc_scratch(frame, i)
        /\ loc_scratch(frame, i) + HD_VALUE_SIZE
             <= scratch_base(frame) + frame.scratch * HD_VALUE_SIZE
    BY <1>1, <2>4, Bases, InTable
  <2>6. frame.scratch * HD_VALUE_SIZE \in Nat
        /\ scratch_base(frame) + frame.scratch * HD_VALUE_SIZE = bound_base(frame)
    BY <1>1, Bases, SMT DEF scratch_base
  <2> QED
    BY <1>1, <2>2, <2>3, <2>4, <2>5, <2>6, Bases, SMT DEF Within
<1>6. CASE p \in ArgumentSlots(frame)
  <2>1. PICK i \in 0..n - 1 : p = Area("argument", i, outgoing(frame, i), 8)
    BY <1>6 DEF ArgumentSlots
  <2>2. p.offset = outgoing(frame, i) /\ p.size = 8 /\ p.kind = "argument"
    BY <2>1 DEF Area
  <2>3. p \notin Sret /\ p \notin Locals(frame) /\ p \notin Bounds(frame)
        /\ p \notin ScratchSlots(frame)
    BY <2>2 DEF Sret, Locals, Bounds, ScratchSlots, Area
  <2>4. /\ outgoing(frame, i) \in Int
        /\ -frame_size(frame) <= outgoing(frame, i)
        /\ outgoing(frame, i) + 8 <= 8 * n - frame_size(frame)
    BY <1>1, Bases, SMT DEF outgoing
  <2>5. 8 * n - frame_size(frame) <= scratch_base(frame)
    BY Bases
  <2> QED
    BY <1>1, <2>2, <2>3, <2>4, <2>5, Bases, SMT DEF Within
<1> QED
  BY <1>2, <1>3, <1>4, <1>5, <1>6 DEF Areas

(* A part's kind says which table it is a slot of. *)
LEMMA AreaKinds ==
  ASSUME NEW frame \in Frames, NEW p \in Areas(frame)
  PROVE  /\ p \in Sret => p.kind = "sret"
         /\ p \in Locals(frame) => p.kind = "local"
         /\ p \in Bounds(frame) => p.kind = "bound"
         /\ p \in ScratchSlots(frame) => p.kind = "scratch"
         /\ p \in ArgumentSlots(frame) => p.kind = "argument"
<1>1. p \in Sret => p.kind = "sret"
  BY DEF Sret, Area
<1>2. p \in Locals(frame) => p.kind = "local"
  BY DEF Locals, Area
<1>3. p \in Bounds(frame) => p.kind = "bound"
  BY DEF Bounds, Area
<1>4. p \in ScratchSlots(frame) => p.kind = "scratch"
  BY DEF ScratchSlots, Area
<1>5. p \in ArgumentSlots(frame) => p.kind = "argument"
  BY DEF ArgumentSlots, Area
<1> QED
  BY <1>1, <1>2, <1>3, <1>4, <1>5

(* Two parts of one kind are slots of one table. *)
LEMMA SameKind ==
  ASSUME NEW frame \in Frames, NEW p \in Areas(frame), NEW q \in Areas(frame),
         p # q, p.kind = q.kind
  PROVE  Apart(p, q)
<1>1. HD_VALUE_SIZE \in Nat
  BY SizeAssumption
<1>2. ASSUME NEW base \in Int, NEW size \in Nat, NEW i \in Nat, NEW j \in Nat,
             p = Area(p.kind, i, base + i * size, size),
             q = Area(p.kind, j, base + j * size, size)
      PROVE  Apart(p, q)
  <2>1. i # j
    BY <1>2
  <2>2. /\ p.offset = base + i * size /\ p.size = size
        /\ q.offset = base + j * size /\ q.size = size
    BY <1>2 DEF Area
  <2> QED
    BY <2>1, <2>2, TableApart DEF Apart
<1>3. CASE p.kind = "sret"
  <2>1. p \in Sret /\ q \in Sret
    BY <1>3, AreaKinds DEF Areas
  <2> QED
    BY <2>1 DEF Sret
<1>4. CASE p.kind = "local"
  <2>1. p \in Locals(frame) /\ q \in Locals(frame)
    BY <1>4, AreaKinds DEF Areas
  <2>2. PICK i \in 0..frame.slots - 1 : p = Area("local", i, loc_local(frame, i), HD_VALUE_SIZE)
    BY <2>1 DEF Locals
  <2>3. PICK j \in 0..frame.slots - 1 : q = Area("local", j, loc_local(frame, j), HD_VALUE_SIZE)
    BY <2>1 DEF Locals
  <2>4. i \in Nat /\ j \in Nat
    BY SMT
  <2> QED
    BY <1>1, <1>2, <1>4, <2>2, <2>3, <2>4, Bases DEF loc_local
<1>5. CASE p.kind = "bound"
  <2>1. p \in Bounds(frame) /\ q \in Bounds(frame)
    BY <1>5, AreaKinds DEF Areas
  <2>2. PICK i \in 0..frame.slots - 1 : p = Area("bound", i, loc_bound_local(frame, i), 8)
    BY <2>1 DEF Bounds
  <2>3. PICK j \in 0..frame.slots - 1 : q = Area("bound", j, loc_bound_local(frame, j), 8)
    BY <2>1 DEF Bounds
  <2>4. i \in Nat /\ j \in Nat
    BY SMT
  <2> QED
    BY <1>2, <1>5, <2>2, <2>3, <2>4, Bases DEF loc_bound_local
<1>6. CASE p.kind = "scratch"
  <2>1. p \in ScratchSlots(frame) /\ q \in ScratchSlots(frame)
    BY <1>6, AreaKinds DEF Areas
  <2>2. PICK i \in 0..frame.scratch - 1 :
          p = Area("scratch", i, loc_scratch(frame, i), HD_VALUE_SIZE)
    BY <2>1 DEF ScratchSlots
  <2>3. PICK j \in 0..frame.scratch - 1 :
          q = Area("scratch", j, loc_scratch(frame, j), HD_VALUE_SIZE)
    BY <2>1 DEF ScratchSlots
  <2>4. i \in Nat /\ j \in Nat
    BY SMT
  <2> QED
    BY <1>1, <1>2, <1>6, <2>2, <2>3, <2>4, Bases DEF loc_scratch
<1>7. CASE p.kind = "argument"
  <2> DEFINE n == max_int(4, frame.max_args)
  <2>1. p \in ArgumentSlots(frame) /\ q \in ArgumentSlots(frame)
    BY <1>7, AreaKinds DEF Areas
  <2>2. PICK i \in 0..n - 1 : p = Area("argument", i, outgoing(frame, i), 8)
    BY <2>1 DEF ArgumentSlots
  <2>3. PICK j \in 0..n - 1 : q = Area("argument", j, outgoing(frame, j), 8)
    BY <2>1 DEF ArgumentSlots
  <2>4. n \in Nat
    BY SMT DEF Frames, max_int
  <2>5. i \in Nat /\ j \in Nat
    BY <2>4, SMT
  <2>6. /\ -frame_size(frame) \in Int
        /\ outgoing(frame, i) = -frame_size(frame) + i * 8
        /\ outgoing(frame, j) = -frame_size(frame) + j * 8
    BY <2>5, Bases, SMT DEF outgoing
  <2> QED
    BY <1>2, <1>7, <2>2, <2>3, <2>5, <2>6
<1> QED
  BY <1>3, <1>4, <1>5, <1>6, <1>7, AreaKinds DEF Areas

-----------------------------------------------------------------------------

(* However many variables, scratch slots and outgoing arguments a function *)
(* has, the caller's destination, the variables, their bound bits, the     *)
(* scratch slots and the arguments of the calls it makes share no byte of  *)
(* its frame (open_frame).                                                 *)
THEOREM PartsApart ==
  ASSUME NEW frame \in Frames, NEW p \in Areas(frame), NEW q \in Areas(frame), p # q
  PROVE  Apart(p, q)
<1>1. CASE p.kind = q.kind
  BY <1>1, SameKind
<1>2. CASE p.kind # q.kind
  <2>1. /\ ~(p \in Sret /\ q \in Sret)
        /\ ~(p \in Locals(frame) /\ q \in Locals(frame))
        /\ ~(p \in Bounds(frame) /\ q \in Bounds(frame))
        /\ ~(p \in ScratchSlots(frame) /\ q \in ScratchSlots(frame))
        /\ ~(p \in ArgumentSlots(frame) /\ q \in ArgumentSlots(frame))
    BY <1>2, AreaKinds
  <2>2. /\ p.offset \in Int /\ p.size \in Nat /\ q.offset \in Int /\ q.size \in Nat
    BY Regions
  <2>3. /\ p \in Sret => Within(p, sret_off, 0)
        /\ p \in Locals(frame) => Within(p, locals_base(frame), sret_off)
        /\ p \in Bounds(frame) => Within(p, bound_base(frame), locals_base(frame))
        /\ p \in ScratchSlots(frame) => Within(p, scratch_base(frame), bound_base(frame))
        /\ p \in ArgumentSlots(frame) => Within(p, -frame_size(frame), scratch_base(frame))
    BY Regions
  <2>4. /\ q \in Sret => Within(q, sret_off, 0)
        /\ q \in Locals(frame) => Within(q, locals_base(frame), sret_off)
        /\ q \in Bounds(frame) => Within(q, bound_base(frame), locals_base(frame))
        /\ q \in ScratchSlots(frame) => Within(q, scratch_base(frame), bound_base(frame))
        /\ q \in ArgumentSlots(frame) => Within(q, -frame_size(frame), scratch_base(frame))
    BY Regions
  <2> QED
    BY <2>1, <2>2, <2>3, <2>4, Bases, SMT DEF Areas, Within, Apart, sret_off
<1> QED
  BY <1>1, <1>2

(* The whole of it is within what the prologue's one "sub" takes, which    *)
(* keeps the stack a multiple of 16 bytes at every call.                   *)
THEOREM PartsInFrame ==
  ASSUME NEW frame \in Frames, NEW p \in Areas(frame)
  PROVE  Within(p, -frame_size(frame), 0) /\ frame_size(frame) % 16 = 0
<1>1. p.offset \in Int /\ p.size \in Nat
  BY Regions
<1>2. -frame_size(frame) <= scratch_base(frame)
  <2>1. max_int(4, frame.max_args) \in Nat
    BY SMT DEF Frames, max_int
  <2> QED
    BY <2>1, Bases, SMT
<1>3. \/ Within(p, sret_off, 0)
      \/ Within(p, locals_base(frame), sret_off)
      \/ Within(p, bound_base(frame), locals_base(frame))
      \/ Within(p, scratch_base(frame), bound_base(frame))
      \/ Within(p, -frame_size(frame), scratch_base(frame))
  BY Regions DEF Areas
<1> QED
  BY <1>1, <1>2, <1>3, Bases, SMT DEF Within, sret_off
(***************************************************************************)
(* Recursion and induction                                                 *)
(***************************************************************************)

(* A set of natural numbers has a least element. *)
LEMMA LeastOfNaturals ==
  ASSUME NEW S \in SUBSET Nat, S # {}
  PROVE \E n \in S : \A m \in S : n <= m
<1> DEFINE less == {p \in Nat \X Nat : p[1] < p[2]}
<1>1. IsWellFoundedOn(less, Nat)
  BY NatLessThanWellFounded, Zenon DEF OpToRel
<1>2. PICK n \in S : \A m \in S : <<m, n>> \notin less
  <2> HIDE DEF less
  <2> QED BY <1>1, WFMin
<1>3. \A m \in S : ~(m < n)
  BY <1>2
<1> QED BY <1>3

(* What holds of a number if it does of those before it holds of all. *)
LEMMA Induction ==
  ASSUME NEW N \in Nat, NEW S,
         \A n \in 1..N : (\A m \in 1..n - 1 : m \in S) => n \in S
  PROVE \A n \in 1..N : n \in S
<1>1. SUFFICES ASSUME 1..N \ S # {} PROVE FALSE
  OBVIOUS
<1>2. 1..N \ S \in SUBSET Nat
  OBVIOUS
<1>3. PICK n \in 1..N \ S : \A m \in 1..N \ S : n <= m
  BY <1>1, <1>2, LeastOfNaturals
<1>4. \A m \in 1..n - 1 : m \in S
  BY <1>3
<1> QED BY <1>3, <1>4

(* Counting up: there is one function that starts so and goes on so. *)
CountsUp(g, n, V, zero, step) ==
  g[0] = zero /\ \A i \in 1..n : g[i - 1] \in V => g[i] = step[i][g[i - 1]]

CountsUpAlone(f, N, V, zero, step) ==
  /\ CountsUp(f, N, V, zero, step)
  /\ \A n \in 0..N : \A g : CountsUp(g, n, V, zero, step) => g[n] = f[n]

LEMMA UptoRecursion ==
  ASSUME NEW N \in Nat, NEW V, NEW zero \in V, NEW step \in [1..N -> [V -> V]]
  PROVE \E f \in [0..N -> V] : CountsUpAlone(f, N, V, zero, step)
<1> DEFINE Is(f, k) == f[0] = zero /\ \A i \in 1..k : f[i] = step[i][f[i - 1]]
           S == {k \in Nat : \E f \in [0..k -> V] : Is(f, k)}
<1>1. 0 \in S
  <2>1. [i \in 0..0 |-> zero] \in [0..0 -> V] /\ Is([i \in 0..0 |-> zero], 0)
    OBVIOUS
  <2> QED BY <2>1
<1>2. \A n \in 1..N : n \in S
  <2>1. ASSUME NEW n \in 1..N, \A m \in 1..n - 1 : m \in S PROVE n \in S
    <3>1. n - 1 \in S
      <4> HIDE DEF S
      <4>1. n = 1 \/ n - 1 \in 1..n - 1
        OBVIOUS
      <4> QED BY <1>1, <2>1, <4>1
    <3>2. PICK f \in [0..n - 1 -> V] : Is(f, n - 1)
      BY <3>1
    <3> DEFINE g == [i \in 0..n |-> IF i = n THEN step[n][f[n - 1]] ELSE f[i]]
    <3>3. g \in [0..n -> V]
      OBVIOUS
    <3>4. Is(g, n)
      <4>1. \A i \in 0..n - 1 : g[i] = f[i]
        OBVIOUS
      <4>2. g[n] = step[n][f[n - 1]]
        OBVIOUS
      <4> HIDE DEF g
      <4> QED BY <3>2, <4>1, <4>2
    <3> HIDE DEF g, Is
    <3> QED BY <3>3, <3>4
  <2> HIDE DEF S
  <2> QED BY <2>1, Induction
<1>3. PICK f \in [0..N -> V] : Is(f, N)
  <2>1. N \in S
    <3> HIDE DEF S
    <3>1. N = 0 \/ N \in 1..N
      OBVIOUS
    <3> QED BY <1>1, <1>2, <3>1
  <2> QED BY <2>1
<1>4. ASSUME NEW j \in 0..N, NEW g, CountsUp(g, j, V, zero, step) PROVE g[j] = f[j]
  <2> DEFINE T == {i \in 0..j : g[i] = f[i]}
  <2>1. 0 \in T
    BY <1>3, <1>4 DEF CountsUp
  <2>2. ASSUME NEW n \in 1..j, \A m \in 1..n - 1 : m \in T PROVE n \in T
    <3>1. n - 1 \in T
      BY <2>1, <2>2
    <3>2. g[n - 1] = f[n - 1] /\ f[n - 1] \in V
      BY <3>1
    <3> QED BY <1>3, <1>4, <3>2 DEF CountsUp
  <2>3. \A n \in 1..j : n \in T
    <3>1. j \in Nat
      OBVIOUS
    <3> HIDE DEF T
    <3> QED BY <2>2, <3>1, Induction
  <2> QED BY <2>1, <2>3
<1>5. CountsUp(f, N, V, zero, step)
  BY <1>3 DEF CountsUp
<1> QED BY <1>4, <1>5 DEF CountsUpAlone

(* Parts are nodes before the node that they are parts of. *)
LEMMA PartsBefore ==
  ASSUME NEW tree, TreeOK(tree), NEW n \in 1..Len(tree)
  PROVE /\ Len(tree) \in Nat /\ Len(tree[n].kids) \in Nat
        /\ \A i \in 1..Len(tree[n].kids) : tree[n].kids[i] \in 1..n - 1
BY DEF TreeOK, NodeOK

LEMMA PartsOf ==
  ASSUME NEW tree, TreeOK(tree), NEW n \in 1..Len(tree), NEW f, NEW V, \A m \in 1..n - 1 :
      f[m] \in V
  PROVE Parts(tree[n], f) \in Seq(V) /\ Len(Parts(tree[n], f)) = Len(tree[n].kids)
BY PartsBefore DEF Parts

LEMMA SameParts ==
  ASSUME NEW tree, TreeOK(tree), NEW n \in 1..Len(tree), NEW f, NEW g,
         \A m \in 1..n - 1 : f[m] = g[m]
  PROVE Parts(tree[n], f) = Parts(tree[n], g)
BY PartsBefore DEF Parts

(* Going up a tree: there is one function that gives each node a value     *)
(* from those of its parts.                                                *)
GoesUp(g, tree, V, step) ==
  \A n \in 1..Len(tree) : Parts(tree[n], g) \in Seq(V) => g[n] = step[n][Parts(tree[n], g)]

GoesUpAlone(f, tree, V, step) ==
  /\ GoesUp(f, tree, V, step)
  /\ \A g : GoesUp(g, tree, V, step) => \A n \in 1..Len(tree) : g[n] = f[n]

LEMMA TreeRecursion ==
  ASSUME NEW tree, TreeOK(tree), NEW V, NEW step \in [1..Len(tree) -> [Seq(V) -> V]]
  PROVE \E f \in [1..Len(tree) -> V] : GoesUpAlone(f, tree, V, step)
<1> DEFINE N == Len(tree)
           Is(f, k) == \A i \in 1..k : f[i] = step[i][Parts(tree[i], f)]
           S == {k \in Nat : \E f \in [1..k -> V] : Is(f, k)}
<1>0. N \in Nat \ {0}
  BY DEF TreeOK
<1>1. 0 \in S
  <2>1. [i \in 1..0 |-> 0] \in [1..0 -> V] /\ Is([i \in 1..0 |-> 0], 0)
    OBVIOUS
  <2> QED BY <2>1
<1>2. \A n \in 1..N : n \in S
  <2>1. ASSUME NEW n \in 1..N, \A m \in 1..n - 1 : m \in S PROVE n \in S
    <3>1. n - 1 \in S
      <4> HIDE DEF S
      <4>1. n = 1 \/ n - 1 \in 1..n - 1
        OBVIOUS
      <4> QED BY <1>1, <2>1, <4>1
    <3>2. PICK f \in [1..n - 1 -> V] : Is(f, n - 1)
      BY <3>1
    <3> DEFINE g == [i \in 1..n |-> IF i = n THEN step[n][Parts(tree[n], f)] ELSE f[i]]
    <3>3. Parts(tree[n], f) \in Seq(V)
      <4>1. \A m \in 1..n - 1 : f[m] \in V
        OBVIOUS
      <4> QED BY <4>1, PartsOf
    <3>4. g \in [1..n -> V]
      BY <3>3
    <3>5. \A i \in 1..n - 1 : g[i] = f[i]
      OBVIOUS
    <3>6. g[n] = step[n][Parts(tree[n], f)]
      OBVIOUS
    <3>7. ASSUME NEW i \in 1..n PROVE Parts(tree[i], g) = Parts(tree[i], f)
      <4>1. i \in 1..Len(tree)
        BY <1>0
      <4>2. \A m \in 1..i - 1 : g[m] = f[m]
        <5> HIDE DEF g
        <5> QED BY <3>5
      <4>3. TreeOK(tree)
        OBVIOUS
      <4> HIDE DEF g, N, Is, S, TreeOK
      <4>4. Len(tree[i].kids) \in Nat /\ \A k \in 1..Len(tree[i].kids) : tree[i].kids[k] \in 1..i - 1
        BY <4>1, <4>3, PartsBefore
      <4>5. \A k \in 1..Len(tree[i].kids) : g[tree[i].kids[k]] = f[tree[i].kids[k]]
        BY <4>2, <4>4
      <4> QED BY <4>5 DEF Parts
    <3>8. Is(g, n)
      <4> HIDE DEF g
      <4> QED BY <3>2, <3>5, <3>6, <3>7
    <3> HIDE DEF g, Is
    <3> QED BY <3>4, <3>8
  <2> HIDE DEF S
  <2> QED BY <1>0, <2>1, Induction
<1>3. PICK f \in [1..N -> V] : Is(f, N)
  BY <1>0, <1>2
<1>s. \A n \in 1..N : \A a, b :
        (\A m \in 1..n - 1 : a[m] = b[m]) => Parts(tree[n], a) = Parts(tree[n], b)
  BY SameParts
<1>4. ASSUME NEW g, GoesUp(g, tree, V, step), NEW j \in 1..N PROVE g[j] = f[j]
  <2> DEFINE T == {i \in 1..N : g[i] = f[i]}
  <2>1. ASSUME NEW n \in 1..N, \A m \in 1..n - 1 : m \in T PROVE n \in T
    <3>1. \A m \in 1..n - 1 : g[m] = f[m] /\ f[m] \in V
      BY <2>1
    <3>2. Parts(tree[n], g) = Parts(tree[n], f)
      BY <1>s, <3>1
    <3>3. Parts(tree[n], f) \in Seq(V)
      BY <3>1, PartsOf
    <3> QED BY <1>3, <1>4, <3>2, <3>3 DEF GoesUp
  <2>2. \A n \in 1..N : n \in T
    <3> HIDE DEF T
    <3> QED BY <1>0, <2>1, Induction
  <2> QED BY <2>2
<1>5. GoesUp(f, tree, V, step)
  BY <1>3 DEF GoesUp
<1> QED BY <1>4, <1>5 DEF GoesUpAlone

-----------------------------------------------------------------------------
(* Sums, joined lists, and the most of some counts, one more at a time. *)

LEMMA TotalUpto ==
  ASSUME NEW N \in Nat, NEW numbers, \A i \in 1..N : numbers[i] \in Nat
  PROVE /\ Total(numbers, 0) = 0
        /\ \A n \in 0..N : Total(numbers, n) \in Nat
        /\ \A n \in 1..N : Total(numbers, n) = Total(numbers, n - 1) + numbers[n]
<1> DEFINE step == [i \in 1..N |-> [v \in Nat |-> v + numbers[i]]]
<1>1. step \in [1..N -> [Nat -> Nat]]
  OBVIOUS
<1>z. 0 \in Nat
  OBVIOUS
<1>2. PICK f \in [0..N -> Nat] : CountsUpAlone(f, N, Nat, 0, step)
  <2> HIDE DEF step
  <2> QED BY <1>1, <1>z, UptoRecursion
<1>0. f[0] = 0
  BY <1>2 DEF CountsUpAlone, CountsUp
<1>3. \A i \in 1..N : f[i - 1] \in Nat /\ f[i] = f[i - 1] + numbers[i]
  <2>1. TAKE i \in 1..N
  <2>2. f[i - 1] \in Nat
    OBVIOUS
  <2>3. f[i] = step[i][f[i - 1]]
    <3> HIDE DEF step
    <3> QED BY <1>2, <2>2 DEF CountsUpAlone, CountsUp
  <2>4. step[i][f[i - 1]] = f[i - 1] + numbers[i]
    BY <2>2
  <2> QED BY <2>2, <2>3, <2>4
<1>4. ASSUME NEW n \in 0..N PROVE Total(numbers, n) = f[n]
  <2> DEFINE Is(u) == u = [i \in 0..n |-> IF i = 0 THEN 0 ELSE u[i - 1] + numbers[i]]
             h == CHOOSE u : Is(u)
  <2>1. Is([i \in 0..n |-> f[i]])
    <3>1. \A i \in 0..n :
            f[i] = IF i = 0 THEN 0 ELSE [j \in 0..n |-> f[j]][i - 1] + numbers[i]
      BY <1>0, <1>3
    <3> QED BY <3>1
  <2>2. Is(h)
    <3> HIDE DEF Is
    <3> QED BY <2>1
  <2>3. CountsUp(h, n, Nat, 0, step)
    <3>1. \A i \in 1..n : h[i] = h[i - 1] + numbers[i]
      <4> HIDE DEF h
      <4> QED BY <2>2
    <3> HIDE DEF h
    <3> QED BY <2>2, <3>1 DEF CountsUp
  <2>4. h[n] = f[n]
    <3> HIDE DEF h, step
    <3> QED BY <1>2, <2>3 DEF CountsUpAlone
  <2> QED BY <2>4 DEF Total
<1> QED BY <1>0, <1>3, <1>4

LEMMA MostUpto ==
  ASSUME NEW N \in Nat, NEW counts, \A i \in 1..N : counts[i] \in Nat
  PROVE /\ Most(counts, N) \in Nat
        /\ \A i \in 1..N : counts[i] <= Most(counts, N)
<1> DEFINE step == [i \in 1..N |-> [v \in Nat |-> max_int(v, counts[i])]]
<1>1. step \in [1..N -> [Nat -> Nat]]
  BY DEF max_int
<1>z. 0 \in Nat
  OBVIOUS
<1>2. PICK f \in [0..N -> Nat] : CountsUpAlone(f, N, Nat, 0, step)
  <2> HIDE DEF step
  <2> QED BY <1>1, <1>z, UptoRecursion
<1>0. f[0] = 0
  BY <1>2 DEF CountsUpAlone, CountsUp
<1>3. \A i \in 1..N : f[i - 1] \in Nat /\ f[i] = max_int(f[i - 1], counts[i])
  <2>1. TAKE i \in 1..N
  <2>2. f[i - 1] \in Nat
    OBVIOUS
  <2>3. f[i] = step[i][f[i - 1]]
    <3> HIDE DEF step
    <3> QED BY <1>2, <2>2 DEF CountsUpAlone, CountsUp
  <2>4. step[i][f[i - 1]] = max_int(f[i - 1], counts[i])
    BY <2>2
  <2> QED BY <2>2, <2>3, <2>4
<1>4. Most(counts, N) = f[N]
  <2> DEFINE Is(u) == u = [i \in 0..N |-> IF i = 0 THEN 0 ELSE max_int(u[i - 1], counts[i])]
             h == CHOOSE u : Is(u)
  <2>1. Is(f)
    <3>1. \A i \in 0..N : f[i] = IF i = 0 THEN 0 ELSE max_int(f[i - 1], counts[i])
      BY <1>0, <1>3
    <3> QED BY <3>1
  <2>2. Is(h)
    <3> HIDE DEF Is
    <3> QED BY <2>1
  <2>3. CountsUp(h, N, Nat, 0, step)
    <3>1. \A i \in 1..N : h[i] = max_int(h[i - 1], counts[i])
      <4> HIDE DEF h
      <4> QED BY <2>2
    <3> HIDE DEF h
    <3> QED BY <2>2, <3>1 DEF CountsUp
  <2>4. h[N] = f[N]
    <3> HIDE DEF h, step
    <3> QED BY <1>2, <2>3 DEF CountsUpAlone
  <2> QED BY <2>4 DEF Most
<1> DEFINE T == {n \in 1..N : \A i \in 1..n : counts[i] <= f[n]}
<1>5. ASSUME NEW n \in 1..N, \A m \in 1..n - 1 : m \in T PROVE n \in T
  <2>1. counts[n] <= f[n] /\ f[n - 1] <= f[n] /\ f[n - 1] \in Nat /\ f[n] \in Nat
    BY <1>3 DEF max_int
  <2>2. \A i \in 1..n - 1 : counts[i] <= f[n - 1]
    BY <1>5
  <2> QED BY <2>1, <2>2
<1>6. \A n \in 1..N : n \in T
  <2> HIDE DEF T
  <2> QED BY <1>5, Induction
<1> QED BY <1>4, <1>6

LEMMA JoinedUpto ==
  ASSUME NEW N \in Nat, NEW S, NEW pieces, \A i \in 1..N : pieces[i] \in Seq(S)
  PROVE /\ Joined(pieces, 0) = <<>>
        /\ \A n \in 0..N : Joined(pieces, n) \in Seq(S)
        /\ \A n \in 1..N : Joined(pieces, n) = Joined(pieces, n - 1) \o pieces[n]
<1> DEFINE step == [i \in 1..N |-> [v \in Seq(S) |-> v \o pieces[i]]]
<1>1. step \in [1..N -> [Seq(S) -> Seq(S)]]
  OBVIOUS
<1>z. <<>> \in Seq(S)
  OBVIOUS
<1>2. PICK f \in [0..N -> Seq(S)] : CountsUpAlone(f, N, Seq(S), <<>>, step)
  <2> HIDE DEF step
  <2> QED BY <1>1, <1>z, UptoRecursion
<1>0. f[0] = <<>>
  BY <1>2 DEF CountsUpAlone, CountsUp
<1>3. \A i \in 1..N : f[i - 1] \in Seq(S) /\ f[i] = f[i - 1] \o pieces[i]
  <2>1. TAKE i \in 1..N
  <2>2. f[i - 1] \in Seq(S)
    OBVIOUS
  <2>3. f[i] = step[i][f[i - 1]]
    <3> HIDE DEF step
    <3> QED BY <1>2, <2>2 DEF CountsUpAlone, CountsUp
  <2>4. step[i][f[i - 1]] = f[i - 1] \o pieces[i]
    BY <2>2
  <2> QED BY <2>2, <2>3, <2>4
<1>4. ASSUME NEW n \in 0..N PROVE Joined(pieces, n) = f[n]
  <2> DEFINE Is(u) == u = [i \in 0..n |-> IF i = 0 THEN <<>> ELSE u[i - 1] \o pieces[i]]
             h == CHOOSE u : Is(u)
  <2>1. Is([i \in 0..n |-> f[i]])
    <3>1. ASSUME NEW i \in 0..n
          PROVE f[i] = IF i = 0 THEN <<>> ELSE [j \in 0..n |-> f[j]][i - 1] \o pieces[i]
      <4>1. CASE i = 0
        BY <4>1, <1>0
      <4>2. CASE i # 0
        <5>1. i - 1 \in 0..n /\ i \in 1..N
          BY <4>2
        <5>2. [j \in 0..n |-> f[j]][i - 1] = f[i - 1]
          BY <5>1
        <5> QED BY <4>2, <5>1, <5>2, <1>3
      <4> QED BY <4>1, <4>2
    <3> QED BY <3>1
  <2>2. Is(h)
    <3> HIDE DEF Is
    <3> QED BY <2>1
  <2>3. CountsUp(h, n, Seq(S), <<>>, step)
    <3>1. ASSUME NEW i \in 1..n PROVE h[i] = h[i - 1] \o pieces[i]
      <4>1. i \in 0..n /\ i # 0
        OBVIOUS
      <4> HIDE DEF h
      <4> QED BY <2>2, <4>1, Zenon
    <3> HIDE DEF h
    <3> QED BY <2>2, <3>1 DEF CountsUp
  <2>4. h[n] = f[n]
    <3> HIDE DEF h, step
    <3> QED BY <1>2, <2>3 DEF CountsUpAlone
  <2> QED BY <2>4 DEF Joined
<1>5. ASSUME NEW n \in 1..N PROVE Joined(pieces, n) = Joined(pieces, n - 1) \o pieces[n]
  <2>1. n \in 0..N /\ n - 1 \in 0..N
    OBVIOUS
  <2>2. Joined(pieces, n) = f[n] /\ Joined(pieces, n - 1) = f[n - 1]
    BY <1>4, <2>1
  <2> QED BY <1>3, <2>2
<1>6. \A n \in 0..N : Joined(pieces, n) \in Seq(S)
  BY <1>4
<1>7. Joined(pieces, 0) = <<>>
  BY <1>0, <1>4
<1> QED BY <1>5, <1>6, <1>7

(* No part is longer than what is before it and itself. *)
LEMMA TotalGrows ==
  ASSUME NEW N \in Nat, NEW numbers, \A i \in 1..N : numbers[i] \in Nat
  PROVE \A n \in 0..N : \A m \in 0..n : Total(numbers, m) <= Total(numbers, n)
<1> DEFINE T == {n \in 1..N : \A m \in 0..n : Total(numbers, m) <= Total(numbers, n)}
<1>1. ASSUME NEW n \in 1..N, \A m \in 1..n - 1 : m \in T PROVE n \in T
  <2>1. \A m \in 0..n : Total(numbers, m) \in Nat
    BY TotalUpto
  <2>2. Total(numbers, n) = Total(numbers, n - 1) + numbers[n] /\ numbers[n] \in Nat
    BY TotalUpto
  <2>3. \A m \in 0..n - 1 : Total(numbers, m) <= Total(numbers, n - 1)
    <3>1. CASE n = 1
      BY <3>1, <2>1
    <3>2. CASE n # 1
      BY <3>2, <1>1
    <3> QED BY <3>1, <3>2
  <2> QED BY <2>1, <2>2, <2>3
<1>2. \A n \in 1..N : n \in T
  <2> HIDE DEF T
  <2> QED BY <1>1, Induction
<1>3. Total(numbers, 0) <= Total(numbers, 0)
  BY TotalUpto
<1> QED BY <1>2, <1>3

-----------------------------------------------------------------------------
(* What each walk over a tree says of a node. *)

(* Items. *)
LEMMA SizeIs ==
  ASSUME NEW tree, TreeOK(tree)
  PROVE /\ \A n \in 1..Len(tree) : Size(tree)[n] \in Nat
        /\ \A n \in 1..Len(tree) :
             Size(tree)[n] =
                 Own(tree[n].kind) + Total(Parts(tree[n], Size(tree)), Len(tree[n].kids))
<1> DEFINE Body(n, known) == Own(tree[n].kind) + Total(known, Len(tree[n].kids))
           step == [n \in 1..Len(tree) |-> [known \in Seq(Nat) |->
                      IF Len(known) = Len(tree[n].kids) THEN Body(n, known) ELSE 0]]
           Is(u) == u = [n \in 1..Len(tree) |-> Body(n, Parts(tree[n], u))]
           h == CHOOSE u : Is(u)
<1>1. ASSUME NEW n \in 1..Len(tree), NEW known \in Seq(Nat), Len(known) = Len(tree[n].kids)
      PROVE Body(n, known) \in Nat
  <2>1. Len(known) \in Nat /\ \A i \in 1..Len(tree[n].kids) : known[i] \in Nat
    BY <1>1
  <2>2. Own(tree[n].kind) \in Nat
    BY DEF Own
  <2>3. Total(known, Len(tree[n].kids)) \in Nat
    <3>1. Len(tree[n].kids) \in Nat /\ Len(tree[n].kids) \in 0..Len(tree[n].kids)
      BY PartsBefore
    <3> QED BY <2>1, <3>1, TotalUpto
  <2> QED BY <2>2, <2>3
<1>z. 0 \in Nat
  OBVIOUS
<1>2. step \in [1..Len(tree) -> [Seq(Nat) -> Nat]]
  <2> HIDE DEF Body
  <2> QED BY <1>1, <1>z
<1>3. PICK f \in [1..Len(tree) -> Nat] : GoesUpAlone(f, tree, Nat, step)
  <2> HIDE DEF step
  <2> QED BY <1>2, TreeRecursion
<1>4. ASSUME NEW n \in 1..Len(tree), NEW g, Parts(tree[n], g) \in Seq(Nat)
      PROVE step[n][Parts(tree[n], g)] = Body(n, Parts(tree[n], g))
  <2>1. Len(Parts(tree[n], g)) = Len(tree[n].kids)
    BY PartsBefore DEF Parts
  <2> HIDE DEF Body
  <2> QED BY <1>4, <2>1
<1>5. Is(f)
  <2>1. ASSUME NEW n \in 1..Len(tree) PROVE f[n] = Body(n, Parts(tree[n], f))
    <3>1. \A m \in 1..n - 1 : f[m] \in Nat
      BY PartsBefore
    <3>2. Parts(tree[n], f) \in Seq(Nat)
      BY <3>1, PartsOf
    <3> HIDE DEF Body, step
    <3> QED BY <1>3, <1>4, <3>2 DEF GoesUpAlone, GoesUp
  <2> HIDE DEF Body
  <2> QED BY <2>1
<1>6. Is(h)
  <2> HIDE DEF Is
  <2> QED BY <1>5
<1>7. \A n \in 1..Len(tree) : h[n] = Body(n, Parts(tree[n], h))
  <2> HIDE DEF Body, h
  <2> QED BY <1>6
<1>8. \A n \in 1..Len(tree) : h[n] \in Nat
  <2>1. GoesUp(h, tree, Nat, step)
    <3> HIDE DEF Body, h, step
    <3> QED BY <1>4, <1>7 DEF GoesUp
  <2>2. \A n \in 1..Len(tree) : h[n] = f[n]
    <3> HIDE DEF h, step
    <3> QED BY <1>3, <2>1 DEF GoesUpAlone
  <2> HIDE DEF h
  <2> QED BY <2>2
<1>9. Size(tree) = h
  BY DEF Size
<1> HIDE DEF h
<1> QED BY <1>7, <1>8, <1>9

(* Only a kind's own parts matter to what it holds. *)
LEMMA HeldIs ==
  ASSUME NEW tree, TreeOK(tree), NEW m \in 1..Len(tree), NEW i \in 1..Len(tree[m].kids)
  PROVE Held(tree[m], i) \in Nat
<1>1. Len(tree[m].kids) \in Nat
  BY PartsBefore
<1> QED BY <1>1 DEF Held

(* Scratch slots. *)
LEMMA ScratchIs ==
  ASSUME NEW tree, TreeOK(tree)
  PROVE /\ \A n \in 1..Len(tree) : scratch_for(tree)[n] \in Nat
        /\ \A n \in 1..Len(tree) :
             scratch_for(tree)[n] = Most([i \in 1..Len(tree[n].kids) |->
                 Held(tree[n], i) + Parts(tree[n], scratch_for(tree))[i]], Len(tree[n].kids))
<1> DEFINE Body(n, known) ==
             Most([i \in 1..Len(tree[n].kids) |-> Held(tree[n], i) + known[i]], Len(tree[n].kids))
           step == [n \in 1..Len(tree) |-> [known \in Seq(Nat) |->
                      IF Len(known) = Len(tree[n].kids) THEN Body(n, known) ELSE 0]]
           Is(u) == u = [n \in 1..Len(tree) |-> Body(n, Parts(tree[n], u))]
           h == CHOOSE u : Is(u)
<1>1. ASSUME NEW n \in 1..Len(tree), NEW known \in Seq(Nat), Len(known) = Len(tree[n].kids)
      PROVE Body(n, known) \in Nat
  <2>1. Len(known) \in Nat /\ \A i \in 1..Len(tree[n].kids) : known[i] \in Nat
    BY <1>1
  <2>2. Len(tree[n].kids) \in Nat
    BY PartsBefore
  <2>3. \A i \in 1..Len(tree[n].kids) : Held(tree[n], i) + known[i] \in Nat
    <3>1. TAKE i \in 1..Len(tree[n].kids)
    <3>2. Held(tree[n], i) \in Nat /\ known[i] \in Nat
      BY <2>1, HeldIs
    <3> QED BY <3>2
  <2> QED BY <2>2, <2>3, MostUpto
<1>z. 0 \in Nat
  OBVIOUS
<1>2. step \in [1..Len(tree) -> [Seq(Nat) -> Nat]]
  <2> HIDE DEF Body
  <2> QED BY <1>1, <1>z
<1>3. PICK f \in [1..Len(tree) -> Nat] : GoesUpAlone(f, tree, Nat, step)
  <2> HIDE DEF step
  <2> QED BY <1>2, TreeRecursion
<1>4. ASSUME NEW n \in 1..Len(tree), NEW g, Parts(tree[n], g) \in Seq(Nat)
      PROVE step[n][Parts(tree[n], g)] = Body(n, Parts(tree[n], g))
  <2>1. Len(Parts(tree[n], g)) = Len(tree[n].kids)
    BY PartsBefore DEF Parts
  <2> HIDE DEF Body
  <2> QED BY <1>4, <2>1
<1>5. Is(f)
  <2>1. ASSUME NEW n \in 1..Len(tree) PROVE f[n] = Body(n, Parts(tree[n], f))
    <3>1. \A m \in 1..n - 1 : f[m] \in Nat
      BY PartsBefore
    <3>2. Parts(tree[n], f) \in Seq(Nat)
      BY <3>1, PartsOf
    <3> HIDE DEF Body, step
    <3> QED BY <1>3, <1>4, <3>2 DEF GoesUpAlone, GoesUp
  <2> HIDE DEF Body
  <2> QED BY <2>1
<1>6. Is(h)
  <2> HIDE DEF Is
  <2> QED BY <1>5
<1>7. \A n \in 1..Len(tree) : h[n] = Body(n, Parts(tree[n], h))
  <2> HIDE DEF Body, h
  <2> QED BY <1>6
<1>8. \A n \in 1..Len(tree) : h[n] \in Nat
  <2>1. GoesUp(h, tree, Nat, step)
    <3> HIDE DEF Body, h, step
    <3> QED BY <1>4, <1>7 DEF GoesUp
  <2>2. \A n \in 1..Len(tree) : h[n] = f[n]
    <3> HIDE DEF h, step
    <3> QED BY <1>3, <2>1 DEF GoesUpAlone
  <2> HIDE DEF h
  <2> QED BY <2>2
<1>9. scratch_for(tree) = h
  BY DEF scratch_for
<1> HIDE DEF h
<1> QED BY <1>7, <1>8, <1>9

(* Outgoing arguments. *)
LEMMA ArgsIs ==
  ASSUME NEW tree, TreeOK(tree)
  PROVE /\ \A n \in 1..Len(tree) : max_args(tree)[n] \in Nat
        /\ \A n \in 1..Len(tree) :
             max_args(tree)[n] = max_int(Arguments(tree[n]),
                 Most(Parts(tree[n], max_args(tree)), Len(tree[n].kids)))
<1> DEFINE Body(n, known) == max_int(Arguments(tree[n]), Most(known, Len(tree[n].kids)))
           step == [n \in 1..Len(tree) |-> [known \in Seq(Nat) |->
                      IF Len(known) = Len(tree[n].kids) THEN Body(n, known) ELSE 0]]
           Is(u) == u = [n \in 1..Len(tree) |-> Body(n, Parts(tree[n], u))]
           h == CHOOSE u : Is(u)
<1>1. ASSUME NEW n \in 1..Len(tree), NEW known \in Seq(Nat), Len(known) = Len(tree[n].kids)
      PROVE Body(n, known) \in Nat
  <2>1. Len(known) \in Nat /\ \A i \in 1..Len(tree[n].kids) : known[i] \in Nat
    BY <1>1
  <2>2. Len(tree[n].kids) \in Nat
    BY PartsBefore
  <2>3. Arguments(tree[n]) \in Nat
    BY <2>2 DEF Arguments, Calls
  <2>4. Most(known, Len(tree[n].kids)) \in Nat
    BY <2>1, <2>2, MostUpto
  <2> QED BY <2>3, <2>4 DEF max_int
<1>z. 0 \in Nat
  OBVIOUS
<1>2. step \in [1..Len(tree) -> [Seq(Nat) -> Nat]]
  <2> HIDE DEF Body
  <2> QED BY <1>1, <1>z
<1>3. PICK f \in [1..Len(tree) -> Nat] : GoesUpAlone(f, tree, Nat, step)
  <2> HIDE DEF step
  <2> QED BY <1>2, TreeRecursion
<1>4. ASSUME NEW n \in 1..Len(tree), NEW g, Parts(tree[n], g) \in Seq(Nat)
      PROVE step[n][Parts(tree[n], g)] = Body(n, Parts(tree[n], g))
  <2>1. Len(Parts(tree[n], g)) = Len(tree[n].kids)
    BY PartsBefore DEF Parts
  <2> HIDE DEF Body
  <2> QED BY <1>4, <2>1
<1>5. Is(f)
  <2>1. ASSUME NEW n \in 1..Len(tree) PROVE f[n] = Body(n, Parts(tree[n], f))
    <3>1. \A m \in 1..n - 1 : f[m] \in Nat
      BY PartsBefore
    <3>2. Parts(tree[n], f) \in Seq(Nat)
      BY <3>1, PartsOf
    <3> HIDE DEF Body, step
    <3> QED BY <1>3, <1>4, <3>2 DEF GoesUpAlone, GoesUp
  <2> HIDE DEF Body
  <2> QED BY <2>1
<1>6. Is(h)
  <2> HIDE DEF Is
  <2> QED BY <1>5
<1>7. \A n \in 1..Len(tree) : h[n] = Body(n, Parts(tree[n], h))
  <2> HIDE DEF Body, h
  <2> QED BY <1>6
<1>8. \A n \in 1..Len(tree) : h[n] \in Nat
  <2>1. GoesUp(h, tree, Nat, step)
    <3> HIDE DEF Body, h, step
    <3> QED BY <1>4, <1>7 DEF GoesUp
  <2>2. \A n \in 1..Len(tree) : h[n] = f[n]
    <3> HIDE DEF h, step
    <3> QED BY <1>3, <2>1 DEF GoesUpAlone
  <2> HIDE DEF h
  <2> QED BY <2>2
<1>9. max_args(tree) = h
  BY DEF max_args
<1> HIDE DEF h
<1> QED BY <1>7, <1>8, <1>9

(* Call sites as they are counted. *)
LEMMA CountedIs ==
  ASSUME NEW tree, TreeOK(tree)
  PROVE /\ \A n \in 1..Len(tree) : Counted(tree)[n] \in Seq(Nat)
        /\ \A n \in 1..Len(tree) :
             Counted(tree)[n] =
                 Takes(tree[n]) \o Joined(Parts(tree[n], Counted(tree)), Len(tree[n].kids))
<1> DEFINE Body(n, known) == Takes(tree[n]) \o Joined(known, Len(tree[n].kids))
           step == [n \in 1..Len(tree) |-> [known \in Seq(Seq(Nat)) |->
                      IF Len(known) = Len(tree[n].kids) THEN Body(n, known) ELSE <<>>]]
           Is(u) == u = [n \in 1..Len(tree) |-> Body(n, Parts(tree[n], u))]
           h == CHOOSE u : Is(u)
<1>1. ASSUME NEW n \in 1..Len(tree), NEW known \in Seq(Seq(Nat)), Len(known) = Len(tree[n].kids)
      PROVE Body(n, known) \in Seq(Nat)
  <2>1. Len(known) \in Nat /\ \A i \in 1..Len(tree[n].kids) : known[i] \in Seq(Nat)
    BY <1>1
  <2>2. Len(tree[n].kids) \in Nat
    BY PartsBefore
  <2>3. Takes(tree[n]) \in Seq(Nat)
    BY <2>2 DEF Takes, Calls
  <2>4. Joined(known, Len(tree[n].kids)) \in Seq(Nat)
    <3>1. Len(tree[n].kids) \in 0..Len(tree[n].kids)
      BY <2>2
    <3> QED BY <2>1, <2>2, <3>1, JoinedUpto
  <2> QED BY <2>3, <2>4
<1>z. <<>> \in Seq(Nat)
  OBVIOUS
<1>2. step \in [1..Len(tree) -> [Seq(Seq(Nat)) -> Seq(Nat)]]
  <2> HIDE DEF Body
  <2> QED BY <1>1, <1>z
<1>3. PICK f \in [1..Len(tree) -> Seq(Nat)] : GoesUpAlone(f, tree, Seq(Nat), step)
  <2> HIDE DEF step
  <2> QED BY <1>2, TreeRecursion
<1>4. ASSUME NEW n \in 1..Len(tree), NEW g, Parts(tree[n], g) \in Seq(Seq(Nat))
      PROVE step[n][Parts(tree[n], g)] = Body(n, Parts(tree[n], g))
  <2>1. Len(Parts(tree[n], g)) = Len(tree[n].kids)
    BY PartsBefore DEF Parts
  <2> HIDE DEF Body
  <2> QED BY <1>4, <2>1
<1>5. Is(f)
  <2>1. ASSUME NEW n \in 1..Len(tree) PROVE f[n] = Body(n, Parts(tree[n], f))
    <3>1. \A m \in 1..n - 1 : f[m] \in Seq(Nat)
      BY PartsBefore
    <3>2. Parts(tree[n], f) \in Seq(Seq(Nat))
      BY <3>1, PartsOf
    <3> HIDE DEF Body, step
    <3> QED BY <1>3, <1>4, <3>2 DEF GoesUpAlone, GoesUp
  <2> HIDE DEF Body
  <2> QED BY <2>1
<1>6. Is(h)
  <2> HIDE DEF Is
  <2> QED BY <1>5
<1>7. \A n \in 1..Len(tree) : h[n] = Body(n, Parts(tree[n], h))
  <2> HIDE DEF Body, h
  <2> QED BY <1>6
<1>8. \A n \in 1..Len(tree) : h[n] \in Seq(Nat)
  <2>1. GoesUp(h, tree, Seq(Nat), step)
    <3> HIDE DEF Body, h, step
    <3> QED BY <1>4, <1>7 DEF GoesUp
  <2>2. \A n \in 1..Len(tree) : h[n] = f[n]
    <3> HIDE DEF h, step
    <3> QED BY <1>3, <2>1 DEF GoesUpAlone
  <2> HIDE DEF h
  <2> QED BY <2>2
<1>9. Counted(tree) = h
  BY DEF Counted, Gathered
<1> HIDE DEF h
<1> QED BY <1>7, <1>8, <1>9

(* Call sites as they are used. *)
LEMMA UsedIs ==
  ASSUME NEW tree, TreeOK(tree)
  PROVE /\ \A n \in 1..Len(tree) : Used(tree)[n] \in Seq(Nat)
        /\ \A n \in 1..Len(tree) :
             Used(tree)[n] = Takes(tree[n])
               \o (IF Refuses(tree[n]) THEN <<>>
                    ELSE Joined(Parts(tree[n], Used(tree)), Len(tree[n].kids)))
<1> DEFINE Body(n, known) == Takes(tree[n])
               \o (IF Refuses(tree[n]) THEN <<>> ELSE Joined(known, Len(tree[n].kids)))
           step == [n \in 1..Len(tree) |-> [known \in Seq(Seq(Nat)) |->
                      IF Len(known) = Len(tree[n].kids) THEN Body(n, known) ELSE <<>>]]
           Is(u) == u = [n \in 1..Len(tree) |-> Body(n, Parts(tree[n], u))]
           h == CHOOSE u : Is(u)
<1>1. ASSUME NEW n \in 1..Len(tree), NEW known \in Seq(Seq(Nat)), Len(known) = Len(tree[n].kids)
      PROVE Body(n, known) \in Seq(Nat)
  <2>1. Len(known) \in Nat /\ \A i \in 1..Len(tree[n].kids) : known[i] \in Seq(Nat)
    BY <1>1
  <2>2. Len(tree[n].kids) \in Nat
    BY PartsBefore
  <2>3. Takes(tree[n]) \in Seq(Nat)
    BY <2>2 DEF Takes, Calls
  <2>4. Joined(known, Len(tree[n].kids)) \in Seq(Nat)
    <3>1. Len(tree[n].kids) \in 0..Len(tree[n].kids)
      BY <2>2
    <3> QED BY <2>1, <2>2, <3>1, JoinedUpto
  <2> QED BY <2>3, <2>4
<1>z. <<>> \in Seq(Nat)
  OBVIOUS
<1>2. step \in [1..Len(tree) -> [Seq(Seq(Nat)) -> Seq(Nat)]]
  <2> HIDE DEF Body
  <2> QED BY <1>1, <1>z
<1>3. PICK f \in [1..Len(tree) -> Seq(Nat)] : GoesUpAlone(f, tree, Seq(Nat), step)
  <2> HIDE DEF step
  <2> QED BY <1>2, TreeRecursion
<1>4. ASSUME NEW n \in 1..Len(tree), NEW g, Parts(tree[n], g) \in Seq(Seq(Nat))
      PROVE step[n][Parts(tree[n], g)] = Body(n, Parts(tree[n], g))
  <2>1. Len(Parts(tree[n], g)) = Len(tree[n].kids)
    BY PartsBefore DEF Parts
  <2> HIDE DEF Body
  <2> QED BY <1>4, <2>1
<1>5. Is(f)
  <2>1. ASSUME NEW n \in 1..Len(tree) PROVE f[n] = Body(n, Parts(tree[n], f))
    <3>1. \A m \in 1..n - 1 : f[m] \in Seq(Nat)
      BY PartsBefore
    <3>2. Parts(tree[n], f) \in Seq(Seq(Nat))
      BY <3>1, PartsOf
    <3> HIDE DEF Body, step
    <3> QED BY <1>3, <1>4, <3>2 DEF GoesUpAlone, GoesUp
  <2> HIDE DEF Body
  <2> QED BY <2>1
<1>6. Is(h)
  <2> HIDE DEF Is
  <2> QED BY <1>5
<1>7. \A n \in 1..Len(tree) : h[n] = Body(n, Parts(tree[n], h))
  <2> HIDE DEF Body, h
  <2> QED BY <1>6
<1>8. \A n \in 1..Len(tree) : h[n] \in Seq(Nat)
  <2>1. GoesUp(h, tree, Seq(Nat), step)
    <3> HIDE DEF Body, h, step
    <3> QED BY <1>4, <1>7 DEF GoesUp
  <2>2. \A n \in 1..Len(tree) : h[n] = f[n]
    <3> HIDE DEF h, step
    <3> QED BY <1>3, <2>1 DEF GoesUpAlone
  <2> HIDE DEF h
  <2> QED BY <2>2
<1>9. Used(tree) = h
  BY DEF Used, Gathered
<1> HIDE DEF h
<1> QED BY <1>7, <1>8, <1>9

(* Where a node of some kinds is. *)
LEMMA HoldsIs ==
  ASSUME NEW tree, TreeOK(tree), NEW kinds
  PROVE /\ \A n \in 1..Len(tree) : Holds(tree, kinds)[n] \in BOOLEAN
        /\ \A n \in 1..Len(tree) :
             Holds(tree, kinds)[n] = (tree[n].kind \in kinds \/ \E i \in 1..Len(tree[n].kids) :
                 Parts(tree[n], Holds(tree, kinds))[i])
<1> DEFINE Body(n, known) == (tree[n].kind \in kinds \/ \E i \in 1..Len(tree[n].kids) : known[i])
           step == [n \in 1..Len(tree) |-> [known \in Seq(BOOLEAN) |->
                      IF Len(known) = Len(tree[n].kids) THEN Body(n, known) ELSE FALSE]]
           Is(u) == u = [n \in 1..Len(tree) |-> Body(n, Parts(tree[n], u))]
           h == CHOOSE u : Is(u)
<1>1. ASSUME NEW n \in 1..Len(tree), NEW known \in Seq(BOOLEAN), Len(known) = Len(tree[n].kids)
      PROVE Body(n, known) \in BOOLEAN
  OBVIOUS
<1>z. FALSE \in BOOLEAN
  OBVIOUS
<1>2. step \in [1..Len(tree) -> [Seq(BOOLEAN) -> BOOLEAN]]
  <2> HIDE DEF Body
  <2> QED BY <1>1, <1>z
<1>3. PICK f \in [1..Len(tree) -> BOOLEAN] : GoesUpAlone(f, tree, BOOLEAN, step)
  <2> HIDE DEF step
  <2> QED BY <1>2, TreeRecursion
<1>4. ASSUME NEW n \in 1..Len(tree), NEW g, Parts(tree[n], g) \in Seq(BOOLEAN)
      PROVE step[n][Parts(tree[n], g)] = Body(n, Parts(tree[n], g))
  <2>1. Len(Parts(tree[n], g)) = Len(tree[n].kids)
    BY PartsBefore DEF Parts
  <2> HIDE DEF Body
  <2> QED BY <1>4, <2>1
<1>5. Is(f)
  <2>1. ASSUME NEW n \in 1..Len(tree) PROVE f[n] = Body(n, Parts(tree[n], f))
    <3>1. \A m \in 1..n - 1 : f[m] \in BOOLEAN
      BY PartsBefore
    <3>2. Parts(tree[n], f) \in Seq(BOOLEAN)
      BY <3>1, PartsOf
    <3> HIDE DEF Body, step
    <3> QED BY <1>3, <1>4, <3>2 DEF GoesUpAlone, GoesUp
  <2> HIDE DEF Body
  <2> QED BY <2>1
<1>6. Is(h)
  <2> HIDE DEF Is
  <2> QED BY <1>5
<1>7. \A n \in 1..Len(tree) : h[n] = Body(n, Parts(tree[n], h))
  <2> HIDE DEF Body, h
  <2> QED BY <1>6
<1>8. \A n \in 1..Len(tree) : h[n] \in BOOLEAN
  <2>1. GoesUp(h, tree, BOOLEAN, step)
    <3> HIDE DEF Body, h, step
    <3> QED BY <1>4, <1>7 DEF GoesUp
  <2>2. \A n \in 1..Len(tree) : h[n] = f[n]
    <3> HIDE DEF h, step
    <3> QED BY <1>3, <2>1 DEF GoesUpAlone
  <2> HIDE DEF h
  <2> QED BY <2>2
<1>9. Holds(tree, kinds) = h
  BY DEF Holds
<1> HIDE DEF h
<1> QED BY <1>7, <1>8, <1>9

(* Those that the C backend sees. *)
LEMMA StmtCallsIs ==
  ASSUME NEW tree, TreeOK(tree)
  PROVE /\ \A n \in 1..Len(tree) : stmt_calls(tree)[n] \in BOOLEAN
        /\ \A n \in 1..Len(tree) :
             stmt_calls(tree)[n] = (tree[n].kind = "main"
                \/ (tree[n].kind # "ternary" /\ \E i \in 1..Len(tree[n].kids) :
                     Parts(tree[n], stmt_calls(tree))[i]))
<1> DEFINE Body(n, known) == (tree[n].kind = "main"
                \/ (tree[n].kind # "ternary" /\ \E i \in 1..Len(tree[n].kids) : known[i]))
           step == [n \in 1..Len(tree) |-> [known \in Seq(BOOLEAN) |->
                      IF Len(known) = Len(tree[n].kids) THEN Body(n, known) ELSE FALSE]]
           Is(u) == u = [n \in 1..Len(tree) |-> Body(n, Parts(tree[n], u))]
           h == CHOOSE u : Is(u)
<1>1. ASSUME NEW n \in 1..Len(tree), NEW known \in Seq(BOOLEAN), Len(known) = Len(tree[n].kids)
      PROVE Body(n, known) \in BOOLEAN
  OBVIOUS
<1>z. FALSE \in BOOLEAN
  OBVIOUS
<1>2. step \in [1..Len(tree) -> [Seq(BOOLEAN) -> BOOLEAN]]
  <2> HIDE DEF Body
  <2> QED BY <1>1, <1>z
<1>3. PICK f \in [1..Len(tree) -> BOOLEAN] : GoesUpAlone(f, tree, BOOLEAN, step)
  <2> HIDE DEF step
  <2> QED BY <1>2, TreeRecursion
<1>4. ASSUME NEW n \in 1..Len(tree), NEW g, Parts(tree[n], g) \in Seq(BOOLEAN)
      PROVE step[n][Parts(tree[n], g)] = Body(n, Parts(tree[n], g))
  <2>1. Len(Parts(tree[n], g)) = Len(tree[n].kids)
    BY PartsBefore DEF Parts
  <2> HIDE DEF Body
  <2> QED BY <1>4, <2>1
<1>5. Is(f)
  <2>1. ASSUME NEW n \in 1..Len(tree) PROVE f[n] = Body(n, Parts(tree[n], f))
    <3>1. \A m \in 1..n - 1 : f[m] \in BOOLEAN
      BY PartsBefore
    <3>2. Parts(tree[n], f) \in Seq(BOOLEAN)
      BY <3>1, PartsOf
    <3> HIDE DEF Body, step
    <3> QED BY <1>3, <1>4, <3>2 DEF GoesUpAlone, GoesUp
  <2> HIDE DEF Body
  <2> QED BY <2>1
<1>6. Is(h)
  <2> HIDE DEF Is
  <2> QED BY <1>5
<1>7. \A n \in 1..Len(tree) : h[n] = Body(n, Parts(tree[n], h))
  <2> HIDE DEF Body, h
  <2> QED BY <1>6
<1>8. \A n \in 1..Len(tree) : h[n] \in BOOLEAN
  <2>1. GoesUp(h, tree, BOOLEAN, step)
    <3> HIDE DEF Body, h, step
    <3> QED BY <1>4, <1>7 DEF GoesUp
  <2>2. \A n \in 1..Len(tree) : h[n] = f[n]
    <3> HIDE DEF h, step
    <3> QED BY <1>3, <2>1 DEF GoesUpAlone
  <2> HIDE DEF h
  <2> QED BY <2>2
<1>9. stmt_calls(tree) = h
  BY Zenon DEF stmt_calls
<1> HIDE DEF h
<1> QED BY <1>7, <1>8, <1>9

(* A loop's own continue statements. *)
LEMMA OwnContinueIs ==
  ASSUME NEW tree, TreeOK(tree)
  PROVE /\ \A n \in 1..Len(tree) : has_own_continue(tree)[n] \in BOOLEAN
        /\ \A n \in 1..Len(tree) :
             has_own_continue(tree)[n] = (tree[n].kind = "continue"
                \/ (tree[n].kind \in {"block", "if"} /\ \E i \in 1..Len(tree[n].kids) :
                     Parts(tree[n], has_own_continue(tree))[i]))
<1> DEFINE Body(n, known) == (tree[n].kind = "continue"
                \/ (tree[n].kind \in {"block", "if"} /\ \E i \in 1..Len(tree[n].kids) : known[i]))
           step == [n \in 1..Len(tree) |-> [known \in Seq(BOOLEAN) |->
                      IF Len(known) = Len(tree[n].kids) THEN Body(n, known) ELSE FALSE]]
           Is(u) == u = [n \in 1..Len(tree) |-> Body(n, Parts(tree[n], u))]
           h == CHOOSE u : Is(u)
<1>1. ASSUME NEW n \in 1..Len(tree), NEW known \in Seq(BOOLEAN), Len(known) = Len(tree[n].kids)
      PROVE Body(n, known) \in BOOLEAN
  OBVIOUS
<1>z. FALSE \in BOOLEAN
  OBVIOUS
<1>2. step \in [1..Len(tree) -> [Seq(BOOLEAN) -> BOOLEAN]]
  <2> HIDE DEF Body
  <2> QED BY <1>1, <1>z
<1>3. PICK f \in [1..Len(tree) -> BOOLEAN] : GoesUpAlone(f, tree, BOOLEAN, step)
  <2> HIDE DEF step
  <2> QED BY <1>2, TreeRecursion
<1>4. ASSUME NEW n \in 1..Len(tree), NEW g, Parts(tree[n], g) \in Seq(BOOLEAN)
      PROVE step[n][Parts(tree[n], g)] = Body(n, Parts(tree[n], g))
  <2>1. Len(Parts(tree[n], g)) = Len(tree[n].kids)
    BY PartsBefore DEF Parts
  <2> HIDE DEF Body
  <2> QED BY <1>4, <2>1
<1>5. Is(f)
  <2>1. ASSUME NEW n \in 1..Len(tree) PROVE f[n] = Body(n, Parts(tree[n], f))
    <3>1. \A m \in 1..n - 1 : f[m] \in BOOLEAN
      BY PartsBefore
    <3>2. Parts(tree[n], f) \in Seq(BOOLEAN)
      BY <3>1, PartsOf
    <3> HIDE DEF Body, step
    <3> QED BY <1>3, <1>4, <3>2 DEF GoesUpAlone, GoesUp
  <2> HIDE DEF Body
  <2> QED BY <2>1
<1>6. Is(h)
  <2> HIDE DEF Is
  <2> QED BY <1>5
<1>7. \A n \in 1..Len(tree) : h[n] = Body(n, Parts(tree[n], h))
  <2> HIDE DEF Body, h
  <2> QED BY <1>6
<1>8. \A n \in 1..Len(tree) : h[n] \in BOOLEAN
  <2>1. GoesUp(h, tree, BOOLEAN, step)
    <3> HIDE DEF Body, h, step
    <3> QED BY <1>4, <1>7 DEF GoesUp
  <2>2. \A n \in 1..Len(tree) : h[n] = f[n]
    <3> HIDE DEF h, step
    <3> QED BY <1>3, <2>1 DEF GoesUpAlone
  <2> HIDE DEF h
  <2> QED BY <2>2
<1>9. has_own_continue(tree) = h
  BY DEF has_own_continue
<1> HIDE DEF h
<1> QED BY <1>7, <1>8, <1>9

-----------------------------------------------------------------------------
(* What is made of a node, from what is made of its parts. *)

(* Its items. *)
LEMMA ItemsIs ==
  ASSUME NEW tree, TreeOK(tree)
  PROVE \A n \in 1..Len(tree) :
          Items(tree)[n] =
            [at \in Nat |-> ItemsOf(tree[n].kind, Len(tree[n].kids), NodeOf(tree, n, at),
               [i \in 1..Len(tree[n].kids) |->
                   Parts(tree[n], Items(tree))[i][Place(tree, n, at, i)]])]
<1> DEFINE F(n, known) ==
            [at \in Nat |-> ItemsOf(tree[n].kind, Len(tree[n].kids), NodeOf(tree, n, at),
               [i \in 1..Len(tree[n].kids) |-> known[i][Place(tree, n, at, i)]])]
           Is(f, k) == f = [n \in 1..k |-> F(n, Parts(tree[n], f))]
           S == {k \in Nat : \E f : Is(f, k)}
<1>1. Len(tree) \in Nat \ {0}
  BY DEF TreeOK
<1>2. 0 \in S
  <2>1. Is([n \in 1..0 |-> 0], 0)
    OBVIOUS
  <2> HIDE DEF Is
  <2> QED BY <2>1
<1>3. ASSUME NEW k \in 1..Len(tree), \A m \in 1..k - 1 : m \in S PROVE k \in S
  <2>1. k - 1 \in S
    <3>1. k = 1 \/ k - 1 \in 1..k - 1
      OBVIOUS
    <3> HIDE DEF S
    <3> QED BY <1>2, <1>3, <3>1
  <2>2. PICK f : Is(f, k - 1)
    <3> HIDE DEF Is
    <3> QED BY <2>1
  <2> DEFINE g == [n \in 1..k |-> IF n < k THEN f[n] ELSE F(k, Parts(tree[k], f))]
  <2>3. ASSUME NEW n \in 1..k PROVE Parts(tree[n], g) = Parts(tree[n], f)
    <3>1. n \in 1..Len(tree) /\ \A m \in 1..n - 1 : g[m] = f[m]
      OBVIOUS
    <3> HIDE DEF g
    <3> QED BY <3>1, SameParts
  <2>4. ASSUME NEW n \in 1..k PROVE g[n] = F(n, Parts(tree[n], f))
    <3>1. CASE n = k
      <4> HIDE DEF F
      <4> QED BY <3>1
    <3>2. CASE n # k
      <4>1. n \in 1..k - 1 /\ n < k
        BY <3>2
      <4> HIDE DEF F
      <4> QED BY <4>1, <2>2
    <3> QED BY <3>1, <3>2
  <2>5. Is(g, k)
    <3>1. g = [n \in 1..k |-> g[n]]
      OBVIOUS
    <3> HIDE DEF g, F
    <3> QED BY <2>3, <2>4, <3>1
  <2> HIDE DEF Is
  <2> QED BY <2>5
<1>4. \A k \in 1..Len(tree) : k \in S
  <2> HIDE DEF S
  <2> QED BY <1>1, <1>3, Induction
<1>5. PICK f : Is(f, Len(tree))
  <2>1. Len(tree) \in S
    <3> HIDE DEF S
    <3> QED BY <1>1, <1>4
  <2> HIDE DEF Is
  <2> QED BY <2>1
<1>6. \E h : h = [n \in 1..Len(tree) |->
            [at \in Nat |-> ItemsOf(tree[n].kind, Len(tree[n].kids), NodeOf(tree, n, at),
               [i \in 1..Len(tree[n].kids) |-> Parts(tree[n], h)[i][Place(tree, n, at, i)]])]]
  BY <1>5, Zenon
<1>7. Items(tree) = [n \in 1..Len(tree) |->
            [at \in Nat |-> ItemsOf(tree[n].kind, Len(tree[n].kids), NodeOf(tree, n, at),
               [i \in 1..Len(tree[n].kids) |->
                   Parts(tree[n], Items(tree))[i][Place(tree, n, at, i)]])]]
  BY <1>6, Zenon DEF Items
<1> QED BY <1>7

(* An expression in assembly, *)
LEMMA ExprCodeIs ==
  ASSUME NEW tree, TreeOK(tree)
  PROVE \A n \in 1..Len(tree) :
          ExprCode(tree)[n] = [c \in ExprContexts |->
              emit_expr(tree, n, c, Parts(tree[n], ExprCode(tree)))]
<1> DEFINE F(n, known) == [c \in ExprContexts |-> emit_expr(tree, n, c, known)]
           Is(f, k) == f = [n \in 1..k |-> F(n, Parts(tree[n], f))]
           S == {k \in Nat : \E f : Is(f, k)}
<1>1. Len(tree) \in Nat \ {0}
  BY DEF TreeOK
<1>2. 0 \in S
  <2>1. Is([n \in 1..0 |-> 0], 0)
    OBVIOUS
  <2> HIDE DEF Is
  <2> QED BY <2>1
<1>3. ASSUME NEW k \in 1..Len(tree), \A m \in 1..k - 1 : m \in S PROVE k \in S
  <2>1. k - 1 \in S
    <3>1. k = 1 \/ k - 1 \in 1..k - 1
      OBVIOUS
    <3> HIDE DEF S
    <3> QED BY <1>2, <1>3, <3>1
  <2>2. PICK f : Is(f, k - 1)
    <3> HIDE DEF Is
    <3> QED BY <2>1
  <2> DEFINE g == [n \in 1..k |-> IF n < k THEN f[n] ELSE F(k, Parts(tree[k], f))]
  <2>3. ASSUME NEW n \in 1..k PROVE Parts(tree[n], g) = Parts(tree[n], f)
    <3>1. n \in 1..Len(tree) /\ \A m \in 1..n - 1 : g[m] = f[m]
      OBVIOUS
    <3> HIDE DEF g
    <3> QED BY <3>1, SameParts
  <2>4. ASSUME NEW n \in 1..k PROVE g[n] = F(n, Parts(tree[n], f))
    <3>1. CASE n = k
      <4> HIDE DEF F
      <4> QED BY <3>1
    <3>2. CASE n # k
      <4>1. n \in 1..k - 1 /\ n < k
        BY <3>2
      <4> HIDE DEF F
      <4> QED BY <4>1, <2>2
    <3> QED BY <3>1, <3>2
  <2>5. Is(g, k)
    <3>1. g = [n \in 1..k |-> g[n]]
      OBVIOUS
    <3> HIDE DEF g, F
    <3> QED BY <2>3, <2>4, <3>1
  <2> HIDE DEF Is
  <2> QED BY <2>5
<1>4. \A k \in 1..Len(tree) : k \in S
  <2> HIDE DEF S
  <2> QED BY <1>1, <1>3, Induction
<1>5. PICK f : Is(f, Len(tree))
  <2>1. Len(tree) \in S
    <3> HIDE DEF S
    <3> QED BY <1>1, <1>4
  <2> HIDE DEF Is
  <2> QED BY <2>1
<1>6. \E h : h = [n \in 1..Len(tree) |->
        [c \in ExprContexts |-> emit_expr(tree, n, c, Parts(tree[n], h))]]
  BY <1>5, Zenon
<1>7. ExprCode(tree) = [n \in 1..Len(tree) |->
        [c \in ExprContexts |-> emit_expr(tree, n, c, Parts(tree[n], ExprCode(tree)))]]
  BY <1>6, Zenon DEF ExprCode
<1> QED BY <1>7

(* a statement, *)
LEMMA StmtCodeIs ==
  ASSUME NEW tree, TreeOK(tree)
  PROVE \A n \in 1..Len(tree) :
          StmtCode(tree)[n] = [c \in StmtContexts |->
              emit_stmt(tree, n, c, Parts(tree[n], StmtCode(tree)))]
<1> DEFINE F(n, known) == [c \in StmtContexts |-> emit_stmt(tree, n, c, known)]
           Is(f, k) == f = [n \in 1..k |-> F(n, Parts(tree[n], f))]
           S == {k \in Nat : \E f : Is(f, k)}
<1>1. Len(tree) \in Nat \ {0}
  BY DEF TreeOK
<1>2. 0 \in S
  <2>1. Is([n \in 1..0 |-> 0], 0)
    OBVIOUS
  <2> HIDE DEF Is
  <2> QED BY <2>1
<1>3. ASSUME NEW k \in 1..Len(tree), \A m \in 1..k - 1 : m \in S PROVE k \in S
  <2>1. k - 1 \in S
    <3>1. k = 1 \/ k - 1 \in 1..k - 1
      OBVIOUS
    <3> HIDE DEF S
    <3> QED BY <1>2, <1>3, <3>1
  <2>2. PICK f : Is(f, k - 1)
    <3> HIDE DEF Is
    <3> QED BY <2>1
  <2> DEFINE g == [n \in 1..k |-> IF n < k THEN f[n] ELSE F(k, Parts(tree[k], f))]
  <2>3. ASSUME NEW n \in 1..k PROVE Parts(tree[n], g) = Parts(tree[n], f)
    <3>1. n \in 1..Len(tree) /\ \A m \in 1..n - 1 : g[m] = f[m]
      OBVIOUS
    <3> HIDE DEF g
    <3> QED BY <3>1, SameParts
  <2>4. ASSUME NEW n \in 1..k PROVE g[n] = F(n, Parts(tree[n], f))
    <3>1. CASE n = k
      <4> HIDE DEF F
      <4> QED BY <3>1
    <3>2. CASE n # k
      <4>1. n \in 1..k - 1 /\ n < k
        BY <3>2
      <4> HIDE DEF F
      <4> QED BY <4>1, <2>2
    <3> QED BY <3>1, <3>2
  <2>5. Is(g, k)
    <3>1. g = [n \in 1..k |-> g[n]]
      OBVIOUS
    <3> HIDE DEF g, F
    <3> QED BY <2>3, <2>4, <3>1
  <2> HIDE DEF Is
  <2> QED BY <2>5
<1>4. \A k \in 1..Len(tree) : k \in S
  <2> HIDE DEF S
  <2> QED BY <1>1, <1>3, Induction
<1>5. PICK f : Is(f, Len(tree))
  <2>1. Len(tree) \in S
    <3> HIDE DEF S
    <3> QED BY <1>1, <1>4
  <2> HIDE DEF Is
  <2> QED BY <2>1
<1>6. \E h : h = [n \in 1..Len(tree) |->
        [c \in StmtContexts |-> emit_stmt(tree, n, c, Parts(tree[n], h))]]
  BY <1>5, Zenon
<1>7. StmtCode(tree) = [n \in 1..Len(tree) |->
        [c \in StmtContexts |-> emit_stmt(tree, n, c, Parts(tree[n], StmtCode(tree)))]]
  BY <1>6, Zenon DEF StmtCode
<1> QED BY <1>7

(* an expression in C, *)
LEMMA ExpressionCodeIs ==
  ASSUME NEW tree, TreeOK(tree)
  PROVE \A n \in 1..Len(tree) :
          ExpressionCode(tree)[n] =
              [c \in ExpressionContexts |->
                  emit_expression(tree, n, c, Parts(tree[n], ExpressionCode(tree)))]
<1> DEFINE F(n, known) == [c \in ExpressionContexts |-> emit_expression(tree, n, c, known)]
           Is(f, k) == f = [n \in 1..k |-> F(n, Parts(tree[n], f))]
           S == {k \in Nat : \E f : Is(f, k)}
<1>1. Len(tree) \in Nat \ {0}
  BY DEF TreeOK
<1>2. 0 \in S
  <2>1. Is([n \in 1..0 |-> 0], 0)
    OBVIOUS
  <2> HIDE DEF Is
  <2> QED BY <2>1
<1>3. ASSUME NEW k \in 1..Len(tree), \A m \in 1..k - 1 : m \in S PROVE k \in S
  <2>1. k - 1 \in S
    <3>1. k = 1 \/ k - 1 \in 1..k - 1
      OBVIOUS
    <3> HIDE DEF S
    <3> QED BY <1>2, <1>3, <3>1
  <2>2. PICK f : Is(f, k - 1)
    <3> HIDE DEF Is
    <3> QED BY <2>1
  <2> DEFINE g == [n \in 1..k |-> IF n < k THEN f[n] ELSE F(k, Parts(tree[k], f))]
  <2>3. ASSUME NEW n \in 1..k PROVE Parts(tree[n], g) = Parts(tree[n], f)
    <3>1. n \in 1..Len(tree) /\ \A m \in 1..n - 1 : g[m] = f[m]
      OBVIOUS
    <3> HIDE DEF g
    <3> QED BY <3>1, SameParts
  <2>4. ASSUME NEW n \in 1..k PROVE g[n] = F(n, Parts(tree[n], f))
    <3>1. CASE n = k
      <4> HIDE DEF F
      <4> QED BY <3>1
    <3>2. CASE n # k
      <4>1. n \in 1..k - 1 /\ n < k
        BY <3>2
      <4> HIDE DEF F
      <4> QED BY <4>1, <2>2
    <3> QED BY <3>1, <3>2
  <2>5. Is(g, k)
    <3>1. g = [n \in 1..k |-> g[n]]
      OBVIOUS
    <3> HIDE DEF g, F
    <3> QED BY <2>3, <2>4, <3>1
  <2> HIDE DEF Is
  <2> QED BY <2>5
<1>4. \A k \in 1..Len(tree) : k \in S
  <2> HIDE DEF S
  <2> QED BY <1>1, <1>3, Induction
<1>5. PICK f : Is(f, Len(tree))
  <2>1. Len(tree) \in S
    <3> HIDE DEF S
    <3> QED BY <1>1, <1>4
  <2> HIDE DEF Is
  <2> QED BY <2>1
<1>6. \E h : h = [n \in 1..Len(tree) |->
        [c \in ExpressionContexts |-> emit_expression(tree, n, c, Parts(tree[n], h))]]
  BY <1>5, Zenon
<1>7. ExpressionCode(tree) =
        [n \in 1..Len(tree) |->
            [c \in ExpressionContexts |->
                emit_expression(tree, n, c, Parts(tree[n], ExpressionCode(tree)))]]
  BY <1>6, Zenon DEF ExpressionCode
<1> QED BY <1>7

(* and a statement. *)
LEMMA StatementCodeIs ==
  ASSUME NEW tree, TreeOK(tree)
  PROVE \A n \in 1..Len(tree) :
          StatementCode(tree)[n] =
              [c \in StatementContexts |->
                  emit_statement(tree, n, c, Parts(tree[n], StatementCode(tree)))]
<1> DEFINE F(n, known) == [c \in StatementContexts |-> emit_statement(tree, n, c, known)]
           Is(f, k) == f = [n \in 1..k |-> F(n, Parts(tree[n], f))]
           S == {k \in Nat : \E f : Is(f, k)}
<1>1. Len(tree) \in Nat \ {0}
  BY DEF TreeOK
<1>2. 0 \in S
  <2>1. Is([n \in 1..0 |-> 0], 0)
    OBVIOUS
  <2> HIDE DEF Is
  <2> QED BY <2>1
<1>3. ASSUME NEW k \in 1..Len(tree), \A m \in 1..k - 1 : m \in S PROVE k \in S
  <2>1. k - 1 \in S
    <3>1. k = 1 \/ k - 1 \in 1..k - 1
      OBVIOUS
    <3> HIDE DEF S
    <3> QED BY <1>2, <1>3, <3>1
  <2>2. PICK f : Is(f, k - 1)
    <3> HIDE DEF Is
    <3> QED BY <2>1
  <2> DEFINE g == [n \in 1..k |-> IF n < k THEN f[n] ELSE F(k, Parts(tree[k], f))]
  <2>3. ASSUME NEW n \in 1..k PROVE Parts(tree[n], g) = Parts(tree[n], f)
    <3>1. n \in 1..Len(tree) /\ \A m \in 1..n - 1 : g[m] = f[m]
      OBVIOUS
    <3> HIDE DEF g
    <3> QED BY <3>1, SameParts
  <2>4. ASSUME NEW n \in 1..k PROVE g[n] = F(n, Parts(tree[n], f))
    <3>1. CASE n = k
      <4> HIDE DEF F
      <4> QED BY <3>1
    <3>2. CASE n # k
      <4>1. n \in 1..k - 1 /\ n < k
        BY <3>2
      <4> HIDE DEF F
      <4> QED BY <4>1, <2>2
    <3> QED BY <3>1, <3>2
  <2>5. Is(g, k)
    <3>1. g = [n \in 1..k |-> g[n]]
      OBVIOUS
    <3> HIDE DEF g, F
    <3> QED BY <2>3, <2>4, <3>1
  <2> HIDE DEF Is
  <2> QED BY <2>5
<1>4. \A k \in 1..Len(tree) : k \in S
  <2> HIDE DEF S
  <2> QED BY <1>1, <1>3, Induction
<1>5. PICK f : Is(f, Len(tree))
  <2>1. Len(tree) \in S
    <3> HIDE DEF S
    <3> QED BY <1>1, <1>4
  <2> HIDE DEF Is
  <2> QED BY <2>1
<1>6. \E h : h = [n \in 1..Len(tree) |->
        [c \in StatementContexts |-> emit_statement(tree, n, c, Parts(tree[n], h))]]
  BY <1>5, Zenon
<1>7. StatementCode(tree) =
        [n \in 1..Len(tree) |->
            [c \in StatementContexts |->
                emit_statement(tree, n, c, Parts(tree[n], StatementCode(tree)))]]
  BY <1>6, Zenon DEF StatementCode
<1> QED BY <1>7

-----------------------------------------------------------------------------
(* Places *)

(* A node's items are its parts', each at its place, and its own: some     *)
(* before the part and the rest after it.                                  *)
LEMMA Placed ==
  ASSUME NEW tree, TreeOK(tree), NEW n \in 1..Len(tree), NEW at \in Nat
  PROVE /\ Size(tree)[n] \in Nat /\ Own(tree[n].kind) \in Nat
        /\ Own(tree[n].kind) <= Size(tree)[n]
        /\ \A i \in 1..Len(tree[n].kids) :
             /\ Place(tree, n, at, i) \in Nat /\ Size(tree)[tree[n].kids[i]] \in Nat
             /\ at + Before(tree[n].kind, i) <= Place(tree, n, at, i)
             /\ Before(tree[n].kind, i) \in Nat /\ Before(tree[n].kind, i) <= Own(tree[n].kind)
             /\ Place(tree, n, at, i) + Size(tree)[tree[n].kids[i]]
                  + (Own(tree[n].kind) - Before(tree[n].kind, i)) <= at + Size(tree)[n]
<1> DEFINE N == Len(tree[n].kids)
           sizes == Parts(tree[n], Size(tree))
           kind == tree[n].kind
<1>1. N \in Nat /\ \A i \in 1..N : tree[n].kids[i] \in 1..n - 1 /\ tree[n].kids[i] \in 1..Len(tree)
  BY PartsBefore
<1>2. \A i \in 1..N : sizes[i] \in Nat /\ sizes[i] = Size(tree)[tree[n].kids[i]]
  BY <1>1, SizeIs DEF Parts
<1>3. Size(tree)[n] \in Nat /\ Size(tree)[n] = Own(kind) + Total(sizes, N)
  BY SizeIs
<1>4. Own(kind) \in Nat
  BY DEF Own
<1>5. /\ \A i \in 0..N : Total(sizes, i) \in Nat /\ Total(sizes, i) <= Total(sizes, N)
      /\ \A i \in 1..N : Total(sizes, i) = Total(sizes, i - 1) + sizes[i]
  <2>1. N \in 0..N
    BY <1>1
  <2> HIDE DEF sizes, N
  <2> QED BY <1>1, <1>2, <2>1, TotalUpto, TotalGrows
<1>6. ASSUME NEW i \in 1..N PROVE Before(kind, i) \in Nat /\ Before(kind, i) <= Own(kind)
  <2>1. kind \in Expressions \cup Statements
        /\ (kind \notin {"array", "block"} \cup Calls => N = Arity(kind))
    BY DEF TreeOK, NodeOK
  <2> HIDE DEF N, kind
  <2>2. CASE kind \in {"and", "or"}
    BY <1>1, <2>1, <2>2 DEF Before, Own, Arity, Calls, Branches, Pairs, Jumps, Loops
  <2>3. CASE kind \in {"for", "while", "foreach", "minus"}
    BY <1>1, <2>1, <2>3 DEF Before, Own, Arity, Calls, Branches, Pairs, Jumps, Loops
  <2>4. CASE kind \in Branches
    BY <1>1, <2>1, <2>4 DEF Before, Own, Arity, Calls, Branches, Pairs, Jumps, Loops
  <2>5. CASE kind \notin {"and", "or", "for", "while", "foreach", "minus"} \cup Branches
    BY <1>4, <2>5 DEF Before
  <2> QED BY <2>2, <2>3, <2>4, <2>5
<1>7. \A i \in 1..N : Place(tree, n, at, i) = at + Before(kind, i) + Total(sizes, i - 1)
  BY DEF Place
<1>8. Own(kind) <= Size(tree)[n]
  <2>1. Total(sizes, N) \in Nat
    BY <1>1, <1>5
  <2> HIDE DEF sizes, N, kind
  <2> QED BY <1>3, <1>4, <2>1
<1>9. ASSUME NEW i \in 1..N
      PROVE /\ Place(tree, n, at, i) \in Nat /\ Size(tree)[tree[n].kids[i]] \in Nat
            /\ at + Before(kind, i) <= Place(tree, n, at, i)
            /\ Place(tree, n, at, i) + Size(tree)[tree[n].kids[i]]
                 + (Own(kind) - Before(kind, i)) <= at + Size(tree)[n]
  <2>1. /\ i - 1 \in 0..N /\ i \in 0..N
        /\ Total(sizes, i - 1) \in Nat /\ Total(sizes, i) \in Nat
        /\ Total(sizes, i) <= Total(sizes, N) /\ Total(sizes, N) \in Nat
        /\ Total(sizes, i) = Total(sizes, i - 1) + sizes[i]
    <3>1. i - 1 \in 0..N /\ i \in 0..N /\ N \in 0..N
      BY <1>1
    <3> HIDE DEF sizes, N
    <3> QED BY <3>1, <1>5
  <2>2. Place(tree, n, at, i) = at + Before(kind, i) + Total(sizes, i - 1)
    BY <1>7
  <2>3. /\ sizes[i] \in Nat /\ sizes[i] = Size(tree)[tree[n].kids[i]]
        /\ Before(kind, i) \in Nat /\ Before(kind, i) <= Own(kind)
    BY <1>2, <1>6
  <2>4. Size(tree)[n] = Own(kind) + Total(sizes, N) /\ Own(kind) \in Nat
    BY <1>3, <1>4
  <2> DEFINE p == Place(tree, n, at, i)
             b == Before(kind, i)
             own == Own(kind)
             t == Total(sizes, i - 1)
             u == Total(sizes, i)
             most == Total(sizes, N)
             s == Size(tree)[tree[n].kids[i]]
             size == Size(tree)[n]
  <2>5. /\ p = at + b + t /\ u = t + s /\ u <= most /\ b <= own /\ size = own + most
        /\ b \in Nat /\ own \in Nat /\ t \in Nat /\ u \in Nat /\ most \in Nat /\ s \in Nat
    <3> HIDE DEF sizes, N, kind
    <3> QED BY <2>1, <2>2, <2>3, <2>4
  <2>6. /\ p \in Nat /\ s \in Nat /\ at + b <= p /\ p + s + (own - b) <= at + size
    <3> HIDE DEF p, b, own, t, u, most, s, size
    <3> QED BY <2>5
  <2> QED BY <2>6
<1> QED BY <1>3, <1>4, <1>6, <1>8, <1>9

(* The item a construct is known by is one of its own. *)
LEMMA Known ==
  ASSUME NEW tree, TreeOK(tree), NEW n \in 1..Len(tree), NEW at \in Nat
  PROVE /\ NodeOf(tree, n, at) \in Nat
        /\ tree[n].kind # "block" => at <= Final(tree, n, at)
        /\ Final(tree, n, at) + 1 \in Nat /\ Final(tree, n, at) \in Int
        /\ tree[n].kind \in {"while", "foreach", "and", "or", "for"} \cup Branches =>
             NodeOf(tree, n, at) \in at..Final(tree, n, at)
        /\ tree[n].kind = "foreach" => NodeOf(tree, n, at) + 1 \in at..Final(tree, n, at)
        /\ tree[n].kind = "print" => Final(tree, n, at) - 1 \in at..Final(tree, n, at)
        /\ \A i \in 1..Len(tree[n].kids) :
             Before(tree[n].kind, i) > 0 =>
               Place(tree, n, at, i) - 1 \in at..Final(tree, n, at)
<1> DEFINE kind == tree[n].kind
           final == Final(tree, n, at)
<1>1. Size(tree)[n] \in Nat /\ Own(kind) \in Nat /\ Own(kind) <= Size(tree)[n]
  BY Placed
<1>2. final = at + Size(tree)[n] - 1
  BY DEF Final
<1>3. kind # "block" => Own(kind) > 0
  BY DEF Own
<1>4. ASSUME NEW i \in 1..Len(tree[n].kids)
      PROVE /\ Place(tree, n, at, i) \in Nat /\ at + Before(kind, i) <= Place(tree, n, at, i)
            /\ Before(kind, i) \in Nat /\ Before(kind, i) <= Own(kind)
            /\ Place(tree, n, at, i) + (Own(kind) - Before(kind, i)) <= at + Size(tree)[n]
  <2>1. /\ Place(tree, n, at, i) \in Nat /\ Size(tree)[tree[n].kids[i]] \in Nat
        /\ at + Before(kind, i) <= Place(tree, n, at, i)
        /\ Before(kind, i) \in Nat /\ Before(kind, i) <= Own(kind)
        /\ Place(tree, n, at, i) + Size(tree)[tree[n].kids[i]]
             + (Own(kind) - Before(kind, i)) <= at + Size(tree)[n]
    BY Placed
  <2>2. ASSUME NEW p \in Nat, NEW s \in Nat, NEW b \in Nat, NEW own \in Nat, NEW all \in Nat,
               b <= own, p + s + (own - b) <= at + all
        PROVE  p + (own - b) <= at + all
    BY <2>2
  <2> HIDE DEF kind
  <2> QED BY <1>1, <2>1, <2>2
<1>5. kind \in Branches \cup {"and", "or", "foreach", "for"} => 2 \in 1..Len(tree[n].kids)
  BY DEF TreeOK, NodeOK, Arity, Calls, Branches, Pairs, Jumps
<1>6. ASSUME NEW i \in 1..Len(tree[n].kids), Before(kind, i) > 0
      PROVE Place(tree, n, at, i) - 1 \in at..final
  <2>1. /\ Place(tree, n, at, i) \in Nat /\ at + Before(kind, i) <= Place(tree, n, at, i)
        /\ Before(kind, i) \in Nat /\ Before(kind, i) <= Own(kind)
        /\ Place(tree, n, at, i) + (Own(kind) - Before(kind, i)) <= at + Size(tree)[n]
    BY <1>4
  <2>2. ASSUME NEW p \in Nat, NEW b \in Nat, NEW own \in Nat, NEW all \in Nat, b > 0,
               at + b <= p, b <= own, p + (own - b) <= at + all
        PROVE  p - 1 \in at..at + all - 1
    BY <2>2
  <2> HIDE DEF kind, final
  <2> QED BY <1>1, <1>2, <1>6, <2>1, <2>2
<1>7. CASE kind \in {"and", "or", "for"} \cup Branches
  <2>1. NodeOf(tree, n, at) = Place(tree, n, at, 2) - 1
    BY <1>7 DEF NodeOf, Branches
  <2>2. Before(kind, 2) > 0 /\ kind # "foreach" /\ kind # "print"
    BY <1>7 DEF Before, Branches
  <2>3. NodeOf(tree, n, at) \in at..final /\ NodeOf(tree, n, at) \in Nat
    <3> HIDE DEF kind, final
    <3> QED BY <1>5, <1>6, <1>7, <2>1, <2>2
  <2> HIDE DEF kind, final
  <2>4. kind # "block" /\ kind # "print"
    BY <1>7 DEF Branches
  <2> QED BY <1>1, <1>2, <1>3, <1>6, <2>2, <2>3, <2>4 DEF kind, final
<1>8. CASE kind = "foreach"
  <2>1. NodeOf(tree, n, at) = Place(tree, n, at, 2) - 2
    BY <1>8 DEF NodeOf, Branches
  <2>2. Before(kind, 2) = 2 /\ Own(kind) = 4
    BY <1>8 DEF Before, Own, Branches, Loops
  <2>3. /\ Place(tree, n, at, 2) \in Nat /\ at + 2 <= Place(tree, n, at, 2)
        /\ Place(tree, n, at, 2) + 2 <= at + Size(tree)[n]
    <3> HIDE DEF kind, final
    <3> QED BY <1>4, <1>5, <1>8, <2>2
  <2>4. kind # "block" /\ kind # "print"
    BY <1>8
  <2> HIDE DEF kind, final
  <2>5. NodeOf(tree, n, at) \in at..final /\ NodeOf(tree, n, at) + 1 \in at..final
    <3>1. ASSUME NEW p \in Nat, NEW all \in Nat, at + 2 <= p, p + 2 <= at + all
          PROVE  p - 2 \in at..at + all - 1 /\ p - 2 + 1 \in at..at + all - 1
      BY <3>1
    <3> QED BY <1>1, <1>2, <2>1, <2>3, <3>1
  <2>6. at <= final /\ final \in Nat
    BY <1>1, <1>2, <1>3, <2>4
  <2> QED BY <1>6, <2>4, <2>5, <2>6 DEF kind, final
<1>9. CASE kind \notin {"and", "or", "for", "foreach"} \cup Branches
  <2>1. NodeOf(tree, n, at) = IF kind = "while" THEN at ELSE 0
    BY <1>9 DEF NodeOf
  <2>2. kind = "print" => Own(kind) = 2
    BY DEF Own, Branches, Loops
  <2>3. kind # "block" => at <= final
    BY <1>1, <1>2, <1>3
  <2>4. final + 1 \in Nat /\ final \in Int
    BY <1>1, <1>2
  <2>5. kind = "while" => NodeOf(tree, n, at) \in at..final
    BY <2>1, <2>3, <2>4
  <2>6. kind = "print" => final - 1 \in at..final
    BY <1>1, <1>2, <2>2
  <2>7. NodeOf(tree, n, at) \in Nat
    BY <2>1
  <2> QED BY <1>6, <1>9, <2>3, <2>4, <2>5, <2>6, <2>7 DEF kind, final
<1> QED BY <1>7, <1>8, <1>9

-----------------------------------------------------------------------------
(* Instructions *)

Ops ==
  {"eval", "call", "main", "refuse", "truth", "copy", "return", "finish", "drop", "const", "jz",
   "jnz", "jump", "label", "enter", "until", "bind", "step"}

(* Those that use the locations L, pass a number of arguments that is in A *)
(* and are for the items I.                                                *)
Using(L, A, I) ==
  {ins \in [op : Ops, item : Nat, after : BOOLEAN, live : Seq(Locations), srcs : Seq(L),
            dest : L, n : Int, to : Labels, spare : L] :
     /\ ins.op # "label" => ins.item \in I
     /\ ins.op \in {"call", "main"} => Len(ins.srcs) \in A}

LEMMA UsingMore ==
  ASSUME NEW L, NEW A, NEW I, NEW L1, NEW A1, NEW I1,
         L1 \subseteq L, A1 \subseteq A, I1 \subseteq I
  PROVE Seq(Using(L1, A1, I1)) \subseteq Seq(Using(L, A, I))
<1>1. Seq(L1) \subseteq Seq(L)
  OBVIOUS
<1>2. Using(L1, A1, I1) \subseteq Using(L, A, I)
  BY <1>1 DEF Using
<1> QED BY <1>2

LEMMA InstructionTypes ==
  /\ {Home, Rax, Nowhere} \subseteq Locations
  /\ UserLabel \in Labels
BY DEF Home, Rax, Nowhere, Locations, UserLabel, Labels

LEMMA OneUsing ==
  ASSUME NEW L \in SUBSET Locations, Nowhere \in L, NEW A, NEW I \in SUBSET Nat,
         NEW op \in Ops, NEW item \in Nat, op # "label" => item \in I,
         NEW live \in Seq(Locations), NEW srcs \in Seq(L), NEW dest \in L,
         op \in {"call", "main"} => Len(srcs) \in A
  PROVE Ins(op, item, live, srcs, dest) \in Using(L, A, I)
BY InstructionTypes DEF Ins, Using, Ops

LEMMA ComputeUsing ==
  ASSUME NEW L \in SUBSET Locations, Nowhere \in L, NEW A, NEW I \in SUBSET Nat,
         NEW op \in Ops, op # "label", NEW item \in I,
         NEW live \in Seq(Locations), NEW srcs \in Seq(L), NEW dest \in L,
         op \in {"call", "main"} => Len(srcs) \in A
  PROVE Compute(op, item, live, srcs, dest) \in Seq(Using(L, A, I))
<1>1. srcs \in Seq(Locations) /\ item \in Nat
  OBVIOUS
<1>2. live \o srcs \in Seq(Locations)
  BY <1>1
<1>3. Ins(op, item, live \o srcs, srcs, dest) \in Using(L, A, I)
  BY <1>1, <1>2, OneUsing
<1> QED BY <1>3 DEF Compute

LEMMA DropUsing ==
  ASSUME NEW L \in SUBSET Locations, Nowhere \in L, NEW A, NEW I \in SUBSET Nat,
         NEW item \in I, NEW srcs \in Seq(L)
  PROVE Drop(item, srcs) \in Seq(Using(L, A, I))
<1>1. srcs \in Seq(Locations) /\ item \in Nat
  OBVIOUS
<1>2. Ins("drop", item, srcs, srcs, Nowhere) \in Using(L, A, I)
  BY <1>1, InstructionTypes DEF Ins, Using, Ops
<1> QED BY <1>2 DEF Drop

LEMMA ConstantUsing ==
  ASSUME NEW L \in SUBSET Locations, Nowhere \in L, NEW A, NEW I \in SUBSET Nat,
         NEW item \in I, NEW live \in Seq(Locations), NEW n \in Int, NEW dest \in L
  PROVE Constant(item, live, n, dest) \in Seq(Using(L, A, I))
<1>1. item \in Nat /\ <<>> \in Seq(L)
  OBVIOUS
<1>2. Ins("const", item, live, <<>>, dest) \in Using(L, A, I)
  BY <1>1, InstructionTypes DEF Ins, Using, Ops
<1>3. [Ins("const", item, live, <<>>, dest) EXCEPT !.n = n] \in Using(L, A, I)
  BY <1>2 DEF Using
<1> QED BY <1>3 DEF Constant

LEMMA BranchUsing ==
  ASSUME NEW L \in SUBSET Locations, Nowhere \in L, NEW A, NEW I \in SUBSET Nat,
         NEW op \in {"jz", "jnz"}, NEW item \in I, NEW live \in Seq(Locations), NEW src \in L,
         NEW to \in Labels
  PROVE Branch(op, item, live, src, to) \in Seq(Using(L, A, I))
<1>1. item \in Nat /\ <<src>> \in Seq(L) /\ op \in Ops
  BY DEF Ops
<1>4. Append(live, src) \in Seq(Locations)
  OBVIOUS
<1>2. Ins(op, item, Append(live, src), <<src>>, Nowhere) \in Using(L, A, I)
  BY <1>1, <1>4, InstructionTypes DEF Ins, Using, Ops
<1>3. [Ins(op, item, Append(live, src), <<src>>, Nowhere) EXCEPT !.to = to] \in Using(L, A, I)
  BY <1>2 DEF Using
<1> QED BY <1>3 DEF Branch

LEMMA GoUsing ==
  ASSUME NEW L \in SUBSET Locations, Nowhere \in L, NEW A, NEW I \in SUBSET Nat,
         NEW item \in I, NEW live \in Seq(Locations), NEW to \in Labels
  PROVE Go(item, live, to) \in Seq(Using(L, A, I))
<1>1. item \in Nat /\ <<>> \in Seq(L)
  OBVIOUS
<1>2. Ins("jump", item, live, <<>>, Nowhere) \in Using(L, A, I)
  BY <1>1, InstructionTypes DEF Ins, Using, Ops
<1>3. [Ins("jump", item, live, <<>>, Nowhere) EXCEPT !.to = to] \in Using(L, A, I)
  BY <1>2 DEF Using
<1> QED BY <1>3 DEF Go

LEMMA LabelUsing ==
  ASSUME NEW L \in SUBSET Locations, Nowhere \in L, NEW A, NEW I \in SUBSET Nat, NEW to \in Labels
  PROVE Label(to) \in Seq(Using(L, A, I))
<1>1. <<>> \in Seq(L) /\ <<>> \in Seq(Locations)
  OBVIOUS
<1>2. Ins("label", 1, <<>>, <<>>, Nowhere) \in Using(L, A, I)
  BY <1>1, InstructionTypes DEF Ins, Using, Ops
<1>3. [Ins("label", 1, <<>>, <<>>, Nowhere) EXCEPT !.to = to] \in Using(L, A, I)
  BY <1>2 DEF Using
<1> QED BY <1>3 DEF Label

LEMMA AfterUsing ==
  ASSUME NEW L, NEW A, NEW I, NEW list \in Seq(Using(L, A, I))
  PROVE After(list) \in Seq(Using(L, A, I))
<1>1. \A i \in 1..Len(list) : [list[i] EXCEPT !.after = TRUE] \in Using(L, A, I)
  <2>1. TAKE i \in 1..Len(list)
  <2>2. list[i] \in Using(L, A, I)
    OBVIOUS
  <2> QED BY <2>2 DEF Using
<1> QED BY <1>1 DEF After

LEMMA ForeachUsing ==
  ASSUME NEW L \in SUBSET Locations, Nowhere \in L, NEW A, NEW I \in SUBSET Nat,
         NEW head \in I, NEW each \in I, NEW last \in I,
         NEW array \in L, NEW counter \in L, NEW staging \in L, NEW boxed \in L, NEW to \in Labels
  PROVE /\ Enter(head, array, counter) \in Seq(Using(L, A, I))
        /\ Until(each, array, counter, staging, to) \in Seq(Using(L, A, I))
        /\ Bind(each, array, counter, staging, boxed) \in Seq(Using(L, A, I))
        /\ Step(last, counter) \in Seq(Using(L, A, I))
<1>1. /\ head \in Nat /\ each \in Nat /\ last \in Nat /\ <<>> \in Seq(Locations)
      /\ <<array>> \in Seq(L) /\ <<array>> \in Seq(Locations) /\ <<counter>> \in Seq(L)
      /\ <<counter, array>> \in Seq(L)
  OBVIOUS
<1>2. /\ Ins("enter", head, <<array>>, <<array>>, counter) \in Using(L, A, I)
      /\ Ins("until", each, <<>>, <<counter, array>>, staging) \in Using(L, A, I)
      /\ Ins("bind", each, <<>>, <<counter, array>>, staging) \in Using(L, A, I)
      /\ Ins("step", last, <<>>, <<counter>>, counter) \in Using(L, A, I)
  BY <1>1, InstructionTypes DEF Ins, Using, Ops
<1>3. [Ins("until", each, <<>>, <<counter, array>>, staging) EXCEPT !.to = to] \in Using(L, A, I)
  BY <1>2 DEF Using
<1>4. [Ins("bind", each, <<>>, <<counter, array>>, staging) EXCEPT !.spare = boxed]
        \in Using(L, A, I)
  BY <1>2 DEF Using
<1> QED BY <1>2, <1>3, <1>4 DEF Enter, Until, Bind, Step

(* Lists of instructions one after the other. *)
LEMMA InTurn ==
  ASSUME NEW S, NEW s \in Seq(S), NEW t \in Seq(S)
  PROVE s \o t \in Seq(S)
OBVIOUS

-----------------------------------------------------------------------------
(* Assembly: where values are while a node is executed, and what it is.    *)

AsmAt(tree, m, dest, next) ==
  {Home, Rax, Nowhere, dest} \cup {Scratch(j) : j \in next..next + scratch_for(tree)[m] - 1}

AsmUsing(tree, m, at, dest, next) ==
  Using(AsmAt(tree, m, dest, next), 0..max_args(tree)[m] - 1, at..Final(tree, m, at))

LEMMA AsmLocations ==
  ASSUME NEW tree, TreeOK(tree), NEW m \in 1..Len(tree), NEW dest \in Locations, NEW next \in Nat
  PROVE AsmAt(tree, m, dest, next) \in SUBSET Locations
<1>1. scratch_for(tree)[m] \in Nat
  BY ScratchIs
<1>2. \A j \in Nat : Scratch(j) \in Locations
  BY DEF Scratch, Locations
<1> QED BY <1>1, <1>2, InstructionTypes DEF AsmAt

LEMMA ScratchEnough ==
  ASSUME NEW tree, TreeOK(tree), NEW m \in 1..Len(tree), NEW i \in 1..Len(tree[m].kids)
  PROVE /\ scratch_for(tree)[m] \in Nat /\ scratch_for(tree)[tree[m].kids[i]] \in Nat
        /\ max_args(tree)[m] \in Nat /\ max_args(tree)[tree[m].kids[i]] \in Nat
        /\ Held(tree[m], i) + scratch_for(tree)[tree[m].kids[i]] <= scratch_for(tree)[m]
        /\ max_args(tree)[tree[m].kids[i]] <= max_args(tree)[m]
<1> DEFINE n == Len(tree[m].kids)
           counts == [j \in 1..n |-> Held(tree[m], j) + Parts(tree[m], scratch_for(tree))[j]]
           widths == Parts(tree[m], max_args(tree))
<1>1. n \in Nat /\ \A j \in 1..n : tree[m].kids[j] \in 1..Len(tree)
  BY PartsBefore
<1>2. \A j \in 1..n : counts[j] = Held(tree[m], j) + scratch_for(tree)[tree[m].kids[j]]
  BY DEF Parts
<1>3. \A j \in 1..n : counts[j] \in Nat
  <2>1. TAKE j \in 1..n
  <2>2. Held(tree[m], j) \in Nat /\ scratch_for(tree)[tree[m].kids[j]] \in Nat
    BY <1>1, HeldIs, ScratchIs
  <2> HIDE DEF counts
  <2> QED BY <1>2, <2>2
<1>4. scratch_for(tree)[m] = Most(counts, n)
  BY ScratchIs
<1>5. counts[i] <= Most(counts, n) /\ Most(counts, n) \in Nat
  <2> HIDE DEF counts, n
  <2>1. Most(counts, n) \in Nat /\ \A j \in 1..n : counts[j] <= Most(counts, n)
    BY <1>1, <1>3, MostUpto
  <2>2. i \in 1..n
    BY DEF n
  <2> QED BY <2>1, <2>2
<1>6. \A j \in 1..n : widths[j] \in Nat /\ widths[j] = max_args(tree)[tree[m].kids[j]]
  BY <1>1, ArgsIs DEF Parts
<1>7. max_args(tree)[m] = max_int(Arguments(tree[m]), Most(widths, n))
  BY ArgsIs
<1>8. widths[i] <= Most(widths, n) /\ Most(widths, n) \in Nat
  <2> HIDE DEF widths, n
  <2>1. Most(widths, n) \in Nat /\ \A j \in 1..n : widths[j] <= Most(widths, n)
    BY <1>1, <1>6, MostUpto
  <2>2. i \in 1..n
    BY DEF n
  <2> QED BY <2>1, <2>2
<1>9. Arguments(tree[m]) \in Nat
  BY <1>1 DEF Arguments, Calls
<1>10. scratch_for(tree)[tree[m].kids[i]] \in Nat
  BY <1>1, ScratchIs
<1>11. Most(widths, n) <= max_args(tree)[m] /\ max_args(tree)[m] \in Nat
  <2> HIDE DEF widths, n
  <2> QED BY <1>7, <1>8, <1>9 DEF max_int
<1>12. widths[i] = max_args(tree)[tree[m].kids[i]] /\ widths[i] \in Nat
  BY <1>6
<1>13. counts[i] = Held(tree[m], i) + scratch_for(tree)[tree[m].kids[i]]
  BY <1>2
<1>14. max_args(tree)[tree[m].kids[i]] <= max_args(tree)[m]
  <2> HIDE DEF widths, n
  <2> QED BY <1>8, <1>11, <1>12
<1> HIDE DEF widths, n, counts
<1> QED BY <1>4, <1>5, <1>10, <1>11, <1>12, <1>13, <1>14

(* A part's items are among the node's. *)
LEMMA PartItems ==
  ASSUME NEW tree, TreeOK(tree), NEW m \in 1..Len(tree), NEW i \in 1..Len(tree[m].kids),
         NEW at \in Nat
  PROVE Place(tree, m, at, i)..Final(tree, tree[m].kids[i], Place(tree, m, at, i))
          \subseteq at..Final(tree, m, at)
<1> DEFINE kid == tree[m].kids[i]
           here == Place(tree, m, at, i)
<1>1. /\ here \in Nat /\ Size(tree)[kid] \in Nat /\ Size(tree)[m] \in Nat /\ at <= here
      /\ here + Size(tree)[kid] <= at + Size(tree)[m]
  <2>1. /\ here \in Nat /\ Size(tree)[kid] \in Nat /\ Size(tree)[m] \in Nat
        /\ at + Before(tree[m].kind, i) <= here
        /\ Before(tree[m].kind, i) \in Nat /\ Own(tree[m].kind) \in Nat
        /\ Before(tree[m].kind, i) <= Own(tree[m].kind)
        /\ here + Size(tree)[kid] + (Own(tree[m].kind) - Before(tree[m].kind, i))
             <= at + Size(tree)[m]
    BY Placed
  <2>2. ASSUME NEW p \in Nat, NEW b \in Nat, NEW own \in Nat, NEW s \in Nat, NEW all \in Nat,
               b <= own, at + b <= p, p + s + (own - b) <= at + all
        PROVE  at <= p /\ p + s <= at + all
    BY <2>2
  <2> HIDE DEF here, kid
  <2> QED BY <2>1, <2>2
<1>2. ASSUME NEW p \in Nat, NEW s \in Nat, NEW all \in Nat, NEW x \in p..p + s - 1,
             at <= p, p + s <= at + all
      PROVE  x \in at..at + all - 1
  BY <1>2
<1>3. here..Final(tree, kid, here) \subseteq at..Final(tree, m, at)
  <2> HIDE DEF here, kid
  <2> QED BY <1>1, <1>2 DEF Final
<1> QED BY <1>3

(* A part's slots and items are among the node's. *)
LEMMA AsmPart ==
  ASSUME NEW tree, TreeOK(tree), NEW m \in 1..Len(tree), NEW i \in 1..Len(tree[m].kids),
         NEW at \in Nat, NEW dest \in Locations, NEW next \in Nat
  PROVE /\ \A j \in 0..Held(tree[m], i) - 1 : Scratch(next + j) \in AsmAt(tree, m, dest, next)
        /\ \A d \in AsmAt(tree, m, dest, next) : \A k \in next..next + Held(tree[m], i) :
             Seq(AsmUsing(tree, tree[m].kids[i], Place(tree, m, at, i), d, k))
               \subseteq Seq(AsmUsing(tree, m, at, dest, next))
<1> DEFINE kid == tree[m].kids[i]
           held == Held(tree[m], i)
           here == Place(tree, m, at, i)
<1>1. /\ scratch_for(tree)[m] \in Nat /\ scratch_for(tree)[kid] \in Nat
      /\ max_args(tree)[m] \in Nat /\ max_args(tree)[kid] \in Nat
      /\ held + scratch_for(tree)[kid] <= scratch_for(tree)[m]
      /\ max_args(tree)[kid] <= max_args(tree)[m]
      /\ held \in Nat
  BY ScratchEnough, HeldIs
<1>2. ASSUME NEW j \in 0..held - 1 PROVE Scratch(next + j) \in AsmAt(tree, m, dest, next)
  <2>1. next + j \in next..next + scratch_for(tree)[m] - 1
    <3> HIDE DEF held, kid
    <3> QED BY <1>1
  <2> QED BY <2>1 DEF AsmAt
<1>3. ASSUME NEW d \in AsmAt(tree, m, dest, next), NEW k \in next..next + held
      PROVE Seq(AsmUsing(tree, kid, here, d, k)) \subseteq Seq(AsmUsing(tree, m, at, dest, next))
  <2>1. k..k + scratch_for(tree)[kid] - 1 \subseteq next..next + scratch_for(tree)[m] - 1
    <3>1. k \in Nat /\ next <= k /\ k <= next + held
      BY <1>1
    <3>2. ASSUME NEW a \in Nat, NEW b \in Nat, NEW h \in Nat, NEW x \in k..k + a - 1, h + a <= b,
                 next <= k, k <= next + h
          PROVE  x \in next..next + b - 1
      BY <3>1, <3>2
    <3> HIDE DEF held, kid
    <3> QED BY <1>1, <3>1, <3>2
  <2>2. AsmAt(tree, kid, d, k) \subseteq AsmAt(tree, m, dest, next)
    BY <2>1 DEF AsmAt
  <2>3. here..Final(tree, kid, here) \subseteq at..Final(tree, m, at)
    BY PartItems
  <2>4. 0..max_args(tree)[kid] - 1 \subseteq 0..max_args(tree)[m] - 1
    <3> HIDE DEF kid
    <3> QED BY <1>1
  <2> HIDE DEF here, kid
  <2>5. \A L, A, I, L1, A1, I1 :
          L1 \subseteq L /\ A1 \subseteq A /\ I1 \subseteq I
            => Seq(Using(L1, A1, I1)) \subseteq Seq(Using(L, A, I))
    BY UsingMore
  <2> DEFINE L == AsmAt(tree, m, dest, next)
             A == 0..max_args(tree)[m] - 1
             I == at..Final(tree, m, at)
             L1 == AsmAt(tree, kid, d, k)
             A1 == 0..max_args(tree)[kid] - 1
             I1 == here..Final(tree, kid, here)
  <2>6. L1 \subseteq L /\ A1 \subseteq A /\ I1 \subseteq I
    BY <2>2, <2>3, <2>4
  <2>7. Seq(Using(L1, A1, I1)) \subseteq Seq(Using(L, A, I))
    <3> HIDE DEF L, A, I, L1, A1, I1
    <3> QED BY <2>5, <2>6
  <2> QED BY <2>7 DEF AsmUsing
<1> QED BY <1>2, <1>3

LEMMA SlotsIn ==
  ASSUME NEW L, NEW next \in Nat, NEW n \in Nat, \A j \in 0..n - 1 : Scratch(next + j) \in L
  PROVE Slots(next, n) \in Seq(L) /\ Len(Slots(next, n)) = n
<1>1. \A i \in 1..n : Scratch(next + i - 1) \in L
  <2>1. TAKE i \in 1..n
  <2>2. i - 1 \in 0..n - 1 /\ next + i - 1 = next + (i - 1)
    OBVIOUS
  <2> QED BY <2>2
<1> QED BY <1>1 DEF Slots

(* What is emitted for an expression uses its own destination and slots,   *)
(* if what is emitted for each of its parts does.                          *)
LEMMA EmitExpr ==
  ASSUME NEW tree, TreeOK(tree), NEW m \in 1..Len(tree), tree[m].kind \in Expressions,
         NEW c \in ExprContexts, NEW list,
         \A i \in 1..Len(tree[m].kids) : \A d \in ExprContexts :
           list[i][d] \in Seq(AsmUsing(tree, tree[m].kids[i], d.at, d.dest, d.next))
  PROVE emit_expr(tree, m, c, list) \in Seq(AsmUsing(tree, m, c.at, c.dest, c.next))
<1> DEFINE n == Len(tree[m].kids)
           kind == tree[m].kind
           L == AsmAt(tree, m, c.dest, c.next)
           A == 0..max_args(tree)[m] - 1
           I == c.at..Final(tree, m, c.at)
           X == Using(L, A, I)
           place(i) == Place(tree, m, c.at, i)
           kid(i, dest, next, live) == list[i][Asked(place(i), dest, next, live)]
           slot == Scratch(c.next)
           last == Final(tree, m, c.at)
           id == NodeOf(tree, m, c.at)
           in_order(first, k) ==
             Joined([i \in 1..n |-> kid(i, Scratch(c.next + first + i - 1), c.next + k,
                                        c.live \o Slots(c.next, first + i - 1))], n)
<1>1. /\ c.at \in Nat /\ c.dest \in Locations /\ c.next \in Nat /\ c.live \in Seq(Locations)
      /\ n \in Nat
  BY PartsBefore DEF ExprContexts
<1>2. /\ L \in SUBSET Locations /\ {Home, Rax, Nowhere, c.dest} \subseteq L
  BY <1>1, AsmLocations DEF AsmAt
<1>3. I \in SUBSET Nat /\ c.at \in I /\ last \in I
  <2>1. c.at <= last /\ last \in Int
    BY <1>1, Known DEF Expressions, Calls, Unary, Pairs
  <2> QED BY <1>1, <2>1
<1>4. ASSUME NEW i \in 1..n, NEW d \in L, NEW k \in c.next..c.next + Held(tree[m], i),
             NEW lv \in Seq(Locations)
      PROVE kid(i, d, k, lv) \in Seq(X)
  <2> DEFINE asked == Asked(place(i), d, k, lv)
  <2>1. place(i) \in Nat /\ k \in Nat /\ d \in Locations
    <3>1. Held(tree[m], i) \in Nat
      BY HeldIs
    <3>2. place(i) \in Nat
      BY <1>1, Placed
    <3> HIDE DEF L, place
    <3> QED BY <1>1, <1>2, <3>1, <3>2
  <2>2. asked \in ExprContexts /\ asked.at = place(i) /\ asked.dest = d /\ asked.next = k
    BY <2>1 DEF Asked, ExprContexts
  <2>3. list[i][asked] \in Seq(AsmUsing(tree, tree[m].kids[i], place(i), d, k))
    <3> HIDE DEF asked, place
    <3> QED BY <2>2
  <2>4. Seq(AsmUsing(tree, tree[m].kids[i], place(i), d, k))
          \subseteq Seq(AsmUsing(tree, m, c.at, c.dest, c.next))
    BY <1>1, AsmPart
  <2>5. list[i][asked] \in Seq(AsmUsing(tree, m, c.at, c.dest, c.next))
    <3> HIDE DEF asked, place
    <3> QED BY <2>3, <2>4
  <2> QED BY <2>5 DEF AsmUsing
<1>5. \A i \in 1..n : \A j \in 0..Held(tree[m], i) - 1 : Scratch(c.next + j) \in L
  BY <1>1, AsmPart
<1>6. ASSUME NEW h \in Nat, NEW k \in 0..h, n > 0 => Held(tree[m], 1) = h /\ h \in Nat,
             n = 0 => k = 0
      PROVE Slots(c.next, k) \in Seq(L) /\ Len(Slots(c.next, k)) = k
  <2>1. ASSUME NEW j \in 0..k - 1 PROVE Scratch(c.next + j) \in L
    <3>1. n > 0 /\ 1 \in 1..n /\ j \in 0..h - 1
      BY <1>1, <1>6
    <3> HIDE DEF L, n
    <3> QED BY <1>5, <1>6, <3>1
  <2>2. k \in Nat
    OBVIOUS
  <2> HIDE DEF L
  <2> QED BY <1>1, <2>1, <2>2, SlotsIn
<1>7. ASSUME NEW first \in Nat, NEW k \in Nat, first + n <= k,
             \A i \in 1..n : Held(tree[m], i) = k
      PROVE in_order(first, k) \in Seq(X)
  <2> DEFINE pieces == [i \in 1..n |-> kid(i, Scratch(c.next + first + i - 1), c.next + k,
                                           c.live \o Slots(c.next, first + i - 1))]
  <2>1. ASSUME NEW i \in 1..n PROVE pieces[i] \in Seq(X)
    <3>1. /\ first + i - 1 \in 0..k - 1 /\ c.next + (first + i - 1) = c.next + first + i - 1
          /\ first + i - 1 \in 0..k /\ n > 0 /\ 1 \in 1..n
          /\ c.next + k \in c.next..c.next + k
      <4>1. n \in Nat /\ c.next \in Nat /\ first + n <= k
        BY <1>1, <1>7
      <4> HIDE DEF n, L
      <4> QED BY <4>1
    <3>2. Scratch(c.next + first + i - 1) \in L
      <4> HIDE DEF L, n
      <4> QED BY <1>5, <1>7, <3>1
    <3>3. Slots(c.next, first + i - 1) \in Seq(L)
      <4> HIDE DEF L, n
      <4> QED BY <1>6, <1>7, <3>1
    <3>4. c.live \o Slots(c.next, first + i - 1) \in Seq(Locations)
      <4> HIDE DEF L
      <4> QED BY <1>1, <1>2, <3>3
    <3>5. c.next + k \in c.next..c.next + Held(tree[m], i)
      BY <1>7, <3>1
    <3>6. kid(i, Scratch(c.next + first + i - 1), c.next + k,
              c.live \o Slots(c.next, first + i - 1)) \in Seq(X)
      <4> HIDE DEF L, n, kid, X
      <4> QED BY <1>4, <3>2, <3>4, <3>5
    <3> HIDE DEF kid, X
    <3> QED BY <3>6
  <2>2. Joined(pieces, n) \in Seq(X)
    <3>1. n \in 0..n
      BY <1>1
    <3> HIDE DEF pieces, X, n
    <3> QED BY <1>1, <2>1, <3>1, JoinedUpto
  <2> QED BY <2>2
<1>8. kind \notin {"array", "block"} \cup Calls => n = Arity(kind)
  BY DEF TreeOK, NodeOK
<1>c. ASSUME NEW op \in Ops, op # "label", NEW item \in I, NEW lv \in Seq(Locations),
             NEW srcs \in Seq(L), NEW dest \in L, op \in {"call", "main"} => Len(srcs) \in A
      PROVE Compute(op, item, lv, srcs, dest) \in Seq(X)
  <2> HIDE DEF L, I, A
  <2> QED BY <1>2, <1>3, <1>c, ComputeUsing
<1>k. ASSUME NEW item \in I, NEW lv \in Seq(Locations), NEW v \in Int, NEW dest \in L
      PROVE Constant(item, lv, v, dest) \in Seq(X)
  <2> HIDE DEF L, I, A
  <2> QED BY <1>2, <1>3, ConstantUsing
<1>b. ASSUME NEW op \in {"jz", "jnz"}, NEW item \in I, NEW lv \in Seq(Locations), NEW src \in L,
             NEW to \in Labels
      PROVE Branch(op, item, lv, src, to) \in Seq(X)
  <2> HIDE DEF L, I, A
  <2> QED BY <1>2, <1>3, BranchUsing
<1>g. ASSUME NEW item \in I, NEW lv \in Seq(Locations), NEW to \in Labels
      PROVE Go(item, lv, to) \in Seq(X)
  <2> HIDE DEF L, I, A
  <2> QED BY <1>2, <1>3, GoUsing
<1>l. ASSUME NEW to \in Labels PROVE Label(to) \in Seq(X)
  <2> HIDE DEF L, I, A
  <2> QED BY <1>2, <1>3, LabelUsing
<1>a. ASSUME NEW s \in Seq(X) PROVE After(s) \in Seq(X)
  <2> HIDE DEF L, I, A
  <2> QED BY AfterUsing
<1>j. /\ id \in Nat /\ <<"settled", id>> \in Labels /\ <<"join", id>> \in Labels
      /\ <<"other", id>> \in Labels
  <2>1. id \in Nat
    BY <1>1, Known
  <2> HIDE DEF id
  <2> QED BY <2>1 DEF Labels
<1>v. \A d \in L : Append(c.live, d) \in Seq(Locations) /\ <<d>> \in Seq(L) /\ <<>> \in Seq(L)
  <2> HIDE DEF L
  <2> QED BY <1>1, <1>2
<1>d. /\ c.dest \in L /\ Rax \in L
  BY <1>2
<1> DEFINE Right == emit_expr(tree, m, c, list) \in Seq(X)
<1>q. SUFFICES Right
  BY DEF AsmUsing
<1>9. CASE kind \in {"value", "mention"}
  <2>1. Compute("eval", c.at, c.live, <<>>, c.dest) \in Seq(X)
    <3>1. "eval" \in Ops /\ "eval" # "label" /\ "eval" \notin {"call", "main"}
      BY DEF Ops
    <3> HIDE DEF L, I, A, X
    <3> QED BY <1>1, <1>3, <1>c, <1>d, <1>v, <3>1
  <2>2. emit_expr(tree, m, c, list) = Compute("eval", c.at, c.live, <<>>, c.dest)
    BY <1>9 DEF emit_expr, Refuses, Unary, Pairs
  <2> QED BY <2>1, <2>2
<1>10. CASE kind \in {"and", "or"}
  <2> DEFINE decides == IF kind = "and" THEN "jz" ELSE "jnz"
             bit == IF kind = "and" THEN 0 ELSE 1
             s1 == kid(1, slot, c.next + 1, c.live)
             s2 == Branch(decides, place(2) - 1, c.live, slot, <<"settled", id>>)
             s3 == kid(2, slot, c.next + 1, c.live)
             s4 == Compute("truth", last, c.live, <<slot>>, Rax)
             s5 == After(Go(last, Append(c.live, Rax), <<"join", id>>))
             s6 == Label(<<"settled", id>>)
             s7 == Constant(id, Append(c.live, slot), bit, Rax)
             s8 == Label(<<"join", id>>)
             s9 == After(Compute("copy", last, c.live, <<Rax>>, c.dest))
  <2>1. emit_expr(tree, m, c, list) = s1 \o s2 \o s3 \o s4 \o s5 \o s6 \o s7 \o s8 \o s9
    BY <1>10 DEF emit_expr, Refuses, Unary, Pairs
  <2>2. n = 2 /\ Held(tree[m], 1) = 1 /\ Held(tree[m], 2) = 1
    BY <1>8, <1>10 DEF Arity, Calls, Held, Pairs, Branches, Jumps
  <2>3. slot \in L
    <3>1. 1 \in 1..n /\ 0 \in 0..Held(tree[m], 1) - 1 /\ c.next + 0 = c.next
      BY <1>1, <2>2
    <3> HIDE DEF L, n
    <3> QED BY <1>5, <3>1
  <2>4. s1 \in Seq(X) /\ s3 \in Seq(X)
    <3>1. /\ 1 \in 1..n /\ 2 \in 1..n /\ c.next + 1 \in c.next..c.next + Held(tree[m], 1)
          /\ c.next + 1 \in c.next..c.next + Held(tree[m], 2)
      BY <1>1, <2>2
    <3> HIDE DEF L, n, kid, X, slot
    <3> QED BY <1>1, <1>4, <2>3, <3>1
  <2>5. place(2) - 1 \in I /\ id \in I
    <3>1. 2 \in 1..n /\ Before(kind, 2) > 0
      BY <1>10, <2>2 DEF Before, Branches
    <3> QED BY <1>1, <1>10, <3>1, Known
  <2>6. s2 \in Seq(X)
    <3>1. decides \in {"jz", "jnz"}
      OBVIOUS
    <3> HIDE DEF L, I, A, X, slot, id, place, decides
    <3> QED BY <1>1, <1>b, <1>j, <2>3, <2>5, <3>1
  <2>7. s4 \in Seq(X)
    <3>1. "truth" \in Ops /\ "truth" # "label" /\ "truth" \notin {"call", "main"}
      BY DEF Ops
    <3> HIDE DEF L, I, A, X, slot, last
    <3> QED BY <1>1, <1>3, <1>c, <1>d, <1>v, <2>3, <3>1
  <2>8. s5 \in Seq(X)
    <3> HIDE DEF L, I, A, X, slot, last, id
    <3> QED BY <1>3, <1>g, <1>a, <1>j, <1>v, <1>d
  <2>9. s6 \in Seq(X) /\ s8 \in Seq(X)
    <3> HIDE DEF X, id
    <3> QED BY <1>l, <1>j
  <2>10. s7 \in Seq(X)
    <3>1. bit \in Int
      OBVIOUS
    <3> HIDE DEF L, I, A, X, slot, id, bit
    <3> QED BY <1>k, <1>v, <1>d, <2>3, <2>5, <3>1
  <2>11. s9 \in Seq(X)
    <3>1. "copy" \in Ops /\ "copy" # "label" /\ "copy" \notin {"call", "main"}
      BY DEF Ops
    <3> HIDE DEF L, I, A, X, slot, last
    <3> QED BY <1>1, <1>3, <1>c, <1>a, <1>d, <1>v, <3>1
  <2> HIDE DEF s1, s2, s3, s4, s5, s6, s7, s8, s9, X
  <2> QED BY <2>1, <2>4, <2>6, <2>7, <2>8, <2>9, <2>10, <2>11, InTurn
<1>w. kind \in {"call", "main"} => n \in A
  <2>1. max_args(tree)[m] = max_int(Arguments(tree[m]), Most(Parts(tree[m], max_args(tree)), n))
        /\ max_args(tree)[m] \in Nat
    BY ArgsIs
  <2>2. \A i \in 1..n : Parts(tree[m], max_args(tree))[i] \in Nat
    BY PartsBefore, ArgsIs DEF Parts
  <2>3. Most(Parts(tree[m], max_args(tree)), n) \in Nat
    BY <1>1, <2>2, MostUpto
  <2>4. kind \in {"call", "main"} => Arguments(tree[m]) = n + 1
    BY DEF Arguments, Calls
  <2> HIDE DEF n, kind
  <2> QED BY <1>1, <2>1, <2>3, <2>4 DEF max_int
<1>11. CASE kind \in Unary \cup Pairs \cup {"array", "call"}
  <2> DEFINE op == IF kind = "call" THEN "call" ELSE "eval"
             s1 == in_order(0, n)
             s2 == Compute(op, last, c.live, Slots(c.next, n), c.dest)
  <2>1. emit_expr(tree, m, c, list) = s1 \o s2
    BY <1>11 DEF emit_expr, Refuses, Unary, Pairs
  <2>2. \A i \in 1..n : Held(tree[m], i) = n
    <3>1. kind \in Unary => n = 1 /\ \A i \in 1..n : Held(tree[m], i) = 1
      BY <1>8 DEF Arity, Calls, Held, Pairs, Branches, Jumps, Unary
    <3>2. kind \in Pairs => n = 2 /\ \A i \in 1..n : Held(tree[m], i) = 2
      BY <1>8 DEF Arity, Calls, Held, Pairs, Branches, Jumps
    <3>3. kind \in {"array", "call"} => \A i \in 1..n : Held(tree[m], i) = n
      BY DEF Held, Calls, Pairs, Branches
    <3> HIDE DEF n
    <3> QED BY <1>11, <3>1, <3>2, <3>3
  <2>3. s1 \in Seq(X)
    <3>1. 0 + n <= n /\ 0 \in Nat
      BY <1>1
    <3> HIDE DEF n, in_order, X
    <3> QED BY <1>1, <1>7, <2>2, <3>1
  <2>4. Slots(c.next, n) \in Seq(L) /\ Len(Slots(c.next, n)) = n
    <3>1. n \in 0..n /\ (n > 0 => Held(tree[m], 1) = n /\ n \in Nat) /\ (n = 0 => n = 0)
      BY <1>1, <2>2
    <3> HIDE DEF n, L
    <3> QED BY <1>1, <1>6, <3>1
  <2>5. s2 \in Seq(X)
    <3>1. op \in Ops /\ op # "label" /\ (op \in {"call", "main"} => kind = "call")
      BY DEF Ops
    <3> HIDE DEF n, L, I, A, X, op, last
    <3> QED BY <1>1, <1>3, <1>c, <1>d, <1>w, <2>4, <3>1
  <2> HIDE DEF s1, s2, X
  <2> QED BY <2>1, <2>3, <2>5, InTurn
<1>12. CASE kind = "main" /\ ~Refuses(tree[m])
  <2>1. emit_expr(tree, m, c, list) = Compute("main", c.at, c.live, <<>>, c.dest)
    BY <1>12 DEF emit_expr, Refuses, Unary, Pairs
  <2>2. n = 0
    BY <1>12 DEF Refuses
  <2>3. Compute("main", c.at, c.live, <<>>, c.dest) \in Seq(X)
    <3>1. "main" \in Ops /\ "main" # "label" /\ Len(<<>>) = 0
      BY DEF Ops
    <3>2. 0 \in A
      BY <1>12, <1>w, <2>2
    <3> HIDE DEF L, I, A, X
    <3> QED BY <1>1, <1>3, <1>c, <1>d, <1>v, <3>1, <3>2
  <2> QED BY <2>1, <2>3
<1>13. CASE Refuses(tree[m])
  <2>1. emit_expr(tree, m, c, list) = Compute("refuse", c.at, c.live, <<>>, c.dest)
    BY <1>13 DEF emit_expr, Refuses, Unary, Pairs
  <2>2. Compute("refuse", c.at, c.live, <<>>, c.dest) \in Seq(X)
    <3>1. "refuse" \in Ops /\ "refuse" # "label" /\ "refuse" \notin {"call", "main"}
      BY DEF Ops
    <3> HIDE DEF L, I, A, X
    <3> QED BY <1>1, <1>3, <1>c, <1>d, <1>v, <3>1
  <2> QED BY <2>1, <2>2
<1>14. CASE kind = "minus"
  <2> DEFINE s1 == Constant(c.at, c.live, 0, slot)
             s2 == in_order(1, 2)
             s3 == Compute("eval", last, c.live, Slots(c.next, 2), c.dest)
  <2>1. emit_expr(tree, m, c, list) = s1 \o s2 \o s3
    BY <1>14 DEF emit_expr, Refuses, Unary, Pairs
  <2>2. n = 1 /\ Held(tree[m], 1) = 2
    BY <1>8, <1>14 DEF Arity, Calls, Held, Pairs, Branches, Jumps
  <2>3. slot \in L
    <3>1. 1 \in 1..n /\ 0 \in 0..Held(tree[m], 1) - 1 /\ c.next + 0 = c.next
      BY <1>1, <2>2
    <3> HIDE DEF L, n
    <3> QED BY <1>5, <3>1
  <2>4. s1 \in Seq(X)
    <3>1. 0 \in Int
      OBVIOUS
    <3> HIDE DEF L, I, A, X, slot
    <3> QED BY <1>1, <1>3, <1>k, <2>3, <3>1
  <2>5. s2 \in Seq(X)
    <3>1. 1 + n <= 2 /\ 1 \in Nat /\ 2 \in Nat /\ \A i \in 1..n : Held(tree[m], i) = 2
      BY <2>2
    <3> HIDE DEF n, in_order, X
    <3> QED BY <1>7, <3>1
  <2>6. Slots(c.next, 2) \in Seq(L) /\ Len(Slots(c.next, 2)) = 2
    <3>1. 2 \in 0..2 /\ (n > 0 => Held(tree[m], 1) = 2 /\ 2 \in Nat) /\ n # 0 /\ 2 \in Nat
      BY <2>2
    <3> HIDE DEF n, L
    <3> QED BY <1>6, <3>1
  <2>7. s3 \in Seq(X)
    <3>1. "eval" \in Ops /\ "eval" # "label" /\ "eval" \notin {"call", "main"}
      BY DEF Ops
    <3> HIDE DEF L, I, A, X, last
    <3> QED BY <1>1, <1>3, <1>c, <1>d, <2>6, <3>1
  <2> HIDE DEF s1, s2, s3, X
  <2> QED BY <2>1, <2>4, <2>5, <2>7, InTurn
<1>15. CASE kind = "ternary"
  <2> DEFINE s1 == kid(1, slot, c.next + 1, c.live)
             s2 == Branch("jz", id, c.live, slot, <<"other", id>>)
             s3 == kid(2, c.dest, c.next, c.live)
             s4 == Go(place(3) - 1, Append(c.live, c.dest), <<"join", id>>)
             s5 == Label(<<"other", id>>)
             s6 == kid(3, c.dest, c.next, c.live)
             s7 == Label(<<"join", id>>)
  <2>1. emit_expr(tree, m, c, list) = s1 \o s2 \o s3 \o s4 \o s5 \o s6 \o s7
    BY <1>15 DEF emit_expr, Refuses, Unary, Pairs, Condition
  <2>2. n = 3 /\ Held(tree[m], 1) = 1 /\ Held(tree[m], 2) = 0 /\ Held(tree[m], 3) = 0
    BY <1>8, <1>15 DEF Arity, Calls, Held, Pairs, Branches, Jumps
  <2>3. slot \in L
    <3>1. 1 \in 1..n /\ 0 \in 0..Held(tree[m], 1) - 1 /\ c.next + 0 = c.next
      BY <1>1, <2>2
    <3> HIDE DEF L, n
    <3> QED BY <1>5, <3>1
  <2>4. s1 \in Seq(X) /\ s3 \in Seq(X) /\ s6 \in Seq(X)
    <3>1. /\ 1 \in 1..n /\ 2 \in 1..n /\ 3 \in 1..n
          /\ c.next + 1 \in c.next..c.next + Held(tree[m], 1)
          /\ c.next \in c.next..c.next + Held(tree[m], 2)
          /\ c.next \in c.next..c.next + Held(tree[m], 3)
      BY <1>1, <2>2
    <3> HIDE DEF L, n, kid, X, slot
    <3> QED BY <1>1, <1>4, <1>d, <2>3, <3>1
  <2>5. place(3) - 1 \in I /\ id \in I
    <3>1. 3 \in 1..n /\ Before(kind, 3) > 0
      BY <1>15, <2>2 DEF Before, Branches
    <3> QED BY <1>1, <1>15, <3>1, Known DEF Branches
  <2>6. s2 \in Seq(X) /\ s4 \in Seq(X)
    <3> HIDE DEF L, I, A, X, slot, id, place
    <3> QED BY <1>1, <1>b, <1>d, <1>g, <1>j, <1>v, <2>3, <2>5
  <2>7. s5 \in Seq(X) /\ s7 \in Seq(X)
    <3> HIDE DEF X, id
    <3> QED BY <1>l, <1>j
  <2> HIDE DEF s1, s2, s3, s4, s5, s6, s7, X
  <2> QED BY <2>1, <2>4, <2>6, <2>7, InTurn
<1> QED BY <1>9, <1>10, <1>11, <1>12, <1>13, <1>14, <1>15 DEF Expressions, Calls, Refuses

LEMMA PartKinds ==
  ASSUME NEW tree, TreeOK(tree), NEW m \in 1..Len(tree), NEW i \in 1..Len(tree[m].kids)
  PROVE /\ tree[m].kids[i] \in 1..m - 1 /\ tree[m].kids[i] \in 1..Len(tree)
        /\ Evaluates(tree[m].kind, i) => tree[tree[m].kids[i]].kind \in Expressions
        /\ ~Evaluates(tree[m].kind, i) => tree[tree[m].kids[i]].kind \in Statements
<1>1. tree[m].kids[i] \in 1..m - 1 /\ Len(tree) \in Nat
  BY PartsBefore
<1>2. tree[tree[m].kids[i]].kind \in
        (IF Evaluates(tree[m].kind, i) THEN Expressions ELSE Statements)
  BY DEF TreeOK, NodeOK
<1> QED BY <1>1, <1>2

LEMMA ExprRight ==
  ASSUME NEW tree, TreeOK(tree)
  PROVE \A m \in 1..Len(tree) : tree[m].kind \in Expressions =>
          \A c \in ExprContexts :
            ExprCode(tree)[m][c] \in Seq(AsmUsing(tree, m, c.at, c.dest, c.next))
<1> DEFINE Good(m) == tree[m].kind \in Expressions =>
             \A c \in ExprContexts :
               ExprCode(tree)[m][c] \in Seq(AsmUsing(tree, m, c.at, c.dest, c.next))
           S == {m \in 1..Len(tree) : Good(m)}
<1>1. ASSUME NEW m \in 1..Len(tree), \A k \in 1..m - 1 : k \in S PROVE m \in S
  <2>1. SUFFICES ASSUME tree[m].kind \in Expressions, NEW c \in ExprContexts
                 PROVE ExprCode(tree)[m][c] \in Seq(AsmUsing(tree, m, c.at, c.dest, c.next))
    OBVIOUS
  <2> DEFINE list == Parts(tree[m], ExprCode(tree))
  <2>2. ASSUME NEW i \in 1..Len(tree[m].kids), NEW d \in ExprContexts
        PROVE list[i][d] \in Seq(AsmUsing(tree, tree[m].kids[i], d.at, d.dest, d.next))
    <3>1. Evaluates(tree[m].kind, i)
      BY <2>1 DEF Evaluates
    <3>2. tree[m].kids[i] \in 1..m - 1 /\ tree[tree[m].kids[i]].kind \in Expressions
      BY <3>1, PartKinds
    <3>3. Good(tree[m].kids[i])
      <4> HIDE DEF Good
      <4> QED BY <1>1, <3>2
    <3>4. list[i] = ExprCode(tree)[tree[m].kids[i]]
      BY DEF Parts
    <3> HIDE DEF list
    <3> QED BY <3>2, <3>3, <3>4
  <2>3. emit_expr(tree, m, c, list) \in Seq(AsmUsing(tree, m, c.at, c.dest, c.next))
    <3> HIDE DEF list
    <3> QED BY <2>1, <2>2, EmitExpr
  <2>4. ExprCode(tree)[m] = [k \in ExprContexts |-> emit_expr(tree, m, k, list)]
    BY ExprCodeIs
  <2>5. ExprCode(tree)[m][c] = emit_expr(tree, m, c, list)
    <3> HIDE DEF list
    <3> QED BY <2>4
  <2> HIDE DEF list
  <2> QED BY <2>3, <2>5
<1>2. Len(tree) \in Nat
  BY DEF TreeOK
<1>3. \A m \in 1..Len(tree) : m \in S
  <2> HIDE DEF S
  <2> QED BY <1>1, <1>2, Induction
<1> QED BY <1>3

LEMMA EmitStmt ==
  ASSUME NEW tree, TreeOK(tree), NEW m \in 1..Len(tree), tree[m].kind \in Statements,
         NEW c \in StmtContexts, NEW list,
         \A i \in 1..Len(tree[m].kids) : ~Evaluates(tree[m].kind, i) => \A d \in StmtContexts :
           list[i][d] \in Seq(AsmUsing(tree, tree[m].kids[i], d.at, Nowhere, d.next))
  PROVE emit_stmt(tree, m, c, list) \in Seq(AsmUsing(tree, m, c.at, Nowhere, c.next))
<1> DEFINE n == Len(tree[m].kids)
           kind == tree[m].kind
           L == AsmAt(tree, m, Nowhere, c.next)
           A == 0..max_args(tree)[m] - 1
           I == c.at..Final(tree, m, c.at)
           X == Using(L, A, I)
           place(i) == Place(tree, m, c.at, i)
           part(i, dest, next, live) == emit_part(tree, m, c, i, dest, next, live)
           kid(i, next, leaving) ==
             list[i][[at |-> place(i), next |-> next, leaving |-> leaving]]
           slot == Scratch(c.next)
           last == Final(tree, m, c.at)
           id == NodeOf(tree, m, c.at)
           Leavings == [break : Labels, continue : Labels]
<1>1. c.at \in Nat /\ c.next \in Nat /\ c.leaving \in Leavings /\ n \in Nat
  BY PartsBefore DEF StmtContexts
<1>2. L \in SUBSET Locations /\ {Home, Rax, Nowhere} \subseteq L
  BY <1>1, AsmLocations, InstructionTypes DEF AsmAt
<1>3. I \in SUBSET Nat /\ (kind # "block" => c.at \in I /\ last \in I)
  <2>1. (kind # "block" => c.at <= last) /\ last \in Int
    BY <1>1, Known
  <2> QED BY <1>1, <2>1
<1>4. ASSUME NEW i \in 1..n, Evaluates(kind, i), NEW d \in L,
             NEW k \in c.next..c.next + Held(tree[m], i), NEW lv \in Seq(Locations)
      PROVE part(i, d, k, lv) \in Seq(X)
  <2> DEFINE asked == Asked(place(i), d, k, lv)
             node == tree[m].kids[i]
  <2>1. place(i) \in Nat /\ k \in Nat /\ d \in Locations
    <3>1. Held(tree[m], i) \in Nat
      BY HeldIs
    <3>2. place(i) \in Nat
      BY <1>1, Placed
    <3> HIDE DEF L, place
    <3> QED BY <1>1, <1>2, <3>1, <3>2
  <2>2. asked \in ExprContexts /\ asked.at = place(i) /\ asked.dest = d /\ asked.next = k
    BY <2>1 DEF Asked, ExprContexts
  <2>3. node \in 1..Len(tree) /\ tree[node].kind \in Expressions
    BY <1>4, PartKinds
  <2>4. ExprCode(tree)[node][asked] \in Seq(AsmUsing(tree, node, place(i), d, k))
    <3> HIDE DEF asked, place, node
    <3> QED BY <2>2, <2>3, ExprRight
  <2>5. Seq(AsmUsing(tree, node, place(i), d, k))
          \subseteq Seq(AsmUsing(tree, m, c.at, Nowhere, c.next))
    BY <1>1, AsmPart, InstructionTypes
  <2>6. ExprCode(tree)[node][asked] \in Seq(AsmUsing(tree, m, c.at, Nowhere, c.next))
    <3> HIDE DEF asked, place, node
    <3> QED BY <2>4, <2>5
  <2> QED BY <2>6 DEF AsmUsing, emit_part
<1>5. ASSUME NEW i \in 1..n, ~Evaluates(kind, i), NEW k \in c.next..c.next + Held(tree[m], i),
             NEW leaving \in Leavings
      PROVE kid(i, k, leaving) \in Seq(X)
  <2> DEFINE inner == [at |-> place(i), next |-> k, leaving |-> leaving]
             node == tree[m].kids[i]
  <2>1. place(i) \in Nat /\ k \in Nat
    <3>1. Held(tree[m], i) \in Nat
      BY HeldIs
    <3>2. place(i) \in Nat
      BY <1>1, Placed
    <3> HIDE DEF place
    <3> QED BY <1>1, <3>1, <3>2
  <2>2. inner \in StmtContexts /\ inner.at = place(i) /\ inner.next = k
    BY <2>1 DEF StmtContexts
  <2>3. list[i][inner] \in Seq(AsmUsing(tree, node, place(i), Nowhere, k))
    <3> HIDE DEF inner, place
    <3> QED BY <1>5, <2>2
  <2>4. Seq(AsmUsing(tree, node, place(i), Nowhere, k))
          \subseteq Seq(AsmUsing(tree, m, c.at, Nowhere, c.next))
    BY <1>1, <1>2, AsmPart, InstructionTypes
  <2>5. list[i][inner] \in Seq(AsmUsing(tree, m, c.at, Nowhere, c.next))
    <3> HIDE DEF inner, place, node
    <3> QED BY <2>3, <2>4
  <2> QED BY <2>5 DEF AsmUsing
<1>6. \A i \in 1..n : \A j \in 0..Held(tree[m], i) - 1 : Scratch(c.next + j) \in L
  BY <1>1, AsmPart, InstructionTypes
<1>7. kind \notin {"array", "block"} \cup Calls => n = Arity(kind)
  BY DEF TreeOK, NodeOK
<1>c. ASSUME NEW op \in Ops, op # "label", NEW item \in I, NEW lv \in Seq(Locations),
             NEW srcs \in Seq(L), NEW dest \in L, op \in {"call", "main"} => Len(srcs) \in A
      PROVE Compute(op, item, lv, srcs, dest) \in Seq(X)
  <2> HIDE DEF L, I, A
  <2> QED BY <1>2, <1>3, <1>c, ComputeUsing
<1>k. ASSUME NEW item \in I, NEW lv \in Seq(Locations), NEW v \in Int, NEW dest \in L
      PROVE Constant(item, lv, v, dest) \in Seq(X)
  <2> HIDE DEF L, I, A
  <2> QED BY <1>2, <1>3, ConstantUsing
<1>b. ASSUME NEW op \in {"jz", "jnz"}, NEW item \in I, NEW lv \in Seq(Locations), NEW src \in L,
             NEW to \in Labels
      PROVE Branch(op, item, lv, src, to) \in Seq(X)
  <2> HIDE DEF L, I, A
  <2> QED BY <1>2, <1>3, BranchUsing
<1>g. ASSUME NEW item \in I, NEW lv \in Seq(Locations), NEW to \in Labels
      PROVE Go(item, lv, to) \in Seq(X)
  <2> HIDE DEF L, I, A
  <2> QED BY <1>2, <1>3, GoUsing
<1>l. ASSUME NEW to \in Labels PROVE Label(to) \in Seq(X)
  <2> HIDE DEF L, I, A
  <2> QED BY <1>2, <1>3, LabelUsing
<1>a. ASSUME NEW s \in Seq(X) PROVE After(s) \in Seq(X)
  <2> HIDE DEF L, I, A
  <2> QED BY AfterUsing
<1>j. /\ id \in Nat /\ <<"join", id>> \in Labels /\ <<"other", id>> \in Labels
      /\ <<"top", id>> \in Labels /\ <<"done", id>> \in Labels /\ <<"next", id>> \in Labels
  <2>1. id \in Nat
    BY <1>1, Known
  <2> HIDE DEF id
  <2> QED BY <2>1 DEF Labels
<1>v. /\ \A d \in L : <<d>> \in Seq(L) /\ d \in Locations
      /\ <<>> \in Seq(L) /\ <<>> \in Seq(Locations) /\ Home \in L /\ Nowhere \in L
  <2> HIDE DEF L
  <2> QED BY <1>2
<1>d. ASSUME NEW item \in I, NEW srcs \in Seq(L) PROVE Drop(item, srcs) \in Seq(X)
  <2> HIDE DEF L, I, A
  <2> QED BY <1>2, <1>3, DropUsing
<1>h. Leaving(kind, id) \in Leavings
  <2> HIDE DEF id
  <2> QED BY <1>j DEF Leaving
<1> DEFINE Right == emit_stmt(tree, m, c, list) \in Seq(X)
<1>q. SUFFICES Right
  BY DEF AsmUsing
<1>s. ASSUME NEW i \in 1..n, NEW k \in 0..Held(tree[m], i)
      PROVE /\ Slots(c.next, k) \in Seq(L) /\ Slots(c.next, k) \in Seq(Locations)
            /\ Len(Slots(c.next, k)) = k
  <2>1. Held(tree[m], i) \in Nat /\ k \in Nat
    BY HeldIs
  <2>2. \A j \in 0..k - 1 : Scratch(c.next + j) \in L
    <3> HIDE DEF L, n
    <3> QED BY <1>6, <2>1
  <2>3. Slots(c.next, k) \in Seq(L) /\ Len(Slots(c.next, k)) = k
    <3> HIDE DEF L
    <3> QED BY <1>1, <2>1, <2>2, SlotsIn
  <2> HIDE DEF L
  <2> QED BY <1>2, <2>3
<1>x. ASSUME NEW i \in 1..n, Held(tree[m], i) > 0 PROVE slot \in L
  <2>1. 0 \in 0..Held(tree[m], i) - 1 /\ c.next + 0 = c.next
    BY <1>1, <1>x, HeldIs
  <2> HIDE DEF L, n
  <2> QED BY <1>6, <2>1
<1>t. ASSUME NEW i \in 1..n, Evaluates(kind, i), Held(tree[m], i) = 1, i + 1 \in 1..n,
             Before(kind, i + 1) > 0, NEW to \in Labels
      PROVE emit_test(tree, m, c, i, to) \in Seq(X)
  <2> DEFINE s1 == part(i, slot, c.next + 1, <<>>)
             s2 == Branch("jz", place(i + 1) - 1, <<>>, slot, to)
  <2>1. slot \in L
    BY <1>t, <1>x
  <2>2. c.next + 1 \in c.next..c.next + Held(tree[m], i)
    BY <1>1, <1>t
  <2>3. s1 \in Seq(X)
    <3> HIDE DEF L, n, part, X, slot
    <3> QED BY <1>4, <1>t, <1>v, <2>1, <2>2
  <2>4. place(i + 1) - 1 \in I
    BY <1>1, <1>t, Known
  <2>5. s2 \in Seq(X)
    <3> HIDE DEF L, I, A, X, slot, place
    <3> QED BY <1>b, <1>v, <2>1, <2>4
  <2>6. emit_test(tree, m, c, i, to) = s1 \o s2
    BY DEF emit_test
  <2> HIDE DEF s1, s2, X
  <2> QED BY <2>3, <2>5, <2>6, InTurn
<1>y. ASSUME NEW i \in 1..n, Evaluates(kind, i), NEW k \in c.next..c.next + Held(tree[m], i),
             Held(tree[m], i) > i - 1
      PROVE part(i, Scratch(c.next + i - 1), k, Slots(c.next, i - 1)) \in Seq(X)
  <2>1. i - 1 \in 0..Held(tree[m], i) - 1 /\ i - 1 \in 0..Held(tree[m], i)
        /\ c.next + (i - 1) = c.next + i - 1
    <3>1. Held(tree[m], i) \in Nat
      BY HeldIs
    <3> QED BY <1>1, <1>y, <3>1
  <2>2. Scratch(c.next + i - 1) \in L
    <3> HIDE DEF L, n
    <3> QED BY <1>6, <2>1
  <2>3. Slots(c.next, i - 1) \in Seq(Locations)
    <3> HIDE DEF L, n
    <3> QED BY <1>s, <2>1
  <2> HIDE DEF L, n, part, X
  <2> QED BY <1>4, <1>y, <2>2, <2>3
<1>8. CASE kind = "declare"
  <2> DEFINE s1 == part(1, Home, c.next, <<>>)
             s2 == Drop(last, <<Home>>)
  <2>1. emit_stmt(tree, m, c, list) = s1 \o s2
    BY <1>8 DEF emit_stmt, Loops, Jumps
  <2>2. n = 1 /\ Held(tree[m], 1) = 1 /\ Evaluates(kind, 1)
    BY <1>7, <1>8 DEF Arity, Calls, Held, Pairs, Branches, Jumps, Evaluates, Simple
  <2>3. s1 \in Seq(X)
    <3>1. 1 \in 1..n /\ c.next \in c.next..c.next + Held(tree[m], 1)
      BY <1>1, <2>2
    <3> HIDE DEF L, n, part, X
    <3> QED BY <1>4, <1>v, <2>2, <3>1
  <2>4. s2 \in Seq(X)
    <3>1. last \in I
      BY <1>3, <1>8
    <3> HIDE DEF L, I, A, X, last
    <3> QED BY <1>d, <1>v, <3>1
  <2> HIDE DEF s1, s2, X
  <2> QED BY <2>1, <2>3, <2>4, InTurn
<1>9. CASE kind \in {"assign", "discard"}
  <2> DEFINE s1 == part(1, Scratch(c.next + 1 - 1), c.next + 1, Slots(c.next, 1 - 1))
             s2 == Drop(last, <<slot>>)
  <2>1. emit_stmt(tree, m, c, list) = s1 \o s2
    BY <1>9 DEF emit_stmt, Loops, Jumps
  <2>2. n = 1 /\ Held(tree[m], 1) = 1 /\ Evaluates(kind, 1)
    BY <1>7, <1>9 DEF Arity, Calls, Held, Pairs, Branches, Jumps, Evaluates, Simple
  <2>3. s1 \in Seq(X)
    <3>1. 1 \in 1..n /\ c.next + 1 \in c.next..c.next + Held(tree[m], 1) /\ Held(tree[m], 1) > 1 - 1
      BY <1>1, <2>2
    <3> HIDE DEF L, n, part, X
    <3> QED BY <1>y, <2>2, <3>1
  <2>4. s2 \in Seq(X)
    <3>1. last \in I /\ slot \in L
      BY <1>3, <1>9, <1>x, <2>2
    <3> HIDE DEF L, I, A, X, last, slot
    <3> QED BY <1>d, <1>v, <3>1
  <2> HIDE DEF s1, s2, X
  <2> QED BY <2>1, <2>3, <2>4, InTurn
<1>10. CASE kind = "indexassign"
  <2> DEFINE s(i) == part(i, Scratch(c.next + i - 1), c.next + 3, Slots(c.next, i - 1))
             s4 == Drop(last, Slots(c.next, 3))
  <2>1. emit_stmt(tree, m, c, list) = s(1) \o s(2) \o s(3) \o s4
    BY <1>10 DEF emit_stmt, Loops, Jumps
  <2>2. n = 3 /\ \A i \in 1..3 : Held(tree[m], i) = 3 /\ Evaluates(kind, i)
    BY <1>7, <1>10 DEF Arity, Calls, Held, Pairs, Branches, Jumps, Evaluates, Simple
  <2>3. ASSUME NEW i \in 1..3 PROVE s(i) \in Seq(X)
    <3>1. i \in 1..n /\ c.next + 3 \in c.next..c.next + Held(tree[m], i) /\ Held(tree[m], i) > i - 1
          /\ Evaluates(kind, i)
      BY <1>1, <2>2
    <3> HIDE DEF L, n, part, X
    <3> QED BY <1>y, <3>1
  <2>4. s4 \in Seq(X)
    <3>1. last \in I /\ 1 \in 1..n /\ 3 \in 0..Held(tree[m], 1)
      BY <1>3, <1>10, <2>2
    <3> HIDE DEF L, I, A, X, last, n
    <3> QED BY <1>d, <1>s, <3>1
  <2>5. s(1) \in Seq(X) /\ s(2) \in Seq(X) /\ s(3) \in Seq(X)
    <3> HIDE DEF s, X
    <3> QED BY <2>3
  <2> HIDE DEF s, s4, X
  <2> QED BY <2>1, <2>4, <2>5, InTurn
<1>11. CASE kind = "print"
  <2> DEFINE s1 == part(1, Scratch(c.next + 1 - 1), c.next + 2, Slots(c.next, 1 - 1))
             s2 == Compute("call", last - 1, <<>>, <<slot>>, Scratch(c.next + 1))
             s3 == Drop(last, <<Scratch(c.next + 1)>>)
  <2>1. emit_stmt(tree, m, c, list) = s1 \o s2 \o s3
    BY <1>11 DEF emit_stmt, Loops, Jumps
  <2>2. n = 1 /\ Held(tree[m], 1) = 2 /\ Evaluates(kind, 1)
    BY <1>7, <1>11 DEF Arity, Calls, Held, Pairs, Branches, Jumps, Evaluates, Simple
  <2>3. s1 \in Seq(X)
    <3>1. 1 \in 1..n /\ c.next + 2 \in c.next..c.next + Held(tree[m], 1) /\ Held(tree[m], 1) > 1 - 1
      BY <1>1, <2>2
    <3> HIDE DEF L, n, part, X
    <3> QED BY <1>y, <2>2, <3>1
  <2>4. last \in I /\ last - 1 \in I /\ slot \in L /\ Scratch(c.next + 1) \in L
    <3>1. last - 1 \in I
      BY <1>1, <1>11, Known
    <3>2. 1 \in 1..n /\ 1 \in 0..Held(tree[m], 1) - 1 /\ Held(tree[m], 1) > 0
      BY <2>2
    <3> HIDE DEF L, n, last
    <3> QED BY <1>3, <1>11, <1>6, <1>x, <3>1, <3>2
  <2>5. Len(<<slot>>) \in A
    <3>1. max_args(tree)[m] = max_int(Arguments(tree[m]), Most(Parts(tree[m], max_args(tree)), n))
          /\ max_args(tree)[m] \in Nat
      BY ArgsIs
    <3>2. \A i \in 1..n : Parts(tree[m], max_args(tree))[i] \in Nat
      BY PartsBefore, ArgsIs DEF Parts
    <3>3. Most(Parts(tree[m], max_args(tree)), n) \in Nat
      BY <1>1, <3>2, MostUpto
    <3>4. Arguments(tree[m]) = 4 /\ Len(<<slot>>) = 1
      BY <1>11 DEF Arguments, Calls
    <3> HIDE DEF n, slot
    <3> QED BY <3>1, <3>3, <3>4 DEF max_int
  <2>6. s2 \in Seq(X)
    <3>1. "call" \in Ops /\ "call" # "label"
      BY DEF Ops
    <3> HIDE DEF L, I, A, X, last, slot
    <3> QED BY <1>c, <1>v, <2>4, <2>5, <3>1
  <2>7. s3 \in Seq(X)
    <3> HIDE DEF L, I, A, X, last
    <3> QED BY <1>d, <1>v, <2>4
  <2> HIDE DEF s1, s2, s3, X
  <2> QED BY <2>1, <2>3, <2>6, <2>7, InTurn
<1>12. CASE kind = "block"
  <2> DEFINE pieces == [i \in 1..n |-> list[i][[c EXCEPT !.at = place(i)]]]
  <2>1. emit_stmt(tree, m, c, list) = Joined(pieces, n)
    BY <1>12 DEF emit_stmt, Loops, Jumps
  <2>2. ASSUME NEW i \in 1..n PROVE pieces[i] \in Seq(X)
    <3>1. [c EXCEPT !.at = place(i)] =
            [at |-> place(i), next |-> c.next, leaving |-> c.leaving]
      BY DEF StmtContexts
    <3>2. ~Evaluates(kind, i)
      BY <1>12 DEF Evaluates, Expressions, Simple, Calls, Unary, Pairs
    <3>3. c.next \in c.next..c.next + Held(tree[m], i)
      BY <1>1, HeldIs
    <3>4. kid(i, c.next, c.leaving) \in Seq(X)
      <4> HIDE DEF kid, X
      <4> QED BY <1>1, <1>5, <3>2, <3>3
    <3>5. pieces[i] = kid(i, c.next, c.leaving)
      BY <3>1
    <3> QED BY <3>4, <3>5
  <2>3. Joined(pieces, n) \in Seq(X)
    <3>1. n \in 0..n
      BY <1>1
    <3> HIDE DEF pieces, X, n
    <3> QED BY <1>1, <2>2, <3>1, JoinedUpto
  <2> QED BY <2>1, <2>3
<1>13. CASE kind = "if"
  <2> DEFINE kid2(i) == list[i][[c EXCEPT !.at = place(i)]]
             s1 == emit_test(tree, m, c, 1, <<"other", id>>)
             s3 == Go(place(3) - 1, <<>>, <<"join", id>>)
             s4 == Label(<<"other", id>>)
             s6 == Label(<<"join", id>>)
  <2>1. emit_stmt(tree, m, c, list) = s1 \o kid2(2) \o s3 \o s4 \o kid2(3) \o s6
    BY <1>13 DEF emit_stmt, Loops, Jumps
  <2>2. n = 3 /\ Held(tree[m], 1) = 1 /\ Held(tree[m], 2) = 0 /\ Held(tree[m], 3) = 0
    BY <1>7, <1>13 DEF Arity, Calls, Held, Pairs, Branches, Jumps
  <2>3. Evaluates(kind, 1) /\ ~Evaluates(kind, 2) /\ ~Evaluates(kind, 3)
    BY <1>13 DEF Evaluates, Expressions, Simple, Calls, Unary, Pairs
  <2>4. Before(kind, 2) > 0 /\ Before(kind, 3) > 0
    BY <1>13 DEF Before, Branches
  <2>5. s1 \in Seq(X)
    <3>1. 1 \in 1..n /\ 1 + 1 \in 1..n /\ 1 + 1 = 2
      BY <2>2
    <3> HIDE DEF n, X, id
    <3> QED BY <1>j, <1>t, <2>2, <2>3, <2>4, <3>1
  <2>6. ASSUME NEW i \in 2..3 PROVE kid2(i) \in Seq(X)
    <3>1. [c EXCEPT !.at = place(i)] =
            [at |-> place(i), next |-> c.next, leaving |-> c.leaving]
      BY DEF StmtContexts
    <3>2. i \in 1..n /\ c.next \in c.next..c.next + Held(tree[m], i) /\ ~Evaluates(kind, i)
      BY <1>1, <2>2, <2>3
    <3>3. kid(i, c.next, c.leaving) \in Seq(X)
      <4> HIDE DEF kid, X, n
      <4> QED BY <1>1, <1>5, <3>2
    <3> QED BY <3>1, <3>3
  <2>7. kid2(2) \in Seq(X) /\ kid2(3) \in Seq(X)
    <3> HIDE DEF kid2, X
    <3> QED BY <2>6
  <2>8. place(3) - 1 \in I
    <3>1. 3 \in 1..n
      BY <2>2
    <3> QED BY <1>1, <2>4, <3>1, Known
  <2>9. s3 \in Seq(X) /\ s4 \in Seq(X) /\ s6 \in Seq(X)
    <3> HIDE DEF L, I, A, X, id, place
    <3> QED BY <1>g, <1>j, <1>l, <1>v, <2>8
  <2> HIDE DEF s1, s3, s4, s6, kid2, X
  <2> QED BY <2>1, <2>5, <2>7, <2>9, InTurn
<1>u. /\ c.leaving.break \in Labels /\ c.leaving.continue \in Labels /\ UserLabel \in Labels
  BY <1>1, InstructionTypes
<1>14. CASE kind \in Jumps
  <2>1. /\ kind = "break" => emit_stmt(tree, m, c, list) = Go(c.at, <<>>, c.leaving.break)
        /\ kind = "continue" => emit_stmt(tree, m, c, list) = Go(c.at, <<>>, c.leaving.continue)
        /\ kind = "goto" => emit_stmt(tree, m, c, list) = Go(c.at, <<>>, UserLabel)
        /\ kind = "label" => emit_stmt(tree, m, c, list) = Label(UserLabel)
    BY <1>14 DEF emit_stmt, emit_jump, Loops, Jumps
  <2>2. c.at \in I
    BY <1>3, <1>14 DEF Jumps
  <2>3. /\ Go(c.at, <<>>, c.leaving.break) \in Seq(X)
        /\ Go(c.at, <<>>, c.leaving.continue) \in Seq(X)
        /\ Go(c.at, <<>>, UserLabel) \in Seq(X) /\ Label(UserLabel) \in Seq(X)
    <3> HIDE DEF L, I, A, X
    <3> QED BY <1>g, <1>l, <1>u, <1>v, <2>2
  <2> QED BY <1>14, <2>1, <2>3 DEF Jumps
<1>15. CASE kind = "return"
  <2> DEFINE s1 == part(1, slot, c.next + 1, <<>>)
             s2 == Compute("return", last, <<>>, <<slot>>, Nowhere)
  <2>1. emit_stmt(tree, m, c, list) = s1 \o s2
    BY <1>15 DEF emit_stmt, emit_jump, Loops, Jumps
  <2>2. n = 1 /\ Held(tree[m], 1) = 1 /\ Evaluates(kind, 1)
    BY <1>7, <1>15 DEF Arity, Calls, Held, Pairs, Branches, Jumps, Evaluates, Simple
  <2>3. 1 \in 1..n /\ c.next + 1 \in c.next..c.next + Held(tree[m], 1)
    BY <1>1, <2>2
  <2>4. slot \in L
    BY <1>x, <2>2, <2>3
  <2>5. s1 \in Seq(X)
    <3> HIDE DEF L, n, part, X, slot
    <3> QED BY <1>4, <1>v, <2>2, <2>3, <2>4
  <2>6. s2 \in Seq(X)
    <3>1. "return" \in Ops /\ "return" # "label" /\ "return" \notin {"call", "main"} /\ last \in I
      BY <1>3, <1>15 DEF Ops
    <3> HIDE DEF L, I, A, X, last, slot
    <3> QED BY <1>c, <1>v, <2>4, <3>1
  <2> HIDE DEF s1, s2, X
  <2> QED BY <2>1, <2>5, <2>6, InTurn
<1>16. CASE kind = "while"
  <2> DEFINE s1 == Label(<<"top", id>>)
             s2 == emit_test(tree, m, c, 1, <<"done", id>>)
             s3 == kid(2, c.next, Leaving(kind, id))
             s4 == Go(last, <<>>, <<"top", id>>)
             s5 == Label(<<"done", id>>)
  <2>1. emit_stmt(tree, m, c, list) = s1 \o s2 \o s3 \o s4 \o s5
    BY <1>16 DEF emit_stmt, emit_loop, Loops, Jumps
  <2>2. n = 2 /\ Held(tree[m], 1) = 1 /\ Held(tree[m], 2) = 0
    BY <1>7, <1>16 DEF Arity, Calls, Held, Pairs, Branches, Jumps
  <2>3. Evaluates(kind, 1) /\ ~Evaluates(kind, 2)
    BY <1>16 DEF Evaluates, Expressions, Simple, Calls, Unary, Pairs
  <2>4. Before(kind, 1 + 1) > 0
    BY <1>16 DEF Before, Branches
  <2>5. s2 \in Seq(X)
    <3>1. 1 \in 1..n /\ 1 + 1 \in 1..n
      BY <2>2
    <3> HIDE DEF n, X, id
    <3> QED BY <1>j, <1>t, <2>2, <2>3, <2>4, <3>1
  <2>6. s3 \in Seq(X)
    <3>1. 2 \in 1..n /\ c.next \in c.next..c.next + Held(tree[m], 2)
      BY <1>1, <2>2
    <3> HIDE DEF kid, X, n, id
    <3> QED BY <1>h, <1>5, <2>3, <3>1
  <2>7. s1 \in Seq(X) /\ s4 \in Seq(X) /\ s5 \in Seq(X)
    <3>1. last \in I
      BY <1>3, <1>16
    <3> HIDE DEF L, I, A, X, id, last
    <3> QED BY <1>g, <1>j, <1>l, <1>v, <3>1
  <2> HIDE DEF s1, s2, s3, s4, s5, X
  <2> QED BY <2>1, <2>5, <2>6, <2>7, InTurn
<1>17. CASE kind = "for"
  <2> DEFINE s1 == kid(1, c.next, c.leaving)
             s2 == Label(<<"top", id>>)
             s3 == emit_test(tree, m, c, 2, <<"done", id>>)
             s4 == kid(3, c.next, Leaving(kind, id))
             s5 == Label(<<"next", id>>)
             s6 == kid(4, c.next, c.leaving)
             s7 == Go(last, <<>>, <<"top", id>>)
             s8 == Label(<<"done", id>>)
  <2>1. emit_stmt(tree, m, c, list) = s1 \o s2 \o s3 \o s4 \o s5 \o s6 \o s7 \o s8
    BY <1>17 DEF emit_stmt, emit_loop, Loops, Jumps
  <2>2. /\ n = 4 /\ Held(tree[m], 1) = 0 /\ Held(tree[m], 2) = 1
        /\ Held(tree[m], 3) = 0 /\ Held(tree[m], 4) = 0
    BY <1>7, <1>17 DEF Arity, Calls, Held, Pairs, Branches, Jumps
  <2>3. ~Evaluates(kind, 1) /\ Evaluates(kind, 2) /\ ~Evaluates(kind, 3) /\ ~Evaluates(kind, 4)
    BY <1>17 DEF Evaluates, Expressions, Simple, Calls, Unary, Pairs
  <2>4. Before(kind, 2 + 1) > 0
    BY <1>17 DEF Before, Branches
  <2>5. s3 \in Seq(X)
    <3>1. 2 \in 1..n /\ 2 + 1 \in 1..n
      BY <2>2
    <3> HIDE DEF n, X, id
    <3> QED BY <1>j, <1>t, <2>2, <2>3, <2>4, <3>1
  <2>6. s1 \in Seq(X) /\ s4 \in Seq(X) /\ s6 \in Seq(X)
    <3>1. /\ 1 \in 1..n /\ 3 \in 1..n /\ 4 \in 1..n
          /\ c.next \in c.next..c.next + Held(tree[m], 1)
          /\ c.next \in c.next..c.next + Held(tree[m], 3)
          /\ c.next \in c.next..c.next + Held(tree[m], 4)
      BY <1>1, <2>2
    <3> HIDE DEF kid, X, n, id
    <3> QED BY <1>1, <1>h, <1>5, <2>3, <3>1
  <2>7. s2 \in Seq(X) /\ s5 \in Seq(X) /\ s7 \in Seq(X) /\ s8 \in Seq(X)
    <3>1. last \in I
      BY <1>3, <1>17
    <3> HIDE DEF L, I, A, X, id, last
    <3> QED BY <1>g, <1>j, <1>l, <1>v, <3>1
  <2> HIDE DEF s1, s2, s3, s4, s5, s6, s7, s8, X
  <2> QED BY <2>1, <2>5, <2>6, <2>7, InTurn
<1>18. CASE kind = "foreach"
  <2> DEFINE counter == Scratch(c.next + 1)
             staging == Scratch(c.next + 2)
             boxed == Scratch(c.next + 3)
             s1 == part(1, slot, c.next + 4, <<>>)
             s2 == Enter(id, slot, counter)
             s3 == Label(<<"top", id>>)
             s4 == Until(id + 1, slot, counter, staging, <<"done", id>>)
             s5 == Bind(id + 1, slot, counter, staging, boxed)
             s6 == kid(2, c.next + 4, Leaving(kind, id))
             s7 == Label(<<"next", id>>)
             s8 == Step(last, counter)
             s9 == After(Go(last, <<>>, <<"top", id>>))
             s10 == Label(<<"done", id>>)
  <2>1. emit_stmt(tree, m, c, list) =
          s1 \o s2 \o s3 \o s4 \o s5 \o s6 \o s7 \o s8 \o s9 \o s10
    BY <1>18 DEF emit_stmt, emit_loop, Loops, Jumps
  <2>2. n = 2 /\ Held(tree[m], 1) = 4 /\ Held(tree[m], 2) = 4
    BY <1>7, <1>18 DEF Arity, Calls, Held, Pairs, Branches, Jumps
  <2>3. Evaluates(kind, 1) /\ ~Evaluates(kind, 2)
    BY <1>18 DEF Evaluates, Expressions, Simple, Calls, Unary, Pairs
  <2>4. slot \in L /\ counter \in L /\ staging \in L /\ boxed \in L
    <3>1. 1 \in 1..n /\ 1 \in 0..Held(tree[m], 1) - 1 /\ 2 \in 0..Held(tree[m], 1) - 1
          /\ 3 \in 0..Held(tree[m], 1) - 1 /\ Held(tree[m], 1) > 0
      BY <2>2
    <3> HIDE DEF L, n
    <3> QED BY <1>6, <1>x, <3>1
  <2>5. s1 \in Seq(X)
    <3>1. 1 \in 1..n /\ c.next + 4 \in c.next..c.next + Held(tree[m], 1)
      BY <1>1, <2>2
    <3> HIDE DEF L, n, part, X, slot
    <3> QED BY <1>4, <1>v, <2>3, <2>4, <3>1
  <2>6. s6 \in Seq(X)
    <3>1. 2 \in 1..n /\ c.next + 4 \in c.next..c.next + Held(tree[m], 2)
      BY <1>1, <2>2
    <3> HIDE DEF kid, X, n, id
    <3> QED BY <1>h, <1>5, <2>3, <3>1
  <2>7. last \in I /\ id \in I /\ id + 1 \in I
    BY <1>1, <1>3, <1>18, Known
  <2>8. s2 \in Seq(X) /\ s4 \in Seq(X) /\ s5 \in Seq(X) /\ s8 \in Seq(X)
    <3> DEFINE to == <<"done", id>>
               each == id + 1
    <3>1. to \in Labels /\ Nowhere \in L
      BY <1>2, <1>j
    <3>2. L \in SUBSET Locations /\ I \in SUBSET Nat
      BY <1>2, <1>3
    <3>3. id \in I /\ each \in I /\ last \in I
      BY <2>7
    <3> HIDE DEF L, I, A, id, last, slot, counter, staging, boxed, to, each
    <3>4. /\ Enter(id, slot, counter) \in Seq(Using(L, A, I))
          /\ Until(each, slot, counter, staging, to) \in Seq(Using(L, A, I))
          /\ Bind(each, slot, counter, staging, boxed) \in Seq(Using(L, A, I))
          /\ Step(last, counter) \in Seq(Using(L, A, I))
      BY <2>4, <3>1, <3>2, <3>3, ForeachUsing
    <3> QED BY <3>4 DEF to, each
  <2>9. s3 \in Seq(X) /\ s7 \in Seq(X) /\ s9 \in Seq(X) /\ s10 \in Seq(X)
    <3> HIDE DEF L, I, A, X, id, last
    <3> QED BY <1>a, <1>g, <1>j, <1>l, <1>v, <2>7
  <2> HIDE DEF s1, s2, s3, s4, s5, s6, s7, s8, s9, s10, X
  <2> QED BY <2>1, <2>5, <2>6, <2>8, <2>9, InTurn
<1> QED BY <1>8, <1>9, <1>10, <1>11, <1>12, <1>13, <1>14, <1>15, <1>16, <1>17, <1>18
        DEF Statements, Simple, Loops

LEMMA StmtRight ==
  ASSUME NEW tree, TreeOK(tree)
  PROVE \A m \in 1..Len(tree) : tree[m].kind \in Statements =>
          \A c \in StmtContexts :
            StmtCode(tree)[m][c] \in Seq(AsmUsing(tree, m, c.at, Nowhere, c.next))
<1> DEFINE Good(m) == tree[m].kind \in Statements =>
             \A c \in StmtContexts :
               StmtCode(tree)[m][c] \in Seq(AsmUsing(tree, m, c.at, Nowhere, c.next))
           S == {m \in 1..Len(tree) : Good(m)}
<1>1. ASSUME NEW m \in 1..Len(tree), \A k \in 1..m - 1 : k \in S PROVE m \in S
  <2>1. SUFFICES ASSUME tree[m].kind \in Statements, NEW c \in StmtContexts
                 PROVE StmtCode(tree)[m][c] \in Seq(AsmUsing(tree, m, c.at, Nowhere, c.next))
    OBVIOUS
  <2> DEFINE list == Parts(tree[m], StmtCode(tree))
  <2>2. ASSUME NEW i \in 1..Len(tree[m].kids), ~Evaluates(tree[m].kind, i), NEW d \in StmtContexts
        PROVE list[i][d] \in Seq(AsmUsing(tree, tree[m].kids[i], d.at, Nowhere, d.next))
    <3>2. tree[m].kids[i] \in 1..m - 1 /\ tree[tree[m].kids[i]].kind \in Statements
      BY <2>2, PartKinds
    <3>3. Good(tree[m].kids[i])
      <4> HIDE DEF Good
      <4> QED BY <1>1, <3>2
    <3>4. list[i] = StmtCode(tree)[tree[m].kids[i]]
      BY DEF Parts
    <3> HIDE DEF list
    <3> QED BY <3>2, <3>3, <3>4
  <2>3. emit_stmt(tree, m, c, list) \in Seq(AsmUsing(tree, m, c.at, Nowhere, c.next))
    <3> HIDE DEF list
    <3> QED BY <2>1, <2>2, EmitStmt
  <2>4. StmtCode(tree)[m] = [k \in StmtContexts |-> emit_stmt(tree, m, k, list)]
    BY StmtCodeIs
  <2>5. StmtCode(tree)[m][c] = emit_stmt(tree, m, c, list)
    <3> HIDE DEF list
    <3> QED BY <2>4
  <2> HIDE DEF list
  <2> QED BY <2>3, <2>5
<1>2. Len(tree) \in Nat
  BY DEF TreeOK
<1>3. \A m \in 1..Len(tree) : m \in S
  <2> HIDE DEF S
  <2> QED BY <1>1, <1>2, Induction
<1> QED BY <1>3

-----------------------------------------------------------------------------
(* The assembler *)

LEMMA UnlabelledIs ==
  ASSUME NEW X, NEW list \in Seq(X)
  PROVE LET kept == {list[j] : j \in {k \in 1..Len(list) : list[k].op # "label"}} IN
        /\ \A k \in 0..Len(list) : Unlabelled(list)[k] \in Seq(kept)
        /\ \A j \in 1..Len(list) : list[j].op # "label" =>
             \E i \in 1..Len(Unlabelled(list)[Len(list)]) :
               Unlabelled(list)[Len(list)][i] = list[j]
<1> DEFINE N == Len(list)
           kept == {list[j] : j \in {k \in 1..N : list[k].op # "label"}}
           V == Seq(kept)
           step == [i \in 1..N |-> [v \in V |->
                      IF list[i].op = "label" THEN v ELSE Append(v, list[i])]]
           Is(u) == u = [i \in 0..N |->
                      IF i = 0 THEN <<>>
                      ELSE IF list[i].op = "label" THEN u[i - 1] ELSE Append(u[i - 1], list[i])]
           h == CHOOSE u : Is(u)
<1>1. N \in Nat
  OBVIOUS
<1>2. step \in [1..N -> [V -> V]]
  <2>1. ASSUME NEW i \in 1..N, NEW v \in V
        PROVE (IF list[i].op = "label" THEN v ELSE Append(v, list[i])) \in V
    <3>1. CASE list[i].op = "label"
      BY <3>1
    <3>2. CASE list[i].op # "label"
      <4>1. list[i] \in kept
        BY <3>2
      <4> HIDE DEF kept
      <4> QED BY <3>2, <4>1
    <3> QED BY <3>1, <3>2
  <2> HIDE DEF V
  <2> QED BY <2>1
<1>z. <<>> \in V
  OBVIOUS
<1>3. PICK f \in [0..N -> V] : CountsUpAlone(f, N, V, <<>>, step)
  <2> HIDE DEF step, V, N
  <2> QED BY <1>1, <1>2, <1>z, UptoRecursion
<1>4. /\ f[0] = <<>>
      /\ \A i \in 1..N : f[i] = step[i][f[i - 1]] /\ f[i - 1] \in V
  <2>1. \A i \in 1..N : f[i - 1] \in V
    <3> HIDE DEF V
    <3> QED BY <1>3
  <2> HIDE DEF step, V
  <2> QED BY <1>3, <2>1 DEF CountsUpAlone, CountsUp
<1>5. ASSUME NEW i \in 1..N
      PROVE f[i] = IF list[i].op = "label" THEN f[i - 1] ELSE Append(f[i - 1], list[i])
  <2> HIDE DEF V
  <2> QED BY <1>4
<1>6. Is(f)
  <2>1. ASSUME NEW i \in 0..N
        PROVE f[i] = IF i = 0 THEN <<>>
                     ELSE IF list[i].op = "label" THEN f[i - 1] ELSE Append(f[i - 1], list[i])
    <3>1. i = 0 \/ (i # 0 /\ i \in 1..N)
      BY <1>1
    <3> HIDE DEF V
    <3> QED BY <1>4, <1>5, <3>1
  <2> HIDE DEF V
  <2> QED BY <2>1
<1>7. Is(h)
  <2> HIDE DEF Is
  <2> QED BY <1>6
<1>8. h[0] = <<>> /\ \A i \in 1..N :
        h[i] = IF list[i].op = "label" THEN h[i - 1] ELSE Append(h[i - 1], list[i])
  <2>1. h[0] = <<>>
    <3> HIDE DEF h
    <3> QED BY <1>1, <1>7
  <2>2. ASSUME NEW i \in 1..N
        PROVE h[i] = IF list[i].op = "label" THEN h[i - 1] ELSE Append(h[i - 1], list[i])
    <3>1. i \in 0..N /\ i # 0
      BY <1>1
    <3> HIDE DEF h
    <3> QED BY <1>7, <3>1, Zenon
  <2> HIDE DEF h
  <2> QED BY <2>1, <2>2
<1>9. ASSUME NEW k \in 0..N PROVE h[k] = f[k]
  <2>1. CountsUp(h, k, V, <<>>, step)
    <3>1. ASSUME NEW i \in 1..k, h[i - 1] \in V PROVE h[i] = step[i][h[i - 1]]
      <4>1. i \in 1..N
        BY <1>1
      <4> HIDE DEF h, V
      <4> QED BY <1>8, <3>1, <4>1
    <3> HIDE DEF h, V, step
    <3> QED BY <1>8, <3>1 DEF CountsUp
  <2> HIDE DEF h, V, step
  <2> QED BY <1>3, <2>1 DEF CountsUpAlone
<1>10. Unlabelled(list) = h
  BY DEF Unlabelled
<1>11. \A k \in 0..N : h[k] \in V
  <2> HIDE DEF h, V
  <2> QED BY <1>3, <1>9
<1> DEFINE Has(k) == \A j \in 1..k : list[j].op # "label" =>
                       \E i \in 1..Len(h[k]) : h[k][i] = list[j]
           T == {k \in Nat : Has(k)}
<1>12. ASSUME NEW k \in 1..N, \A m \in 1..k - 1 : m \in T PROVE k \in T
  <2>1. /\ h[k - 1] \in V /\ Len(h[k - 1]) \in Nat /\ k \in Nat
        /\ h[k] = IF list[k].op = "label" THEN h[k - 1] ELSE Append(h[k - 1], list[k])
    <3>1. k - 1 \in 0..N /\ k \in Nat
      OBVIOUS
    <3>2. h[k - 1] \in V
      <4> HIDE DEF h, V
      <4> QED BY <1>11, <3>1
    <3>3. Len(h[k - 1]) \in Nat
      <4> HIDE DEF h, kept
      <4> QED BY <3>2
    <3> HIDE DEF h, V
    <3> QED BY <1>8, <3>1, <3>2, <3>3
  <2>2. \A j \in 1..k - 1 : list[j].op # "label" =>
          \E i \in 1..Len(h[k - 1]) : h[k - 1][i] = list[j]
    <3>1. k = 1 \/ k - 1 \in 1..k - 1
      OBVIOUS
    <3>2. k - 1 \in 1..k - 1 => Has(k - 1)
      <4> HIDE DEF Has
      <4> QED BY <1>12
    <3> HIDE DEF h
    <3> QED BY <3>1, <3>2
  <2>3. CASE list[k].op = "label"
    <3> HIDE DEF h, kept
    <3> QED BY <2>1, <2>2, <2>3
  <2>4. CASE list[k].op # "label"
    <3> DEFINE now == Append(h[k - 1], list[k])
    <3>1. list[k] \in kept
      BY <2>4
    <3>2. /\ Len(now) = Len(h[k - 1]) + 1 /\ now[Len(h[k - 1]) + 1] = list[k]
          /\ \A i \in 1..Len(h[k - 1]) : now[i] = h[k - 1][i]
      <4> HIDE DEF h, kept
      <4> QED BY <2>1, <3>1
    <3>3. h[k] = now
      <4> HIDE DEF h
      <4> QED BY <2>1, <2>4
    <3>4. ASSUME NEW j \in 1..k, list[j].op # "label" PROVE \E i \in 1..Len(now) : now[i] = list[j]
      <4>1. CASE j = k
        <5>1. Len(h[k - 1]) + 1 \in 1..Len(now)
          <6> HIDE DEF h, now
          <6> QED BY <2>1, <3>2
        <5> HIDE DEF h, now
        <5> QED BY <3>2, <4>1, <5>1
      <4>2. CASE j # k
        <5>1. j \in 1..k - 1
          BY <4>2
        <5>2. PICK i \in 1..Len(h[k - 1]) : h[k - 1][i] = list[j]
          <6> HIDE DEF h
          <6> QED BY <2>2, <3>4, <5>1
        <5>3. i \in 1..Len(now) /\ now[i] = list[j]
          <6> HIDE DEF h, now
          <6> QED BY <2>1, <3>2, <5>2
        <5> HIDE DEF h, now
        <5> QED BY <5>3
      <4> QED BY <4>1, <4>2
    <3> HIDE DEF h, now
    <3> QED BY <2>1, <3>3, <3>4
  <2> QED BY <2>3, <2>4
<1>13. \A k \in 1..N : k \in T
  <2> HIDE DEF T
  <2> QED BY <1>1, <1>12, Induction
<1>14. Has(N)
  <2>1. N = 0 \/ N \in 1..N
    BY <1>1
  <2>2. N = 0 => Has(N)
    <3> HIDE DEF h
    <3> QED OBVIOUS
  <2> HIDE DEF Has, N
  <2> QED BY <1>13, <2>1, <2>2
<1> HIDE DEF h
<1> QED BY <1>10, <1>11, <1>14

(* An instruction's address is all that the assembler changes, and a label *)
(* all that it leaves out.                                                 *)
Same(p, q) ==
  /\ p.op = q.op /\ p.item = q.item /\ p.srcs = q.srcs /\ p.dest = q.dest /\ p.spare = q.spare
  /\ q.op # "label"

LEMMA AssembledIs ==
  ASSUME NEW L, NEW A, NEW I, NEW list \in Seq(Using(L, A, I)), Len(list) > 0
  PROVE /\ Len(Assembled(list)) \in Nat
        /\ \A i \in 1..Len(Assembled(list)) : \E j \in 1..Len(list) :
             Same(Assembled(list)[i], list[j])
        /\ \A j \in 1..Len(list) : list[j].op # "label" =>
             \E i \in 1..Len(Assembled(list)) : Same(Assembled(list)[i], list[j])
<1> DEFINE X == Using(L, A, I)
           whole == Unlabelled(list)[Len(list)]
           kept == {list[j] : j \in {k \in 1..Len(list) : list[k].op # "label"}}
           address(to) ==
             LET place == CHOOSE i \in 1..Len(list) : list[i].op = "label" /\ list[i].to = to
             IN 1 + Len(Unlabelled(list)[place])
           linked(ins) ==
             IF ins.op \in {"jz", "jnz", "jump", "until"} THEN [ins EXCEPT !.n = address(ins.to)]
             ELSE ins
<1>1. /\ whole \in Seq(kept)
      /\ \A j \in 1..Len(list) : list[j].op # "label" => \E i \in 1..Len(whole) : whole[i] = list[j]
  <2>1. Len(list) \in 0..Len(list)
    OBVIOUS
  <2> QED BY <2>1, UnlabelledIs
<1>2. ASSUME NEW j \in 1..Len(list), list[j].op # "label" PROVE Same(linked(list[j]), list[j])
  <2>1. list[j] \in X
    OBVIOUS
  <2> HIDE DEF address
  <2> QED BY <1>2, <2>1 DEF Same, Using
<1>3. Assembled(list) = [i \in 1..Len(whole) |-> linked(whole[i])]
  BY DEF Assembled
<1>4. Len(whole) \in Nat
  <2> HIDE DEF whole, kept
  <2> QED BY <1>1
<1>5. Len(Assembled(list)) = Len(whole) /\ \A i \in 1..Len(whole) :
        Assembled(list)[i] = linked(whole[i])
  <2> HIDE DEF linked, whole
  <2> QED BY <1>3, <1>4
<1>6. ASSUME NEW i \in 1..Len(whole)
      PROVE \E j \in 1..Len(list) : list[j].op # "label" /\ whole[i] = list[j]
  <2>1. whole[i] \in kept
    <3> HIDE DEF whole, kept
    <3> QED BY <1>1
  <2> HIDE DEF whole
  <2> QED BY <2>1
<1> HIDE DEF linked, whole
<1>7. ASSUME NEW i \in 1..Len(whole)
      PROVE \E j \in 1..Len(list) : Same(Assembled(list)[i], list[j])
  BY <1>2, <1>5, <1>6
<1>8. ASSUME NEW j \in 1..Len(list), list[j].op # "label"
      PROVE \E i \in 1..Len(whole) : Same(Assembled(list)[i], list[j])
  BY <1>1, <1>2, <1>5, <1>8
<1> QED BY <1>4, <1>5, <1>7, <1>8

-----------------------------------------------------------------------------
(* Assembly: a whole function *)

(* What the end of a function adds to its body's code. *)
AsmEnding(p) ==
  LET end == Size(p.tree)[Len(p.tree)] + 1 IN
  (IF ~p.main THEN Constant(end, <<>>, 0, Scratch(0))
   ELSE IF p.entry /\ ~calls_name(p.tree)[Len(p.tree)]
        THEN Compute("main", end, <<>>, <<>>, Scratch(0)) ELSE <<>>)
    \o Compute("finish", end, <<>>, <<>>, Nowhere)

AsmBody(p) ==
  StmtCode(p.tree)[Len(p.tree)]
    [[at |-> 1, next |-> 0, leaving |-> Leaving("block", 0)]]

AsmHere(p) ==
  {Home, Rax, Nowhere} \cup {Scratch(j) : j \in 0..ScratchCount(p) - 1}

AsmWidths(p) == 0..max_int(1, max_args(p.tree)[Len(p.tree)]) - 1

LEMMA AsmFunctionParts ==
  ASSUME NEW p, TreeOK(p.tree)
  PROVE /\ AsmBody(p) \in Seq(AsmUsing(p.tree, Len(p.tree), 1, Nowhere, 0))
        /\ AsmEnding(p)
             \in Seq(Using(AsmHere(p), AsmWidths(p),
                          {Size(p.tree)[Len(p.tree)] + 1}))
        /\ Len(AsmEnding(p)) > 0
        /\ AsmHere(p) \in SUBSET Locations
<1> DEFINE tree == p.tree
           N == Len(tree)
           end == Size(tree)[N] + 1
           c == [at |-> 1, next |-> 0, leaving |-> Leaving("block", 0)]
           L == AsmHere(p)
           A == AsmWidths(p)
           I == {end}
<1>1. N \in 1..Len(tree) /\ tree[N].kind \in Statements
  BY DEF TreeOK
<1>2. c \in StmtContexts
  BY DEF StmtContexts, Leaving, Labels
<1>3. AsmBody(p) \in Seq(AsmUsing(tree, N, 1, Nowhere, 0))
  <2>1. StmtCode(tree)[N][c] \in Seq(AsmUsing(tree, N, c.at, Nowhere, c.next))
    <3>1. TreeOK(tree)
      OBVIOUS
    <3> HIDE DEF c, N, tree
    <3> QED BY <1>1, <1>2, <3>1, StmtRight
  <2> QED BY <2>1 DEF AsmBody
<1>4. /\ scratch_for(tree)[N] \in Nat /\ max_args(tree)[N] \in Nat /\ Size(tree)[N] \in Nat
  <2>1. TreeOK(tree)
    OBVIOUS
  <2> HIDE DEF N, tree
  <2> QED BY <1>1, <2>1, ScratchIs, ArgsIs, SizeIs
<1>5. 0 \in 0..ScratchCount(p) - 1 /\ ScratchCount(p) \in Nat
  <2> DEFINE s == scratch_for(tree)[N]
  <2>1. ScratchCount(p) = max_int(1, s)
    BY DEF ScratchCount
  <2> HIDE DEF s
  <2>2. s \in Nat
    BY <1>4 DEF s
  <2> QED BY <2>1, <2>2 DEF max_int
<1>6. 0 \in A
  <2> DEFINE s == max_args(tree)[N]
  <2>1. A = 0..max_int(1, s) - 1
    BY DEF AsmWidths
  <2> HIDE DEF s
  <2>2. s \in Nat
    BY <1>4 DEF s
  <2> QED BY <2>1, <2>2 DEF max_int
<1>7. L \in SUBSET Locations /\ Nowhere \in L /\ Scratch(0) \in L
  <2>1. \A j \in Nat : Scratch(j) \in Locations
    BY DEF Scratch, Locations
  <2> QED BY <1>5, <2>1, InstructionTypes DEF AsmHere
<1>8. I \in SUBSET Nat /\ end \in I
  BY <1>4
<1>9. /\ <<>> \in Seq(L) /\ <<>> \in Seq(Locations) /\ Len(<<>>) = 0
      /\ "main" \in Ops /\ "finish" \in Ops
  BY DEF Ops
<1> DEFINE s1 == Constant(end, <<>>, 0, Scratch(0))
           s2 == Compute("main", end, <<>>, <<>>, Scratch(0))
           s3 == Compute("finish", end, <<>>, <<>>, Nowhere)
           first == IF ~p.main THEN s1
                    ELSE IF p.entry /\ ~calls_name(tree)[N] THEN s2 ELSE <<>>
<1>10. s1 \in Seq(Using(L, A, I)) /\ s2 \in Seq(Using(L, A, I)) /\ s3 \in Seq(Using(L, A, I))
  <2>1. 0 \in Int
    OBVIOUS
  <2> HIDE DEF L, A, I, end
  <2>2. Constant(end, <<>>, 0, Scratch(0)) \in Seq(Using(L, A, I))
    BY <1>7, <1>8, <1>9, <2>1, ConstantUsing
  <2>3. Compute("main", end, <<>>, <<>>, Scratch(0)) \in Seq(Using(L, A, I))
    BY <1>6, <1>7, <1>8, <1>9, ComputeUsing
  <2>4. Compute("finish", end, <<>>, <<>>, Nowhere) \in Seq(Using(L, A, I))
    BY <1>6, <1>7, <1>8, <1>9, ComputeUsing
  <2> QED BY <2>2, <2>3, <2>4
<1>11. AsmEnding(p) = first \o s3
  BY DEF AsmEnding
<1>12. Len(s3) = 1
  BY DEF Compute
<1>13. first \in Seq(Using(L, A, I))
  <2> HIDE DEF s1, s2, s3, L, A, I
  <2> QED BY <1>10
<1>14. first \o s3 \in Seq(Using(L, A, I)) /\ Len(first \o s3) > 0
  <2> DEFINE X == Using(L, A, I)
  <2>1. first \in Seq(X) /\ s3 \in Seq(X)
    BY <1>10, <1>13
  <2> HIDE DEF first, s3, L, A, I, X
  <2>2. Len(first \o s3) = Len(first) + Len(s3) /\ Len(first) \in Nat
    BY <2>1
  <2>3. first \o s3 \in Seq(X)
    BY <2>1, InTurn
  <2> QED BY <1>12, <2>2, <2>3 DEF X
<1> QED BY <1>3, <1>7, <1>11, <1>14

LEMMA AsmFunctionIs ==
  ASSUME NEW p, TreeOK(p.tree)
  PROVE /\ AsmFunction(p) = AsmBody(p) \o AsmEnding(p)
        /\ AsmFunction(p)
             \in Seq(Using(AsmHere(p), AsmWidths(p), 1..Size(p.tree)[Len(p.tree)] + 1))
        /\ Len(AsmFunction(p)) > 0
<1> DEFINE tree == p.tree
           N == Len(tree)
           end == Size(tree)[N] + 1
           s1 == AsmBody(p)
           first == IF ~p.main THEN Constant(end, <<>>, 0, Scratch(0))
                    ELSE IF p.entry /\ ~calls_name(tree)[N]
                         THEN Compute("main", end, <<>>, <<>>, Scratch(0)) ELSE <<>>
           finish == Compute("finish", end, <<>>, <<>>, Nowhere)
           X == Using(AsmHere(p), AsmWidths(p), 1..end)
<1>1. AsmFunction(p) = s1 \o first \o finish /\ AsmEnding(p) = first \o finish
  BY DEF AsmFunction, AsmBody, AsmEnding
<1>2. N \in 1..Len(tree) /\ TreeOK(tree)
  BY DEF TreeOK
<1>3. /\ scratch_for(tree)[N] \in Nat /\ max_args(tree)[N] \in Nat /\ Size(tree)[N] \in Nat
  <2> HIDE DEF N, tree
  <2> QED BY <1>2, ScratchIs, ArgsIs, SizeIs
<1>4. 0..scratch_for(tree)[N] - 1 \subseteq 0..ScratchCount(p) - 1
  <2> DEFINE s == scratch_for(tree)[N]
  <2>1. ScratchCount(p) = max_int(1, s)
    BY DEF ScratchCount
  <2>2. s \in Nat
    BY <1>3
  <2> HIDE DEF s
  <2>3. 0..s - 1 \subseteq 0..ScratchCount(p) - 1
    BY <2>1, <2>2 DEF max_int
  <2> QED BY <2>3 DEF s
<1>5. 0..max_args(tree)[N] - 1 \subseteq AsmWidths(p)
  <2> DEFINE s == max_args(tree)[N]
  <2>1. AsmWidths(p) = 0..max_int(1, s) - 1
    BY DEF AsmWidths
  <2>2. s \in Nat
    BY <1>3
  <2> HIDE DEF s
  <2>3. 0..s - 1 \subseteq AsmWidths(p)
    BY <2>1, <2>2 DEF max_int
  <2> QED BY <2>3 DEF s
<1>6. AsmAt(tree, N, Nowhere, 0) \subseteq AsmHere(p)
  BY <1>3, <1>4 DEF AsmAt, AsmHere
<1>7. 1..Final(tree, N, 1) \subseteq 1..end /\ {end} \subseteq 1..end
  BY <1>3 DEF Final
<1>8. s1 \in Seq(AsmUsing(tree, N, 1, Nowhere, 0))
  BY AsmFunctionParts
<1>9. AsmEnding(p) \in Seq(Using(AsmHere(p), AsmWidths(p), {end})) /\ Len(AsmEnding(p)) > 0
  BY AsmFunctionParts
<1>10. s1 \in Seq(X)
  <2> DEFINE L1 == AsmAt(tree, N, Nowhere, 0)
             A1 == 0..max_args(tree)[N] - 1
             I1 == 1..Final(tree, N, 1)
             L == AsmHere(p)
             A == AsmWidths(p)
             I == 1..end
  <2>1. s1 \in Seq(Using(L1, A1, I1))
    BY <1>8 DEF AsmUsing
  <2>2. L1 \subseteq L /\ A1 \subseteq A /\ I1 \subseteq I
    BY <1>5, <1>6, <1>7
  <2> HIDE DEF L1, A1, I1, L, A, I, s1
  <2>3. Seq(Using(L1, A1, I1)) \subseteq Seq(Using(L, A, I))
    BY <2>2, UsingMore
  <2>4. s1 \in Seq(Using(L, A, I))
    BY <2>1, <2>3
  <2> QED BY <2>4 DEF L, A, I
<1>11. AsmEnding(p) \in Seq(X)
  <2> DEFINE L == AsmHere(p)
             A == AsmWidths(p)
             I == 1..end
             I1 == {end}
  <2>1. AsmEnding(p) \in Seq(Using(L, A, I1))
    BY <1>9
  <2>2. L \subseteq L /\ A \subseteq A /\ I1 \subseteq I
    BY <1>7
  <2> HIDE DEF L, A, I, I1
  <2>3. Seq(Using(L, A, I1)) \subseteq Seq(Using(L, A, I))
    BY <2>2, UsingMore
  <2>4. AsmEnding(p) \in Seq(Using(L, A, I))
    BY <2>1, <2>3
  <2> QED BY <2>4 DEF L, A, I
<1>12. \E v, w : (first = <<>> \/ first = <<v>>) /\ finish = <<w>>
  BY DEF Constant, Compute
<1>13. s1 \o first \o finish = s1 \o (first \o finish)
  <2> DEFINE Y == {s1[k] : k \in 1..Len(s1)}
  <2>1. s1 \in Seq(Y)
    <3> HIDE DEF s1
    <3> QED BY <1>10
  <2>2. PICK v, w : (first = <<>> \/ first = <<v>>) /\ finish = <<w>>
    BY <1>12
  <2> DEFINE Z == Y \cup {v, w}
  <2>3. s1 \in Seq(Z)
    <3> HIDE DEF s1, Y
    <3> QED BY <2>1
  <2>4. first \in Seq(Z) /\ finish \in Seq(Z)
    <3>1. v \in Z /\ w \in Z
      OBVIOUS
    <3> HIDE DEF first, finish, Z
    <3>2. <<>> \in Seq(Z) /\ <<v>> \in Seq(Z) /\ <<w>> \in Seq(Z)
      BY <3>1
    <3> QED BY <2>2, <3>2
  <2> HIDE DEF s1, first, finish, Y, Z
  <2> QED BY <2>3, <2>4
<1>14. s1 \o AsmEnding(p) \in Seq(X) /\ Len(s1 \o AsmEnding(p)) > 0
  <2> HIDE DEF s1, X
  <2> QED BY <1>9, <1>10, <1>11
<1>15. AsmFunction(p) = s1 \o AsmEnding(p)
  <2> HIDE DEF s1, first, finish
  <2> QED BY <1>1, <1>13
<1> HIDE DEF s1
<1> QED BY <1>14, <1>15 DEF s1

(* The frame of a function, and where its slots and a call's arguments are *)
(* in it.                                                                  *)
LEMMA FrameRoom ==
  ASSUME NEW frame \in Frames
  PROVE /\ \A j \in 0..frame.scratch - 1 :
             /\ scratch_base(frame) <= loc_scratch(frame, j)
             /\ loc_scratch(frame, j) + HD_VALUE_SIZE <= bound_base(frame)
        /\ \A i \in 0..max_int(4, frame.max_args) - 1 :
             outgoing(frame, i) + 8 <= scratch_base(frame)
<1>1. /\ bound_base(frame) \in Int /\ scratch_base(frame) \in Int /\ frame_size(frame) \in Nat
      /\ 8 * max_int(4, frame.max_args) - frame_size(frame) <= scratch_base(frame)
  BY Bases
<1>2. HD_VALUE_SIZE \in Nat /\ frame.scratch \in Nat /\ frame.max_args \in Nat
  BY SizeAssumption DEF Frames
<1>3. ASSUME NEW j \in 0..frame.scratch - 1
      PROVE /\ scratch_base(frame) <= loc_scratch(frame, j)
            /\ loc_scratch(frame, j) + HD_VALUE_SIZE <= bound_base(frame)
  <2>1. loc_scratch(frame, j) = scratch_base(frame) + j * HD_VALUE_SIZE
    BY DEF loc_scratch
  <2>2. /\ j * HD_VALUE_SIZE \in Nat /\ frame.scratch * HD_VALUE_SIZE \in Nat
        /\ scratch_base(frame) <= scratch_base(frame) + j * HD_VALUE_SIZE
        /\ scratch_base(frame) + j * HD_VALUE_SIZE + HD_VALUE_SIZE
             <= scratch_base(frame) + frame.scratch * HD_VALUE_SIZE
    BY <1>1, <1>2, InTable
  <2>3. scratch_base(frame) = bound_base(frame) - frame.scratch * HD_VALUE_SIZE
    BY DEF scratch_base
  <2>4. scratch_base(frame) + frame.scratch * HD_VALUE_SIZE = bound_base(frame)
    BY <1>1, <2>2, <2>3
  <2> QED BY <2>1, <2>2, <2>4
<1>4. ASSUME NEW i \in 0..max_int(4, frame.max_args) - 1
      PROVE outgoing(frame, i) + 8 <= scratch_base(frame)
  <2>1. max_int(4, frame.max_args) \in Nat
    BY <1>2 DEF max_int
  <2>2. outgoing(frame, i) = 8 * i - frame_size(frame)
    BY DEF outgoing
  <2>3. 8 * i + 8 <= 8 * max_int(4, frame.max_args)
    BY <2>1
  <2> QED BY <1>1, <2>1, <2>2, <2>3
<1> QED BY <1>3, <1>4

(* What the assembled code uses, the emitted list's instructions do. *)
LEMMA AssembledUsing ==
  ASSUME NEW L, NEW A, NEW I, NEW list \in Seq(Using(L, A, I)), Len(list) > 0
  PROVE /\ Len(Assembled(list)) \in Nat
        /\ \A i \in 1..Len(Assembled(list)) :
             LET ins == Assembled(list)[i] IN
             /\ ins.op \in Ops /\ ins.op # "label" /\ ins.item \in I
             /\ ins.srcs \in Seq(L) /\ Uses(ins) \subseteq L
             /\ ins.op \in {"call", "main"} => Len(ins.srcs) \in A
<1> DEFINE code1 == Assembled(list)
<1>1. Len(code1) \in Nat /\ \A i \in 1..Len(code1) :
        \E j \in 1..Len(list) : Same(code1[i], list[j])
  BY AssembledIs
<1>2. ASSUME NEW i \in 1..Len(code1)
      PROVE /\ code1[i].op \in Ops /\ code1[i].op # "label" /\ code1[i].item \in I
            /\ code1[i].srcs \in Seq(L) /\ Uses(code1[i]) \subseteq L
            /\ code1[i].op \in {"call", "main"} => Len(code1[i].srcs) \in A
  <2> HIDE DEF code1
  <2>1. PICK j \in 1..Len(list) : Same(code1[i], list[j])
    BY <1>1
  <2>2. list[j] \in Using(L, A, I)
    OBVIOUS
  <2>3. /\ code1[i].op = list[j].op /\ code1[i].item = list[j].item
        /\ code1[i].srcs = list[j].srcs /\ code1[i].dest = list[j].dest
        /\ code1[i].spare = list[j].spare /\ list[j].op # "label"
    BY <2>1 DEF Same
  <2>4. /\ list[j].op \in Ops /\ (list[j].op # "label" => list[j].item \in I)
        /\ list[j].srcs \in Seq(L) /\ list[j].dest \in L /\ list[j].spare \in L
        /\ list[j].op \in {"call", "main"} => Len(list[j].srcs) \in A
    BY <2>2 DEF Using
  <2>5. \A k \in 1..Len(list[j].srcs) : list[j].srcs[k] \in L
    BY <2>4
  <2>6. Uses(code1[i]) \subseteq L
    BY <2>3, <2>4, <2>5 DEF Uses
  <2> QED BY <2>3, <2>4, <2>6
<1> QED BY <1>1, <1>2

-----------------------------------------------------------------------------
(* The invariant: a body and its code are the program's, as emitted. *)

Emission ==
  /\ program \in Programs
  /\ body = BodyOf(program.tree)
  /\ backend \in Backends
  /\ code = Assembled(Emit(program, backend))

LEMMA UnitKept ==
  ASSUME [Next]_vars
  PROVE UNCHANGED unit
<1>1. CASE UNCHANGED vars
  BY <1>1 DEF vars
<1>2. CASE Next
  BY <1>2 DEF Next, Evaluate, Call, Move, EndStatement, Jump, EnterForeach, TestForeach,
              BindElement, StepForeach, Finish, RuntimeError, Onward
<1> QED BY <1>1, <1>2

LEMMA EmissionHolds == Spec => []Emission
<1>1. Init => Emission
  BY DEF Init, Emission
<1>2. Emission /\ [Next]_vars => Emission'
  BY UnitKept DEF unit, Emission
<1> QED BY <1>1, <1>2, PTL DEF Spec

-----------------------------------------------------------------------------
(* The frame *)

LEMMA AsmFrameHolds ==
  ASSUME Emission
  PROVE FrameHolds
<1> SUFFICES ASSUME backend = "asm"
             PROVE LET frame == [slots |-> 1, scratch |-> ScratchCount(program),
                                 max_args |-> Outgoing(program.tree)] IN
                   /\ \A loc \in Touched : loc[1] = "scratch" =>
                        /\ scratch_base(frame) <= loc_scratch(frame, loc[2])
                        /\ loc_scratch(frame, loc[2]) + HD_VALUE_SIZE <= bound_base(frame)
                   /\ \A i \in 1..Len(code) : code[i].op \in {"call", "main"} =>
                        outgoing(frame, Len(code[i].srcs)) + 8 <= scratch_base(frame)
  BY DEF FrameHolds
<1> DEFINE frame == [slots |-> 1, scratch |-> ScratchCount(program),
                     max_args |-> Outgoing(program.tree)]
           tree == program.tree
           N == Len(tree)
           L == AsmHere(program)
           A == AsmWidths(program)
           I == 1..Size(tree)[N] + 1
           list == AsmFunction(program)
<1>1. TreeOK(tree) /\ N \in 1..Len(tree)
  BY ProgramsAssumption DEF Emission, TreeOK
<1>2. scratch_for(tree)[N] \in Nat /\ max_args(tree)[N] \in Nat
  <2> HIDE DEF N, tree
  <2> QED BY <1>1, ScratchIs, ArgsIs
<1>3. ScratchCount(program) \in Nat
  <2> DEFINE s == scratch_for(tree)[N]
  <2>1. ScratchCount(program) = max_int(1, s)
    BY DEF ScratchCount
  <2>2. s \in Nat
    BY <1>2
  <2> HIDE DEF s
  <2> QED BY <2>1, <2>2 DEF max_int
<1>4. /\ Outgoing(tree) \in Nat
      /\ A \subseteq 0..max_int(4, Outgoing(tree)) - 1
  <2> DEFINE s == max_args(tree)[N]
  <2>1. Outgoing(tree) = max_int(HD_MIN_ARGS, s) /\ A = 0..max_int(1, s) - 1
    BY DEF Outgoing, AsmWidths
  <2>2. s \in Nat /\ HD_MIN_ARGS \in Nat
    BY <1>2, ArgsAssumption
  <2> HIDE DEF s, A
  <2> QED BY <2>1, <2>2 DEF max_int
<1>5. frame \in Frames
  BY <1>3, <1>4 DEF Frames
<1>6. list \in Seq(Using(L, A, I)) /\ Len(list) > 0
  BY <1>1, AsmFunctionIs
<1>7. code = Assembled(list)
  BY DEF Emission, Emit
<1>8. /\ Len(code) \in Nat
      /\ \A i \in 1..Len(code) :
           /\ code[i].op \in Ops /\ code[i].srcs \in Seq(L) /\ Uses(code[i]) \subseteq L
           /\ code[i].op \in {"call", "main"} => Len(code[i].srcs) \in A
  <2> HIDE DEF list, L, A, I
  <2> QED BY <1>6, <1>7, AssembledUsing
<1>9. ASSUME NEW loc \in Touched, loc[1] = "scratch"
      PROVE loc[2] \in 0..ScratchCount(program) - 1
  <2>1. loc \in L
    BY <1>8 DEF Touched
  <2> QED BY <1>9, <2>1 DEF AsmHere, Home, Rax, Nowhere, Scratch
<1>10. /\ \A j \in 0..frame.scratch - 1 :
            /\ scratch_base(frame) <= loc_scratch(frame, j)
            /\ loc_scratch(frame, j) + HD_VALUE_SIZE <= bound_base(frame)
       /\ \A i \in 0..max_int(4, frame.max_args) - 1 :
            outgoing(frame, i) + 8 <= scratch_base(frame)
  <2> HIDE DEF frame
  <2> QED BY <1>5, FrameRoom
<1>11. frame.scratch = ScratchCount(program) /\ frame.max_args = Outgoing(tree)
  OBVIOUS
<1> HIDE DEF frame, A
<1>12. \A loc \in Touched : loc[1] = "scratch" =>
         /\ scratch_base(frame) <= loc_scratch(frame, loc[2])
         /\ loc_scratch(frame, loc[2]) + HD_VALUE_SIZE <= bound_base(frame)
  BY <1>9, <1>10, <1>11
<1>13. \A i \in 1..Len(code) : code[i].op \in {"call", "main"} =>
         outgoing(frame, Len(code[i].srcs)) + 8 <= scratch_base(frame)
  BY <1>4, <1>8, <1>10, <1>11
<1> QED BY <1>12, <1>13 DEF frame

(* emit_asm.c sizes a function's frame by one walk over its statements     *)
(* (scratch_for, max_args) and emits them by another: whatever function    *)
(* it is, every scratch slot the code uses lies between the frame's        *)
(* outgoing arguments and its bound bits, and no call's arguments reach    *)
(* up into the scratch slots.                                              *)
THEOREM FrameHoldsAlways == Spec => []FrameHolds
<1>1. Emission => FrameHolds
  BY AsmFrameHolds
<1> QED BY <1>1, EmissionHolds, PTL

-----------------------------------------------------------------------------
(* C: call sites and their numbers *)

(* Where the elements of a list are among those it is joined to. *)
JoinedWhere(pieces, lens, n) ==
  /\ Len(Joined(pieces, n)) = Total(lens, n)
  /\ \A i \in 1..n : \A j \in 1..Len(pieces[i]) :
       /\ Total(lens, i - 1) + j \in 1..Total(lens, n)
       /\ Joined(pieces, n)[Total(lens, i - 1) + j] = pieces[i][j]

(* Where an element of either of two lists is when they are one. *)
LEMMA InTheFirst ==
  ASSUME NEW S, NEW s \in Seq(S), NEW t \in Seq(S), NEW k \in 1..Len(s)
  PROVE (s \o t)[k] = s[k] /\ k \in 1..Len(s) + Len(t)
<1>1. Len(s) \in Nat /\ Len(t) \in Nat
  OBVIOUS
<1>2. k \in 1..Len(s) + Len(t)
  BY <1>1
<1>3. (s \o t)[k] = s[k]
  BY <1>1
<1> QED BY <1>2, <1>3

LEMMA InTheSecond ==
  ASSUME NEW S, NEW s \in Seq(S), NEW t \in Seq(S), NEW k \in 1..Len(t)
  PROVE Len(s) + k \in 1..Len(s) + Len(t) /\ (s \o t)[Len(s) + k] = t[k]
<1>1. Len(s) \in Nat /\ Len(t) \in Nat
  OBVIOUS
<1>2. Len(s) + k \in 1..Len(s) + Len(t) /\ Len(s) + k > Len(s) /\ Len(s) + k - Len(s) = k
  BY <1>1
<1>3. (s \o t)[Len(s) + k] = t[Len(s) + k - Len(s)]
  BY <1>1, <1>2
<1> QED BY <1>2, <1>3

LEMMA JoinedAt ==
  ASSUME NEW N \in Nat, NEW S, NEW pieces, \A i \in 1..N : pieces[i] \in Seq(S),
         NEW lens, \A i \in 1..N : lens[i] = Len(pieces[i])
  PROVE \A n \in 0..N : JoinedWhere(pieces, lens, n)
<1> DEFINE T == {n \in 1..N : JoinedWhere(pieces, lens, n)}
<1>1. \A i \in 1..N : lens[i] \in Nat
  OBVIOUS
<1>2. /\ Total(lens, 0) = 0
      /\ \A n \in 0..N : Total(lens, n) \in Nat
      /\ \A n \in 1..N : Total(lens, n) = Total(lens, n - 1) + lens[n]
  BY <1>1, TotalUpto
<1>3. /\ Joined(pieces, 0) = <<>>
      /\ \A n \in 0..N : Joined(pieces, n) \in Seq(S)
      /\ \A n \in 1..N : Joined(pieces, n) = Joined(pieces, n - 1) \o pieces[n]
  BY JoinedUpto
<1>4. JoinedWhere(pieces, lens, 0)
  BY <1>2, <1>3 DEF JoinedWhere
<1>5. ASSUME NEW n \in 1..N, \A m \in 1..n - 1 : m \in T PROVE n \in T
  <2>1. JoinedWhere(pieces, lens, n - 1)
    <3>1. CASE n = 1
      BY <1>4, <3>1
    <3>2. CASE n # 1
      <4>1. n - 1 \in 1..n - 1
        BY <3>2
      <4> QED BY <1>5, <4>1
    <3> QED BY <3>1, <3>2
  <2> DEFINE s == Joined(pieces, n - 1)
             t == pieces[n]
  <2>2. n - 1 \in 0..N /\ n \in 0..N
    OBVIOUS
  <2>3. s \in Seq(S) /\ t \in Seq(S) /\ Joined(pieces, n) = s \o t /\ Len(s) = Total(lens, n - 1)
    BY <1>3, <2>1, <2>2 DEF JoinedWhere
  <2>4. Total(lens, n) = Total(lens, n - 1) + Len(t) /\ Total(lens, n - 1) \in Nat
    BY <1>2, <2>2
  <2>5. Len(Joined(pieces, n)) = Total(lens, n)
    <3> HIDE DEF s, t
    <3>0. s \in Seq(S) /\ t \in Seq(S)
      BY <2>3
    <3>1. Len(s \o t) = Len(s) + Len(t)
      BY <3>0
    <3>2. Joined(pieces, n) = s \o t /\ Len(s) = Total(lens, n - 1)
      BY <2>3
    <3>3. Total(lens, n) = Total(lens, n - 1) + Len(t)
      BY <2>4
    <3> QED BY <3>1, <3>2, <3>3
  <2>6. ASSUME NEW i \in 1..n, NEW j \in 1..Len(pieces[i])
        PROVE /\ Total(lens, i - 1) + j \in 1..Total(lens, n)
              /\ Joined(pieces, n)[Total(lens, i - 1) + j] = pieces[i][j]
    <3>1. CASE i = n
      <4>1. j \in 1..Len(t) /\ Total(lens, i - 1) = Len(s)
        BY <2>3, <3>1
      <4>0. s \in Seq(S) /\ t \in Seq(S) /\ j \in 1..Len(t)
        BY <2>3, <4>1
      <4> HIDE DEF s, t
      <4>2. Len(s) + j \in 1..Len(s) + Len(t) /\ (s \o t)[Len(s) + j] = t[j]
        BY <4>0, InTheSecond
      <4> QED BY <2>3, <2>4, <3>1, <4>1, <4>2 DEF t
    <3>2. CASE i # n
      <4>1. i \in 1..n - 1
        BY <3>2
      <4>2. /\ Total(lens, i - 1) + j \in 1..Total(lens, n - 1)
            /\ s[Total(lens, i - 1) + j] = pieces[i][j]
        BY <2>1, <4>1 DEF JoinedWhere
      <4> DEFINE k == Total(lens, i - 1) + j
      <4>3. k \in 1..Len(s) /\ s[k] = pieces[i][j]
        BY <2>3, <4>2
      <4>0. s \in Seq(S) /\ t \in Seq(S)
        BY <2>3
      <4> HIDE DEF s, t, k
      <4>4. (s \o t)[k] = s[k] /\ k \in 1..Len(s) + Len(t)
        BY <4>0, <4>3, InTheFirst
      <4> QED BY <2>3, <2>4, <4>3, <4>4 DEF k
    <3> QED BY <3>1, <3>2
  <2> QED BY <2>5, <2>6 DEF JoinedWhere
<1>6. \A n \in 1..N : n \in T
  <2> HIDE DEF T
  <2> QED BY <1>5, Induction
<1> QED BY <1>4, <1>6

(* What a node's own construct takes comes first, and then its parts', in  *)
(* order.                                                                  *)
OwnFirst(tree, m) ==
  /\ Len(Takes(tree[m])) <= Len(Used(tree)[m])
  /\ \A j \in 1..Len(Takes(tree[m])) : Used(tree)[m][j] = Takes(tree[m])[j]

SlicesOf(tree, m, id) ==
  \A i \in 1..Len(tree[m].kids) : \A j \in 1..Len(Used(tree)[tree[m].kids[i]]) :
    /\ IdOf(tree, m, id, i) - id + j \in 1..Len(Used(tree)[m])
    /\ Used(tree)[m][IdOf(tree, m, id, i) - id + j] = Used(tree)[tree[m].kids[i]][j]

LEMMA SitesOf ==
  ASSUME NEW tree, TreeOK(tree), NEW m \in 1..Len(tree), NEW id \in Nat
  PROVE /\ Used(tree)[m] \in Seq(Nat) /\ Takes(tree[m]) \in Seq(Nat)
        /\ OwnFirst(tree, m)
        /\ \A i \in 1..Len(tree[m].kids) : IdOf(tree, m, id, i) \in Nat
        /\ ~Refuses(tree[m]) => SlicesOf(tree, m, id)
<1> DEFINE N == Len(tree[m].kids)
           own == Takes(tree[m])
           pieces == Parts(tree[m], Used(tree))
           lens == [j \in 1..N |-> Len(Used(tree)[tree[m].kids[j]])]
           rest == IF Refuses(tree[m]) THEN <<>> ELSE Joined(pieces, N)
<1>1. N \in Nat /\ \A i \in 1..N : tree[m].kids[i] \in 1..Len(tree)
  BY PartsBefore
<1>2. \A i \in 1..N : pieces[i] = Used(tree)[tree[m].kids[i]]
  BY DEF Parts
<1>3. \A i \in 1..N : pieces[i] \in Seq(Nat) /\ lens[i] = Len(pieces[i])
  BY <1>1, <1>2, UsedIs
<1>4. own \in Seq(Nat)
  BY <1>1 DEF Takes, Calls
<1>5. Used(tree)[m] \in Seq(Nat) /\ Used(tree)[m] = own \o rest
  BY UsedIs
<1>6. /\ Joined(pieces, N) \in Seq(Nat) /\ JoinedWhere(pieces, lens, N)
      /\ \A i \in 0..N : Total(lens, i) \in Nat
  <2>1. N \in 0..N /\ \A i \in 1..N : lens[i] \in Nat
    BY <1>1, <1>3
  <2> HIDE DEF N, pieces, lens
  <2> QED BY <1>1, <1>3, <2>1, JoinedUpto, JoinedAt, TotalUpto
<1>7. rest \in Seq(Nat)
  <2> HIDE DEF N, pieces
  <2> QED BY <1>6
<1>8. Len(own) <= Len(Used(tree)[m]) /\ \A j \in 1..Len(own) : Used(tree)[m][j] = own[j]
  <2> HIDE DEF own, rest
  <2> QED BY <1>4, <1>5, <1>7
<1>9. ASSUME NEW i \in 1..N PROVE IdOf(tree, m, id, i) = id + Len(own) + Total(lens, i - 1)
  BY DEF IdOf
<1>10. ASSUME NEW i \in 1..N PROVE IdOf(tree, m, id, i) \in Nat
  <2>1. i - 1 \in 0..N
    BY <1>1
  <2>2. Total(lens, i - 1) \in Nat /\ Len(own) \in Nat
    <3> HIDE DEF own, lens, N
    <3> QED BY <1>4, <1>6, <2>1
  <2> HIDE DEF own, lens, N
  <2> QED BY <1>9, <2>2
<1>11. ASSUME ~Refuses(tree[m]), NEW i \in 1..N,
              NEW j \in 1..Len(Used(tree)[tree[m].kids[i]])
       PROVE /\ IdOf(tree, m, id, i) - id + j \in 1..Len(Used(tree)[m])
             /\ Used(tree)[m][IdOf(tree, m, id, i) - id + j] = Used(tree)[tree[m].kids[i]][j]
  <2> DEFINE all == Joined(pieces, N)
             k == Total(lens, i - 1) + j
             p == pieces[i]
  <2>1. p \in Seq(Nat) /\ p = Used(tree)[tree[m].kids[i]]
    BY <1>2, <1>3
  <2>2. k \in 1..Len(all) /\ all[k] = p[j]
    <3>1. j \in 1..Len(p)
      <4> HIDE DEF p
      <4> QED BY <2>1
    <3> HIDE DEF pieces, lens, N
    <3> QED BY <1>6, <3>1 DEF JoinedWhere
  <2>3. all \in Seq(Nat) /\ Used(tree)[m] = own \o all
    BY <1>5, <1>6, <1>11
  <2>4. IdOf(tree, m, id, i) - id + j = Len(own) + k
    <3>1. i - 1 \in 0..N
      BY <1>1
    <3>2. Total(lens, i - 1) \in Nat /\ Len(own) \in Nat
      <4> HIDE DEF own, lens, N
      <4> QED BY <1>4, <1>6, <3>1
    <3>3. j \in Nat
      OBVIOUS
    <3>4. IdOf(tree, m, id, i) = id + Len(own) + Total(lens, i - 1)
      BY <1>9
    <3> DEFINE t == Total(lens, i - 1)
               o == Len(own)
    <3>5. IdOf(tree, m, id, i) = id + o + t /\ t \in Nat /\ o \in Nat
      BY <3>2, <3>4
    <3> HIDE DEF t, o
    <3>6. IdOf(tree, m, id, i) - id + j = o + (t + j)
      BY <3>3, <3>5
    <3> QED BY <3>6 DEF o, t
  <2> HIDE DEF all, k, own, p
  <2>5. Len(own) + k \in 1..Len(own \o all) /\ (own \o all)[Len(own) + k] = all[k]
    BY <1>4, <2>2, <2>3
  <2> QED BY <2>1, <2>2, <2>3, <2>4, <2>5
<1>12. OwnFirst(tree, m)
  BY <1>8 DEF OwnFirst
<1>13. ~Refuses(tree[m]) => SlicesOf(tree, m, id)
  BY <1>11 DEF SlicesOf
<1> HIDE DEF own
<1> QED BY <1>4, <1>5, <1>10, <1>12, <1>13 DEF own

-----------------------------------------------------------------------------
(* C: where values are while a node is executed, and what it is. *)

Room(width) == IF width > 0 THEN width ELSE 1

(* An element of the array of one of the sites numbered from id up. *)
DeclaredFrom(widths, id, loc) ==
  loc[2] \in id..id + Len(widths) - 1 /\ loc[3] < Room(widths[loc[2] - id + 1])

CAt(tree, m, id, dest) ==
  {loc \in Locations : loc[1] = "t" => loc = dest \/ DeclaredFrom(Used(tree)[m], id, loc)}

CUsing(tree, m, at, id, dest) ==
  Using(CAt(tree, m, id, dest), Nat, at..Final(tree, m, at))

(* The array of a construct's own site. *)
LEMMA OwnTemps ==
  ASSUME NEW tree, TreeOK(tree), NEW m \in 1..Len(tree), NEW id \in Nat, NEW dest \in Locations,
         NEW w \in Nat, Takes(tree[m]) = <<w>>
  PROVE /\ \A i \in 0..Room(w) - 1 : Temp(id, i) \in CAt(tree, m, id, dest)
        /\ \A k \in 0..w : /\ Temps(id, k) \in Seq(CAt(tree, m, id, dest))
                           /\ Len(Temps(id, k)) = k
<1>1. Room(w) \in Nat /\ w <= Room(w)
  BY DEF Room
<1>2. /\ Used(tree)[m] \in Seq(Nat) /\ 1 <= Len(Used(tree)[m])
      /\ Used(tree)[m][1] = w
  <2>1. Used(tree)[m] \in Seq(Nat) /\ OwnFirst(tree, m)
    BY SitesOf
  <2>2. Len(Takes(tree[m])) = 1 /\ Takes(tree[m])[1] = w
    OBVIOUS
  <2> QED BY <2>1, <2>2 DEF OwnFirst
<1>3. ASSUME NEW i \in 0..Room(w) - 1 PROVE Temp(id, i) \in CAt(tree, m, id, dest)
  <2>1. i \in Nat /\ i < Room(w)
    BY <1>1
  <2>2. Temp(id, i) \in Locations /\ Temp(id, i)[2] = id /\ Temp(id, i)[3] = i
    BY <2>1 DEF Temp, Locations
  <2>3. id \in id..id + Len(Used(tree)[m]) - 1 /\ id - id + 1 = 1
    BY <1>2
  <2>4. DeclaredFrom(Used(tree)[m], id, Temp(id, i))
    BY <1>2, <2>1, <2>2, <2>3 DEF DeclaredFrom
  <2> QED BY <2>2, <2>4 DEF CAt
<1>4. ASSUME NEW k \in 0..w
      PROVE Temps(id, k) \in Seq(CAt(tree, m, id, dest)) /\ Len(Temps(id, k)) = k
  <2> DEFINE L == CAt(tree, m, id, dest)
  <2>1. ASSUME NEW i \in 1..k PROVE Temp(id, i - 1) \in L
    <3>1. i - 1 \in 0..Room(w) - 1
      BY <1>1
    <3> HIDE DEF L
    <3> QED BY <1>3, <3>1 DEF L
  <2> HIDE DEF L
  <2>2. Temps(id, k) \in Seq(L) /\ Len(Temps(id, k)) = k
    BY <2>1 DEF Temps
  <2> QED BY <2>2 DEF L
<1> QED BY <1>3, <1>4

(* A part's sites and items are among the node's. *)
LEMMA CPart ==
  ASSUME NEW tree, TreeOK(tree), NEW m \in 1..Len(tree), NEW i \in 1..Len(tree[m].kids),
         NEW at \in Nat, NEW id \in Nat, NEW dest \in Locations, ~Refuses(tree[m]),
         NEW d \in CAt(tree, m, id, dest)
  PROVE Seq(CUsing(tree, tree[m].kids[i], Place(tree, m, at, i), IdOf(tree, m, id, i), d))
          \subseteq Seq(CUsing(tree, m, at, id, dest))
<1> DEFINE kid == tree[m].kids[i]
           here == Place(tree, m, at, i)
           first == IdOf(tree, m, id, i)
<1>1. /\ first \in Nat
      /\ \A j \in 1..Len(Used(tree)[kid]) :
           /\ first - id + j \in 1..Len(Used(tree)[m])
           /\ Used(tree)[m][first - id + j] = Used(tree)[kid][j]
  <2>1. first \in Nat /\ SlicesOf(tree, m, id)
    BY SitesOf
  <2> QED BY <2>1 DEF SlicesOf
<1>2. /\ Used(tree)[m] \in Seq(Nat) /\ Used(tree)[kid] \in Seq(Nat)
  <2>1. kid \in 1..Len(tree)
    BY PartsBefore
  <2> QED BY <2>1, UsedIs
<1>3. ASSUME NEW loc \in Locations, DeclaredFrom(Used(tree)[kid], first, loc)
      PROVE DeclaredFrom(Used(tree)[m], id, loc)
  <2> DEFINE j == loc[2] - first + 1
             s == Used(tree)[kid]
             t == Used(tree)[m]
             n == loc[2]
  <2>1. n \in Nat /\ n \in first..first + Len(s) - 1 /\ loc[3] < Room(s[j])
    BY <1>3 DEF DeclaredFrom, Locations
  <2>2. s \in Seq(Nat) /\ t \in Seq(Nat) /\ Len(s) \in Nat /\ Len(t) \in Nat
    BY <1>2
  <2>3. j \in 1..Len(s) /\ j = n - first + 1
    <3>1. ASSUME NEW a \in Nat, NEW b \in Nat, NEW k \in Nat, a \in b..b + k - 1
          PROVE a - b + 1 \in 1..k
      BY <3>1
    <3>2. first \in Nat
      BY <1>1
    <3> HIDE DEF s, t, first, n
    <3>3. n - first + 1 \in 1..Len(s)
      BY <2>1, <2>2, <3>1, <3>2
    <3> QED BY <3>3 DEF n
  <2>4. first - id + j \in 1..Len(t) /\ t[first - id + j] = s[j]
    <3> HIDE DEF s, t, first, j, kid
    <3> QED BY <1>1, <2>3 DEF s, t
  <2>5. first - id + j = n - id + 1 /\ n \in id..id + Len(t) - 1
    <3> HIDE DEF s, t, first, n, j
    <3> QED BY <1>1, <2>1, <2>2, <2>3, <2>4
  <2>6. loc[3] < Room(t[n - id + 1])
    <3> HIDE DEF s, t, first, n, j
    <3> QED BY <2>1, <2>4, <2>5
  <2> QED BY <2>5, <2>6 DEF DeclaredFrom
<1>4. CAt(tree, kid, first, d) \subseteq CAt(tree, m, id, dest)
  <2> HIDE DEF kid, first
  <2> QED BY <1>3 DEF CAt
<1>5. here..Final(tree, kid, here) \subseteq at..Final(tree, m, at)
  BY PartItems
<1> DEFINE L == CAt(tree, m, id, dest)
           I == at..Final(tree, m, at)
           L1 == CAt(tree, kid, first, d)
           I1 == here..Final(tree, kid, here)
<1>6. L1 \subseteq L /\ I1 \subseteq I /\ Nat \subseteq Nat
  BY <1>4, <1>5
<1>7. Seq(Using(L1, Nat, I1)) \subseteq Seq(Using(L, Nat, I))
  <2> HIDE DEF L, I, L1, I1
  <2> QED BY <1>6, UsingMore
<1> QED BY <1>7 DEF CUsing

LEMMA CLocations ==
  ASSUME NEW tree, NEW m, NEW id, NEW dest
  PROVE /\ CAt(tree, m, id, dest) \in SUBSET Locations
        /\ Nowhere \in CAt(tree, m, id, dest)
        /\ dest \in Locations => dest \in CAt(tree, m, id, dest)
        /\ \A k \in Nat : /\ <<"c", k, 0>> \in CAt(tree, m, id, dest)
                          /\ <<"fe", k, 0>> \in CAt(tree, m, id, dest)
BY InstructionTypes DEF CAt, Locations, Nowhere

LEMMA CValueIs ==
  ASSUME NEW tree, TreeOK(tree), NEW m \in 1..Len(tree), NEW i \in 1..Len(tree[m].kids),
         Evaluates(tree[m].kind, i), NEW at \in Nat, NEW id, NEW dest
  PROVE CValue(tree, m, at, i) \in CAt(tree, m, id, dest)
<1> DEFINE kid == tree[m].kids[i]
           here == Place(tree, m, at, i)
<1>1. kid \in 1..Len(tree) /\ tree[kid].kind \in Expressions
  BY PartKinds
<1>2. here \in Nat
  BY Placed
<1>3. tree[kid].kind # "block"
  BY <1>1 DEF Expressions, Calls, Unary, Pairs
<1>4. Final(tree, kid, here) \in Nat
  <2> HIDE DEF kid, here
  <2>1. here <= Final(tree, kid, here) /\ Final(tree, kid, here) \in Int
    BY <1>1, <1>2, <1>3, Known
  <2> QED BY <1>2, <2>1
<1>5. CValue(tree, m, at, i) = <<"c", Final(tree, kid, here), 0>>
  BY DEF CValue
<1> HIDE DEF kid, here
<1> QED BY <1>4, <1>5, CLocations

(* What is emitted for an expression uses its own sites' arrays, if what   *)
(* is emitted for each of its parts does.                                  *)
LEMMA EmitExpression ==
  ASSUME NEW tree, TreeOK(tree), NEW m \in 1..Len(tree), tree[m].kind \in Expressions,
         NEW c \in ExpressionContexts, NEW list,
         \A i \in 1..Len(tree[m].kids) : \A d \in ExpressionContexts :
           list[i][d] \in Seq(CUsing(tree, tree[m].kids[i], d.at, d.id, d.dest))
  PROVE emit_expression(tree, m, c, list) \in Seq(CUsing(tree, m, c.at, c.id, c.dest))
<1> DEFINE n == Len(tree[m].kids)
           kind == tree[m].kind
           L == CAt(tree, m, c.id, c.dest)
           I == c.at..Final(tree, m, c.at)
           X == Using(L, Nat, I)
           kid(i, to, held) == emit_operand(tree, m, c, i, to, held, list)
           value(i) == CValue(tree, m, c.at, i)
           last == Final(tree, m, c.at)
           id == NodeOf(tree, m, c.at)
<1>1. /\ c.at \in Nat /\ c.dest \in Locations /\ c.id \in Nat /\ c.live \in Seq(Locations)
      /\ n \in Nat
  BY PartsBefore DEF ExpressionContexts
<1>2. L \in SUBSET Locations /\ Nowhere \in L /\ c.dest \in L
  BY <1>1, CLocations
<1>3. I \in SUBSET Nat /\ c.at \in I /\ last \in I
  <2>1. c.at <= last /\ last \in Int
    BY <1>1, Known DEF Expressions, Calls, Unary, Pairs
  <2> QED BY <1>1, <2>1
<1>4. ASSUME NEW i \in 1..n, ~Refuses(tree[m]), NEW d \in L, NEW lv \in Seq(Locations)
      PROVE kid(i, d, lv) \in Seq(X)
  <2> DEFINE here == Place(tree, m, c.at, i)
             first == IdOf(tree, m, c.id, i)
             asked == [at |-> here, id |-> first, dest |-> d, live |-> lv]
  <2>1. here \in Nat /\ first \in Nat /\ d \in Locations
    <3>1. here \in Nat
      BY <1>1, Placed
    <3>2. first \in Nat
      BY <1>1, SitesOf
    <3> HIDE DEF L, here, first
    <3> QED BY <1>2, <3>1, <3>2
  <2>2. asked \in ExpressionContexts /\ asked.at = here /\ asked.id = first /\ asked.dest = d
    BY <2>1 DEF ExpressionContexts
  <2>3. list[i][asked] \in Seq(CUsing(tree, tree[m].kids[i], here, first, d))
    <3> HIDE DEF asked, here, first
    <3> QED BY <2>2
  <2>4. Seq(CUsing(tree, tree[m].kids[i], here, first, d))
          \subseteq Seq(CUsing(tree, m, c.at, c.id, c.dest))
    BY <1>1, <1>4, CPart
  <2>5. list[i][asked] \in Seq(CUsing(tree, m, c.at, c.id, c.dest))
    <3> HIDE DEF asked, here, first
    <3> QED BY <2>3, <2>4
  <2> QED BY <2>5 DEF CUsing, emit_operand
<1>5. ASSUME NEW i \in 1..n PROVE value(i) \in L
  <2>1. Evaluates(kind, i)
    BY DEF Evaluates
  <2> QED BY <1>1, <2>1, CValueIs
<1>6. ASSUME NEW w \in Nat, Takes(tree[m]) = <<w>>, NEW k \in 0..w
      PROVE /\ Temps(c.id, k) \in Seq(L) /\ Len(Temps(c.id, k)) = k
            /\ \A i \in 0..Room(w) - 1 : Temp(c.id, i) \in L
  BY <1>1, <1>6, OwnTemps
<1>8. kind \notin {"array", "block"} \cup Calls => n = Arity(kind)
  BY DEF TreeOK, NodeOK
<1>c. ASSUME NEW op \in Ops, op # "label", NEW item \in I, NEW lv \in Seq(Locations),
             NEW srcs \in Seq(L), NEW dest \in L
      PROVE Compute(op, item, lv, srcs, dest) \in Seq(X)
  <2>1. op \in {"call", "main"} => Len(srcs) \in Nat
    OBVIOUS
  <2> HIDE DEF L, I
  <2> QED BY <1>2, <1>3, <1>c, <2>1, ComputeUsing
<1>k. ASSUME NEW item \in I, NEW lv \in Seq(Locations), NEW v \in Int, NEW dest \in L
      PROVE Constant(item, lv, v, dest) \in Seq(X)
  <2> HIDE DEF L, I
  <2> QED BY <1>2, <1>3, ConstantUsing
<1>b. ASSUME NEW op \in {"jz", "jnz"}, NEW item \in I, NEW lv \in Seq(Locations), NEW src \in L,
             NEW to \in Labels
      PROVE Branch(op, item, lv, src, to) \in Seq(X)
  <2> HIDE DEF L, I
  <2> QED BY <1>2, <1>3, BranchUsing
<1>g. ASSUME NEW item \in I, NEW lv \in Seq(Locations), NEW to \in Labels
      PROVE Go(item, lv, to) \in Seq(X)
  <2> HIDE DEF L, I
  <2> QED BY <1>2, <1>3, GoUsing
<1>l. ASSUME NEW to \in Labels PROVE Label(to) \in Seq(X)
  <2> HIDE DEF L, I
  <2> QED BY <1>2, <1>3, LabelUsing
<1>a. ASSUME NEW s \in Seq(X) PROVE After(s) \in Seq(X)
  <2> HIDE DEF L, I
  <2> QED BY AfterUsing
<1>j. /\ id \in Nat /\ <<"settled", id>> \in Labels /\ <<"join", id>> \in Labels
      /\ <<"other", id>> \in Labels
  <2>1. id \in Nat
    BY <1>1, Known
  <2> HIDE DEF id
  <2> QED BY <2>1 DEF Labels
<1>v. /\ \A d \in L : Append(c.live, d) \in Seq(Locations) /\ <<d>> \in Seq(L)
      /\ \A d \in L : \A e \in L : <<d, e>> \in Seq(L)
      /\ <<>> \in Seq(L)
  <2> HIDE DEF L
  <2> QED BY <1>1, <1>2
<1>o. /\ {"eval", "call", "main", "refuse", "truth", "copy"} \subseteq Ops
      /\ "eval" # "label" /\ "call" # "label" /\ "main" # "label" /\ "refuse" # "label"
      /\ "truth" # "label"
  BY DEF Ops
<1> DEFINE Right == emit_expression(tree, m, c, list) \in Seq(X)
<1>q. SUFFICES Right
  BY DEF CUsing
<1>9. CASE kind \in {"value", "mention", "main", "refused"}
  <2> DEFINE op == IF kind \in {"value", "mention"} THEN "eval"
                   ELSE IF Refuses(tree[m]) THEN "refuse" ELSE "main"
  <2>1. emit_expression(tree, m, c, list) = Compute(op, c.at, c.live, <<>>, c.dest)
    BY <1>9 DEF emit_expression, Refuses, Unary, Pairs
  <2>2. op \in Ops /\ op # "label"
    BY <1>9, <1>o
  <2>3. Compute(op, c.at, c.live, <<>>, c.dest) \in Seq(X)
    <3> HIDE DEF L, I, X, op
    <3> QED BY <1>1, <1>2, <1>3, <1>c, <1>v, <2>2
  <2> QED BY <2>1, <2>3
<1>10. CASE kind \in {"and", "or"}
  <2> DEFINE decides == IF kind = "and" THEN "jz" ELSE "jnz"
             bit == IF kind = "and" THEN 0 ELSE 1
             s1 == kid(1, value(1), c.live)
             s2 == Branch(decides, Place(tree, m, c.at, 2) - 1, c.live, value(1), <<"settled", id>>)
             s3 == kid(2, value(2), c.live)
             s4 == Compute("truth", last, c.live, <<value(2)>>, c.dest)
             s5 == After(Go(last, Append(c.live, c.dest), <<"join", id>>))
             s6 == Label(<<"settled", id>>)
             s7 == Constant(id, Append(c.live, value(1)), bit, c.dest)
             s8 == Label(<<"join", id>>)
  <2>1. emit_expression(tree, m, c, list) = s1 \o s2 \o s3 \o s4 \o s5 \o s6 \o s7 \o s8
    BY <1>10 DEF emit_expression, Refuses, Unary, Pairs
  <2>2. n = 2
    BY <1>8, <1>10 DEF Arity, Calls, Pairs, Branches, Jumps
  <2>3. value(1) \in L /\ value(2) \in L
    <3> HIDE DEF L, value, n
    <3> QED BY <1>5, <2>2
  <2>4. s1 \in Seq(X) /\ s3 \in Seq(X)
    <3>1. 1 \in 1..n /\ 2 \in 1..n /\ ~Refuses(tree[m])
      BY <1>10, <2>2 DEF Refuses
    <3> HIDE DEF L, n, kid, X, value
    <3> QED BY <1>1, <1>4, <2>3, <3>1
  <2>5. Place(tree, m, c.at, 2) - 1 \in I /\ id \in I
    <3>1. 2 \in 1..n /\ Before(kind, 2) > 0
      BY <1>10, <2>2 DEF Before, Branches
    <3> QED BY <1>1, <1>10, <3>1, Known
  <2>6. s2 \in Seq(X)
    <3>1. decides \in {"jz", "jnz"}
      OBVIOUS
    <3> HIDE DEF L, I, X, value, id, decides
    <3> QED BY <1>1, <1>b, <1>j, <2>3, <2>5, <3>1
  <2>7. s4 \in Seq(X)
    <3> HIDE DEF L, I, X, value, last
    <3> QED BY <1>1, <1>2, <1>3, <1>c, <1>o, <1>v, <2>3
  <2>8. s5 \in Seq(X)
    <3> HIDE DEF L, I, X, last, id
    <3> QED BY <1>2, <1>3, <1>g, <1>a, <1>j, <1>v
  <2>9. s6 \in Seq(X) /\ s8 \in Seq(X)
    <3> HIDE DEF X, id
    <3> QED BY <1>l, <1>j
  <2>10. s7 \in Seq(X)
    <3>1. bit \in Int
      OBVIOUS
    <3> HIDE DEF L, I, X, value, id, bit
    <3> QED BY <1>2, <1>k, <1>v, <2>3, <2>5, <3>1
  <2> HIDE DEF s1, s2, s3, s4, s5, s6, s7, s8, X
  <2> QED BY <2>1, <2>4, <2>6, <2>7, <2>8, <2>9, <2>10, InTurn
<1>11. CASE kind \in {"array", "call"}
  <2> DEFINE op == IF kind = "call" THEN "call" ELSE "eval"
             pieces == [i \in 1..n |-> kid(i, Temp(c.id, i - 1), c.live \o Temps(c.id, i - 1))]
             s1 == Joined(pieces, n)
             s2 == Compute(op, last, c.live, Temps(c.id, n), c.dest)
  <2>1. emit_expression(tree, m, c, list) = s1 \o s2
    BY <1>11 DEF emit_expression, Refuses, Unary, Pairs
  <2>2. Takes(tree[m]) = <<n>>
    BY <1>11 DEF Takes, Calls
  <2>3. n <= Room(n) /\ Room(n) \in Nat
    BY <1>1 DEF Room
  <2>4. ASSUME NEW i \in 1..n PROVE pieces[i] \in Seq(X)
    <3>1. i - 1 \in 0..n /\ i - 1 \in 0..Room(n) - 1
      BY <1>1, <2>3
    <3>2. Temp(c.id, i - 1) \in L /\ Temps(c.id, i - 1) \in Seq(L)
      <4> HIDE DEF L, n
      <4> QED BY <1>1, <1>6, <2>2, <3>1
    <3>3. c.live \o Temps(c.id, i - 1) \in Seq(Locations)
      <4> HIDE DEF L
      <4> QED BY <1>1, <1>2, <3>2
    <3>4. kid(i, Temp(c.id, i - 1), c.live \o Temps(c.id, i - 1)) \in Seq(X)
      <4>1. ~Refuses(tree[m])
        BY <1>11 DEF Refuses, Unary, Pairs
      <4> HIDE DEF L, n, kid, X
      <4> QED BY <1>4, <3>2, <3>3, <4>1
    <3> HIDE DEF kid, X
    <3> QED BY <3>4
  <2>5. s1 \in Seq(X)
    <3>1. n \in 0..n
      BY <1>1
    <3> HIDE DEF pieces, X, n
    <3> QED BY <1>1, <2>4, <3>1, JoinedUpto
  <2>6. Temps(c.id, n) \in Seq(L)
    <3>1. n \in 0..n
      BY <1>1
    <3> HIDE DEF n, L
    <3> QED BY <1>1, <1>6, <2>2, <3>1
  <2>7. s2 \in Seq(X)
    <3>1. op \in Ops /\ op # "label"
      BY <1>o
    <3> HIDE DEF n, L, I, X, op, last
    <3> QED BY <1>1, <1>2, <1>3, <1>c, <2>6, <3>1
  <2> HIDE DEF s1, s2, X
  <2> QED BY <2>1, <2>5, <2>7, InTurn
<1>12. CASE kind \in Unary
  <2> DEFINE s1 == kid(1, value(1), c.live)
             s2 == Compute("eval", last, c.live, [j \in 1..1 |-> value(j)], c.dest)
  <2>1. emit_expression(tree, m, c, list) = s1 \o s2
    BY <1>12 DEF emit_expression, Refuses, Unary, Pairs
  <2>2. n = 1 /\ ~Refuses(tree[m])
    BY <1>8, <1>12 DEF Refuses, Arity, Calls, Pairs, Branches, Jumps, Unary
  <2>3. value(1) \in L
    <3> HIDE DEF L, value, n
    <3> QED BY <1>5, <2>2
  <2>4. s1 \in Seq(X)
    <3>1. 1 \in 1..n
      BY <2>2
    <3> HIDE DEF L, n, kid, X, value
    <3> QED BY <1>1, <1>4, <2>2, <2>3, <3>1
  <2>5. [j \in 1..1 |-> value(j)] \in Seq(L)
    <3> HIDE DEF L, value
    <3> QED BY <2>3
  <2>6. s2 \in Seq(X)
    <3> DEFINE srcs == [j \in 1..1 |-> value(j)]
    <3>1. srcs \in Seq(L)
      BY <2>5
    <3> HIDE DEF L, I, X, last, srcs
    <3>2. Compute("eval", last, c.live, srcs, c.dest) \in Seq(X)
      BY <1>1, <1>2, <1>3, <1>c, <1>o, <3>1
    <3> QED BY <3>2 DEF srcs
  <2> HIDE DEF s1, s2, X
  <2> QED BY <2>1, <2>4, <2>6, InTurn
<1>13. CASE kind \in Pairs
  <2> DEFINE left == kid(1, value(1), c.live) \o kid(2, value(2), Append(c.live, value(1)))
             right == kid(2, value(2), c.live) \o kid(1, value(1), Append(c.live, value(2)))
             s1 == IF Order = "left" THEN left ELSE right
             s2 == Compute("eval", last, c.live, [j \in 1..2 |-> value(j)], c.dest)
  <2>1. emit_expression(tree, m, c, list) = s1 \o s2
    BY <1>13 DEF emit_expression, Refuses, Unary, Pairs
  <2>2. n = 2 /\ ~Refuses(tree[m])
    BY <1>8, <1>13 DEF Refuses, Arity, Calls, Pairs, Jumps, Branches
  <2>3. value(1) \in L /\ value(2) \in L
    <3> HIDE DEF L, value, n
    <3> QED BY <1>5, <2>2
  <2>4. /\ kid(1, value(1), c.live) \in Seq(X)
        /\ kid(2, value(2), Append(c.live, value(1))) \in Seq(X)
        /\ kid(2, value(2), c.live) \in Seq(X)
        /\ kid(1, value(1), Append(c.live, value(2))) \in Seq(X)
    <3>1. 1 \in 1..n /\ 2 \in 1..n
      BY <2>2
    <3> HIDE DEF L, n, kid, X, value
    <3> QED BY <1>1, <1>4, <1>v, <2>2, <2>3, <3>1
  <2>5. left \in Seq(X) /\ right \in Seq(X)
    <3> HIDE DEF kid, X, value
    <3> QED BY <2>4, InTurn
  <2>6. s1 \in Seq(X)
    <3> HIDE DEF left, right, X
    <3> QED BY <2>5
  <2>7. s2 \in Seq(X)
    <3> DEFINE srcs == [j \in 1..2 |-> value(j)]
    <3>1. srcs \in Seq(L)
      <4> HIDE DEF L, value
      <4> QED BY <2>3
    <3> HIDE DEF L, I, X, last, srcs
    <3>2. Compute("eval", last, c.live, srcs, c.dest) \in Seq(X)
      BY <1>1, <1>2, <1>3, <1>c, <1>o, <3>1
    <3> QED BY <3>2 DEF srcs
  <2> HIDE DEF s1, s2, X
  <2> QED BY <2>1, <2>6, <2>7, InTurn
<1>14. CASE kind = "minus"
  <2> DEFINE zero == <<"c", c.at, 0>>
             s1 == Constant(c.at, c.live, 0, zero)
             s2 == kid(1, value(1), Append(c.live, zero))
             s3 == Compute("eval", last, c.live, <<zero, value(1)>>, c.dest)
  <2>1. emit_expression(tree, m, c, list) = s1 \o s2 \o s3
    BY <1>14 DEF emit_expression, Refuses, Unary, Pairs
  <2>2. n = 1 /\ ~Refuses(tree[m])
    BY <1>8, <1>14 DEF Refuses, Arity, Calls, Pairs, Branches, Jumps
  <2>3. zero \in L /\ value(1) \in L
    <3>1. zero \in L
      BY <1>1, CLocations
    <3> HIDE DEF L, value, n, zero
    <3> QED BY <1>5, <2>2, <3>1
  <2>4. s1 \in Seq(X)
    <3>1. 0 \in Int
      OBVIOUS
    <3> HIDE DEF L, I, X, zero
    <3> QED BY <1>1, <1>3, <1>k, <2>3, <3>1
  <2>5. s2 \in Seq(X)
    <3>1. 1 \in 1..n
      BY <2>2
    <3> HIDE DEF n, kid, X, L, value, zero
    <3> QED BY <1>4, <1>v, <2>2, <2>3, <3>1
  <2>6. s3 \in Seq(X)
    <3> HIDE DEF L, I, X, last, zero, value
    <3> QED BY <1>1, <1>2, <1>3, <1>c, <1>o, <1>v, <2>3
  <2> HIDE DEF s1, s2, s3, X
  <2> QED BY <2>1, <2>4, <2>5, <2>6, InTurn
<1>15. CASE kind = "ternary"
  <2> DEFINE s1 == kid(1, value(1), c.live)
             s2 == Branch("jz", id, c.live, value(1), <<"other", id>>)
             s3 == kid(2, c.dest, c.live)
             s4 == Go(Place(tree, m, c.at, 3) - 1, Append(c.live, c.dest), <<"join", id>>)
             s5 == Label(<<"other", id>>)
             s6 == kid(3, c.dest, c.live)
             s7 == Label(<<"join", id>>)
  <2>1. emit_expression(tree, m, c, list) = s1 \o s2 \o s3 \o s4 \o s5 \o s6 \o s7
    BY <1>15 DEF emit_expression, Refuses, Unary, Pairs
  <2>2. n = 3 /\ ~Refuses(tree[m])
    BY <1>8, <1>15 DEF Refuses, Arity, Calls, Pairs, Branches, Jumps
  <2>3. value(1) \in L
    <3> HIDE DEF L, value, n
    <3> QED BY <1>5, <2>2
  <2>4. s1 \in Seq(X) /\ s3 \in Seq(X) /\ s6 \in Seq(X)
    <3>1. 1 \in 1..n /\ 2 \in 1..n /\ 3 \in 1..n
      BY <2>2
    <3> HIDE DEF L, n, kid, X, value
    <3> QED BY <1>1, <1>2, <1>4, <2>2, <2>3, <3>1
  <2>5. Place(tree, m, c.at, 3) - 1 \in I /\ id \in I
    <3>1. 3 \in 1..n /\ Before(kind, 3) > 0
      BY <1>15, <2>2 DEF Before, Branches
    <3> QED BY <1>1, <1>15, <3>1, Known DEF Branches
  <2>6. s2 \in Seq(X) /\ s4 \in Seq(X)
    <3> HIDE DEF L, I, X, value, id
    <3> QED BY <1>1, <1>2, <1>b, <1>g, <1>j, <1>v, <2>3, <2>5
  <2>7. s5 \in Seq(X) /\ s7 \in Seq(X)
    <3> HIDE DEF X, id
    <3> QED BY <1>l, <1>j
  <2> HIDE DEF s1, s2, s3, s4, s5, s6, s7, X
  <2> QED BY <2>1, <2>4, <2>6, <2>7, InTurn
<1> QED BY <1>9, <1>10, <1>11, <1>12, <1>13, <1>14, <1>15 DEF Expressions, Calls, Refuses

LEMMA ExpressionRight ==
  ASSUME NEW tree, TreeOK(tree)
  PROVE \A m \in 1..Len(tree) : tree[m].kind \in Expressions =>
          \A c \in ExpressionContexts :
            ExpressionCode(tree)[m][c] \in Seq(CUsing(tree, m, c.at, c.id, c.dest))
<1> DEFINE Good(m) == tree[m].kind \in Expressions =>
             \A c \in ExpressionContexts :
               ExpressionCode(tree)[m][c] \in Seq(CUsing(tree, m, c.at, c.id, c.dest))
           S == {m \in 1..Len(tree) : Good(m)}
<1>1. ASSUME NEW m \in 1..Len(tree), \A k \in 1..m - 1 : k \in S PROVE m \in S
  <2>1. SUFFICES ASSUME tree[m].kind \in Expressions, NEW c \in ExpressionContexts
                 PROVE ExpressionCode(tree)[m][c] \in Seq(CUsing(tree, m, c.at, c.id, c.dest))
    OBVIOUS
  <2> DEFINE list == Parts(tree[m], ExpressionCode(tree))
  <2>2. ASSUME NEW i \in 1..Len(tree[m].kids), NEW d \in ExpressionContexts
        PROVE list[i][d] \in Seq(CUsing(tree, tree[m].kids[i], d.at, d.id, d.dest))
    <3>1. Evaluates(tree[m].kind, i)
      BY <2>1 DEF Evaluates
    <3>2. tree[m].kids[i] \in 1..m - 1 /\ tree[tree[m].kids[i]].kind \in Expressions
      BY <3>1, PartKinds
    <3>3. Good(tree[m].kids[i])
      <4> HIDE DEF Good
      <4> QED BY <1>1, <3>2
    <3>4. list[i] = ExpressionCode(tree)[tree[m].kids[i]]
      BY DEF Parts
    <3> HIDE DEF list
    <3> QED BY <3>2, <3>3, <3>4
  <2>3. emit_expression(tree, m, c, list) \in Seq(CUsing(tree, m, c.at, c.id, c.dest))
    <3> HIDE DEF list
    <3> QED BY <2>1, <2>2, EmitExpression
  <2>4. ExpressionCode(tree)[m] = [k \in ExpressionContexts |-> emit_expression(tree, m, k, list)]
    BY ExpressionCodeIs
  <2>5. ExpressionCode(tree)[m][c] = emit_expression(tree, m, c, list)
    <3> HIDE DEF list
    <3> QED BY <2>4
  <2> HIDE DEF list
  <2> QED BY <2>3, <2>5
<1>2. Len(tree) \in Nat
  BY DEF TreeOK
<1>3. \A m \in 1..Len(tree) : m \in S
  <2> HIDE DEF S
  <2> QED BY <1>1, <1>2, Induction
<1> QED BY <1>3

LEMMA ContinueIs ==
  ASSUME NEW tree, TreeOK(tree), NEW m \in 1..Len(tree)
  PROVE continue_label(tree, m) \in BOOLEAN
<1>1. \A k \in 1..Len(tree) : has_own_continue(tree)[k] \in BOOLEAN
  BY OwnContinueIs
<1>2. CASE tree[m].kind = "for"
  <2>1. Len(tree[m].kids) = 4
    BY <1>2 DEF TreeOK, NodeOK, Arity, Calls, Pairs, Jumps, Branches
  <2>2. tree[m].kids[3] \in 1..Len(tree)
    BY <2>1, PartsBefore
  <2> QED BY <1>1, <1>2, <2>2 DEF continue_label
<1>3. CASE tree[m].kind = "foreach"
  <2>1. Len(tree[m].kids) = 2
    BY <1>3 DEF TreeOK, NodeOK, Arity, Calls, Pairs, Jumps, Branches
  <2>2. tree[m].kids[2] \in 1..Len(tree)
    BY <2>1, PartsBefore
  <2> QED BY <1>1, <1>3, <2>2 DEF continue_label
<1>4. CASE tree[m].kind \notin {"for", "foreach"}
  BY <1>4 DEF continue_label
<1> QED BY <1>2, <1>3, <1>4

LEMMA EmitStatement ==
  ASSUME NEW tree, TreeOK(tree), NEW m \in 1..Len(tree), tree[m].kind \in Statements,
         NEW c \in StatementContexts, NEW list,
         \A i \in 1..Len(tree[m].kids) : ~Evaluates(tree[m].kind, i) => \A d \in StatementContexts :
           list[i][d] \in Seq(CUsing(tree, tree[m].kids[i], d.at, d.id, Nowhere))
  PROVE emit_statement(tree, m, c, list) \in Seq(CUsing(tree, m, c.at, c.id, Nowhere))
<1> DEFINE n == Len(tree[m].kids)
           kind == tree[m].kind
           L == CAt(tree, m, c.id, Nowhere)
           I == c.at..Final(tree, m, c.at)
           X == Using(L, Nat, I)
           part(i, to, held) == emit_value(tree, m, c, i, to, held)
           kid(i, loop) == emit_body(tree, m, c, i, loop, list)
           value(i) == CValue(tree, m, c.at, i)
           last == Final(tree, m, c.at)
           id == NodeOf(tree, m, c.at)
           Loopings == [node : Nat, label : BOOLEAN]
<1>1. c.at \in Nat /\ c.id \in Nat /\ c.loop \in Loopings /\ n \in Nat
  BY PartsBefore DEF StatementContexts
<1>2. L \in SUBSET Locations /\ Nowhere \in L
  BY CLocations
<1>3. I \in SUBSET Nat /\ (kind # "block" => c.at \in I /\ last \in I)
  <2>1. (kind # "block" => c.at <= last) /\ last \in Int
    BY <1>1, Known
  <2> QED BY <1>1, <2>1
<1>r. ~Refuses(tree[m])
  BY DEF Refuses, Statements, Simple, Loops, Jumps
<1>4. ASSUME NEW i \in 1..n, Evaluates(kind, i), NEW d \in L, NEW lv \in Seq(Locations)
      PROVE part(i, d, lv) \in Seq(X)
  <2> DEFINE here == Place(tree, m, c.at, i)
             first == IdOf(tree, m, c.id, i)
             asked == [at |-> here, id |-> first, dest |-> d, live |-> lv]
             node == tree[m].kids[i]
  <2>1. here \in Nat /\ first \in Nat /\ d \in Locations
    <3>1. here \in Nat
      BY <1>1, Placed
    <3>2. first \in Nat
      BY <1>1, SitesOf
    <3> HIDE DEF L, here, first
    <3> QED BY <1>2, <3>1, <3>2
  <2>2. asked \in ExpressionContexts /\ asked.at = here /\ asked.id = first /\ asked.dest = d
    BY <2>1 DEF ExpressionContexts
  <2>3. node \in 1..Len(tree) /\ tree[node].kind \in Expressions
    BY <1>4, PartKinds
  <2>4. ExpressionCode(tree)[node][asked] \in Seq(CUsing(tree, node, here, first, d))
    <3> HIDE DEF asked, here, first, node
    <3> QED BY <2>2, <2>3, ExpressionRight
  <2>5. Seq(CUsing(tree, node, here, first, d)) \subseteq Seq(CUsing(tree, m, c.at, c.id, Nowhere))
    BY <1>1, <1>r, CPart, InstructionTypes
  <2>6. ExpressionCode(tree)[node][asked] \in Seq(CUsing(tree, m, c.at, c.id, Nowhere))
    <3> HIDE DEF asked, here, first, node
    <3> QED BY <2>4, <2>5
  <2>7. part(i, d, lv) = ExpressionCode(tree)[node][asked]
    BY DEF emit_value, emit_operand, Parts
  <2> HIDE DEF asked, node, part
  <2> QED BY <2>6, <2>7 DEF CUsing
<1>5. ASSUME NEW i \in 1..n, ~Evaluates(kind, i), NEW loop \in Loopings
      PROVE kid(i, loop) \in Seq(X)
  <2> DEFINE here == Place(tree, m, c.at, i)
             first == IdOf(tree, m, c.id, i)
             inner == [at |-> here, id |-> first, loop |-> loop]
  <2>1. here \in Nat /\ first \in Nat
    <3>1. here \in Nat
      BY <1>1, Placed
    <3>2. first \in Nat
      BY <1>1, SitesOf
    <3> QED BY <3>1, <3>2
  <2>2. inner \in StatementContexts /\ inner.at = here /\ inner.id = first
    BY <2>1 DEF StatementContexts
  <2>3. list[i][inner] \in Seq(CUsing(tree, tree[m].kids[i], here, first, Nowhere))
    <3> HIDE DEF inner, here, first
    <3> QED BY <1>5, <2>2
  <2>4. Seq(CUsing(tree, tree[m].kids[i], here, first, Nowhere))
          \subseteq Seq(CUsing(tree, m, c.at, c.id, Nowhere))
    BY <1>1, <1>2, <1>r, CPart, InstructionTypes
  <2>5. list[i][inner] \in Seq(CUsing(tree, m, c.at, c.id, Nowhere))
    <3> HIDE DEF inner, here, first
    <3> QED BY <2>3, <2>4
  <2> QED BY <2>5 DEF CUsing, emit_body
<1>6. ASSUME NEW w \in Nat, Takes(tree[m]) = <<w>>, NEW k \in 0..w
      PROVE /\ Temps(c.id, k) \in Seq(L) /\ Len(Temps(c.id, k)) = k
            /\ \A i \in 0..Room(w) - 1 : Temp(c.id, i) \in L
  BY <1>1, <1>6, OwnTemps, InstructionTypes
<1>7. kind \notin {"array", "block"} \cup Calls => n = Arity(kind)
  BY DEF TreeOK, NodeOK
<1>c. ASSUME NEW op \in Ops, op # "label", NEW item \in I, NEW lv \in Seq(Locations),
             NEW srcs \in Seq(L), NEW dest \in L
      PROVE Compute(op, item, lv, srcs, dest) \in Seq(X)
  <2>1. op \in {"call", "main"} => Len(srcs) \in Nat
    OBVIOUS
  <2> HIDE DEF L, I
  <2> QED BY <1>2, <1>3, <1>c, <2>1, ComputeUsing
<1>b. ASSUME NEW op \in {"jz", "jnz"}, NEW item \in I, NEW lv \in Seq(Locations), NEW src \in L,
             NEW to \in Labels
      PROVE Branch(op, item, lv, src, to) \in Seq(X)
  <2> HIDE DEF L, I
  <2> QED BY <1>2, <1>3, BranchUsing
<1>g. ASSUME NEW item \in I, NEW lv \in Seq(Locations), NEW to \in Labels
      PROVE Go(item, lv, to) \in Seq(X)
  <2> HIDE DEF L, I
  <2> QED BY <1>2, <1>3, GoUsing
<1>l. ASSUME NEW to \in Labels PROVE Label(to) \in Seq(X)
  <2> HIDE DEF L, I
  <2> QED BY <1>2, <1>3, LabelUsing
<1>a. ASSUME NEW s \in Seq(X) PROVE After(s) \in Seq(X)
  <2> HIDE DEF L, I
  <2> QED BY AfterUsing
<1>d. ASSUME NEW item \in I, NEW srcs \in Seq(L) PROVE Drop(item, srcs) \in Seq(X)
  <2> HIDE DEF L, I
  <2> QED BY <1>2, <1>3, DropUsing
<1>j. /\ id \in Nat /\ <<"join", id>> \in Labels /\ <<"other", id>> \in Labels
      /\ <<"top", id>> \in Labels /\ <<"done", id>> \in Labels /\ <<"next", id>> \in Labels
  <2>1. id \in Nat
    BY <1>1, Known
  <2> HIDE DEF id
  <2> QED BY <2>1 DEF Labels
<1>v. /\ \A d \in L : <<d>> \in Seq(L) /\ d \in Locations
      /\ \A s \in Seq(L) : s \in Seq(Locations)
      /\ <<>> \in Seq(L) /\ <<>> \in Seq(Locations) /\ <<>> \in Seq(X)
  <2> HIDE DEF L
  <2> QED BY <1>2
<1>x. ASSUME NEW i \in 1..n, Evaluates(kind, i) PROVE value(i) \in L
  BY <1>1, <1>x, CValueIs
<1>h. [node |-> id, label |-> continue_label(tree, m)] \in Loopings
  <2>1. continue_label(tree, m) \in BOOLEAN
    BY ContinueIs
  <2> HIDE DEF id
  <2> QED BY <1>j, <2>1
<1> DEFINE Right == emit_statement(tree, m, c, list) \in Seq(X)
<1>q. SUFFICES Right
  BY DEF CUsing
<1>t. ASSUME NEW i \in 1..n, Evaluates(kind, i), i + 1 \in 1..n, Before(kind, i + 1) > 0,
             NEW to \in Labels
      PROVE emit_condition(tree, m, c, i, to) \in Seq(X)
  <2> DEFINE s1 == part(i, value(i), <<>>)
             s2 == Branch("jz", Place(tree, m, c.at, i + 1) - 1, <<>>, value(i), to)
  <2>1. value(i) \in L
    BY <1>t, <1>x
  <2>2. s1 \in Seq(X)
    <3> HIDE DEF L, n, part, X, value
    <3> QED BY <1>4, <1>t, <1>v, <2>1
  <2>3. Place(tree, m, c.at, i + 1) - 1 \in I
    BY <1>1, <1>t, Known
  <2>4. s2 \in Seq(X)
    <3> HIDE DEF L, I, X, value
    <3> QED BY <1>b, <1>v, <2>1, <2>3
  <2>5. emit_condition(tree, m, c, i, to) = s1 \o s2
    BY DEF emit_condition
  <2> HIDE DEF s1, s2, X
  <2> QED BY <2>2, <2>4, <2>5, InTurn
<1>8. CASE kind \in {"declare", "assign", "discard"}
  <2> DEFINE s1 == part(1, value(1), <<>>)
             s2 == Drop(last, <<value(1)>>)
  <2>1. emit_statement(tree, m, c, list) = s1 \o s2
    BY <1>8 DEF emit_statement, Loops, Jumps
  <2>2. n = 1 /\ Evaluates(kind, 1)
    BY <1>7, <1>8 DEF Arity, Calls, Pairs, Branches, Jumps, Evaluates, Simple
  <2>3. value(1) \in L /\ 1 \in 1..n
    <3>1. 1 \in 1..n
      BY <2>2
    <3> HIDE DEF L, value, n
    <3> QED BY <1>x, <2>2, <3>1
  <2>4. s1 \in Seq(X)
    <3> HIDE DEF L, n, part, X, value
    <3> QED BY <1>4, <1>v, <2>2, <2>3
  <2>5. s2 \in Seq(X)
    <3>1. last \in I
      BY <1>3, <1>8
    <3> HIDE DEF L, I, X, last, value
    <3> QED BY <1>d, <1>v, <2>3, <3>1
  <2> HIDE DEF s1, s2, X
  <2> QED BY <2>1, <2>4, <2>5, InTurn
<1>10. CASE kind = "indexassign"
  <2> DEFINE s(i) == part(i, Temp(c.id, i - 1), Temps(c.id, i - 1))
             s4 == Drop(last, Temps(c.id, 3))
             t1 == part(1, Temp(c.id, 0), Temps(c.id, 0))
             t2 == part(2, Temp(c.id, 1), Temps(c.id, 1))
             t3 == part(3, Temp(c.id, 2), Temps(c.id, 2))
  <2>1. emit_statement(tree, m, c, list) = t1 \o t2 \o t3 \o s4
    BY <1>10 DEF emit_statement, Loops, Jumps
  <2>2. n = 3 /\ \A i \in 1..3 : Evaluates(kind, i)
    BY <1>7, <1>10 DEF Arity, Calls, Pairs, Branches, Jumps, Evaluates, Simple
  <2>3. /\ \A k \in 0..3 : Temps(c.id, k) \in Seq(L)
        /\ \A i \in 0..2 : Temp(c.id, i) \in L
    <3>1. Takes(tree[m]) = <<3>> /\ Room(3) = 3 /\ 3 \in Nat
      BY <1>10 DEF Takes, Calls, Room
    <3> HIDE DEF L
    <3> QED BY <1>6, <3>1
  <2>4. ASSUME NEW i \in 1..3 PROVE s(i) \in Seq(X)
    <3>1. i \in 1..n /\ i - 1 \in 0..3 /\ i - 1 \in 0..2 /\ Evaluates(kind, i)
      BY <2>2
    <3>2. Temp(c.id, i - 1) \in L /\ Temps(c.id, i - 1) \in Seq(Locations)
      <4> HIDE DEF L
      <4> QED BY <1>v, <2>3, <3>1
    <3> HIDE DEF L, n, part, X
    <3> QED BY <1>4, <3>1, <3>2
  <2>5. t1 \in Seq(X) /\ t2 \in Seq(X) /\ t3 \in Seq(X)
    <3>1. 1 - 1 = 0 /\ 2 - 1 = 1 /\ 3 - 1 = 2
      OBVIOUS
    <3>2. s(1) \in Seq(X) /\ s(2) \in Seq(X) /\ s(3) \in Seq(X)
      <4> HIDE DEF s, X
      <4> QED BY <2>4
    <3> HIDE DEF part, X
    <3> QED BY <3>1, <3>2
  <2>6. s4 \in Seq(X)
    <3>1. last \in I
      BY <1>3, <1>10
    <3> HIDE DEF L, I, X, last
    <3> QED BY <1>d, <2>3, <3>1
  <2> HIDE DEF t1, t2, t3, s4, X
  <2> QED BY <2>1, <2>5, <2>6, InTurn
<1>11. CASE kind = "print"
  <2> DEFINE answer == <<"c", last - 1, 0>>
             s1 == part(1, Temp(c.id, 0), <<>>)
             s2 == Compute("call", last - 1, <<>>, Temps(c.id, 1), answer)
             s3 == Drop(last, <<answer>>)
  <2>1. emit_statement(tree, m, c, list) = s1 \o s2 \o s3
    BY <1>11 DEF emit_statement, Loops, Jumps
  <2>2. n = 1 /\ Evaluates(kind, 1) /\ 1 \in 1..n
    <3>1. n = 1 /\ Evaluates(kind, 1)
      BY <1>7, <1>11 DEF Arity, Calls, Pairs, Branches, Jumps, Evaluates, Simple
    <3> HIDE DEF n
    <3> QED BY <3>1
  <2>3. Temps(c.id, 1) \in Seq(L) /\ Temp(c.id, 0) \in L
    <3>1. Takes(tree[m]) = <<1>> /\ 0 \in 0..Room(1) - 1 /\ 1 \in Nat /\ 1 \in 0..1
      BY <1>11 DEF Takes, Calls, Room
    <3> HIDE DEF L
    <3> QED BY <1>6, <3>1
  <2>4. last \in I /\ last - 1 \in I
    BY <1>1, <1>3, <1>11, Known
  <2>5. answer \in L
    <3>1. last - 1 \in Nat
      <4> HIDE DEF I, last
      <4> QED BY <1>3, <2>4
    <3> HIDE DEF last
    <3> QED BY <3>1, CLocations
  <2>6. s1 \in Seq(X)
    <3> HIDE DEF L, n, part, X
    <3> QED BY <1>4, <1>v, <2>2, <2>3
  <2>7. s2 \in Seq(X)
    <3>1. "call" \in Ops /\ "call" # "label"
      BY DEF Ops
    <3> HIDE DEF L, I, X, last, answer
    <3> QED BY <1>c, <1>v, <2>3, <2>4, <2>5, <3>1
  <2>8. s3 \in Seq(X)
    <3> HIDE DEF L, I, X, last, answer
    <3> QED BY <1>d, <1>v, <2>4, <2>5
  <2> HIDE DEF s1, s2, s3, X
  <2> QED BY <2>1, <2>6, <2>7, <2>8, InTurn
<1>12. CASE kind = "block"
  <2> DEFINE pieces == [i \in 1..n |-> kid(i, c.loop)]
  <2>1. emit_statement(tree, m, c, list) = Joined(pieces, n)
    BY <1>12 DEF emit_statement, Loops, Jumps
  <2>2. ASSUME NEW i \in 1..n PROVE pieces[i] \in Seq(X)
    <3>1. ~Evaluates(kind, i)
      BY <1>12 DEF Evaluates, Expressions, Simple, Calls, Unary, Pairs
    <3>2. kid(i, c.loop) \in Seq(X)
      <4> HIDE DEF kid, X, n
      <4> QED BY <1>1, <1>5, <3>1
    <3> HIDE DEF kid, X
    <3> QED BY <3>2
  <2>3. Joined(pieces, n) \in Seq(X)
    <3>1. n \in 0..n
      BY <1>1
    <3> HIDE DEF pieces, X, n
    <3> QED BY <1>1, <2>2, <3>1, JoinedUpto
  <2> QED BY <2>1, <2>3
<1>13. CASE kind = "if"
  <2> DEFINE s1 == emit_condition(tree, m, c, 1, <<"other", id>>)
             s2 == kid(2, c.loop)
             s3 == Go(Place(tree, m, c.at, 3) - 1, <<>>, <<"join", id>>)
             s4 == Label(<<"other", id>>)
             s5 == kid(3, c.loop)
             s6 == Label(<<"join", id>>)
  <2>1. emit_statement(tree, m, c, list) = s1 \o s2 \o s3 \o s4 \o s5 \o s6
    BY <1>13 DEF emit_statement, Loops, Jumps
  <2>2. n = 3
    BY <1>7, <1>13 DEF Arity, Calls, Pairs, Branches, Jumps
  <2>3. Evaluates(kind, 1) /\ ~Evaluates(kind, 2) /\ ~Evaluates(kind, 3)
    BY <1>13 DEF Evaluates, Expressions, Simple, Calls, Unary, Pairs
  <2>4. Before(kind, 2) > 0 /\ Before(kind, 3) > 0
    BY <1>13 DEF Before, Branches
  <2>5. s1 \in Seq(X)
    <3>1. 1 \in 1..n /\ 1 + 1 \in 1..n /\ 1 + 1 = 2
      BY <2>2
    <3> HIDE DEF n, X, id
    <3> QED BY <1>j, <1>t, <2>3, <2>4, <3>1
  <2>6. s2 \in Seq(X) /\ s5 \in Seq(X)
    <3>1. 2 \in 1..n /\ 3 \in 1..n
      BY <2>2
    <3> HIDE DEF kid, X, n
    <3> QED BY <1>1, <1>5, <2>3, <3>1
  <2>8. Place(tree, m, c.at, 3) - 1 \in I
    <3>1. 3 \in 1..n
      BY <2>2
    <3> QED BY <1>1, <2>4, <3>1, Known
  <2>9. s3 \in Seq(X) /\ s4 \in Seq(X) /\ s6 \in Seq(X)
    <3> HIDE DEF L, I, X, id
    <3> QED BY <1>g, <1>j, <1>l, <1>v, <2>8
  <2> HIDE DEF s1, s2, s3, s4, s5, s6, X
  <2> QED BY <2>1, <2>5, <2>6, <2>9, InTurn
<1>u. /\ <<"done", c.loop.node>> \in Labels
      /\ <<IF c.loop.label THEN "next" ELSE "top", c.loop.node>> \in Labels
      /\ UserLabel \in Labels
  BY <1>1, InstructionTypes DEF Labels
<1>14. CASE kind \in Jumps
  <2> DEFINE again == <<IF c.loop.label THEN "next" ELSE "top", c.loop.node>>
             out1 == <<"done", c.loop.node>>
  <2>1. /\ kind = "break" => emit_statement(tree, m, c, list) = Go(c.at, <<>>, out1)
        /\ kind = "continue" => emit_statement(tree, m, c, list) = Go(c.at, <<>>, again)
        /\ kind = "goto" => emit_statement(tree, m, c, list) = Go(c.at, <<>>, UserLabel)
        /\ kind = "label" => emit_statement(tree, m, c, list) = Label(UserLabel)
    BY <1>14 DEF emit_statement, emit_leaving, Loops, Jumps
  <2>2. c.at \in I /\ again \in Labels /\ out1 \in Labels
    BY <1>3, <1>14, <1>u DEF Jumps
  <2>3. /\ Go(c.at, <<>>, out1) \in Seq(X)
        /\ Go(c.at, <<>>, again) \in Seq(X)
        /\ Go(c.at, <<>>, UserLabel) \in Seq(X) /\ Label(UserLabel) \in Seq(X)
    <3> HIDE DEF L, I, X, again, out1
    <3> QED BY <1>g, <1>l, <1>u, <1>v, <2>2
  <2> HIDE DEF again, out1
  <2> QED BY <1>14, <2>1, <2>3 DEF Jumps
<1>15. CASE kind = "return"
  <2> DEFINE s1 == part(1, value(1), <<>>)
             s2 == Compute("return", last, <<>>, <<value(1)>>, Nowhere)
  <2>1. emit_statement(tree, m, c, list) = s1 \o s2
    BY <1>15 DEF emit_statement, emit_leaving, Loops, Jumps
  <2>2. n = 1 /\ Evaluates(kind, 1) /\ 1 \in 1..n
    <3>1. n = 1 /\ Evaluates(kind, 1)
      BY <1>7, <1>15 DEF Arity, Calls, Pairs, Branches, Jumps, Evaluates, Simple
    <3> HIDE DEF n
    <3> QED BY <3>1
  <2>3. value(1) \in L
    <3> HIDE DEF L, value, n
    <3> QED BY <1>x, <2>2
  <2>4. s1 \in Seq(X)
    <3> HIDE DEF L, n, part, X, value
    <3> QED BY <1>4, <1>v, <2>2, <2>3
  <2>5. s2 \in Seq(X)
    <3>1. "return" \in Ops /\ "return" # "label" /\ last \in I
      BY <1>3, <1>15 DEF Ops
    <3> HIDE DEF L, I, X, last, value
    <3> QED BY <1>2, <1>c, <1>v, <2>3, <3>1
  <2> HIDE DEF s1, s2, X
  <2> QED BY <2>1, <2>4, <2>5, InTurn
<1> DEFINE within == [node |-> id, label |-> continue_label(tree, m)]
           landing == IF within.label THEN Label(<<"next", id>>) ELSE <<>>
<1>n. landing \in Seq(X)
  <2>1. Label(<<"next", id>>) \in Seq(X)
    <3> HIDE DEF L, I, X, id
    <3> QED BY <1>l, <1>j
  <2> HIDE DEF X, id
  <2> QED BY <1>v, <2>1
<1>16. CASE kind = "while"
  <2> DEFINE s1 == Label(<<"top", id>>)
             s2 == emit_condition(tree, m, c, 1, <<"done", id>>)
             s3 == kid(2, within)
             s4 == Go(last, <<>>, <<"top", id>>)
             s5 == Label(<<"done", id>>)
  <2>1. emit_statement(tree, m, c, list) = s1 \o s2 \o s3 \o s4 \o s5
    BY <1>16 DEF emit_statement, emit_iteration, Loops, Jumps
  <2>2. n = 2
    BY <1>7, <1>16 DEF Arity, Calls, Pairs, Branches, Jumps
  <2>3. Evaluates(kind, 1) /\ ~Evaluates(kind, 2)
    BY <1>16 DEF Evaluates, Expressions, Simple, Calls, Unary, Pairs
  <2>4. Before(kind, 1 + 1) > 0
    BY <1>16 DEF Before, Branches
  <2>5. s2 \in Seq(X)
    <3>1. 1 \in 1..n /\ 1 + 1 \in 1..n
      BY <2>2
    <3> HIDE DEF n, X, id
    <3> QED BY <1>j, <1>t, <2>3, <2>4, <3>1
  <2>6. s3 \in Seq(X)
    <3>1. 2 \in 1..n
      BY <2>2
    <3> HIDE DEF kid, X, n, within
    <3> QED BY <1>h, <1>5, <2>3, <3>1 DEF within
  <2>7. s1 \in Seq(X) /\ s4 \in Seq(X) /\ s5 \in Seq(X)
    <3>1. last \in I
      BY <1>3, <1>16
    <3> HIDE DEF L, I, X, id, last
    <3> QED BY <1>g, <1>j, <1>l, <1>v, <3>1
  <2> HIDE DEF s1, s2, s3, s4, s5, X
  <2> QED BY <2>1, <2>5, <2>6, <2>7, InTurn
<1>17. CASE kind = "for"
  <2> DEFINE s1 == kid(1, c.loop)
             s2 == Label(<<"top", id>>)
             s3 == emit_condition(tree, m, c, 2, <<"done", id>>)
             s4 == kid(3, within)
             s6 == kid(4, c.loop)
             s7 == Go(last, <<>>, <<"top", id>>)
             s8 == Label(<<"done", id>>)
  <2>1. emit_statement(tree, m, c, list) =
          s1 \o s2 \o s3 \o s4 \o landing \o s6 \o s7 \o s8
    BY <1>17 DEF emit_statement, emit_iteration, Loops, Jumps
  <2>2. n = 4
    BY <1>7, <1>17 DEF Arity, Calls, Pairs, Branches, Jumps
  <2>3. ~Evaluates(kind, 1) /\ Evaluates(kind, 2) /\ ~Evaluates(kind, 3) /\ ~Evaluates(kind, 4)
    BY <1>17 DEF Evaluates, Expressions, Simple, Calls, Unary, Pairs
  <2>4. Before(kind, 2 + 1) > 0
    BY <1>17 DEF Before, Branches
  <2>5. s3 \in Seq(X)
    <3>1. 2 \in 1..n /\ 2 + 1 \in 1..n
      BY <2>2
    <3> HIDE DEF n, X, id
    <3> QED BY <1>j, <1>t, <2>3, <2>4, <3>1
  <2>6. s1 \in Seq(X) /\ s4 \in Seq(X) /\ s6 \in Seq(X)
    <3>1. 1 \in 1..n /\ 3 \in 1..n /\ 4 \in 1..n
      BY <2>2
    <3> HIDE DEF kid, X, n, within
    <3> QED BY <1>1, <1>h, <1>5, <2>3, <3>1 DEF within
  <2>7. s2 \in Seq(X) /\ s7 \in Seq(X) /\ s8 \in Seq(X)
    <3>1. last \in I
      BY <1>3, <1>17
    <3> HIDE DEF L, I, X, id, last
    <3> QED BY <1>g, <1>j, <1>l, <1>v, <3>1
  <2> HIDE DEF s1, s2, s3, s4, s6, s7, s8, X, landing
  <2> QED BY <1>n, <2>1, <2>5, <2>6, <2>7, InTurn
<1>18. CASE kind = "foreach"
  <2> DEFINE array == Temp(c.id, 0)
             counter == <<"fe", c.id, 0>>
             s1 == part(1, array, <<>>)
             s2 == Enter(id, array, counter)
             s3 == Label(<<"top", id>>)
             s4 == Until(id + 1, array, counter, Nowhere, <<"done", id>>)
             s5 == Bind(id + 1, array, counter, Nowhere, Nowhere)
             s6 == kid(2, within)
             s8 == Step(last, counter)
             s9 == After(Go(last, <<>>, <<"top", id>>))
             s10 == Label(<<"done", id>>)
  <2>1. emit_statement(tree, m, c, list) =
          s1 \o s2 \o s3 \o s4 \o s5 \o s6 \o landing \o s8 \o s9 \o s10
    BY <1>18 DEF emit_statement, emit_iteration, Loops, Jumps
  <2>2. n = 2
    BY <1>7, <1>18 DEF Arity, Calls, Pairs, Branches, Jumps
  <2>3. Evaluates(kind, 1) /\ ~Evaluates(kind, 2)
    BY <1>18 DEF Evaluates, Expressions, Simple, Calls, Unary, Pairs
  <2>4. array \in L /\ counter \in L
    <3>1. Takes(tree[m]) = <<1>> /\ 0 \in 0..Room(1) - 1 /\ 1 \in Nat /\ 1 \in 0..1
      BY <1>18 DEF Takes, Calls, Room
    <3>2. counter \in L
      BY <1>1, CLocations
    <3> HIDE DEF L, counter
    <3> QED BY <1>6, <3>1, <3>2
  <2>5. s1 \in Seq(X)
    <3>1. 1 \in 1..n
      BY <2>2
    <3> HIDE DEF L, n, part, X, array
    <3> QED BY <1>4, <1>v, <2>3, <2>4, <3>1
  <2>6. s6 \in Seq(X)
    <3>1. 2 \in 1..n
      BY <2>2
    <3> HIDE DEF kid, X, n, within
    <3> QED BY <1>h, <1>5, <2>3, <3>1 DEF within
  <2>7. last \in I /\ id \in I /\ id + 1 \in I
    BY <1>1, <1>3, <1>18, Known
  <2>8. s2 \in Seq(X) /\ s4 \in Seq(X) /\ s5 \in Seq(X) /\ s8 \in Seq(X)
    <3> DEFINE to == <<"done", id>>
               each == id + 1
    <3>1. to \in Labels /\ Nowhere \in L
      BY <1>2, <1>j
    <3>2. L \in SUBSET Locations /\ I \in SUBSET Nat
      BY <1>2, <1>3
    <3>3. id \in I /\ each \in I /\ last \in I
      BY <2>7
    <3> HIDE DEF L, I, id, last, array, counter, to, each
    <3>4. /\ Enter(id, array, counter) \in Seq(Using(L, Nat, I))
          /\ Until(each, array, counter, Nowhere, to) \in Seq(Using(L, Nat, I))
          /\ Bind(each, array, counter, Nowhere, Nowhere) \in Seq(Using(L, Nat, I))
          /\ Step(last, counter) \in Seq(Using(L, Nat, I))
      BY <2>4, <3>1, <3>2, <3>3, ForeachUsing
    <3> QED BY <3>4 DEF to, each
  <2>9. s3 \in Seq(X) /\ s9 \in Seq(X) /\ s10 \in Seq(X)
    <3> HIDE DEF L, I, X, id, last
    <3> QED BY <1>a, <1>g, <1>j, <1>l, <1>v, <2>7
  <2> HIDE DEF s1, s2, s3, s4, s5, s6, s8, s9, s10, X, landing
  <2> QED BY <1>n, <2>1, <2>5, <2>6, <2>8, <2>9, InTurn
<1> QED BY <1>8, <1>10, <1>11, <1>12, <1>13, <1>14, <1>15, <1>16, <1>17, <1>18
        DEF Statements, Simple, Loops

LEMMA StatementRight ==
  ASSUME NEW tree, TreeOK(tree)
  PROVE \A m \in 1..Len(tree) : tree[m].kind \in Statements =>
          \A c \in StatementContexts :
            StatementCode(tree)[m][c] \in Seq(CUsing(tree, m, c.at, c.id, Nowhere))
<1> DEFINE Good(m) == tree[m].kind \in Statements =>
             \A c \in StatementContexts :
               StatementCode(tree)[m][c] \in Seq(CUsing(tree, m, c.at, c.id, Nowhere))
           S == {m \in 1..Len(tree) : Good(m)}
<1>1. ASSUME NEW m \in 1..Len(tree), \A k \in 1..m - 1 : k \in S PROVE m \in S
  <2>1. SUFFICES ASSUME tree[m].kind \in Statements, NEW c \in StatementContexts
                 PROVE StatementCode(tree)[m][c] \in Seq(CUsing(tree, m, c.at, c.id, Nowhere))
    OBVIOUS
  <2> DEFINE list == Parts(tree[m], StatementCode(tree))
  <2>2. ASSUME NEW i \in 1..Len(tree[m].kids), ~Evaluates(tree[m].kind, i),
               NEW d \in StatementContexts
        PROVE list[i][d] \in Seq(CUsing(tree, tree[m].kids[i], d.at, d.id, Nowhere))
    <3>2. tree[m].kids[i] \in 1..m - 1 /\ tree[tree[m].kids[i]].kind \in Statements
      BY <2>2, PartKinds
    <3>3. Good(tree[m].kids[i])
      <4> HIDE DEF Good
      <4> QED BY <1>1, <3>2
    <3>4. list[i] = StatementCode(tree)[tree[m].kids[i]]
      BY DEF Parts
    <3> HIDE DEF list
    <3> QED BY <3>2, <3>3, <3>4
  <2>3. emit_statement(tree, m, c, list) \in Seq(CUsing(tree, m, c.at, c.id, Nowhere))
    <3> HIDE DEF list
    <3> QED BY <2>1, <2>2, EmitStatement
  <2>4. StatementCode(tree)[m] = [k \in StatementContexts |-> emit_statement(tree, m, k, list)]
    BY StatementCodeIs
  <2>5. StatementCode(tree)[m][c] = emit_statement(tree, m, c, list)
    <3> HIDE DEF list
    <3> QED BY <2>4
  <2> HIDE DEF list
  <2> QED BY <2>3, <2>5
<1>2. Len(tree) \in Nat
  BY DEF TreeOK
<1>3. \A m \in 1..Len(tree) : m \in S
  <2> HIDE DEF S
  <2> QED BY <1>1, <1>2, Induction
<1> QED BY <1>3

-----------------------------------------------------------------------------
(* C: a whole function *)

CBody(p) ==
  StatementCode(p.tree)[Len(p.tree)]
    [[at |-> 1, id |-> 0, loop |-> [node |-> 0, label |-> FALSE]]]

CEnding(p) ==
  LET end == Size(p.tree)[Len(p.tree)] + 1 IN
  (IF p.main /\ p.entry /\ ~stmt_calls(p.tree)[Len(p.tree)]
   THEN Compute("main", end, <<>>, <<>>, <<"c", end, 0>>) ELSE <<>>)
    \o Compute("finish", end, <<>>, <<>>, Nowhere)

CHere(p) == CAt(p.tree, Len(p.tree), 0, Nowhere)

LEMMA CFunctionParts ==
  ASSUME NEW p, TreeOK(p.tree)
  PROVE /\ CBody(p) \in Seq(CUsing(p.tree, Len(p.tree), 1, 0, Nowhere))
        /\ CEnding(p) \in Seq(Using(CHere(p), Nat, {Size(p.tree)[Len(p.tree)] + 1}))
        /\ Len(CEnding(p)) > 0
        /\ CFunction(p) = CBody(p) \o CEnding(p)
<1> DEFINE tree == p.tree
           N == Len(tree)
           end == Size(tree)[N] + 1
           c == [at |-> 1, id |-> 0, loop |-> [node |-> 0, label |-> FALSE]]
           L == CHere(p)
           I == {end}
           s1 == CBody(p)
           s2 == Compute("main", end, <<>>, <<>>, <<"c", end, 0>>)
           s3 == Compute("finish", end, <<>>, <<>>, Nowhere)
           first == IF p.main /\ p.entry /\ ~stmt_calls(tree)[N] THEN s2 ELSE <<>>
           X == Using(L, Nat, I)
<1>1. N \in 1..Len(tree) /\ tree[N].kind \in Statements /\ TreeOK(tree)
  BY DEF TreeOK
<1>2. c \in StatementContexts
  BY DEF StatementContexts
<1>3. CBody(p) \in Seq(CUsing(tree, N, 1, 0, Nowhere))
  <2>1. StatementCode(tree)[N][c] \in Seq(CUsing(tree, N, c.at, c.id, Nowhere))
    <3> HIDE DEF c, N, tree
    <3> QED BY <1>1, <1>2, StatementRight
  <2> QED BY <2>1 DEF CBody
<1>4. Size(tree)[N] \in Nat
  <2> HIDE DEF N, tree
  <2> QED BY <1>1, SizeIs
<1>5. end \in Nat
  BY <1>4
<1>6. L \in SUBSET Locations /\ Nowhere \in L /\ <<"c", end, 0>> \in L
  <2> HIDE DEF end
  <2> QED BY <1>5, CLocations DEF CHere
<1>7. /\ <<>> \in Seq(L) /\ <<>> \in Seq(Locations) /\ Len(<<>>) \in Nat
      /\ "main" \in Ops /\ "finish" \in Ops /\ I \in SUBSET Nat /\ end \in I
  BY <1>5 DEF Ops
<1>8. s2 \in Seq(X) /\ s3 \in Seq(X)
  <2> HIDE DEF L, I, end
  <2>1. Compute("main", end, <<>>, <<>>, <<"c", end, 0>>) \in Seq(Using(L, Nat, I))
    BY <1>6, <1>7, ComputeUsing
  <2>2. Compute("finish", end, <<>>, <<>>, Nowhere) \in Seq(Using(L, Nat, I))
    BY <1>6, <1>7, ComputeUsing
  <2> QED BY <2>1, <2>2
<1>9. CEnding(p) = first \o s3 /\ CFunction(p) = s1 \o first \o s3
  BY DEF CEnding, CFunction, CBody
<1>10. Len(s3) = 1
  BY DEF Compute
<1>11. first \in Seq(X)
  <2> HIDE DEF s2, X
  <2> QED BY <1>8
<1>12. first \o s3 \in Seq(X) /\ Len(first \o s3) > 0
  <2>1. first \in Seq(X) /\ s3 \in Seq(X)
    BY <1>8, <1>11
  <2> HIDE DEF first, s3, X
  <2>2. Len(first \o s3) = Len(first) + Len(s3) /\ Len(first) \in Nat
    BY <2>1
  <2>3. first \o s3 \in Seq(X)
    BY <2>1, InTurn
  <2> QED BY <1>10, <2>2, <2>3
<1>13. s1 \o first \o s3 = s1 \o (first \o s3)
  <2> DEFINE Y == {s1[k] : k \in 1..Len(s1)}
             Z == Y \cup X
             U == CUsing(tree, N, 1, 0, Nowhere)
  <2>1. s1 \in Seq(Y)
    <3>1. s1 \in Seq(U)
      BY <1>3
    <3> HIDE DEF s1, U
    <3> QED BY <3>1
  <2>2. s1 \in Seq(Z)
    <3> HIDE DEF s1, Y, X
    <3> QED BY <2>1
  <2>3. first \in Seq(Z) /\ s3 \in Seq(Z)
    <3>1. first \in Seq(X) /\ s3 \in Seq(X)
      BY <1>8, <1>11
    <3> HIDE DEF first, s3, X, Y
    <3> QED BY <3>1
  <2> HIDE DEF s1, first, s3, Z
  <2> QED BY <2>2, <2>3
<1>14. CFunction(p) = CBody(p) \o CEnding(p)
  <2> HIDE DEF first, s3
  <2> QED BY <1>9, <1>13
<1> QED BY <1>3, <1>9, <1>12, <1>14

LEMMA CFunctionIs ==
  ASSUME NEW p, TreeOK(p.tree)
  PROVE /\ CFunction(p) \in Seq(Using(CHere(p), Nat, 1..Size(p.tree)[Len(p.tree)] + 1))
        /\ Len(CFunction(p)) > 0
<1> DEFINE tree == p.tree
           N == Len(tree)
           end == Size(tree)[N] + 1
           s1 == CBody(p)
           s2 == CEnding(p)
           L == CHere(p)
           I == 1..end
           I1 == 1..Final(tree, N, 1)
           X == Using(L, Nat, I)
<1>1. N \in 1..Len(tree) /\ TreeOK(tree)
  BY DEF TreeOK
<1>2. Size(tree)[N] \in Nat
  <2> HIDE DEF N, tree
  <2> QED BY <1>1, SizeIs
<1>3. I1 \subseteq I /\ {end} \subseteq I
  BY <1>2 DEF Final
<1>4. /\ s1 \in Seq(Using(L, Nat, I1)) /\ s2 \in Seq(Using(L, Nat, {end})) /\ Len(s2) > 0
      /\ CFunction(p) = s1 \o s2
  BY CFunctionParts DEF CUsing, CHere
<1>5. s1 \in Seq(X)
  <2>1. L \subseteq L /\ Nat \subseteq Nat /\ I1 \subseteq I
    BY <1>3
  <2> HIDE DEF L, I, I1, s1
  <2>2. Seq(Using(L, Nat, I1)) \subseteq Seq(Using(L, Nat, I))
    BY <2>1, UsingMore
  <2> QED BY <1>4, <2>2
<1>6. s2 \in Seq(X)
  <2> DEFINE I2 == {end}
  <2>1. L \subseteq L /\ Nat \subseteq Nat /\ I2 \subseteq I /\ s2 \in Seq(Using(L, Nat, I2))
    BY <1>3, <1>4
  <2> HIDE DEF L, I, I2, s2
  <2>2. Seq(Using(L, Nat, I2)) \subseteq Seq(Using(L, Nat, I))
    BY <2>1, UsingMore
  <2> QED BY <2>1, <2>2
<1>7. s1 \o s2 \in Seq(X) /\ Len(s1 \o s2) > 0
  <2> HIDE DEF s1, s2, X
  <2> QED BY <1>4, <1>5, <1>6
<1> HIDE DEF s1, s2
<1> QED BY <1>4, <1>7

-----------------------------------------------------------------------------
(* The arrays of the call sites *)

(* If no refused call has calls in its arguments both walks number the     *)
(* sites alike.                                                            *)
LEMMA CountedIsUsed ==
  ASSUME NEW tree, TreeOK(tree), ~RefusesCalls(tree)
  PROVE \A m \in 1..Len(tree) : Used(tree)[m] = Counted(tree)[m]
<1> DEFINE S == {m \in 1..Len(tree) : Used(tree)[m] = Counted(tree)[m]}
<1>1. ASSUME NEW m \in 1..Len(tree), \A k \in 1..m - 1 : k \in S PROVE m \in S
  <2> DEFINE N == Len(tree[m].kids)
             own == Takes(tree[m])
             used == Joined(Parts(tree[m], Used(tree)), N)
             counted == Joined(Parts(tree[m], Counted(tree)), N)
  <2>1. /\ Used(tree)[m] = own \o (IF Refuses(tree[m]) THEN <<>> ELSE used)
        /\ Counted(tree)[m] = own \o counted
    BY UsedIs, CountedIs
  <2>2. CASE ~Refuses(tree[m])
    <3>1. \A k \in 1..m - 1 : Used(tree)[k] = Counted(tree)[k]
      BY <1>1
    <3>2. Parts(tree[m], Used(tree)) = Parts(tree[m], Counted(tree))
      BY <3>1, SameParts
    <3> HIDE DEF own
    <3> QED BY <2>1, <2>2, <3>2
  <2>3. CASE Refuses(tree[m])
    <3>1. N \in Nat /\ N \in 0..N /\ \A i \in 1..N : tree[m].kids[i] \in 1..Len(tree)
      BY PartsBefore
    <3>2. \A i \in 1..N : Parts(tree[m], Counted(tree))[i] \in Seq(Nat)
      BY <3>1, CountedIs DEF Parts
    <3>3. counted \in Seq(Nat)
      <4> HIDE DEF N
      <4> QED BY <3>1, <3>2, JoinedUpto
    <3>4. own \in Seq(Nat) /\ Len(own) = 1
      BY <2>3, <3>1 DEF Refuses, Takes, Calls
    <3>5. Len(Counted(tree)[m]) <= 1
      <4>1. ~(Len(Counted(tree)[m]) > 1)
        BY <2>3 DEF RefusesCalls
      <4>2. Counted(tree)[m] \in Seq(Nat)
        BY CountedIs
      <4> QED BY <4>1, <4>2
    <3> HIDE DEF own, counted, used
    <3>6. Len(own \o counted) = 1 + Len(counted) /\ Len(counted) \in Nat
      <4>1. own \in Seq(Nat) /\ counted \in Seq(Nat)
        BY <3>3, <3>4
      <4>2. Len(own \o counted) = Len(own) + Len(counted) /\ Len(counted) \in Nat
        BY <4>1
      <4> QED BY <3>4, <4>2
    <3>7. Len(counted) = 0
      BY <2>1, <3>5, <3>6
    <3>8. counted = <<>>
      BY <3>3, <3>7
    <3> QED BY <2>1, <2>3, <3>8
  <2> QED BY <2>2, <2>3
<1>2. Len(tree) \in Nat
  BY DEF TreeOK
<1>3. \A m \in 1..Len(tree) : m \in S
  <2> HIDE DEF S
  <2> QED BY <1>1, <1>2, Induction
<1> QED BY <1>3

(* Assembly has no arrays. *)
LEMMA NoTemps ==
  ASSUME NEW p
  PROVE \A loc \in AsmHere(p) : loc[1] # "t"
BY DEF AsmHere, Home, Rax, Nowhere, Scratch

LEMMA EmissionTemps ==
  ASSUME Emission
  PROVE TempsDeclared
<1> DEFINE tree == program.tree
           N == Len(tree)
           widths == declare_temps(tree)
           counts == Counted(tree)[N]
           I == 1..Size(tree)[N] + 1
<1>1. TreeOK(tree) /\ N \in 1..Len(tree)
  BY ProgramsAssumption DEF Emission, TreeOK
<1>2. SUFFICES ASSUME ~RefusesCalls(tree), NEW loc \in Touched, loc[1] = "t"
               PROVE Declared(widths, loc)
  BY DEF TempsDeclared
<1>3. CASE backend = "asm"
  <2> DEFINE L == AsmHere(program)
             A == AsmWidths(program)
             list == AsmFunction(program)
  <2>1. list \in Seq(Using(L, A, I)) /\ Len(list) > 0 /\ code = Assembled(list)
    BY <1>1, <1>3, AsmFunctionIs DEF Emission, Emit
  <2>2. \A i \in 1..Len(code) : Uses(code[i]) \subseteq L
    <3> HIDE DEF L, A, I, list
    <3> QED BY <2>1, AssembledUsing
  <2>3. loc \in L
    BY <2>2 DEF Touched
  <2> QED BY <1>2, <2>3, NoTemps
<1>4. CASE backend # "asm"
  <2> DEFINE L == CHere(program)
             list == CFunction(program)
  <2>1. list \in Seq(Using(L, Nat, I)) /\ Len(list) > 0 /\ code = Assembled(list)
    BY <1>1, <1>4, CFunctionIs DEF Emission, Emit
  <2>2. \A i \in 1..Len(code) : Uses(code[i]) \subseteq L
    <3> HIDE DEF L, I, list
    <3> QED BY <2>1, AssembledUsing
  <2>3. loc \in L
    BY <2>2 DEF Touched
  <2>4. Used(tree)[N] = counts /\ counts \in Seq(Nat)
    BY <1>1, <1>2, CountedIsUsed, CountedIs
  <2>5. loc \in Locations /\ (loc = Nowhere \/ DeclaredFrom(counts, 0, loc))
    <3> HIDE DEF counts
    <3> QED BY <1>2, <2>3, <2>4 DEF CHere, CAt
  <2>6. DeclaredFrom(counts, 0, loc)
    BY <1>2, <2>5 DEF Nowhere
  <2>7. widths = [i \in 1..Len(counts) |-> Room(counts[i])]
    BY DEF declare_temps, Room
  <2> DEFINE n == loc[2]
  <2>8. n \in Nat /\ n \in 0..0 + Len(counts) - 1 /\ loc[3] < Room(counts[n - 0 + 1])
    BY <2>5, <2>6 DEF DeclaredFrom, Locations
  <2> HIDE DEF counts, widths, n
  <2>9. Len(widths) = Len(counts) /\ n + 1 \in 1..Len(counts) /\ n - 0 + 1 = n + 1
        /\ n < Len(counts)
    BY <2>4, <2>7, <2>8
  <2>10. widths[n + 1] = Room(counts[n + 1])
    BY <2>7, <2>9
  <2> QED BY <2>8, <2>9, <2>10 DEF Declared, n
<1> QED BY <1>3, <1>4

(* emit_c.c declares a function's call-site arrays in one walk             *)
(* (declare_temps) and hands them out in another: whatever function it is, *)
(* unless an argument of a refused call is itself a call, every element    *)
(* the code uses is one of an array that has been declared, and within it. *)
THEOREM TempsDeclaredAlways == Spec => []TempsDeclared
<1>1. Emission => TempsDeclared
  BY EmissionTemps
<1> QED BY <1>1, EmissionHolds, PTL

-----------------------------------------------------------------------------
(* The items of a body, and the call of the entry point *)

(* The kinds of a statement's items; a body has one more, its end.         *)
ItemKinds ==
  {"operand", "apply", "call", "and", "or", "endand", "endor", "if", "else", "endif", "drop",
   "loop", "do", "next", "end", "foreach", "each", "endeach", "return", "main", "break",
   "continue", "label", "goto"}

ItemsOK == [kind : ItemKinds, node : Nat, arity : Nat]

Mains(s) == \E j \in 1..Len(s) : s[j].kind = "main"

LEMMA ItemsInTurn ==
  ASSUME NEW s \in Seq(ItemsOK), NEW t \in Seq(ItemsOK)
  PROVE /\ s \o t \in Seq(ItemsOK)
        /\ Len(s \o t) = Len(s) + Len(t)
        /\ Mains(s \o t) <=> Mains(s) \/ Mains(t)
<1>1. s \o t \in Seq(ItemsOK) /\ Len(s \o t) = Len(s) + Len(t)
  OBVIOUS
<1>2. ASSUME NEW j \in 1..Len(s \o t), (s \o t)[j].kind = "main" PROVE Mains(s) \/ Mains(t)
  <2>1. CASE j <= Len(s)
    <3>1. j \in 1..Len(s) /\ (s \o t)[j] = s[j]
      BY <1>1, <2>1
    <3> QED BY <1>2, <3>1 DEF Mains
  <2>2. CASE j > Len(s)
    <3>1. j - Len(s) \in 1..Len(t) /\ (s \o t)[j] = t[j - Len(s)]
      BY <1>1, <2>2
    <3> QED BY <1>2, <3>1 DEF Mains
  <2> QED BY <1>1, <2>1, <2>2
<1>3. ASSUME NEW j \in 1..Len(s), s[j].kind = "main" PROVE Mains(s \o t)
  <2>1. j \in 1..Len(s \o t) /\ (s \o t)[j] = s[j]
    BY <1>1
  <2> QED BY <1>3, <2>1 DEF Mains
<1>4. ASSUME NEW j \in 1..Len(t), t[j].kind = "main" PROVE Mains(s \o t)
  <2>1. Len(s) + j \in 1..Len(s \o t) /\ (s \o t)[Len(s) + j] = t[j]
    BY <1>1
  <2> QED BY <1>4, <2>1 DEF Mains
<1> QED BY <1>1, <1>2, <1>3, <1>4 DEF Mains

LEMMA OneItem ==
  ASSUME NEW k \in ItemKinds, NEW node \in Nat, NEW a \in Nat
  PROVE LET s == <<[kind |-> k, node |-> node, arity |-> a]>> IN
        s \in Seq(ItemsOK) /\ Len(s) = 1 /\ (Mains(s) <=> k = "main")
BY DEF ItemsOK, Mains

LEMMA JoinedItems ==
  ASSUME NEW N \in Nat, NEW pieces, \A i \in 1..N : pieces[i] \in Seq(ItemsOK),
         NEW lens, \A i \in 1..N : lens[i] = Len(pieces[i])
  PROVE /\ Joined(pieces, N) \in Seq(ItemsOK)
        /\ Len(Joined(pieces, N)) = Total(lens, N)
        /\ Mains(Joined(pieces, N)) <=> \E i \in 1..N : Mains(pieces[i])
<1> DEFINE Right(n) == Mains(Joined(pieces, n)) <=> \E i \in 1..n : Mains(pieces[i])
           T == {n \in 1..N : Right(n)}
<1>1. /\ Joined(pieces, 0) = <<>>
      /\ \A n \in 0..N : Joined(pieces, n) \in Seq(ItemsOK)
      /\ \A n \in 1..N : Joined(pieces, n) = Joined(pieces, n - 1) \o pieces[n]
  BY JoinedUpto
<1>2. Right(0)
  BY <1>1 DEF Mains
<1>3. ASSUME NEW n \in 1..N, \A m \in 1..n - 1 : m \in T PROVE n \in T
  <2>1. Right(n - 1)
    <3>1. CASE n = 1
      BY <1>2, <3>1
    <3>2. CASE n # 1
      <4>1. n - 1 \in 1..n - 1
        BY <3>2
      <4> QED BY <1>3, <4>1
    <3> QED BY <3>1, <3>2
  <2>2. n - 1 \in 0..N
    OBVIOUS
  <2> DEFINE s == Joined(pieces, n - 1)
             t == pieces[n]
  <2>3. s \in Seq(ItemsOK) /\ t \in Seq(ItemsOK) /\ Joined(pieces, n) = s \o t
    BY <1>1, <2>2
  <2>4. Mains(s \o t) <=> Mains(s) \/ Mains(t)
    <3> HIDE DEF s, t
    <3> QED BY <2>3, ItemsInTurn
  <2>5. Mains(s) <=> \E i \in 1..n - 1 : Mains(pieces[i])
    BY <2>1
  <2>6. (\E i \in 1..n : Mains(pieces[i]))
          <=> (\E i \in 1..n - 1 : Mains(pieces[i])) \/ Mains(pieces[n])
    <3>1. \A i \in 1..n : i \in 1..n - 1 \/ i = n
      OBVIOUS
    <3>2. \A i \in 1..n - 1 : i \in 1..n
      OBVIOUS
    <3>3. n \in 1..n
      OBVIOUS
    <3> QED BY <3>1, <3>2, <3>3
  <2>7. Right(n)
    <3> HIDE DEF s
    <3> QED BY <2>3, <2>4, <2>5, <2>6
  <2> QED BY <2>7
<1>4. \A n \in 1..N : n \in T
  <2> HIDE DEF T
  <2> QED BY <1>3, Induction
<1>5. Right(N)
  <2>1. N = 0 \/ N \in 1..N
    OBVIOUS
  <2> QED BY <1>2, <1>4, <2>1
<1>6. N \in 0..N
  OBVIOUS
<1>7. JoinedWhere(pieces, lens, N)
  <2>1. \A n \in 0..N : JoinedWhere(pieces, lens, n)
    BY JoinedAt
  <2> QED BY <1>6, <2>1
<1>8. Joined(pieces, N) \in Seq(ItemsOK)
  BY <1>1, <1>6
<1> QED BY <1>5, <1>7, <1>8 DEF JoinedWhere

(* A list of a node's items has its size, and says whether it calls the    *)
(* entry point.                                                            *)
ItemsFit(tree, m, s) ==
  /\ s \in Seq(ItemsOK)
  /\ Len(s) = Size(tree)[m]
  /\ Mains(s) <=> Holds(tree, {"main"})[m]

LEMMA NodeItems ==
  ASSUME NEW tree, TreeOK(tree), NEW m \in 1..Len(tree), NEW node \in Nat, NEW kid,
         \A i \in 1..Len(tree[m].kids) : ItemsFit(tree, tree[m].kids[i], kid[i])
  PROVE ItemsFit(tree, m, ItemsOf(tree[m].kind, Len(tree[m].kids), node, kid))
<1> DEFINE n == Len(tree[m].kids)
           kind == tree[m].kind
           all == Joined(kid, n)
           sizes == Parts(tree[m], Size(tree))
           total == Total(sizes, n)
           item(k, a) == <<[kind |-> k, node |-> node, arity |-> a]>>
           Some == \E i \in 1..n : Mains(kid[i])
           out1 == ItemsOf(kind, n, node, kid)
           K == ItemsOK
<1>1. n \in Nat /\ \A i \in 1..n : tree[m].kids[i] \in 1..Len(tree)
  BY PartsBefore
<1>2. \A i \in 1..n : /\ kid[i] \in Seq(K) /\ sizes[i] = Len(kid[i]) /\ sizes[i] \in Nat
                      /\ Mains(kid[i]) <=> Holds(tree, {"main"})[tree[m].kids[i]]
  <2>1. TAKE i \in 1..n
  <2>2. ItemsFit(tree, tree[m].kids[i], kid[i]) /\ sizes[i] = Size(tree)[tree[m].kids[i]]
    BY DEF Parts
  <2>3. Len(kid[i]) \in Nat
    BY <2>2 DEF ItemsFit
  <2> HIDE DEF sizes
  <2> QED BY <2>2, <2>3 DEF ItemsFit
<1>3. /\ all \in Seq(K) /\ Len(all) = total /\ (Mains(all) <=> Some)
  <2> HIDE DEF n, sizes
  <2> QED BY <1>1, <1>2, JoinedItems
<1>4. Size(tree)[m] = Own(kind) + total
  BY SizeIs
<1>5. Holds(tree, {"main"})[m] <=> (kind = "main" \/ Some)
  <2>1. Holds(tree, {"main"})[m] =
          (kind \in {"main"} \/ \E i \in 1..n : Parts(tree[m], Holds(tree, {"main"}))[i])
    BY HoldsIs
  <2>2. \A i \in 1..n : Parts(tree[m], Holds(tree, {"main"}))[i]
                        = Holds(tree, {"main"})[tree[m].kids[i]]
    BY DEF Parts
  <2> HIDE DEF n, kind
  <2> QED BY <1>2, <2>1, <2>2
<1>6. SUFFICES /\ out1 \in Seq(K) /\ Len(out1) = Own(kind) + total
               /\ Mains(out1) <=> (kind = "main" \/ Some)
  BY <1>4, <1>5 DEF ItemsFit
<1>7. /\ Total(sizes, 0) = 0
      /\ \A i \in 1..n : Total(sizes, i) = Total(sizes, i - 1) + Len(kid[i])
  <2>1. \A i \in 1..n : sizes[i] \in Nat
    BY <1>2
  <2> HIDE DEF n, sizes
  <2> QED BY <1>1, <1>2, <2>1, TotalUpto
<1>8. kind \notin {"array", "block"} \cup Calls => n = Arity(kind)
  BY DEF TreeOK, NodeOK
<1>9. ASSUME NEW k \in ItemKinds, NEW a \in Nat
      PROVE item(k, a) \in Seq(K) /\ Len(item(k, a)) = 1 /\ (Mains(item(k, a)) <=> k = "main")
  BY OneItem
<1>10. ASSUME NEW s \in Seq(K), NEW t \in Seq(K)
       PROVE /\ s \o t \in Seq(K) /\ Len(s \o t) = Len(s) + Len(t)
             /\ Mains(s \o t) <=> Mains(s) \/ Mains(t)
  BY ItemsInTurn
<1>11. CASE kind \in {"value", "mention"} \cup Jumps
  <2> DEFINE k == IF kind \in {"value", "mention"} THEN "operand" ELSE kind
             s == item(k, 0)
  <2>1. out1 = s
    BY <1>11 DEF ItemsOf, Jumps, Unary, Pairs, Branches
  <2>2. n = 0 /\ Own(kind) = 1
    <3> HIDE DEF kind, n
    <3> QED BY <1>8, <1>11 DEF Arity, Calls, Jumps, Pairs, Own, Branches, Loops
  <2>3. k \in ItemKinds /\ k # "main" /\ kind # "main"
    BY <1>11 DEF ItemKinds, Jumps
  <2>4. s \in Seq(K) /\ Len(s) = 1 /\ (Mains(s) <=> kind = "main")
    <3> HIDE DEF k
    <3> QED BY <1>9, <2>3
  <2>5. total = 0 /\ ~Some
    BY <1>7, <2>2
  <2> HIDE DEF s, total, Some, K, out1
  <2> QED BY <2>1, <2>2, <2>4, <2>5
<1>12. CASE kind \in Unary \cup Pairs \cup {"array", "call", "refused", "main", "declare",
                                           "assign", "discard", "indexassign", "return"}
  <2> DEFINE k == CASE kind \in Unary \cup Pairs \cup {"array"} -> "apply"
                    [] kind \in {"call", "refused"} -> "call"
                    [] kind \in {"main", "return"} -> kind
                    [] OTHER -> "drop"
             a == IF kind = "return" THEN 1 ELSE n
             s == item(k, a)
             first == IF kind = "return" THEN kid[1] ELSE all
  <2>1. out1 = first \o s
    BY <1>12 DEF ItemsOf, Jumps, Unary, Pairs, Branches
  <2>2. Own(kind) = 1
    BY <1>12 DEF Own, Branches, Loops, Unary, Pairs
  <2>3. k \in ItemKinds /\ (k = "main" <=> kind = "main") /\ a \in Nat
    BY <1>1, <1>12 DEF ItemKinds, Unary, Pairs
  <2>4. s \in Seq(K) /\ Len(s) = 1 /\ (Mains(s) <=> kind = "main")
    <3> HIDE DEF k, a
    <3> QED BY <1>9, <2>3
  <2>5. first \in Seq(K) /\ Len(first) = total /\ (Mains(first) <=> Some)
    <3>1. CASE kind = "return"
      <4>1. n = 1
        BY <1>8, <3>1 DEF Arity, Calls, Jumps, Pairs, Branches
      <4>2. 1 \in 1..n /\ kid[1] \in Seq(K) /\ total = Total(sizes, 0) + Len(kid[1])
        <5>1. 1 \in 1..n
          BY <4>1
        <5>2. Total(sizes, 1) = Total(sizes, 1 - 1) + Len(kid[1])
          <6> HIDE DEF sizes, n
          <6> QED BY <1>7, <5>1
        <5> QED BY <1>2, <4>1, <5>1, <5>2
      <4>3. Mains(kid[1]) <=> Some
        BY <4>1
      <4>4. total = Len(kid[1])
        BY <1>7, <4>2
      <4> QED BY <3>1, <4>2, <4>3, <4>4
    <3>2. CASE kind # "return"
      BY <1>3, <3>2
    <3> QED BY <3>1, <3>2
  <2>6. Len(first) \in Nat
    <3> HIDE DEF first, K
    <3> QED BY <2>5
  <2>7. first \o s \in Seq(K) /\ Len(first \o s) = Len(first) + Len(s)
        /\ (Mains(first \o s) <=> Mains(first) \/ Mains(s))
    <3> HIDE DEF first, s, K
    <3> QED BY <1>10, <2>4, <2>5
  <2> HIDE DEF s, total, Some, K, out1, first
  <2> QED BY <2>1, <2>2, <2>4, <2>5, <2>6, <2>7
<1>13. CASE kind = "block"
  <2>1. out1 = all
    BY <1>13 DEF ItemsOf, Jumps, Unary, Pairs, Branches
  <2>2. Own(kind) = 0 /\ kind # "main"
    <3> HIDE DEF kind, n
    <3> QED BY <1>13 DEF Own, Branches, Loops
  <2>3. Len(all) \in Nat
    <3> HIDE DEF all, K
    <3> QED BY <1>3
  <2> HIDE DEF total, Some, K, out1, all
  <2> QED BY <1>3, <2>1, <2>2, <2>3
<1>a. ASSUME n = 1 PROVE /\ kid[1] \in Seq(K) /\ total = Len(kid[1]) /\ (Some <=> Mains(kid[1]))
  <2>1. 1 \in 1..n /\ Some <=> Mains(kid[1])
    BY <1>a
  <2>2. Total(sizes, 1) = Total(sizes, 1 - 1) + Len(kid[1]) /\ kid[1] \in Seq(K)
    <3>1. 1 \in 1..n
      BY <1>a
    <3> HIDE DEF sizes, n, K
    <3> QED BY <1>2, <1>7, <3>1
  <2>3. Len(kid[1]) \in Nat
    BY <2>2
  <2> QED BY <1>7, <1>a, <2>1, <2>2, <2>3
<1>14. CASE kind = "minus"
  <2> DEFINE s1 == item("operand", 0)
             s2 == kid[1]
             s3 == item("apply", 2)
  <2>1. out1 = s1 \o s2 \o s3
    BY <1>14 DEF ItemsOf, Jumps, Unary, Pairs, Branches
  <2>2. n = 1 /\ Own(kind) = 2 /\ kind # "main"
    <3> HIDE DEF kind, n
    <3> QED BY <1>8, <1>14 DEF Arity, Calls, Own, Jumps, Pairs, Branches, Loops
  <2>3. /\ s1 \in Seq(K) /\ Len(s1) = 1 /\ ~Mains(s1)
        /\ s3 \in Seq(K) /\ Len(s3) = 1 /\ ~Mains(s3)
    BY <1>9 DEF ItemKinds
  <2>4. s2 \in Seq(K) /\ total = Len(s2) /\ (Some <=> Mains(s2)) /\ Len(s2) \in Nat
    <3>1. s2 \in Seq(K) /\ total = Len(s2) /\ (Some <=> Mains(s2))
      BY <1>a, <2>2
    <3> HIDE DEF s2, K, Some, total
    <3> QED BY <3>1
  <2> HIDE DEF s1, s2, s3, total, Some, K, out1
  <2>5. \A s \in Seq(K) : \A t \in Seq(K) : /\ s \o t \in Seq(K) /\ Len(s \o t) = Len(s) + Len(t)
                                            /\ Mains(s \o t) <=> Mains(s) \/ Mains(t)
    BY <1>10
  <2>6. s1 \o s2 \in Seq(K)
    BY <2>3, <2>4, <2>5
  <2>7. /\ s1 \o s2 \o s3 \in Seq(K) /\ Len(s1 \o s2 \o s3) = Len(s1 \o s2) + Len(s3)
        /\ Mains(s1 \o s2 \o s3) <=> Mains(s1 \o s2) \/ Mains(s3)
    BY <2>3, <2>5, <2>6
  <2>8. Len(s1 \o s2) = Len(s1) + Len(s2) /\ (Mains(s1 \o s2) <=> Mains(s1) \/ Mains(s2))
    BY <2>3, <2>4, <2>5
  <2> QED BY <2>1, <2>2, <2>3, <2>4, <2>7, <2>8
<1>15. CASE kind = "print"
  <2> DEFINE s1 == kid[1]
             s2 == item("call", 1)
             s3 == item("drop", 1)
  <2>1. out1 = s1 \o s2 \o s3
    BY <1>15 DEF ItemsOf, Jumps, Unary, Pairs, Branches
  <2>2. n = 1 /\ Own(kind) = 2 /\ kind # "main"
    <3> HIDE DEF kind, n
    <3> QED BY <1>8, <1>15 DEF Arity, Calls, Own, Jumps, Pairs, Branches, Loops
  <2>3. /\ s2 \in Seq(K) /\ Len(s2) = 1 /\ ~Mains(s2)
        /\ s3 \in Seq(K) /\ Len(s3) = 1 /\ ~Mains(s3)
    BY <1>9 DEF ItemKinds
  <2>4. s1 \in Seq(K) /\ total = Len(s1) /\ (Some <=> Mains(s1)) /\ Len(s1) \in Nat
    <3>1. s1 \in Seq(K) /\ total = Len(s1) /\ (Some <=> Mains(s1))
      BY <1>a, <2>2
    <3> HIDE DEF s1, K, Some, total
    <3> QED BY <3>1
  <2> HIDE DEF s1, s2, s3, total, Some, K, out1
  <2>5. \A s \in Seq(K) : \A t \in Seq(K) : /\ s \o t \in Seq(K) /\ Len(s \o t) = Len(s) + Len(t)
                                            /\ Mains(s \o t) <=> Mains(s) \/ Mains(t)
    BY <1>10
  <2>6. s1 \o s2 \in Seq(K)
    BY <2>3, <2>4, <2>5
  <2>7. /\ s1 \o s2 \o s3 \in Seq(K) /\ Len(s1 \o s2 \o s3) = Len(s1 \o s2) + Len(s3)
        /\ Mains(s1 \o s2 \o s3) <=> Mains(s1 \o s2) \/ Mains(s3)
    BY <2>3, <2>5, <2>6
  <2>8. Len(s1 \o s2) = Len(s1) + Len(s2) /\ (Mains(s1 \o s2) <=> Mains(s1) \/ Mains(s2))
    BY <2>3, <2>4, <2>5
  <2> QED BY <2>1, <2>2, <2>3, <2>4, <2>7, <2>8
<1>b. ASSUME n = 2
      PROVE /\ kid[1] \in Seq(K) /\ kid[2] \in Seq(K)
            /\ Len(kid[1]) \in Nat /\ Len(kid[2]) \in Nat
            /\ total = Len(kid[1]) + Len(kid[2])
            /\ Some <=> Mains(kid[1]) \/ Mains(kid[2])
  <2>1. 1 \in 1..n /\ 2 \in 1..n /\ n \in Nat
    BY <1>b
  <2>2. \A i \in 1..n : i = 1 \/ i = 2
    BY <1>b
  <2>3. Some <=> Mains(kid[1]) \/ Mains(kid[2])
    <3> HIDE DEF n
    <3> QED BY <2>1, <2>2
  <2>4. kid[1] \in Seq(K) /\ kid[2] \in Seq(K)
    <3> HIDE DEF n, K
    <3> QED BY <1>2, <2>1
  <2>5. Len(kid[1]) \in Nat /\ Len(kid[2]) \in Nat
    BY <2>4
  <2>t1. Total(sizes, 1) = Total(sizes, 0) + Len(kid[1])
    <3>1. Total(sizes, 1) = Total(sizes, 1 - 1) + Len(kid[1])
      <4> HIDE DEF sizes, n
      <4> QED BY <1>7, <2>1
    <3> QED BY <3>1
  <2>t2. Total(sizes, 2) = Total(sizes, 1) + Len(kid[2])
    <3>1. Total(sizes, 2) = Total(sizes, 2 - 1) + Len(kid[2])
      <4> HIDE DEF sizes, n
      <4> QED BY <1>7, <2>1
    <3> QED BY <3>1
  <2>6. total = Total(sizes, 2)
    BY <1>b
  <2>7. Total(sizes, 0) = 0
    BY <1>7
  <2>8. total = Len(kid[1]) + Len(kid[2])
    <3> HIDE DEF sizes, total
    <3>1. Total(sizes, 1) = Len(kid[1])
      BY <2>5, <2>t1, <2>7
    <3>2. Total(sizes, 2) = Len(kid[1]) + Len(kid[2])
      BY <2>5, <2>t2, <3>1
    <3> QED BY <2>6, <3>2
  <2> QED BY <2>3, <2>4, <2>5, <2>8
<1>c. ASSUME n = 3
      PROVE /\ kid[1] \in Seq(K) /\ kid[2] \in Seq(K) /\ kid[3] \in Seq(K)
            /\ Len(kid[1]) \in Nat /\ Len(kid[2]) \in Nat /\ Len(kid[3]) \in Nat
            /\ total = Len(kid[1]) + Len(kid[2]) + Len(kid[3])
            /\ Some <=> Mains(kid[1]) \/ Mains(kid[2]) \/ Mains(kid[3])
  <2>1. 1 \in 1..n /\ 2 \in 1..n /\ 3 \in 1..n /\ n \in Nat
    BY <1>c
  <2>2. \A i \in 1..n : i = 1 \/ i = 2 \/ i = 3
    BY <1>c
  <2>3. Some <=> Mains(kid[1]) \/ Mains(kid[2]) \/ Mains(kid[3])
    <3> HIDE DEF n
    <3> QED BY <2>1, <2>2
  <2>4. kid[1] \in Seq(K) /\ kid[2] \in Seq(K) /\ kid[3] \in Seq(K)
    <3> HIDE DEF n, K
    <3> QED BY <1>2, <2>1
  <2>5. Len(kid[1]) \in Nat /\ Len(kid[2]) \in Nat /\ Len(kid[3]) \in Nat
    BY <2>4
  <2>t1. Total(sizes, 1) = Total(sizes, 0) + Len(kid[1])
    <3>1. Total(sizes, 1) = Total(sizes, 1 - 1) + Len(kid[1])
      <4> HIDE DEF sizes, n
      <4> QED BY <1>7, <2>1
    <3> QED BY <3>1
  <2>t2. Total(sizes, 2) = Total(sizes, 1) + Len(kid[2])
    <3>1. Total(sizes, 2) = Total(sizes, 2 - 1) + Len(kid[2])
      <4> HIDE DEF sizes, n
      <4> QED BY <1>7, <2>1
    <3> QED BY <3>1
  <2>t3. Total(sizes, 3) = Total(sizes, 2) + Len(kid[3])
    <3>1. Total(sizes, 3) = Total(sizes, 3 - 1) + Len(kid[3])
      <4> HIDE DEF sizes, n
      <4> QED BY <1>7, <2>1
    <3> QED BY <3>1
  <2>6. total = Total(sizes, 3)
    BY <1>c
  <2>7. Total(sizes, 0) = 0
    BY <1>7
  <2>8. total = Len(kid[1]) + Len(kid[2]) + Len(kid[3])
    <3> HIDE DEF sizes, total
    <3>1. Total(sizes, 1) = Len(kid[1])
      BY <2>5, <2>t1, <2>7
    <3>2. Total(sizes, 2) = Len(kid[1]) + Len(kid[2])
      BY <2>5, <2>t2, <3>1
    <3>3. Total(sizes, 3) = Len(kid[1]) + Len(kid[2]) + Len(kid[3])
      BY <2>5, <2>t3, <3>2
    <3> QED BY <2>6, <3>3
  <2> QED BY <2>3, <2>4, <2>5, <2>8
<1>d. ASSUME n = 4
      PROVE /\ kid[1] \in Seq(K) /\ kid[2] \in Seq(K) /\ kid[3] \in Seq(K) /\ kid[4] \in Seq(K)
            /\ Len(kid[1]) \in Nat /\ Len(kid[2]) \in Nat /\ Len(kid[3]) \in Nat
                 /\ Len(kid[4]) \in Nat
            /\ total = Len(kid[1]) + Len(kid[2]) + Len(kid[3]) + Len(kid[4])
            /\ Some <=> Mains(kid[1]) \/ Mains(kid[2]) \/ Mains(kid[3]) \/ Mains(kid[4])
  <2>1. 1 \in 1..n /\ 2 \in 1..n /\ 3 \in 1..n /\ 4 \in 1..n /\ n \in Nat
    BY <1>d
  <2>2. \A i \in 1..n : i = 1 \/ i = 2 \/ i = 3 \/ i = 4
    BY <1>d
  <2>3. Some <=> Mains(kid[1]) \/ Mains(kid[2]) \/ Mains(kid[3]) \/ Mains(kid[4])
    <3> HIDE DEF n
    <3> QED BY <2>1, <2>2
  <2>4. kid[1] \in Seq(K) /\ kid[2] \in Seq(K) /\ kid[3] \in Seq(K) /\ kid[4] \in Seq(K)
    <3> HIDE DEF n, K
    <3> QED BY <1>2, <2>1
  <2>5. Len(kid[1]) \in Nat /\ Len(kid[2]) \in Nat /\ Len(kid[3]) \in Nat /\ Len(kid[4]) \in Nat
    BY <2>4
  <2>t1. Total(sizes, 1) = Total(sizes, 0) + Len(kid[1])
    <3>1. Total(sizes, 1) = Total(sizes, 1 - 1) + Len(kid[1])
      <4> HIDE DEF sizes, n
      <4> QED BY <1>7, <2>1
    <3> QED BY <3>1
  <2>t2. Total(sizes, 2) = Total(sizes, 1) + Len(kid[2])
    <3>1. Total(sizes, 2) = Total(sizes, 2 - 1) + Len(kid[2])
      <4> HIDE DEF sizes, n
      <4> QED BY <1>7, <2>1
    <3> QED BY <3>1
  <2>t3. Total(sizes, 3) = Total(sizes, 2) + Len(kid[3])
    <3>1. Total(sizes, 3) = Total(sizes, 3 - 1) + Len(kid[3])
      <4> HIDE DEF sizes, n
      <4> QED BY <1>7, <2>1
    <3> QED BY <3>1
  <2>t4. Total(sizes, 4) = Total(sizes, 3) + Len(kid[4])
    <3>1. Total(sizes, 4) = Total(sizes, 4 - 1) + Len(kid[4])
      <4> HIDE DEF sizes, n
      <4> QED BY <1>7, <2>1
    <3> QED BY <3>1
  <2>6. total = Total(sizes, 4)
    BY <1>d
  <2>7. Total(sizes, 0) = 0
    BY <1>7
  <2>8. total = Len(kid[1]) + Len(kid[2]) + Len(kid[3]) + Len(kid[4])
    <3> HIDE DEF sizes, total
    <3>1. Total(sizes, 1) = Len(kid[1])
      BY <2>5, <2>t1, <2>7
    <3>2. Total(sizes, 2) = Len(kid[1]) + Len(kid[2])
      BY <2>5, <2>t2, <3>1
    <3>3. Total(sizes, 3) = Len(kid[1]) + Len(kid[2]) + Len(kid[3])
      BY <2>5, <2>t3, <3>2
    <3>4. Total(sizes, 4) = Len(kid[1]) + Len(kid[2]) + Len(kid[3]) + Len(kid[4])
      BY <2>5, <2>t4, <3>3
    <3> QED BY <2>6, <3>4
  <2> QED BY <2>3, <2>4, <2>5, <2>8
<1>16. CASE kind \in {"and", "or"}
  <2> DEFINE s1 == kid[1]
             s2 == item(kind, 1)
             s3 == kid[2]
             s4 == item(IF kind = "and" THEN "endand" ELSE "endor", 1)
             c2 == s1 \o s2
             c3 == c2 \o s3
             c4 == c3 \o s4
  <2>1. out1 = c4
    BY <1>16 DEF ItemsOf, Jumps, Unary, Pairs, Branches
  <2>2. n = 2 /\ Own(kind) = 2 /\ kind # "main"
    BY <1>8, <1>16 DEF Arity, Calls, Own, Jumps, Pairs, Branches, Loops
  <2>3. /\ total = Len(s1) + Len(s3)
        /\ Some <=> Mains(s1) \/ Mains(s3)
    <3> HIDE DEF n, K, total, Some
    <3> QED BY <1>b, <2>2
  <2>s1. s1 \in Seq(K) /\ Len(s1) \in Nat
    <3> HIDE DEF n, K, total, Some
    <3> QED BY <1>b, <2>2
  <2>s2. s2 \in Seq(K) /\ Len(s2) = 1 /\ ~Mains(s2)
    BY <1>9, <1>16 DEF ItemKinds
  <2>s3. s3 \in Seq(K) /\ Len(s3) \in Nat
    <3> HIDE DEF n, K, total, Some
    <3> QED BY <1>b, <2>2
  <2>s4. s4 \in Seq(K) /\ Len(s4) = 1 /\ ~Mains(s4)
    BY <1>9, <1>16 DEF ItemKinds
  <2> HIDE DEF s1, s2, s3, s4, total, Some, K, out1
  <2>c2. /\ c2 \in Seq(K) /\ Len(c2) = Len(s1) + Len(s2)
         /\ Mains(c2) <=> Mains(s1) \/ Mains(s2)
    <3> QED BY <1>10, <2>s1, <2>s2
  <2>c3. /\ c3 \in Seq(K) /\ Len(c3) = Len(c2) + Len(s3)
         /\ Mains(c3) <=> Mains(c2) \/ Mains(s3)
    <3> HIDE DEF c2
    <3> QED BY <1>10, <2>c2, <2>s3
  <2>c4. /\ c4 \in Seq(K) /\ Len(c4) = Len(c3) + Len(s4)
         /\ Mains(c4) <=> Mains(c3) \/ Mains(s4)
    <3> HIDE DEF c3
    <3> QED BY <1>10, <2>c3, <2>s4
  <2> HIDE DEF c2, c3, c4
  <2> QED BY <2>1, <2>2, <2>3, <2>s1, <2>s2, <2>s3, <2>s4, <2>c2, <2>c3, <2>c4
<1>17. CASE kind \in Branches
  <2> DEFINE s1 == kid[1]
             s2 == item("if", 1)
             s3 == kid[2]
             s4 == item("else", 0)
             s5 == kid[3]
             s6 == item("endif", 0)
             c2 == s1 \o s2
             c3 == c2 \o s3
             c4 == c3 \o s4
             c5 == c4 \o s5
             c6 == c5 \o s6
  <2>1. out1 = c6
    BY <1>17 DEF ItemsOf, Jumps, Unary, Pairs, Branches
  <2>2. n = 3 /\ Own(kind) = 3 /\ kind # "main"
    BY <1>8, <1>17 DEF Arity, Calls, Own, Jumps, Pairs, Branches, Loops
  <2>3. /\ total = Len(s1) + Len(s3) + Len(s5)
        /\ Some <=> Mains(s1) \/ Mains(s3) \/ Mains(s5)
    <3> HIDE DEF n, K, total, Some
    <3> QED BY <1>c, <2>2
  <2>s1. s1 \in Seq(K) /\ Len(s1) \in Nat
    <3> HIDE DEF n, K, total, Some
    <3> QED BY <1>c, <2>2
  <2>s2. s2 \in Seq(K) /\ Len(s2) = 1 /\ ~Mains(s2)
    BY <1>9, <1>17 DEF ItemKinds
  <2>s3. s3 \in Seq(K) /\ Len(s3) \in Nat
    <3> HIDE DEF n, K, total, Some
    <3> QED BY <1>c, <2>2
  <2>s4. s4 \in Seq(K) /\ Len(s4) = 1 /\ ~Mains(s4)
    BY <1>9, <1>17 DEF ItemKinds
  <2>s5. s5 \in Seq(K) /\ Len(s5) \in Nat
    <3> HIDE DEF n, K, total, Some
    <3> QED BY <1>c, <2>2
  <2>s6. s6 \in Seq(K) /\ Len(s6) = 1 /\ ~Mains(s6)
    BY <1>9, <1>17 DEF ItemKinds
  <2> HIDE DEF s1, s2, s3, s4, s5, s6, total, Some, K, out1
  <2>c2. /\ c2 \in Seq(K) /\ Len(c2) = Len(s1) + Len(s2)
         /\ Mains(c2) <=> Mains(s1) \/ Mains(s2)
    <3> QED BY <1>10, <2>s1, <2>s2
  <2>c3. /\ c3 \in Seq(K) /\ Len(c3) = Len(c2) + Len(s3)
         /\ Mains(c3) <=> Mains(c2) \/ Mains(s3)
    <3> HIDE DEF c2
    <3> QED BY <1>10, <2>c2, <2>s3
  <2>c4. /\ c4 \in Seq(K) /\ Len(c4) = Len(c3) + Len(s4)
         /\ Mains(c4) <=> Mains(c3) \/ Mains(s4)
    <3> HIDE DEF c3
    <3> QED BY <1>10, <2>c3, <2>s4
  <2>c5. /\ c5 \in Seq(K) /\ Len(c5) = Len(c4) + Len(s5)
         /\ Mains(c5) <=> Mains(c4) \/ Mains(s5)
    <3> HIDE DEF c4
    <3> QED BY <1>10, <2>c4, <2>s5
  <2>c6. /\ c6 \in Seq(K) /\ Len(c6) = Len(c5) + Len(s6)
         /\ Mains(c6) <=> Mains(c5) \/ Mains(s6)
    <3> HIDE DEF c5
    <3> QED BY <1>10, <2>c5, <2>s6
  <2> HIDE DEF c2, c3, c4, c5, c6
  <2>4. Len(c6) = Len(s1) + Len(s3) + Len(s5) + 3
    BY <2>s1, <2>s2, <2>s3, <2>s4, <2>s5, <2>s6, <2>c2, <2>c3, <2>c4, <2>c5, <2>c6
  <2>5. Mains(c6) <=> Mains(s1) \/ Mains(s3) \/ Mains(s5)
    BY <2>s1, <2>s2, <2>s3, <2>s4, <2>s5, <2>s6, <2>c2, <2>c3, <2>c4, <2>c5, <2>c6
  <2>6. Len(c6) = Own(kind) + total
    BY <2>2, <2>3, <2>4, <2>s1, <2>s3, <2>s5
  <2>7. Mains(c6) <=> (kind = "main" \/ Some)
    BY <2>2, <2>3, <2>5
  <2> QED BY <2>1, <2>6, <2>7, <2>c6
<1>18. CASE kind = "while"
  <2> DEFINE s1 == item("loop", 0)
             s2 == kid[1]
             s3 == item("do", 1)
             s4 == kid[2]
             s5 == item("next", 0)
             s6 == item("end", 0)
             c2 == s1 \o s2
             c3 == c2 \o s3
             c4 == c3 \o s4
             c5 == c4 \o s5
             c6 == c5 \o s6
  <2>1. out1 = c6
    BY <1>18 DEF ItemsOf, Jumps, Unary, Pairs, Branches
  <2>2. n = 2 /\ Own(kind) = 4 /\ kind # "main"
    BY <1>8, <1>18 DEF Arity, Calls, Own, Jumps, Pairs, Branches, Loops
  <2>3. /\ total = Len(s2) + Len(s4)
        /\ Some <=> Mains(s2) \/ Mains(s4)
    <3> HIDE DEF n, K, total, Some
    <3> QED BY <1>b, <2>2
  <2>s1. s1 \in Seq(K) /\ Len(s1) = 1 /\ ~Mains(s1)
    BY <1>9, <1>18 DEF ItemKinds
  <2>s2. s2 \in Seq(K) /\ Len(s2) \in Nat
    <3> HIDE DEF n, K, total, Some
    <3> QED BY <1>b, <2>2
  <2>s3. s3 \in Seq(K) /\ Len(s3) = 1 /\ ~Mains(s3)
    BY <1>9, <1>18 DEF ItemKinds
  <2>s4. s4 \in Seq(K) /\ Len(s4) \in Nat
    <3> HIDE DEF n, K, total, Some
    <3> QED BY <1>b, <2>2
  <2>s5. s5 \in Seq(K) /\ Len(s5) = 1 /\ ~Mains(s5)
    BY <1>9, <1>18 DEF ItemKinds
  <2>s6. s6 \in Seq(K) /\ Len(s6) = 1 /\ ~Mains(s6)
    BY <1>9, <1>18 DEF ItemKinds
  <2> HIDE DEF s1, s2, s3, s4, s5, s6, total, Some, K, out1
  <2>c2. /\ c2 \in Seq(K) /\ Len(c2) = Len(s1) + Len(s2)
         /\ Mains(c2) <=> Mains(s1) \/ Mains(s2)
    <3> QED BY <1>10, <2>s1, <2>s2
  <2>c3. /\ c3 \in Seq(K) /\ Len(c3) = Len(c2) + Len(s3)
         /\ Mains(c3) <=> Mains(c2) \/ Mains(s3)
    <3> HIDE DEF c2
    <3> QED BY <1>10, <2>c2, <2>s3
  <2>c4. /\ c4 \in Seq(K) /\ Len(c4) = Len(c3) + Len(s4)
         /\ Mains(c4) <=> Mains(c3) \/ Mains(s4)
    <3> HIDE DEF c3
    <3> QED BY <1>10, <2>c3, <2>s4
  <2>c5. /\ c5 \in Seq(K) /\ Len(c5) = Len(c4) + Len(s5)
         /\ Mains(c5) <=> Mains(c4) \/ Mains(s5)
    <3> HIDE DEF c4
    <3> QED BY <1>10, <2>c4, <2>s5
  <2>c6. /\ c6 \in Seq(K) /\ Len(c6) = Len(c5) + Len(s6)
         /\ Mains(c6) <=> Mains(c5) \/ Mains(s6)
    <3> HIDE DEF c5
    <3> QED BY <1>10, <2>c5, <2>s6
  <2> HIDE DEF c2, c3, c4, c5, c6
  <2>4. Len(c6) = Len(s2) + Len(s4) + 4
    BY <2>s1, <2>s2, <2>s3, <2>s4, <2>s5, <2>s6, <2>c2, <2>c3, <2>c4, <2>c5, <2>c6
  <2>5. Mains(c6) <=> Mains(s2) \/ Mains(s4)
    BY <2>s1, <2>s2, <2>s3, <2>s4, <2>s5, <2>s6, <2>c2, <2>c3, <2>c4, <2>c5, <2>c6
  <2>6. Len(c6) = Own(kind) + total
    BY <2>2, <2>3, <2>4, <2>s2, <2>s4
  <2>7. Mains(c6) <=> (kind = "main" \/ Some)
    BY <2>2, <2>3, <2>5
  <2> QED BY <2>1, <2>6, <2>7, <2>c6
<1>19. CASE kind = "for"
  <2> DEFINE s1 == kid[1]
             s2 == item("loop", 0)
             s3 == kid[2]
             s4 == item("do", 1)
             s5 == kid[3]
             s6 == item("next", 0)
             s7 == kid[4]
             s8 == item("end", 0)
             c2 == s1 \o s2
             c3 == c2 \o s3
             c4 == c3 \o s4
             c5 == c4 \o s5
             c6 == c5 \o s6
             c7 == c6 \o s7
             c8 == c7 \o s8
  <2>1. out1 = c8
    BY <1>19 DEF ItemsOf, Jumps, Unary, Pairs, Branches
  <2>2. n = 4 /\ Own(kind) = 4 /\ kind # "main"
    BY <1>8, <1>19 DEF Arity, Calls, Own, Jumps, Pairs, Branches, Loops
  <2>3. /\ total = Len(s1) + Len(s3) + Len(s5) + Len(s7)
        /\ Some <=> Mains(s1) \/ Mains(s3) \/ Mains(s5) \/ Mains(s7)
    <3> HIDE DEF n, K, total, Some
    <3> QED BY <1>d, <2>2
  <2>s1. s1 \in Seq(K) /\ Len(s1) \in Nat
    <3> HIDE DEF n, K, total, Some
    <3> QED BY <1>d, <2>2
  <2>s2. s2 \in Seq(K) /\ Len(s2) = 1 /\ ~Mains(s2)
    BY <1>9, <1>19 DEF ItemKinds
  <2>s3. s3 \in Seq(K) /\ Len(s3) \in Nat
    <3> HIDE DEF n, K, total, Some
    <3> QED BY <1>d, <2>2
  <2>s4. s4 \in Seq(K) /\ Len(s4) = 1 /\ ~Mains(s4)
    BY <1>9, <1>19 DEF ItemKinds
  <2>s5. s5 \in Seq(K) /\ Len(s5) \in Nat
    <3> HIDE DEF n, K, total, Some
    <3> QED BY <1>d, <2>2
  <2>s6. s6 \in Seq(K) /\ Len(s6) = 1 /\ ~Mains(s6)
    BY <1>9, <1>19 DEF ItemKinds
  <2>s7. s7 \in Seq(K) /\ Len(s7) \in Nat
    <3> HIDE DEF n, K, total, Some
    <3> QED BY <1>d, <2>2
  <2>s8. s8 \in Seq(K) /\ Len(s8) = 1 /\ ~Mains(s8)
    BY <1>9, <1>19 DEF ItemKinds
  <2> HIDE DEF s1, s2, s3, s4, s5, s6, s7, s8, total, Some, K, out1
  <2>c2. /\ c2 \in Seq(K) /\ Len(c2) = Len(s1) + Len(s2)
         /\ Mains(c2) <=> Mains(s1) \/ Mains(s2)
    <3> QED BY <1>10, <2>s1, <2>s2
  <2>c3. /\ c3 \in Seq(K) /\ Len(c3) = Len(c2) + Len(s3)
         /\ Mains(c3) <=> Mains(c2) \/ Mains(s3)
    <3> HIDE DEF c2
    <3> QED BY <1>10, <2>c2, <2>s3
  <2>c4. /\ c4 \in Seq(K) /\ Len(c4) = Len(c3) + Len(s4)
         /\ Mains(c4) <=> Mains(c3) \/ Mains(s4)
    <3> HIDE DEF c3
    <3> QED BY <1>10, <2>c3, <2>s4
  <2>c5. /\ c5 \in Seq(K) /\ Len(c5) = Len(c4) + Len(s5)
         /\ Mains(c5) <=> Mains(c4) \/ Mains(s5)
    <3> HIDE DEF c4
    <3> QED BY <1>10, <2>c4, <2>s5
  <2>c6. /\ c6 \in Seq(K) /\ Len(c6) = Len(c5) + Len(s6)
         /\ Mains(c6) <=> Mains(c5) \/ Mains(s6)
    <3> HIDE DEF c5
    <3> QED BY <1>10, <2>c5, <2>s6
  <2>c7. /\ c7 \in Seq(K) /\ Len(c7) = Len(c6) + Len(s7)
         /\ Mains(c7) <=> Mains(c6) \/ Mains(s7)
    <3> HIDE DEF c6
    <3> QED BY <1>10, <2>c6, <2>s7
  <2>c8. /\ c8 \in Seq(K) /\ Len(c8) = Len(c7) + Len(s8)
         /\ Mains(c8) <=> Mains(c7) \/ Mains(s8)
    <3> HIDE DEF c7
    <3> QED BY <1>10, <2>c7, <2>s8
  <2> HIDE DEF c2, c3, c4, c5, c6, c7, c8
  <2>4. Len(c8) = Len(s1) + Len(s3) + Len(s5) + Len(s7) + 4
    BY <2>s1, <2>s2, <2>s3, <2>s4, <2>s5, <2>s6, <2>s7, <2>s8,
       <2>c2, <2>c3, <2>c4, <2>c5, <2>c6, <2>c7, <2>c8
  <2>5. Mains(c8) <=> Mains(s1) \/ Mains(s3) \/ Mains(s5) \/ Mains(s7)
    BY <2>s1, <2>s2, <2>s3, <2>s4, <2>s5, <2>s6, <2>s7, <2>s8,
       <2>c2, <2>c3, <2>c4, <2>c5, <2>c6, <2>c7, <2>c8
  <2>6. Len(c8) = Own(kind) + total
    BY <2>2, <2>3, <2>4, <2>s1, <2>s3, <2>s5, <2>s7
  <2>7. Mains(c8) <=> (kind = "main" \/ Some)
    BY <2>2, <2>3, <2>5
  <2> QED BY <2>1, <2>6, <2>7, <2>c8
<1>20. CASE kind = "foreach"
  <2> DEFINE s1 == kid[1]
             s2 == item("foreach", 1)
             s3 == item("each", 0)
             s4 == kid[2]
             s5 == item("next", 0)
             s6 == item("endeach", 0)
             c2 == s1 \o s2
             c3 == c2 \o s3
             c4 == c3 \o s4
             c5 == c4 \o s5
             c6 == c5 \o s6
  <2>1. out1 = c6
    BY <1>20 DEF ItemsOf, Jumps, Unary, Pairs, Branches
  <2>2. n = 2 /\ Own(kind) = 4 /\ kind # "main"
    BY <1>8, <1>20 DEF Arity, Calls, Own, Jumps, Pairs, Branches, Loops
  <2>3. /\ total = Len(s1) + Len(s4)
        /\ Some <=> Mains(s1) \/ Mains(s4)
    <3> HIDE DEF n, K, total, Some
    <3> QED BY <1>b, <2>2
  <2>s1. s1 \in Seq(K) /\ Len(s1) \in Nat
    <3> HIDE DEF n, K, total, Some
    <3> QED BY <1>b, <2>2
  <2>s2. s2 \in Seq(K) /\ Len(s2) = 1 /\ ~Mains(s2)
    BY <1>9, <1>20 DEF ItemKinds
  <2>s3. s3 \in Seq(K) /\ Len(s3) = 1 /\ ~Mains(s3)
    BY <1>9, <1>20 DEF ItemKinds
  <2>s4. s4 \in Seq(K) /\ Len(s4) \in Nat
    <3> HIDE DEF n, K, total, Some
    <3> QED BY <1>b, <2>2
  <2>s5. s5 \in Seq(K) /\ Len(s5) = 1 /\ ~Mains(s5)
    BY <1>9, <1>20 DEF ItemKinds
  <2>s6. s6 \in Seq(K) /\ Len(s6) = 1 /\ ~Mains(s6)
    BY <1>9, <1>20 DEF ItemKinds
  <2> HIDE DEF s1, s2, s3, s4, s5, s6, total, Some, K, out1
  <2>c2. /\ c2 \in Seq(K) /\ Len(c2) = Len(s1) + Len(s2)
         /\ Mains(c2) <=> Mains(s1) \/ Mains(s2)
    <3> QED BY <1>10, <2>s1, <2>s2
  <2>c3. /\ c3 \in Seq(K) /\ Len(c3) = Len(c2) + Len(s3)
         /\ Mains(c3) <=> Mains(c2) \/ Mains(s3)
    <3> HIDE DEF c2
    <3> QED BY <1>10, <2>c2, <2>s3
  <2>c4. /\ c4 \in Seq(K) /\ Len(c4) = Len(c3) + Len(s4)
         /\ Mains(c4) <=> Mains(c3) \/ Mains(s4)
    <3> HIDE DEF c3
    <3> QED BY <1>10, <2>c3, <2>s4
  <2>c5. /\ c5 \in Seq(K) /\ Len(c5) = Len(c4) + Len(s5)
         /\ Mains(c5) <=> Mains(c4) \/ Mains(s5)
    <3> HIDE DEF c4
    <3> QED BY <1>10, <2>c4, <2>s5
  <2>c6. /\ c6 \in Seq(K) /\ Len(c6) = Len(c5) + Len(s6)
         /\ Mains(c6) <=> Mains(c5) \/ Mains(s6)
    <3> HIDE DEF c5
    <3> QED BY <1>10, <2>c5, <2>s6
  <2> HIDE DEF c2, c3, c4, c5, c6
  <2>4. Len(c6) = Len(s1) + Len(s4) + 4
    BY <2>s1, <2>s2, <2>s3, <2>s4, <2>s5, <2>s6, <2>c2, <2>c3, <2>c4, <2>c5, <2>c6
  <2>5. Mains(c6) <=> Mains(s1) \/ Mains(s4)
    BY <2>s1, <2>s2, <2>s3, <2>s4, <2>s5, <2>s6, <2>c2, <2>c3, <2>c4, <2>c5, <2>c6
  <2>6. Len(c6) = Own(kind) + total
    BY <2>2, <2>3, <2>4, <2>s1, <2>s4
  <2>7. Mains(c6) <=> (kind = "main" \/ Some)
    BY <2>2, <2>3, <2>5
  <2> QED BY <2>1, <2>6, <2>7, <2>c6
<1>21. kind \in Expressions \cup Statements
  BY DEF TreeOK, NodeOK
<1> HIDE DEF kind, out1, total, Some
<1> QED BY <1>11, <1>12, <1>13, <1>14, <1>15, <1>16, <1>17, <1>18, <1>19, <1>20, <1>21
        DEF Expressions, Statements, Simple, Loops, Calls, Unary, Pairs, Branches

(* The items of a tree are those of its last node, and its end. *)
LEMMA ItemsRight ==
  ASSUME NEW tree, TreeOK(tree)
  PROVE \A m \in 1..Len(tree) : \A at \in Nat : ItemsFit(tree, m, Items(tree)[m][at])
<1> DEFINE Fits(m) == \A at \in Nat : ItemsFit(tree, m, Items(tree)[m][at])
           S == {m \in 1..Len(tree) : Fits(m)}
<1>1. ASSUME NEW m \in 1..Len(tree), \A k \in 1..m - 1 : k \in S PROVE m \in S
  <2>1. ASSUME NEW at \in Nat PROVE ItemsFit(tree, m, Items(tree)[m][at])
    <3> DEFINE n == Len(tree[m].kids)
               kid == [i \in 1..n |-> Parts(tree[m], Items(tree))[i][Place(tree, m, at, i)]]
               node == NodeOf(tree, m, at)
    <3>1. \A i \in 1..n : tree[m].kids[i] \in 1..m - 1
      BY PartsBefore
    <3>2. \A i \in 1..n : Place(tree, m, at, i) \in Nat
      BY Placed
    <3>3. node \in Nat
      BY Known
    <3>4. ASSUME NEW i \in 1..n PROVE ItemsFit(tree, tree[m].kids[i], kid[i])
      <4>1. kid[i] = Items(tree)[tree[m].kids[i]][Place(tree, m, at, i)]
        BY DEF Parts
      <4>2. Fits(tree[m].kids[i])
        BY <1>1, <3>1
      <4> HIDE DEF kid
      <4> QED BY <3>2, <4>1, <4>2
    <3>5. Items(tree)[m][at] = ItemsOf(tree[m].kind, n, node, kid)
      <4> DEFINE G(a) == ItemsOf(tree[m].kind, n, NodeOf(tree, m, a),
                           [i \in 1..n |-> Parts(tree[m], Items(tree))[i][Place(tree, m, a, i)]])
      <4>1. Items(tree)[m] = [a \in Nat |-> G(a)]
        BY ItemsIs
      <4>2. G(at) = ItemsOf(tree[m].kind, n, node, kid)
        OBVIOUS
      <4> HIDE DEF G
      <4>3. Items(tree)[m][at] = G(at)
        BY <4>1
      <4> QED BY <4>2, <4>3
    <3>6. ItemsFit(tree, m, ItemsOf(tree[m].kind, n, node, kid))
      <4> HIDE DEF kid, node
      <4> QED BY <3>3, <3>4, NodeItems
    <3> QED BY <3>5, <3>6
  <2> QED BY <2>1
<1>2. Len(tree) \in Nat
  BY DEF TreeOK
<1>3. \A m \in 1..Len(tree) : m \in S
  <2> HIDE DEF S
  <2> QED BY <1>1, <1>2, Induction
<1> QED BY <1>3

LEMMA BodyIs ==
  ASSUME NEW tree, TreeOK(tree)
  PROVE /\ BodyOf(tree)[Size(tree)[Len(tree)] + 1].kind = "finish"
        /\ \A i \in 1..Size(tree)[Len(tree)] : BodyOf(tree)[i].kind # "finish"
        /\ (\E i \in 1..Len(BodyOf(tree)) : BodyOf(tree)[i].kind = "main")
             <=> Holds(tree, {"main"})[Len(tree)]
<1> DEFINE N == Len(tree)
           size == Size(tree)[N]
           list == Items(tree)[N][1]
           last == [kind |-> "finish", node |-> 0, arity |-> 0]
           whole == BodyOf(tree)
           calls == Holds(tree, {"main"})[N]
           K == ItemsOK \cup {last}
<1>1. N \in 1..Len(tree)
  BY DEF TreeOK
<1>2. ItemsFit(tree, N, list)
  <2> HIDE DEF N
  <2> QED BY <1>1, ItemsRight
<1>3. size \in Nat
  BY <1>1, SizeIs
<1>4. list \in Seq(ItemsOK) /\ Len(list) = size /\ (Mains(list) <=> calls)
  BY <1>2 DEF ItemsFit
<1>5. whole = Append(list, last)
  BY DEF BodyOf
<1>6. last.kind = "finish"
  OBVIOUS
<1>7. \A i \in 1..size : list[i].kind # "finish"
  <2>1. \A i \in 1..size : list[i] \in ItemsOK
    <3> HIDE DEF list, size
    <3> QED BY <1>4
  <2>2. \A x \in ItemsOK : x.kind # "finish"
    BY DEF ItemsOK, ItemKinds
  <2> HIDE DEF list, size
  <2> QED BY <2>1, <2>2
<1> HIDE DEF list, last, whole, size, calls
<1>8. list \in Seq(K)
  BY <1>4
<1>9. /\ Len(whole) = size + 1 /\ whole[size + 1] = last
      /\ \A i \in 1..size : whole[i] = list[i]
  <2>1. last \in K
    OBVIOUS
  <2> HIDE DEF K
  <2> QED BY <1>3, <1>4, <1>5, <1>8, <2>1
<1>10. Mains(list) <=> \E i \in 1..size : list[i].kind = "main"
  BY <1>4 DEF Mains
<1>11. (\E i \in 1..Len(whole) : whole[i].kind = "main")
        <=> \E i \in 1..size : list[i].kind = "main"
  <2>1. ASSUME NEW i \in 1..Len(whole), whole[i].kind = "main"
        PROVE \E j \in 1..size : list[j].kind = "main"
    <3>1. i # size + 1
      BY <1>6, <1>9, <2>1
    <3>2. i \in 1..size
      BY <1>3, <1>9, <3>1
    <3> QED BY <1>9, <2>1, <3>2
  <2>2. ASSUME NEW j \in 1..size, list[j].kind = "main"
        PROVE \E i \in 1..Len(whole) : whole[i].kind = "main"
    <3>1. j \in 1..Len(whole)
      BY <1>3, <1>9
    <3> QED BY <1>9, <2>2, <3>1
  <2> QED BY <2>1, <2>2
<1>13. \A i \in 1..size : whole[i].kind # "finish"
  BY <1>7, <1>9
<1>14. (\E i \in 1..Len(whole) : whole[i].kind = "main") <=> calls
  BY <1>4, <1>10, <1>11
<1>15. whole[size + 1].kind = "finish"
  BY <1>6, <1>9
<1> QED BY <1>13, <1>14, <1>15 DEF whole, size, calls

Starts(tree, list) ==
  \E i \in 1..Len(list) : list[i].op = "main" /\ BodyOf(tree)[list[i].item].kind = "finish"

Enters(ending) == \E k \in 1..Len(ending) : ending[k].op = "main"

(* Code of a body followed by an ending for the item after it: a call of   *)
(* the entry point for that item is one of the ending's.                   *)
LEMMA StartsAtEnd ==
  ASSUME NEW tree, TreeOK(tree), NEW L, NEW A, NEW L1, NEW A1,
         NEW first \in Seq(Using(L1, A1, 1..Size(tree)[Len(tree)])),
         NEW ending \in Seq(Using(L, A, {Size(tree)[Len(tree)] + 1})), Len(ending) > 0
  PROVE Starts(tree, Assembled(first \o ending)) <=> Enters(ending)
<1> DEFINE size == Size(tree)[Len(tree)]
           X == Using(L \cup L1, A \cup A1, 1..size + 1)
           list == first \o ending
           out1 == Assembled(list)
           b == BodyOf(tree)
<1>1. size \in Nat
  BY SizeIs DEF TreeOK
<1>2. b[size + 1].kind = "finish" /\ \A i \in 1..size : b[i].kind # "finish"
  BY BodyIs
<1>3. first \in Seq(X) /\ ending \in Seq(X)
  <2> DEFINE I1 == 1..size
             I2 == {size + 1}
             I == 1..size + 1
             LL == L \cup L1
             AA == A \cup A1
  <2>1. L1 \subseteq LL /\ A1 \subseteq AA /\ I1 \subseteq I
    BY <1>1
  <2>2. L \subseteq LL /\ A \subseteq AA /\ I2 \subseteq I
    BY <1>1
  <2>3. first \in Seq(Using(L1, A1, I1)) /\ ending \in Seq(Using(L, A, I2))
    OBVIOUS
  <2> HIDE DEF I1, I2, I, LL, AA
  <2>4. Seq(Using(L1, A1, I1)) \subseteq Seq(Using(LL, AA, I))
    BY <2>1, UsingMore
  <2>5. Seq(Using(L, A, I2)) \subseteq Seq(Using(LL, AA, I))
    BY <2>2, UsingMore
  <2> QED BY <2>3, <2>4, <2>5 DEF LL, AA, I
<1>4. /\ list \in Seq(X) /\ Len(list) = Len(first) + Len(ending) /\ Len(list) > 0
      /\ \A j \in 1..Len(first) : list[j] = first[j]
      /\ \A k \in 1..Len(ending) : list[Len(first) + k] = ending[k]
  <2> HIDE DEF X
  <2> QED BY <1>3
<1>5. Len(first) \in Nat /\ Len(ending) \in Nat
  OBVIOUS
<1>6. /\ \A i \in 1..Len(out1) : \E j \in 1..Len(list) : Same(out1[i], list[j])
      /\ \A j \in 1..Len(list) : list[j].op # "label" => \E i \in 1..Len(out1) :
           Same(out1[i], list[j])
  <2> HIDE DEF list
  <2> QED BY <1>4, AssembledIs DEF X
<1> HIDE DEF out1
<1>7. ASSUME NEW i \in 1..Len(out1), out1[i].op = "main", b[out1[i].item].kind = "finish"
      PROVE \E k \in 1..Len(ending) : ending[k].op = "main"
  <2>1. PICK j \in 1..Len(list) : Same(out1[i], list[j])
    BY <1>6
  <2>2. list[j].op = "main" /\ list[j].item = out1[i].item
    BY <1>7, <2>1 DEF Same
  <2>3. CASE j <= Len(first)
    <3>1. j \in 1..Len(first) /\ list[j] = first[j]
      BY <1>4, <1>5, <2>3
    <3>2. first[j] \in Using(L1, A1, 1..size)
      BY <3>1
    <3>3. first[j].item \in 1..size
      <4> HIDE DEF size, list
      <4> QED BY <2>2, <3>1, <3>2 DEF Using
    <3> HIDE DEF b, size, list
    <3> QED BY <1>2, <1>7, <2>2, <3>1, <3>3
  <2>4. CASE j > Len(first)
    <3>1. j - Len(first) \in 1..Len(ending)
      BY <1>4, <1>5, <2>4
    <3>2. list[Len(first) + (j - Len(first))] = ending[j - Len(first)]
      BY <1>4, <3>1
    <3>3. Len(first) + (j - Len(first)) = j
      BY <1>5
    <3> HIDE DEF list
    <3> QED BY <2>2, <3>1, <3>2, <3>3
  <2> QED BY <1>5, <2>3, <2>4
<1>8. ASSUME NEW k \in 1..Len(ending), ending[k].op = "main"
      PROVE \E i \in 1..Len(out1) : out1[i].op = "main" /\ b[out1[i].item].kind = "finish"
  <2>1. Len(first) + k \in 1..Len(list) /\ list[Len(first) + k] = ending[k]
    BY <1>4, <1>5
  <2>2. ending[k] \in Using(L, A, {size + 1})
    OBVIOUS
  <2>3. ending[k].item = size + 1
    <3> HIDE DEF size
    <3> QED BY <1>8, <2>2 DEF Using
  <2> HIDE DEF list, size, b
  <2>4. PICK i \in 1..Len(out1) : Same(out1[i], list[Len(first) + k])
    BY <1>6, <1>8, <2>1
  <2>5. out1[i].op = "main" /\ out1[i].item = size + 1
    BY <1>8, <2>1, <2>3, <2>4 DEF Same
  <2> QED BY <1>2, <2>5
<1> HIDE DEF b, list
<1>9. Starts(tree, out1) <=> Enters(ending)
  BY <1>7, <1>8 DEF b, Starts, Enters
<1> QED BY <1>9 DEF out1, list

-----------------------------------------------------------------------------
(* The endings *)

LEMMA OneThenOther ==
  ASSUME NEW x, NEW y, y.op # "main"
  PROVE /\ (\E k \in 1..Len(<<x>> \o <<y>>) : (<<x>> \o <<y>>)[k].op = "main") <=> x.op = "main"
        /\ ~\E k \in 1..Len(<<>> \o <<y>>) : (<<>> \o <<y>>)[k].op = "main"
<1> DEFINE S == {x, y}
           both == <<x>> \o <<y>>
           only == <<>> \o <<y>>
<1>1. <<x>> \in Seq(S) /\ <<y>> \in Seq(S) /\ <<>> \in Seq(S)
  OBVIOUS
<1>2. Len(both) = 2 /\ both[1] = x /\ both[2] = y
  <2> HIDE DEF S
  <2> QED BY <1>1
<1>3. Len(only) = 1 /\ only[1] = y
  <2> HIDE DEF S
  <2> QED BY <1>1
<1> HIDE DEF both, only
<1>4. (\E k \in 1..Len(both) : both[k].op = "main") <=> x.op = "main"
  <2>1. \A k \in 1..2 : k = 1 \/ k = 2
    OBVIOUS
  <2>2. 1 \in 1..2
    OBVIOUS
  <2> QED BY <1>2, <2>1, <2>2
<1>5. ~\E k \in 1..Len(only) : only[k].op = "main"
  <2>1. \A k \in 1..1 : k = 1
    OBVIOUS
  <2> QED BY <1>3, <2>1
<1> QED BY <1>4, <1>5 DEF both, only

LEMMA AsmStarts ==
  ASSUME NEW p, p.main \in BOOLEAN, p.entry \in BOOLEAN
  PROVE (\E k \in 1..Len(AsmEnding(p)) : AsmEnding(p)[k].op = "main")
          <=> p.main /\ p.entry /\ ~calls_name(p.tree)[Len(p.tree)]
<1> DEFINE end == Size(p.tree)[Len(p.tree)] + 1
           calls == calls_name(p.tree)[Len(p.tree)]
           x == [Ins("const", end, <<>>, <<>>, Scratch(0)) EXCEPT !.n = 0]
           z == Ins("main", end, <<>> \o <<>>, <<>>, Scratch(0))
           y == Ins("finish", end, <<>> \o <<>>, <<>>, Nowhere)
           first == IF ~p.main THEN <<x>> ELSE IF p.entry /\ ~calls THEN <<z>> ELSE <<>>
           ending == AsmEnding(p)
           Begins == \E k \in 1..Len(ending) : ending[k].op = "main"
<1>1. ending = first \o <<y>>
  BY DEF AsmEnding, Constant, Compute
<1>2. x.op = "const" /\ z.op = "main" /\ y.op = "finish"
  BY DEF Ins
<1>3. x.op # "main" /\ y.op # "main"
  BY <1>2
<1> HIDE DEF x, y, z, calls, ending
<1>4. CASE ~p.main
  <2>1. ending = <<x>> \o <<y>>
    BY <1>1, <1>4
  <2>2. ~Begins
    BY <1>3, <2>1, OneThenOther
  <2> QED BY <1>4, <2>2 DEF ending
<1>5. CASE p.main /\ p.entry /\ ~calls
  <2>1. ending = <<z>> \o <<y>>
    BY <1>1, <1>5
  <2>2. Begins
    BY <1>2, <1>3, <2>1, OneThenOther
  <2> QED BY <1>5, <2>2 DEF ending, calls
<1>6. CASE p.main /\ ~(p.entry /\ ~calls)
  <2>1. ending = <<>> \o <<y>>
    BY <1>1, <1>6
  <2>2. ~Begins
    BY <1>3, <2>1, OneThenOther
  <2> QED BY <1>6, <2>2 DEF ending, calls
<1> QED BY <1>4, <1>5, <1>6

LEMMA CStarts ==
  ASSUME NEW p, p.main \in BOOLEAN, p.entry \in BOOLEAN
  PROVE (\E k \in 1..Len(CEnding(p)) : CEnding(p)[k].op = "main")
          <=> p.main /\ p.entry /\ ~stmt_calls(p.tree)[Len(p.tree)]
<1> DEFINE end == Size(p.tree)[Len(p.tree)] + 1
           calls == stmt_calls(p.tree)[Len(p.tree)]
           z == Ins("main", end, <<>> \o <<>>, <<>>, <<"c", end, 0>>)
           y == Ins("finish", end, <<>> \o <<>>, <<>>, Nowhere)
           first == IF p.main /\ p.entry /\ ~calls THEN <<z>> ELSE <<>>
           ending == CEnding(p)
           Begins == \E k \in 1..Len(ending) : ending[k].op = "main"
<1>1. ending = first \o <<y>>
  BY DEF CEnding, Compute
<1>2. z.op = "main" /\ y.op # "main"
  BY DEF Ins
<1> HIDE DEF y, z, calls, ending
<1>3. CASE p.main /\ p.entry /\ ~calls
  <2>1. ending = <<z>> \o <<y>>
    BY <1>1, <1>3
  <2>2. Begins
    BY <1>2, <2>1, OneThenOther
  <2> QED BY <1>3, <2>2 DEF ending, calls
<1>4. CASE ~(p.main /\ p.entry /\ ~calls)
  <2>1. ending = <<>> \o <<y>>
    BY <1>1, <1>4
  <2>2. ~Begins
    BY <1>2, <2>1, OneThenOther
  <2> QED BY <1>4, <2>2 DEF ending, calls
<1> QED BY <1>3, <1>4

(* Outside of a conditional expression the C backend sees every call.      *)
LEMMA CallsSeen ==
  ASSUME NEW tree, TreeOK(tree), ~Conditional(tree)
  PROVE stmt_calls(tree)[Len(tree)] = Holds(tree, {"main"})[Len(tree)]
<1> DEFINE S == {m \in 1..Len(tree) : stmt_calls(tree)[m] = Holds(tree, {"main"})[m]}
<1>1. ASSUME NEW m \in 1..Len(tree), \A k \in 1..m - 1 : k \in S PROVE m \in S
  <2> DEFINE n == Len(tree[m].kids)
             some == \E i \in 1..n : Parts(tree[m], Holds(tree, {"main"}))[i]
  <2>1. \A k \in 1..m - 1 : stmt_calls(tree)[k] = Holds(tree, {"main"})[k]
    BY <1>1
  <2>2. Parts(tree[m], stmt_calls(tree)) = Parts(tree[m], Holds(tree, {"main"}))
    BY <2>1, SameParts
  <2>3. /\ Holds(tree, {"main"})[m] = (tree[m].kind \in {"main"} \/ some)
        /\ Holds(tree, {"main"})[m] \in BOOLEAN
    BY HoldsIs
  <2>4. stmt_calls(tree)[m] = (tree[m].kind = "main" \/ (tree[m].kind # "ternary" /\ some))
    BY <2>2, StmtCallsIs
  <2>5. tree[m].kind = "ternary" => ~Holds(tree, {"main"})[m]
    BY DEF Conditional
  <2> HIDE DEF some
  <2>6. stmt_calls(tree)[m] = Holds(tree, {"main"})[m]
    BY <2>3, <2>4, <2>5
  <2> QED BY <2>6
<1>2. Len(tree) \in Nat /\ Len(tree) \in 1..Len(tree)
  BY DEF TreeOK
<1>3. \A m \in 1..Len(tree) : m \in S
  <2> HIDE DEF S
  <2> QED BY <1>1, <1>2, Induction
<1> QED BY <1>2, <1>3

(* A tree that does not mention the name holds no more than its calls.     *)
LEMMA MentionsSeen ==
  ASSUME NEW tree, TreeOK(tree), ~Mentions(tree)
  PROVE calls_name(tree)[Len(tree)] = Holds(tree, {"main"})[Len(tree)]
<1> DEFINE S == {m \in 1..Len(tree) : calls_name(tree)[m] = Holds(tree, {"main"})[m]}
<1>1. ASSUME NEW m \in 1..Len(tree), \A k \in 1..m - 1 : k \in S PROVE m \in S
  <2> DEFINE n == Len(tree[m].kids)
             some == \E i \in 1..n : Parts(tree[m], Holds(tree, {"main"}))[i]
  <2>1. \A k \in 1..m - 1 : calls_name(tree)[k] = Holds(tree, {"main"})[k]
    BY <1>1
  <2>2. Parts(tree[m], calls_name(tree)) = Parts(tree[m], Holds(tree, {"main"}))
    BY <2>1, SameParts
  <2>3. Holds(tree, {"main"})[m] = (tree[m].kind \in {"main"} \/ some)
    BY HoldsIs
  <2>4. calls_name(tree)[m] = (tree[m].kind \in {"main", "mention"} \/ some)
    BY <2>2, HoldsIs DEF calls_name
  <2>5. tree[m].kind # "mention"
    BY DEF Mentions
  <2> HIDE DEF some
  <2>6. calls_name(tree)[m] = Holds(tree, {"main"})[m]
    BY <2>3, <2>4, <2>5
  <2> QED BY <2>6
<1>2. Len(tree) \in Nat /\ Len(tree) \in 1..Len(tree)
  BY DEF TreeOK
<1>3. \A m \in 1..Len(tree) : m \in S
  <2> HIDE DEF S
  <2> QED BY <1>1, <1>2, Induction
<1> QED BY <1>2, <1>3

(* In any tree, the C backend sees no call that there is not.              *)
LEMMA CallsAre ==
  ASSUME NEW tree, TreeOK(tree)
  PROVE stmt_calls(tree)[Len(tree)] => Holds(tree, {"main"})[Len(tree)]
<1> DEFINE S == {m \in 1..Len(tree) : stmt_calls(tree)[m] => Holds(tree, {"main"})[m]}
<1>1. ASSUME NEW m \in 1..Len(tree), \A k \in 1..m - 1 : k \in S PROVE m \in S
  <2> DEFINE n == Len(tree[m].kids)
             seen == \E i \in 1..n : Parts(tree[m], stmt_calls(tree))[i]
             some == \E i \in 1..n : Parts(tree[m], Holds(tree, {"main"}))[i]
  <2>1. \A i \in 1..n : tree[m].kids[i] \in 1..m - 1
    BY PartsBefore
  <2>2. \A i \in 1..n : stmt_calls(tree)[tree[m].kids[i]] => Holds(tree, {"main"})[tree[m].kids[i]]
    BY <1>1, <2>1
  <2>3. seen => some
    BY <2>2 DEF Parts
  <2>4. Holds(tree, {"main"})[m] = (tree[m].kind \in {"main"} \/ some)
    BY HoldsIs
  <2>5. stmt_calls(tree)[m] = (tree[m].kind = "main" \/ (tree[m].kind # "ternary" /\ seen))
    BY StmtCallsIs
  <2> HIDE DEF some, seen
  <2>6. stmt_calls(tree)[m] => Holds(tree, {"main"})[m]
    BY <2>3, <2>4, <2>5
  <2> QED BY <2>6
<1>2. Len(tree) \in Nat /\ Len(tree) \in 1..Len(tree)
  BY DEF TreeOK
<1>3. \A m \in 1..Len(tree) : m \in S
  <2> HIDE DEF S
  <2> QED BY <1>1, <1>2, Induction
<1> QED BY <1>2, <1>3

(* In any tree, the assembly backend sees every call that there is.        *)
LEMMA CallsAreSeen ==
  ASSUME NEW tree, TreeOK(tree)
  PROVE Holds(tree, {"main"})[Len(tree)] => calls_name(tree)[Len(tree)]
<1> DEFINE S == {m \in 1..Len(tree) : Holds(tree, {"main"})[m] => calls_name(tree)[m]}
<1>1. ASSUME NEW m \in 1..Len(tree), \A k \in 1..m - 1 : k \in S PROVE m \in S
  <2> DEFINE n == Len(tree[m].kids)
             seen == \E i \in 1..n : Parts(tree[m], calls_name(tree))[i]
             some == \E i \in 1..n : Parts(tree[m], Holds(tree, {"main"}))[i]
  <2>1. \A i \in 1..n : tree[m].kids[i] \in 1..m - 1
    BY PartsBefore
  <2>2. \A i \in 1..n : Holds(tree, {"main"})[tree[m].kids[i]] => calls_name(tree)[tree[m].kids[i]]
    BY <1>1, <2>1
  <2>3. some => seen
    BY <2>2 DEF Parts
  <2>4. Holds(tree, {"main"})[m] = (tree[m].kind \in {"main"} \/ some)
    BY HoldsIs
  <2>5. calls_name(tree)[m] = (tree[m].kind \in {"main", "mention"} \/ seen)
    BY HoldsIs DEF calls_name
  <2> HIDE DEF some, seen
  <2>6. Holds(tree, {"main"})[m] => calls_name(tree)[m]
    BY <2>3, <2>4, <2>5
  <2> QED BY <2>6
<1>2. Len(tree) \in Nat /\ Len(tree) \in 1..Len(tree)
  BY DEF TreeOK
<1>3. \A m \in 1..Len(tree) : m \in S
  <2> HIDE DEF S
  <2> QED BY <1>1, <1>2, Induction
<1> QED BY <1>2, <1>3

-----------------------------------------------------------------------------
(* The entry point *)

LEMMA EmissionEntry ==
  ASSUME Emission
  PROVE EntryAgrees
<1> DEFINE tree == program.tree
           N == Len(tree)
           size == Size(tree)[N]
           calls == \E i \in 1..Len(body) : body[i].kind = "main"
           starts == \E i \in 1..Len(code) :
                       code[i].op = "main" /\ body[code[i].item].kind = "finish"
           due == program.main /\ program.entry /\ ~calls
<1>1. TreeOK(tree) /\ program.main \in BOOLEAN /\ program.entry \in BOOLEAN
  BY ProgramsAssumption DEF Emission
<1>2. body = BodyOf(tree) /\ code = Assembled(Emit(program, backend))
      /\ (backend = "asm" \/ backend = "c")
  BY BackendsAssumption DEF Emission
<1>3. calls <=> Holds(tree, {"main"})[N]
  BY <1>1, <1>2, BodyIs
<1>4. size \in Nat /\ Final(tree, N, 1) = size
  BY <1>1, SizeIs DEF TreeOK, Final
<1>5. SUFFICES /\ ~Misjudged(tree) => (starts <=> due)
               /\ backend = "asm" => (starts => due)
               /\ backend = "c" => (due => starts)
  BY DEF EntryAgrees
<1>6. CASE backend = "asm"
  <2> DEFINE first == AsmBody(program)
             ending == AsmEnding(program)
             begins == \E k \in 1..Len(ending) : ending[k].op = "main"
  <2>1. code = Assembled(first \o ending)
    BY <1>1, <1>2, <1>6, AsmFunctionIs DEF Emit
  <2>2. /\ first \in Seq(AsmUsing(tree, N, 1, Nowhere, 0))
        /\ ending \in Seq(Using(AsmHere(program), AsmWidths(program), {size + 1}))
        /\ Len(ending) > 0
    BY <1>1, AsmFunctionParts
  <2>3. PICK L, A : first \in Seq(Using(L, A, 1..size))
    BY <1>4, <2>2 DEF AsmUsing
  <2>4. starts <=> begins
    <3> DEFINE L2 == AsmHere(program)
               A2 == AsmWidths(program)
    <3>1. /\ TreeOK(tree) /\ first \in Seq(Using(L, A, 1..Size(tree)[Len(tree)]))
          /\ ending \in Seq(Using(L2, A2, {Size(tree)[Len(tree)] + 1})) /\ Len(ending) > 0
          /\ code = Assembled(first \o ending)
      BY <1>1, <2>1, <2>2, <2>3
    <3>2. Starts(tree, code) <=> Enters(ending)
      <4> HIDE DEF first, ending, L2, A2, tree
      <4> QED BY <3>1, StartsAtEnd
    <3>3. starts <=> Starts(tree, code)
      BY <1>2 DEF Starts
    <3>4. begins <=> Enters(ending)
      BY DEF Enters
    <3> HIDE DEF starts, begins, ending
    <3> QED BY <3>2, <3>3, <3>4
  <2>5. begins <=> program.main /\ program.entry /\ ~calls_name(tree)[N]
    BY <1>1, AsmStarts
  <2>6. /\ ~Misjudged(tree) => (calls_name(tree)[N] <=> Holds(tree, {"main"})[N])
        /\ Holds(tree, {"main"})[N] => calls_name(tree)[N]
    BY <1>1, <1>6, MentionsSeen, CallsAreSeen DEF Misjudged
  <2> HIDE DEF starts, calls, begins, N
  <2> QED BY <1>3, <1>6, <2>4, <2>5, <2>6
<1>7. CASE backend = "c"
  <2> DEFINE first == CBody(program)
             ending == CEnding(program)
             begins == \E k \in 1..Len(ending) : ending[k].op = "main"
  <2>1. code = Assembled(first \o ending)
    BY <1>1, <1>2, <1>7, CFunctionParts DEF Emit
  <2>2. /\ first \in Seq(CUsing(tree, N, 1, 0, Nowhere))
        /\ ending \in Seq(Using(CHere(program), Nat, {size + 1}))
        /\ Len(ending) > 0
    BY <1>1, CFunctionParts
  <2>3. PICK L, A : first \in Seq(Using(L, A, 1..size))
    BY <1>4, <2>2 DEF CUsing
  <2>4. starts <=> begins
    <3> DEFINE L2 == CHere(program)
               A2 == Nat
    <3>1. /\ TreeOK(tree) /\ first \in Seq(Using(L, A, 1..Size(tree)[Len(tree)]))
          /\ ending \in Seq(Using(L2, A2, {Size(tree)[Len(tree)] + 1})) /\ Len(ending) > 0
          /\ code = Assembled(first \o ending)
      BY <1>1, <2>1, <2>2, <2>3
    <3>2. Starts(tree, code) <=> Enters(ending)
      <4> HIDE DEF first, ending, L2, A2, tree
      <4> QED BY <3>1, StartsAtEnd
    <3>3. starts <=> Starts(tree, code)
      BY <1>2 DEF Starts
    <3>4. begins <=> Enters(ending)
      BY DEF Enters
    <3> HIDE DEF starts, begins, ending
    <3> QED BY <3>2, <3>3, <3>4
  <2>5. begins <=> program.main /\ program.entry /\ ~stmt_calls(tree)[N]
    BY <1>1, CStarts
  <2>6. /\ ~Misjudged(tree) => (stmt_calls(tree)[N] <=> Holds(tree, {"main"})[N])
        /\ stmt_calls(tree)[N] => Holds(tree, {"main"})[N]
    BY <1>1, <1>7, CallsSeen, CallsAre DEF Misjudged
  <2> HIDE DEF starts, calls, begins, N
  <2> QED BY <1>3, <1>7, <2>4, <2>5, <2>6
<1> QED BY <1>2, <1>6, <1>7

(* Both native backends put a call of the entry point at the end of the    *)
(* top level from a walk over it (calls_name, stmt_calls): whatever the    *)
(* top level is, the emitted code ends in one exactly if no statement of   *)
(* it calls the entry point, except where the C backend's walk overlooks   *)
(* such a call in a conditional expression, and the assembly backend's     *)
(* takes a mention of the name for one: the former may then call it once   *)
(* too often and the latter not at all, never the other way round.         *)
THEOREM EntryAgreesAlways == Spec => []EntryAgrees
<1>1. Emission => EntryAgrees
  BY EmissionEntry
<1> QED BY <1>1, EmissionHolds, PTL
=============================================================================
