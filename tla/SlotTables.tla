----------------------------- MODULE SlotTables -----------------------------
(***************************************************************************)
(* What the frames of the VM need of the resolver's tables.  SlotFrames    *)
(* assumes it of its constants and Resolver is shown to establish it.      *)
(***************************************************************************)
EXTENDS Integers

(* The names a scope owns have slots of a frame of "count", each its own. *)
FrameFits(names, slot, count) ==
  /\ count \in Nat
  /\ \A n \in names : slot[n] \in 0..count - 1
  /\ \A m, n \in names : slot[m] = slot[n] => m = n
=============================================================================
