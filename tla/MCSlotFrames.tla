---------------------------- MODULE MCSlotFrames ----------------------------
(***************************************************************************)
(* A program with every kind of name: a global one function shadows ("x"), *)
(* a runtime constant the top level assigns over and that function         *)
(* declares ("k"), a name only the other has ("y"), an unnamed parameter,  *)
(* two parameters of one name, and a foreach at the top level and in a     *)
(* function.  Depth 2 holds a call of f or g from f or g, itself included. *)
(***************************************************************************)
EXTENDS SlotFrames

MCNames == {"x", "y", "k"}
MCTemps == {"$0", "$1"}
MCFunctions == {"f", "g"}
MCParams == [f |-> <<NoName, "y", "y">>, g |-> <<>>]
MCLocals == [f |-> {"y"}, g |-> {"x", "k"}]
MCGlobals == {"x", "k"}
MCRuntimeConstants == {"k"}
MCRuntimeValue == [k |-> 0]
MCValues == {0, 1}
MCMainTemps == {"$0"}
MCTempsOf == [f |-> {"$1"}, g |-> {}]
MCGlobalSlot == [x |-> 1, y |-> NoSlot, k |-> 0]
MCLocalSlot == [f |-> [x |-> NoSlot, y |-> 0, k |-> NoSlot],
                g |-> [x |-> 0, y |-> NoSlot, k |-> 1]]
MCFrameCount == [f |-> 1, g |-> 2]
=============================================================================
