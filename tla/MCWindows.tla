----------------------------- MODULE MCWindows ------------------------------
(***************************************************************************)
(* Two handles and three creations, so that a handle is used again; a ring *)
(* of two, so that it overflows while a resize waits in it; and one address*)
(* more than the windows can occupy at once.  An address is only ever      *)
(* compared with another, so permuting them changes nothing.               *)
(***************************************************************************)
EXTENDS Windows, TLC

AddressSymmetry == Permutations(Addresses)
=============================================================================
