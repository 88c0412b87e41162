---------------------------- MODULE MCEventRing -----------------------------
(***************************************************************************)
(* Three kinds of event and a ring of three: it fills, overflows and wraps *)
(* at every head.                                                          *)
(***************************************************************************)
EXTENDS EventRing

MCEvents == {"key", "resize", "quit"}
=============================================================================
