----------------------------- MODULE EventQueue -----------------------------
(***************************************************************************)
(* What a HolyD script is promised about the events a host collects for    *)
(* it: they come out in the order they happened, each at most once, and a  *)
(* script that does not keep up loses the oldest ones first.               *)
(*                                                                         *)
(* EventRing (the array and its two counters) is shown to implement this   *)
(* module, and Windows uses its queue.                                     *)
(***************************************************************************)
EXTENDS Naturals, Sequences

CONSTANTS
  Events,   \* what a host reports
  Nothing,  \* what a poll answers when nothing is queued
  Cap       \* HD_EVENT_CAP

VARIABLES
  queue,    \* the events not polled yet, oldest first
  polled    \* what the last poll returned

Dropped(q) == IF Len(q) = Cap THEN Tail(q) ELSE q

Pushed(q, e) == Append(Dropped(q), e)

Push(e) ==
  /\ queue' = Pushed(queue, e)
  /\ UNCHANGED polled

Poll ==
  IF queue = <<>>
  THEN polled' = Nothing /\ UNCHANGED queue
  ELSE polled' = Head(queue) /\ queue' = Tail(queue)

Init == queue = <<>> /\ polled = Nothing

Next == Poll \/ \E e \in Events : Push(e)

Spec == Init /\ [][Next]_<<queue, polled>>
=============================================================================
