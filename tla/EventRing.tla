----------------------------- MODULE EventRing ------------------------------
(***************************************************************************)
(* The event queue of the Win32 host (push_event and pop_event of          *)
(* src/src/ffi_win32.c): a fixed array, the index of the oldest event and  *)
(* how many there are.  The window procedure pushes while a native pumps   *)
(* messages and the script pops with WinPollEvent.                         *)
(***************************************************************************)
EXTENDS Integers, Sequences

CONSTANTS
  Events,   \* what the window procedure can push
  Nothing,  \* WinPollEvent's EV_NONE
  Cap       \* HD_EVENT_CAP

ASSUME CapAssumption == Cap \in Nat \ {0}
ASSUME EventsAssumption == Nothing \notin Events

VARIABLES
  events,       \* the array; the zeroed static entries are Nothing
  event_head,   \* index of the oldest event
  event_count,  \* events in the ring
  polled        \* what pop_event last handed out

vars == <<events, event_head, event_count, polled>>

Init ==
  /\ events = [i \in 0..Cap - 1 |-> Nothing]
  /\ event_head = 0
  /\ event_count = 0
  /\ polled = Nothing

(* Mutant: the head does not move when the ring is full. *)
PushEventKeepsHead(e) ==
  LET n == IF event_count = Cap THEN Cap - 1 ELSE event_count IN
  /\ events' = [events EXCEPT ![(event_head + n) % Cap] = e]
  /\ event_count' = n + 1
  /\ UNCHANGED <<event_head, polled>>

(* Mutant: the full ring is noticed one event too late. *)
PushEventLate(e) ==
  /\ events' = [events EXCEPT ![(event_head + event_count) % Cap] = e]
  /\ event_count' = IF event_count > Cap THEN Cap ELSE event_count + 1
  /\ UNCHANGED <<event_head, polled>>

(* A full ring drops its oldest event first. *)
push_event(e) ==
  LET full == event_count = Cap
      head == IF full THEN (event_head + 1) % Cap ELSE event_head
      n    == IF full THEN event_count - 1 ELSE event_count IN
  /\ events' = [events EXCEPT ![(head + n) % Cap] = e]
  /\ event_head' = head
  /\ event_count' = n + 1
  /\ UNCHANGED polled

(* Mutant: the newest event is handed out first. *)
PopNewest ==
  \/ /\ event_count = 0
     /\ polled' = Nothing
     /\ UNCHANGED <<events, event_head, event_count>>
  \/ /\ event_count # 0
     /\ polled' = events[(event_head + event_count - 1) % Cap]
     /\ event_count' = event_count - 1
     /\ UNCHANGED <<events, event_head>>

pop_event ==
  \/ /\ event_count = 0
     /\ polled' = Nothing
     /\ UNCHANGED <<events, event_head, event_count>>
  \/ /\ event_count # 0
     /\ polled' = events[event_head]
     /\ event_head' = (event_head + 1) % Cap
     /\ event_count' = event_count - 1
     /\ UNCHANGED events

Next == pop_event \/ \E e \in Events : push_event(e)

Spec == Init /\ [][Next]_vars

(* A script's event loop polls again and again. *)
FairSpec == Spec /\ WF_vars(pop_event)

-----------------------------------------------------------------------------
(* Properties *)

Contents == [i \in 1..event_count |-> events[(event_head + i - 1) % Cap]]

(* The counters stay inside the array, and every entry they delimit was    *)
(* pushed: a poll never hands out a zeroed or overwritten one.             *)
TypeOK ==
  /\ events \in [0..Cap - 1 -> Events \cup {Nothing}]
  /\ event_head \in 0..Cap - 1
  /\ event_count \in 0..Cap
  /\ polled \in Events \cup {Nothing}
  /\ \A i \in 1..event_count : Contents[i] \in Events

(* The ring is the bounded queue that loses its oldest events first.       *)
Queue == INSTANCE EventQueue WITH queue <- Contents

ImplementsEventQueue == Queue!Spec

(* With the script polling, the oldest event never stays in the ring for   *)
(* ever, however many newer ones arrive: it is handed out or dropped.      *)
OldestLeaves ==
  \A h \in 0..Cap - 1 :
    (event_count # 0 /\ event_head = h) ~> (event_count = 0 \/ event_head # h)
=============================================================================
