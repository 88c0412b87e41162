------------------------------ MODULE Windows -------------------------------
(***************************************************************************)
(* HolyD's windows on the Win32 host: the table of surfaces a script draws *)
(* into (src/src/ffi.c), the table of windows behind them and the event    *)
(* queue between the two (src/src/ffi_win32.c).                            *)
(*                                                                         *)
(* Everything runs on the script's thread, but the system's messages reach *)
(* wnd_proc while a native pumps them: in WinCreate, WinDestroy,           *)
(* WinPollEvent, Sleep, Yield and the prompts.  A native that pumps is     *)
(* therefore a Begin action, any number of messages, and an End action.    *)
(*                                                                         *)
(* A DIB section is the address of its pixels; an address that was freed   *)
(* may be handed out again.  "gen" is history: it tells two windows apart  *)
(* that were given the same handle, and decides nothing.                   *)
(***************************************************************************)
EXTENDS Integers, Sequences, FiniteSets

CONSTANTS
  HD_MAX_WINDOWS,
  Cap,          \* HD_EVENT_CAP
  Addresses,    \* where CreateDIBSection can put pixels
  NoPixels,     \* NULL
  Nothing,      \* EV_NONE
  MaxCreates    \* bound on the windows a run creates

ASSUME WindowsAssumption ==
  /\ HD_MAX_WINDOWS \in Nat \ {0}
  /\ Cap \in Nat \ {0}
  /\ MaxCreates \in Nat
  /\ NoPixels \notin Addresses

Handles == 1..HD_MAX_WINDOWS

Closed == [open |-> FALSE, pixels |-> NoPixels, gen |-> 0]
Pumps == {"create", "destroy", "poll", "sleep"}
Idle == [op |-> "none", handle |-> 0]

VARIABLES
  host,         \* ffi_win32.c: windows[handle - 1]
  table,        \* ffi.c: windows[handle - 1] and its surface
  window_count,
  queue,        \* the event ring's contents, as EventRing implements it
  last_event,
  native,       \* the native the script is inside of
  refs,         \* history: the windows WinCreate handed to the script
  missed        \* history: handles that lost a resize or got another's

vars == <<host, table, window_count, queue, last_event, native, refs, missed>>

Ring == INSTANCE EventQueue
          WITH queue <- queue, polled <- last_event,
               Events <- [type : {"resize", "input"}, window : Handles,
                          pixels : Addresses \cup {NoPixels}, gen : 1..MaxCreates]

-----------------------------------------------------------------------------
(* Lookups *)

Open(t) == {h \in Handles : t[h].open}

win_by_handle(h) == IF h \in Open(table) THEN {h} ELSE {}

win_only == IF window_count = 1 THEN Open(table) ELSE {}

(* Addresses no window's DIB occupies now. *)
Free == Addresses \ {host[h].pixels : h \in Handles}

(* The pixels a drawing native called with h writes, if it writes any.     *)
DrawTarget(h) == {table[s].pixels : s \in win_by_handle(h)} \ {NoPixels}

-----------------------------------------------------------------------------
(* wnd_proc, run by a pump *)

Pumping == native.op \in Pumps

LosesResize(h) ==
  /\ Len(queue) = Cap
  /\ Head(queue).type = "resize"
  /\ Head(queue).window = h
  /\ Head(queue).gen = host[h].gen

(* Mutant: a full ring grows. *)
PushEventGrows(e) ==
  /\ queue' = Append(queue, e)
  /\ UNCHANGED missed

(* A push onto a full ring loses the oldest event; that it was a resize is *)
(* noted.                                                                  *)
PushEvent(e) ==
  /\ queue' = Ring!Pushed(queue, e)
  /\ missed' = missed \cup {h \in Handles : LosesResize(h)}

(* Keys, the pointer and WM_CLOSE, which only reports that the user wants  *)
(* the window closed.                                                      *)
InputMessage(h) ==
  /\ Pumping
  /\ host[h].open
  /\ PushEvent([type |-> "input", window |-> h, pixels |-> NoPixels, gen |-> host[h].gen])
  /\ UNCHANGED <<host, table, window_count, last_event, native, refs>>

(* Mutant: the event carries the surface the window had before.            *)
SizeMessageOldSurface(h) ==
  /\ Pumping
  /\ host[h].open
  /\ \E p \in Free :
       /\ host' = [host EXCEPT ![h].pixels = p]
       /\ PushEvent([type |-> "resize", window |-> h, pixels |-> host[h].pixels,
                     gen |-> host[h].gen])
  /\ UNCHANGED <<table, window_count, last_event, native, refs>>

(* WM_SIZE to a new size: the old DIB goes before the new one is made, and *)
(* when that fails there is none and no event says so.                     *)
SizeMessage(h) ==
  /\ Pumping
  /\ host[h].open
  /\ \/ \E p \in (Free \cup {host[h].pixels}) \ {NoPixels} :
          /\ host' = [host EXCEPT ![h].pixels = p]
          /\ PushEvent([type |-> "resize", window |-> h, pixels |-> p, gen |-> host[h].gen])
     \/ /\ host' = [host EXCEPT ![h].pixels = NoPixels]
        /\ UNCHANGED <<queue, missed>>
  /\ UNCHANGED <<table, window_count, last_event, native, refs>>

-----------------------------------------------------------------------------
(* The natives.  One that is refused, by its arguments, by a full table or *)
(* by the system, changes nothing.                                         *)

Enter(op, h) == native = Idle /\ native' = [op |-> op, handle |-> h]
Leave(op) == native.op = op /\ native' = Idle

LeastClosed(t) == CHOOSE h \in Handles \ Open(t) : \A g \in Handles \ Open(t) : h <= g

BeginCreate ==
  /\ Cardinality(refs) < MaxCreates
  /\ Open(host) # Handles
  /\ Enter("create", LeastClosed(host))
  /\ \E p \in Free :
       host' = [host EXCEPT ![LeastClosed(host)] =
                  [open |-> TRUE, pixels |-> p, gen |-> Cardinality(refs) + 1]]
  /\ UNCHANGED <<table, window_count, queue, last_event, refs, missed>>

(* Mutant: a handle that is used again is not counted again. *)
EndCreateCountsNew ==
  LET h == native.handle IN
  /\ Leave("create")
  /\ table' = [table EXCEPT ![h] = host[h]]
  /\ window_count' = IF \E r \in refs : r.handle = h THEN window_count ELSE window_count + 1
  /\ refs' = refs \cup {[handle |-> h, gen |-> host[h].gen]}
  /\ missed' = missed \ {h}
  /\ UNCHANGED <<host, queue, last_event>>

(* The surface is the one the window has after the first messages.         *)
EndCreate ==
  LET h == native.handle IN
  /\ Leave("create")
  /\ table' = [table EXCEPT ![h] = host[h]]
  /\ window_count' = IF table[h].open THEN window_count ELSE window_count + 1
  /\ refs' = refs \cup {[handle |-> h, gen |-> host[h].gen]}
  /\ missed' = missed \ {h}
  /\ UNCHANGED <<host, queue, last_event>>

(* The window and its DIB go; the events queued for it stay.               *)
BeginDestroy(h) ==
  /\ h \in win_by_handle(h)
  /\ Enter("destroy", h)
  /\ host' = [host EXCEPT ![h] = Closed]
  /\ UNCHANGED <<table, window_count, queue, last_event, refs, missed>>

(* Mutant: the slot stays in use, as if the host had refused. *)
EndDestroyKeepsSlot ==
  /\ Leave("destroy")
  /\ window_count' = window_count - 1
  /\ UNCHANGED <<host, table, queue, last_event, refs, missed>>

EndDestroy ==
  /\ Leave("destroy")
  /\ table' = [table EXCEPT ![native.handle] = Closed]
  /\ window_count' = window_count - 1
  /\ UNCHANGED <<host, queue, last_event, refs, missed>>

(* WinPollEvent([handle]), 0 standing for no handle or one out of range.   *)
BeginPoll(h) ==
  /\ Enter("poll", h)
  /\ UNCHANGED <<host, table, window_count, queue, last_event, refs, missed>>

(* Whose surface a resize replaces: what the event says, what the caller   *)
(* named, the only open window.                                            *)
ResizeSlot(e, h) ==
  IF win_by_handle(e.window) # {} THEN win_by_handle(e.window)
  ELSE IF win_by_handle(h) # {} THEN win_by_handle(h)
  ELSE win_only

EndPoll ==
  /\ Leave("poll")
  /\ Ring!Poll
  /\ IF queue # <<>> /\ Head(queue).type = "resize"
     THEN LET e == Head(queue)
              slot == ResizeSlot(e, native.handle) IN
          /\ table' = [h \in Handles |-> IF h \in slot
                                         THEN [table[h] EXCEPT !.pixels = e.pixels]
                                         ELSE table[h]]
          /\ missed' = IF \E h \in slot : table[h].gen # e.gen
                       THEN missed \cup slot ELSE missed \ slot
     ELSE UNCHANGED <<table, missed>>
  /\ UNCHANGED <<host, window_count, refs>>

(* Sleep, Yield, WinPrompt and WinPromptText: messages and nothing else.   *)
BeginSleep ==
  /\ Enter("sleep", 0)
  /\ UNCHANGED <<host, table, window_count, queue, last_event, refs, missed>>

EndSleep ==
  /\ Leave("sleep")
  /\ UNCHANGED <<host, table, window_count, queue, last_event, refs, missed>>

Init ==
  /\ host = [h \in Handles |-> Closed]
  /\ table = [h \in Handles |-> Closed]
  /\ window_count = 0
  /\ queue = <<>>
  /\ last_event = Nothing
  /\ native = Idle
  /\ refs = {}
  /\ missed = {}

Next ==
  \/ BeginCreate \/ EndCreate
  \/ \E h \in Handles : BeginDestroy(h)
  \/ EndDestroy
  \/ \E h \in Handles \cup {0} : BeginPoll(h)
  \/ EndPoll
  \/ BeginSleep \/ EndSleep
  \/ \E h \in Handles : InputMessage(h) \/ SizeMessage(h)

Spec == Init /\ [][Next]_vars

-----------------------------------------------------------------------------
(* Properties *)

Slots == [open : BOOLEAN, pixels : Addresses \cup {NoPixels}, gen : 0..MaxCreates]

(* The shape of the two tables, the queue and the native in progress. *)
TypeOK ==
  /\ host \in [Handles -> Slots]
  /\ table \in [Handles -> Slots]
  /\ window_count \in 0..HD_MAX_WINDOWS
  /\ Len(queue) <= Cap
  /\ native.op \in Pumps \cup {"none"}
  /\ native.handle \in Handles \cup {0}
  /\ \A r \in refs : r.handle \in Handles /\ r.gen \in 1..MaxCreates
  /\ missed \subseteq Handles

(* The script's table and the host's have the same windows open, but for   *)
(* the one being created or destroyed: no handle leaks and none dangles.   *)
TablesAgree ==
  \A h \in Handles :
    LET pending == native.handle = h /\ native.op \in {"create", "destroy"} IN
    /\ ~pending => table[h].open = host[h].open /\ table[h].gen = host[h].gen
    /\ pending /\ native.op = "create" => host[h].open /\ ~table[h].open
    /\ pending /\ native.op = "destroy" => ~host[h].open /\ table[h].open

(* win_only trusts the counter: it is the number of open slots. *)
CountIsTable == window_count = Cardinality(Open(table))

(* Once a window's last resize has been polled, and unless the ring lost   *)
(* one of its resizes, another window's event was taken for its own or the *)
(* system had no DIB for it, what the script draws is what the host shows. *)
LastResize(h) ==
  LET mine == {i \in 1..Len(queue) : /\ queue[i].type = "resize"
                                     /\ queue[i].window = h
                                     /\ queue[i].gen = host[h].gen} IN
  {queue[i].pixels : i \in {j \in mine : \A k \in mine : k <= j}}

SurfaceFollowsResize ==
  \A h \in Handles :
    /\ table[h].open /\ host[h].open
    /\ h \notin missed
    /\ host[h].pixels # NoPixels
    => (IF LastResize(h) = {} THEN DrawTarget(h) ELSE LastResize(h)) = {host[h].pixels}

(* ffi.c: "a stale handle is a lookup miss rather than a write into        *)
(* another window".                                                        *)
StaleHandleMisses ==
  \A r \in refs : r.handle \in Open(table) => table[r.handle].gen = r.gen

(* ffi_platform.h: a resize event carries the new surface "because a       *)
(* resize is exactly when the old buffer stops being valid", and wnd_proc  *)
(* refuses to destroy a window on WM_CLOSE because that "would pull the    *)
(* surface out from under a frame already in flight".  So no surface a     *)
(* script can draw to is pulled out from under it: while the script runs,  *)
(* the pixels of its open windows are those of their DIBs.                 *)
SurfaceStaysUnderFrame ==
  native = Idle => \A h \in Open(table) : DrawTarget(h) = {host[h].pixels} \ {NoPixels}
=============================================================================
