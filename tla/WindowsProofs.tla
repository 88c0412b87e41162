--------------------------- MODULE WindowsProofs ---------------------------
(***************************************************************************)
(* Proofs about Windows, for any number of windows, events and addresses:  *)
(* the script's table and the host's stay in step whatever messages arrive *)
(* between them, and what the script draws into is what the host shows     *)
(* once it has polled the resizes.  The argument is about generations: no  *)
(* event in the queue is taken for a window that it does not belong to     *)
(* unless "missed" says so.                                                *)
(***************************************************************************)
EXTENDS Windows, FiniteSetTheorems, WellFoundedInduction, TLAPS

EventRecords ==
  [type : {"resize", "input"}, window : Handles,
   pixels : Addresses \cup {NoPixels}, gen : 1..MaxCreates]

RefRecords == [handle : Handles, gen : 1..MaxCreates]

(* The windows made so far. *)
Made == Cardinality(refs) + (IF native.op = "create" THEN 1 ELSE 0)

(* The resizes of window h, generation g, that wait in q; and that the     *)
(* last of them says p.                                                    *)
MineIn(q, h, g) ==
  {i \in 1..Len(q) : q[i].type = "resize" /\ q[i].window = h /\ q[i].gen = g}

LastSays(q, h, g, p) ==
  \A i \in MineIn(q, h, g) : (\A k \in MineIn(q, h, g) : k <= i) => q[i].pixels = p

IsMine(e, h, g) == e.type = "resize" /\ e.window = h /\ e.gen = g

Shape ==
  /\ host \in [Handles -> Slots]
  /\ table \in [Handles -> Slots]
  /\ Len(queue) <= Cap
  /\ native.op \in Pumps \cup {"none"}
  /\ native.handle \in Handles \cup {0}
  /\ native.op \in {"create", "destroy"} => native.handle \in Handles
  /\ native.op = "none" => native = Idle
  /\ refs \subseteq RefRecords
  /\ IsFiniteSet(refs)
  /\ missed \subseteq Handles
  /\ Made <= MaxCreates

(* The events of windows that were made, each of the window it names.      *)
KnownEvents ==
  {e \in EventRecords :
     /\ e.gen <= Made
     /\ \A h \in Handles : host[h].open /\ host[h].gen = e.gen => h = e.window}

Generations ==
  /\ \A h \in Handles : host[h].open => host[h].gen \in 1..Made
  /\ \A h \in Handles : ~host[h].open => host[h] = Closed
  /\ \A g, h \in Handles : host[g].open /\ host[h].open /\ host[g].gen = host[h].gen => g = h
  /\ \A r \in refs : r.gen <= Cardinality(refs)
  /\ native.op = "create" => host[native.handle].gen = Made
  /\ queue \in Seq(KnownEvents)

SurfaceKnown(h) ==
  host[h].open /\ host[h].pixels # NoPixels =>
    /\ LastSays(queue, h, host[h].gen, host[h].pixels)
    /\ table[h].open /\ h \notin missed /\ MineIn(queue, h, host[h].gen) = {}
         => table[h].pixels = host[h].pixels

Surfaces == \A h \in Handles : SurfaceKnown(h)

IInv == Shape /\ TablesAgree /\ CountIsTable /\ Generations /\ Surfaces

-----------------------------------------------------------------------------
(* Facts about the queue *)

LEMMA SeqWidens ==
  ASSUME NEW S, NEW T, S \subseteq T, NEW q \in Seq(S)
  PROVE  q \in Seq(T)
  OBVIOUS

LEMMA Pushes ==
  ASSUME NEW S, NEW q \in Seq(S), NEW e \in S, Len(q) <= Cap
  PROVE  /\ Ring!Dropped(q) \in Seq(S)
         /\ Ring!Pushed(q, e) \in Seq(S)
         /\ Len(Ring!Pushed(q, e)) <= Cap
  <1>1. Cap \in Nat \ {0}
    BY WindowsAssumption
  <1>2. CASE Len(q) = Cap
    <2>1. Ring!Dropped(q) = Tail(q)
      BY <1>2 DEF Ring!Dropped
    <2>2. Tail(q) \in Seq(S) /\ Len(Tail(q)) = Cap - 1
      BY <1>1, <1>2
    <2>3. Append(Tail(q), e) \in Seq(S) /\ Len(Append(Tail(q), e)) = Cap
      BY <1>1, <2>2
    <2> QED
      BY <1>1, <2>1, <2>2, <2>3 DEF Ring!Pushed
  <1>3. CASE Len(q) # Cap
    BY <1>1, <1>3 DEF Ring!Pushed, Ring!Dropped
  <1> QED
    BY <1>2, <1>3

LEMMA MineOfTail ==
  ASSUME NEW S, NEW q \in Seq(S), q # <<>>, NEW h, NEW g, NEW p
  PROVE  /\ LastSays(q, h, g, p) => LastSays(Tail(q), h, g, p)
         /\ MineIn(Tail(q), h, g) = {} /\ ~IsMine(Head(q), h, g) => MineIn(q, h, g) = {}
         /\ MineIn(Tail(q), h, g) = {} /\ IsMine(Head(q), h, g) /\ LastSays(q, h, g, p)
              => Head(q).pixels = p
  <1>1. Len(q) \in Nat \ {0} /\ Len(Tail(q)) = Len(q) - 1
    OBVIOUS
  <1>2. \A i \in 1..Len(q) - 1 : Tail(q)[i] = q[i + 1]
    OBVIOUS
  <1>3. Head(q) = q[1]
    OBVIOUS
  <1>4. \A i \in MineIn(q, h, g) : i = 1 \/ i - 1 \in MineIn(Tail(q), h, g)
    BY <1>1, <1>2 DEF MineIn
  <1>5. \A i \in MineIn(Tail(q), h, g) : i + 1 \in MineIn(q, h, g) /\ i \in 1..Len(q) - 1
    BY <1>1, <1>2 DEF MineIn
  <1>6. LastSays(q, h, g, p) => LastSays(Tail(q), h, g, p)
    <2> SUFFICES ASSUME LastSays(q, h, g, p), NEW i \in MineIn(Tail(q), h, g),
                        \A k \in MineIn(Tail(q), h, g) : k <= i
                 PROVE  Tail(q)[i].pixels = p
      BY DEF LastSays
    <2>1. i + 1 \in MineIn(q, h, g) /\ i \in 1..Len(q) - 1
      BY <1>5
    <2>2. ASSUME NEW k \in MineIn(q, h, g) PROVE k <= i + 1
      <3>1. k \in 1..Len(q)
        BY DEF MineIn
      <3>2. k = 1 \/ k - 1 <= i
        BY <1>4
      <3> QED
        BY <2>1, <3>1, <3>2, <1>1
    <2>3. q[i + 1].pixels = p
      BY <2>1, <2>2 DEF LastSays
    <2> QED
      BY <1>2, <2>1, <2>3
  <1>7. IsMine(Head(q), h, g) <=> 1 \in MineIn(q, h, g)
    BY <1>1, <1>3 DEF IsMine, MineIn
  <1>8. ASSUME MineIn(Tail(q), h, g) = {}, NEW k \in MineIn(q, h, g) PROVE k = 1
    BY <1>4, <1>8
  <1>9. ASSUME MineIn(Tail(q), h, g) = {}, ~IsMine(Head(q), h, g) PROVE MineIn(q, h, g) = {}
    BY <1>7, <1>8, <1>9
  <1>10. ASSUME MineIn(Tail(q), h, g) = {}, IsMine(Head(q), h, g), LastSays(q, h, g, p)
         PROVE  Head(q).pixels = p
    <2>1. 1 \in MineIn(q, h, g)
      BY <1>7, <1>10
    <2>2. \A k \in MineIn(q, h, g) : k <= 1
      BY <1>8, <1>10
    <2>3. q[1].pixels = p
      BY <2>1, <2>2, <1>10 DEF LastSays
    <2> QED
      BY <1>3, <2>3
  <1> QED
    BY <1>6, <1>9, <1>10

LEMMA MineOfAppend ==
  ASSUME NEW S, NEW q \in Seq(S), NEW e \in S, NEW h, NEW g, NEW p
  PROVE  /\ ~IsMine(e, h, g) => /\ MineIn(Append(q, e), h, g) = MineIn(q, h, g)
                                /\ LastSays(q, h, g, p) => LastSays(Append(q, e), h, g, p)
         /\ IsMine(e, h, g) => /\ MineIn(Append(q, e), h, g) # {}
                               /\ LastSays(Append(q, e), h, g, e.pixels)
  <1> DEFINE n == Len(q)
             a == Append(q, e)
  <1>1. n \in Nat /\ Len(a) = n + 1 /\ a[n + 1] = e
    OBVIOUS
  <1>2. \A i \in 1..n : a[i] = q[i]
    OBVIOUS
  <1> HIDE DEF n, a
  <1>3. Len(q) = n
    BY DEF n
  <1>4. ASSUME ~IsMine(e, h, g) PROVE MineIn(a, h, g) = MineIn(q, h, g)
    BY <1>1, <1>2, <1>3, <1>4 DEF MineIn, IsMine
  <1>5. \A i \in MineIn(q, h, g) : a[i] = q[i]
    BY <1>2, <1>3 DEF MineIn
  <1>6. ASSUME IsMine(e, h, g) PROVE n + 1 \in MineIn(a, h, g)
    BY <1>1, <1>6 DEF MineIn, IsMine
  <1>7. ASSUME IsMine(e, h, g), NEW i \in MineIn(a, h, g),
               \A k \in MineIn(a, h, g) : k <= i
        PROVE  a[i] = e
    <2>1. i \in 1..n + 1 /\ n + 1 <= i
      BY <1>1, <1>6, <1>7 DEF MineIn
    <2> QED
      BY <1>1, <2>1
  <1> QED
    BY <1>4, <1>5, <1>6, <1>7 DEF LastSays, a

(* What a push does to the resizes of window h. *)
LEMMA PushOnSurfaces ==
  ASSUME IInv, NEW e \in KnownEvents, PushEvent(e), NEW h \in Handles, NEW p
  PROVE  /\ ~IsMine(e, h, host[h].gen) =>
              /\ LastSays(queue, h, host[h].gen, p) => LastSays(queue', h, host[h].gen, p)
              /\ MineIn(queue', h, host[h].gen) = {} =>
                   MineIn(queue, h, host[h].gen) = {} \/ h \in missed'
         /\ IsMine(e, h, host[h].gen) =>
              /\ LastSays(queue', h, host[h].gen, e.pixels)
              /\ MineIn(queue', h, host[h].gen) # {}
         /\ missed \subseteq missed'
  <1> DEFINE d == Ring!Dropped(queue)
             g == host[h].gen
  <1>1. queue \in Seq(KnownEvents) /\ Len(queue) <= Cap /\ Cap \in Nat \ {0}
    BY WindowsAssumption DEF IInv, Generations, Shape
  <1>2. d \in Seq(KnownEvents)
    BY <1>1, Pushes
  <1>3. queue' = Append(d, e)
    BY DEF PushEvent, Ring!Pushed
  <1>4. missed' = missed \cup {x \in Handles : LosesResize(x)}
    BY DEF PushEvent
  <1>5. LastSays(queue, h, g, p) => LastSays(d, h, g, p)
    <2>1. CASE Len(queue) = Cap
      BY <1>1, <2>1, MineOfTail DEF Ring!Dropped
    <2>2. CASE Len(queue) # Cap
      BY <2>2 DEF Ring!Dropped
    <2> QED
      BY <2>1, <2>2
  <1>6. MineIn(d, h, g) = {} => MineIn(queue, h, g) = {} \/ h \in missed'
    <2>1. CASE Len(queue) = Cap
      <3>1. queue # <<>> /\ d = Tail(queue)
        BY <1>1, <2>1 DEF Ring!Dropped
      <3>2. IsMine(Head(queue), h, g) => h \in missed'
        BY <1>4, <2>1 DEF IsMine, LosesResize
      <3> QED
        BY <1>1, <3>1, <3>2, MineOfTail
    <2>2. CASE Len(queue) # Cap
      BY <2>2 DEF Ring!Dropped
    <2> QED
      BY <2>1, <2>2
  <1> HIDE DEF d
  <1>7. /\ ~IsMine(e, h, g) => /\ MineIn(queue', h, g) = MineIn(d, h, g)
                               /\ LastSays(d, h, g, p) => LastSays(queue', h, g, p)
        /\ IsMine(e, h, g) => /\ MineIn(queue', h, g) # {}
                              /\ LastSays(queue', h, g, e.pixels)
    BY <1>2, <1>3, MineOfAppend
  <1> QED
    BY <1>4, <1>5, <1>6, <1>7

LEMMA PushKeepsQueue ==
  ASSUME IInv, NEW e \in KnownEvents, PushEvent(e)
  PROVE  queue' \in Seq(KnownEvents) /\ Len(queue') <= Cap /\ missed' \subseteq Handles
  BY Pushes DEF IInv, Generations, Shape, PushEvent, LosesResize

-----------------------------------------------------------------------------
(* Counting *)

LEMMA OpenCount ==
  ASSUME NEW t \in [Handles -> Slots]
  PROVE  /\ Open(t) \subseteq Handles
         /\ IsFiniteSet(Open(t))
         /\ Cardinality(Open(t)) \in 0..HD_MAX_WINDOWS
  <1>1. IsFiniteSet(Handles) /\ Cardinality(Handles) = HD_MAX_WINDOWS
    BY FS_Interval, WindowsAssumption DEF Handles
  <1>2. Open(t) \subseteq Handles
    BY DEF Open
  <1>3. IsFiniteSet(Open(t)) /\ Cardinality(Open(t)) <= HD_MAX_WINDOWS
    BY <1>1, <1>2, FS_Subset
  <1>4. Cardinality(Open(t)) \in Nat
    BY <1>3, FS_CardinalityType
  <1> QED
    BY <1>2, <1>3, <1>4, WindowsAssumption

LEMMA RefsCount ==
  ASSUME Shape
  PROVE  Cardinality(refs) \in Nat /\ Made \in Nat
  BY FS_CardinalityType DEF Shape, Made

(* The slot WinCreate takes is one that is closed. *)
LEMMA LeastClosedIsClosed ==
  ASSUME NEW t, Open(t) # Handles
  PROVE  LeastClosed(t) \in Handles \ Open(t)
  <1> DEFINE S == Handles \ Open(t)
             less == {ss \in Nat \X Nat : ss[1] < ss[2]}
  <1>1. S # {} /\ S \subseteq Nat
    BY WindowsAssumption DEF Open, Handles
  <1>2. PICK x \in S : \A y \in S : ~(<<y, x>> \in less)
    <2>1. IsWellFoundedOn(less, Nat)
      BY NatLessThanWellFounded, Zenon DEF OpToRel
    <2> HIDE DEF S, less
    <2> QED
      BY <1>1, <2>1, WFMin
  <1>3. \A y \in S : x <= y
    <2> SUFFICES ASSUME NEW y \in S PROVE x <= y
      OBVIOUS
    <2>1. x \in Nat /\ y \in Nat
      BY <1>1
    <2>2. ~(y < x)
      BY <1>2, <2>1
    <2> QED
      BY <2>1, <2>2
  <1> QED
    BY <1>3 DEF LeastClosed

-----------------------------------------------------------------------------
(* The steps *)

LEMMA InitIInv == Init => IInv
  <1> SUFFICES ASSUME Init PROVE IInv
    OBVIOUS
  <1>1. refs = {} /\ IsFiniteSet(refs) /\ Cardinality(refs) = 0 /\ Made = 0
    BY FS_EmptySet DEF Init, Made, Idle
  <1>2. Closed \in Slots /\ ~Closed.open /\ Closed.gen = 0
    BY WindowsAssumption DEF Closed, Slots
  <1>3. Open(table) = {}
    BY <1>2 DEF Init, Open
  <1>4. Shape
    BY <1>1, <1>2, WindowsAssumption DEF Init, Shape, Idle, Pumps, RefRecords
  <1>5. TablesAgree
    BY <1>2 DEF Init, TablesAgree, Idle, Handles
  <1>6. CountIsTable
    BY <1>3, FS_EmptySet DEF Init, CountIsTable
  <1>7. Generations
    BY <1>1, <1>2 DEF Init, Generations, Idle
  <1>8. Surfaces
    BY <1>2 DEF Init, Surfaces, SurfaceKnown
  <1> QED
    BY <1>4, <1>5, <1>6, <1>7, <1>8 DEF IInv

(* A native that is entered or left and touches no window. *)
LEMMA Quiet ==
  ASSUME IInv,
         UNCHANGED <<host, table, window_count, queue, last_event, refs, missed>>,
         native.op \in {"none", "sleep"}, native'.op \in {"none", "poll", "sleep"},
         native'.op = "none" => native' = Idle,
         native'.handle \in Handles \cup {0}
  PROVE  IInv'
  <1>1. Made' = Made
    BY DEF Made
  <1>2. KnownEvents' = KnownEvents
    BY <1>1 DEF KnownEvents
  <1>3. Shape'
    BY <1>1 DEF IInv, Shape, Pumps
  <1>4. TablesAgree'
    BY DEF IInv, TablesAgree
  <1>5. CountIsTable'
    BY DEF IInv, CountIsTable
  <1>6. Generations'
    BY <1>1, <1>2 DEF IInv, Generations
  <1>7. Surfaces'
    BY DEF IInv, Surfaces, SurfaceKnown
  <1> QED
    BY <1>3, <1>4, <1>5, <1>6, <1>7 DEF IInv

LEMMA SleepKeeps ==
  ASSUME IInv, BeginSleep \/ EndSleep
  PROVE  IInv'
  BY Quiet DEF BeginSleep, EndSleep, Enter, Leave, Idle

LEMMA BeginPollKeeps ==
  ASSUME IInv, NEW h \in Handles \cup {0}, BeginPoll(h)
  PROVE  IInv'
  BY Quiet DEF BeginPoll, Enter, Idle

(* What an open window is told now is an event of a known window.          *)
LEMMA EventIsKnown ==
  ASSUME IInv, NEW h \in Handles, host[h].open,
         NEW ty \in {"resize", "input"}, NEW p \in Addresses \cup {NoPixels}
  PROVE  [type |-> ty, window |-> h, pixels |-> p, gen |-> host[h].gen] \in KnownEvents
  <1> DEFINE e == [type |-> ty, window |-> h, pixels |-> p, gen |-> host[h].gen]
  <1>1. Made \in Nat /\ Made <= MaxCreates /\ MaxCreates \in Nat
    BY RefsCount, WindowsAssumption DEF IInv, Shape
  <1>2. host[h].gen \in 1..Made
    BY DEF IInv, Generations
  <1>3. e.gen \in 1..MaxCreates /\ e.gen <= Made
    BY <1>1, <1>2
  <1>4. e \in EventRecords
    BY <1>3 DEF EventRecords
  <1>5. \A x \in Handles : host[x].open /\ host[x].gen = e.gen => x = e.window
    BY DEF IInv, Generations
  <1> QED
    BY <1>3, <1>4, <1>5 DEF KnownEvents

(* A key, the pointer, WM_CLOSE.                                           *)
LEMMA InputMessageKeeps ==
  ASSUME IInv, NEW h \in Handles, InputMessage(h)
  PROVE  IInv'
  <1> DEFINE e == [type |-> "input", window |-> h, pixels |-> NoPixels, gen |-> host[h].gen]
  <1>1. PushEvent(e) /\ host[h].open
        /\ UNCHANGED <<host, table, window_count, last_event, native, refs>>
    BY DEF InputMessage
  <1>2. e \in KnownEvents
    BY <1>1, EventIsKnown
  <1>3. Made' = Made
    BY <1>1 DEF Made
  <1>4. KnownEvents' = KnownEvents
    BY <1>1, <1>3 DEF KnownEvents
  <1>5. queue' \in Seq(KnownEvents) /\ Len(queue') <= Cap /\ missed' \subseteq Handles
    BY <1>1, <1>2, PushKeepsQueue
  <1>6. Shape'
    BY <1>1, <1>3, <1>5 DEF IInv, Shape
  <1>7. TablesAgree' /\ CountIsTable'
    BY <1>1 DEF IInv, TablesAgree, CountIsTable
  <1>8. Generations'
    BY <1>1, <1>3, <1>4, <1>5 DEF IInv, Generations
  <1>9. ASSUME NEW x \in Handles PROVE SurfaceKnown(x)'
    <2>1. ~IsMine(e, x, host[x].gen)
      BY DEF IsMine
    <2> HIDE DEF e
    <2>2. /\ LastSays(queue, x, host[x].gen, host[x].pixels)
               => LastSays(queue', x, host[x].gen, host[x].pixels)
          /\ MineIn(queue', x, host[x].gen) = {} =>
               MineIn(queue, x, host[x].gen) = {} \/ x \in missed'
          /\ missed \subseteq missed'
      BY <1>1, <1>2, <2>1, PushOnSurfaces
    <2>3. SurfaceKnown(x)
      BY DEF IInv, Surfaces
    <2> QED
      BY <1>1, <2>2, <2>3 DEF SurfaceKnown
  <1> QED
    BY <1>6, <1>7, <1>8, <1>9 DEF IInv, Surfaces

(* WM_SIZE.  The generation and the window stay; only its pixels move.     *)
LEMMA SizeMessageKeeps ==
  ASSUME IInv, NEW h \in Handles, SizeMessage(h)
  PROVE  IInv'
  <1>1. host[h].open /\ UNCHANGED <<table, window_count, last_event, native, refs>>
    BY DEF SizeMessage
  <1>2. PICK p \in Addresses \cup {NoPixels} : host' = [host EXCEPT ![h].pixels = p]
    BY DEF SizeMessage, Free, IInv, Shape, Slots
  <1>3. /\ host' \in [Handles -> Slots]
        /\ \A x \in Handles : host'[x].open = host[x].open /\ host'[x].gen = host[x].gen
        /\ \A x \in Handles \ {h} : host'[x] = host[x]
        /\ host'[h].pixels = p
    BY <1>2 DEF IInv, Shape, Slots
  <1>4. Made' = Made
    BY <1>1 DEF Made
  <1>5. KnownEvents' = KnownEvents
    BY <1>3, <1>4 DEF KnownEvents
  <1>6. TablesAgree' /\ CountIsTable'
    BY <1>1, <1>3 DEF IInv, TablesAgree, CountIsTable
  <1>7. Generations' <=> queue' \in Seq(KnownEvents)
    <2>1. \A x \in Handles : ~host'[x].open => host'[x] = Closed
      BY <1>1, <1>3 DEF IInv, Generations
    <2>2. native.op = "create" => host'[native.handle].gen = Made
      BY <1>3 DEF IInv, Generations, Shape
    <2> QED
      BY <1>1, <1>3, <1>4, <1>5, <2>1, <2>2 DEF IInv, Generations
  <1>8. CASE UNCHANGED <<queue, missed>> /\ p = NoPixels
    <2>1. Shape'
      BY <1>1, <1>3, <1>4, <1>8 DEF IInv, Shape
    <2>2. ASSUME NEW x \in Handles PROVE SurfaceKnown(x)'
      BY <1>1, <1>3, <1>8 DEF IInv, Surfaces, SurfaceKnown
    <2> QED
      BY <1>6, <1>7, <1>8, <2>1, <2>2 DEF IInv, Surfaces, Generations
  <1>9. CASE PushEvent([type |-> "resize", window |-> h, pixels |-> p, gen |-> host[h].gen])
    <2> DEFINE e == [type |-> "resize", window |-> h, pixels |-> p, gen |-> host[h].gen]
    <2>1. e \in KnownEvents
      BY <1>1, EventIsKnown
    <2>2. queue' \in Seq(KnownEvents) /\ Len(queue') <= Cap /\ missed' \subseteq Handles
      BY <1>9, <2>1, PushKeepsQueue
    <2>3. Shape'
      BY <1>1, <1>3, <1>4, <2>2 DEF IInv, Shape
    <2>4. SurfaceKnown(h)'
      <3>1. IsMine(e, h, host[h].gen) /\ e.pixels = p
        BY DEF IsMine
      <3> HIDE DEF e
      <3>2. LastSays(queue', h, host[h].gen, p) /\ MineIn(queue', h, host[h].gen) # {}
        BY <1>9, <2>1, <3>1, PushOnSurfaces DEF e
      <3> QED
        BY <1>3, <3>2 DEF SurfaceKnown
    <2>5. ASSUME NEW x \in Handles \ {h} PROVE SurfaceKnown(x)'
      <3>1. ~IsMine(e, x, host[x].gen)
        BY <2>5 DEF IsMine
      <3>2. /\ LastSays(queue, x, host[x].gen, host[x].pixels)
                 => LastSays(queue', x, host[x].gen, host[x].pixels)
            /\ MineIn(queue', x, host[x].gen) = {} =>
                 MineIn(queue, x, host[x].gen) = {} \/ x \in missed'
            /\ missed \subseteq missed'
        BY <1>9, <2>1, <3>1, PushOnSurfaces
      <3>3. SurfaceKnown(x)
        BY DEF IInv, Surfaces
      <3> QED
        BY <1>1, <1>3, <3>2, <3>3 DEF SurfaceKnown
    <2> QED
      BY <1>6, <1>7, <2>2, <2>3, <2>4, <2>5 DEF IInv, Surfaces
  <1> QED
    <2>1. CASE \E q \in (Free \cup {host[h].pixels}) \ {NoPixels} :
                 /\ host' = [host EXCEPT ![h].pixels = q]
                 /\ PushEvent([type |-> "resize", window |-> h, pixels |-> q,
                               gen |-> host[h].gen])
      <3>1. PICK q : /\ host' = [host EXCEPT ![h].pixels = q]
                     /\ PushEvent([type |-> "resize", window |-> h, pixels |-> q,
                                   gen |-> host[h].gen])
        BY <2>1
      <3>2. q = p
        BY <1>3, <3>1 DEF IInv, Shape, Slots
      <3> QED
        BY <1>9, <3>1, <3>2
    <2>2. CASE host' = [host EXCEPT ![h].pixels = NoPixels] /\ UNCHANGED <<queue, missed>>
      <3>1. p = NoPixels
        BY <1>3, <2>2 DEF IInv, Shape, Slots
      <3> QED
        BY <1>8, <2>2, <3>1
    <2> QED
      BY <2>1, <2>2 DEF SizeMessage

(* WinCreate, up to its messages: the new window has a generation no event *)
(* in the queue carries.                                                   *)
LEMMA BeginCreateKeeps ==
  ASSUME IInv, BeginCreate
  PROVE  IInv'
  <1> DEFINE h == LeastClosed(host)
             g == Cardinality(refs) + 1
  <1>1. h \in Handles /\ ~host[h].open
    BY LeastClosedIsClosed DEF BeginCreate, Open
  <1>2. /\ native = Idle /\ native' = [op |-> "create", handle |-> h]
        /\ Cardinality(refs) < MaxCreates
        /\ UNCHANGED <<table, window_count, queue, last_event, refs, missed>>
    BY DEF BeginCreate, Enter
  <1>3. PICK p \in Addresses :
          host' = [host EXCEPT ![h] = [open |-> TRUE, pixels |-> p, gen |-> g]]
    BY DEF BeginCreate, Free
  <1> HIDE DEF h
  <1>4. Cardinality(refs) \in Nat /\ Made = Cardinality(refs) /\ Made' = g /\ g \in 1..MaxCreates
    BY <1>2, RefsCount, WindowsAssumption DEF IInv, Made, Idle
  <1>5. /\ host' \in [Handles -> Slots]
        /\ host'[h] = [open |-> TRUE, pixels |-> p, gen |-> g]
        /\ \A x \in Handles \ {h} : host'[x] = host[x]
    BY <1>1, <1>3, <1>4, WindowsAssumption DEF IInv, Shape, Slots
  <1>6. \A x \in Handles : host[x].open => host[x].gen \in 1..Made
    BY DEF IInv, Generations
  <1>7. \A e \in KnownEvents : e.gen \in Nat /\ e.gen <= Made
    BY DEF KnownEvents, EventRecords
  <1>8. KnownEvents \subseteq KnownEvents'
    <2> SUFFICES ASSUME NEW e \in KnownEvents PROVE e \in KnownEvents'
      OBVIOUS
    <2>1. e \in EventRecords /\ e.gen < g
      BY <1>4, <1>7 DEF KnownEvents
    <2>2. \A x \in Handles : host'[x].open /\ host'[x].gen = e.gen => x = e.window
      BY <1>4, <1>5, <1>7, <2>1 DEF KnownEvents
    <2> QED
      BY <1>4, <1>7, <2>1, <2>2 DEF KnownEvents
  <1>9. Shape'
    BY <1>1, <1>2, <1>4, <1>5 DEF IInv, Shape, Pumps
  <1>10. TablesAgree'
    BY <1>1, <1>2, <1>5 DEF IInv, TablesAgree, Idle, Handles
  <1>11. CountIsTable'
    BY <1>2 DEF IInv, CountIsTable
  <1>12. Generations'
    <2>1. queue' \in Seq(KnownEvents')
      <3>1. queue \in Seq(KnownEvents)
        BY DEF IInv, Generations
      <3> QED
        BY <1>2, <1>8, <3>1, SeqWidens
    <2>2. \A x \in Handles : host'[x].open => host'[x].gen \in 1..g
      BY <1>4, <1>5, <1>6
    <2>3. \A x \in Handles : ~host'[x].open => host'[x] = Closed
      BY <1>5 DEF IInv, Generations
    <2>4. \A x, y \in Handles :
            host'[x].open /\ host'[y].open /\ host'[x].gen = host'[y].gen => x = y
      <3>1. \A x \in Handles \ {h} : host'[x].open => host'[x].gen # g
        BY <1>4, <1>5, <1>6
      <3>2. \A x, y \in Handles \ {h} :
              host'[x].open /\ host'[y].open /\ host'[x].gen = host'[y].gen => x = y
        BY <1>5 DEF IInv, Generations
      <3> QED
        BY <1>5, <3>1, <3>2
    <2>5. \A r \in refs' : r.gen <= Cardinality(refs')
      BY <1>2 DEF IInv, Generations
    <2>6. host'[native'.handle].gen = Made'
      BY <1>2, <1>4, <1>5
    <2> QED
      BY <1>4, <2>1, <2>2, <2>3, <2>4, <2>5, <2>6 DEF Generations
  <1>13. ASSUME NEW x \in Handles PROVE SurfaceKnown(x)'
    <2>1. CASE x = h
      <3>1. MineIn(queue, h, g) = {}
        <4>1. \A i \in 1..Len(queue) : queue[i] \in KnownEvents
          BY DEF IInv, Generations
        <4> QED
          BY <1>4, <1>7, <4>1 DEF MineIn
      <3>2. ~table[h].open
        BY <1>1, <1>2 DEF IInv, TablesAgree, Idle, Handles
      <3> QED
        BY <1>2, <1>5, <2>1, <3>1, <3>2 DEF SurfaceKnown, LastSays
    <2>2. CASE x # h
      BY <1>2, <1>5, <2>2 DEF IInv, Surfaces, SurfaceKnown
    <2> QED
      BY <2>1, <2>2
  <1> QED
    BY <1>9, <1>10, <1>11, <1>12, <1>13 DEF IInv, Surfaces

(* WinCreate, after them: the script's slot takes the surface the window   *)
(* has by now.                                                             *)
LEMMA EndCreateKeeps ==
  ASSUME IInv, EndCreate
  PROVE  IInv'
  <1> DEFINE h == native.handle
             r == [handle |-> h, gen |-> host[h].gen]
  <1>1. /\ native.op = "create" /\ native' = Idle
        /\ table' = [table EXCEPT ![h] = host[h]]
        /\ window_count' = IF table[h].open THEN window_count ELSE window_count + 1
        /\ refs' = refs \cup {r}
        /\ missed' = missed \ {h}
        /\ UNCHANGED <<host, queue, last_event>>
    BY DEF EndCreate, Leave
  <1>2. h \in Handles /\ host[h].open /\ ~table[h].open
    BY <1>1 DEF IInv, Shape, TablesAgree
  <1>3. Cardinality(refs) \in Nat /\ Made = Cardinality(refs) + 1 /\ host[h].gen = Made
    BY <1>1, RefsCount DEF IInv, Made, Generations
  <1>4. r \notin refs /\ r \in RefRecords
    <2>1. r.gen = Made
      BY <1>3
    <2>2. \A q \in refs : q.gen <= Cardinality(refs)
      BY DEF IInv, Generations
    <2>3. Made \in 1..MaxCreates
      BY <1>3, WindowsAssumption DEF IInv, Shape
    <2>4. r \notin refs
      <3>1. ~(r.gen <= Cardinality(refs))
        BY <1>3, <2>1
      <3> QED
        BY <2>2, <3>1
    <2> QED
      BY <1>2, <1>3, <2>3, <2>4 DEF RefRecords
  <1>5. IsFiniteSet(refs') /\ Cardinality(refs') = Cardinality(refs) + 1
    BY <1>1, <1>4, FS_AddElement DEF IInv, Shape
  <1>6. Made' = Made
    BY <1>1, <1>3, <1>5 DEF Made, Idle
  <1>7. KnownEvents' = KnownEvents
    BY <1>1, <1>6 DEF KnownEvents
  <1>8. /\ table' \in [Handles -> Slots]
        /\ table'[h] = host[h]
        /\ \A x \in Handles \ {h} : table'[x] = table[x]
    BY <1>1, <1>2 DEF IInv, Shape
  <1>9. Shape'
    BY <1>1, <1>4, <1>5, <1>6, <1>8 DEF IInv, Shape, Idle, Pumps
  <1>10. TablesAgree'
    BY <1>1, <1>2, <1>8 DEF IInv, TablesAgree, Idle, Handles
  <1>11. CountIsTable'
    <2>1. Open(table') = Open(table) \cup {h} /\ h \notin Open(table)
      BY <1>2, <1>8 DEF Open
    <2>2. IsFiniteSet(Open(table))
      BY OpenCount DEF IInv, Shape
    <2>3. Cardinality(Open(table')) = Cardinality(Open(table)) + 1
      BY <2>1, <2>2, FS_AddElement
    <2> QED
      BY <1>1, <1>2, <2>3 DEF IInv, CountIsTable
  <1>12. Generations'
    <2>1. \A q \in refs' : q.gen <= Cardinality(refs')
      <3>1. \A q \in refs : q.gen \in Nat /\ q.gen <= Cardinality(refs)
        BY DEF IInv, Generations, Shape, RefRecords
      <3> QED
        BY <1>1, <1>3, <1>5, <3>1
    <2> QED
      BY <1>1, <1>6, <1>7, <2>1 DEF IInv, Generations, Idle
  <1>13. ASSUME NEW x \in Handles PROVE SurfaceKnown(x)'
    <2>1. SurfaceKnown(x)
      BY DEF IInv, Surfaces
    <2>2. x # h => (x \in missed' <=> x \in missed)
      BY <1>1
    <2> QED
      BY <1>1, <1>8, <2>1, <2>2 DEF SurfaceKnown
  <1> QED
    BY <1>9, <1>10, <1>11, <1>12, <1>13 DEF IInv, Surfaces

(* WinDestroy, up to its messages. *)
LEMMA BeginDestroyKeeps ==
  ASSUME IInv, NEW h \in Handles, BeginDestroy(h)
  PROVE  IInv'
  <1>1. /\ native = Idle /\ native' = [op |-> "destroy", handle |-> h]
        /\ host' = [host EXCEPT ![h] = Closed]
        /\ UNCHANGED <<table, window_count, queue, last_event, refs, missed>>
    BY DEF BeginDestroy, Enter
  <1>2. table[h].open
    BY DEF BeginDestroy, win_by_handle, Open
  <1>3. Closed \in Slots /\ ~Closed.open
    BY WindowsAssumption DEF Closed, Slots
  <1>4. /\ host' \in [Handles -> Slots]
        /\ host'[h] = Closed
        /\ \A x \in Handles \ {h} : host'[x] = host[x]
    BY <1>1, <1>3 DEF IInv, Shape
  <1>5. Made' = Made
    BY <1>1 DEF Made, Idle
  <1>6. KnownEvents \subseteq KnownEvents'
    BY <1>3, <1>4, <1>5 DEF KnownEvents
  <1>7. Shape'
    BY <1>1, <1>4, <1>5 DEF IInv, Shape, Pumps
  <1>8. TablesAgree'
    BY <1>1, <1>2, <1>3, <1>4 DEF IInv, TablesAgree, Idle, Handles
  <1>9. CountIsTable'
    BY <1>1 DEF IInv, CountIsTable
  <1>10. Generations'
    <2>1. queue \in Seq(KnownEvents)
      BY DEF IInv, Generations
    <2>2. queue' \in Seq(KnownEvents')
      BY <1>1, <1>6, <2>1, SeqWidens
    <2> QED
      BY <1>1, <1>3, <1>4, <1>5, <2>2 DEF IInv, Generations
  <1>11. Surfaces'
    BY <1>1, <1>3, <1>4 DEF IInv, Surfaces, SurfaceKnown
  <1> QED
    BY <1>7, <1>8, <1>9, <1>10, <1>11 DEF IInv

(* WinDestroy, after them. *)
LEMMA EndDestroyKeeps ==
  ASSUME IInv, EndDestroy
  PROVE  IInv'
  <1> DEFINE h == native.handle
  <1>1. /\ native.op = "destroy" /\ native' = Idle
        /\ table' = [table EXCEPT ![h] = Closed]
        /\ window_count' = window_count - 1
        /\ UNCHANGED <<host, queue, last_event, refs, missed>>
    BY DEF EndDestroy, Leave
  <1>2. h \in Handles /\ ~host[h].open /\ table[h].open
    BY <1>1 DEF IInv, Shape, TablesAgree
  <1>3. Closed \in Slots /\ ~Closed.open /\ host[h] = Closed
    <2>1. host[h] = Closed
      BY <1>2 DEF IInv, Generations
    <2> QED
      BY <2>1, WindowsAssumption DEF Closed, Slots
  <1>4. /\ table' \in [Handles -> Slots]
        /\ table'[h] = Closed
        /\ \A x \in Handles \ {h} : table'[x] = table[x]
    BY <1>1, <1>2, <1>3 DEF IInv, Shape
  <1>5. Made' = Made
    BY <1>1 DEF Made, Idle
  <1>6. KnownEvents' = KnownEvents
    BY <1>1, <1>5 DEF KnownEvents
  <1>7. Shape'
    BY <1>1, <1>4, <1>5 DEF IInv, Shape, Idle, Pumps
  <1>8. TablesAgree'
    BY <1>1, <1>2, <1>3, <1>4 DEF IInv, TablesAgree, Idle, Handles
  <1>9. CountIsTable'
    <2>1. Open(table') = Open(table) \ {h} /\ h \in Open(table)
      BY <1>2, <1>3, <1>4 DEF Open
    <2>2. IsFiniteSet(Open(table))
      BY OpenCount DEF IInv, Shape
    <2>3. Cardinality(Open(table')) = Cardinality(Open(table)) - 1
      BY <2>1, <2>2, FS_RemoveElement
    <2> QED
      BY <1>1, <2>3 DEF IInv, CountIsTable
  <1>10. Generations'
    BY <1>1, <1>5, <1>6 DEF IInv, Generations, Idle
  <1>11. Surfaces'
    BY <1>1, <1>3, <1>4 DEF IInv, Surfaces, SurfaceKnown
  <1> QED
    BY <1>7, <1>8, <1>9, <1>10, <1>11 DEF IInv

(* WinPollEvent, after its messages.  A slot that takes an event of        *)
(* another window's is noted in "missed", so a slot that is not there took *)
(* its own.                                                                *)
LEMMA EndPollKeeps ==
  ASSUME IInv, EndPoll
  PROVE  IInv'
  <1>1. /\ native.op = "poll" /\ native' = Idle
        /\ Ring!Poll
        /\ UNCHANGED <<host, window_count, refs>>
    BY DEF EndPoll, Leave
  <1>2. Made' = Made
    BY <1>1 DEF Made, Idle
  <1>3. KnownEvents' = KnownEvents
    BY <1>1, <1>2 DEF KnownEvents
  <1>4. queue \in Seq(KnownEvents) /\ Len(queue) <= Cap /\ Cap \in Nat
    BY WindowsAssumption DEF IInv, Generations, Shape
  <1>5. \A x \in Handles : table[x].open = host[x].open /\ table[x].gen = host[x].gen
    BY <1>1 DEF IInv, TablesAgree
  <1>6. ASSUME queue' \in Seq(KnownEvents), Len(queue') <= Cap, missed' \subseteq Handles,
               table' \in [Handles -> Slots],
               \A x \in Handles : table'[x].open = table[x].open /\ table'[x].gen = table[x].gen
        PROVE  Shape' /\ TablesAgree' /\ CountIsTable' /\ Generations'
    <2>1. Shape'
      BY <1>1, <1>2, <1>6 DEF IInv, Shape, Idle, Pumps
    <2>2. TablesAgree'
      BY <1>1, <1>5, <1>6 DEF TablesAgree, Idle, Handles
    <2>3. CountIsTable'
      <3>1. Open(table') = Open(table)
        BY <1>6 DEF Open
      <3> QED
        BY <1>1, <3>1 DEF IInv, CountIsTable
    <2>4. Generations'
      BY <1>1, <1>2, <1>3, <1>6 DEF IInv, Generations, Idle
    <2> QED
      BY <2>1, <2>2, <2>3, <2>4
  <1>7. CASE queue = <<>>
    <2>1. UNCHANGED <<queue, table, missed>>
      BY <1>1, <1>7 DEF EndPoll, Ring!Poll
    <2>2. Shape' /\ TablesAgree' /\ CountIsTable' /\ Generations'
      BY <1>4, <1>6, <2>1 DEF IInv, Shape
    <2>3. Surfaces'
      BY <1>1, <2>1 DEF IInv, Surfaces, SurfaceKnown
    <2> QED
      BY <2>2, <2>3 DEF IInv
  <1>8. CASE queue # <<>>
    <2> DEFINE e == Head(queue)
               slot == ResizeSlot(e, native.handle)
    <2>1. queue' = Tail(queue) /\ e \in KnownEvents
      BY <1>1, <1>4, <1>8 DEF Ring!Poll
    <2>2. queue' \in Seq(KnownEvents) /\ Len(queue') <= Cap
      BY <1>4, <1>8, <2>1
    <2>3. ASSUME NEW x \in Handles, host[x].open, host[x].pixels # NoPixels
          PROVE  /\ LastSays(queue', x, host[x].gen, host[x].pixels)
                 /\ MineIn(queue', x, host[x].gen) = {} /\ ~IsMine(e, x, host[x].gen)
                      => MineIn(queue, x, host[x].gen) = {}
                 /\ MineIn(queue', x, host[x].gen) = {} /\ IsMine(e, x, host[x].gen)
                      => e.pixels = host[x].pixels
      <3>1. LastSays(queue, x, host[x].gen, host[x].pixels)
        BY <2>3 DEF IInv, Surfaces, SurfaceKnown
      <3> QED
        BY <1>4, <1>8, <2>1, <3>1, MineOfTail
    <2>4. CASE e.type = "resize"
      <3>1. /\ table' = [x \in Handles |-> IF x \in slot
                                            THEN [table[x] EXCEPT !.pixels = e.pixels]
                                            ELSE table[x]]
            /\ missed' = IF \E x \in slot : table[x].gen # e.gen
                         THEN missed \cup slot ELSE missed \ slot
        BY <1>8, <2>4 DEF EndPoll
      <3>2. slot \subseteq Handles
        BY DEF ResizeSlot, win_by_handle, win_only, Open
      <3> HIDE DEF slot
      <3>3. e.pixels \in Addresses \cup {NoPixels}
        BY <2>1 DEF KnownEvents, EventRecords
      <3> HIDE DEF e
      <3>4. /\ table' \in [Handles -> Slots]
            /\ \A x \in Handles : /\ table'[x].open = table[x].open
                                  /\ table'[x].gen = table[x].gen
                                  /\ x \in slot => table'[x].pixels = e.pixels
                                  /\ x \notin slot => table'[x].pixels = table[x].pixels
        BY <3>1, <3>3 DEF IInv, Shape, Slots
      <3>5. missed' \subseteq Handles
        BY <3>1, <3>2 DEF IInv, Shape
      <3>6. Shape' /\ TablesAgree' /\ CountIsTable' /\ Generations'
        BY <1>6, <2>2, <3>4, <3>5
      <3>7. ASSUME NEW x \in Handles, host[x].open, host[x].pixels # NoPixels, table[x].open,
                   x \notin missed', MineIn(queue', x, host[x].gen) = {}
            PROVE  table'[x].pixels = host[x].pixels
        <4>1. CASE IsMine(e, x, host[x].gen)
          <5>1. x \in slot
            BY <3>7, <4>1 DEF IsMine, slot, ResizeSlot, win_by_handle, Open
          <5> QED
            BY <2>3, <3>4, <3>7, <4>1, <5>1
        <4>2. CASE ~IsMine(e, x, host[x].gen)
          <5>1. x \notin slot
            <6> SUFFICES ASSUME x \in slot PROVE FALSE
              OBVIOUS
            <6>1. table[x].gen = e.gen
              BY <3>1, <3>7
            <6>2. x = e.window
              BY <1>5, <2>1, <3>7, <6>1 DEF KnownEvents
            <6> QED
              BY <1>5, <2>4, <4>2, <6>1, <6>2 DEF IsMine
          <5>2. x \notin missed
            BY <3>1, <3>7, <5>1
          <5>3. MineIn(queue, x, host[x].gen) = {}
            BY <2>3, <3>7, <4>2
          <5>4. table[x].pixels = host[x].pixels
            BY <3>7, <5>2, <5>3 DEF IInv, Surfaces, SurfaceKnown
          <5> QED
            BY <3>4, <5>1, <5>4
        <4> QED
          BY <4>1, <4>2
      <3>8. Surfaces'
        BY <1>1, <2>3, <3>4, <3>7 DEF Surfaces, SurfaceKnown
      <3> QED
        BY <3>6, <3>8 DEF IInv
    <2>5. CASE e.type # "resize"
      <3>1. UNCHANGED <<table, missed>>
        BY <2>5 DEF EndPoll
      <3>2. \A x \in Handles : ~IsMine(e, x, host[x].gen)
        BY <2>5 DEF IsMine
      <3>3. Shape' /\ TablesAgree' /\ CountIsTable' /\ Generations'
        BY <1>6, <2>2, <3>1 DEF IInv, Shape
      <3> HIDE DEF e
      <3>4. Surfaces'
        BY <1>1, <2>3, <3>1, <3>2 DEF IInv, Surfaces, SurfaceKnown
      <3> QED
        BY <3>3, <3>4 DEF IInv
    <2> QED
      BY <2>4, <2>5
  <1> QED
    BY <1>7, <1>8

LEMMA StutterKeeps == IInv /\ UNCHANGED vars => IInv'
  <1> SUFFICES ASSUME IInv, UNCHANGED vars PROVE IInv'
    OBVIOUS
  <1> USE DEF vars
  <1>1. Made' = Made
    BY DEF Made
  <1>2. KnownEvents' = KnownEvents
    BY <1>1 DEF KnownEvents
  <1>3. Shape' /\ TablesAgree' /\ CountIsTable'
    BY <1>1 DEF IInv, Shape, TablesAgree, CountIsTable
  <1>4. Generations' /\ Surfaces'
    BY <1>1, <1>2 DEF IInv, Generations, Surfaces, SurfaceKnown
  <1> QED
    BY <1>3, <1>4 DEF IInv

LEMMA NextKeepsIInv == IInv /\ [Next]_vars => IInv'
  <1> SUFFICES ASSUME IInv, Next PROVE IInv'
    BY StutterKeeps
  <1>1. CASE BeginCreate
    BY <1>1, BeginCreateKeeps
  <1>2. CASE EndCreate
    BY <1>2, EndCreateKeeps
  <1>3. ASSUME NEW h \in Handles, BeginDestroy(h) PROVE IInv'
    BY <1>3, BeginDestroyKeeps
  <1>4. CASE EndDestroy
    BY <1>4, EndDestroyKeeps
  <1>5. ASSUME NEW h \in Handles \cup {0}, BeginPoll(h) PROVE IInv'
    BY <1>5, BeginPollKeeps
  <1>6. CASE EndPoll
    BY <1>6, EndPollKeeps
  <1>7. CASE BeginSleep \/ EndSleep
    BY <1>7, SleepKeeps
  <1>8. ASSUME NEW h \in Handles, InputMessage(h) PROVE IInv'
    BY <1>8, InputMessageKeeps
  <1>9. ASSUME NEW h \in Handles, SizeMessage(h) PROVE IInv'
    BY <1>9, SizeMessageKeeps
  <1> QED
    BY <1>1, <1>2, <1>3, <1>4, <1>5, <1>6, <1>7, <1>8, <1>9 DEF Next

(* Whatever messages arrive between the natives, the inductive invariant   *)
(* holds: the windows of the script's table are those of the host's but    *)
(* for the one being made or closed, and every event belongs to a window   *)
(* that was made.                                                          *)
THEOREM WindowsInvariance == Spec => []IInv
  BY InitIInv, NextKeepsIInv, PTL DEF Spec

-----------------------------------------------------------------------------
(* The properties *)

(* The tables, the queue and the native in progress keep their shape: the  *)
(* counter stays within HD_MAX_WINDOWS and the ring within HD_EVENT_CAP.   *)
THEOREM WindowsTypeOK == Spec => []TypeOK
  <1>1. IInv => TypeOK
    <2> SUFFICES ASSUME IInv PROVE TypeOK
      OBVIOUS
    <2>1. window_count \in 0..HD_MAX_WINDOWS
      BY OpenCount DEF IInv, Shape, CountIsTable
    <2>2. \A r \in refs : r.handle \in Handles /\ r.gen \in 1..MaxCreates
      BY DEF IInv, Shape, RefRecords
    <2> QED
      BY <2>1, <2>2 DEF IInv, Shape, TypeOK
  <1> QED
    BY <1>1, WindowsInvariance, PTL

(* The script's table and the host's have the same windows open but for    *)
(* the one being created or destroyed: no handle leaks and none dangles.   *)
THEOREM WindowsTablesAgree == Spec => []TablesAgree
  <1>1. IInv => TablesAgree
    BY DEF IInv
  <1> QED
    BY <1>1, WindowsInvariance, PTL

(* window_count, by which win_only decides whether there is one window, is *)
(* the number of open slots.                                               *)
THEOREM WindowsCountIsTable == Spec => []CountIsTable
  <1>1. IInv => CountIsTable
    BY DEF IInv
  <1> QED
    BY <1>1, WindowsInvariance, PTL

(* A window with a resize in the queue has a last one.                     *)
LEMMA LastOfMine ==
  ASSUME NEW S, NEW q \in Seq(S), NEW h, NEW g, MineIn(q, h, g) # {}
  PROVE  \E i \in MineIn(q, h, g) : \A k \in MineIn(q, h, g) : k <= i
  <1> DEFINE n == Len(q)
             W == MineIn(q, h, g)
             Rest == {n - i : i \in W}
             less == {ss \in Nat \X Nat : ss[1] < ss[2]}
  <1>1. n \in Nat /\ W \subseteq 1..n
    BY DEF MineIn
  <1> HIDE DEF n, W
  <1>2. Rest # {} /\ Rest \subseteq Nat
    <2>1. PICK i \in W : TRUE
      BY DEF W
    <2>2. n - i \in Rest
      BY <2>1
    <2>3. \A j \in 1..n : n - j \in Nat
      BY <1>1
    <2> QED
      BY <1>1, <2>2, <2>3
  <1>3. IsWellFoundedOn(less, Nat)
    BY NatLessThanWellFounded, Zenon DEF OpToRel
  <1>4. PICK r \in Rest : \A x \in Rest : ~(<<x, r>> \in less)
    <2> HIDE DEF Rest, less
    <2> QED
      BY <1>2, <1>3, WFMin
  <1>5. \A x \in Rest : ~(x < r)
    BY <1>2, <1>4
  <1>6. PICK i \in W : r = n - i
    BY <1>4
  <1>7. ASSUME NEW k \in W PROVE k <= i
    <2>1. ~(n - k < n - i)
      BY <1>5, <1>6
    <2> QED
      BY <1>1, <2>1
  <1> QED
    BY <1>7 DEF W

(* A window whose last resize has been polled is drawn where the host      *)
(* shows it, and while one waits it says where that will be: unless the    *)
(* ring lost a resize, another window's was taken or the DIB failed.       *)
THEOREM SurfacesFollow == Spec => []SurfaceFollowsResize
  <1>1. IInv => SurfaceFollowsResize
    <2> SUFFICES ASSUME IInv, NEW h \in Handles, table[h].open, host[h].open,
                        h \notin missed, host[h].pixels # NoPixels
                 PROVE  (IF LastResize(h) = {} THEN DrawTarget(h) ELSE LastResize(h))
                          = {host[h].pixels}
      BY DEF SurfaceFollowsResize
    <2> DEFINE W == MineIn(queue, h, host[h].gen)
    <2>1. LastResize(h) = {queue[i].pixels : i \in {j \in W : \A k \in W : k <= j}}
      BY DEF LastResize, MineIn
    <2>2. /\ LastSays(queue, h, host[h].gen, host[h].pixels)
          /\ W = {} => table[h].pixels = host[h].pixels
      BY DEF IInv, Surfaces, SurfaceKnown
    <2>3. \A i \in W : (\A k \in W : k <= i) => queue[i].pixels = host[h].pixels
      BY <2>2 DEF LastSays
    <2>4. W # {} => \E i \in W : \A k \in W : k <= i
      BY LastOfMine DEF IInv, Generations
    <2> HIDE DEF W
    <2>5. CASE W = {}
      <3>1. LastResize(h) = {}
        BY <2>1, <2>5
      <3>2. win_by_handle(h) = {h}
        BY DEF win_by_handle, Open
      <3>3. DrawTarget(h) = {table[h].pixels} \ {NoPixels}
        BY <3>2 DEF DrawTarget
      <3> QED
        BY <2>2, <2>5, <3>1, <3>3
    <2>6. CASE W # {}
      <3>1. LastResize(h) = {host[h].pixels}
        BY <2>1, <2>3, <2>4, <2>6
      <3> QED
        BY <3>1
    <2> QED
      BY <2>5, <2>6
  <1> QED
    BY <1>1, WindowsInvariance, PTL
=============================================================================
