-------------------------- MODULE EventRingProofs ---------------------------
(***************************************************************************)
(* Proofs about EventRing for every capacity: the counters stay inside the *)
(* array, and the ring is a bounded queue that loses its oldest events     *)
(* first.                                                                  *)
(***************************************************************************)
EXTENDS EventRing, TLAPS

(* Indices never reach twice the capacity, so % is one subtraction.        *)
LEMMA ModOnce ==
  ASSUME NEW x \in 0..2 * Cap - 1
  PROVE  x % Cap = IF x < Cap THEN x ELSE x - Cap
  <1>1. Cap \in Nat \ {0}
    BY CapAssumption
  <1> QED
    BY <1>1

(* The array index of the i-th event of a ring whose oldest is at head. *)
Index(head, i) == IF head + i - 1 < Cap THEN head + i - 1 ELSE head + i - 1 - Cap

LEMMA IndexIsMod ==
  ASSUME NEW head \in 0..Cap - 1, NEW i \in 1..Cap
  PROVE  /\ (head + i - 1) % Cap = Index(head, i)
         /\ Index(head, i) \in 0..Cap - 1
  <1>1. Cap \in Nat \ {0}
    BY CapAssumption
  <1>2. head + i - 1 \in 0..2 * Cap - 1
    BY <1>1
  <1> QED
    BY <1>1, <1>2, ModOnce DEF Index

LEMMA NextHead ==
  ASSUME NEW head \in 0..Cap - 1
  PROVE  /\ (head + 1) % Cap = IF head + 1 < Cap THEN head + 1 ELSE 0
         /\ (head + 1) % Cap \in 0..Cap - 1
  <1>1. Cap \in Nat \ {0}
    BY CapAssumption
  <1>2. head + 1 \in 0..2 * Cap - 1
    BY <1>1
  <1> QED
    BY <1>1, <1>2, ModOnce

(* The positions of a ring are distinct. *)
LEMMA IndexInjective ==
  ASSUME NEW head \in 0..Cap - 1, NEW i \in 1..Cap, NEW j \in 1..Cap,
         Index(head, i) = Index(head, j)
  PROVE  i = j
  BY CapAssumption DEF Index

(* Advancing the head renumbers the events. *)
LEMMA IndexShift ==
  ASSUME NEW head \in 0..Cap - 1, NEW i \in 1..Cap - 1
  PROVE  Index((head + 1) % Cap, i) = Index(head, i + 1)
  <1> DEFINE next == (head + 1) % Cap
  <1>1. next = IF head + 1 < Cap THEN head + 1 ELSE 0
    BY NextHead, CapAssumption
  <1> HIDE DEF next
  <1>2. Index(next, i) = Index(head, i + 1)
    BY <1>1, CapAssumption DEF Index
  <1> QED
    BY <1>2 DEF next

Shape ==
  /\ events \in [0..Cap - 1 -> Events \cup {Nothing}]
  /\ event_head \in 0..Cap - 1
  /\ event_count \in 0..Cap
  /\ polled \in Events \cup {Nothing}

IInv ==
  /\ Shape
  /\ \A i \in 1..event_count : events[Index(event_head, i)] \in Events

LEMMA ContentsAre ==
  ASSUME Shape
  PROVE  /\ Contents = [i \in 1..event_count |-> events[Index(event_head, i)]]
         /\ Contents \in Seq(Events \cup {Nothing})
         /\ Len(Contents) = event_count
  <1>1. \A i \in 1..event_count : i \in 1..Cap /\ event_head \in 0..Cap - 1
    BY CapAssumption DEF Shape
  <1>2. \A i \in 1..event_count : (event_head + i - 1) % Cap = Index(event_head, i)
    BY <1>1, IndexIsMod
  <1>3. Contents = [i \in 1..event_count |-> events[Index(event_head, i)]]
    BY <1>2 DEF Contents
  <1>4. \A i \in 1..event_count : events[Index(event_head, i)] \in Events \cup {Nothing}
    BY <1>1, IndexIsMod DEF Shape
  <1>5. event_count \in Nat
    BY CapAssumption DEF Shape
  <1> QED
    BY <1>3, <1>4, <1>5

(* What push_event leaves, whether the ring was full or not.               *)
LEMMA PushEffect ==
  ASSUME IInv, NEW e \in Events, push_event(e)
  PROVE  /\ Shape'
         /\ event_count' = IF event_count = Cap THEN Cap ELSE event_count + 1
         /\ events'[Index(event_head', event_count')] = e
         /\ \A i \in 1..event_count' - 1 :
              events'[Index(event_head', i)] =
                 events[Index(event_head, IF event_count = Cap THEN i + 1 ELSE i)]
  <1> DEFINE full == event_count = Cap
             head == IF full THEN (event_head + 1) % Cap ELSE event_head
             n == IF full THEN event_count - 1 ELSE event_count
  <1>1. Cap \in Nat \ {0} /\ event_head \in 0..Cap - 1 /\ event_count \in 0..Cap
    BY CapAssumption DEF IInv, Shape
  <1>2. head \in 0..Cap - 1 /\ n \in 0..Cap - 1 /\ n + 1 \in 1..Cap
    BY <1>1, NextHead
  <1>3. (head + n) % Cap = Index(head, n + 1) /\ Index(head, n + 1) \in 0..Cap - 1
    <2>1. head + (n + 1) - 1 = head + n
      BY <1>2
    <2> HIDE DEF head, n
    <2> QED
      BY <1>2, <2>1, IndexIsMod
  <1>4. /\ events' = [events EXCEPT ![Index(head, n + 1)] = e]
        /\ event_head' = head
        /\ event_count' = n + 1
        /\ polled' = polled
    BY <1>3 DEF push_event
  <1>5. events' \in [0..Cap - 1 -> Events \cup {Nothing}]
    BY <1>3, <1>4 DEF IInv, Shape
  <1>6. events'[Index(head, n + 1)] = e
    BY <1>3, <1>4 DEF IInv, Shape
  <1>7. ASSUME NEW i \in 1..n
        PROVE  events'[Index(head, i)] = events[Index(event_head, IF full THEN i + 1 ELSE i)]
    <2>1. i \in 1..Cap /\ i # n + 1
      BY <1>1, <1>2
    <2>2. Index(head, i) # Index(head, n + 1) /\ Index(head, i) \in 0..Cap - 1
      BY <1>2, <2>1, IndexInjective, IndexIsMod
    <2>3. events'[Index(head, i)] = events[Index(head, i)]
      BY <1>3, <1>4, <2>2 DEF IInv, Shape
    <2>4. full => Index(head, i) = Index(event_head, i + 1)
      BY <1>1, IndexShift
    <2> QED
      BY <2>3, <2>4
  <1>8. Shape'
    BY <1>2, <1>4, <1>5 DEF IInv, Shape
  <1>9. event_count' = IF full THEN Cap ELSE event_count + 1
    BY <1>1, <1>4
  <1>10. n = event_count' - 1
    BY <1>2, <1>4
  <1> QED
    BY <1>4, <1>6, <1>7, <1>8, <1>9, <1>10

LEMMA PopEffect ==
  ASSUME IInv, pop_event, event_count # 0
  PROVE  /\ Shape'
         /\ event_count' = event_count - 1
         /\ events' = events
         /\ polled' = events[Index(event_head, 1)]
         /\ \A i \in 1..event_count' : Index(event_head', i) = Index(event_head, i + 1)
  <1>1. Cap \in Nat \ {0} /\ event_head \in 0..Cap - 1 /\ event_count \in 1..Cap
    BY CapAssumption DEF IInv, Shape
  <1>2. /\ polled' = events[event_head]
        /\ event_head' = (event_head + 1) % Cap
        /\ event_count' = event_count - 1
        /\ events' = events
    BY DEF pop_event
  <1>3. Index(event_head, 1) = event_head
    BY <1>1 DEF Index
  <1>4. \A i \in 1..event_count' : i \in 1..Cap - 1
    BY <1>1, <1>2
  <1>5. (event_head + 1) % Cap \in 0..Cap - 1
    BY <1>1, NextHead
  <1>6. Shape'
    BY <1>1, <1>2, <1>5 DEF IInv, Shape
  <1> QED
    BY <1>1, <1>2, <1>3, <1>4, <1>6, IndexShift

LEMMA InitIInv == Init => IInv
  BY CapAssumption DEF Init, IInv, Shape

LEMMA NextIInv == IInv /\ [Next]_vars => IInv'
  <1> SUFFICES ASSUME IInv, [Next]_vars PROVE IInv'
    OBVIOUS
  <1>1. CASE pop_event
    <2>1. CASE event_count = 0
      BY <1>1, <2>1 DEF pop_event, IInv, Shape
    <2>2. CASE event_count # 0
      <3>1. \A i \in 1..event_count' : i + 1 \in 1..event_count
        BY <1>1, <2>2, PopEffect, CapAssumption DEF IInv, Shape
      <3> QED
        BY <1>1, <2>2, <3>1, PopEffect DEF IInv
    <2> QED
      BY <2>1, <2>2
  <1>2. ASSUME NEW e \in Events, push_event(e) PROVE IInv'
    <2>1. \A i \in 1..event_count' - 1 :
            (IF event_count = Cap THEN i + 1 ELSE i) \in 1..event_count
      BY <1>2, PushEffect, CapAssumption DEF IInv, Shape
    <2>2. \A i \in 1..event_count' - 1 : events'[Index(event_head', i)] \in Events
      BY <1>2, <2>1, PushEffect DEF IInv
    <2>3. \A i \in 1..event_count' : i = event_count' \/ i \in 1..event_count' - 1
      BY <1>2, PushEffect, CapAssumption DEF IInv, Shape
    <2> QED
      BY <1>2, <2>2, <2>3, PushEffect DEF IInv
  <1>3. CASE UNCHANGED vars
    BY <1>3 DEF vars, IInv, Shape
  <1> QED
    BY <1>1, <1>2, <1>3 DEF Next

LEMMA Invariance == Spec => []IInv
  BY InitIInv, NextIInv, PTL DEF Spec

(* A poll only ever hands out what was pushed, for every capacity. *)
THEOREM RingTypeCorrect == Spec => []TypeOK
  <1>1. IInv => TypeOK
    BY ContentsAre DEF IInv, Shape, TypeOK
  <1> QED
    BY <1>1, Invariance, PTL

-----------------------------------------------------------------------------
(* The refinement *)

LEMMA AppendFunction ==
  ASSUME NEW S, NEW d \in Seq(S), NEW e \in S, NEW m \in Nat, Len(d) = m - 1
  PROVE  Append(d, e) = [i \in 1..m |-> IF i = m THEN e ELSE d[i]]
  <1> DEFINE n == Len(d)
  <1>1. n \in Nat /\ m = n + 1
    OBVIOUS
  <1> DEFINE A == [i \in 1..n |-> d[i]]
  <1>2. d = A
    OBVIOUS
  <1>3. Append(A, e) = [i \in 1..n + 1 |-> IF i = n + 1 THEN e ELSE A[i]]
    BY <1>1
  <1>4. [i \in 1..n + 1 |-> IF i = n + 1 THEN e ELSE A[i]]
        = [i \in 1..m |-> IF i = m THEN e ELSE d[i]]
    BY <1>1
  <1> QED
    BY <1>2, <1>3, <1>4

LEMMA CountSplit ==
  ASSUME NEW m \in 1..Cap
  PROVE  /\ m \in Nat /\ m - 1 \in Nat
         /\ \A i \in 1..m : i = m \/ i \in 1..m - 1
  BY CapAssumption

LEMMA PushIsPush ==
  ASSUME IInv, NEW e \in Events, push_event(e)
  PROVE  Queue!Push(e)
  <1> DEFINE q == Contents
             d == Queue!Dropped(q)
  <1>1. Cap \in Nat \ {0} /\ event_count \in 0..Cap
    BY CapAssumption DEF IInv, Shape
  <1>2. /\ q = [i \in 1..event_count |-> events[Index(event_head, i)]]
        /\ q \in Seq(Events \cup {Nothing})
        /\ Len(q) = event_count
    BY ContentsAre DEF IInv
  <1>3. Contents' = [i \in 1..event_count' |-> events'[Index(event_head', i)]]
    <2>1. Shape'
      BY PushEffect
    <2>2. \A i \in 1..event_count' : (event_head' + i - 1) % Cap = Index(event_head', i)
      BY <2>1, IndexIsMod, CapAssumption DEF Shape
    <2> QED
      BY <2>2 DEF Contents
  <1>4. d = [i \in 1..event_count' - 1 |->
               events[Index(event_head, IF event_count = Cap THEN i + 1 ELSE i)]]
    <2>1. CASE event_count = Cap
      <3>1. d = Tail(q) /\ event_count' - 1 = event_count - 1
        BY <1>1, <1>2, <2>1, PushEffect DEF Queue!Dropped
      <3>2. Tail(q) = [i \in 1..event_count - 1 |-> q[i + 1]]
        BY <1>1, <1>2, <2>1
      <3>3. \A i \in 1..event_count - 1 : q[i + 1] = events[Index(event_head, i + 1)]
        BY <1>1, <1>2
      <3> QED
        BY <2>1, <3>1, <3>2, <3>3
    <2>2. CASE event_count # Cap
      <3>1. d = q /\ event_count' - 1 = event_count
        BY <1>1, <1>2, <2>2, PushEffect DEF Queue!Dropped
      <3> QED
        BY <1>2, <2>2, <3>1
    <2> QED
      BY <2>1, <2>2
  <1>5. event_count' \in 1..Cap
    BY <1>1, PushEffect
  <1>6. e \in Events \cup {Nothing}
    OBVIOUS
  <1>7. Append(d, e) = [i \in 1..event_count' |->
                          IF i = event_count' THEN e ELSE d[i]]
    <2>1. d \in Seq(Events \cup {Nothing})
      BY <1>1, <1>2 DEF Queue!Dropped
    <2>2. Len(d) = event_count' - 1 /\ event_count' \in Nat
      <3>1. event_count' - 1 \in Nat
        BY <1>5, CountSplit
      <3>2. event_count' \in Nat
        BY <1>5, CountSplit
      <3> HIDE DEF d
      <3> QED
        BY <1>4, <2>1, <3>1, <3>2
    <2> HIDE DEF d
    <2> QED
      <3> DEFINE S == Events \cup {Nothing}
                 m == event_count'
      <3>1. d \in Seq(S) /\ e \in S /\ m \in Nat /\ Len(d) = m - 1
        BY <1>6, <2>1, <2>2
      <3> HIDE DEF S, m
      <3>2. Append(d, e) = [i \in 1..m |-> IF i = m THEN e ELSE d[i]]
        BY <3>1, AppendFunction
      <3> QED
        BY <3>2 DEF m
  <1>8. \A i \in 1..event_count' :
          events'[Index(event_head', i)] = IF i = event_count' THEN e ELSE d[i]
    <2> SUFFICES ASSUME NEW i \in 1..event_count'
                 PROVE  events'[Index(event_head', i)] = IF i = event_count' THEN e ELSE d[i]
      OBVIOUS
    <2>1. CASE i = event_count'
      BY <2>1, PushEffect
    <2>2. CASE i # event_count'
      <3>1. i \in 1..event_count' - 1
        BY <1>5, <2>2, CountSplit
      <3>2. d[i] = events[Index(event_head, IF event_count = Cap THEN i + 1 ELSE i)]
        <4> HIDE DEF d
        <4> QED
          BY <1>4, <3>1
      <3> QED
        BY <2>2, <3>1, <3>2, PushEffect
    <2> QED
      BY <2>1, <2>2
  <1>9. Contents' = Append(d, e)
    BY <1>3, <1>7, <1>8
  <1> QED
    BY <1>9 DEF Queue!Push, Queue!Pushed, push_event

LEMMA PopIsPoll ==
  ASSUME IInv, pop_event
  PROVE  Queue!Poll
  <1>1. Cap \in Nat \ {0} /\ event_count \in 0..Cap
    BY CapAssumption DEF IInv, Shape
  <1>2. /\ Contents = [i \in 1..event_count |-> events[Index(event_head, i)]]
        /\ Contents \in Seq(Events \cup {Nothing})
        /\ Len(Contents) = event_count
    BY ContentsAre DEF IInv
  <1>3. CASE event_count = 0
    BY <1>2, <1>3 DEF pop_event, Queue!Poll, Contents
  <1>4. CASE event_count # 0
    <2>1. Contents # <<>> /\ Head(Contents) = events[Index(event_head, 1)]
      BY <1>1, <1>2, <1>4
    <2>2. Tail(Contents) = [i \in 1..event_count - 1 |-> events[Index(event_head, i + 1)]]
      BY <1>1, <1>2, <1>4
    <2>3. Contents' = [i \in 1..event_count' |-> events'[Index(event_head', i)]]
      <3>1. Shape'
        BY <1>4, PopEffect
      <3>2. \A i \in 1..event_count' : (event_head' + i - 1) % Cap = Index(event_head', i)
        BY <3>1, IndexIsMod, CapAssumption DEF Shape
      <3> QED
        BY <3>2 DEF Contents
    <2>4. Contents' = Tail(Contents)
      BY <1>4, <2>2, <2>3, PopEffect
    <2> QED
      BY <1>4, <2>1, <2>4, PopEffect DEF Queue!Poll
  <1> QED
    BY <1>3, <1>4

LEMMA InitIsInit == Init => Queue!Init
  BY DEF Init, Queue!Init, Contents

LEMMA StepIsStep == IInv /\ [Next]_vars => [Queue!Next]_<<Contents, polled>>
  <1> SUFFICES ASSUME IInv, [Next]_vars PROVE [Queue!Next]_<<Contents, polled>>
    OBVIOUS
  <1>1. CASE pop_event
    BY <1>1, PopIsPoll DEF Queue!Next
  <1>2. ASSUME NEW e \in Events, push_event(e) PROVE Queue!Next
    BY <1>2, PushIsPush DEF Queue!Next
  <1>3. CASE UNCHANGED vars
    BY <1>3 DEF vars, Contents
  <1> QED
    BY <1>1, <1>2, <1>3 DEF Next

(* The array and its counters implement the bounded queue: whatever the    *)
(* capacity, events come out in order and only the oldest are lost.        *)
THEOREM RingIsQueue == Spec => ImplementsEventQueue
  BY Invariance, InitIsInit, StepIsStep, PTL DEF Spec, ImplementsEventQueue, Queue!Spec
=============================================================================
