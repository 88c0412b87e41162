---------------------------- MODULE LoweringProofs ----------------------------
(***************************************************************************)
(* Proofs about the compiler's second pass, item by item, for every body.  *)
(* A stack machine's code is right if a state can be given to every place  *)
(* in it, the height of the stack and the temporaries that are bound, such *)
(* that each instruction leads from its own state to that of every place   *)
(* execution may go to next (Flow). While a body is compiled there are     *)
(* such states for the code so far, and a jump that waits for its address  *)
(* was promised one of them (Promised), by whatever remembers it: BodyInv  *)
(* says so of the frames, the loops, the labels and the gotos. Each item's *)
(* lemma shows that BodyInv holds after the item if it did before; the     *)
(* last one, that a finished chunk is complete. Sequences, records and     *)
(* their updates are kept behind operators that name what they are for.    *)
(***************************************************************************)
EXTENDS Bytecode, SequenceTheorems, WellFoundedInduction, TLAPS

-----------------------------------------------------------------------------
(* Sequences that grow and shrink at their head; induction along a body *)

(* A sequence with an element put in front of it. *)
LEMMA Push ==
  ASSUME NEW S, NEW x \in S, NEW s \in Seq(S)
  PROVE  /\ <<x>> \o s \in Seq(S)
         /\ Len(<<x>> \o s) = Len(s) + 1
         /\ (<<x>> \o s)[1] = x
         /\ \A k \in 1..Len(s) : (<<x>> \o s)[k + 1] = s[k]
         /\ \A k \in 1..Len(s) + 1 : k = 1 \/ (<<x>> \o s)[k] = s[k - 1]
         /\ Tail(<<x>> \o s) = s
         /\ Head(<<x>> \o s) = x
         /\ <<x>> \o s # <<>>
  OBVIOUS

(* A sequence without its first element. *)
LEMMA Pop ==
  ASSUME NEW S, NEW s \in Seq(S), s # <<>>
  PROVE  /\ Head(s) = s[1]
         /\ s[1] \in S
         /\ Len(s) \in Nat \ {0}
         /\ Tail(s) \in Seq(S)
         /\ Len(Tail(s)) = Len(s) - 1
         /\ \A k \in 1..Len(s) - 1 : Tail(s)[k] = s[k + 1]
  OBVIOUS

Members(s) == {s[k] : k \in 1..Len(s)}

(* The members of a stack that grows, and of one that shrinks. *)
LEMMA MembersPush ==
  ASSUME NEW S, NEW x \in S, NEW s \in Seq(S)
  PROVE  Members(<<x>> \o s) = Members(s) \cup {x}
<1> DEFINE t == <<x>> \o s
<1>1. /\ t \in Seq(S) /\ Len(t) = Len(s) + 1 /\ t[1] = x /\ Len(s) \in Nat
      /\ \A k \in 1..Len(s) : t[k + 1] = s[k]
      /\ \A k \in 1..Len(s) + 1 : k = 1 \/ t[k] = s[k - 1]
  BY Push
<1> HIDE DEF t
<1>2. ASSUME NEW k \in 1..Len(t) PROVE t[k] \in Members(s) \cup {x}
  <2>1. CASE k = 1
    BY <1>1, <2>1
  <2>2. CASE k # 1
    <3>1. k - 1 \in 1..Len(s) /\ t[k] = s[k - 1]
      BY <1>1, <2>2
    <3> QED
      BY <3>1 DEF Members
  <2> QED
    BY <2>1, <2>2
<1>3. ASSUME NEW k \in 1..Len(s) PROVE s[k] \in Members(t)
  <2>1. k + 1 \in 1..Len(t) /\ t[k + 1] = s[k]
    BY <1>1
  <2> QED
    BY <2>1 DEF Members
<1>4. 1 \in 1..Len(t)
  BY <1>1
<1>5. x \in Members(t)
  BY <1>1, <1>4 DEF Members
<1> QED
  BY <1>2, <1>3, <1>5 DEF Members, t

LEMMA MembersPop ==
  ASSUME NEW S, NEW s \in Seq(S), s # <<>>
  PROVE  Members(s) = Members(Tail(s)) \cup {s[1]}
<1> DEFINE t == Tail(s)
<1>1. t \in Seq(S) /\ s[1] \in S /\ s = <<s[1]>> \o t
  OBVIOUS
<1> HIDE DEF t
<1>2. Members(<<s[1]>> \o t) = Members(t) \cup {s[1]}
  BY <1>1, MembersPush
<1> QED
  BY <1>1, <1>2 DEF t

(* Counting up to len: what holds of 1, and of i + 1 if of i, holds of     *)
(* all.                                                                    *)
LEMMA Ascending ==
  ASSUME NEW len \in Nat, NEW S, 1 \in S, \A i \in 1..len - 1 : i \in S => i + 1 \in S
  PROVE  1..len \subseteq S
<1> DEFINE Rest == (1..len) \ S
           less == {ss \in Nat \X Nat : ss[1] < ss[2]}
<1>1. IsWellFoundedOn(less, Nat)
  BY NatLessThanWellFounded, Zenon DEF OpToRel
<1> SUFFICES ASSUME Rest # {} PROVE FALSE
  OBVIOUS
<1>2. Rest \subseteq Nat
  OBVIOUS
<1>3. PICK r \in Rest : \A q \in Rest : ~(<<q, r>> \in less)
  BY <1>1, <1>2, WFMin
<1>4. r # 1 /\ r \in 1..len
  OBVIOUS
<1>7. \A q \in Rest : ~(q < r)
  BY <1>2, <1>3
<1>5. r - 1 \in 1..len - 1 /\ r - 1 \notin Rest
  <2>1. r - 1 \in 1..len - 1 /\ r - 1 < r
    BY <1>4
  <2> HIDE DEF Rest
  <2> QED
    BY <2>1, <1>7
<1>6. r - 1 \in S
  BY <1>5
<1> QED
  BY <1>4, <1>5, <1>6

-----------------------------------------------------------------------------
(* Where items stand *)

Body(body) == body \in Seq(Items) /\ WellNested(body, Nesting(body))

(* What the nesting of a body consists of. *)
LEMMA NestingTyped ==
  ASSUME NEW body, Body(body), NEW i \in 1..Len(body)
  PROVE  /\ body[i] \in Items
         /\ Nesting(body)[i] \in Contexts
         /\ Nesting(body)[i].open \in Seq(Nat)
         /\ Nesting(body)[i].loops \in Seq(Nat)
         /\ Nesting(body)[i].operands \in Nat
         /\ Nesting(body)[i].part \in {"body", "step"}
         /\ Len(body) \in Nat \ {0}
<1> DEFINE n == Nesting(body)
<1>1. n \in Seq(Contexts) /\ Len(n) = Len(body) /\ body \in Seq(Items) /\ body # <<>>
  BY DEF Body, WellNested
<1>2. n[i] \in Contexts /\ body[i] \in Items /\ Len(body) \in Nat \ {0}
  BY <1>1
<1> QED
  BY <1>2 DEF Contexts

Before(s, i) == Members(s) \subseteq 1..i - 1

(* The four ways in which loops change from item to item. *)
LEMMA LoopsMove ==
  ASSUME NEW body, Body(body), NEW n, n = Nesting(body), NEW i \in 1..Len(body) - 1
  PROVE  \/ n[i + 1].loops = n[i].loops /\ body[i].kind \notin Heads \cup Ends
         \/ n[i + 1].loops = <<i>> \o n[i].loops /\ body[i].kind \in Heads
         \/ /\ n[i + 1].loops = Tail(n[i].loops)
            /\ n[i].loops # <<>>
            /\ body[i].kind \in Ends
            /\ body[Head(n[i].loops)].kind \in Heads
            /\ body[Head(n[i].loops)].node = body[i].node
<1>1. n[i] \in Contexts
  BY NestingTyped
<1>2. MovesOperands(body, n, i) \/ MovesBranch(body, n, i) \/ MovesLoop(body, n, i)
  BY DEF Body, WellNested, Moves
<1>3. CASE MovesOperands(body, n, i)
  BY <1>1, <1>3 DEF MovesOperands, Contexts, Heads, Ends
<1>4. CASE MovesBranch(body, n, i)
  BY <1>1, <1>4 DEF MovesBranch, Contexts, Heads, Ends
<1>5. CASE MovesLoop(body, n, i)
  BY <1>1, <1>5 DEF MovesLoop, ContinuesLoop, Contexts, Heads, Ends
<1> QED
  BY <1>2, <1>3, <1>4, <1>5

(* An end closes the innermost loop. *)
LEMMA EndMoves ==
  ASSUME NEW body, Body(body), NEW n, n = Nesting(body), NEW i \in 1..Len(body) - 1,
         body[i].kind \in Ends
  PROVE  /\ n[i].loops # <<>>
         /\ body[Head(n[i].loops)].kind \in Heads
         /\ body[Head(n[i].loops)].node = body[i].node
<1>1. MovesOperands(body, n, i) \/ MovesBranch(body, n, i) \/ MovesLoop(body, n, i)
  BY DEF Body, WellNested, Moves
<1>2. ~MovesOperands(body, n, i)
  BY DEF MovesOperands, Ends
<1>3. ~MovesBranch(body, n, i)
  BY DEF MovesBranch, Ends
<1>4. ContinuesLoop(body, n, i, {"do"}) \/ ContinuesLoop(body, n, i, {"each"})
  BY <1>1, <1>2, <1>3 DEF MovesLoop, Ends
<1> QED
  BY <1>4 DEF ContinuesLoop, Heads

(* And the three in which what is open does. *)
LEMMA OpenMoves ==
  ASSUME NEW body, Body(body), NEW n, n = Nesting(body), NEW i \in 1..Len(body) - 1
  PROVE  \/ n[i + 1].open = n[i].open
         \/ n[i + 1].open = <<i>> \o n[i].open
         \/ n[i + 1].open = <<i>> \o Tail(n[i].open) /\ n[i].open # <<>>
         \/ n[i + 1].open = Tail(n[i].open) /\ n[i].open # <<>>
<1>1. n[i] \in Contexts
  BY NestingTyped
<1>2. MovesOperands(body, n, i) \/ MovesBranch(body, n, i) \/ MovesLoop(body, n, i)
  BY DEF Body, WellNested, Moves
<1>3. CASE MovesOperands(body, n, i)
  BY <1>1, <1>3 DEF MovesOperands, Contexts
<1>4. CASE MovesBranch(body, n, i)
  BY <1>1, <1>4 DEF MovesBranch, Continues, Contexts
<1>5. CASE MovesLoop(body, n, i)
  BY <1>1, <1>5 DEF MovesLoop, ContinuesLoop, Continues, Contexts
<1> QED
  BY <1>2, <1>3, <1>4, <1>5

(* What is open was opened before. *)
LEMMA AllOpened ==
  ASSUME NEW body, Body(body), NEW n, n = Nesting(body)
  PROVE  \A i \in 1..Len(body) : Before(n[i].open, i) /\ Before(n[i].loops, i)
<1> DEFINE S == {i \in 1..Len(body) : Before(n[i].open, i) /\ Before(n[i].loops, i)}
<1>1. Len(body) \in Nat \ {0}
  BY DEF Body, WellNested
<1>2. 1 \in S
  <2>1. n[1].open = <<>> /\ n[1].loops = <<>>
    BY DEF Body, WellNested, Moves, Outermost
  <2> QED
    BY <1>1, <2>1 DEF Before, Members
<1>3. ASSUME NEW i \in 1..Len(body) - 1, i \in S PROVE i + 1 \in S
  <2> DEFINE O == n[i].open
             P == n[i + 1].open
             L == n[i].loops
             M == n[i + 1].loops
  <2>1. i \in 1..Len(body) /\ i + 1 \in 1..Len(body) /\ i \in Nat
    BY <1>1
  <2>2. O \in Seq(Nat) /\ L \in Seq(Nat)
    BY <2>1, NestingTyped
  <2>3. Members(O) \subseteq 1..i - 1 /\ Members(L) \subseteq 1..i - 1
    BY <1>3 DEF Before
  <2>4. \/ P = O
        \/ P = <<i>> \o O
        \/ P = <<i>> \o Tail(O) /\ O # <<>>
        \/ P = Tail(O) /\ O # <<>>
    BY OpenMoves
  <2>5. \/ M = L
        \/ M = <<i>> \o L
        \/ M = Tail(L) /\ L # <<>>
    BY LoopsMove, ZenonT(60)
  <2> SUFFICES Members(P) \subseteq 1..i /\ Members(M) \subseteq 1..i
    BY <2>1 DEF Before
  <2> HIDE DEF O, P, L, M
  <2>6. O # <<>> => Tail(O) \in Seq(Nat) /\ Members(Tail(O)) \subseteq Members(O)
    BY <2>2, MembersPop, Pop
  <2>7. L # <<>> => Members(Tail(L)) \subseteq Members(L)
    BY <2>2, MembersPop
  <2>8. /\ Members(<<i>> \o O) = Members(O) \cup {i}
        /\ Members(<<i>> \o L) = Members(L) \cup {i}
        /\ O # <<>> => Members(<<i>> \o Tail(O)) = Members(Tail(O)) \cup {i}
    BY <2>1, <2>2, <2>6, MembersPush
  <2>9. 1..i - 1 \cup {i} \subseteq 1..i
    BY <2>1
  <2> QED
    BY <2>3, <2>4, <2>5, <2>6, <2>7, <2>8, <2>9
<1>4. 1..Len(body) \subseteq S
  BY <1>1, <1>2, <1>3, Ascending
<1> QED
  BY <1>4

(* The loops around a loop are those around its items, but for itself and  *)
(* what is inside it.                                                      *)
Stacked(body, n, L) ==
  \A k \in 1..Len(L) :
    /\ body[L[k]].kind \in Heads
    /\ Len(n[L[k]].loops) = Len(L) - k
    /\ \A m \in 1..Len(L) - k : n[L[k]].loops[m] = L[k + m]

(* A stack of loop heads stays one when a head is pushed or popped. *)
LEMMA StackedPush ==
  ASSUME NEW body, NEW n, NEW L \in Seq(Nat), NEW i \in Nat, Stacked(body, n, L),
         body[i].kind \in Heads, n[i].loops = L
  PROVE  Stacked(body, n, <<i>> \o L)
<1> DEFINE M == <<i>> \o L
<1>1. Len(M) = Len(L) + 1 /\ M[1] = i /\ Len(L) \in Nat /\ \A j \in 1..Len(L) : M[j + 1] = L[j]
  BY Push
<1> HIDE DEF M
<1> SUFFICES ASSUME NEW k \in 1..Len(M)
             PROVE  /\ body[M[k]].kind \in Heads
                    /\ Len(n[M[k]].loops) = Len(M) - k
                    /\ \A m \in 1..Len(M) - k : n[M[k]].loops[m] = M[k + m]
  BY DEF Stacked, M
<1>2. CASE k = 1
  <2>1. \A m \in 1..Len(M) - 1 : m \in 1..Len(L) /\ L[m] = M[1 + m]
    BY <1>1
  <2> QED
    BY <1>1, <1>2, <2>1
<1>3. CASE k # 1
  <2>1. k - 1 \in 1..Len(L) /\ M[k] = L[k - 1]
    <3>1. k - 1 \in 1..Len(L) /\ k = (k - 1) + 1
      BY <1>1, <1>3
    <3> QED
      BY <1>1, <3>1
  <2>2. /\ body[L[k - 1]].kind \in Heads
        /\ Len(n[L[k - 1]].loops) = Len(L) - (k - 1)
        /\ \A m \in 1..Len(L) - (k - 1) : n[L[k - 1]].loops[m] = L[(k - 1) + m]
    BY <2>1 DEF Stacked
  <2>3. ASSUME NEW m \in 1..Len(M) - k PROVE M[k + m] = L[(k - 1) + m]
    <3>1. (k - 1) + m \in 1..Len(L) /\ k + m = ((k - 1) + m) + 1
      BY <1>1, <2>1
    <3> QED
      BY <1>1, <3>1
  <2>4. Len(L) - (k - 1) = Len(M) - k
    BY <1>1
  <2> QED
    BY <2>1, <2>2, <2>3, <2>4
<1> QED
  BY <1>2, <1>3

LEMMA StackedPop ==
  ASSUME NEW body, NEW n, NEW L \in Seq(Nat), L # <<>>, Stacked(body, n, L)
  PROVE  Stacked(body, n, Tail(L))
<1> DEFINE M == Tail(L)
<1>1. Len(M) = Len(L) - 1 /\ Len(L) \in Nat \ {0} /\ \A j \in 1..Len(L) - 1 : M[j] = L[j + 1]
  BY Pop
<1> HIDE DEF M
<1> SUFFICES ASSUME NEW k \in 1..Len(M)
             PROVE  /\ body[M[k]].kind \in Heads
                    /\ Len(n[M[k]].loops) = Len(M) - k
                    /\ \A m \in 1..Len(M) - k : n[M[k]].loops[m] = M[k + m]
  BY DEF Stacked, M
<1>2. k + 1 \in 1..Len(L) /\ M[k] = L[k + 1]
  BY <1>1
<1>3. /\ body[L[k + 1]].kind \in Heads
      /\ Len(n[L[k + 1]].loops) = Len(L) - (k + 1)
      /\ \A m \in 1..Len(L) - (k + 1) : n[L[k + 1]].loops[m] = L[(k + 1) + m]
  BY <1>2 DEF Stacked
<1>4. ASSUME NEW m \in 1..Len(M) - k PROVE M[k + m] = L[(k + 1) + m]
  <2>1. k + m \in 1..Len(L) - 1 /\ (k + 1) + m = (k + m) + 1
    BY <1>1
  <2> QED
    BY <1>1, <2>1
<1>5. Len(L) - (k + 1) = Len(M) - k
  BY <1>1
<1> QED
  BY <1>2, <1>3, <1>4, <1>5

(* Around each item of a body the loops are heads, each inside the next. *)
LEMMA AllStacked ==
  ASSUME NEW body, Body(body), NEW n, n = Nesting(body)
  PROVE  \A i \in 1..Len(body) : Stacked(body, n, n[i].loops)
<1> DEFINE S == {i \in 1..Len(body) : Stacked(body, n, n[i].loops)}
<1>1. Len(body) \in Nat \ {0}
  BY DEF Body, WellNested
<1>2. 1 \in S
  <2>1. n[1].loops = <<>>
    BY DEF Body, WellNested, Moves, Outermost
  <2> QED
    BY <1>1, <2>1 DEF Stacked
<1>3. ASSUME NEW i \in 1..Len(body) - 1, i \in S PROVE i + 1 \in S
  <2>1. n[i].loops \in Seq(Nat) /\ i \in Nat /\ i + 1 \in 1..Len(body)
    BY <1>1, NestingTyped
  <2>2. Stacked(body, n, n[i].loops)
    BY <1>3
  <2>3. Stacked(body, n, n[i + 1].loops)
    <3>1. \/ n[i + 1].loops = n[i].loops
          \/ n[i + 1].loops = <<i>> \o n[i].loops /\ body[i].kind \in Heads
          \/ n[i + 1].loops = Tail(n[i].loops) /\ n[i].loops # <<>>
      <4>1. Body(body) /\ n = Nesting(body)
        OBVIOUS
      <4> HIDE DEF S
      <4> QED
        BY <4>1, LoopsMove, ZenonT(60)
    <3>2. body[i].kind \in Heads => Stacked(body, n, <<i>> \o n[i].loops)
      BY <2>1, <2>2, StackedPush
    <3>3. n[i].loops # <<>> => Stacked(body, n, Tail(n[i].loops))
      BY <2>1, <2>2, StackedPop
    <3> QED
      BY <2>2, <3>1, <3>2, <3>3
  <2> QED
    BY <2>1, <2>3
<1>4. 1..Len(body) \subseteq S
  BY <1>1, <1>2, <1>3, Ascending
<1> QED
  BY <1>4

(* So a loop is not around itself. *)
LEMMA NotInsideItself ==
  ASSUME NEW body, Body(body), NEW n, n = Nesting(body), NEW i \in 1..Len(body),
         n[i].loops # <<>>
  PROVE  /\ n[i].loops[1] \in 1..i - 1
         /\ n[i].loops[1] \in Members(n[i].loops)
         /\ body[n[i].loops[1]].kind \in Heads
         /\ n[n[i].loops[1]].loops = Tail(n[i].loops)
         /\ n[i].loops[1] \notin Members(Tail(n[i].loops))
<1> DEFINE L == n[i].loops
           h == L[1]
           M == n[h].loops
<1>1. L \in Seq(Nat) /\ i \in Nat
  BY NestingTyped
<1>2. Members(L) \subseteq 1..i - 1 /\ Stacked(body, n, L)
  BY AllOpened, AllStacked DEF Before
<1> HIDE DEF L
<1>3. /\ Len(L) \in Nat \ {0} /\ Tail(L) \in Seq(Nat) /\ Len(Tail(L)) = Len(L) - 1
      /\ \A k \in 1..Len(L) - 1 : Tail(L)[k] = L[k + 1]
  BY <1>1, Pop DEF L
<1>4. 1 \in 1..Len(L)
  BY <1>3
<1>5. h \in Members(L) /\ h \in 1..i - 1
  BY <1>2, <1>4 DEF Members
<1>6. h \in 1..Len(body)
  BY <1>5, NestingTyped
<1>7. M \in Seq(Nat) /\ Members(M) \subseteq 1..h - 1
  BY <1>6, NestingTyped, AllOpened DEF Before
<1>8. /\ body[h].kind \in Heads
      /\ Len(M) = Len(L) - 1
      /\ \A m \in 1..Len(L) - 1 : M[m] = L[1 + m]
  BY <1>2, <1>4 DEF Stacked
<1>9. M = Tail(L)
  <2> HIDE DEF M
  <2>1. \A m \in 1..Len(M) : M[m] = Tail(L)[m]
    <3>1. \A m \in 1..Len(L) - 1 : 1 + m = m + 1
      OBVIOUS
    <3> QED
      BY <1>3, <1>8, <3>1
  <2> QED
    BY <1>3, <1>7, <1>8, <2>1, SeqEqual
<1>10. h \notin 1..h - 1
  BY <1>5
<1> QED
  BY <1>5, <1>7, <1>8, <1>9, <1>10 DEF L

-----------------------------------------------------------------------------
(* The loops around an item, as the resolver sees them *)

Closed(body, head, i) ==
  \E e \in 1..i - 1 : body[e].kind \in Ends /\ body[e].node = body[head].node

(* An end closes the loop whose head has its node: that is before it. *)
LEMMA EndAfterHead ==
  ASSUME NEW body, Body(body), NEW e \in 1..Len(body), body[e].kind \in Ends
  PROVE  \E h \in 1..e - 1 : body[h].kind \in Heads /\ body[h].node = body[e].node
<1> DEFINE n == Nesting(body)
<1>1. e # Len(body) /\ Len(body) \in Nat
  BY NestingTyped DEF Body, WellNested, Moves, Ends
<1>2. e \in 1..Len(body) - 1
  BY <1>1
<1>3. /\ n[e].loops # <<>>
      /\ body[Head(n[e].loops)].kind \in Heads
      /\ body[Head(n[e].loops)].node = body[e].node
  <2>1. n = Nesting(body) /\ Body(body) /\ body[e].kind \in Ends
    OBVIOUS
  <2> HIDE DEF n
  <2> QED
    BY <1>2, <2>1, EndMoves
<1>4. Head(n[e].loops) = n[e].loops[1]
  BY <1>3, NestingTyped, Pop
<1>5. n[e].loops[1] \in 1..e - 1
  BY <1>3, NotInsideItself
<1> QED
  BY <1>3, <1>4, <1>5

(* A loop is around what stands between its head and its end. *)
OpenHeads(body, n, i) ==
  \A h \in 1..i - 1 :
    body[h].kind \in Heads => (h \in Members(n[i].loops) <=> ~Closed(body, h, i))

(* A loop whose head is behind an item and whose end is not is around it. *)
LEMMA OpenUntilClosed ==
  ASSUME NEW body, Body(body), NEW n, n = Nesting(body)
  PROVE  \A i \in 1..Len(body) : OpenHeads(body, n, i)
<1> DEFINE S == {i \in 1..Len(body) : OpenHeads(body, n, i)}
<1>1. Len(body) \in Nat \ {0}
  BY DEF Body, WellNested
<1>2. 1 \in S
  BY <1>1 DEF OpenHeads
<1>3. ASSUME NEW i \in 1..Len(body) - 1, i \in S PROVE i + 1 \in S
  <2> DEFINE L == n[i].loops
             M == n[i + 1].loops
  <2>0. L \in Seq(Nat) /\ i \in Nat /\ i \in 1..Len(body) /\ i + 1 \in 1..Len(body)
    BY <1>1, NestingTyped
  <2>1. Members(L) \subseteq 1..i - 1
    BY <2>0, AllOpened DEF Before
  <2>2. ASSUME L # <<>>
        PROVE  /\ L[1] \in 1..i - 1
               /\ L[1] \in Members(L)
               /\ L[1] \notin Members(Tail(L))
               /\ Head(L) = L[1]
    BY <2>0, <2>2, NotInsideItself, Pop
  <2> SUFFICES ASSUME NEW h \in 1..i, body[h].kind \in Heads
               PROVE  h \in Members(M) <=> ~Closed(body, h, i + 1)
    BY <2>0 DEF OpenHeads
  <2>3. h # i => (h \in Members(L) <=> ~Closed(body, h, i))
    BY <1>3, <2>0 DEF OpenHeads
  <2>4. Closed(body, h, i + 1) <=>
          Closed(body, h, i) \/ (body[i].kind \in Ends /\ body[i].node = body[h].node)
    BY <2>0 DEF Closed
  <2>5. \/ M = L /\ body[i].kind \notin Heads \cup Ends
        \/ M = <<i>> \o L /\ body[i].kind \in Heads
        \/ /\ M = Tail(L) /\ L # <<>>
           /\ body[i].kind \in Ends
           /\ body[Head(L)].kind \in Heads
           /\ body[Head(L)].node = body[i].node
    <3>1. ASSUME body[i].kind \notin Heads \cup Ends
          PROVE  M = L
      BY <3>1, LoopsMove
    <3>2. ASSUME body[i].kind \in Heads
          PROVE  M = <<i>> \o L
      <4>1. body[i].kind \notin Ends
        BY <3>2 DEF Heads, Ends
      <4> QED
        BY <3>2, <4>1, LoopsMove
    <3>3. ASSUME body[i].kind \in Ends
          PROVE  /\ M = Tail(L) /\ L # <<>>
                 /\ body[Head(L)].kind \in Heads
                 /\ body[Head(L)].node = body[i].node
      <4>1. body[i].kind \notin Heads
        BY <3>3 DEF Heads, Ends
      <4>2. M = Tail(L)
        BY <3>3, <4>1, LoopsMove, ZenonT(60)
      <4>3. L # <<>> /\ body[Head(L)].kind \in Heads /\ body[Head(L)].node = body[i].node
        BY <3>3, EndMoves
      <4> QED
        BY <4>2, <4>3
    <3> QED
      BY <3>1, <3>2, <3>3
  <2> HIDE DEF L, M
  <2>6. CASE M = L /\ body[i].kind \notin Heads \cup Ends
    BY <2>3, <2>4, <2>6
  <2>7. CASE M = <<i>> \o L /\ body[i].kind \in Heads
    <3>1. Members(M) = Members(L) \cup {i}
      BY <2>0, <2>7, MembersPush
    <3>2. body[i].kind \notin Ends
      BY <2>7 DEF Heads, Ends
    <3>3. CASE h = i
      <4> SUFFICES ASSUME Closed(body, h, i) PROVE FALSE
        BY <2>4, <3>1, <3>2, <3>3
      <4>1. PICK e \in 1..i - 1 : body[e].kind \in Ends /\ body[e].node = body[h].node
        BY DEF Closed
      <4>2. e \in 1..Len(body)
        BY <2>0, <1>1
      <4>3. PICK g \in 1..e - 1 : body[g].kind \in Heads /\ body[g].node = body[e].node
        BY <4>1, <4>2, EndAfterHead
      <4>4. g \in 1..Len(body) /\ g < i
        BY <4>1, <4>2, <1>1
      <4>5. g = h
        BY <4>1, <4>3, <4>4, <2>0, <3>3 DEF Body, WellNested, LoopsApart
      <4> QED
        BY <4>4, <4>5, <3>3
    <3>4. CASE h # i
      BY <2>3, <2>4, <3>1, <3>2, <3>4
    <3> QED
      BY <3>3, <3>4
  <2>8. CASE /\ M = Tail(L) /\ L # <<>>
             /\ body[i].kind \in Ends
             /\ body[Head(L)].kind \in Heads
             /\ body[Head(L)].node = body[i].node
    <3>1. h # i
      BY <2>8 DEF Heads, Ends
    <3>2. Members(L) = Members(M) \cup {L[1]}
      BY <2>0, <2>8, MembersPop
    <3>3. body[i].node = body[h].node <=> h = L[1]
      <4>1. L[1] \in 1..Len(body) /\ h \in 1..Len(body)
        BY <2>0, <2>2, <2>8, <1>1
      <4> QED
        BY <4>1, <2>2, <2>8 DEF Body, WellNested, LoopsApart
    <3> QED
      BY <2>2, <2>3, <2>4, <2>8, <3>1, <3>2, <3>3
  <2> QED
    BY <2>5, <2>6, <2>7, <2>8
<1>4. 1..Len(body) \subseteq S
  BY <1>1, <1>2, <1>3, Ascending
<1> QED
  BY <1>4

(* The loops around an item that does not close one. *)
LEMMA LoopsAroundAre ==
  ASSUME NEW body, Body(body), NEW i \in 1..Len(body), body[i].kind \notin Ends
  PROVE  LoopsAround(body, i) = Members(Nesting(body)[i].loops)
<1> DEFINE n == Nesting(body)
           End(h) == LoopEnd(body, body[h].node)
<1>0. Len(body) \in Nat \ {0}
  BY DEF Body, WellNested
<1>1. Members(n[i].loops) \subseteq 1..i - 1
  BY AllOpened DEF Before
<1>2. \A h \in Members(n[i].loops) : body[h].kind \in Heads
  <2>1. Stacked(body, n, n[i].loops)
    BY AllStacked
  <2> QED
    BY <2>1 DEF Stacked, Members
<1>3. Members(n[Len(body)].loops) = {}
  <2>1. n[Len(body)].loops = <<>>
    BY DEF Body, WellNested, Moves, Outermost
  <2> QED
    BY <2>1 DEF Members
<1>4. ASSUME NEW h \in 1..i - 1, body[h].kind \in Heads
      PROVE  /\ End(h) \in 1..Len(body)
             /\ body[End(h)].kind \in Ends /\ body[End(h)].node = body[h].node
             /\ \A e \in 1..Len(body) :
                  body[e].kind \in Ends /\ body[e].node = body[h].node => e = End(h)
  <2>1. h \in 1..Len(body) - 1 /\ Len(body) \in 1..Len(body)
    BY <1>0
  <2>2. Closed(body, h, Len(body))
    BY <1>3, <1>4, <2>1, OpenUntilClosed DEF OpenHeads
  <2>3. PICK e \in 1..Len(body) : body[e].kind \in Ends /\ body[e].node = body[h].node
    BY <1>0, <2>2 DEF Closed
  <2>4. /\ End(h) \in 1..Len(body)
        /\ body[End(h)].kind \in Ends /\ body[End(h)].node = body[h].node
    BY <2>3 DEF LoopEnd, Ends
  <2> HIDE DEF End
  <2> QED
    BY <2>4 DEF Body, WellNested, LoopsApart
<1> HIDE DEF End
<1>5. ASSUME NEW h \in 1..i - 1, body[h].kind \in Heads
      PROVE  h \in Members(n[i].loops) <=> i < End(h)
  <2>1. h \in Members(n[i].loops) <=> ~Closed(body, h, i)
    BY <1>5, OpenUntilClosed DEF OpenHeads
  <2>2. End(h) # i /\ End(h) \in 1..Len(body)
    BY <1>4, <1>5
  <2>3. Closed(body, h, i) <=> End(h) < i
    <3>1. End(h) < i => End(h) \in 1..i - 1
      BY <2>2
    <3>2. 1..i - 1 \subseteq 1..Len(body) /\ \A e \in 1..i - 1 : e < i
      BY <1>0
    <3> QED
      BY <1>4, <1>5, <3>1, <3>2 DEF Closed
  <2> QED
    BY <2>1, <2>2, <2>3
<1> QED
  BY <1>1, <1>2, <1>5 DEF LoopsAround, Heads, End

-----------------------------------------------------------------------------
(* What holds before each instruction *)

Jumps == {"jump", "jumpfalse"}

Instructions(body) == [op : Ops, arg : Nat, item : 1..Len(body), after : BOOLEAN]

(* Before an instruction: how many operands there are, and which           *)
(* temporaries are bound.                                                  *)
States == [height : Nat, bound : SUBSET Nat]

Takes(ins) ==
  IF ins.op \in {"apply", "call", "main", "drop"} THEN ins.arg
  ELSE IF ins.op \in {"jumpfalse", "define", "store", "length", "bind"} THEN 1
  ELSE IF ins.op \in {"less", "add", "get"} THEN 2
  ELSE 0

Gives(ins) ==
  IF ins.op \in {"operand", "apply", "call", "main", "const", "load", "length", "less", "add", "get"}
  THEN 1 ELSE 0

Binds(ins) == IF ins.op = "define" THEN {ins.arg} ELSE {}

(* From state s the instruction leads to one that will do for t. *)
Leads(ins, s, t) ==
  /\ Takes(ins) <= s.height
  /\ t.height = s.height - Takes(ins) + Gives(ins)
  /\ t.bound \subseteq s.bound \cup Binds(ins)

Statements == {"break", "continue", "goto", "each", "endeach", "finish"}

Begins(body, c, j) ==
  /\ body[c[j].item].kind \in Statements
  /\ j > 1 => c[j - 1].item # c[j].item

(* Before instruction j of code c holds state a[j]. *)
FlowAt(body, c, a, j) ==
  /\ c[j].op = "load" => c[j].arg \in a[j].bound
  /\ c[j].op \notin {"jump", "return"} => Leads(c[j], a[j], a[j + 1])
  /\ c[j].op = "return" => a[j].height > 0
  /\ c[j].op \in Jumps /\ c[j].arg # Nowhere =>
       c[j].arg \in 1..Len(c) + 1 /\ Leads(c[j], a[j], a[c[j].arg])
  /\ Begins(body, c, j) => a[j].height = 0

(* A chunk begins with an empty stack and no temporary bound. *)
FromNothing(a) == a[1].height = 0 /\ a[1].bound = {}

Flow(body, c, a) ==
  /\ c \in Seq(Instructions(body))
  /\ a \in Seq(States)
  /\ Len(a) = Len(c) + 1
  /\ FromNothing(a)
  /\ \A j \in 1..Len(c) : FlowAt(body, c, a, j)

(* Jump j, once it has an address, may have that of a place with state t.  *)
Promised(c, a, j, t) ==
  /\ j \in 1..Len(c)
  /\ c[j].op \in Jumps
  /\ Leads(c[j], a[j], t)

(* The code has grown, or jumps in it got their addresses. *)
Kept(c, a, d, b) ==
  /\ Len(c) \in Nat /\ Len(d) \in Nat /\ Len(c) <= Len(d)
  /\ \A j \in 1..Len(c) :
       /\ d[j].op = c[j].op /\ d[j].item = c[j].item
       /\ c[j].op \notin Jumps => d[j] = c[j]
  /\ \A j \in 1..Len(c) + 1 : b[j] = a[j]

(* A jump's address does not matter to what it does to the stack. *)
LEMMA LeadsByOp ==
  ASSUME NEW i1, NEW i2, i1.op = i2.op, i1.op \in Jumps, NEW s, NEW t
  PROVE  Leads(i1, s, t) <=> Leads(i2, s, t)
  BY DEF Leads, Takes, Gives, Binds, Jumps

(* What was promised to a jump is still promised once the code has grown   *)
(* or was patched.                                                         *)
LEMMA KeptPromise ==
  ASSUME NEW c, NEW a, NEW d, NEW b, Kept(c, a, d, b), NEW j, NEW t, Promised(c, a, j, t)
  PROVE  Promised(d, b, j, t)
<1>1. /\ j \in 1..Len(d) /\ d[j].op = c[j].op /\ c[j].op \in Jumps /\ b[j] = a[j]
      /\ Leads(c[j], a[j], t)
  BY DEF Kept, Promised
<1> QED
  BY <1>1, LeadsByOp DEF Promised

(* One change after the other. *)
LEMMA KeptTwice ==
  ASSUME NEW c, NEW a, NEW d, NEW b, NEW e, NEW f, Kept(c, a, d, b), Kept(d, b, e, f)
  PROVE  Kept(c, a, e, f)
<1>1. \A j \in 1..Len(c) : j \in 1..Len(d)
  BY DEF Kept
<1>2. \A j \in 1..Len(c) + 1 : j \in 1..Len(d) + 1
  BY DEF Kept
<1>3. \A j \in 1..Len(c) + 1 : f[j] = a[j]
  BY <1>2 DEF Kept
<1>4. ASSUME NEW j \in 1..Len(c)
      PROVE  /\ e[j].op = c[j].op /\ e[j].item = c[j].item
             /\ c[j].op \notin Jumps => e[j] = c[j]
  BY <1>1 DEF Kept
<1>5. Len(c) \in Nat /\ Len(e) \in Nat /\ Len(c) <= Len(e)
  BY DEF Kept
<1> QED
  BY <1>3, <1>4, <1>5 DEF Kept

(* And no change. *)
LEMMA KeptAll ==
  ASSUME NEW body, NEW c, NEW a, Flow(body, c, a)
  PROVE  Kept(c, a, c, a)
  BY DEF Flow, Kept

-----------------------------------------------------------------------------
(* Emitting instructions *)

LEMMA Joined ==
  ASSUME NEW S, NEW s \in Seq(S), NEW t \in Seq(S)
  PROVE  /\ s \o t \in Seq(S)
         /\ Len(s \o t) = Len(s) + Len(t)
         /\ \A k \in 1..Len(s) : (s \o t)[k] = s[k]
         /\ \A k \in 1..Len(t) : (s \o t)[Len(s) + k] = t[k]
  OBVIOUS

(* Instructions b, to be written after c, with the states around them. *)
Block(body, c, a, b, s) ==
  /\ b \in Seq(Instructions(body))
  /\ s \in Seq(States)
  /\ Len(s) = Len(b) + 1
  /\ s[1] = a[Len(c) + 1]
  /\ \A k \in 1..Len(b) :
       /\ b[k].op = "load" => b[k].arg \in s[k].bound
       /\ b[k].op \notin {"jump", "return"} => Leads(b[k], s[k], s[k + 1])
       /\ b[k].op = "return" => s[k].height > 0
       /\ b[k].op \in Jumps /\ b[k].arg # Nowhere =>
            \/ b[k].arg \in 1..Len(c) + 1 /\ Leads(b[k], s[k], a[b[k].arg])
            \/ \E m \in 1..Len(s) : b[k].arg = Len(c) + m /\ Leads(b[k], s[k], s[m])
       /\ Begins(body, b, k) => s[k].height = 0

(* Code that flows still does when instructions are written after it that  *)
(* fit the states there.                                                   *)
LEMMA Emit ==
  ASSUME NEW body, NEW c, NEW a, Flow(body, c, a), NEW b, NEW s, Block(body, c, a, b, s)
  PROVE  /\ Len(c \o b) = Len(c) + Len(b)
         /\ \A j \in 1..Len(c) : (c \o b)[j] = c[j]
         /\ \A k \in 1..Len(b) : (c \o b)[Len(c) + k] = b[k]
         /\ \E t : /\ Flow(body, c \o b, t)
                   /\ Kept(c, a, c \o b, t)
                   /\ \A k \in 1..Len(s) : t[Len(c) + k] = s[k]
<1> DEFINE d == c \o b
           r == Tail(s)
           t == a \o r
<1>1. /\ c \in Seq(Instructions(body)) /\ b \in Seq(Instructions(body))
      /\ a \in Seq(States) /\ s \in Seq(States)
      /\ Len(a) = Len(c) + 1 /\ Len(s) = Len(b) + 1 /\ s[1] = a[Len(c) + 1]
      /\ Len(c) \in Nat /\ Len(b) \in Nat
  BY DEF Flow, Block
<1>2. /\ r \in Seq(States) /\ Len(r) = Len(b) /\ \A k \in 1..Len(b) : r[k] = s[k + 1]
  BY <1>1, Pop
<1>3. /\ d \in Seq(Instructions(body)) /\ Len(d) = Len(c) + Len(b)
      /\ \A j \in 1..Len(c) : d[j] = c[j]
      /\ \A k \in 1..Len(b) : d[Len(c) + k] = b[k]
  BY <1>1, Joined
<1> HIDE DEF r
<1>4. /\ t \in Seq(States) /\ Len(t) = Len(d) + 1
      /\ \A j \in 1..Len(c) + 1 : t[j] = a[j]
      /\ \A k \in 1..Len(b) : t[Len(c) + 1 + k] = r[k]
  <2>1. /\ t \in Seq(States) /\ Len(t) = Len(a) + Len(r)
        /\ \A k \in 1..Len(a) : t[k] = a[k]
        /\ \A k \in 1..Len(r) : t[Len(a) + k] = r[k]
    <3>1. a \in Seq(States) /\ r \in Seq(States)
      BY <1>1, <1>2
    <3> QED
      BY <3>1, Joined
  <2> QED
    BY <1>1, <1>2, <1>3, <2>1
<1> HIDE DEF d, t
<1>5. ASSUME NEW k \in 1..Len(s) PROVE t[Len(c) + k] = s[k]
  <2>1. CASE k = 1
    BY <1>1, <1>4, <2>1, SMTT(30)
  <2>2. CASE k # 1
    <3>1. k - 1 \in 1..Len(b) /\ Len(c) + 1 + (k - 1) = Len(c) + k /\ (k - 1) + 1 = k
      <4>1. Len(s) = Len(b) + 1 /\ Len(c) \in Nat /\ Len(b) \in Nat
        BY <1>1
      <4> QED
        BY <2>2, <4>1
    <3>2. r[k - 1] = s[k] /\ t[Len(c) + 1 + (k - 1)] = r[k - 1]
      BY <1>2, <1>4, <3>1
    <3> QED
      BY <3>1, <3>2
  <2> QED
    BY <2>1, <2>2
<1>6. Kept(c, a, d, t)
  BY <1>1, <1>3, <1>4 DEF Kept
<1>7. ASSUME NEW j \in 1..Len(d) PROVE FlowAt(body, d, t, j)
  <2>1. CASE j \in 1..Len(c)
    <3>1. FlowAt(body, c, a, j)
      BY <2>1 DEF Flow
    <3>2. d[j] = c[j] /\ t[j] = a[j] /\ t[j + 1] = a[j + 1]
      BY <1>1, <1>3, <1>4, <2>1
    <3>3. j > 1 => d[j - 1] = c[j - 1]
      BY <1>1, <1>3, <2>1
    <3>4. \A g \in 1..Len(c) + 1 : g \in 1..Len(d) + 1 /\ t[g] = a[g]
      BY <1>1, <1>3, <1>4
    <3> QED
      BY <3>1, <3>2, <3>3, <3>4 DEF FlowAt, Begins
  <2>2. CASE j \notin 1..Len(c)
    <3>1. PICK k \in 1..Len(b) : j = Len(c) + k
      <4>1. j - Len(c) \in 1..Len(b) /\ j = Len(c) + (j - Len(c))
        BY <1>1, <1>3, <2>2
      <4> QED
        BY <4>1
    <3>2. /\ b[k].op = "load" => b[k].arg \in s[k].bound
          /\ b[k].op \notin {"jump", "return"} => Leads(b[k], s[k], s[k + 1])
          /\ b[k].op = "return" => s[k].height > 0
          /\ b[k].op \in Jumps /\ b[k].arg # Nowhere =>
               \/ b[k].arg \in 1..Len(c) + 1 /\ Leads(b[k], s[k], a[b[k].arg])
               \/ \E m \in 1..Len(s) : b[k].arg = Len(c) + m /\ Leads(b[k], s[k], s[m])
          /\ Begins(body, b, k) => s[k].height = 0
      BY DEF Block
    <3>3. k \in 1..Len(s) /\ k + 1 \in 1..Len(s) /\ j + 1 = Len(c) + (k + 1)
      BY <1>1, <3>1
    <3>4. d[j] = b[k] /\ t[j] = s[k] /\ t[j + 1] = s[k + 1]
      BY <1>3, <1>5, <3>1, <3>3
    <3>5. Begins(body, d, j) => Begins(body, b, k)
      <4>1. CASE k = 1
        BY <3>4, <4>1 DEF Begins
      <4>2. CASE k # 1
        <5>1. k - 1 \in 1..Len(b) /\ j - 1 = Len(c) + (k - 1) /\ j > 1
          BY <1>1, <3>1, <4>2
        <5>2. d[j - 1] = b[k - 1]
          BY <1>3, <5>1
        <5> QED
          BY <3>4, <5>1, <5>2 DEF Begins
      <4> QED
        BY <4>1, <4>2
    <3>6. ASSUME b[k].op \in Jumps, b[k].arg # Nowhere
          PROVE  b[k].arg \in 1..Len(d) + 1 /\ Leads(b[k], s[k], t[b[k].arg])
      <4>1. CASE b[k].arg \in 1..Len(c) + 1 /\ Leads(b[k], s[k], a[b[k].arg])
        BY <1>1, <1>3, <1>4, <4>1
      <4>2. ASSUME NEW m \in 1..Len(s), b[k].arg = Len(c) + m, Leads(b[k], s[k], s[m])
            PROVE  b[k].arg \in 1..Len(d) + 1 /\ Leads(b[k], s[k], t[b[k].arg])
        BY <1>1, <1>3, <1>5, <4>2
      <4> QED
        BY <3>2, <3>6, <4>1, <4>2
    <3> QED
      BY <3>2, <3>4, <3>5, <3>6 DEF FlowAt
  <2> QED
    BY <2>1, <2>2
<1>8. FromNothing(t)
  <2>1. FromNothing(a) /\ 1 \in 1..Len(c) + 1
    BY <1>1 DEF Flow
  <2> QED
    BY <1>4, <2>1 DEF FromNothing
<1>9. Flow(body, d, t)
  BY <1>3, <1>4, <1>7, <1>8 DEF Flow
<1> QED
  BY <1>3, <1>5, <1>6, <1>9 DEF d

(* Giving jumps their addresses *)
LEMMA Resolve ==
  ASSUME NEW body, NEW c, NEW a, Flow(body, c, a), NEW d \in Seq(Instructions(body)),
         Len(d) = Len(c),
         \A j \in 1..Len(c) :
           /\ d[j].op = c[j].op /\ d[j].item = c[j].item
           /\ \/ d[j] = c[j]
              \/ /\ c[j].op \in Jumps
                 /\ d[j].arg \in 1..Len(c) + 1
                 /\ Leads(c[j], a[j], a[d[j].arg])
  PROVE  Flow(body, d, a) /\ Kept(c, a, d, a)
<1>1. /\ c \in Seq(Instructions(body)) /\ a \in Seq(States) /\ Len(a) = Len(c) + 1
      /\ Len(c) \in Nat
  BY DEF Flow
<1>2. ASSUME NEW j \in 1..Len(c) PROVE FlowAt(body, d, a, j)
  <2>1. FlowAt(body, c, a, j)
    BY DEF Flow
  <2>2. Begins(body, d, j) => Begins(body, c, j)
    <3>1. j > 1 => j - 1 \in 1..Len(c)
      BY <1>1
    <3>2. j > 1 => d[j - 1].item = c[j - 1].item
      BY <3>1
    <3> QED
      BY <3>2 DEF Begins
  <2>3. CASE d[j] = c[j]
    BY <2>1, <2>2, <2>3 DEF FlowAt
  <2>4. CASE /\ c[j].op \in Jumps
             /\ d[j].arg \in 1..Len(c) + 1
             /\ Leads(c[j], a[j], a[d[j].arg])
    <3>1. d[j].op = c[j].op
      OBVIOUS
    <3>2. \A t : Leads(c[j], a[j], t) => Leads(d[j], a[j], t)
      BY <2>4, <3>1, LeadsByOp
    <3>3. d[j].op # "load"
      BY <2>4, <3>1 DEF Jumps
    <3> QED
      BY <2>1, <2>2, <2>4, <3>1, <3>2, <3>3 DEF FlowAt
  <2> QED
    BY <2>3, <2>4
<1>3. Flow(body, d, a)
  <2>1. FromNothing(a)
    BY DEF Flow
  <2> QED
    BY <1>1, <1>2, <2>1 DEF Flow
<1>4. \A j \in 1..Len(c) : c[j].op \notin Jumps => d[j] = c[j]
  OBVIOUS
<1>5. Kept(c, a, d, a)
  BY <1>1, <1>4 DEF Kept
<1> QED
  BY <1>3, <1>5

(* Code that flows still does when jumps in it get the address of a place  *)
(* that was promised to them.                                              *)
LEMMA Patch ==
  ASSUME NEW body, NEW c, NEW a, Flow(body, c, a), NEW P, NEW t \in 1..Len(c) + 1,
         \A j \in P : Promised(c, a, j, a[t])
  PROVE  /\ Flow(body, Patched(c, P, t), a)
         /\ Kept(c, a, Patched(c, P, t), a)
         /\ Len(Patched(c, P, t)) = Len(c)
         /\ \A j \in P : Patched(c, P, t)[j].arg = t
         /\ \A j \in 1..Len(c) : j \notin P => Patched(c, P, t)[j] = c[j]
<1> DEFINE d == Patched(c, P, t)
<1>1. c \in Seq(Instructions(body)) /\ Len(c) \in Nat
  BY DEF Flow
<1>2. /\ Len(d) = Len(c) /\ d \in Seq(Instructions(body))
      /\ \A j \in 1..Len(c) : d[j] = IF j \in P THEN [c[j] EXCEPT !.arg = t] ELSE c[j]
  <2>1. \A j \in 1..Len(c) : c[j] \in Instructions(body)
    BY <1>1
  <2>2. \A j \in 1..Len(c) : [c[j] EXCEPT !.arg = t] \in Instructions(body)
    <3>1. t \in Nat
      BY <1>1
    <3> QED
      BY <2>1, <3>1 DEF Instructions
  <2>3. d = [j \in 1..Len(c) |-> IF j \in P THEN [c[j] EXCEPT !.arg = t] ELSE c[j]]
    BY DEF Patched
  <2>4. d \in [1..Len(c) -> Instructions(body)]
    BY <2>1, <2>2, <2>3
  <2> HIDE DEF d
  <2> QED
    BY <1>1, <2>3, <2>4
<1> HIDE DEF d
<1>3. \A j \in 1..Len(c) : c[j] \in Instructions(body)
  BY <1>1
<1>4. \A j \in 1..Len(c) : j \in P =>
        d[j].op = c[j].op /\ d[j].item = c[j].item /\ d[j].arg = t
  BY <1>2, <1>3 DEF Instructions
<1>5. P \subseteq 1..Len(c)
  BY DEF Promised
<1>6. Flow(body, d, a) /\ Kept(c, a, d, a)
  BY <1>2, <1>4, <1>5, Resolve DEF Promised
<1> QED
  BY <1>2, <1>4, <1>5, <1>6 DEF d

Pushed(x, s) == <<x>> \o s

Splits(s, x, r) == x = Head(s) /\ r = Tail(s)

(* An item, and where it stands. *)
Kind(body, i) == body[i].kind
Open(body, i) == Nesting(body)[i].open
Loops(body, i) == Nesting(body)[i].loops
Operands(body, i) == Nesting(body)[i].operands
Part(body, i) == Nesting(body)[i].part

-----------------------------------------------------------------------------
(* What the item at hand says about the one after it *)

NotLast(body, i) == i \in 1..Len(body) /\ body[i].kind # "finish"

(* Every item but the last one moves on to the next. *)
LEMMA Onwards ==
  ASSUME NEW body, Body(body), NEW i, NotLast(body, i), NEW n, n = Nesting(body)
  PROVE  /\ i \in 1..Len(body) - 1 /\ i \in 1..Len(body) /\ i + 1 \in 1..Len(body)
         /\ i \in Nat
         /\ n[i] = [open |-> n[i].open, loops |-> n[i].loops,
                    operands |-> n[i].operands, part |-> n[i].part]
         /\ MovesOperands(body, n, i) \/ MovesBranch(body, n, i) \/ MovesLoop(body, n, i)
<1>1. Len(body) \in Nat \ {0} /\ i \in 1..Len(body) /\ body[Len(body)].kind = "finish"
  BY DEF Body, WellNested, Moves, NotLast
<1>2. i # Len(body)
  BY <1>1 DEF NotLast
<1>3. i \in 1..Len(body) - 1 /\ i + 1 \in 1..Len(body) /\ i \in Nat
  BY <1>1, <1>2
<1>4. n[i] \in Contexts
  BY <1>1, NestingTyped
<1> QED
  BY <1>1, <1>3, <1>4 DEF Body, WellNested, Moves, Contexts

(* The numbers of an item that is not the last and of the next one. *)
LEMMA Forward ==
  ASSUME NEW body, Body(body), NEW i, NotLast(body, i)
  PROVE  /\ i \in 1..Len(body) - 1 /\ i \in 1..Len(body) /\ i + 1 \in 1..Len(body)
         /\ i \in Nat /\ i + 1 \in Nat /\ i < i + 1 /\ i <= i + 1
<1> DEFINE n == Nesting(body)
<1>1. i \in 1..Len(body) - 1 /\ i \in 1..Len(body) /\ i + 1 \in 1..Len(body) /\ i \in Nat
  BY Onwards
<1> QED
  BY <1>1

(* Which of the three kinds of moves an item makes, by its kind. *)
LEMMA MovesBy ==
  ASSUME NEW body, Body(body), NEW i, NotLast(body, i), NEW n, n = Nesting(body)
  PROVE  /\ n[i] = [open |-> n[i].open, loops |-> n[i].loops,
                    operands |-> n[i].operands, part |-> n[i].part]
         /\ n[i].operands \in Nat
         /\ body[i].kind \in {"operand", "unsupported", "apply", "call", "main", "drop", "return"} =>
              MovesOperands(body, n, i)
         /\ body[i].kind \in {"if", "and", "or", "else", "endif", "endand", "endor"} =>
              MovesBranch(body, n, i)
         /\ body[i].kind \in {"loop", "do", "foreach", "each", "next", "end", "endeach", "break",
                              "continue", "label", "goto"} => MovesLoop(body, n, i)
<1>1. MovesOperands(body, n, i) \/ MovesBranch(body, n, i) \/ MovesLoop(body, n, i)
  BY Onwards
<1>2. MovesOperands(body, n, i) =>
        body[i].kind \in {"operand", "unsupported", "apply", "call", "main", "drop", "return"}
  BY DEF MovesOperands
<1>3. MovesBranch(body, n, i) =>
        body[i].kind \in {"if", "and", "or", "else", "endif", "endand", "endor"}
  BY DEF MovesBranch
<1>4. MovesLoop(body, n, i) =>
        body[i].kind \in {"loop", "do", "foreach", "each", "next", "end", "endeach", "break",
                         "continue", "label", "goto"}
  BY DEF MovesLoop
<1>5. n[i].operands \in Nat
  BY Onwards, NestingTyped
<1> QED
  BY <1>1, <1>2, <1>3, <1>4, <1>5, Onwards

(* What each kind of item asks of the context it stands in and leaves to   *)
(* the next item: operands, operators and statements.                      *)
LEMMA MoveSimple ==
  ASSUME NEW body, Body(body), NEW i, NotLast(body, i),
         Kind(body, i) \in {"operand", "unsupported", "apply", "call", "main", "drop", "return"}
  PROVE  /\ Open(body, i + 1) = Open(body, i)
         /\ Loops(body, i + 1) = Loops(body, i)
         /\ Part(body, i + 1) = Part(body, i)
         /\ Kind(body, i) \in {"operand", "unsupported"} => Operands(body, i + 1) = Operands(body, i) + 1
         /\ Kind(body, i) \in {"apply", "call", "main"} =>
              Operands(body, i + 1) = Operands(body, i) - body[i].arity + 1
         /\ Kind(body, i) \in {"drop", "return"} =>
              Operands(body, i + 1) = Operands(body, i) - body[i].arity
         /\ Kind(body, i) \in {"apply", "call", "main", "drop", "return"} =>
              body[i].arity <= Operands(body, i)
         /\ Kind(body, i) = "return" => body[i].arity = 1
<1> DEFINE n == Nesting(body)
<1>1. /\ MovesOperands(body, n, i)
      /\ n[i].operands \in Nat
      /\ n[i] = [open |-> n[i].open, loops |-> n[i].loops,
                 operands |-> n[i].operands, part |-> n[i].part]
  BY MovesBy DEF Kind
<1> QED
  BY <1>1 DEF MovesOperands, Kind, Open, Loops, Operands, Part

(* The condition of an if, an "and" or an "or". *)
LEMMA MoveTest ==
  ASSUME NEW body, Body(body), NEW i, NotLast(body, i),
         Kind(body, i) \in {"if", "and", "or"}
  PROVE  /\ Operands(body, i) > 0
         /\ Open(body, i + 1) = Pushed(i, Open(body, i))
         /\ Loops(body, i + 1) = Loops(body, i)
         /\ Part(body, i + 1) = Part(body, i)
         /\ Operands(body, i + 1) = Operands(body, i) - 1
<1> DEFINE n == Nesting(body)
<1>1. /\ MovesBranch(body, n, i)
      /\ n[i].operands \in Nat
      /\ n[i] = [open |-> n[i].open, loops |-> n[i].loops,
                 operands |-> n[i].operands, part |-> n[i].part]
  BY MovesBy DEF Kind
<1> QED
  BY <1>1 DEF Pushed, MovesBranch, Kind, Open, Loops, Operands, Part

(* The else of an if. *)
LEMMA MoveElse ==
  ASSUME NEW body, Body(body), NEW i, NotLast(body, i),
         Kind(body, i) = "else",
         NEW p, NEW K, Splits(Open(body, i), p, K)
  PROVE  /\ Open(body, i) # <<>>
         /\ Kind(body, p) = "if"
         /\ Loops(body, p) = Loops(body, i)
         /\ Open(body, i + 1) = Pushed(i, K)
         /\ Loops(body, i + 1) = Loops(body, i)
         /\ Part(body, i + 1) = Part(body, i)
         /\ Operands(body, i + 1) = Operands(body, p) - 1
<1> DEFINE n == Nesting(body)
<1>1. /\ MovesBranch(body, n, i)
      /\ n[i].operands \in Nat
      /\ n[i] = [open |-> n[i].open, loops |-> n[i].loops,
                 operands |-> n[i].operands, part |-> n[i].part]
  BY MovesBy DEF Kind
<1> QED
  BY <1>1 DEF Pushed, Splits, MovesBranch, Continues, Kind, Open, Loops, Operands, Part

(* The end of an if, an "and" or an "or". *)
LEMMA MoveClose ==
  ASSUME NEW body, Body(body), NEW i, NotLast(body, i),
         Kind(body, i) \in {"endif", "endand", "endor"},
         NEW p, NEW K, Splits(Open(body, i), p, K)
  PROVE  /\ Open(body, i) # <<>>
         /\ Kind(body, i) = "endif" => Kind(body, p) = "else"
         /\ Kind(body, i) = "endand" => Kind(body, p) = "and"
         /\ Kind(body, i) = "endor" => Kind(body, p) = "or"
         /\ Loops(body, p) = Loops(body, i)
         /\ Operands(body, p) = Operands(body, i)
         /\ Open(body, i + 1) = K
         /\ Loops(body, i + 1) = Loops(body, i)
         /\ Part(body, i + 1) = Part(body, i)
         /\ Operands(body, i + 1) = Operands(body, i)
<1> DEFINE n == Nesting(body)
<1>1. MovesBranch(body, n, i) /\ n[i] = [open |-> n[i].open, loops |-> n[i].loops,
                    operands |-> n[i].operands, part |-> n[i].part]
  BY MovesBy DEF Kind
<1> QED
  BY <1>1 DEF Pushed, Splits, MovesBranch, Continues, Kind, Open, Loops, Operands, Part

(* The begin of a while or a for. *)
LEMMA MoveLoop ==
  ASSUME NEW body, Body(body), NEW i, NotLast(body, i),
         Kind(body, i) = "loop"
  PROVE  /\ Operands(body, i) = 0
         /\ Open(body, i + 1) = Pushed(i, Open(body, i))
         /\ Loops(body, i + 1) = Loops(body, i)
         /\ Part(body, i + 1) = Part(body, i)
         /\ Operands(body, i + 1) = 0
<1> DEFINE n == Nesting(body)
<1>1. /\ MovesLoop(body, n, i)
      /\ n[i].operands \in Nat
      /\ n[i] = [open |-> n[i].open, loops |-> n[i].loops,
                 operands |-> n[i].operands, part |-> n[i].part]
  BY MovesBy DEF Kind
<1> QED
  BY <1>1 DEF Pushed, MovesLoop, Kind, Open, Loops, Operands, Part

(* Its condition. *)
LEMMA MoveDo ==
  ASSUME NEW body, Body(body), NEW i, NotLast(body, i),
         Kind(body, i) = "do",
         NEW p, NEW K, Splits(Open(body, i), p, K)
  PROVE  /\ Operands(body, i) = 1
         /\ Part(body, i) = "body"
         /\ Open(body, i) # <<>>
         /\ Kind(body, p) = "loop"
         /\ Loops(body, p) = Loops(body, i)
         /\ Open(body, i + 1) = Pushed(i, K)
         /\ Loops(body, i + 1) = Pushed(i, Loops(body, i))
         /\ Part(body, i + 1) = "body"
         /\ Operands(body, i + 1) = 0
<1> DEFINE n == Nesting(body)
<1>1. /\ MovesLoop(body, n, i)
      /\ n[i].operands \in Nat
      /\ n[i] = [open |-> n[i].open, loops |-> n[i].loops,
                 operands |-> n[i].operands, part |-> n[i].part]
  BY MovesBy DEF Kind
<1> QED
  BY <1>1 DEF Pushed, Splits, MovesLoop, Continues, Kind, Open, Loops, Operands, Part

(* A foreach, whose head is the next item. *)
LEMMA MoveForeach ==
  ASSUME NEW body, Body(body), NEW i, NotLast(body, i), Kind(body, i) = "foreach"
  PROVE  /\ Operands(body, i) = 1
         /\ Part(body, i) = "body"
         /\ NotLast(body, i + 1)
         /\ Kind(body, i + 1) = "each"
         /\ Open(body, i + 1) = Open(body, i)
         /\ Loops(body, i + 1) = Loops(body, i)
         /\ Part(body, i + 1) = "body"
         /\ Operands(body, i + 1) = 0
<1> DEFINE n == Nesting(body)
<1>1. /\ MovesLoop(body, n, i)
      /\ n[i].operands \in Nat
      /\ n[i] = [open |-> n[i].open, loops |-> n[i].loops,
                 operands |-> n[i].operands, part |-> n[i].part]
  BY MovesBy DEF Kind
<1>2. /\ n[i].operands = 1
      /\ n[i].part = "body"
      /\ body[i + 1].kind = "each"
      /\ n[i + 1] = [open |-> n[i].open, loops |-> n[i].loops, operands |-> 0, part |-> "body"]
  BY <1>1 DEF Kind, MovesLoop
<1>3. NotLast(body, i + 1)
  BY <1>2, Onwards DEF NotLast
<1> QED
  BY <1>2, <1>3 DEF Kind, Open, Loops, Operands, Part

(* The head of a foreach. *)
LEMMA MoveEach ==
  ASSUME NEW body, Body(body), NEW i, NotLast(body, i), Kind(body, i) = "each"
  PROVE  /\ Open(body, i + 1) = Pushed(i, Open(body, i))
         /\ Loops(body, i + 1) = Pushed(i, Loops(body, i))
         /\ Part(body, i + 1) = Part(body, i)
         /\ Operands(body, i + 1) = 0
<1> DEFINE n == Nesting(body)
<1>1. /\ MovesLoop(body, n, i)
      /\ n[i].operands \in Nat
      /\ n[i] = [open |-> n[i].open, loops |-> n[i].loops,
                 operands |-> n[i].operands, part |-> n[i].part]
  BY MovesBy DEF Kind
<1> QED
  BY <1>1 DEF Pushed, MovesLoop, Kind, Open, Loops, Operands, Part

(* The begin of an increment. *)
LEMMA MoveNext ==
  ASSUME NEW body, Body(body), NEW i, NotLast(body, i),
         Kind(body, i) = "next"
  PROVE  /\ Operands(body, i) = 0
         /\ Loops(body, i) # <<>>
         /\ Open(body, i + 1) = Open(body, i)
         /\ Loops(body, i + 1) = Loops(body, i)
         /\ Part(body, i + 1) = "step"
         /\ Operands(body, i + 1) = 0
<1> DEFINE n == Nesting(body)
<1>1. /\ MovesLoop(body, n, i)
      /\ n[i].operands \in Nat
      /\ n[i] = [open |-> n[i].open, loops |-> n[i].loops,
                 operands |-> n[i].operands, part |-> n[i].part]
  BY MovesBy DEF Kind
<1> QED
  BY <1>1 DEF Pushed, MovesLoop, ContinuesLoop, Kind, Open, Loops, Operands, Part

(* The end of a loop. *)
LEMMA MoveEnd ==
  ASSUME NEW body, Body(body), NEW i, NotLast(body, i),
         Kind(body, i) \in Ends,
         NEW p, NEW K, Splits(Open(body, i), p, K), NEW h, NEW L, Splits(Loops(body, i), h, L)
  PROVE  /\ Operands(body, i) = 0
         /\ Part(body, i) = "step"
         /\ Open(body, i) # <<>>
         /\ Loops(body, i) # <<>>
         /\ p = h
         /\ Kind(body, p) = IF Kind(body, i) = "end" THEN "do" ELSE "each"
         /\ Open(body, i + 1) = K
         /\ Loops(body, i + 1) = L
         /\ Part(body, i + 1) = "body"
         /\ Operands(body, i + 1) = 0
<1> DEFINE n == Nesting(body)
<1>1. MovesLoop(body, n, i) /\ n[i] = [open |-> n[i].open, loops |-> n[i].loops,
                    operands |-> n[i].operands, part |-> n[i].part]
  BY MovesBy DEF Ends, Kind
<1> QED
  BY <1>1 DEF Pushed, Splits, MovesLoop, ContinuesLoop, Ends, Kind, Open, Loops, Operands, Part

(* A break, continue, label or goto. *)
LEMMA MoveJump ==
  ASSUME NEW body, Body(body), NEW i, NotLast(body, i),
         Kind(body, i) \in {"break", "continue", "label", "goto"}
  PROVE  /\ Operands(body, i) = 0
         /\ Part(body, i) = "body"
         /\ Open(body, i + 1) = Open(body, i)
         /\ Loops(body, i + 1) = Loops(body, i)
         /\ Part(body, i + 1) = Part(body, i)
         /\ Operands(body, i + 1) = Operands(body, i)
<1> DEFINE n == Nesting(body)
<1>1. /\ MovesLoop(body, n, i)
      /\ n[i].operands \in Nat
      /\ n[i] = [open |-> n[i].open, loops |-> n[i].loops,
                 operands |-> n[i].operands, part |-> n[i].part]
  BY MovesBy DEF Kind
<1> QED
  BY <1>1 DEF Pushed, MovesLoop, Kind, Open, Loops, Operands, Part

-----------------------------------------------------------------------------
(* The compiler's memory of a body *)

(* The temporaries of the foreach loops among these: T gives the first of  *)
(* each one's two.                                                         *)
TempsOf(body, T, L) ==
  {t \in Nat : \E h \in Members(L) : Kind(body, h) = "each" /\ (t = T[h] \/ t = T[h] + 1)}

State(body, T, height, L) == [height |-> height, bound |-> TempsOf(body, T, L)]

FrameRecords == [start : Nat, jump : Nat, array : Nat, index : Nat]

(* What the compiler's locals hold for a construct whose last item was p.  *)
FrameHolds(body, c, a, T, p, f) ==
  /\ Kind(body, p) \in {"if", "and"} =>
       Promised(c, a, f.jump, State(body, T, Operands(body, p) - 1, Loops(body, p)))
  /\ Kind(body, p) \in {"else", "or"} =>
       Promised(c, a, f.jump, State(body, T, Operands(body, p), Loops(body, p)))
  /\ Kind(body, p) \in {"loop", "do", "each"} => f.start \in 1..Len(c) + 1
  /\ Kind(body, p) \in {"loop", "do"} => a[f.start] = State(body, T, 0, Loops(body, p))
  /\ Kind(body, p) = "loop" => f.jump = Nowhere
  /\ Kind(body, p) \in {"do", "each"} =>
       Promised(c, a, f.jump, State(body, T, 0, Loops(body, p)))
  /\ Kind(body, p) = "each" =>
       /\ a[f.start] = State(body, T, 0, Pushed(p, Loops(body, p)))
       /\ f.array = T[p]
       /\ f.index = T[p] + 1

Frames(body, c, a, T, O, N) ==
  /\ N \in Seq(FrameRecords)
  /\ Len(N) = Len(O)
  /\ \A k \in 1..Len(N) : FrameHolds(body, c, a, T, O[k], N[k])

ScopeRecords == [breaks : SUBSET Nat, continues : SUBSET Nat]

(* A break leaves the loop with head h, a continue is still in it. *)
ScopeHolds(body, c, a, T, h, l) ==
  /\ \A j \in l.breaks : Promised(c, a, j, State(body, T, 0, Loops(body, h)))
  /\ \A j \in l.continues : Promised(c, a, j, State(body, T, 0, Pushed(h, Loops(body, h))))

Scopes(body, c, a, T, L, S) ==
  /\ S \in Seq(ScopeRecords)
  /\ Len(S) = Len(L)
  /\ \A k \in 1..Len(S) : ScopeHolds(body, c, a, T, L[k], S[k])

LabelHolds(body, c, a, T, i, r) ==
  /\ r.target \in 1..Len(c) + 1
  /\ \E l \in 1..i - 1 :
       /\ Kind(body, l) = "label" /\ body[l].node = r.label
       /\ a[r.target] = State(body, T, 0, Loops(body, l))

Labels(body, c, a, T, i, R) ==
  /\ R \in Seq([label : Nodes, target : Nat])
  /\ \A k \in 1..Len(R) : LabelHolds(body, c, a, T, i, R[k])
  /\ \A l \in 1..i - 1 : Kind(body, l) = "label" => \E k \in 1..Len(R) : R[k].label = body[l].node

GotoHolds(body, c, a, T, i, r) ==
  /\ r.jump \in 1..Len(c)
  /\ c[r.jump].op = "jump"
  /\ \E g \in 1..i - 1 :
       /\ Kind(body, g) = "goto" /\ body[g].node = r.label
       /\ a[r.jump] = State(body, T, 0, Loops(body, g))

Gotos(body, c, a, T, i, R) ==
  /\ R \in Seq([label : Nodes, jump : Nat])
  /\ \A k \in 1..Len(R) : GotoHolds(body, c, a, T, i, R[k])

(* Jumps without an address, and those something remembers. *)
Unresolved(c) == {j \in 1..Len(c) : c[j].op \in Jumps /\ c[j].arg = Nowhere}

JumpsOf(N) == {N[k].jump : k \in 1..Len(N)}
BreaksOf(S) == UNION {S[k].breaks : k \in 1..Len(S)}
ContinuesOf(S) == UNION {S[k].continues : k \in 1..Len(S)}

Remembered(N, S, P, part) ==
  JumpsOf(N) \cup BreaksOf(S) \cup JumpsOf(P)
    \cup IF part = "body" THEN ContinuesOf(S) ELSE ContinuesOf(Tail(S))

(* Each foreach names two temporaries of its own, between those counters.   *)
Apart(c, low, high) ==
  /\ low <= high
  /\ \A j \in 1..Len(c) : c[j].op = "define" => low <= c[j].arg /\ c[j].arg < high
  /\ \A j, k \in 1..Len(c) :
       c[j].op = "define" /\ c[k].op = "define" /\ c[j].arg = c[k].arg => j = k

(* T[0] is what the counter was when the body was begun. *)
Base(T) == T[0]

Named(body, c, T, i, tc) ==
  /\ T \in [Nat -> Nat]
  /\ tc \in Nat
  /\ \A h \in 1..i - 1 : Kind(body, h) = "each" => T[h] + 1 < tc
  /\ \A j \in 1..Len(c) : c[j].op \in {"define", "load", "store"} => c[j].arg < tc
  /\ Apart(c, T[0], tc)

(* Instructions come from the items before this one; main is called for    *)
(* the items that do.                                                      *)
Sources(body, c, i) ==
  \A j \in 1..Len(c) : c[j].item < i /\ (c[j].op = "main" => body[c[j].item].kind = "main")

BodyInv(body, i, c, N, S, R, P, tc, a, T) ==
  /\ Body(body)
  /\ i \in 1..Len(body)
  /\ Flow(body, c, a)
  /\ a[Len(c) + 1] = State(body, T, Operands(body, i), Loops(body, i))
  /\ Frames(body, c, a, T, Open(body, i), N)
  /\ Scopes(body, c, a, T, Loops(body, i), S)
  /\ Labels(body, c, a, T, i, R)
  /\ Gotos(body, c, a, T, i, P)
  /\ Unresolved(c) \subseteq Remembered(N, S, P, Part(body, i))
  /\ Named(body, c, T, i, tc)
  /\ Sources(body, c, i)

-----------------------------------------------------------------------------
(* How the compiler's memory lasts *)

(* What the compiler remembers of the open constructs stays true when the  *)
(* code grows or is patched, when a construct is entered, and when one is  *)
(* left.                                                                   *)
LEMMA FramesKept ==
  ASSUME NEW body, NEW c, NEW a, NEW d, NEW b, Kept(c, a, d, b),
         NEW T, NEW O, NEW N, Frames(body, c, a, T, O, N)
  PROVE  Frames(body, d, b, T, O, N)
<1> SUFFICES ASSUME NEW k \in 1..Len(N)
             PROVE  FrameHolds(body, d, b, T, O[k], N[k])
  BY DEF Frames
<1> DEFINE f == N[k]
           p == O[k]
<1>1. FrameHolds(body, c, a, T, p, f)
  BY DEF Frames
<1>2. \A t : Promised(c, a, f.jump, t) => Promised(d, b, f.jump, t)
  BY KeptPromise
<1>3. f.start \in 1..Len(c) + 1 => f.start \in 1..Len(d) + 1 /\ b[f.start] = a[f.start]
  BY DEF Kept
<1> HIDE DEF f, p
<1> QED
  BY <1>1, <1>2, <1>3 DEF FrameHolds, f, p

LEMMA FramesPush ==
  ASSUME NEW body, NEW c, NEW a, NEW T, NEW O, NEW N,
         Frames(body, c, a, T, O, N), O \in Seq(Nat),
         NEW p \in Nat, NEW f \in FrameRecords, FrameHolds(body, c, a, T, p, f)
  PROVE  Frames(body, c, a, T, Pushed(p, O), Pushed(f, N))
<1> DEFINE O2 == Pushed(p, O)
           N2 == Pushed(f, N)
<1>1. N \in Seq(FrameRecords) /\ Len(N) = Len(O) /\ Len(N) \in Nat
  BY DEF Frames
<1>2. /\ N2 \in Seq(FrameRecords) /\ Len(N2) = Len(N) + 1 /\ N2[1] = f
      /\ \A k \in 1..Len(N) + 1 : k = 1 \/ N2[k] = N[k - 1]
  BY <1>1, Push DEF Pushed
<1>3. /\ Len(O2) = Len(O) + 1 /\ O2[1] = p
      /\ \A k \in 1..Len(O) + 1 : k = 1 \/ O2[k] = O[k - 1]
  BY Push DEF Pushed
<1> HIDE DEF O2, N2
<1>4. ASSUME NEW k \in 1..Len(N2) PROVE FrameHolds(body, c, a, T, O2[k], N2[k])
  <2>1. CASE k = 1
    BY <1>2, <1>3, <2>1
  <2>2. CASE k # 1
    <3>1. k - 1 \in 1..Len(N) /\ k \in 1..Len(N) + 1
      BY <1>1, <1>2, <2>2
    <3>2. N2[k] = N[k - 1] /\ O2[k] = O[k - 1]
      BY <1>1, <1>2, <1>3, <2>2, <3>1
    <3> QED
      BY <3>1, <3>2 DEF Frames
  <2> QED
    BY <2>1, <2>2
<1> QED
  BY <1>1, <1>2, <1>3, <1>4 DEF Frames, O2, N2

LEMMA FramesPop ==
  ASSUME NEW body, NEW c, NEW a, NEW T, NEW O, NEW N,
         Frames(body, c, a, T, O, N), O \in Seq(Nat), O # <<>>
  PROVE  /\ N # <<>>
         /\ Head(N) \in FrameRecords
         /\ FrameHolds(body, c, a, T, Head(O), Head(N))
         /\ Tail(O) \in Seq(Nat)
         /\ Tail(N) \in Seq(FrameRecords)
         /\ N = Pushed(Head(N), Tail(N))
         /\ Frames(body, c, a, T, Tail(O), Tail(N))
<1>1. N \in Seq(FrameRecords) /\ Len(N) = Len(O) /\ Len(N) \in Nat /\ N # <<>>
  <2>1. N \in Seq(FrameRecords) /\ Len(N) = Len(O) /\ Len(N) \in Nat
    BY DEF Frames
  <2>2. Len(O) # 0
    OBVIOUS
  <2> QED
    BY <2>1, <2>2
<1>2. /\ Head(N) = N[1] /\ N[1] \in FrameRecords /\ Tail(N) \in Seq(FrameRecords)
      /\ Len(Tail(N)) = Len(N) - 1
      /\ \A k \in 1..Len(N) - 1 : Tail(N)[k] = N[k + 1]
  BY <1>1, Pop
<1>3. /\ Head(O) = O[1] /\ Tail(O) \in Seq(Nat) /\ Len(Tail(O)) = Len(O) - 1
      /\ \A k \in 1..Len(O) - 1 : Tail(O)[k] = O[k + 1]
  BY Pop
<1>4. 1 \in 1..Len(N)
  BY <1>1
<1>5. FrameHolds(body, c, a, T, O[1], N[1])
  BY <1>4 DEF Frames
<1>6. ASSUME NEW k \in 1..Len(Tail(N)) PROVE FrameHolds(body, c, a, T, Tail(O)[k], Tail(N)[k])
  <2>1. k + 1 \in 1..Len(N) /\ k \in 1..Len(N) - 1
    BY <1>1, <1>2
  <2>2. Tail(N)[k] = N[k + 1] /\ Tail(O)[k] = O[k + 1]
    BY <1>1, <1>2, <1>3, <2>1
  <2> QED
    BY <2>1, <2>2 DEF Frames
<1>7. N = Pushed(Head(N), Tail(N))
  BY <1>1 DEF Pushed
<1> QED
  BY <1>1, <1>2, <1>3, <1>5, <1>6, <1>7 DEF Frames

LEMMA FramesSplit ==
  ASSUME NEW body, NEW c, NEW a, NEW T, NEW O, NEW N,
         Frames(body, c, a, T, O, N), O \in Seq(Nat), O # <<>>,
         NEW p, NEW K, Splits(O, p, K), NEW g, NEW M, Splits(N, g, M)
  PROVE  /\ FrameHolds(body, c, a, T, p, g)
         /\ g \in FrameRecords
         /\ K \in Seq(Nat)
         /\ M \in Seq(FrameRecords)
         /\ N = Pushed(g, M)
         /\ Frames(body, c, a, T, K, M)
<1>1. p = Head(O) /\ K = Tail(O) /\ g = Head(N) /\ M = Tail(N)
  BY DEF Splits
<1> QED
  BY <1>1, FramesPop

(* The same of the loops and the jumps they wait with. *)
LEMMA ScopesKept ==
  ASSUME NEW body, NEW c, NEW a, NEW d, NEW b, Kept(c, a, d, b),
         NEW T, NEW L, NEW S, Scopes(body, c, a, T, L, S)
  PROVE  Scopes(body, d, b, T, L, S)
<1> SUFFICES ASSUME NEW k \in 1..Len(S)
             PROVE  ScopeHolds(body, d, b, T, L[k], S[k])
  BY DEF Scopes
<1>1. ScopeHolds(body, c, a, T, L[k], S[k])
  BY DEF Scopes
<1>2. \A j, t : Promised(c, a, j, t) => Promised(d, b, j, t)
  BY KeptPromise
<1> QED
  BY <1>1, <1>2 DEF ScopeHolds

LEMMA ScopesPush ==
  ASSUME NEW body, NEW c, NEW a, NEW T, NEW L, NEW S,
         Scopes(body, c, a, T, L, S), L \in Seq(Nat),
         NEW h \in Nat, NEW l \in ScopeRecords, ScopeHolds(body, c, a, T, h, l)
  PROVE  Scopes(body, c, a, T, Pushed(h, L), Pushed(l, S))
<1> DEFINE L2 == Pushed(h, L)
           S2 == Pushed(l, S)
<1>1. S \in Seq(ScopeRecords) /\ Len(S) = Len(L) /\ Len(S) \in Nat
  BY DEF Scopes
<1>2. /\ S2 \in Seq(ScopeRecords) /\ Len(S2) = Len(S) + 1 /\ S2[1] = l
      /\ \A k \in 1..Len(S) + 1 : k = 1 \/ S2[k] = S[k - 1]
  BY <1>1, Push DEF Pushed
<1>3. /\ Len(L2) = Len(L) + 1 /\ L2[1] = h
      /\ \A k \in 1..Len(L) + 1 : k = 1 \/ L2[k] = L[k - 1]
  BY Push DEF Pushed
<1> HIDE DEF L2, S2
<1>4. ASSUME NEW k \in 1..Len(S2) PROVE ScopeHolds(body, c, a, T, L2[k], S2[k])
  <2>1. CASE k = 1
    BY <1>2, <1>3, <2>1
  <2>2. CASE k # 1
    <3>1. k - 1 \in 1..Len(S) /\ k \in 1..Len(S) + 1
      BY <1>1, <1>2, <2>2
    <3>2. S2[k] = S[k - 1] /\ L2[k] = L[k - 1]
      BY <1>1, <1>2, <1>3, <2>2, <3>1
    <3> QED
      BY <3>1, <3>2 DEF Scopes
  <2> QED
    BY <2>1, <2>2
<1> QED
  BY <1>1, <1>2, <1>3, <1>4 DEF Scopes, L2, S2

LEMMA ScopesPop ==
  ASSUME NEW body, NEW c, NEW a, NEW T, NEW L, NEW S,
         Scopes(body, c, a, T, L, S), L \in Seq(Nat), L # <<>>
  PROVE  /\ S # <<>>
         /\ S \in Seq(ScopeRecords)
         /\ S[1] \in ScopeRecords
         /\ ScopeHolds(body, c, a, T, L[1], S[1])
         /\ S = Pushed(S[1], Tail(S))
         /\ Tail(S) = SubSeq(S, 2, Len(S))
         /\ Tail(S) \in Seq(ScopeRecords)
         /\ Scopes(body, c, a, T, Tail(L), Tail(S))
<1>1. S \in Seq(ScopeRecords) /\ Len(S) = Len(L) /\ Len(S) \in Nat /\ S # <<>>
  <2>1. S \in Seq(ScopeRecords) /\ Len(S) = Len(L) /\ Len(S) \in Nat
    BY DEF Scopes
  <2>2. Len(L) # 0
    OBVIOUS
  <2> QED
    BY <2>1, <2>2
<1>2. /\ S[1] \in ScopeRecords /\ Tail(S) \in Seq(ScopeRecords)
      /\ Len(Tail(S)) = Len(S) - 1
      /\ \A k \in 1..Len(S) - 1 : Tail(S)[k] = S[k + 1]
  BY <1>1, Pop
<1>3. /\ Tail(L) \in Seq(Nat) /\ Len(Tail(L)) = Len(L) - 1
      /\ \A k \in 1..Len(L) - 1 : Tail(L)[k] = L[k + 1]
  BY Pop
<1>4. 1 \in 1..Len(S)
  BY <1>1
<1>5. ScopeHolds(body, c, a, T, L[1], S[1])
  BY <1>4 DEF Scopes
<1>6. ASSUME NEW k \in 1..Len(Tail(S)) PROVE ScopeHolds(body, c, a, T, Tail(L)[k], Tail(S)[k])
  <2>1. k + 1 \in 1..Len(S) /\ k \in 1..Len(S) - 1
    BY <1>1, <1>2
  <2>2. Tail(S)[k] = S[k + 1] /\ Tail(L)[k] = L[k + 1]
    BY <1>1, <1>2, <1>3, <2>1
  <2> QED
    BY <2>1, <2>2 DEF Scopes
<1>7. S = Pushed(S[1], Tail(S)) /\ Tail(S) = SubSeq(S, 2, Len(S))
  BY <1>1, TailIsSubSeq DEF Pushed
<1> QED
  BY <1>1, <1>2, <1>3, <1>5, <1>6, <1>7 DEF Scopes

(* The same of the labels. *)
LEMMA LabelsKept ==
  ASSUME NEW body, NEW c, NEW a, NEW d, NEW b, Kept(c, a, d, b),
         NEW T, NEW i \in Nat, NEW m \in Nat, i <= m, NEW R, Labels(body, c, a, T, i, R),
         \A l \in i..m - 1 : Kind(body, l) # "label"
  PROVE  Labels(body, d, b, T, m, R)
<1>1. ASSUME NEW k \in 1..Len(R) PROVE LabelHolds(body, d, b, T, m, R[k])
  <2>1. LabelHolds(body, c, a, T, i, R[k])
    BY DEF Labels
  <2>2. R[k].target \in 1..Len(d) + 1 /\ b[R[k].target] = a[R[k].target]
    BY <2>1 DEF LabelHolds, Kept
  <2>3. 1..i - 1 \subseteq 1..m - 1
    OBVIOUS
  <2> QED
    BY <2>1, <2>2, <2>3 DEF LabelHolds
<1>2. \A l \in 1..m - 1 : l \in 1..i - 1 \/ l \in i..m - 1
  OBVIOUS
<1> QED
  BY <1>1, <1>2 DEF Labels

(* The same of the gotos that wait. *)
LEMMA GotosKept ==
  ASSUME NEW body, NEW c, NEW a, NEW d, NEW b, Kept(c, a, d, b),
         NEW T, NEW i \in Nat, NEW m \in Nat, i <= m, NEW R, Gotos(body, c, a, T, i, R)
  PROVE  Gotos(body, d, b, T, m, R)
<1>1. ASSUME NEW k \in 1..Len(R) PROVE GotoHolds(body, d, b, T, m, R[k])
  <2>1. GotoHolds(body, c, a, T, i, R[k])
    BY DEF Gotos
  <2>2. /\ R[k].jump \in 1..Len(d) /\ b[R[k].jump] = a[R[k].jump]
        /\ d[R[k].jump].op = c[R[k].jump].op
    <3>1. R[k].jump \in 1..Len(c)
      BY <2>1 DEF GotoHolds
    <3>2. R[k].jump \in 1..Len(c) + 1 /\ R[k].jump \in 1..Len(d)
      BY <3>1 DEF Kept
    <3> QED
      BY <3>1, <3>2 DEF Kept
  <2>3. 1..i - 1 \subseteq 1..m - 1
    OBVIOUS
  <2> QED
    BY <2>1, <2>2, <2>3 DEF GotoHolds
<1> QED
  BY <1>1 DEF Gotos

-----------------------------------------------------------------------------
(* Jumps that wait *)

(* Which jumps are remembered once a construct, a loop or a goto more is. *)
LEMMA JumpsPush ==
  ASSUME NEW S, NEW N \in Seq(S), NEW f \in S
  PROVE  JumpsOf(Pushed(f, N)) = JumpsOf(N) \cup {f.jump}
<1> DEFINE M == Pushed(f, N)
<1>1. Members(M) = Members(N) \cup {f}
  BY MembersPush DEF Pushed
<1>2. \A s : JumpsOf(s) = {x.jump : x \in Members(s)}
  BY DEF JumpsOf, Members
<1> HIDE DEF M
<1> QED
  BY <1>1, <1>2 DEF M

LEMMA ScopeJumpsPush ==
  ASSUME NEW S, NEW N \in Seq(S), NEW l \in S
  PROVE  /\ BreaksOf(Pushed(l, N)) = BreaksOf(N) \cup l.breaks
         /\ ContinuesOf(Pushed(l, N)) = ContinuesOf(N) \cup l.continues
<1> DEFINE M == Pushed(l, N)
<1>1. Members(M) = Members(N) \cup {l}
  BY MembersPush DEF Pushed
<1>2. \A s : /\ BreaksOf(s) = UNION {x.breaks : x \in Members(s)}
             /\ ContinuesOf(s) = UNION {x.continues : x \in Members(s)}
  BY DEF BreaksOf, ContinuesOf, Members
<1> HIDE DEF M
<1> QED
  BY <1>1, <1>2 DEF M

LEMMA JumpsAppend ==
  ASSUME NEW S, NEW N \in Seq(S), NEW f \in S
  PROVE  JumpsOf(Append(N, f)) = JumpsOf(N) \cup {f.jump}
<1> DEFINE M == Append(N, f)
<1>1. /\ Len(M) = Len(N) + 1 /\ M[Len(N) + 1] = f /\ Len(N) \in Nat
      /\ \A k \in 1..Len(N) : M[k] = N[k]
  OBVIOUS
<1> HIDE DEF M
<1>2. \A k \in 1..Len(M) : k \in 1..Len(N) \/ k = Len(N) + 1
  BY <1>1
<1>3. \A k \in 1..Len(N) : k \in 1..Len(M)
  BY <1>1
<1>4. Len(N) + 1 \in 1..Len(M)
  BY <1>1
<1> QED
  BY <1>1, <1>2, <1>3, <1>4 DEF JumpsOf, M

(* Which jumps of longer code have no address. *)
LEMMA UnresolvedEmit ==
  ASSUME NEW S, NEW c \in Seq(S), NEW b \in Seq(S)
  PROVE  Unresolved(c \o b) = Unresolved(c) \cup {Len(c) + k : k \in Unresolved(b)}
<1> DEFINE d == c \o b
<1>1. /\ Len(d) = Len(c) + Len(b) /\ Len(c) \in Nat /\ Len(b) \in Nat
      /\ \A k \in 1..Len(c) : d[k] = c[k]
      /\ \A k \in 1..Len(b) : d[Len(c) + k] = b[k]
  BY Joined
<1> HIDE DEF d
<1>2. \A j \in 1..Len(d) : j \in 1..Len(c) \/ (j - Len(c) \in 1..Len(b) /\ j = Len(c) + (j - Len(c)))
  BY <1>1
<1>3. \A j \in 1..Len(c) : j \in 1..Len(d)
  BY <1>1
<1>4. \A k \in 1..Len(b) : Len(c) + k \in 1..Len(d)
  BY <1>1
<1> QED
  BY <1>1, <1>2, <1>3, <1>4 DEF Unresolved, d

(* Patching gives addresses to these jumps and takes none away. *)
LEMMA UnresolvedPatch ==
  ASSUME NEW body, NEW c, NEW a, Flow(body, c, a), NEW P, NEW t \in 1..Len(c) + 1,
         \A j \in P : Promised(c, a, j, a[t])
  PROVE  Unresolved(Patched(c, P, t)) = Unresolved(c) \ P
<1> DEFINE d == Patched(c, P, t)
<1>1. /\ Kept(c, a, d, a) /\ Len(d) = Len(c)
      /\ \A j \in P : d[j].arg = t
      /\ \A j \in 1..Len(c) : j \notin P => d[j] = c[j]
  BY Patch
<1>2. t # Nowhere
  BY DEF Nowhere
<1>3. P \subseteq 1..Len(c)
  BY DEF Promised
<1> HIDE DEF d
<1> QED
  BY <1>1, <1>2, <1>3 DEF Unresolved, Kept, d

-----------------------------------------------------------------------------
(* Where instructions come from, and the temporaries they name *)

(* Instructions written for the item in hand keep to where instructions    *)
(* come from, and to the temporaries there are.                            *)
LEMMA SourcesEmit ==
  ASSUME NEW body, NEW i \in Nat, NEW m \in Nat, i <= m,
         NEW c \in Seq(Instructions(body)), NEW b \in Seq(Instructions(body)), Sources(body, c, i),
         \A k \in 1..Len(b) :
           b[k].item < m /\ (b[k].op = "main" => body[b[k].item].kind = "main")
  PROVE  Sources(body, c \o b, m)
<1> DEFINE d == c \o b
<1>1. /\ Len(d) = Len(c) + Len(b) /\ Len(c) \in Nat /\ Len(b) \in Nat
      /\ \A k \in 1..Len(c) : d[k] = c[k]
      /\ \A k \in 1..Len(b) : d[Len(c) + k] = b[k]
  BY Joined
<1> HIDE DEF d
<1>2. \A j \in 1..Len(d) : j \in 1..Len(c) \/ (j - Len(c) \in 1..Len(b) /\ j = Len(c) + (j - Len(c)))
  BY <1>1
<1>3. \A j \in 1..Len(c) : c[j].item \in Nat
  <2>1. \A j \in 1..Len(c) : c[j] \in Instructions(body)
    BY ElementOfSeq
  <2> QED
    BY <2>1 DEF Instructions
<1> SUFFICES ASSUME NEW j \in 1..Len(d)
             PROVE  d[j].item < m /\ (d[j].op = "main" => body[d[j].item].kind = "main")
  BY DEF Sources, d
<1>4. CASE j \in 1..Len(c)
  BY <1>1, <1>3, <1>4 DEF Sources
<1>5. CASE j \notin 1..Len(c)
  <2>1. PICK k \in 1..Len(b) : j = Len(c) + k
    BY <1>2, <1>5
  <2>2. d[j] = b[k]
    BY <1>1, <2>1
  <2> QED
    BY <2>2
<1> QED
  BY <1>4, <1>5

LEMMA SourcesKept ==
  ASSUME NEW body, NEW i, NEW c, NEW a, NEW d, Kept(c, a, d, a), Len(d) = Len(c),
         Sources(body, c, i)
  PROVE  Sources(body, d, i)
  BY DEF Sources, Kept

LEMMA NamedEmit ==
  ASSUME NEW body, NEW T, NEW i \in Nat, NEW m \in Nat, i <= m, NEW tc,
         NEW c \in Seq(Instructions(body)), NEW b \in Seq(Instructions(body)),
         Named(body, c, T, i, tc),
         \A h \in i..m - 1 : Kind(body, h) # "each",
         \A k \in 1..Len(b) : b[k].op \in {"load", "store"} => b[k].arg < tc,
         \A k \in 1..Len(b) : b[k].op # "define"
  PROVE  Named(body, c \o b, T, m, tc)
<1> DEFINE d == c \o b
<1>1. /\ Len(d) = Len(c) + Len(b) /\ Len(c) \in Nat /\ Len(b) \in Nat
      /\ \A k \in 1..Len(c) : d[k] = c[k]
      /\ \A k \in 1..Len(b) : d[Len(c) + k] = b[k]
  BY Joined
<1> HIDE DEF d
<1>2. \A j \in 1..Len(d) : j \in 1..Len(c) \/ (j - Len(c) \in 1..Len(b) /\ j = Len(c) + (j - Len(c)))
  BY <1>1
<1>3. \A j \in 1..Len(d) : d[j].op \in {"define", "load", "store"} => d[j].arg < tc
  BY <1>1, <1>2 DEF Named
<1>4. \A h \in 1..m - 1 : h \in 1..i - 1 \/ h \in i..m - 1
  OBVIOUS
<1>5. \A j \in 1..Len(d) : d[j].op = "define" => j \in 1..Len(c) /\ d[j] = c[j]
  BY <1>1, <1>2
<1>6. Apart(d, T[0], tc)
  BY <1>5 DEF Named, Apart
<1> QED
  BY <1>3, <1>4, <1>6 DEF Named, d

LEMMA NamedKept ==
  ASSUME NEW body, NEW T, NEW i, NEW tc, NEW c, NEW a, NEW d, Kept(c, a, d, a), Len(d) = Len(c),
         Named(body, c, T, i, tc)
  PROVE  Named(body, d, T, i, tc)
<1>1. ASSUME NEW j \in 1..Len(d), d[j].op \in {"define", "load", "store"} PROVE d[j].arg < tc
  <2>1. j \in 1..Len(c) /\ d[j].op = c[j].op
    BY DEF Kept
  <2>2. d[j] = c[j]
    BY <1>1, <2>1 DEF Kept, Jumps
  <2> QED
    BY <1>1, <2>1, <2>2 DEF Named
<1>2. \A j \in 1..Len(d) : d[j].op = "define" => j \in 1..Len(c) /\ d[j] = c[j]
  BY DEF Kept, Jumps
<1>3. Apart(d, T[0], tc)
  BY <1>2 DEF Named, Apart
<1> QED
  BY <1>1, <1>3 DEF Named

LEMMA NamedSkip ==
  ASSUME NEW body, NEW T, NEW i \in Nat, NEW tc, NEW c, Named(body, c, T, i, tc),
         Kind(body, i) # "each"
  PROVE  Named(body, c, T, i + 1, tc)
<1>1. \A h \in 1..(i + 1) - 1 : h \in 1..i - 1 \/ h = i
  OBVIOUS
<1> QED
  BY <1>1 DEF Named

LEMMA SourcesSkip ==
  ASSUME NEW body, NEW i \in Nat, NEW c \in Seq(Instructions(body)), Sources(body, c, i)
  PROVE  Sources(body, c, i + 1)
<1>1. \A j \in 1..Len(c) : c[j].item \in Nat
  <2>1. \A j \in 1..Len(c) : c[j] \in Instructions(body)
    BY ElementOfSeq
  <2> QED
    BY <2>1 DEF Instructions
<1> QED
  BY <1>1 DEF Sources

-----------------------------------------------------------------------------
(* One item *)

(* A state of the compiler's is one. *)
LEMMA StateTyped ==
  ASSUME NEW body, NEW T, NEW h \in Nat, NEW L
  PROVE  State(body, T, h, L) \in States
  BY DEF State, States, TempsOf

(* The instructions of an item, but for the two of a foreach's counters.   *)
LEMMA EmitItem ==
  ASSUME NEW body, NEW i, NEW c, NEW N, NEW S, NEW R, NEW P, NEW tc, NEW a, NEW T,
         BodyInv(body, i, c, N, S, R, P, tc, a, T),
         NotLast(body, i), Kind(body, i) # "each",
         NEW b, NEW s, Block(body, c, a, b, s),
         \A k \in 1..Len(b) :
           /\ b[k].item = i
           /\ b[k].op = "main" => Kind(body, i) = "main"
           /\ b[k].op \in {"load", "store"} => b[k].arg < tc
           /\ b[k].op # "define"
  PROVE  /\ c \o b \in Seq(Instructions(body))
         /\ Len(c \o b) = Len(c) + Len(b)
         /\ Unresolved(c \o b) = Unresolved(c) \cup {Len(c) + k : k \in Unresolved(b)}
         /\ Named(body, c \o b, T, i + 1, tc)
         /\ Sources(body, c \o b, i + 1)
         /\ \A k \in 1..Len(b) : (c \o b)[Len(c) + k] = b[k]
         /\ \E t : /\ Flow(body, c \o b, t)
                   /\ Kept(c, a, c \o b, t)
                   /\ \A k \in 1..Len(s) : t[Len(c) + k] = s[k]
                   /\ Frames(body, c \o b, t, T, Open(body, i), N)
                   /\ Scopes(body, c \o b, t, T, Loops(body, i), S)
<1>1. /\ Body(body) /\ Flow(body, c, a)
      /\ Frames(body, c, a, T, Open(body, i), N)
      /\ Scopes(body, c, a, T, Loops(body, i), S)
      /\ Named(body, c, T, i, tc) /\ Sources(body, c, i)
  BY DEF BodyInv
<1>2. i \in Nat /\ i + 1 \in Nat /\ i <= i + 1 /\ i < i + 1
  BY <1>1, Forward
<1>3. c \in Seq(Instructions(body)) /\ b \in Seq(Instructions(body))
  BY <1>1 DEF Flow, Block
<1>4. \A h \in i..(i + 1) - 1 : Kind(body, h) # "each"
  BY <1>2
<1>5. Named(body, c \o b, T, i + 1, tc)
  BY <1>1, <1>2, <1>3, <1>4, NamedEmit
<1>6. Sources(body, c \o b, i + 1)
  BY <1>1, <1>2, <1>3, SourcesEmit DEF Kind
<1>7. Unresolved(c \o b) = Unresolved(c) \cup {Len(c) + k : k \in Unresolved(b)}
  BY <1>3, UnresolvedEmit
<1>8. /\ Len(c \o b) = Len(c) + Len(b)
      /\ \A k \in 1..Len(b) : (c \o b)[Len(c) + k] = b[k]
      /\ c \o b \in Seq(Instructions(body))
  BY <1>3, Joined
<1>9. PICK t : /\ Flow(body, c \o b, t)
               /\ Kept(c, a, c \o b, t)
               /\ \A k \in 1..Len(s) : t[Len(c) + k] = s[k]
  BY <1>1, Emit
<1>10. Frames(body, c \o b, t, T, Open(body, i), N)
  BY <1>1, <1>9, FramesKept
<1>11. Scopes(body, c \o b, t, T, Loops(body, i), S)
  BY <1>1, <1>9, ScopesKept
<1> QED
  BY <1>5, <1>6, <1>7, <1>8, <1>9, <1>10, <1>11

Writes(c, ins, d) == d = Append(c, ins)

Made(body, ins, op, arg, i) ==
  ins \in Instructions(body) /\ ins.op = op /\ ins.arg = arg /\ ins.item = i

(* States after an instruction was appended, before it v and behind it u; *)
(* what the compiler remembers of the code still holds.                   *)
Written(body, c, a, d, v, u, T, O, N, L, S) ==
  \E t : /\ Flow(body, d, t)
        /\ Kept(c, a, d, t)
        /\ t[Len(c) + 1] = v
        /\ t[Len(d) + 1] = u
        /\ Frames(body, d, t, T, O, N)
        /\ Scopes(body, d, t, T, L, S)

(* One instruction for an item, which leads to state u. *)
LEMMA EmitOne ==
  ASSUME NEW body, NEW i, NEW c, NEW N, NEW S, NEW R, NEW P, NEW tc, NEW a, NEW T,
         BodyInv(body, i, c, N, S, R, P, tc, a, T),
         NotLast(body, i), Kind(body, i) # "each",
         Kind(body, i) \in Statements => Operands(body, i) = 0,
         NEW ins, NEW op, NEW arg, Made(body, ins, op, arg, i),
         op \notin {"define", "load", "store"},
         op = "main" => Kind(body, i) = "main",
         NEW v, v = State(body, T, Operands(body, i), Loops(body, i)),
         NEW u \in States,
         op \notin {"jump", "return"} => Leads(ins, v, u), op = "return" => v.height > 0,
         op \in Jumps /\ arg # Nowhere => arg \in 1..Len(c) + 1 /\ Leads(ins, v, a[arg]),
         NEW d, Writes(c, ins, d)
  PROVE  /\ d \in Seq(Instructions(body))
         /\ Len(d) = Len(c) + 1 /\ Len(c) \in Nat
         /\ d[Len(c) + 1] = ins
         /\ Unresolved(d) =
              Unresolved(c) \cup IF op \in Jumps /\ arg = Nowhere THEN {Len(c) + 1} ELSE {}
         /\ Named(body, d, T, i + 1, tc)
         /\ Sources(body, d, i + 1)
         /\ Written(body, c, a, d, v, u, T, Open(body, i), N, Loops(body, i), S)
<1>0. ins \in Instructions(body) /\ ins.op = op /\ ins.arg = arg /\ ins.item = i
  BY DEF Made
<1> DEFINE x == <<ins>>
           s == <<v, u>>
<1>1. /\ c \in Seq(Instructions(body)) /\ Len(c) \in Nat
      /\ a[Len(c) + 1] = v /\ Operands(body, i) \in Nat
  BY NestingTyped DEF BodyInv, Flow, Operands
<1>2. d = c \o x
  BY <1>1, AppendIsConcat DEF Writes
<1>3. /\ s \in Seq(States) /\ Len(s) = 2 /\ s[1] = v /\ s[2] = u
      /\ x \in Seq(Instructions(body)) /\ Len(x) = 1 /\ x[1] = ins
  <2>1. v \in States
    BY <1>1, StateTyped
  <2> QED
    BY <1>0, <2>1
<1> HIDE DEF x, s
<1>4. Begins(body, x, 1) => v.height = 0
  BY <1>0, <1>3 DEF Begins, State, Kind
<1>5. Block(body, c, a, x, s)
  BY <1>0, <1>1, <1>3, <1>4 DEF Block
<1>6. \A k \in 1..Len(x) :
        /\ x[k].item = i
        /\ x[k].op = "main" => Kind(body, i) = "main"
        /\ x[k].op \in {"load", "store"} => x[k].arg < tc
        /\ x[k].op # "define"
  BY <1>0, <1>3
<1>7. /\ c \o x \in Seq(Instructions(body))
      /\ Len(c \o x) = Len(c) + Len(x)
      /\ Unresolved(c \o x) = Unresolved(c) \cup {Len(c) + k : k \in Unresolved(x)}
      /\ Named(body, c \o x, T, i + 1, tc)
      /\ Sources(body, c \o x, i + 1)
      /\ \A k \in 1..Len(x) : (c \o x)[Len(c) + k] = x[k]
      /\ \E t : /\ Flow(body, c \o x, t)
                /\ Kept(c, a, c \o x, t)
                /\ \A k \in 1..Len(s) : t[Len(c) + k] = s[k]
                /\ Frames(body, c \o x, t, T, Open(body, i), N)
                /\ Scopes(body, c \o x, t, T, Loops(body, i), S)
  BY <1>5, <1>6, EmitItem
<1>8. Unresolved(x) = IF op \in Jumps /\ arg = Nowhere THEN {1} ELSE {}
  BY <1>0, <1>3 DEF Unresolved
<1>9. {Len(c) + k : k \in Unresolved(x)} =
        IF op \in Jumps /\ arg = Nowhere THEN {Len(c) + 1} ELSE {}
  BY <1>8
<1>10. PICK t : /\ Flow(body, d, t)
                /\ Kept(c, a, d, t)
                /\ \A k \in 1..Len(s) : t[Len(c) + k] = s[k]
                /\ Frames(body, d, t, T, Open(body, i), N)
                /\ Scopes(body, d, t, T, Loops(body, i), S)
  BY <1>2, <1>7
<1>11. Len(d) = Len(c) + 1 /\ d[Len(c) + 1] = ins
  BY <1>1, <1>2, <1>3, <1>7
<1>12. t[Len(c) + 1] = v /\ t[Len(d) + 1] = u
  <2>1. t[Len(c) + 1] = s[1] /\ t[Len(c) + 2] = s[2] /\ Len(d) + 1 = Len(c) + 2
    BY <1>1, <1>3, <1>10, <1>11
  <2> QED
    BY <1>3, <2>1
<1> QED
  BY <1>1, <1>2, <1>7, <1>9, <1>10, <1>11, <1>12 DEF Written

(* The context of an item, part by part. *)
LEMMA PlaceTyped ==
  ASSUME NEW body, Body(body), NEW i \in 1..Len(body)
  PROVE  /\ Open(body, i) \in Seq(Nat) /\ Loops(body, i) \in Seq(Nat)
         /\ Operands(body, i) \in Nat /\ Part(body, i) \in {"body", "step"}
         /\ Kind(body, i) \in Kinds
  BY NestingTyped DEF Kind, Open, Loops, Operands, Part, Items

(* What every item starts from. *)
LEMMA ItemFacts ==
  ASSUME NEW body, NEW i, NEW c, NEW N, NEW S, NEW R, NEW P, NEW tc, NEW a, NEW T,
         BodyInv(body, i, c, N, S, R, P, tc, a, T)
  PROVE  /\ Body(body) /\ i \in 1..Len(body) /\ i \in Nat
         /\ Flow(body, c, a)
         /\ c \in Seq(Instructions(body)) /\ Len(c) \in Nat
         /\ a[Len(c) + 1] = State(body, T, Operands(body, i), Loops(body, i))
         /\ Frames(body, c, a, T, Open(body, i), N)
         /\ Scopes(body, c, a, T, Loops(body, i), S)
         /\ N \in Seq(FrameRecords) /\ S \in Seq(ScopeRecords)
         /\ Labels(body, c, a, T, i, R)
         /\ Gotos(body, c, a, T, i, P)
         /\ P \in Seq([label : Nodes, jump : Nat])
         /\ Unresolved(c) \subseteq Remembered(N, S, P, Part(body, i))
         /\ Named(body, c, T, i, tc)
         /\ Sources(body, c, i)
         /\ Kind(body, i) \in Kinds /\ body[i].node \in Nodes /\ body[i].arity \in Nat
         /\ Open(body, i) \in Seq(Nat) /\ Loops(body, i) \in Seq(Nat) /\ Operands(body, i) \in Nat
<1>1. Body(body) /\ i \in 1..Len(body)
  BY DEF BodyInv
<1>2. body[i] \in Items
  BY <1>1, NestingTyped
<1>3. /\ Flow(body, c, a)
      /\ a[Len(c) + 1] = State(body, T, Operands(body, i), Loops(body, i))
      /\ Frames(body, c, a, T, Open(body, i), N)
      /\ Scopes(body, c, a, T, Loops(body, i), S)
      /\ Labels(body, c, a, T, i, R)
      /\ Gotos(body, c, a, T, i, P)
      /\ Unresolved(c) \subseteq Remembered(N, S, P, Part(body, i))
      /\ Named(body, c, T, i, tc)
      /\ Sources(body, c, i)
  BY DEF BodyInv
<1>4. c \in Seq(Instructions(body)) /\ Len(c) \in Nat
  BY <1>3 DEF Flow
<1>5. N \in Seq(FrameRecords) /\ S \in Seq(ScopeRecords) /\ P \in Seq([label : Nodes, jump : Nat])
  BY <1>3 DEF Frames, Scopes, Gotos
<1>6. /\ Kind(body, i) \in Kinds /\ body[i].node \in Nodes /\ body[i].arity \in Nat
      /\ Open(body, i) \in Seq(Nat) /\ Loops(body, i) \in Seq(Nat) /\ Operands(body, i) \in Nat
  BY <1>1, <1>2, PlaceTyped DEF Items
<1> QED
  BY <1>1, <1>3, <1>4, <1>5, <1>6

(* A frame whose jump is the next instruction. *)
Awaits(f, c) == f.jump = Len(c) + 1

(* Code that goes with what the compiler remembers, after the items before *)
(* m.                                                                      *)
Sound(body, c, a, T, O, N, L, S, m, tc) ==
  /\ Flow(body, c, a)
  /\ Frames(body, c, a, T, O, N)
  /\ Scopes(body, c, a, T, L, S)
  /\ Named(body, c, T, m, tc)
  /\ Sources(body, c, m)

(* Such code with an instruction more, before which there is state v and   *)
(* behind it u.                                                            *)
Grown(body, c, a, d, v, u, T, O, N, L, S, m, tc) ==
  \E t : /\ Sound(body, d, t, T, O, N, L, S, m, tc)
        /\ Kept(c, a, d, t)
        /\ t[Len(c) + 1] = v
        /\ t[Len(d) + 1] = u

(* A jump without an address. *)
LEMMA EmitJump ==
  ASSUME NEW body, NEW i, NEW c, NEW N, NEW S, NEW R, NEW P, NEW tc, NEW a, NEW T,
         BodyInv(body, i, c, N, S, R, P, tc, a, T),
         NotLast(body, i), Kind(body, i) # "each",
         Kind(body, i) \in Statements => Operands(body, i) = 0,
         NEW ins, NEW op \in Jumps, Made(body, ins, op, Nowhere, i),
         NEW v, v = State(body, T, Operands(body, i), Loops(body, i)),
         NEW u \in States, op # "jump" => Leads(ins, v, u),
         NEW d, Writes(c, ins, d)
  PROVE  /\ Len(d) = Len(c) + 1 /\ Len(c) \in Nat
         /\ Unresolved(d) = Unresolved(c) \cup {Len(c) + 1}
         /\ Grown(body, c, a, d, v, u, T, Open(body, i), N, Loops(body, i), S, i + 1, tc)
         /\ \A t, s : Leads(ins, v, s) /\ t[Len(c) + 1] = v => Promised(d, t, Len(c) + 1, s)
<1>1. PICK arg : arg = Nowhere /\ Made(body, ins, op, arg, i)
  OBVIOUS
<1>2. /\ op \notin {"define", "load", "store"} /\ op # "main" /\ op # "return"
      /\ ~(op \in Jumps /\ arg # Nowhere) /\ Made(body, ins, op, arg, i)
  BY <1>1 DEF Jumps
<1>3. op \notin {"jump", "return"} => Leads(ins, v, u)
  BY <1>2
<1>4. /\ Len(d) = Len(c) + 1 /\ Len(c) \in Nat
      /\ d[Len(c) + 1] = ins
      /\ Unresolved(d) =
           Unresolved(c) \cup IF op \in Jumps /\ arg = Nowhere THEN {Len(c) + 1} ELSE {}
      /\ Named(body, d, T, i + 1, tc)
      /\ Sources(body, d, i + 1)
      /\ Written(body, c, a, d, v, u, T, Open(body, i), N, Loops(body, i), S)
  BY <1>2, <1>3, EmitOne
<1>5. Unresolved(d) = Unresolved(c) \cup {Len(c) + 1}
  BY <1>1, <1>4
<1>6. Grown(body, c, a, d, v, u, T, Open(body, i), N, Loops(body, i), S, i + 1, tc)
  BY <1>4 DEF Grown, Written, Sound
<1>7. ins.op \in Jumps
  BY DEF Made
<1>8. ASSUME NEW t, NEW s, Leads(ins, v, s), t[Len(c) + 1] = v
      PROVE  Promised(d, t, Len(c) + 1, s)
  BY <1>4, <1>7, <1>8 DEF Promised
<1> QED
  BY <1>4, <1>5, <1>6, <1>8

Patches(c, Q, t, d) == d = Patched(c, Q, t)

MayPatch(c, a, Q, t) == t \in 1..Len(c) + 1 /\ \A j \in Q : Promised(c, a, j, a[t])

(* Jumps get their address. *)
LEMMA PatchSound ==
  ASSUME NEW body, NEW c, NEW a, NEW T, NEW O, NEW N, NEW L, NEW S, NEW m, NEW tc,
         Sound(body, c, a, T, O, N, L, S, m, tc),
         NEW Q, NEW t, MayPatch(c, a, Q, t), NEW d, Patches(c, Q, t, d)
  PROVE  /\ Sound(body, d, a, T, O, N, L, S, m, tc)
         /\ Kept(c, a, d, a)
         /\ Len(d) = Len(c)
         /\ Unresolved(d) = Unresolved(c) \ Q
<1>1. /\ Flow(body, c, a) /\ Frames(body, c, a, T, O, N) /\ Scopes(body, c, a, T, L, S)
      /\ Named(body, c, T, m, tc) /\ Sources(body, c, m)
      /\ t \in 1..Len(c) + 1 /\ \A j \in Q : Promised(c, a, j, a[t])
  BY DEF Sound, MayPatch
<1>2. /\ Flow(body, d, a) /\ Kept(c, a, d, a) /\ Len(d) = Len(c)
  BY <1>1, Patch DEF Patches
<1>3. Unresolved(d) = Unresolved(c) \ Q
  BY <1>1, UnresolvedPatch DEF Patches
<1>4. Frames(body, d, a, T, O, N) /\ Scopes(body, d, a, T, L, S)
  BY <1>1, <1>2, FramesKept, ScopesKept
<1>5. Named(body, d, T, m, tc) /\ Sources(body, d, m)
  BY <1>1, <1>2, NamedKept, SourcesKept
<1> QED
  BY <1>2, <1>3, <1>4, <1>5 DEF Sound

(* The compiler's memory when an item emits nothing. *)
LEMMA SoundItem ==
  ASSUME NEW body, NEW i, NEW c, NEW N, NEW S, NEW R, NEW P, NEW tc, NEW a, NEW T,
         BodyInv(body, i, c, N, S, R, P, tc, a, T), Kind(body, i) # "each"
  PROVE  Sound(body, c, a, T, Open(body, i), N, Loops(body, i), S, i + 1, tc)
<1>1. /\ Flow(body, c, a)
      /\ Frames(body, c, a, T, Open(body, i), N)
      /\ Scopes(body, c, a, T, Loops(body, i), S)
      /\ Named(body, c, T, i, tc) /\ Sources(body, c, i)
      /\ i \in Nat /\ c \in Seq(Instructions(body))
  BY ItemFacts
<1>2. Named(body, c, T, i + 1, tc)
  BY <1>1, NamedSkip
<1>3. Sources(body, c, i + 1)
  BY <1>1, SourcesSkip
<1> QED
  BY <1>1, <1>2, <1>3 DEF Sound

(* What an item's step has to show. *)
LEMMA Advance ==
  ASSUME NEW body, NEW i, NEW c, NEW N, NEW S, NEW R, NEW P, NEW tc, NEW a, NEW T,
         BodyInv(body, i, c, N, S, R, P, tc, a, T),
         NotLast(body, i), Kind(body, i) # "label",
         NEW d, NEW b, NEW N2, NEW S2,
         Sound(body, d, b, T, Open(body, i + 1), N2, Loops(body, i + 1), S2, i + 1, tc),
         Kept(c, a, d, b),
         b[Len(d) + 1] = State(body, T, Operands(body, i + 1), Loops(body, i + 1)),
         Unresolved(d) \subseteq Remembered(N2, S2, P, Part(body, i + 1))
  PROVE  BodyInv(body, i + 1, d, N2, S2, R, P, tc, b, T)
<1>1. Body(body) /\ Labels(body, c, a, T, i, R) /\ Gotos(body, c, a, T, i, P)
  BY DEF BodyInv
<1>2. i \in Nat /\ i + 1 \in Nat /\ i <= i + 1 /\ i + 1 \in 1..Len(body)
  BY <1>1, Forward
<1>3. \A l \in i..(i + 1) - 1 : Kind(body, l) # "label"
  BY <1>2
<1>4. Labels(body, d, b, T, i + 1, R)
  BY <1>1, <1>2, <1>3, LabelsKept
<1>5. Gotos(body, d, b, T, i + 1, P)
  BY <1>1, <1>2, GotosKept
<1> QED
  BY <1>2, <1>4, <1>5 DEF BodyInv, Sound

(* The compiler's memory is right after an item if it was before: an item  *)
(* that is one instruction.                                                *)
LEMMA SimpleItem ==
  ASSUME NEW body, NEW i, NEW c, NEW N, NEW S, NEW R, NEW P, NEW tc, NEW a, NEW T,
         BodyInv(body, i, c, N, S, R, P, tc, a, T),
         Kind(body, i) \in {"operand", "unsupported", "apply", "call", "main", "drop", "return"},
         NEW op, op = IF Kind(body, i) = "unsupported" THEN "operand" ELSE Kind(body, i),
         NEW ins, Made(body, ins, op, body[i].arity, i)
  PROVE  \E b : BodyInv(body, i + 1, Append(c, ins), N, S, R, P, tc, b, T)
<1>2. PICK d : d = Append(c, ins) /\ Writes(c, ins, d)
  BY DEF Writes
<1>3. /\ Body(body) /\ i \in 1..Len(body) /\ i \in Nat /\ Operands(body, i) \in Nat
      /\ body[i].arity \in Nat /\ NotLast(body, i)
      /\ Unresolved(c) \subseteq Remembered(N, S, P, Part(body, i))
  BY ItemFacts DEF NotLast, Kind
<1>4. PICK arg :
        /\ arg = body[i].arity /\ Made(body, ins, op, arg, i)
        /\ ins.op = op /\ ins.arg = body[i].arity
  BY DEF Made
<1>5. /\ Open(body, i + 1) = Open(body, i)
      /\ Loops(body, i + 1) = Loops(body, i)
      /\ Part(body, i + 1) = Part(body, i)
      /\ Kind(body, i) \in {"operand", "unsupported"} => Operands(body, i + 1) = Operands(body, i) + 1
      /\ Kind(body, i) \in {"apply", "call", "main"} =>
           Operands(body, i + 1) = Operands(body, i) - body[i].arity + 1
      /\ Kind(body, i) \in {"drop", "return"} =>
           Operands(body, i + 1) = Operands(body, i) - body[i].arity
      /\ Kind(body, i) \in {"apply", "call", "main", "drop", "return"} =>
           body[i].arity <= Operands(body, i)
      /\ Kind(body, i) = "return" => body[i].arity = 1
  BY <1>3, MoveSimple
<1>6. Operands(body, i + 1) \in Nat
  BY <1>3, Forward, PlaceTyped
<1>7. PICK v : v = State(body, T, Operands(body, i), Loops(body, i))
  OBVIOUS
<1>8. PICK u : u = State(body, T, Operands(body, i + 1), Loops(body, i + 1))
  OBVIOUS
<1>9. /\ v.height = Operands(body, i) /\ u.height = Operands(body, i + 1)
      /\ v.bound = u.bound
  BY <1>5, <1>7, <1>8 DEF State
<1>10. u \in States
  BY <1>6, <1>8, StateTyped
<1>11. ins.op # "return" => Leads(ins, v, u)
  <2>1. CASE ins.op = "operand"
    <3>1. Takes(ins) = 0 /\ Gives(ins) = 1
      BY <2>1 DEF Takes, Gives
    <3> QED
      BY <1>3, <1>4, <1>5, <1>9, <2>1, <3>1 DEF Leads
  <2>2. CASE ins.op \in {"apply", "call", "main"}
    <3>1. Takes(ins) = body[i].arity /\ Gives(ins) = 1
      BY <1>4, <2>2 DEF Takes, Gives
    <3> QED
      BY <1>3, <1>4, <1>5, <1>9, <2>2, <3>1 DEF Leads
  <2>3. CASE ins.op = "drop"
    <3>1. Takes(ins) = body[i].arity /\ Gives(ins) = 0
      BY <1>4, <2>3 DEF Takes, Gives
    <3> QED
      BY <1>3, <1>4, <1>5, <1>9, <2>3, <3>1 DEF Leads
  <2> QED
    BY <1>4, <2>1, <2>2, <2>3
<1>12. /\ Kind(body, i) # "each" /\ Kind(body, i) # "label" /\ Kind(body, i) \notin Statements
       /\ op \notin Jumps /\ op \notin {"define", "load", "store"}
       /\ op = "main" => Kind(body, i) = "main"
  BY <1>4 DEF Statements, Jumps
<1>13. /\ op \notin {"jump", "return"} => Leads(ins, v, u)
       /\ op = "return" => v.height > 0
       /\ op \in Jumps /\ arg # Nowhere => arg \in 1..Len(c) + 1 /\ Leads(ins, v, a[arg])
       /\ Kind(body, i) \in Statements => Operands(body, i) = 0
  <2>1. op = "return" => v.height > 0
    BY <1>3, <1>4, <1>5, <1>9
  <2> QED
    BY <1>4, <1>11, <1>12, <2>1 DEF Jumps
<1>14. /\ Unresolved(d) =
              Unresolved(c) \cup IF op \in Jumps /\ arg = Nowhere THEN {Len(c) + 1} ELSE {}
       /\ Named(body, d, T, i + 1, tc)
       /\ Sources(body, d, i + 1)
       /\ Written(body, c, a, d, v, u, T, Open(body, i), N, Loops(body, i), S)
  BY <1>2, <1>3, <1>4, <1>7, <1>10, <1>12, <1>13, EmitOne
<1>15. Unresolved(d) = Unresolved(c)
  BY <1>12, <1>14
<1>16. PICK t : /\ Flow(body, d, t)
                /\ Kept(c, a, d, t)
                /\ t[Len(d) + 1] = u
                /\ Frames(body, d, t, T, Open(body, i), N)
                /\ Scopes(body, d, t, T, Loops(body, i), S)
  BY <1>14 DEF Written
<1>17. Sound(body, d, t, T, Open(body, i + 1), N, Loops(body, i + 1), S, i + 1, tc)
  BY <1>5, <1>14, <1>16 DEF Sound
<1>18. BodyInv(body, i + 1, d, N, S, R, P, tc, t, T)
  BY <1>3, <1>5, <1>8, <1>12, <1>15, <1>16, <1>17, Advance
<1> QED
  BY <1>2, <1>18

(* The condition of an if or an "and". *)
LEMMA TestItem ==
  ASSUME NEW body, NEW i, NEW c, NEW N, NEW S, NEW R, NEW P, NEW tc, NEW a, NEW T,
         BodyInv(body, i, c, N, S, R, P, tc, a, T),
         Kind(body, i) \in {"if", "and"},
         NEW ins, Made(body, ins, "jumpfalse", Nowhere, i),
         NEW f \in FrameRecords, Awaits(f, c)
  PROVE  \E b : BodyInv(body, i + 1, Append(c, ins), Pushed(f, N), S, R, P, tc, b, T)
<1>a. PICK v, u : /\ v = State(body, T, Operands(body, i), Loops(body, i))
                  /\ u = State(body, T, Operands(body, i) - 1, Loops(body, i))
  OBVIOUS
<1>b. PICK d, N2 : d = Append(c, ins) /\ Writes(c, ins, d) /\ N2 = Pushed(f, N)
  BY DEF Writes
<1>2. /\ Body(body) /\ i \in 1..Len(body) /\ i \in Nat /\ Operands(body, i) \in Nat
      /\ NotLast(body, i) /\ Open(body, i) \in Seq(Nat) /\ N \in Seq(FrameRecords)
      /\ Unresolved(c) \subseteq Remembered(N, S, P, Part(body, i))
  BY ItemFacts DEF NotLast, Kind
<1>3. Kind(body, i) \in {"if", "and", "or"}
  OBVIOUS
<1>5. /\ Operands(body, i) > 0
      /\ Open(body, i + 1) = Pushed(i, Open(body, i))
      /\ Loops(body, i + 1) = Loops(body, i)
      /\ Part(body, i + 1) = Part(body, i)
      /\ Operands(body, i + 1) = Operands(body, i) - 1
  BY <1>2, <1>3, MoveTest
<1>6. u \in States
  BY <1>a, <1>2, <1>5, StateTyped
<1>7. Leads(ins, v, u)
  BY <1>a, <1>2, <1>5 DEF Leads, Takes, Gives, Made, State
<1>8. Kind(body, i) # "each" /\ Kind(body, i) # "label" /\ Kind(body, i) \notin Statements
  BY DEF Statements
<1>9. "jumpfalse" \in Jumps
  BY DEF Jumps
<1>10. /\ Len(d) = Len(c) + 1 /\ Len(c) \in Nat
       /\ Unresolved(d) = Unresolved(c) \cup {Len(c) + 1}
       /\ Grown(body, c, a, d, v, u, T, Open(body, i), N, Loops(body, i), S, i + 1, tc)
       /\ \A t, s : Leads(ins, v, s) /\ t[Len(c) + 1] = v => Promised(d, t, Len(c) + 1, s)
  BY <1>a, <1>b, <1>2, <1>6, <1>7, <1>8, <1>9, EmitJump
<1>11. PICK t : /\ Sound(body, d, t, T, Open(body, i), N, Loops(body, i), S, i + 1, tc)
                /\ Kept(c, a, d, t)
                /\ t[Len(c) + 1] = v
                /\ t[Len(d) + 1] = u
  BY <1>10 DEF Grown
<1>12. FrameHolds(body, d, t, T, i, f)
  <2>1. Promised(d, t, f.jump, u)
    BY <1>7, <1>10, <1>11 DEF Awaits
  <2> QED
    BY <1>a, <2>1 DEF FrameHolds
<1>13. Frames(body, d, t, T, Open(body, i + 1), N2)
  BY <1>b, <1>2, <1>5, <1>11, <1>12, FramesPush DEF Sound
<1>14. Sound(body, d, t, T, Open(body, i + 1), N2, Loops(body, i + 1), S, i + 1, tc)
  BY <1>5, <1>11, <1>13 DEF Sound
<1>15. JumpsOf(N2) = JumpsOf(N) \cup {Len(c) + 1}
  BY <1>b, <1>2, JumpsPush DEF Awaits
<1>16. Unresolved(d) \subseteq Remembered(N2, S, P, Part(body, i + 1))
  BY <1>2, <1>5, <1>10, <1>15 DEF Remembered
<1>17. BodyInv(body, i + 1, d, N2, S, R, P, tc, t, T)
  BY <1>a, <1>2, <1>5, <1>8, <1>11, <1>14, <1>16, Advance
<1> QED
  BY <1>b, <1>17

(* An else: the jump over it waits for the end, the one to it is patched. *)
LEMMA ElseItem ==
  ASSUME NEW body, NEW i, NEW c, NEW N, NEW S, NEW R, NEW P, NEW tc, NEW a, NEW T,
         BodyInv(body, i, c, N, S, R, P, tc, a, T),
         Kind(body, i) = "else",
         NEW ins, Made(body, ins, "jump", Nowhere, i),
         NEW f \in FrameRecords, Awaits(f, c),
         NEW g, NEW M, Splits(N, g, M),
         NEW d, Writes(c, ins, d), NEW e, Patches(d, {g.jump}, Len(d) + 1, e)
  PROVE  \E b : BodyInv(body, i + 1, e, Pushed(f, M), S, R, P, tc, b, T)
<1>2. /\ Body(body) /\ i \in 1..Len(body) /\ i \in Nat /\ Operands(body, i) \in Nat
      /\ NotLast(body, i) /\ Open(body, i) \in Seq(Nat)
      /\ Unresolved(c) \subseteq Remembered(N, S, P, Part(body, i))
  BY ItemFacts DEF NotLast, Kind
<1>0. PICK p, K : Splits(Open(body, i), p, K)
  BY DEF Splits
<1>3. /\ Open(body, i) # <<>>
      /\ Kind(body, p) = "if"
      /\ Loops(body, p) = Loops(body, i)
      /\ Open(body, i + 1) = Pushed(i, K)
      /\ Loops(body, i + 1) = Loops(body, i)
      /\ Part(body, i + 1) = Part(body, i)
      /\ Operands(body, i + 1) = Operands(body, p) - 1
  BY <1>0, <1>2, MoveElse
<1>4. PICK v, u : /\ v = State(body, T, Operands(body, i), Loops(body, i))
                  /\ u = State(body, T, Operands(body, i + 1), Loops(body, i + 1))
  OBVIOUS
<1>5. u \in States
  BY <1>2, <1>4, Forward, PlaceTyped, StateTyped
<1>6. Leads(ins, v, v)
  BY <1>2, <1>4 DEF Leads, Takes, Gives, Made, State
<1>7. Kind(body, i) # "each" /\ Kind(body, i) # "label" /\ Kind(body, i) \notin Statements
  BY DEF Statements
<1>8. "jump" \in Jumps
  BY DEF Jumps
<1>9. /\ Len(d) = Len(c) + 1 /\ Len(c) \in Nat
      /\ Unresolved(d) = Unresolved(c) \cup {Len(c) + 1}
      /\ Grown(body, c, a, d, v, u, T, Open(body, i), N, Loops(body, i), S, i + 1, tc)
      /\ \A t, s : Leads(ins, v, s) /\ t[Len(c) + 1] = v => Promised(d, t, Len(c) + 1, s)
  BY <1>2, <1>4, <1>5, <1>7, <1>8, EmitJump
<1>10. PICK t : /\ Sound(body, d, t, T, Open(body, i), N, Loops(body, i), S, i + 1, tc)
                /\ Kept(c, a, d, t)
                /\ t[Len(c) + 1] = v
                /\ t[Len(d) + 1] = u
  BY <1>9 DEF Grown
<1>11. /\ FrameHolds(body, d, t, T, p, g)
       /\ g \in FrameRecords
       /\ K \in Seq(Nat) /\ M \in Seq(FrameRecords)
       /\ N = Pushed(g, M)
  <2>1. Frames(body, d, t, T, Open(body, i), N)
    BY <1>10 DEF Sound
  <2> QED
    BY <1>2, <1>3, <2>1, <1>0, FramesSplit
<1>12. PICK Q : /\ Patches(d, Q, Len(d) + 1, e)
                /\ \A X : X \ Q = X \ {g.jump}
                /\ MayPatch(d, t, Q, Len(d) + 1)
  <2>1. Promised(d, t, g.jump, u)
    BY <1>3, <1>4, <1>11 DEF FrameHolds
  <2> QED
    BY <1>9, <1>10, <2>1 DEF MayPatch
<1>13. Len(d) + 1 \in 1..Len(d) + 1
  BY <1>9
<1>14. /\ Sound(body, e, t, T, Open(body, i), N, Loops(body, i), S, i + 1, tc)
       /\ Kept(d, t, e, t)
       /\ Len(e) = Len(d)
       /\ Unresolved(e) = Unresolved(d) \ Q
  BY <1>10, <1>12, PatchSound
<1>15. FrameHolds(body, e, t, T, i, f)
  <2>1. Promised(d, t, f.jump, v)
    BY <1>6, <1>9, <1>10 DEF Awaits
  <2>2. Promised(e, t, f.jump, v)
    BY <1>14, <2>1, KeptPromise
  <2> QED
    BY <1>4, <2>2 DEF FrameHolds
<1>16. PICK N2 : N2 = Pushed(f, M)
  OBVIOUS
<1>17. Frames(body, e, t, T, Open(body, i + 1), N2)
  <2>1. Frames(body, e, t, T, K, M)
    BY <1>0, <1>2, <1>3, <1>14, FramesSplit DEF Sound
  <2> QED
    BY <1>2, <1>3, <1>11, <1>15, <1>16, <2>1, FramesPush
<1>18. Sound(body, e, t, T, Open(body, i + 1), N2, Loops(body, i + 1), S, i + 1, tc)
  BY <1>3, <1>14, <1>17 DEF Sound
<1>19. Unresolved(e) \subseteq Remembered(N2, S, P, Part(body, i + 1))
  <2>1. JumpsOf(N2) = JumpsOf(M) \cup {Len(c) + 1}
    BY <1>11, <1>16, JumpsPush DEF Awaits
  <2>2. JumpsOf(N) = JumpsOf(M) \cup {g.jump}
    BY <1>11, JumpsPush
  <2> QED
    BY <1>2, <1>3, <1>9, <1>12, <1>14, <2>1, <2>2 DEF Remembered
<1>20. t[Len(e) + 1] = State(body, T, Operands(body, i + 1), Loops(body, i + 1))
  BY <1>4, <1>10, <1>14
<1>21. Kept(c, a, e, t)
  BY <1>10, <1>14, KeptTwice
<1>22. BodyInv(body, i + 1, e, N2, S, R, P, tc, t, T)
  BY <1>2, <1>7, <1>18, <1>19, <1>20, <1>21, Advance
<1> QED
  BY <1>16, <1>22

(* The end of an if. *)
LEMMA EndIfItem ==
  ASSUME NEW body, NEW i, NEW c, NEW N, NEW S, NEW R, NEW P, NEW tc, NEW a, NEW T,
         BodyInv(body, i, c, N, S, R, P, tc, a, T),
         Kind(body, i) = "endif",
         NEW g, NEW M, Splits(N, g, M), NEW d, Patches(c, {g.jump}, Len(c) + 1, d)
  PROVE  \E b : BodyInv(body, i + 1, d, M, S, R, P, tc, b, T)
<1>2. /\ Body(body) /\ i \in 1..Len(body) /\ i \in Nat /\ Operands(body, i) \in Nat
      /\ NotLast(body, i) /\ Open(body, i) \in Seq(Nat) /\ Len(c) \in Nat
      /\ Frames(body, c, a, T, Open(body, i), N) /\ Flow(body, c, a)
      /\ a[Len(c) + 1] = State(body, T, Operands(body, i), Loops(body, i))
      /\ Unresolved(c) \subseteq Remembered(N, S, P, Part(body, i))
  BY ItemFacts DEF NotLast, Kind
<1>3. Kind(body, i) \in {"endif", "endand", "endor"}
  OBVIOUS
<1>0. PICK p, K : Splits(Open(body, i), p, K)
  BY DEF Splits
<1>4. /\ Open(body, i) # <<>>
      /\ Kind(body, p) = "else"
      /\ Loops(body, p) = Loops(body, i)
      /\ Operands(body, p) = Operands(body, i)
      /\ Open(body, i + 1) = K
      /\ Loops(body, i + 1) = Loops(body, i)
      /\ Part(body, i + 1) = Part(body, i)
      /\ Operands(body, i + 1) = Operands(body, i)
  BY <1>0, <1>2, <1>3, MoveClose
<1>5. Kind(body, i) # "each" /\ Kind(body, i) # "label"
  OBVIOUS
<1>6. /\ FrameHolds(body, c, a, T, p, g)
      /\ M \in Seq(FrameRecords) /\ g \in FrameRecords
      /\ N = Pushed(g, M)
  BY <1>0, <1>2, <1>4, FramesSplit
<1>7. PICK Q : /\ Patches(c, Q, Len(c) + 1, d)
               /\ \A X : X \ Q = X \ {g.jump}
               /\ MayPatch(c, a, Q, Len(c) + 1)
  BY <1>2, <1>4, <1>6, SMTT(30) DEF FrameHolds, MayPatch
<1>8. Sound(body, c, a, T, Open(body, i), N, Loops(body, i), S, i + 1, tc)
  BY <1>5, SoundItem
<1>9. Len(c) + 1 \in 1..Len(c) + 1
  BY <1>2
<1>10. /\ Sound(body, d, a, T, Open(body, i), N, Loops(body, i), S, i + 1, tc)
       /\ Kept(c, a, d, a)
       /\ Len(d) = Len(c)
       /\ Unresolved(d) = Unresolved(c) \ Q
  BY <1>7, <1>8, PatchSound
<1>11. Frames(body, d, a, T, Open(body, i + 1), M)
  BY <1>0, <1>2, <1>4, <1>10, FramesSplit DEF Sound
<1>12. Sound(body, d, a, T, Open(body, i + 1), M, Loops(body, i + 1), S, i + 1, tc)
  BY <1>4, <1>10, <1>11 DEF Sound
<1>13. JumpsOf(N) = JumpsOf(M) \cup {g.jump}
  BY <1>6, JumpsPush
<1>14. Unresolved(d) \subseteq Remembered(M, S, P, Part(body, i + 1))
  BY <1>2, <1>4, <1>7, <1>10, <1>13, SMTT(30) DEF Remembered
<1>15. a[Len(d) + 1] = State(body, T, Operands(body, i + 1), Loops(body, i + 1))
  BY <1>2, <1>4, <1>10
<1>16. BodyInv(body, i + 1, d, M, S, R, P, tc, a, T)
  BY <1>2, <1>5, <1>10, <1>12, <1>14, <1>15, Advance
<1> QED
  BY <1>16

(* The frame of a loop whose first instruction is the next one. *)
Begun(f, c) == f.start = Len(c) + 1 /\ f.jump = Nowhere

(* The begin of a loop, which is where its end jumps to. *)
LEMMA LoopItem ==
  ASSUME NEW body, NEW i, NEW c, NEW N, NEW S, NEW R, NEW P, NEW tc, NEW a, NEW T,
         BodyInv(body, i, c, N, S, R, P, tc, a, T),
         Kind(body, i) = "loop",
         NEW f \in FrameRecords, Begun(f, c)
  PROVE  \E b : BodyInv(body, i + 1, c, Pushed(f, N), S, R, P, tc, b, T)
<1>2. /\ Body(body) /\ i \in 1..Len(body) /\ i \in Nat
      /\ NotLast(body, i) /\ Open(body, i) \in Seq(Nat) /\ Len(c) \in Nat
      /\ N \in Seq(FrameRecords) /\ Flow(body, c, a)
      /\ a[Len(c) + 1] = State(body, T, Operands(body, i), Loops(body, i))
      /\ Unresolved(c) \subseteq Remembered(N, S, P, Part(body, i))
  BY ItemFacts DEF NotLast, Kind
<1>3. /\ Operands(body, i) = 0
      /\ Open(body, i + 1) = Pushed(i, Open(body, i))
      /\ Loops(body, i + 1) = Loops(body, i)
      /\ Part(body, i + 1) = Part(body, i)
      /\ Operands(body, i + 1) = 0
  BY <1>2, MoveLoop
<1>4. Kind(body, i) # "each" /\ Kind(body, i) # "label"
  OBVIOUS
<1>5. Sound(body, c, a, T, Open(body, i), N, Loops(body, i), S, i + 1, tc)
  BY <1>4, SoundItem
<1>6. FrameHolds(body, c, a, T, i, f)
  <2>1. /\ f.start \in 1..Len(c) + 1 /\ a[f.start] = State(body, T, 0, Loops(body, i))
        /\ f.jump = Nowhere
    BY <1>2, <1>3 DEF Begun
  <2> QED
    BY <2>1 DEF FrameHolds
<1>7. PICK N2 : N2 = Pushed(f, N)
  OBVIOUS
<1>8. Frames(body, c, a, T, Open(body, i + 1), N2)
  BY <1>2, <1>3, <1>5, <1>6, <1>7, FramesPush DEF Sound
<1>9. Sound(body, c, a, T, Open(body, i + 1), N2, Loops(body, i + 1), S, i + 1, tc)
  BY <1>3, <1>5, <1>8 DEF Sound
<1>10. JumpsOf(N2) = JumpsOf(N) \cup {f.jump}
  BY <1>2, <1>7, JumpsPush
<1>11. Unresolved(c) \subseteq Remembered(N2, S, P, Part(body, i + 1))
  BY <1>2, <1>3, <1>10 DEF Remembered
<1>12. Kept(c, a, c, a)
  BY <1>2, KeptAll
<1>13. a[Len(c) + 1] = State(body, T, Operands(body, i + 1), Loops(body, i + 1))
  BY <1>2, <1>3
<1>14. BodyInv(body, i + 1, c, N2, S, R, P, tc, a, T)
  BY <1>2, <1>4, <1>9, <1>11, <1>12, <1>13, Advance
<1> QED
  BY <1>7, <1>14

(* A stack with one more. *)
LEMMA PushedTyped ==
  ASSUME NEW A, NEW x, NEW s, x \in A, s \in Seq(A)
  PROVE  Pushed(x, s) \in Seq(A) /\ Members(Pushed(x, s)) = Members(s) \cup {x}
  BY Push, MembersPush DEF Pushed

(* The innermost loop around an item. *)
LEMMA Innermost ==
  ASSUME NEW body, NEW i, Body(body), i \in 1..Len(body), Loops(body, i) # <<>>,
         NEW h, NEW L, Splits(Loops(body, i), h, L)
  PROVE  /\ h \in 1..i - 1 /\ h \in Nat
         /\ Kind(body, h) \in Heads
         /\ Loops(body, h) = L /\ L \in Seq(Nat)
         /\ Loops(body, i) = Pushed(h, L)
<1> DEFINE n == Nesting(body)
<1>1. n[i].loops \in Seq(Nat) /\ n[i].loops # <<>>
  BY NestingTyped DEF Loops
<1>2. /\ Head(n[i].loops) = n[i].loops[1] /\ Tail(n[i].loops) \in Seq(Nat)
      /\ n[i].loops = <<n[i].loops[1]>> \o Tail(n[i].loops)
  BY <1>1, Pop
<1>3. h = n[i].loops[1] /\ L = Tail(n[i].loops)
  BY <1>2 DEF Splits, Loops
<1>4. /\ n[i].loops[1] \in 1..i - 1
      /\ body[n[i].loops[1]].kind \in Heads
      /\ n[n[i].loops[1]].loops = Tail(n[i].loops)
  BY <1>1, NotInsideItself
<1> QED
  BY <1>2, <1>3, <1>4 DEF Kind, Loops, Pushed

(* The innermost construct around an item began before it. *)
LEMMA OpenBefore ==
  ASSUME NEW body, NEW i, Body(body), i \in 1..Len(body), Open(body, i) # <<>>,
         NEW p, NEW K, Splits(Open(body, i), p, K)
  PROVE  p \in 1..i - 1 /\ p \in 1..Len(body)
<1> DEFINE n == Nesting(body)
<1>1. n[i].open \in Seq(Nat) /\ n[i].open # <<>> /\ Len(body) \in Nat
  BY NestingTyped DEF Open
<1>2. Head(n[i].open) = n[i].open[1] /\ Len(n[i].open) \in Nat \ {0}
  BY <1>1, Pop
<1>3. p = n[i].open[1]
  BY <1>2 DEF Splits, Open
<1>4. Before(n[i].open, i)
  BY AllOpened
<1>5. p \in 1..i - 1
  BY <1>2, <1>3, <1>4 DEF Before, Members
<1> QED
  BY <1>1, <1>5

(* The innermost loop's jumps, and the others'. *)
LEMMA ScopesSplit ==
  ASSUME NEW body, NEW c, NEW a, NEW T, NEW L, NEW S,
         Scopes(body, c, a, T, L, S), L \in Seq(Nat), L # <<>>,
         NEW h, NEW K, Splits(L, h, K), NEW l, NEW M, Splits(S, l, M)
  PROVE  /\ ScopeHolds(body, c, a, T, h, l)
         /\ l \in ScopeRecords
         /\ M \in Seq(ScopeRecords)
         /\ S = Pushed(l, M)
         /\ Scopes(body, c, a, T, K, M)
<1>1. h = Head(L) /\ K = Tail(L) /\ l = Head(S) /\ M = Tail(S)
  BY DEF Splits
<1>2. Head(L) = L[1]
  BY Pop
<1>3. /\ S # <<>> /\ S \in Seq(ScopeRecords) /\ S[1] \in ScopeRecords
      /\ ScopeHolds(body, c, a, T, L[1], S[1])
      /\ S = Pushed(S[1], Tail(S))
      /\ Tail(S) \in Seq(ScopeRecords)
      /\ Scopes(body, c, a, T, Tail(L), Tail(S))
  BY ScopesPop
<1>4. Head(S) = S[1]
  BY <1>3, Pop
<1> QED
  BY <1>1, <1>2, <1>3, <1>4

(* The temporaries of one more loop. *)
LEMMA TempsPush ==
  ASSUME NEW body, NEW T, NEW h, NEW L, h \in Nat, L \in Seq(Nat)
  PROVE  /\ TempsOf(body, T, L) \subseteq TempsOf(body, T, Pushed(h, L))
         /\ Kind(body, h) # "each" => TempsOf(body, T, Pushed(h, L)) = TempsOf(body, T, L)
         /\ Kind(body, h) = "each" =>
              \A t \in Nat : t \in TempsOf(body, T, Pushed(h, L)) <=>
                t \in TempsOf(body, T, L) \/ t = T[h] \/ t = T[h] + 1
<1>1. Members(Pushed(h, L)) = Members(L) \cup {h}
  BY PushedTyped
<1> QED
  BY <1>1 DEF TempsOf, Kind

(* A state of the inside of a loop will do for its outside. *)
LEMMA StateOutside ==
  ASSUME NEW body, NEW T, NEW h, NEW L, h \in Nat, L \in Seq(Nat)
  PROVE  /\ State(body, T, 0, L).bound \subseteq State(body, T, 0, Pushed(h, L)).bound
         /\ Kind(body, h) # "each" => State(body, T, 0, Pushed(h, L)) = State(body, T, 0, L)
  BY TempsPush DEF State

(* An unconditional jump does nothing to the state. *)
LEMMA JumpLeads ==
  ASSUME NEW body, NEW ins, NEW arg, NEW i, Made(body, ins, "jump", arg, i),
         NEW v, NEW u, v \in States, u.height = v.height, u.bound \subseteq v.bound
  PROVE  Leads(ins, v, u)
  BY DEF Leads, Takes, Gives, Made, States

ContinuesIn(l) == l.continues
BreaksIn(l) == l.breaks

(* The begin of an increment: the continues get its address. *)
LEMMA NextItem ==
  ASSUME NEW body, NEW i, NEW c, NEW N, NEW S, NEW R, NEW P, NEW tc, NEW a, NEW T,
         BodyInv(body, i, c, N, S, R, P, tc, a, T),
         Kind(body, i) = "next",
         NEW l, NEW M, Splits(S, l, M),
         NEW d, Patches(c, ContinuesIn(l), Len(c) + 1, d)
  PROVE  \E b : BodyInv(body, i + 1, d, N, S, R, P, tc, b, T)
<1>1. /\ Body(body) /\ i \in 1..Len(body) /\ i \in Nat /\ Len(c) \in Nat
      /\ NotLast(body, i) /\ Loops(body, i) \in Seq(Nat)
      /\ Scopes(body, c, a, T, Loops(body, i), S) /\ Flow(body, c, a)
      /\ a[Len(c) + 1] = State(body, T, Operands(body, i), Loops(body, i))
      /\ Unresolved(c) \subseteq Remembered(N, S, P, Part(body, i))
  BY ItemFacts DEF NotLast, Kind
<1>2. /\ Operands(body, i) = 0
      /\ Loops(body, i) # <<>>
      /\ Open(body, i + 1) = Open(body, i)
      /\ Loops(body, i + 1) = Loops(body, i)
      /\ Part(body, i + 1) = "step"
      /\ Operands(body, i + 1) = 0
  BY <1>1, MoveNext
<1>3. PICK h, L : Splits(Loops(body, i), h, L)
  BY DEF Splits
<1>4. Loops(body, h) = L /\ Loops(body, i) = Pushed(h, L)
  BY <1>1, <1>2, <1>3, Innermost
<1>5. /\ ScopeHolds(body, c, a, T, h, l)
      /\ M \in Seq(ScopeRecords) /\ l \in ScopeRecords
      /\ S = Pushed(l, M)
  BY <1>1, <1>2, <1>3, ScopesSplit
<1>6. MayPatch(c, a, ContinuesIn(l), Len(c) + 1)
  BY <1>1, <1>2, <1>4, <1>5 DEF MayPatch, ScopeHolds, ContinuesIn
<1>7. Kind(body, i) # "each" /\ Kind(body, i) # "label"
  OBVIOUS
<1>8. Sound(body, c, a, T, Open(body, i), N, Loops(body, i), S, i + 1, tc)
  BY <1>7, SoundItem
<1>9. /\ Sound(body, d, a, T, Open(body, i), N, Loops(body, i), S, i + 1, tc)
      /\ Kept(c, a, d, a)
      /\ Len(d) = Len(c)
      /\ Unresolved(d) = Unresolved(c) \ ContinuesIn(l)
  BY <1>6, <1>8, PatchSound
<1>10. Sound(body, d, a, T, Open(body, i + 1), N, Loops(body, i + 1), S, i + 1, tc)
  BY <1>2, <1>9
<1>11. Unresolved(d) \subseteq Remembered(N, S, P, Part(body, i + 1))
  <2>1. ContinuesOf(S) = ContinuesOf(M) \cup ContinuesIn(l)
    BY <1>5, ScopeJumpsPush DEF ContinuesIn
  <2>2. ContinuesOf(Tail(S)) = ContinuesOf(M)
    BY DEF Splits
  <2> QED
    BY <1>1, <1>2, <1>9, <2>1, <2>2 DEF Remembered
<1>12. a[Len(d) + 1] = State(body, T, Operands(body, i + 1), Loops(body, i + 1))
  BY <1>1, <1>2, <1>9
<1>13. BodyInv(body, i + 1, d, N, S, R, P, tc, a, T)
  BY <1>1, <1>7, <1>9, <1>10, <1>11, <1>12, Advance
<1> QED
  BY <1>13

(* The same loop, and the jumps of a loop that is just begun. *)
SameStart(f, g) == f.start = g.start
Fresh(l) == l \in ScopeRecords /\ l.breaks = {} /\ l.continues = {}

(* A loop that is just begun waits with no jumps. *)
LEMMA FreshScope ==
  ASSUME NEW l, Fresh(l), NEW S, S \in Seq(ScopeRecords)
  PROVE  /\ BreaksOf(Pushed(l, S)) = BreaksOf(S)
         /\ ContinuesOf(Pushed(l, S)) = ContinuesOf(S)
<1>1. l \in ScopeRecords /\ l.breaks = {} /\ l.continues = {}
  BY DEF Fresh
<1>2. /\ BreaksOf(Pushed(l, S)) = BreaksOf(S) \cup l.breaks
      /\ ContinuesOf(Pushed(l, S)) = ContinuesOf(S) \cup l.continues
  <2>1. l \in ScopeRecords
    BY <1>1
  <2> QED
    BY <2>1, ScopeJumpsPush
<1> QED
  BY <1>1, <1>2

LEMMA FreshHolds ==
  ASSUME NEW l, Fresh(l), NEW body, NEW c, NEW a, NEW T, NEW h
  PROVE  l \in ScopeRecords /\ ScopeHolds(body, c, a, T, h, l)
  BY DEF Fresh, ScopeHolds

(* The condition of a loop. *)
LEMMA DoItem ==
  ASSUME NEW body, NEW i, NEW c, NEW N, NEW S, NEW R, NEW P, NEW tc, NEW a, NEW T,
         BodyInv(body, i, c, N, S, R, P, tc, a, T),
         Kind(body, i) = "do",
         NEW ins, Made(body, ins, "jumpfalse", Nowhere, i),
         NEW g, NEW M, Splits(N, g, M),
         NEW f, Awaits(f, c), f \in FrameRecords, SameStart(f, g),
         NEW l, Fresh(l),
         NEW d, Writes(c, ins, d)
  PROVE  \E b : BodyInv(body, i + 1, d, Pushed(f, M), Pushed(l, S), R, P, tc, b, T)
<1>1. /\ Body(body) /\ i \in 1..Len(body) /\ i \in Nat
      /\ NotLast(body, i) /\ Open(body, i) \in Seq(Nat) /\ Loops(body, i) \in Seq(Nat)
      /\ S \in Seq(ScopeRecords)
      /\ Unresolved(c) \subseteq Remembered(N, S, P, Part(body, i))
  BY ItemFacts DEF NotLast, Kind
<1>2. PICK p, K : Splits(Open(body, i), p, K)
  BY DEF Splits
<1>3. /\ Operands(body, i) = 1
      /\ Part(body, i) = "body"
      /\ Open(body, i) # <<>>
      /\ Kind(body, p) = "loop"
      /\ Loops(body, p) = Loops(body, i)
      /\ Open(body, i + 1) = Pushed(i, K)
      /\ Loops(body, i + 1) = Pushed(i, Loops(body, i))
      /\ Part(body, i + 1) = "body"
      /\ Operands(body, i + 1) = 0
  BY <1>1, <1>2, MoveDo
<1>4. PICK v, u : /\ v = State(body, T, Operands(body, i), Loops(body, i))
                  /\ u = State(body, T, 0, Loops(body, i))
  OBVIOUS
<1>5. u \in States
  BY <1>4, StateTyped
<1>6. Leads(ins, v, u)
  BY <1>3, <1>4 DEF Leads, Takes, Gives, Made, State
<1>7. Kind(body, i) # "each" /\ Kind(body, i) # "label" /\ Kind(body, i) \notin Statements
  BY DEF Statements
<1>8. "jumpfalse" \in Jumps
  BY DEF Jumps
<1>9. /\ Len(d) = Len(c) + 1 /\ Len(c) \in Nat
      /\ Unresolved(d) = Unresolved(c) \cup {Len(c) + 1}
      /\ Grown(body, c, a, d, v, u, T, Open(body, i), N, Loops(body, i), S, i + 1, tc)
      /\ \A t, s : Leads(ins, v, s) /\ t[Len(c) + 1] = v => Promised(d, t, Len(c) + 1, s)
  <2>1. NotLast(body, i) /\ Kind(body, i) # "each"
    BY <1>1, <1>7
  <2>2. Kind(body, i) \in Statements => Operands(body, i) = 0
    BY <1>7
  <2>3. v = State(body, T, Operands(body, i), Loops(body, i))
    BY <1>4
  <2> QED
    BY <1>5, <1>6, <1>8, <2>1, <2>2, <2>3, EmitJump, SMTT(30)
<1>10. PICK t : /\ Sound(body, d, t, T, Open(body, i), N, Loops(body, i), S, i + 1, tc)
                /\ Kept(c, a, d, t)
                /\ t[Len(c) + 1] = v
                /\ t[Len(d) + 1] = u
  BY <1>9 DEF Grown
<1>11. /\ FrameHolds(body, d, t, T, p, g)
       /\ g \in FrameRecords
       /\ K \in Seq(Nat) /\ M \in Seq(FrameRecords)
       /\ N = Pushed(g, M)
       /\ Frames(body, d, t, T, K, M)
  <2>1. Frames(body, d, t, T, Open(body, i), N)
    BY <1>10 DEF Sound
  <2> QED
    BY <1>1, <1>2, <1>3, <2>1, FramesSplit
<1>12. FrameHolds(body, d, t, T, i, f)
  <2>1. Promised(d, t, f.jump, u)
    BY <1>6, <1>9, <1>10 DEF Awaits
  <2>2. f.start \in 1..Len(d) + 1 /\ t[f.start] = u
    BY <1>3, <1>4, <1>11 DEF FrameHolds, SameStart
  <2> QED
    BY <1>4, <2>1, <2>2 DEF FrameHolds
<1>13. ScopeHolds(body, d, t, T, i, l) /\ l \in ScopeRecords
  BY FreshHolds
<1>14. PICK N2, S2 : N2 = Pushed(f, M) /\ S2 = Pushed(l, S)
  OBVIOUS
<1>15. Frames(body, d, t, T, Open(body, i + 1), N2)
  BY <1>1, <1>3, <1>11, <1>12, <1>14, FramesPush
<1>16. Scopes(body, d, t, T, Loops(body, i + 1), S2)
  BY <1>1, <1>3, <1>10, <1>13, <1>14, ScopesPush DEF Sound
<1>17. Sound(body, d, t, T, Open(body, i + 1), N2, Loops(body, i + 1), S2, i + 1, tc)
  BY <1>10, <1>15, <1>16 DEF Sound
<1>18. Unresolved(d) \subseteq Remembered(N2, S2, P, Part(body, i + 1))
  <2>1. JumpsOf(N2) = JumpsOf(M) \cup {Len(c) + 1}
    BY <1>11, <1>14, JumpsPush DEF Awaits
  <2>2. JumpsOf(N) = JumpsOf(M) \cup {g.jump}
    BY <1>11, JumpsPush
  <2>3. BreaksOf(S2) = BreaksOf(S) /\ ContinuesOf(S2) = ContinuesOf(S)
    BY <1>1, <1>14, FreshScope
  <2>4. g.jump \notin Unresolved(c)
    BY <1>3, <1>11 DEF FrameHolds, Unresolved, Nowhere
  <2> QED
    BY <1>1, <1>3, <1>9, <2>1, <2>2, <2>3, <2>4 DEF Remembered
<1>19. t[Len(d) + 1] = State(body, T, Operands(body, i + 1), Loops(body, i + 1))
  <2>1. State(body, T, 0, Pushed(i, Loops(body, i))) = State(body, T, 0, Loops(body, i))
    BY <1>1, <1>7, StateOutside
  <2>2. t[Len(d) + 1] = State(body, T, 0, Loops(body, i))
    BY <1>4, <1>10
  <2> QED
    BY <1>3, <2>1, <2>2
<1>20. BodyInv(body, i + 1, d, N2, S2, R, P, tc, t, T)
  BY <1>1, <1>7, <1>10, <1>17, <1>18, <1>19, Advance
<1> QED
  BY <1>14, <1>20

-----------------------------------------------------------------------------
(* Several instructions for an item *)

(* An instruction of a block fits the states before and behind it. *)
Fits(c, a, s, ins, v, u) ==
  /\ ins.op = "load" => ins.arg \in v.bound
  /\ ins.op \notin {"jump", "return"} => Leads(ins, v, u)
  /\ ins.op = "return" => v.height > 0
  /\ ins.op \in Jumps /\ ins.arg # Nowhere =>
       \/ ins.arg \in 1..Len(c) + 1 /\ Leads(ins, v, a[ins.arg])
       \/ \E m \in 1..Len(s) : ins.arg = Len(c) + m /\ Leads(ins, v, s[m])

FitsAll(body, c, a, i, b, s) ==
  /\ b \in Seq(Instructions(body))
  /\ s \in Seq(States)
  /\ Len(s) = Len(b) + 1
  /\ s[1] = a[Len(c) + 1]
  /\ Kind(body, i) \in Statements => s[1].height = 0
  /\ \A k \in 1..Len(b) : b[k].item = i /\ Fits(c, a, s, b[k], s[k], s[k + 1])

(* A block from its instructions, one by one. *)
LEMMA BlockOf ==
  ASSUME NEW body, NEW c, NEW a, NEW i, NEW b, NEW s, FitsAll(body, c, a, i, b, s)
  PROVE  Block(body, c, a, b, s)
<1>0. /\ b \in Seq(Instructions(body))
      /\ s \in Seq(States)
      /\ Len(s) = Len(b) + 1
      /\ s[1] = a[Len(c) + 1]
      /\ Kind(body, i) \in Statements => s[1].height = 0
      /\ \A k \in 1..Len(b) : b[k].item = i /\ Fits(c, a, s, b[k], s[k], s[k + 1])
  BY DEF FitsAll
<1>1. Len(b) \in Nat
  BY <1>0
<1>2. ASSUME NEW k \in 1..Len(b), Begins(body, b, k) PROVE s[k].height = 0
  <2>1. k = 1
    <3>1. k > 1 => k - 1 \in 1..Len(b)
      BY <1>1
    <3> QED
      BY <1>0, <1>1, <1>2, <3>1 DEF Begins
  <2> QED
    BY <1>0, <1>2, <2>1 DEF Begins, Kind
<1> QED
  BY <1>0, <1>2 DEF Block, Fits

(* The names and sources of an item's instructions. *)
Plain(body, b, i, tc) ==
  \A k \in 1..Len(b) :
    /\ b[k].item = i
    /\ b[k].op = "main" => Kind(body, i) = "main"
    /\ b[k].op \in {"load", "store"} => b[k].arg < tc
    /\ b[k].op # "define"

Joins(c, b, d) == d = c \o b

(* Code that has grown by a block with these states. *)
GrownBy(body, c, a, d, s, T, O, N, L, S, m, tc) ==
  \E t : /\ Sound(body, d, t, T, O, N, L, S, m, tc)
         /\ Kept(c, a, d, t)
         /\ \A k \in 1..Len(s) : t[Len(c) + k] = s[k]

(* An item whose instructions are a block. *)
LEMMA EmitBlock ==
  ASSUME NEW body, NEW i, NEW c, NEW N, NEW S, NEW R, NEW P, NEW tc, NEW a, NEW T,
         BodyInv(body, i, c, N, S, R, P, tc, a, T),
         NotLast(body, i), Kind(body, i) # "each",
         NEW b, NEW s, Block(body, c, a, b, s), Plain(body, b, i, tc),
         NEW d, Joins(c, b, d)
  PROVE  /\ Len(d) = Len(c) + Len(b) /\ Len(c) \in Nat
         /\ Unresolved(d) = Unresolved(c) \cup {Len(c) + k : k \in Unresolved(b)}
         /\ \A k \in 1..Len(b) : d[Len(c) + k] = b[k]
         /\ GrownBy(body, c, a, d, s, T, Open(body, i), N, Loops(body, i), S, i + 1, tc)
<1>1. \A k \in 1..Len(b) :
        /\ b[k].item = i
        /\ b[k].op = "main" => Kind(body, i) = "main"
        /\ b[k].op \in {"load", "store"} => b[k].arg < tc
        /\ b[k].op # "define"
  BY DEF Plain
<1>2. d = c \o b
  BY DEF Joins
<1>3. /\ Len(c \o b) = Len(c) + Len(b)
      /\ Unresolved(c \o b) = Unresolved(c) \cup {Len(c) + k : k \in Unresolved(b)}
      /\ Named(body, c \o b, T, i + 1, tc)
      /\ Sources(body, c \o b, i + 1)
      /\ \A k \in 1..Len(b) : (c \o b)[Len(c) + k] = b[k]
      /\ \E t : /\ Flow(body, c \o b, t)
                /\ Kept(c, a, c \o b, t)
                /\ \A k \in 1..Len(s) : t[Len(c) + k] = s[k]
                /\ Frames(body, c \o b, t, T, Open(body, i), N)
                /\ Scopes(body, c \o b, t, T, Loops(body, i), S)
  BY <1>1, EmitItem
<1>4. Len(c) \in Nat
  BY ItemFacts
<1> QED
  BY <1>2, <1>3, <1>4 DEF GrownBy, Sound

-----------------------------------------------------------------------------
(* || *)

OrCode(x1, x2, x3) == <<x1, x2, x3>>

(* The three instructions after the first operand of ||. *)
LEMMA OrBlock ==
  ASSUME NEW body, NEW i, NEW c, NEW a, NEW x1, NEW x2, NEW x3,
         Made(body, x1, "jumpfalse", Len(c) + 4, i),
         Made(body, x2, "const", 1, i), Made(body, x3, "jump", Nowhere, i),
         Len(c) \in Nat, Kind(body, i) \notin Statements,
         NEW v \in States, NEW u \in States, a[Len(c) + 1] = v,
         v.height = u.height + 1, v.bound = u.bound
  PROVE  \E b, s :
           /\ b = OrCode(x1, x2, x3)
           /\ Block(body, c, a, b, s)
           /\ \A tc : Plain(body, b, i, tc)
           /\ Len(b) = 3 /\ b[3] = x3
           /\ Unresolved(b) = {3}
           /\ Len(s) = 4 /\ s[3] = v /\ s[4] = u
<1>1. /\ x1 \in Instructions(body) /\ x2 \in Instructions(body) /\ x3 \in Instructions(body)
      /\ x1.op = "jumpfalse" /\ x1.arg = Len(c) + 4 /\ x1.item = i
      /\ x2.op = "const" /\ x2.arg = 1 /\ x2.item = i
      /\ x3.op = "jump" /\ x3.arg = Nowhere /\ x3.item = i
  BY DEF Made
<1>2. PICK b : b = OrCode(x1, x2, x3)
  OBVIOUS
<1>3. /\ b \in Seq(Instructions(body)) /\ Len(b) = 3
      /\ b[1] = x1 /\ b[2] = x2 /\ b[3] = x3
  BY <1>1, <1>2 DEF OrCode
<1>4. PICK s : /\ s \in Seq(States) /\ Len(s) = 4
               /\ s[1] = v /\ s[2] = u /\ s[3] = v /\ s[4] = u
  <2>1. /\ <<v, u, v, u>> \in Seq(States) /\ Len(<<v, u, v, u>>) = 4
        /\ <<v, u, v, u>>[1] = v /\ <<v, u, v, u>>[2] = u
        /\ <<v, u, v, u>>[3] = v /\ <<v, u, v, u>>[4] = u
    OBVIOUS
  <2> QED
    BY <2>1
<1>5. /\ Takes(x1) = 1 /\ Gives(x1) = 0 /\ Binds(x1) = {}
      /\ Takes(x2) = 0 /\ Gives(x2) = 1 /\ Binds(x2) = {}
  BY <1>1 DEF Takes, Gives, Binds
<1>6. u.height \in Nat /\ v.height \in Nat
  BY DEF States
<1>7. Leads(x1, v, u) /\ Leads(x2, u, v)
  BY <1>5, <1>6 DEF Leads
<1>8. Fits(c, a, s, x1, v, u) /\ Fits(c, a, s, x2, u, v) /\ Fits(c, a, s, x3, v, u)
  BY <1>1, <1>4, <1>7 DEF Fits, Jumps
<1>9. \A k \in 1..Len(b) : k = 1 \/ k = 2 \/ k = 3
  BY <1>3
<1>10. \A k \in 1..Len(b) : b[k].item = i /\ Fits(c, a, s, b[k], s[k], s[k + 1])
  BY <1>1, <1>3, <1>4, <1>8, <1>9
<1>11. Block(body, c, a, b, s)
  <2>1. FitsAll(body, c, a, i, b, s)
    BY <1>3, <1>4, <1>10 DEF FitsAll
  <2> QED
    BY <2>1, BlockOf
<1>12. \A tc : Plain(body, b, i, tc)
  BY <1>1, <1>3, <1>9 DEF Plain
<1>13. Unresolved(b) = {3}
  BY <1>1, <1>3, <1>9 DEF Unresolved, Jumps, Nowhere
<1> QED
  BY <1>2, <1>3, <1>4, <1>11, <1>12, <1>13

(* A frame whose jump is the third instruction from here. *)
AwaitsThird(f, c) == f.jump = Len(c) + 3

(* The first operand of ||. *)
LEMMA OrItem ==
  ASSUME NEW body, NEW i, NEW c, NEW N, NEW S, NEW R, NEW P, NEW tc, NEW a, NEW T,
         BodyInv(body, i, c, N, S, R, P, tc, a, T),
         Kind(body, i) = "or",
         NEW x1, Made(body, x1, "jumpfalse", Len(c) + 4, i),
         NEW x2, Made(body, x2, "const", 1, i), NEW x3, Made(body, x3, "jump", Nowhere, i),
         NEW f, AwaitsThird(f, c), f \in FrameRecords,
         NEW d, Joins(c, OrCode(x1, x2, x3), d)
  PROVE  \E b : BodyInv(body, i + 1, d, Pushed(f, N), S, R, P, tc, b, T)
<1>1. /\ Body(body) /\ i \in 1..Len(body) /\ i \in Nat /\ Operands(body, i) \in Nat
      /\ NotLast(body, i) /\ Open(body, i) \in Seq(Nat) /\ N \in Seq(FrameRecords)
      /\ Len(c) \in Nat
      /\ a[Len(c) + 1] = State(body, T, Operands(body, i), Loops(body, i))
      /\ Unresolved(c) \subseteq Remembered(N, S, P, Part(body, i))
  BY ItemFacts DEF NotLast, Kind
<1>2. Kind(body, i) \in {"if", "and", "or"}
  OBVIOUS
<1>3. /\ Operands(body, i) > 0
      /\ Open(body, i + 1) = Pushed(i, Open(body, i))
      /\ Loops(body, i + 1) = Loops(body, i)
      /\ Part(body, i + 1) = Part(body, i)
      /\ Operands(body, i + 1) = Operands(body, i) - 1
  BY <1>1, <1>2, MoveTest
<1>4. PICK v, u : /\ v = State(body, T, Operands(body, i), Loops(body, i))
                  /\ u = State(body, T, Operands(body, i) - 1, Loops(body, i))
  OBVIOUS
<1>5. v \in States /\ u \in States
  BY <1>1, <1>3, <1>4, StateTyped
<1>6. v.height = u.height + 1 /\ v.bound = u.bound
  BY <1>1, <1>4 DEF State
<1>7. Kind(body, i) # "each" /\ Kind(body, i) # "label" /\ Kind(body, i) \notin Statements
  BY DEF Statements
<1>8. PICK x, s : /\ x = OrCode(x1, x2, x3)
                  /\ Block(body, c, a, x, s)
                  /\ Plain(body, x, i, tc)
                  /\ Len(x) = 3 /\ x[3] = x3
                  /\ Unresolved(x) = {3}
                  /\ Len(s) = 4 /\ s[3] = v /\ s[4] = u
  BY <1>1, <1>4, <1>5, <1>6, <1>7, OrBlock, SMTT(30)
<1>9. Joins(c, x, d) /\ Block(body, c, a, x, s) /\ Plain(body, x, i, tc)
  BY <1>8
<1>10. /\ Len(d) = Len(c) + Len(x)
       /\ Unresolved(d) = Unresolved(c) \cup {Len(c) + k : k \in Unresolved(x)}
       /\ \A k \in 1..Len(x) : d[Len(c) + k] = x[k]
       /\ GrownBy(body, c, a, d, s, T, Open(body, i), N, Loops(body, i), S, i + 1, tc)
  BY <1>1, <1>7, <1>9, EmitBlock
<1>11. PICK t : /\ Sound(body, d, t, T, Open(body, i), N, Loops(body, i), S, i + 1, tc)
                /\ Kept(c, a, d, t)
                /\ \A k \in 1..Len(s) : t[Len(c) + k] = s[k]
  BY <1>10 DEF GrownBy
<1>12. /\ Len(d) = Len(c) + 3 /\ d[Len(c) + 3] = x3
       /\ t[Len(c) + 3] = v /\ t[Len(d) + 1] = u
       /\ Unresolved(d) = Unresolved(c) \cup {Len(c) + 3}
  <2>1. Len(d) = Len(c) + 3 /\ 3 \in 1..Len(x) /\ 3 \in 1..Len(s) /\ 4 \in 1..Len(s)
    BY <1>8, <1>10
  <2>2. d[Len(c) + 3] = x[3] /\ t[Len(c) + 3] = s[3] /\ t[Len(c) + 4] = s[4]
    BY <1>10, <1>11, <2>1
  <2>3. Len(d) + 1 = Len(c) + 4
    BY <1>1, <2>1
  <2> QED
    BY <1>8, <1>10, <2>1, <2>2, <2>3
<1>13. FrameHolds(body, d, t, T, i, f)
  <2>1. Leads(x3, v, v)
    BY <1>5, JumpLeads
  <2>2. x3.op \in Jumps
    BY DEF Made, Jumps
  <2>3. Promised(d, t, f.jump, v)
    BY <1>1, <1>12, <2>1, <2>2 DEF Promised, AwaitsThird
  <2> QED
    BY <1>4, <2>3 DEF FrameHolds
<1>14. PICK N2 : N2 = Pushed(f, N)
  OBVIOUS
<1>15. Frames(body, d, t, T, Open(body, i + 1), N2)
  BY <1>1, <1>3, <1>11, <1>13, <1>14, FramesPush DEF Sound
<1>16. Sound(body, d, t, T, Open(body, i + 1), N2, Loops(body, i + 1), S, i + 1, tc)
  BY <1>3, <1>11, <1>15 DEF Sound
<1>17. JumpsOf(N2) = JumpsOf(N) \cup {Len(c) + 3}
  BY <1>1, <1>14, JumpsPush DEF AwaitsThird
<1>18. Unresolved(d) \subseteq Remembered(N2, S, P, Part(body, i + 1))
  BY <1>1, <1>3, <1>12, <1>17 DEF Remembered
<1>19. t[Len(d) + 1] = State(body, T, Operands(body, i + 1), Loops(body, i + 1))
  BY <1>3, <1>4, <1>12
<1>20. BodyInv(body, i + 1, d, N2, S, R, P, tc, t, T)
  BY <1>1, <1>7, <1>11, <1>16, <1>18, <1>19, Advance
<1> QED
  BY <1>14, <1>20

-----------------------------------------------------------------------------
(* The ends of && and || *)

Normal(x1, x2, x3, x4) == <<x1, x2, x3, x4>>

NormalEnd(body, i, c, a, x1, x2, x3, x4, v, u, b, s) ==
  /\ b = Normal(x1, x2, x3, x4)
  /\ Block(body, c, a, b, s)
  /\ \A tc : Plain(body, b, i, tc)
  /\ Len(b) = 4 /\ b[1] = x1 /\ b[3] = x3
  /\ Unresolved(b) = {1, 3}
  /\ Len(s) = 5 /\ s[1] = v /\ s[3] = v /\ s[4] = u /\ s[5] = v
  /\ Leads(x1, v, u) /\ Leads(x3, v, v)

(* The four instructions that end && and ||. *)
LEMMA NormalBlock ==
  ASSUME NEW body, NEW i, NEW x1, Made(body, x1, "jumpfalse", Nowhere, i),
         NEW x2, Made(body, x2, "const", 1, i), NEW x3, Made(body, x3, "jump", Nowhere, i),
         NEW x4, Made(body, x4, "const", 0, i), Kind(body, i) \notin Statements,
         NEW c, NEW a, NEW v, a[Len(c) + 1] = v, Len(c) \in Nat, v \in States,
         NEW u, v.height = u.height + 1, v.bound = u.bound, u \in States
  PROVE  \E b, s : NormalEnd(body, i, c, a, x1, x2, x3, x4, v, u, b, s)
<1>1. /\ x1 \in Instructions(body) /\ x2 \in Instructions(body)
      /\ x3 \in Instructions(body) /\ x4 \in Instructions(body)
      /\ x1.op = "jumpfalse" /\ x1.arg = Nowhere /\ x1.item = i
      /\ x2.op = "const" /\ x2.item = i
      /\ x3.op = "jump" /\ x3.arg = Nowhere /\ x3.item = i
      /\ x4.op = "const" /\ x4.item = i
  BY DEF Made
<1>2. PICK b : b = Normal(x1, x2, x3, x4)
  OBVIOUS
<1>3. /\ b \in Seq(Instructions(body)) /\ Len(b) = 4
      /\ b[1] = x1 /\ b[2] = x2 /\ b[3] = x3 /\ b[4] = x4
  BY <1>1, <1>2 DEF Normal
<1>4. PICK s : /\ s \in Seq(States) /\ Len(s) = 5
               /\ s[1] = v /\ s[2] = u /\ s[3] = v /\ s[4] = u /\ s[5] = v
  <2>1. /\ <<v, u, v, u, v>> \in Seq(States) /\ Len(<<v, u, v, u, v>>) = 5
        /\ <<v, u, v, u, v>>[1] = v /\ <<v, u, v, u, v>>[2] = u
        /\ <<v, u, v, u, v>>[3] = v /\ <<v, u, v, u, v>>[4] = u /\ <<v, u, v, u, v>>[5] = v
    OBVIOUS
  <2> QED
    BY <2>1
<1>5. /\ Takes(x1) = 1 /\ Gives(x1) = 0 /\ Binds(x1) = {}
      /\ Takes(x2) = 0 /\ Gives(x2) = 1 /\ Binds(x2) = {}
      /\ Takes(x3) = 0 /\ Gives(x3) = 0 /\ Binds(x3) = {}
      /\ Takes(x4) = 0 /\ Gives(x4) = 1 /\ Binds(x4) = {}
  BY <1>1 DEF Takes, Gives, Binds
<1>6. u.height \in Nat /\ v.height \in Nat
  BY DEF States
<1>7. Leads(x1, v, u) /\ Leads(x2, u, v) /\ Leads(x3, v, v) /\ Leads(x4, u, v)
  BY <1>5, <1>6 DEF Leads
<1>8. /\ Fits(c, a, s, x1, v, u) /\ Fits(c, a, s, x2, u, v)
      /\ Fits(c, a, s, x3, v, u) /\ Fits(c, a, s, x4, u, v)
  BY <1>1, <1>4, <1>7 DEF Fits, Jumps
<1>9. \A k \in 1..Len(b) : k = 1 \/ k = 2 \/ k = 3 \/ k = 4
  BY <1>3
<1>10. \A k \in 1..Len(b) : b[k].item = i /\ Fits(c, a, s, b[k], s[k], s[k + 1])
  BY <1>1, <1>3, <1>4, <1>8, <1>9
<1>11. Block(body, c, a, b, s)
  <2>1. FitsAll(body, c, a, i, b, s)
    BY <1>3, <1>4, <1>10 DEF FitsAll
  <2> QED
    BY <2>1, BlockOf
<1>12. \A tc : Plain(body, b, i, tc)
  BY <1>1, <1>3, <1>9 DEF Plain
<1>13. Unresolved(b) = {1, 3}
  BY <1>1, <1>3, <1>9 DEF Unresolved, Jumps, Nowhere
<1> QED
  BY <1>2, <1>3, <1>4, <1>7, <1>11, <1>12, <1>13 DEF NormalEnd

(* Which jumps lead to the 0, and which behind it. *)
JumpSets(kind, g, c, Q1, Q2) ==
  /\ kind = "endand" => Q1 = {g.jump, Len(c) + 1} /\ Q2 = {Len(c) + 3}
  /\ kind = "endor" => Q1 = {Len(c) + 1} /\ Q2 = {g.jump, Len(c) + 3}

(* The end of && and ||. *)
LEMMA NormalItem ==
  ASSUME NEW body, NEW i, NEW c, NEW N, NEW S, NEW R, NEW P, NEW tc, NEW a, NEW T,
         BodyInv(body, i, c, N, S, R, P, tc, a, T),
         Kind(body, i) \in {"endand", "endor"},
         NEW x1, Made(body, x1, "jumpfalse", Nowhere, i), NEW x2, Made(body, x2, "const", 1, i),
         NEW x3, Made(body, x3, "jump", Nowhere, i), NEW x4, Made(body, x4, "const", 0, i),
         NEW g, NEW M, Splits(N, g, M),
         NEW Q1, NEW Q2, JumpSets(Kind(body, i), g, c, Q1, Q2),
         NEW d, Joins(c, Normal(x1, x2, x3, x4), d),
         NEW e, Patches(d, Q1, Len(c) + 4, e), NEW f, Patches(e, Q2, Len(c) + 5, f)
  PROVE  \E b : BodyInv(body, i + 1, f, M, S, R, P, tc, b, T)
<1>1. /\ Body(body) /\ i \in 1..Len(body) /\ i \in Nat /\ Operands(body, i) \in Nat
      /\ NotLast(body, i) /\ Open(body, i) \in Seq(Nat) /\ Len(c) \in Nat
      /\ a[Len(c) + 1] = State(body, T, Operands(body, i), Loops(body, i))
      /\ Unresolved(c) \subseteq Remembered(N, S, P, Part(body, i))
  BY ItemFacts DEF NotLast, Kind
<1>2. Kind(body, i) \in {"endif", "endand", "endor"}
  OBVIOUS
<1>3. PICK p, K : Splits(Open(body, i), p, K)
  BY DEF Splits
<1>4. /\ Open(body, i) # <<>>
      /\ Kind(body, i) = "endand" => Kind(body, p) = "and"
      /\ Kind(body, i) = "endor" => Kind(body, p) = "or"
      /\ Loops(body, p) = Loops(body, i)
      /\ Operands(body, p) = Operands(body, i)
      /\ Open(body, i + 1) = K
      /\ Loops(body, i + 1) = Loops(body, i)
      /\ Part(body, i + 1) = Part(body, i)
      /\ Operands(body, i + 1) = Operands(body, i)
  BY <1>1, <1>2, <1>3, MoveClose
<1>5. Operands(body, i) > 0
  <2>1. Kind(body, p) \in {"if", "and", "or"}
    BY <1>4
  <2>2. NotLast(body, p)
    <3>1. p \in 1..Len(body)
      BY <1>1, <1>3, <1>4, OpenBefore
    <3> QED
      BY <2>1, <3>1 DEF NotLast, Kind
  <2>3. Operands(body, p) > 0
    BY <1>1, <2>1, <2>2, MoveTest
  <2> QED
    BY <1>4, <2>3
<1>6. PICK v, u : /\ v = State(body, T, Operands(body, i), Loops(body, i))
                  /\ u = State(body, T, Operands(body, i) - 1, Loops(body, i))
  OBVIOUS
<1>7. v \in States /\ u \in States
  BY <1>1, <1>5, <1>6, StateTyped
<1>8. v.height = u.height + 1 /\ v.bound = u.bound
  BY <1>1, <1>6 DEF State
<1>9. Kind(body, i) # "each" /\ Kind(body, i) # "label" /\ Kind(body, i) \notin Statements
  BY DEF Statements
<1>10. PICK x, s : /\ x = Normal(x1, x2, x3, x4)
                   /\ Block(body, c, a, x, s)
                   /\ Plain(body, x, i, tc)
                   /\ Len(x) = 4 /\ x[1] = x1 /\ x[3] = x3
                   /\ Unresolved(x) = {1, 3}
                   /\ Len(s) = 5 /\ s[1] = v /\ s[3] = v /\ s[4] = u /\ s[5] = v
                   /\ Leads(x1, v, u) /\ Leads(x3, v, v)
  <2>1. a[Len(c) + 1] = v
    BY <1>1, <1>6
  <2>2. PICK x, s : NormalEnd(body, i, c, a, x1, x2, x3, x4, v, u, x, s)
    BY <1>1, <2>1, <1>7, <1>8, <1>9, NormalBlock
  <2> QED
    BY <2>2 DEF NormalEnd
<1>11. Joins(c, x, d) /\ Block(body, c, a, x, s) /\ Plain(body, x, i, tc)
  BY <1>10
<1>12. /\ Len(d) = Len(c) + Len(x)
       /\ Unresolved(d) = Unresolved(c) \cup {Len(c) + k : k \in Unresolved(x)}
       /\ \A k \in 1..Len(x) : d[Len(c) + k] = x[k]
       /\ GrownBy(body, c, a, d, s, T, Open(body, i), N, Loops(body, i), S, i + 1, tc)
  BY <1>1, <1>9, <1>11, EmitBlock
<1>13. PICK t : /\ Sound(body, d, t, T, Open(body, i), N, Loops(body, i), S, i + 1, tc)
                /\ Kept(c, a, d, t)
                /\ \A k \in 1..Len(s) : t[Len(c) + k] = s[k]
  BY <1>12 DEF GrownBy
<1>14. /\ Len(d) = Len(c) + 4 /\ d[Len(c) + 1] = x1 /\ d[Len(c) + 3] = x3
       /\ t[Len(c) + 1] = v /\ t[Len(c) + 3] = v /\ t[Len(c) + 4] = u /\ t[Len(c) + 5] = v
       /\ Unresolved(d) = Unresolved(c) \cup {Len(c) + 1, Len(c) + 3}
  <2>1. /\ Len(d) = Len(c) + 4 /\ 3 \in 1..Len(x) /\ 1 \in 1..Len(x)
        /\ 1 \in 1..Len(s) /\ 3 \in 1..Len(s) /\ 4 \in 1..Len(s) /\ 5 \in 1..Len(s)
    BY <1>10, <1>12
  <2>2. d[Len(c) + 1] = x[1] /\ d[Len(c) + 3] = x[3]
    BY <1>12, <2>1
  <2>3. /\ t[Len(c) + 1] = s[1] /\ t[Len(c) + 3] = s[3]
        /\ t[Len(c) + 4] = s[4] /\ t[Len(c) + 5] = s[5]
    BY <1>13, <2>1
  <2> QED
    BY <1>10, <1>12, <2>1, <2>2, <2>3
<1>15. Promised(d, t, Len(c) + 1, u) /\ Promised(d, t, Len(c) + 3, v)
  <2>1. x1.op \in Jumps /\ x3.op \in Jumps
    BY DEF Made, Jumps
  <2>2. Len(c) + 1 \in 1..Len(d) /\ Len(c) + 3 \in 1..Len(d)
    BY <1>1, <1>14
  <2> QED
    BY <1>10, <1>14, <2>1, <2>2 DEF Promised
<1>16. /\ FrameHolds(body, d, t, T, p, g)
       /\ g \in FrameRecords /\ M \in Seq(FrameRecords)
       /\ N = Pushed(g, M)
  <2>1. Frames(body, d, t, T, Open(body, i), N)
    BY <1>13 DEF Sound
  <2> QED
    BY <1>1, <1>3, <1>4, <2>1, FramesSplit
<1>17. /\ Kind(body, i) = "endand" => Promised(d, t, g.jump, u)
       /\ Kind(body, i) = "endor" => Promised(d, t, g.jump, v)
  BY <1>4, <1>6, <1>16 DEF FrameHolds
<1>18. /\ \A j \in Q1 : Promised(d, t, j, u)
       /\ \A j \in Q2 : Promised(d, t, j, v)
       /\ Q1 \cup Q2 = {g.jump, Len(c) + 1, Len(c) + 3}
  BY <1>15, <1>17 DEF JumpSets
<1>19. MayPatch(d, t, Q1, Len(c) + 4)
  BY <1>1, <1>14, <1>18 DEF MayPatch
<1>20. /\ Sound(body, e, t, T, Open(body, i), N, Loops(body, i), S, i + 1, tc)
       /\ Kept(d, t, e, t)
       /\ Len(e) = Len(d)
       /\ Unresolved(e) = Unresolved(d) \ Q1
  BY <1>13, <1>19, PatchSound
<1>21. MayPatch(e, t, Q2, Len(c) + 5)
  <2>1. \A j \in Q2 : Promised(e, t, j, v)
    BY <1>18, <1>20, KeptPromise
  <2> QED
    BY <1>1, <1>14, <1>20, <2>1 DEF MayPatch
<1>22. /\ Sound(body, f, t, T, Open(body, i), N, Loops(body, i), S, i + 1, tc)
       /\ Kept(e, t, f, t)
       /\ Len(f) = Len(e)
       /\ Unresolved(f) = Unresolved(e) \ Q2
  BY <1>20, <1>21, PatchSound
<1>23. Frames(body, f, t, T, Open(body, i + 1), M)
  BY <1>1, <1>3, <1>4, <1>22, FramesSplit DEF Sound
<1>24. Sound(body, f, t, T, Open(body, i + 1), M, Loops(body, i + 1), S, i + 1, tc)
  BY <1>4, <1>22, <1>23 DEF Sound
<1>25. JumpsOf(N) = JumpsOf(M) \cup {g.jump}
  BY <1>16, JumpsPush
<1>26. Unresolved(f) \subseteq Remembered(M, S, P, Part(body, i + 1))
  <2>1. Unresolved(f) \subseteq Unresolved(c) \ {g.jump}
    BY <1>14, <1>18, <1>20, <1>22
  <2> QED
    BY <1>1, <1>4, <1>25, <2>1 DEF Remembered
<1>27. t[Len(f) + 1] = State(body, T, Operands(body, i + 1), Loops(body, i + 1))
  BY <1>1, <1>4, <1>6, <1>14, <1>20, <1>22
<1>28. Kept(c, a, f, t)
  <2>1. Kept(c, a, e, t)
    BY <1>13, <1>20, KeptTwice
  <2> QED
    BY <1>22, <2>1, KeptTwice
<1>29. BodyInv(body, i + 1, f, M, S, R, P, tc, t, T)
  BY <1>1, <1>9, <1>24, <1>26, <1>27, <1>28, Advance
<1> QED
  BY <1>29

-----------------------------------------------------------------------------
(* The temporaries of a loop to come do not matter to what came before. *)

Agree(T, T2, i) == T2 \in [Nat -> Nat] /\ \A h \in 0..i : T2[h] = T[h]

(* Temporaries that are given to a later foreach change nothing about the  *)
(* items before it.                                                        *)
LEMMA StateAgrees ==
  ASSUME NEW T, NEW T2, NEW i, Agree(T, T2, i), NEW L, Members(L) \subseteq 1..i, NEW body
  PROVE  \A k : State(body, T2, k, L) = State(body, T, k, L)
<1>1. \A h \in Members(L) : T2[h] = T[h]
  BY DEF Agree
<1>2. TempsOf(body, T2, L) = TempsOf(body, T, L)
  BY <1>1 DEF TempsOf
<1> QED
  BY <1>2 DEF State

LEMMA PlacesAgree ==
  ASSUME NEW body, Body(body), NEW T, NEW T2, NEW i, Agree(T, T2, i), i \in 1..Len(body),
         NEW p, p \in 1..i
  PROVE  /\ \A k : State(body, T2, k, Loops(body, p)) = State(body, T, k, Loops(body, p))
         /\ \A k : State(body, T2, k, Pushed(p, Loops(body, p))) =
                     State(body, T, k, Pushed(p, Loops(body, p)))
         /\ T2[p] = T[p]
<1> DEFINE n == Nesting(body)
<1>1. p \in 1..Len(body) /\ p \in Nat /\ Len(body) \in Nat
  BY DEF Body
<1>2. Loops(body, p) \in Seq(Nat) /\ Members(Loops(body, p)) \subseteq 1..p - 1
  BY <1>1, AllOpened, PlaceTyped DEF Before, Loops
<1>3. Members(Pushed(p, Loops(body, p))) = Members(Loops(body, p)) \cup {p}
  BY <1>1, <1>2, PushedTyped
<1>4. 1..p - 1 \subseteq 1..i /\ p \in 1..i
  BY <1>1
<1>5. Members(Loops(body, p)) \subseteq 1..i /\ Members(Pushed(p, Loops(body, p))) \subseteq 1..i
  BY <1>2, <1>3, <1>4
<1>6. \A k : State(body, T2, k, Loops(body, p)) = State(body, T, k, Loops(body, p))
  BY <1>5, StateAgrees
<1>7. PICK L : L = Pushed(p, Loops(body, p)) /\ Members(L) \subseteq 1..i
  BY <1>5
<1>8. \A k : State(body, T2, k, L) = State(body, T, k, L)
  BY <1>7, StateAgrees
<1>9. T2[p] = T[p]
  <2>1. \A h \in 0..i : T2[h] = T[h]
    BY DEF Agree
  <2>2. p \in 0..i
    BY <1>1
  <2> QED
    BY <2>1, <2>2
<1> QED
  BY <1>6, <1>7, <1>8, <1>9

LEMMA FrameAgrees ==
  ASSUME NEW body, Body(body), NEW T, NEW T2, NEW i, Agree(T, T2, i), i \in 1..Len(body),
         NEW p, p \in 1..i, NEW c, NEW a, NEW f, FrameHolds(body, c, a, T, p, f)
  PROVE  FrameHolds(body, c, a, T2, p, f)
  BY PlacesAgree DEF FrameHolds

LEMMA ScopeAgrees ==
  ASSUME NEW body, Body(body), NEW T, NEW T2, NEW i, Agree(T, T2, i), i \in 1..Len(body),
         NEW p, p \in 1..i, NEW c, NEW a, NEW l, ScopeHolds(body, c, a, T, p, l)
  PROVE  ScopeHolds(body, c, a, T2, p, l)
  BY PlacesAgree DEF ScopeHolds

LEMMA BodyAgrees ==
  ASSUME NEW body, NEW i, NEW c, NEW N, NEW S, NEW R, NEW P, NEW tc, NEW a, NEW T,
         BodyInv(body, i, c, N, S, R, P, tc, a, T), NEW T2, Agree(T, T2, i)
  PROVE  BodyInv(body, i, c, N, S, R, P, tc, a, T2)
<1>1. /\ Body(body) /\ i \in 1..Len(body) /\ i \in Nat
      /\ Open(body, i) \in Seq(Nat) /\ Loops(body, i) \in Seq(Nat)
      /\ Frames(body, c, a, T, Open(body, i), N)
      /\ Scopes(body, c, a, T, Loops(body, i), S)
      /\ Labels(body, c, a, T, i, R)
      /\ Gotos(body, c, a, T, i, P)
      /\ Named(body, c, T, i, tc)
      /\ a[Len(c) + 1] = State(body, T, Operands(body, i), Loops(body, i))
  BY ItemFacts
<1>2. Members(Open(body, i)) \subseteq 1..i /\ Members(Loops(body, i)) \subseteq 1..i
  <2>1. Before(Nesting(body)[i].open, i) /\ Before(Nesting(body)[i].loops, i)
    BY <1>1, AllOpened
  <2>2. 1..i - 1 \subseteq 1..i
    BY <1>1
  <2> QED
    BY <2>1, <2>2 DEF Before, Open, Loops
<1>3. i \in 1..i /\ \A l \in 1..i - 1 : l \in 1..i
  BY <1>1
<1>4. Frames(body, c, a, T2, Open(body, i), N)
  <2>1. ASSUME NEW k \in 1..Len(N) PROVE FrameHolds(body, c, a, T2, Open(body, i)[k], N[k])
    <3>1. Open(body, i)[k] \in 1..i
      BY <1>1, <1>2 DEF Frames, Members
    <3>2. FrameHolds(body, c, a, T, Open(body, i)[k], N[k])
      BY <1>1 DEF Frames
    <3> QED
      BY <1>1, <3>1, <3>2, FrameAgrees
  <2> QED
    BY <1>1, <2>1 DEF Frames
<1>5. Scopes(body, c, a, T2, Loops(body, i), S)
  <2>1. ASSUME NEW k \in 1..Len(S) PROVE ScopeHolds(body, c, a, T2, Loops(body, i)[k], S[k])
    <3>1. Loops(body, i)[k] \in 1..i
      BY <1>1, <1>2 DEF Scopes, Members
    <3>2. ScopeHolds(body, c, a, T, Loops(body, i)[k], S[k])
      BY <1>1 DEF Scopes
    <3> QED
      BY <1>1, <3>1, <3>2, ScopeAgrees
  <2> QED
    BY <1>1, <2>1 DEF Scopes
<1>6. ASSUME NEW l \in 1..i
      PROVE  \A k : State(body, T2, k, Loops(body, l)) = State(body, T, k, Loops(body, l))
  <2>1. Body(body) /\ i \in 1..Len(body)
    BY <1>1
  <2> QED
    BY <2>1, PlacesAgree
<1>7. Labels(body, c, a, T2, i, R)
  <2>1. ASSUME NEW k \in 1..Len(R) PROVE LabelHolds(body, c, a, T2, i, R[k])
    <3>1. LabelHolds(body, c, a, T, i, R[k])
      BY <1>1 DEF Labels
    <3> QED
      BY <1>3, <1>6, <3>1 DEF LabelHolds
  <2> QED
    BY <1>1, <2>1 DEF Labels
<1>8. Gotos(body, c, a, T2, i, P)
  <2>1. ASSUME NEW k \in 1..Len(P) PROVE GotoHolds(body, c, a, T2, i, P[k])
    <3>1. GotoHolds(body, c, a, T, i, P[k])
      BY <1>1 DEF Gotos
    <3> QED
      BY <1>3, <1>6, <3>1 DEF GotoHolds
  <2> QED
    BY <1>1, <2>1 DEF Gotos
<1>9. Named(body, c, T2, i, tc)
  <2>1. T2 \in [Nat -> Nat] /\ \A h \in 1..i - 1 : T2[h] = T[h]
    BY <1>3 DEF Agree
  <2>2. T2[0] = T[0]
    BY <1>1 DEF Agree
  <2> QED
    BY <1>1, <2>1, <2>2 DEF Named
<1>10. a[Len(c) + 1] = State(body, T2, Operands(body, i), Loops(body, i))
  BY <1>1, <1>3, <1>6
<1> QED
  BY <1>4, <1>5, <1>7, <1>8, <1>9, <1>10 DEF BodyInv

-----------------------------------------------------------------------------
(* foreach *)

ForeachCode(body, x, i, array, index) ==
  /\ x \in Seq(Instructions(body))
  /\ Len(x) = 12
  /\ Made(body, x[1], "define", array, i)
  /\ Made(body, x[2], "const", 0, i)
  /\ Made(body, x[3], "define", index, i)
  /\ Made(body, x[4], "load", index, i + 1)
  /\ Made(body, x[5], "load", array, i + 1)
  /\ Made(body, x[6], "length", Nowhere, i + 1)
  /\ Made(body, x[7], "less", Nowhere, i + 1)
  /\ Made(body, x[8], "jumpfalse", Nowhere, i + 1)
  /\ Made(body, x[9], "load", array, i + 1)
  /\ Made(body, x[10], "load", index, i + 1)
  /\ Made(body, x[11], "get", Nowhere, i + 1)
  /\ Made(body, x[12], "bind", Nowhere, i + 1)

(* A state with so many operands. *)
HasState(v, height, bound) == v \in States /\ v.height = height /\ v.bound = bound

ForeachStates(s, bound, array, index) ==
  /\ s \in Seq(States)
  /\ Len(s) = 13
  /\ HasState(s[1], 1, bound)
  /\ HasState(s[2], 0, bound \cup {array})
  /\ HasState(s[3], 1, bound \cup {array})
  /\ HasState(s[4], 0, bound \cup {array, index})
  /\ HasState(s[5], 1, bound \cup {array, index})
  /\ HasState(s[6], 2, bound \cup {array, index})
  /\ HasState(s[7], 2, bound \cup {array, index})
  /\ HasState(s[8], 1, bound \cup {array, index})
  /\ HasState(s[9], 0, bound \cup {array, index})
  /\ HasState(s[10], 1, bound \cup {array, index})
  /\ HasState(s[11], 2, bound \cup {array, index})
  /\ HasState(s[12], 1, bound \cup {array, index})
  /\ HasState(s[13], 0, bound \cup {array, index})

(* There are such states. *)
LEMMA ForeachStatesAre ==
  ASSUME NEW bound, bound \in SUBSET Nat, NEW array, array \in Nat, NEW index, index \in Nat
  PROVE  \E s : ForeachStates(s, bound, array, index)
<1> DEFINE at(h, b) == [height |-> h, bound |-> b]
<1>1. PICK q, r : q = bound \cup {array} /\ r = bound \cup {array, index}
  OBVIOUS
<1>2. PICK A, B, C, D, E, F : /\ A = at(1, bound) /\ B = at(0, q) /\ C = at(1, q)
                              /\ D = at(0, r) /\ E = at(1, r) /\ F = at(2, r)
  OBVIOUS
<1>3. /\ HasState(A, 1, bound) /\ HasState(B, 0, q) /\ HasState(C, 1, q)
      /\ HasState(D, 0, r) /\ HasState(E, 1, r) /\ HasState(F, 2, r)
  BY <1>1, <1>2 DEF HasState, States
<1>4. /\ A \in States /\ B \in States /\ C \in States
      /\ D \in States /\ E \in States /\ F \in States
  BY <1>3 DEF HasState
<1>5. PICK s : s = <<A, B, C, D, E, F, F, E, D, E, F, E, D>>
  OBVIOUS
<1>6. /\ s \in Seq(States) /\ Len(s) = 13
      /\ s[1] = A /\ s[2] = B /\ s[3] = C /\ s[4] = D /\ s[5] = E /\ s[6] = F /\ s[7] = F
      /\ s[8] = E /\ s[9] = D /\ s[10] = E /\ s[11] = F /\ s[12] = E /\ s[13] = D
  BY <1>4, <1>5
<1>7. ForeachStates(s, bound, array, index)
  BY <1>1, <1>3, <1>6 DEF ForeachStates
<1> QED
  BY <1>7

(* What the instructions the compiler writes by itself take and give. *)
LEMMA OpTakes ==
  ASSUME NEW body, NEW ins, NEW op, NEW arg, NEW i, Made(body, ins, op, arg, i)
  PROVE  /\ op \in {"define", "store", "jumpfalse", "bind"} => Takes(ins) = 1 /\ Gives(ins) = 0
         /\ op \in {"const", "load"} => Takes(ins) = 0 /\ Gives(ins) = 1
         /\ op = "length" => Takes(ins) = 1 /\ Gives(ins) = 1
         /\ op \in {"less", "add", "get"} => Takes(ins) = 2 /\ Gives(ins) = 1
         /\ op = "jump" => Takes(ins) = 0 /\ Gives(ins) = 0
         /\ op = "define" => Binds(ins) = {arg}
         /\ op # "define" => Binds(ins) = {}
<1>1. ins.op = op /\ ins.arg = arg
  BY DEF Made
<1> QED
  BY <1>1 DEF Takes, Gives, Binds

(* The instructions of a foreach lead from each of the states to the next. *)
LEMMA ForeachLeads ==
  ASSUME NEW body, NEW x, NEW i, NEW array, NEW index, ForeachCode(body, x, i, array, index),
         NEW s, NEW bound, ForeachStates(s, bound, array, index)
  PROVE  \A k \in 1..12 : Leads(x[k], s[k], s[k + 1])
<1>1. Leads(x[1], s[1], s[2]) /\ Leads(x[2], s[2], s[3]) /\ Leads(x[3], s[3], s[4])
  <2>1. /\ Takes(x[1]) = 1 /\ Gives(x[1]) = 0 /\ Binds(x[1]) = {array}
        /\ Takes(x[2]) = 0 /\ Gives(x[2]) = 1 /\ Binds(x[2]) = {}
        /\ Takes(x[3]) = 1 /\ Gives(x[3]) = 0 /\ Binds(x[3]) = {index}
    BY OpTakes DEF ForeachCode
  <2>2. /\ HasState(s[1], 1, bound) /\ HasState(s[2], 0, bound \cup {array})
        /\ HasState(s[3], 1, bound \cup {array}) /\ HasState(s[4], 0, bound \cup {array, index})
    BY DEF ForeachStates
  <2>3. Leads(x[1], s[1], s[2])
    BY <2>1, <2>2 DEF HasState, Leads
  <2>4. Leads(x[2], s[2], s[3])
    BY <2>1, <2>2 DEF HasState, Leads
  <2>5. Leads(x[3], s[3], s[4])
    BY <2>1, <2>2 DEF HasState, Leads
  <2> QED
    BY <2>3, <2>4, <2>5
<1>2. PICK r : r = bound \cup {array, index}
  OBVIOUS
<1>3. /\ Leads(x[4], s[4], s[5]) /\ Leads(x[5], s[5], s[6]) /\ Leads(x[6], s[6], s[7])
      /\ Leads(x[7], s[7], s[8])
  <2>1. /\ Takes(x[4]) = 0 /\ Gives(x[4]) = 1 /\ Takes(x[5]) = 0 /\ Gives(x[5]) = 1
        /\ Takes(x[6]) = 1 /\ Gives(x[6]) = 1 /\ Takes(x[7]) = 2 /\ Gives(x[7]) = 1
    BY OpTakes DEF ForeachCode
  <2>2. HasState(s[4], 0, r) /\ HasState(s[5], 1, r) /\ HasState(s[6], 2, r) /\ HasState(s[7], 2, r) /\ HasState(s[8], 1, r)
    BY <1>2 DEF ForeachStates
  <2> QED
    BY <2>1, <2>2 DEF HasState, Leads
<1>4. /\ Leads(x[8], s[8], s[9]) /\ Leads(x[9], s[9], s[10]) /\ Leads(x[10], s[10], s[11])
      /\ Leads(x[11], s[11], s[12]) /\ Leads(x[12], s[12], s[13])
  <2>1. /\ Takes(x[8]) = 1 /\ Gives(x[8]) = 0 /\ Takes(x[9]) = 0 /\ Gives(x[9]) = 1
        /\ Takes(x[10]) = 0 /\ Gives(x[10]) = 1 /\ Takes(x[11]) = 2 /\ Gives(x[11]) = 1
        /\ Takes(x[12]) = 1 /\ Gives(x[12]) = 0
    BY OpTakes DEF ForeachCode
  <2>2. /\ HasState(s[8], 1, r) /\ HasState(s[9], 0, r) /\ HasState(s[10], 1, r) /\ HasState(s[11], 2, r)
        /\ HasState(s[12], 1, r) /\ HasState(s[13], 0, r)
    BY <1>2 DEF ForeachStates
  <2> QED
    BY <2>1, <2>2 DEF HasState, Leads
<1> SUFFICES ASSUME NEW k \in 1..12 PROVE Leads(x[k], s[k], s[k + 1])
  OBVIOUS
<1>5. \/ k = 1 \/ k = 2 \/ k = 3 \/ k = 4 \/ k = 5 \/ k = 6 \/ k = 7 \/ k = 8 \/ k = 9
      \/ k = 10 \/ k = 11 \/ k = 12
  OBVIOUS
<1> QED
  BY <1>1, <1>3, <1>4, <1>5

(* They are a block, *)
LEMMA ForeachBlock ==
  ASSUME NEW body, NEW i, Kind(body, i) = "foreach",
         NEW x, NEW array, NEW index, ForeachCode(body, x, i, array, index),
         NEW s, NEW bound, ForeachStates(s, bound, array, index),
         NEW c, NEW a, s[1] = a[Len(c) + 1]
  PROVE  Block(body, c, a, x, s)
<1>1. /\ x \in Seq(Instructions(body)) /\ Len(x) = 12
      /\ s \in Seq(States) /\ Len(s) = 13
  BY DEF ForeachCode, ForeachStates
<1>2. \A k \in 1..12 : Leads(x[k], s[k], s[k + 1])
  BY ForeachLeads
<1>3. /\ x[1].op = "define" /\ x[2].op = "const" /\ x[3].op = "define"
      /\ x[4].op = "load" /\ x[4].arg = index /\ x[5].op = "load" /\ x[5].arg = array
      /\ x[6].op = "length" /\ x[7].op = "less" /\ x[8].op = "jumpfalse" /\ x[8].arg = Nowhere
      /\ x[9].op = "load" /\ x[9].arg = array /\ x[10].op = "load" /\ x[10].arg = index
      /\ x[11].op = "get" /\ x[12].op = "bind"
  BY DEF ForeachCode, Made
<1>4. /\ x[1].item = i /\ x[2].item = i /\ x[3].item = i
      /\ x[4].item = i + 1 /\ x[5].item = i + 1 /\ x[6].item = i + 1
      /\ x[7].item = i + 1 /\ x[8].item = i + 1 /\ x[9].item = i + 1
      /\ x[10].item = i + 1 /\ x[11].item = i + 1 /\ x[12].item = i + 1
  BY DEF ForeachCode, Made
<1>5. \A k \in 1..12 :
        \/ k = 1 \/ k = 2 \/ k = 3 \/ k = 4 \/ k = 5 \/ k = 6 \/ k = 7 \/ k = 8 \/ k = 9
        \/ k = 10 \/ k = 11 \/ k = 12
  OBVIOUS
<1>6. ASSUME NEW k \in 1..12, Begins(body, x, k) PROVE s[k].height = 0
  <2>1. k = 4
    <3>1. k \notin {1, 2, 3}
      BY <1>4, <1>6 DEF Begins, Kind, Statements
    <3>2. k \notin 5..12
      BY <1>4, <1>6 DEF Begins
    <3> QED
      BY <1>5, <3>1, <3>2
  <2> QED
    BY <2>1 DEF ForeachStates, HasState
<1>7. ASSUME NEW k \in 1..12, x[k].op = "load" PROVE x[k].arg \in s[k].bound
  <2>1. PICK r : r = bound \cup {array, index}
    OBVIOUS
  <2>2. s[4].bound = r /\ s[5].bound = r /\ s[9].bound = r /\ s[10].bound = r
    BY <2>1 DEF ForeachStates, HasState
  <2>3. k = 4 \/ k = 5 \/ k = 9 \/ k = 10
    BY <1>3, <1>5, <1>7
  <2> QED
    BY <1>3, <2>1, <2>2, <2>3
<1>8. ASSUME NEW k \in 1..12
      PROVE  ~(x[k].op \in Jumps /\ x[k].arg # Nowhere) /\ x[k].op # "return"
  BY <1>3, <1>5 DEF Jumps
<1>9. Len(x) = 12 /\ Len(s) = Len(x) + 1 /\ s[1] = a[Len(c) + 1]
  BY <1>1
<1>10. ASSUME NEW k \in 1..12
       PROVE  /\ x[k].op = "load" => x[k].arg \in s[k].bound
              /\ x[k].op \notin {"jump", "return"} => Leads(x[k], s[k], s[k + 1])
              /\ x[k].op # "return" /\ ~(x[k].op \in Jumps /\ x[k].arg # Nowhere)
              /\ Begins(body, x, k) => s[k].height = 0
  BY <1>2, <1>6, <1>7, <1>8
<1> QED
  BY <1>1, <1>9, <1>10 DEF Block

(* with one jump that waits for its address, *)
LEMMA ForeachUnresolved ==
  ASSUME NEW body, NEW x, NEW i, NEW array, NEW index, ForeachCode(body, x, i, array, index)
  PROVE  Unresolved(x) = {8}
<1>1. Len(x) = 12
  BY DEF ForeachCode
<1>2. /\ x[1].op = "define" /\ x[2].op = "const" /\ x[3].op = "define"
      /\ x[4].op = "load" /\ x[5].op = "load"
      /\ x[6].op = "length" /\ x[7].op = "less" /\ x[8].op = "jumpfalse" /\ x[8].arg = Nowhere
      /\ x[9].op = "load" /\ x[10].op = "load"
      /\ x[11].op = "get" /\ x[12].op = "bind"
  BY DEF ForeachCode, Made
<1>3. \A k \in 1..Len(x) :
        \/ k = 1 \/ k = 2 \/ k = 3 \/ k = 4 \/ k = 5 \/ k = 6 \/ k = 7 \/ k = 8 \/ k = 9
        \/ k = 10 \/ k = 11 \/ k = 12
  BY <1>1
<1>4. \A k \in 1..Len(x) : x[k].op \in Jumps => k = 8
  BY <1>2, <1>3 DEF Jumps
<1>5. 8 \in 1..Len(x) /\ x[8].op \in Jumps
  BY <1>1, <1>2 DEF Jumps
<1> QED
  BY <1>2, <1>4, <1>5 DEF Unresolved

(* and the two temporaries are new. *)
LEMMA ForeachNames ==
  ASSUME NEW body, NEW x, NEW i, NEW tc, ForeachCode(body, x, i, tc, tc + 1), i \in Nat,
         NEW c, NEW T, Named(body, c, T, i, tc), c \in Seq(Instructions(body)), Sources(body, c, i),
         Kind(body, i) # "each", T[i + 1] = tc, NEW d, Joins(c, x, d)
  PROVE  Named(body, d, T, i + 2, tc + 2) /\ Sources(body, d, i + 2)
<1>1. tc \in Nat /\ T \in [Nat -> Nat]
  BY DEF Named
<1>2. x \in Seq(Instructions(body)) /\ Len(x) = 12
  BY DEF ForeachCode
<1>3. /\ x[1].op = "define" /\ x[1].arg = tc /\ x[2].op = "const"
      /\ x[3].op = "define" /\ x[3].arg = tc + 1
      /\ x[4].op = "load" /\ x[4].arg = tc + 1 /\ x[5].op = "load" /\ x[5].arg = tc
      /\ x[6].op = "length" /\ x[7].op = "less" /\ x[8].op = "jumpfalse"
      /\ x[9].op = "load" /\ x[9].arg = tc /\ x[10].op = "load" /\ x[10].arg = tc + 1
      /\ x[11].op = "get" /\ x[12].op = "bind"
  BY DEF ForeachCode, Made
<1>4. /\ x[1].item = i /\ x[2].item = i /\ x[3].item = i
      /\ x[4].item = i + 1 /\ x[5].item = i + 1 /\ x[6].item = i + 1
      /\ x[7].item = i + 1 /\ x[8].item = i + 1 /\ x[9].item = i + 1
      /\ x[10].item = i + 1 /\ x[11].item = i + 1 /\ x[12].item = i + 1
  BY DEF ForeachCode, Made
<1>5. \A k \in 1..Len(x) :
        \/ k = 1 \/ k = 2 \/ k = 3 \/ k = 4 \/ k = 5 \/ k = 6 \/ k = 7 \/ k = 8 \/ k = 9
        \/ k = 10 \/ k = 11 \/ k = 12
  BY <1>2
<1>6. \A k \in 1..Len(x) : x[k].op \in {"define", "load", "store"} => x[k].arg \in {tc, tc + 1}
  BY <1>3, <1>5
<1>7. \A k \in 1..Len(x) : x[k].item \in {i, i + 1} /\ x[k].op # "main"
  BY <1>3, <1>4, <1>5
<1>8. Sources(body, c \o x, i + 2)
  <2>1. \A k \in 1..Len(x) :
          x[k].item < i + 2 /\ (x[k].op = "main" => body[x[k].item].kind = "main")
    BY <1>7
  <2>2. i + 2 \in Nat /\ i <= i + 2
    OBVIOUS
  <2> QED
    BY <1>2, <2>1, <2>2, SourcesEmit
<1>9. /\ Len(d) = Len(c) + Len(x) /\ Len(c) \in Nat /\ Len(x) \in Nat
      /\ \A k \in 1..Len(c) : d[k] = c[k]
      /\ \A k \in 1..Len(x) : d[Len(c) + k] = x[k]
  <2>1. /\ Len(c \o x) = Len(c) + Len(x)
        /\ \A k \in 1..Len(c) : (c \o x)[k] = c[k]
        /\ \A k \in 1..Len(x) : (c \o x)[Len(c) + k] = x[k]
    <3>1. x \in Seq(Instructions(body))
      BY <1>2
    <3> QED
      BY <3>1, Joined
  <2>2. Len(c) \in Nat /\ Len(x) \in Nat
    BY <1>2
  <2> QED
    BY <2>1, <2>2 DEF Joins
<1>10. \A j \in 1..Len(d) :
         j \in 1..Len(c) \/ (j - Len(c) \in 1..Len(x) /\ j = Len(c) + (j - Len(c)))
  BY <1>9
<1>11. ASSUME NEW j \in 1..Len(d), d[j].op \in {"define", "load", "store"} PROVE d[j].arg < tc + 2
  <2>1. CASE j \in 1..Len(c)
    <3>1. c[j].arg \in Nat
      <4>1. c[j] \in Instructions(body)
        BY <2>1
      <4> QED
        BY <4>1 DEF Instructions
    <3>2. d[j] = c[j] /\ c[j].arg < tc
      BY <1>9, <1>11, <2>1 DEF Named
    <3>3. PICK n : n = c[j].arg
      OBVIOUS
    <3>4. n \in Nat /\ n < tc /\ d[j].arg = n
      BY <3>1, <3>2, <3>3
    <3>5. n < tc + 2
      BY <1>1, <3>4
    <3> QED
      BY <3>4, <3>5
  <2>2. CASE j \notin 1..Len(c)
    <3>1. PICK k \in 1..Len(x) : j = Len(c) + k
      BY <1>10, <2>2
    <3>2. d[j] = x[k]
      BY <1>9, <3>1
    <3>3. d[j].arg \in {tc, tc + 1}
      BY <1>6, <1>11, <3>2
    <3>4. tc < tc + 2 /\ tc + 1 < tc + 2
      BY <1>1
    <3> QED
      BY <3>3, <3>4
  <2> QED
    BY <2>1, <2>2
<1>12. ASSUME NEW h \in 1..(i + 2) - 1, Kind(body, h) = "each" PROVE T[h] + 1 < tc + 2
  <2>1. h \in 1..i - 1 \/ h = i \/ h = i + 1
    OBVIOUS
  <2>2. CASE h \in 1..i - 1
    <3>1. T[h] \in Nat /\ T[h] + 1 < tc
      <4>1. h \in Nat
        BY <2>2
      <4>2. T[h] \in Nat
        BY <1>1, <4>1
      <4>3. T[h] + 1 < tc
        BY <1>12, <2>2 DEF Named
      <4> QED
        BY <4>2, <4>3
    <3>2. tc \in Nat
      BY <1>1
    <3> QED
      BY <3>1, <3>2
  <2>3. CASE h = i + 1
    BY <1>1, <2>3
  <2> QED
    BY <1>12, <2>1, <2>2, <2>3
<1>13. tc + 2 \in Nat
  BY <1>1
<1>14. Apart(d, T[0], tc + 2)
  <2>1. PICK low : low = T[0] /\ low \in Nat
    BY <1>1
  <2>2. Apart(c, low, tc)
    BY <2>1 DEF Named
  <2>3. \A j \in 1..Len(c) : c[j].arg \in Nat
    <3>1. \A j \in 1..Len(c) : c[j] \in Instructions(body)
      OBVIOUS
    <3> QED
      BY <3>1 DEF Instructions
  <2>4. ASSUME NEW j, j \in 1..Len(d), d[j].op = "define"
        PROVE  \/ j \in 1..Len(c) /\ d[j] = c[j] /\ c[j].op = "define"
               \/ j = Len(c) + 1 /\ d[j].arg = tc
               \/ j = Len(c) + 3 /\ d[j].arg = tc + 1
    <3>1. CASE j \in 1..Len(c)
      BY <1>9, <2>4, <3>1
    <3>2. CASE j \notin 1..Len(c)
      <4>1. PICK k \in 1..Len(x) : j = Len(c) + k
        BY <1>10, <2>4, <3>2
      <4>2. d[j] = x[k]
        BY <1>9, <4>1
      <4>3. k = 1 \/ k = 3
        BY <1>3, <1>5, <2>4, <4>2
      <4> QED
        BY <1>3, <4>1, <4>2, <4>3
    <3> QED
      BY <3>1, <3>2
  <2>5. ASSUME NEW j, j \in 1..Len(d), d[j].op = "define"
        PROVE  /\ low <= d[j].arg /\ d[j].arg < tc + 2 /\ d[j].arg \in Nat
               /\ j \in 1..Len(c) => d[j].arg < tc
    <3>1. PICK n : n = d[j].arg
      OBVIOUS
    <3>2. low <= tc
      BY <2>2 DEF Apart
    <3>3. CASE j \in 1..Len(c) /\ d[j] = c[j] /\ c[j].op = "define"
      <4>1. n \in Nat /\ low <= n /\ n < tc
        BY <2>2, <2>3, <3>1, <3>3 DEF Apart
      <4>2. n < tc + 2
        BY <1>1, <4>1
      <4> QED
        BY <3>1, <4>1, <4>2
    <3>4. CASE j = Len(c) + 1 /\ d[j].arg = tc
      <4>1. low <= n /\ n < tc + 2 /\ n \in Nat
        BY <1>1, <2>1, <3>1, <3>2, <3>4
      <4>2. j \notin 1..Len(c)
        BY <1>9, <3>4
      <4> QED
        BY <3>1, <4>1, <4>2
    <3>5. CASE j = Len(c) + 3 /\ d[j].arg = tc + 1
      <4>1. low <= n /\ n < tc + 2 /\ n \in Nat
        BY <1>1, <2>1, <3>1, <3>2, <3>5
      <4>2. j \notin 1..Len(c)
        BY <1>9, <3>5
      <4> QED
        BY <3>1, <4>1, <4>2
    <3> QED
      BY <2>4, <2>5, <3>3, <3>4, <3>5
  <2>6. ASSUME NEW j \in 1..Len(d), NEW k \in 1..Len(d),
               d[j].op = "define", d[k].op = "define", d[j].arg = d[k].arg
        PROVE  j = k
    <3>1. PICK n : n = d[j].arg
      OBVIOUS
    <3>2. /\ n \in Nat /\ n = d[k].arg
          /\ j \in 1..Len(c) => n < tc
          /\ k \in 1..Len(c) => n < tc
      BY <2>5, <2>6, <3>1
    <3>3. \/ j \in 1..Len(c) /\ d[j] = c[j] /\ c[j].op = "define"
          \/ j = Len(c) + 1 /\ n = tc
          \/ j = Len(c) + 3 /\ n = tc + 1
      BY <2>4, <2>6, <3>1
    <3>4. \/ k \in 1..Len(c) /\ d[k] = c[k] /\ c[k].op = "define"
          \/ k = Len(c) + 1 /\ n = tc
          \/ k = Len(c) + 3 /\ n = tc + 1
      BY <2>4, <2>6, <3>2
    <3>5. CASE n < tc
      <4>1. n # tc /\ n # tc + 1
        <5>1. n \in Nat
          BY <3>2
        <5> QED
          BY <1>1, <3>5, <5>1
      <4> QED
        BY <2>2, <2>6, <3>3, <3>4, <4>1 DEF Apart
    <3>6. CASE ~(n < tc)
      <4>1. tc # tc + 1
        BY <1>1
      <4> QED
        BY <3>2, <3>3, <3>4, <3>6, <4>1
    <3> QED
      BY <3>5, <3>6
  <2>7. low <= tc + 2
    <3>1. low <= tc
      BY <2>2 DEF Apart
    <3> QED
      BY <1>1, <2>1, <3>1
  <2> QED
    BY <2>1, <2>5, <2>6, <2>7 DEF Apart
<1>15. Named(body, d, T, i + 2, tc + 2)
  BY <1>1, <1>11, <1>12, <1>13, <1>14 DEF Named
<1> QED
  BY <1>8, <1>15 DEF Joins

(* The frame of a foreach that starts with the fourth instruction from here.*)
ForeachFrame(f, c, tc) ==
  f.start = Len(c) + 4 /\ f.jump = Len(c) + 8 /\ f.array = tc /\ f.index = tc + 1

(* A foreach and its head. *)
LEMMA ForeachItem ==
  ASSUME NEW body, NEW i, NEW c, NEW N, NEW S, NEW R, NEW P, NEW tc, NEW a, NEW T,
         BodyInv(body, i, c, N, S, R, P, tc, a, T),
         Kind(body, i) = "foreach",
         NEW x, ForeachCode(body, x, i, tc, tc + 1),
         NEW f, ForeachFrame(f, c, tc), f \in FrameRecords,
         NEW l, Fresh(l),
         NEW d, Joins(c, x, d)
  PROVE  \E b, T2 : /\ BodyInv(body, i + 2, d, Pushed(f, N), Pushed(l, S), R, P, tc + 2, b, T2)
                    /\ Base(T2) = Base(T)
<1>1. /\ Body(body) /\ i \in 1..Len(body) /\ i \in Nat /\ NotLast(body, i)
      /\ Kind(body, i) # "each"
  BY ItemFacts DEF NotLast, Kind
<1>2. T \in [Nat -> Nat] /\ tc \in Nat
  BY DEF BodyInv, Named
<1>3. PICK T2 : Agree(T, T2, i) /\ T2[i + 1] = tc
  <2>1. PICK T2 : T2 = [T EXCEPT ![i + 1] = tc]
    OBVIOUS
  <2>2. T2 \in [Nat -> Nat] /\ T2[i + 1] = tc /\ \A h \in 0..i : T2[h] = T[h]
    <3>1. i + 1 \in Nat /\ \A h \in 0..i : h \in Nat /\ h # i + 1
      BY <1>1
    <3> QED
      BY <1>2, <2>1, <3>1
  <2> QED
    BY <2>2 DEF Agree
<1>4. BodyInv(body, i, c, N, S, R, P, tc, a, T2)
  BY <1>3, BodyAgrees
<1>5. /\ Flow(body, c, a) /\ c \in Seq(Instructions(body)) /\ Len(c) \in Nat
      /\ a[Len(c) + 1] = State(body, T2, Operands(body, i), Loops(body, i))
      /\ Frames(body, c, a, T2, Open(body, i), N)
      /\ Scopes(body, c, a, T2, Loops(body, i), S)
      /\ N \in Seq(FrameRecords) /\ S \in Seq(ScopeRecords)
      /\ Labels(body, c, a, T2, i, R)
      /\ Gotos(body, c, a, T2, i, P)
      /\ Unresolved(c) \subseteq Remembered(N, S, P, Part(body, i))
      /\ Named(body, c, T2, i, tc)
      /\ Sources(body, c, i)
      /\ Open(body, i) \in Seq(Nat) /\ Loops(body, i) \in Seq(Nat)
  BY <1>4, ItemFacts
<1>6. /\ Operands(body, i) = 1
      /\ Part(body, i) = "body"
      /\ NotLast(body, i + 1)
      /\ Kind(body, i + 1) = "each"
      /\ Open(body, i + 1) = Open(body, i)
      /\ Loops(body, i + 1) = Loops(body, i)
      /\ Part(body, i + 1) = "body"
  BY <1>1, MoveForeach
<1>7. PICK m, p : m = i + 2 /\ p = i + 1 /\ m = p + 1
  BY <1>1
<1>8. /\ Open(body, m) = Pushed(p, Open(body, i))
      /\ Loops(body, m) = Pushed(p, Loops(body, i))
      /\ Part(body, m) = "body"
      /\ Operands(body, m) = 0
      /\ m \in 1..Len(body) /\ m \in Nat /\ p \in Nat /\ i <= m
  <2>1. /\ Open(body, p + 1) = Pushed(p, Open(body, p))
        /\ Loops(body, p + 1) = Pushed(p, Loops(body, p))
        /\ Part(body, p + 1) = Part(body, p)
        /\ Operands(body, p + 1) = 0
    BY <1>1, <1>6, <1>7, MoveEach
  <2>2. p + 1 \in 1..Len(body)
    BY <1>1, <1>6, <1>7, Forward
  <2> QED
    BY <1>1, <1>6, <1>7, <2>1, <2>2
<1>9. PICK bound : bound = TempsOf(body, T2, Loops(body, i)) /\ bound \in SUBSET Nat
  BY DEF TempsOf
<1>10. PICK s : ForeachStates(s, bound, tc, tc + 1)
  <2>1. tc + 1 \in Nat
    BY <1>2
  <2> QED
    BY <1>2, <1>9, <2>1, ForeachStatesAre
<1>11. PICK u : u = State(body, T2, 0, Loops(body, i))
  OBVIOUS
<1>12. PICK w : w = State(body, T2, 0, Loops(body, m))
  OBVIOUS
<1>13. s[1] = a[Len(c) + 1]
  <2>1. s[1] \in States /\ s[1].height = 1 /\ s[1].bound = bound
    BY <1>10 DEF ForeachStates, HasState
  <2> QED
    BY <1>5, <1>6, <1>9, <2>1 DEF State, States
<1>14. w.height = 0 /\ w.bound = bound \cup {tc, tc + 1}
  <2>1. Kind(body, p) = "each" /\ T2[p] = tc /\ w.bound = TempsOf(body, T2, Pushed(p, Loops(body, i)))
    BY <1>3, <1>6, <1>7, <1>8, <1>12 DEF State
  <2>2. \A t \in Nat : t \in TempsOf(body, T2, Pushed(p, Loops(body, i))) <=>
          t \in TempsOf(body, T2, Loops(body, i)) \/ t = T2[p] \/ t = T2[p] + 1
    BY <1>5, <1>8, <2>1, TempsPush
  <2>3. w.bound \subseteq Nat /\ tc + 1 \in Nat
    BY <1>2, <2>1 DEF TempsOf
  <2>4. w.height = 0
    BY <1>12 DEF State
  <2> QED
    BY <1>2, <1>9, <2>1, <2>2, <2>3, <2>4
<1>15. s[4] = w /\ s[13] = w
  <2>1. HasState(s[4], 0, bound \cup {tc, tc + 1}) /\ HasState(s[13], 0, bound \cup {tc, tc + 1})
    BY <1>10 DEF ForeachStates
  <2>2. w \in States
    BY <1>12, StateTyped
  <2> QED
    BY <1>14, <2>1, <2>2 DEF HasState, States
<1>16. Block(body, c, a, x, s)
  BY <1>10, <1>13, ForeachBlock
<1>17. Len(x) = 12 /\ Len(s) = 13 /\ x \in Seq(Instructions(body))
  BY <1>10 DEF ForeachCode, ForeachStates
<1>18. PICK t : /\ Flow(body, d, t)
                /\ Kept(c, a, d, t)
                /\ \A k \in 1..Len(s) : t[Len(c) + k] = s[k]
                /\ Len(d) = Len(c) + Len(x)
                /\ \A k \in 1..Len(x) : d[Len(c) + k] = x[k]
  <2>1. d = c \o x
    BY DEF Joins
  <2>2. /\ Len(c \o x) = Len(c) + Len(x)
        /\ \A k \in 1..Len(x) : (c \o x)[Len(c) + k] = x[k]
        /\ \E t : /\ Flow(body, c \o x, t)
                  /\ Kept(c, a, c \o x, t)
                  /\ \A k \in 1..Len(s) : t[Len(c) + k] = s[k]
    BY <1>5, <1>16, Emit
  <2> QED
    BY <2>1, <2>2
<1>19. Unresolved(d) = Unresolved(c) \cup {Len(c) + 8}
  <2>1. Unresolved(d) = Unresolved(c) \cup {Len(c) + k : k \in Unresolved(x)}
    BY <1>5, <1>17, UnresolvedEmit DEF Joins
  <2>2. Unresolved(x) = {8}
    BY ForeachUnresolved
  <2> QED
    BY <2>1, <2>2
<1>20. /\ Len(d) = Len(c) + 12 /\ d[Len(c) + 8] = x[8]
       /\ t[Len(c) + 4] = w /\ t[Len(c) + 8] = s[8] /\ t[Len(d) + 1] = w
  <2>1. /\ Len(d) = Len(c) + 12 /\ 8 \in 1..Len(x)
        /\ 4 \in 1..Len(s) /\ 8 \in 1..Len(s) /\ 13 \in 1..Len(s)
    BY <1>17, <1>18
  <2>2. /\ d[Len(c) + 8] = x[8] /\ t[Len(c) + 4] = s[4]
        /\ t[Len(c) + 8] = s[8] /\ t[Len(c) + 13] = s[13]
    BY <1>18, <2>1
  <2>3. Len(d) + 1 = Len(c) + 13
    BY <1>5, <2>1
  <2> QED
    BY <1>15, <2>1, <2>2, <2>3
<1>21. Promised(d, t, Len(c) + 8, u)
  <2>1. Made(body, x[8], "jumpfalse", Nowhere, i + 1)
    BY DEF ForeachCode
  <2>2. x[8].op \in Jumps
    BY <2>1 DEF Made, Jumps
  <2>3. Leads(x[8], s[8], u)
    <3>1. Takes(x[8]) = 1 /\ Gives(x[8]) = 0
      BY <2>1, OpTakes
    <3>2. s[8].height = 1 /\ bound \subseteq s[8].bound
      BY <1>10 DEF ForeachStates, HasState
    <3>3. u.height = 0 /\ u.bound = bound
      BY <1>9, <1>11 DEF State
    <3> QED
      BY <3>1, <3>2, <3>3 DEF Leads
  <2>4. Len(c) + 8 \in 1..Len(d)
    BY <1>5, <1>20
  <2> QED
    BY <1>20, <2>2, <2>3, <2>4 DEF Promised
<1>22. FrameHolds(body, d, t, T2, p, f)
  <2>1. f.start \in 1..Len(d) + 1 /\ t[f.start] = w /\ Promised(d, t, f.jump, u)
    BY <1>5, <1>20, <1>21 DEF ForeachFrame
  <2>2. f.array = T2[p] /\ f.index = T2[p] + 1
    BY <1>3, <1>7 DEF ForeachFrame
  <2>3. Loops(body, p) = Loops(body, i) /\ Kind(body, p) = "each"
    BY <1>6, <1>7
  <2> QED
    BY <1>8, <1>11, <1>12, <2>1, <2>2, <2>3 DEF FrameHolds
<1>23. ScopeHolds(body, d, t, T2, p, l) /\ l \in ScopeRecords
  BY FreshHolds
<1>24. PICK N2, S2 : N2 = Pushed(f, N) /\ S2 = Pushed(l, S)
  OBVIOUS
<1>25. Frames(body, d, t, T2, Open(body, m), N2)
  <2>1. Frames(body, d, t, T2, Open(body, i), N)
    BY <1>5, <1>18, FramesKept
  <2> QED
    BY <1>5, <1>8, <1>22, <1>24, <2>1, FramesPush
<1>26. Scopes(body, d, t, T2, Loops(body, m), S2)
  <2>1. Scopes(body, d, t, T2, Loops(body, i), S)
    BY <1>5, <1>18, ScopesKept
  <2> QED
    BY <1>5, <1>8, <1>23, <1>24, <2>1, ScopesPush
<1>27. Labels(body, d, t, T2, m, R)
  <2>1. \A k \in i..m - 1 : k = i \/ k = p
    BY <1>1, <1>7
  <2>2. \A k \in i..m - 1 : Kind(body, k) # "label"
    BY <1>6, <1>7, <2>1
  <2> QED
    BY <1>1, <1>5, <1>8, <1>18, <2>2, LabelsKept
<1>28. Gotos(body, d, t, T2, m, P)
  BY <1>1, <1>5, <1>8, <1>18, GotosKept
<1>29. Named(body, d, T2, m, tc + 2) /\ Sources(body, d, m)
  BY <1>1, <1>3, <1>5, <1>7, ForeachNames
<1>30. Unresolved(d) \subseteq Remembered(N2, S2, P, Part(body, m))
  <2>1. JumpsOf(N2) = JumpsOf(N) \cup {Len(c) + 8}
    BY <1>5, <1>24, JumpsPush DEF ForeachFrame
  <2>2. BreaksOf(S2) = BreaksOf(S) /\ ContinuesOf(S2) = ContinuesOf(S)
    BY <1>5, <1>24, FreshScope
  <2> QED
    BY <1>5, <1>6, <1>8, <1>19, <2>1, <2>2 DEF Remembered
<1>31. t[Len(d) + 1] = State(body, T2, Operands(body, m), Loops(body, m))
  BY <1>8, <1>12, <1>20
<1>32. BodyInv(body, m, d, N2, S2, R, P, tc + 2, t, T2)
  BY <1>1, <1>8, <1>18, <1>25, <1>26, <1>27, <1>28, <1>29, <1>30, <1>31 DEF BodyInv
<1>33. Base(T2) = Base(T)
  <2>1. 0 \in 0..i
    BY <1>1
  <2> QED
    BY <1>3, <2>1 DEF Agree, Base
<1> QED
  BY <1>7, <1>24, <1>32, <1>33

-----------------------------------------------------------------------------
(* The ends of loops *)

(* Where a loop ends. *)
EndsLoop(body, i, h, K, L) ==
  /\ Splits(Open(body, i), h, K)
  /\ Splits(Loops(body, i), h, L)
  /\ Open(body, i) # <<>>
  /\ Loops(body, i) # <<>>
  /\ Kind(body, h) = IF Kind(body, i) = "end" THEN "do" ELSE "each"
  /\ Operands(body, i) = 0
  /\ Part(body, i) = "step"
  /\ Open(body, i + 1) = K
  /\ Loops(body, i + 1) = L
  /\ Part(body, i + 1) = "body"
  /\ Operands(body, i + 1) = 0
  /\ h \in 1..i - 1 /\ h \in Nat
  /\ Loops(body, h) = L /\ L \in Seq(Nat)
  /\ Loops(body, i) = Pushed(h, L)

(* What an end ends. *)
LEMMA EndsALoop ==
  ASSUME NEW body, NEW i, Body(body), NotLast(body, i), Kind(body, i) \in Ends
  PROVE  \E h, K, L : EndsLoop(body, i, h, K, L)
<1>1. PICK p, K, h, L : Splits(Open(body, i), p, K) /\ Splits(Loops(body, i), h, L)
  BY DEF Splits
<1>2. /\ Operands(body, i) = 0
      /\ Part(body, i) = "step"
      /\ Open(body, i) # <<>>
      /\ Loops(body, i) # <<>>
      /\ p = h
      /\ Kind(body, p) = IF Kind(body, i) = "end" THEN "do" ELSE "each"
      /\ Open(body, i + 1) = K
      /\ Loops(body, i + 1) = L
      /\ Part(body, i + 1) = "body"
      /\ Operands(body, i + 1) = 0
  BY <1>1, MoveEnd
<1>3. i \in 1..Len(body)
  BY DEF NotLast
<1>4. /\ h \in 1..i - 1 /\ h \in Nat
      /\ Loops(body, h) = L /\ L \in Seq(Nat)
      /\ Loops(body, i) = Pushed(h, L)
  BY <1>1, <1>2, <1>3, Innermost
<1> QED
  BY <1>1, <1>2, <1>4 DEF EndsLoop

(* The jumps that leave the loop get their address, and it is left. *)
LEMMA CloseLoop ==
  ASSUME NEW body, NEW i, NEW c, NEW N, NEW S, NEW R, NEW P, NEW tc, NEW a, NEW T,
         BodyInv(body, i, c, N, S, R, P, tc, a, T),
         NotLast(body, i), Kind(body, i) \in Ends,
         NEW h, NEW K, NEW L, EndsLoop(body, i, h, K, L),
         NEW d, NEW t, Sound(body, d, t, T, Open(body, i), N, Loops(body, i), S, i + 1, tc),
         Kept(c, a, d, t), t[Len(d) + 1] = State(body, T, 0, L), Unresolved(d) = Unresolved(c),
         NEW g, NEW M, Splits(N, g, M), NEW l, NEW S2, Splits(S, l, S2),
         NEW Q, \A j : j \in Q <=> j = g.jump \/ j \in l.breaks,
         NEW e, Patches(d, Q, Len(d) + 1, e)
  PROVE  \E b : BodyInv(body, i + 1, e, M, S2, R, P, tc, b, T)
<1>1. /\ Body(body) /\ i \in 1..Len(body) /\ i \in Nat
      /\ Open(body, i) \in Seq(Nat) /\ Loops(body, i) \in Seq(Nat)
      /\ Unresolved(c) \subseteq Remembered(N, S, P, Part(body, i))
  BY ItemFacts
<1>2. /\ Splits(Open(body, i), h, K)
      /\ Splits(Loops(body, i), h, L)
      /\ Open(body, i) # <<>>
      /\ Loops(body, i) # <<>>
      /\ Kind(body, h) \in {"do", "each"}
      /\ Part(body, i) = "step"
      /\ Open(body, i + 1) = K
      /\ Loops(body, i + 1) = L
      /\ Part(body, i + 1) = "body"
      /\ Operands(body, i + 1) = 0
      /\ Loops(body, h) = L
  BY DEF EndsLoop
<1>3. /\ FrameHolds(body, d, t, T, h, g)
      /\ g \in FrameRecords /\ M \in Seq(FrameRecords)
      /\ N = Pushed(g, M)
  <2>1. Frames(body, d, t, T, Open(body, i), N)
    BY DEF Sound
  <2> QED
    BY <1>1, <1>2, <2>1, FramesSplit
<1>4. /\ ScopeHolds(body, d, t, T, h, l)
      /\ l \in ScopeRecords /\ S2 \in Seq(ScopeRecords)
      /\ S = Pushed(l, S2)
  <2>1. Scopes(body, d, t, T, Loops(body, i), S)
    BY DEF Sound
  <2> QED
    BY <1>1, <1>2, <2>1, ScopesSplit
<1>5. \A j \in Q : Promised(d, t, j, State(body, T, 0, L))
  <2>1. Promised(d, t, g.jump, State(body, T, 0, L))
    BY <1>2, <1>3 DEF FrameHolds
  <2>2. \A j \in l.breaks : Promised(d, t, j, State(body, T, 0, L))
    BY <1>2, <1>4 DEF ScopeHolds
  <2> QED
    BY <2>1, <2>2
<1>6. MayPatch(d, t, Q, Len(d) + 1)
  <2>1. Len(d) \in Nat
    BY DEF Kept
  <2> QED
    BY <1>5, <2>1 DEF MayPatch
<1>7. /\ Sound(body, e, t, T, Open(body, i), N, Loops(body, i), S, i + 1, tc)
      /\ Kept(d, t, e, t)
      /\ Len(e) = Len(d)
      /\ Unresolved(e) = Unresolved(d) \ Q
  BY <1>6, PatchSound
<1>8. Frames(body, e, t, T, Open(body, i + 1), M)
  <2>1. Frames(body, e, t, T, Open(body, i), N)
    BY <1>7 DEF Sound
  <2> QED
    BY <1>1, <1>2, <2>1, FramesSplit
<1>9. Scopes(body, e, t, T, Loops(body, i + 1), S2)
  <2>1. Scopes(body, e, t, T, Loops(body, i), S)
    BY <1>7 DEF Sound
  <2> QED
    BY <1>1, <1>2, <2>1, ScopesSplit
<1>10. Sound(body, e, t, T, Open(body, i + 1), M, Loops(body, i + 1), S2, i + 1, tc)
  BY <1>7, <1>8, <1>9 DEF Sound
<1>11. Unresolved(e) \subseteq Remembered(M, S2, P, Part(body, i + 1))
  <2>1. JumpsOf(N) = JumpsOf(M) \cup {g.jump}
    BY <1>3, JumpsPush
  <2>2. BreaksOf(S) = BreaksOf(S2) \cup l.breaks
    BY <1>4, ScopeJumpsPush
  <2>3. ContinuesOf(Tail(S)) = ContinuesOf(S2)
    BY DEF Splits
  <2> QED
    BY <1>1, <1>2, <1>7, <2>1, <2>2, <2>3 DEF Remembered
<1>12. t[Len(e) + 1] = State(body, T, Operands(body, i + 1), Loops(body, i + 1))
  BY <1>2, <1>7
<1>13. Kept(c, a, e, t)
  BY <1>7, KeptTwice
<1>14. Kind(body, i) # "label"
  BY DEF Ends
<1>15. BodyInv(body, i + 1, e, M, S2, R, P, tc, t, T)
  BY <1>10, <1>11, <1>12, <1>13, <1>14, Advance
<1> QED
  BY <1>15

StartOf(g) == g.start
IndexOf(g) == g.index

(* The jumps a loop's end gives an address. *)
Leaving(Q, g, l) == \A j : j \in Q <=> j = g.jump \/ j \in l.breaks

(* The end of a while or a for. *)
LEMMA EndItem ==
  ASSUME NEW body, NEW i, NEW c, NEW N, NEW S, NEW R, NEW P, NEW tc, NEW a, NEW T,
         BodyInv(body, i, c, N, S, R, P, tc, a, T),
         Kind(body, i) = "end",
         NEW g, NEW M, Splits(N, g, M), NEW l, NEW S2, Splits(S, l, S2),
         NEW ins, Made(body, ins, "jump", StartOf(g), i),
         NEW Q, Leaving(Q, g, l),
         NEW d, Writes(c, ins, d), NEW e, Patches(d, Q, Len(d) + 1, e)
  PROVE  \E b : BodyInv(body, i + 1, e, M, S2, R, P, tc, b, T)
<1>1. /\ Body(body) /\ i \in 1..Len(body) /\ i \in Nat /\ NotLast(body, i)
      /\ Frames(body, c, a, T, Open(body, i), N)
      /\ Open(body, i) \in Seq(Nat)
  BY ItemFacts DEF NotLast, Kind
<1>2. Kind(body, i) \in Ends
  BY DEF Ends
<1>3. PICK h, K, L : EndsLoop(body, i, h, K, L)
  BY <1>1, <1>2, EndsALoop
<1>4. /\ Splits(Open(body, i), h, K) /\ Open(body, i) # <<>>
      /\ Kind(body, h) = "do" /\ Loops(body, h) = L
      /\ Loops(body, i) = Pushed(h, L) /\ h \in Nat /\ L \in Seq(Nat)
      /\ Operands(body, i) = 0
  BY <1>3 DEF EndsLoop
<1>5. PICK v : v = State(body, T, Operands(body, i), Loops(body, i))
  OBVIOUS
<1>6. v = State(body, T, 0, L) /\ v \in States
  BY <1>4, <1>5, StateOutside, StateTyped
<1>7. PICK arg : arg = StartOf(g) /\ Made(body, ins, "jump", arg, i)
  OBVIOUS
<1>8. arg \in 1..Len(c) + 1 /\ a[arg] = v /\ arg # Nowhere
  <2>1. FrameHolds(body, c, a, T, h, g)
    BY <1>1, <1>4, FramesSplit
  <2>2. g.start \in 1..Len(c) + 1 /\ a[g.start] = State(body, T, 0, L)
    BY <1>4, <2>1 DEF FrameHolds
  <2> QED
    BY <1>6, <1>7, <2>2 DEF StartOf, Nowhere
<1>9. Leads(ins, v, v)
  BY <1>6, <1>7, JumpLeads
<1>10. Kind(body, i) # "each"
  OBVIOUS
<1>11. PICK op : op = "jump" /\ Made(body, ins, op, arg, i)
  BY <1>7
<1>12. /\ op \notin {"define", "load", "store", "return"}
       /\ op = "main" => Kind(body, i) = "main"
       /\ op \notin {"jump", "return"} => Leads(ins, v, v)
       /\ op \in Jumps /\ arg # Nowhere => arg \in 1..Len(c) + 1 /\ Leads(ins, v, a[arg])
       /\ Kind(body, i) \in Statements => Operands(body, i) = 0
       /\ Made(body, ins, op, arg, i)
  BY <1>4, <1>8, <1>9, <1>11
<1>13. /\ Len(d) = Len(c) + 1 /\ Len(c) \in Nat
       /\ Unresolved(d) =
            Unresolved(c) \cup IF op \in Jumps /\ arg = Nowhere THEN {Len(c) + 1} ELSE {}
       /\ Named(body, d, T, i + 1, tc)
       /\ Sources(body, d, i + 1)
       /\ Written(body, c, a, d, v, v, T, Open(body, i), N, Loops(body, i), S)
  <2>1. NotLast(body, i) /\ v \in States
    BY <1>1, <1>6
  <2>2. op = "return" => v.height > 0
    BY <1>12
  <2> QED
    BY <1>5, <1>10, <1>12, <2>1, <2>2, EmitOne
<1>14. Unresolved(d) = Unresolved(c)
  BY <1>8, <1>13
<1>15. PICK t : /\ Flow(body, d, t)
                /\ Kept(c, a, d, t)
                /\ t[Len(d) + 1] = v
                /\ Frames(body, d, t, T, Open(body, i), N)
                /\ Scopes(body, d, t, T, Loops(body, i), S)
  BY <1>13 DEF Written
<1>16. Sound(body, d, t, T, Open(body, i), N, Loops(body, i), S, i + 1, tc)
  BY <1>13, <1>15 DEF Sound
<1>17. t[Len(d) + 1] = State(body, T, 0, L)
  BY <1>6, <1>15
<1> QED
  BY <1>1, <1>2, <1>3, <1>14, <1>15, <1>16, <1>17, CloseLoop DEF Leaving

EndEachCode(body, x, i, index, start) ==
  /\ x \in Seq(Instructions(body))
  /\ Len(x) = 5
  /\ Made(body, x[1], "load", index, i)
  /\ Made(body, x[2], "const", 1, i)
  /\ Made(body, x[3], "add", Nowhere, i)
  /\ Made(body, x[4], "store", index, i)
  /\ Made(body, x[5], "jump", start, i)

EndEachStates(s, bound, v) ==
  /\ s \in Seq(States)
  /\ Len(s) = 6
  /\ HasState(s[1], 0, bound)
  /\ HasState(s[2], 1, bound)
  /\ HasState(s[3], 2, bound)
  /\ HasState(s[4], 1, bound)
  /\ HasState(s[5], 0, bound)
  /\ s[6] = v

(* There are such states. *)
LEMMA EndEachStatesAre ==
  ASSUME NEW bound, bound \in SUBSET Nat, NEW v, v \in States
  PROVE  \E s : EndEachStates(s, bound, v)
<1> DEFINE at(h) == [height |-> h, bound |-> bound]
<1>1. PICK A, B, C : A = at(0) /\ B = at(1) /\ C = at(2)
  OBVIOUS
<1>2. HasState(A, 0, bound) /\ HasState(B, 1, bound) /\ HasState(C, 2, bound)
  BY <1>1 DEF HasState, States
<1>3. A \in States /\ B \in States /\ C \in States
  BY <1>2 DEF HasState
<1>4. PICK s : s = <<A, B, C, B, A, v>>
  OBVIOUS
<1>5. /\ s \in Seq(States) /\ Len(s) = 6
      /\ s[1] = A /\ s[2] = B /\ s[3] = C /\ s[4] = B /\ s[5] = A /\ s[6] = v
  BY <1>3, <1>4
<1>6. EndEachStates(s, bound, v)
  BY <1>2, <1>5 DEF EndEachStates
<1> QED
  BY <1>6

(* The instructions that end a foreach are a block. *)
LEMMA EndEachBlock ==
  ASSUME NEW body, NEW i, NEW x, NEW index, NEW start, EndEachCode(body, x, i, index, start),
         NEW s, NEW bound, NEW v, EndEachStates(s, bound, v), index \in bound,
         NEW c, NEW a, s[1] = a[Len(c) + 1],
         start \in 1..Len(c) + 1, a[start].height = 0, a[start].bound = bound
  PROVE  Block(body, c, a, x, s) /\ Unresolved(x) = {}
<1>1. /\ x \in Seq(Instructions(body)) /\ Len(x) = 5
      /\ s \in Seq(States) /\ Len(s) = 6
  BY DEF EndEachCode, EndEachStates
<1>2. /\ x[1].op = "load" /\ x[1].arg = index /\ x[2].op = "const" /\ x[3].op = "add"
      /\ x[4].op = "store" /\ x[5].op = "jump" /\ x[5].arg = start
  BY DEF EndEachCode, Made
<1>3. \A k \in 1..Len(x) : x[k].item = i
  <2>1. x[1].item = i /\ x[2].item = i /\ x[3].item = i /\ x[4].item = i /\ x[5].item = i
    BY DEF EndEachCode, Made
  <2>2. \A k \in 1..Len(x) : k = 1 \/ k = 2 \/ k = 3 \/ k = 4 \/ k = 5
    BY <1>1
  <2> QED
    BY <2>1, <2>2
<1>4. /\ Takes(x[1]) = 0 /\ Gives(x[1]) = 1 /\ Takes(x[2]) = 0 /\ Gives(x[2]) = 1
      /\ Takes(x[3]) = 2 /\ Gives(x[3]) = 1 /\ Takes(x[4]) = 1 /\ Gives(x[4]) = 0
      /\ Takes(x[5]) = 0 /\ Gives(x[5]) = 0
  BY OpTakes DEF EndEachCode
<1>5. /\ Leads(x[1], s[1], s[2]) /\ Leads(x[2], s[2], s[3]) /\ Leads(x[3], s[3], s[4])
      /\ Leads(x[4], s[4], s[5]) /\ Leads(x[5], s[5], a[start])
  BY <1>4 DEF Leads, EndEachStates, HasState
<1>6. index \in s[1].bound /\ s[1].height = 0
  BY DEF EndEachStates, HasState
<1>7. /\ Fits(c, a, s, x[1], s[1], s[2]) /\ Fits(c, a, s, x[2], s[2], s[3])
      /\ Fits(c, a, s, x[3], s[3], s[4]) /\ Fits(c, a, s, x[4], s[4], s[5])
      /\ Fits(c, a, s, x[5], s[5], s[6])
  BY <1>2, <1>5, <1>6 DEF Fits, Jumps
<1>8. ASSUME NEW k \in 1..Len(x) PROVE Fits(c, a, s, x[k], s[k], s[k + 1])
  <2>1. k = 1 \/ k = 2 \/ k = 3 \/ k = 4 \/ k = 5
    BY <1>1
  <2> QED
    BY <1>7, <2>1
<1>9. FitsAll(body, c, a, i, x, s)
  BY <1>1, <1>3, <1>6, <1>8 DEF FitsAll
<1>10. Block(body, c, a, x, s)
  BY <1>9, BlockOf
<1>11. Unresolved(x) = {}
  <2>1. \A k \in 1..Len(x) : k = 1 \/ k = 2 \/ k = 3 \/ k = 4 \/ k = 5
    BY <1>1
  <2>2. start # Nowhere
    BY DEF Nowhere
  <2> QED
    BY <1>2, <2>1, <2>2 DEF Unresolved, Jumps
<1> QED
  BY <1>10, <1>11

(* The end of a foreach. *)
LEMMA EndEachItem ==
  ASSUME NEW body, NEW i, NEW c, NEW N, NEW S, NEW R, NEW P, NEW tc, NEW a, NEW T,
         BodyInv(body, i, c, N, S, R, P, tc, a, T),
         Kind(body, i) = "endeach",
         NEW g, NEW M, Splits(N, g, M), NEW l, NEW S2, Splits(S, l, S2),
         NEW x, EndEachCode(body, x, i, IndexOf(g), StartOf(g)),
         NEW Q, Leaving(Q, g, l),
         NEW d, Joins(c, x, d), NEW e, Patches(d, Q, Len(d) + 1, e)
  PROVE  \E b : BodyInv(body, i + 1, e, M, S2, R, P, tc, b, T)
<1>1. /\ Body(body) /\ i \in 1..Len(body) /\ i \in Nat /\ NotLast(body, i)
      /\ Frames(body, c, a, T, Open(body, i), N) /\ Len(c) \in Nat
      /\ a[Len(c) + 1] = State(body, T, Operands(body, i), Loops(body, i))
      /\ Open(body, i) \in Seq(Nat)
      /\ Named(body, c, T, i, tc)
  BY ItemFacts DEF NotLast, Kind
<1>2. Kind(body, i) \in Ends /\ Kind(body, i) # "each"
  BY DEF Ends
<1>3. PICK h, K, L : EndsLoop(body, i, h, K, L)
  BY <1>1, <1>2, EndsALoop
<1>4. /\ Splits(Open(body, i), h, K) /\ Open(body, i) # <<>>
      /\ Kind(body, h) = "each" /\ Loops(body, h) = L
      /\ Loops(body, i) = Pushed(h, L) /\ h \in Nat /\ h \in 1..i - 1 /\ L \in Seq(Nat)
      /\ Operands(body, i) = 0
  BY <1>3 DEF EndsLoop
<1>5. PICK v, u, bound : /\ v = State(body, T, 0, Pushed(h, L))
                         /\ u = State(body, T, 0, L)
                         /\ bound = TempsOf(body, T, Pushed(h, L))
  OBVIOUS
<1>6. /\ v \in States /\ u \in States
      /\ v.height = 0 /\ v.bound = bound /\ bound \in SUBSET Nat
  <2>1. v \in States /\ u \in States
    BY <1>5, StateTyped
  <2> QED
    BY <1>5, <2>1 DEF State, TempsOf
<1>7. FrameHolds(body, c, a, T, h, g)
  BY <1>1, <1>4, FramesSplit
<1>8. PICK start, index : start = StartOf(g) /\ index = IndexOf(g)
  OBVIOUS
<1>9. start \in 1..Len(c) + 1 /\ a[start] = v /\ index = T[h] + 1
  BY <1>4, <1>5, <1>7, <1>8 DEF FrameHolds, StartOf, IndexOf
<1>10. T[h] \in Nat /\ T[h] + 1 < tc /\ tc \in Nat
  <2>1. T \in [Nat -> Nat] /\ tc \in Nat
    BY <1>1 DEF Named
  <2>2. T[h] \in Nat
    BY <1>4, <2>1
  <2> QED
    BY <1>1, <1>4, <2>1, <2>2 DEF Named
<1>11. index \in bound
  <2>1. index \in Nat
    BY <1>9, <1>10
  <2>2. \A t \in Nat : t \in TempsOf(body, T, Pushed(h, L)) <=>
                t \in TempsOf(body, T, L) \/ t = T[h] \/ t = T[h] + 1
    BY <1>4, TempsPush
  <2> QED
    BY <1>5, <1>9, <2>1, <2>2
<1>12. PICK s : EndEachStates(s, bound, u)
  BY <1>6, EndEachStatesAre
<1>13. s[1] = a[Len(c) + 1]
  <2>1. s[1] \in States /\ s[1].height = 0 /\ s[1].bound = bound
    BY <1>12 DEF EndEachStates, HasState
  <2>2. a[Len(c) + 1] = v
    BY <1>1, <1>4, <1>5
  <2> QED
    BY <1>6, <2>1, <2>2 DEF States
<1>14. EndEachCode(body, x, i, index, start)
  BY <1>8
<1>15. Block(body, c, a, x, s) /\ Unresolved(x) = {}
  BY <1>6, <1>9, <1>11, <1>12, <1>13, <1>14, EndEachBlock
<1>16. Plain(body, x, i, tc)
  <2>1. /\ Len(x) = 5
        /\ x[1].op = "load" /\ x[1].arg = index /\ x[1].item = i
        /\ x[2].op = "const" /\ x[2].item = i /\ x[3].op = "add" /\ x[3].item = i
        /\ x[4].op = "store" /\ x[4].arg = index /\ x[4].item = i
        /\ x[5].op = "jump" /\ x[5].item = i
    BY <1>14 DEF EndEachCode, Made
  <2>2. \A k \in 1..Len(x) : k = 1 \/ k = 2 \/ k = 3 \/ k = 4 \/ k = 5
    BY <2>1
  <2>3. index < tc
    BY <1>9, <1>10
  <2> QED
    BY <2>1, <2>2, <2>3 DEF Plain
<1>17. /\ Len(d) = Len(c) + Len(x)
       /\ Unresolved(d) = Unresolved(c) \cup {Len(c) + k : k \in Unresolved(x)}
       /\ GrownBy(body, c, a, d, s, T, Open(body, i), N, Loops(body, i), S, i + 1, tc)
  <2>1. NotLast(body, i)
    BY <1>1
  <2>2. Block(body, c, a, x, s)
    BY <1>15
  <2> QED
    BY <1>2, <1>16, <2>1, <2>2, EmitBlock
<1>18. PICK t : /\ Sound(body, d, t, T, Open(body, i), N, Loops(body, i), S, i + 1, tc)
                /\ Kept(c, a, d, t)
                /\ \A k \in 1..Len(s) : t[Len(c) + k] = s[k]
  BY <1>17 DEF GrownBy
<1>19. Unresolved(d) = Unresolved(c)
  BY <1>15, <1>17
<1>20. t[Len(d) + 1] = State(body, T, 0, L)
  <2>1. Len(s) = 6 /\ s[6] = u /\ Len(x) = 5
    BY <1>12 DEF EndEachStates, EndEachCode
  <2>2. 6 \in 1..Len(s) /\ Len(d) + 1 = Len(c) + 6
    BY <1>1, <1>17, <2>1
  <2>3. t[Len(c) + 6] = s[6]
    BY <1>18, <2>2
  <2> QED
    BY <1>5, <2>1, <2>2, <2>3
<1>21. NotLast(body, i)
  BY <1>1
<1> QED
  BY <1>2, <1>3, <1>18, <1>19, <1>20, <1>21, CloseLoop DEF Leaving

-----------------------------------------------------------------------------
(* break and continue *)

(* The innermost loop l has got the next instruction among its jumps. *)
Records(l, l2, kind, c) ==
  /\ l2 \in ScopeRecords
  /\ kind = "break" =>
       /\ \A j : j \in l2.breaks <=> j \in l.breaks \/ j = Len(c) + 1
       /\ l2.continues = l.continues
  /\ kind = "continue" =>
       /\ \A j : j \in l2.continues <=> j \in l.continues \/ j = Len(c) + 1
       /\ l2.breaks = l.breaks

(* A break or a continue waits with the innermost loop. *)
LEMMA LeaveItem ==
  ASSUME NEW body, NEW i, NEW c, NEW N, NEW S, NEW R, NEW P, NEW tc, NEW a, NEW T,
         BodyInv(body, i, c, N, S, R, P, tc, a, T),
         Kind(body, i) \in {"break", "continue"}, Loops(body, i) # <<>>,
         NEW l, NEW M, Splits(S, l, M),
         NEW l2, Records(l, l2, Kind(body, i), c),
         NEW ins, Made(body, ins, "jump", Nowhere, i), NEW d, Writes(c, ins, d)
  PROVE  \E b : BodyInv(body, i + 1, d, N, Pushed(l2, M), R, P, tc, b, T)
<1>1. /\ Body(body) /\ i \in 1..Len(body) /\ i \in Nat /\ NotLast(body, i)
      /\ Loops(body, i) \in Seq(Nat)
      /\ Unresolved(c) \subseteq Remembered(N, S, P, Part(body, i))
  BY ItemFacts DEF NotLast, Kind
<1>2. Kind(body, i) \in {"break", "continue", "label", "goto"}
  OBVIOUS
<1>3. /\ Operands(body, i) = 0
      /\ Part(body, i) = "body"
      /\ Open(body, i + 1) = Open(body, i)
      /\ Loops(body, i + 1) = Loops(body, i)
      /\ Part(body, i + 1) = Part(body, i)
      /\ Operands(body, i + 1) = Operands(body, i)
  BY <1>1, <1>2, MoveJump
<1>4. PICK h, L : Splits(Loops(body, i), h, L)
  BY DEF Splits
<1>5. /\ h \in Nat /\ Loops(body, h) = L /\ L \in Seq(Nat)
      /\ Loops(body, i) = Pushed(h, L)
  BY <1>1, <1>4, Innermost
<1>6. PICK v : v = State(body, T, Operands(body, i), Loops(body, i))
  OBVIOUS
<1>7. v \in States /\ v = State(body, T, 0, Pushed(h, L))
  BY <1>3, <1>5, <1>6, StateTyped
<1>8. Kind(body, i) # "each" /\ Kind(body, i) # "label"
  OBVIOUS
<1>9. "jump" \in Jumps
  BY DEF Jumps
<1>10. /\ Len(d) = Len(c) + 1 /\ Len(c) \in Nat
       /\ Unresolved(d) = Unresolved(c) \cup {Len(c) + 1}
       /\ Grown(body, c, a, d, v, v, T, Open(body, i), N, Loops(body, i), S, i + 1, tc)
       /\ \A t, s : Leads(ins, v, s) /\ t[Len(c) + 1] = v => Promised(d, t, Len(c) + 1, s)
  <2>1. NotLast(body, i) /\ v \in States /\ (Kind(body, i) \in Statements => Operands(body, i) = 0)
    BY <1>1, <1>3, <1>7
  <2> QED
    BY <1>6, <1>8, <1>9, <2>1, EmitJump
<1>11. PICK t : /\ Sound(body, d, t, T, Open(body, i), N, Loops(body, i), S, i + 1, tc)
                /\ Kept(c, a, d, t)
                /\ t[Len(c) + 1] = v
                /\ t[Len(d) + 1] = v
  BY <1>10 DEF Grown
<1>12. /\ Promised(d, t, Len(c) + 1, State(body, T, 0, L))
       /\ Promised(d, t, Len(c) + 1, State(body, T, 0, Pushed(h, L)))
  <2>1. Leads(ins, v, v)
    BY <1>7, JumpLeads
  <2>2. PICK u : u = State(body, T, 0, L)
    OBVIOUS
  <2>3. u.bound \subseteq v.bound
    BY <1>5, <1>7, <2>2, StateOutside
  <2>4. u.height = v.height
    BY <1>7, <2>2 DEF State
  <2>5. Leads(ins, v, u)
    BY <1>7, <2>3, <2>4, JumpLeads
  <2> QED
    BY <1>7, <1>10, <1>11, <2>1, <2>2, <2>5
<1>13. /\ ScopeHolds(body, d, t, T, h, l)
       /\ l \in ScopeRecords /\ M \in Seq(ScopeRecords)
       /\ S = Pushed(l, M)
       /\ Scopes(body, d, t, T, L, M)
  <2>1. Scopes(body, d, t, T, Loops(body, i), S)
    BY <1>11 DEF Sound
  <2> QED
    BY <1>1, <1>4, <2>1, ScopesSplit
<1>14. ScopeHolds(body, d, t, T, h, l2) /\ l2 \in ScopeRecords
  <2>1. /\ \A j \in l2.breaks : Promised(d, t, j, State(body, T, 0, L))
        /\ \A j \in l2.continues : Promised(d, t, j, State(body, T, 0, Pushed(h, L)))
    BY <1>5, <1>12, <1>13 DEF Records, ScopeHolds
  <2> QED
    BY <1>5, <2>1 DEF ScopeHolds, Records
<1>15. PICK S2 : S2 = Pushed(l2, M)
  OBVIOUS
<1>16. Scopes(body, d, t, T, Loops(body, i + 1), S2)
  BY <1>3, <1>5, <1>13, <1>14, <1>15, ScopesPush
<1>17. Sound(body, d, t, T, Open(body, i + 1), N, Loops(body, i + 1), S2, i + 1, tc)
  BY <1>3, <1>11, <1>16 DEF Sound
<1>18. Unresolved(d) \subseteq Remembered(N, S2, P, Part(body, i + 1))
  <2>1. /\ BreaksOf(S) = BreaksOf(M) \cup l.breaks
        /\ ContinuesOf(S) = ContinuesOf(M) \cup l.continues
    BY <1>13, ScopeJumpsPush
  <2>2. /\ BreaksOf(S2) = BreaksOf(M) \cup l2.breaks
        /\ ContinuesOf(S2) = ContinuesOf(M) \cup l2.continues
    BY <1>13, <1>14, <1>15, ScopeJumpsPush
  <2>3. BreaksOf(S) \cup ContinuesOf(S) \cup {Len(c) + 1} \subseteq BreaksOf(S2) \cup ContinuesOf(S2)
    BY <2>1, <2>2 DEF Records
  <2>4. Part(body, i) = "body" /\ Part(body, i + 1) = "body"
    BY <1>3
  <2> QED
    BY <1>1, <1>10, <2>3, <2>4 DEF Remembered
<1>19. t[Len(d) + 1] = State(body, T, Operands(body, i + 1), Loops(body, i + 1))
  BY <1>3, <1>6, <1>11
<1>20. BodyInv(body, i + 1, d, N, S2, R, P, tc, t, T)
  BY <1>1, <1>8, <1>11, <1>17, <1>18, <1>19, Advance
<1> QED
  BY <1>15, <1>20

-----------------------------------------------------------------------------
(* Labels *)

Appends(s, r, s2) == s2 = Append(s, r)

Names(r, label, target) ==
  r \in [label : Nodes, target : Nat] /\ r.label = label /\ r.target = target

(* A sequence with one more at its end. *)
LEMMA Appended ==
  ASSUME NEW s, NEW r, NEW s2, Appends(s, r, s2), NEW A, s \in Seq(A), r \in A
  PROVE  /\ s2 \in Seq(A) /\ Len(s2) = Len(s) + 1 /\ Len(s) \in Nat /\ s2[Len(s) + 1] = r
         /\ \A k \in 1..Len(s) : s2[k] = s[k]
         /\ \A k \in 1..Len(s2) : k \in 1..Len(s) \/ k = Len(s) + 1
         /\ \A k \in 1..Len(s) : k \in 1..Len(s2)
         /\ Len(s) + 1 \in 1..Len(s2)
  BY DEF Appends

(* A label is declared. *)
LEMMA LabelItem ==
  ASSUME NEW body, NEW i, NEW c, NEW N, NEW S, NEW R, NEW P, NEW tc, NEW a, NEW T,
         BodyInv(body, i, c, N, S, R, P, tc, a, T),
         Kind(body, i) = "label",
         NEW r, Names(r, body[i].node, Len(c) + 1),
         NEW R2, Appends(R, r, R2)
  PROVE  \E b : BodyInv(body, i + 1, c, N, S, R2, P, tc, b, T)
<1>1. /\ Body(body) /\ i \in 1..Len(body) /\ i \in Nat /\ NotLast(body, i) /\ Len(c) \in Nat
      /\ Labels(body, c, a, T, i, R)
      /\ Gotos(body, c, a, T, i, P)
      /\ Flow(body, c, a)
      /\ a[Len(c) + 1] = State(body, T, Operands(body, i), Loops(body, i))
      /\ Unresolved(c) \subseteq Remembered(N, S, P, Part(body, i))
  BY ItemFacts DEF NotLast, Kind
<1>2. Kind(body, i) \in {"break", "continue", "label", "goto"} /\ Kind(body, i) # "each"
  OBVIOUS
<1>3. /\ Operands(body, i) = 0
      /\ Part(body, i) = "body"
      /\ Open(body, i + 1) = Open(body, i)
      /\ Loops(body, i + 1) = Loops(body, i)
      /\ Part(body, i + 1) = Part(body, i)
      /\ Operands(body, i + 1) = Operands(body, i)
  BY <1>1, <1>2, MoveJump
<1>4. Sound(body, c, a, T, Open(body, i), N, Loops(body, i), S, i + 1, tc)
  BY <1>2, SoundItem
<1>5. i + 1 \in 1..Len(body) /\ i + 1 \in Nat /\ i <= i + 1
  BY <1>1, Forward
<1>6. Kept(c, a, c, a)
  BY <1>1, KeptAll
<1>7. Gotos(body, c, a, T, i + 1, P)
  BY <1>1, <1>5, <1>6, GotosKept
<1>8. Labels(body, c, a, T, i + 1, R2)
  <2>1. /\ R \in Seq([label : Nodes, target : Nat]) /\ r \in [label : Nodes, target : Nat]
        /\ r.label = body[i].node /\ r.target = Len(c) + 1
    BY <1>1 DEF Labels, Names
  <2>2. /\ R2 \in Seq([label : Nodes, target : Nat]) /\ R2[Len(R) + 1] = r
        /\ \A k \in 1..Len(R) : R2[k] = R[k]
        /\ \A k \in 1..Len(R2) : k \in 1..Len(R) \/ k = Len(R) + 1
        /\ \A k \in 1..Len(R) : k \in 1..Len(R2)
        /\ Len(R) + 1 \in 1..Len(R2)
    <3>1. PICK A : /\ R \in Seq(A) /\ r \in A
                   /\ R2 \in Seq(A) => R2 \in Seq([label : Nodes, target : Nat])
      BY <2>1
    <3>2. /\ R2 \in Seq(A) /\ R2[Len(R) + 1] = r
          /\ \A k \in 1..Len(R) : R2[k] = R[k]
          /\ \A k \in 1..Len(R2) : k \in 1..Len(R) \/ k = Len(R) + 1
          /\ \A k \in 1..Len(R) : k \in 1..Len(R2)
          /\ Len(R) + 1 \in 1..Len(R2)
      BY <3>1, Appended
    <3> QED
      BY <3>1, <3>2
  <2>3. \A l \in 1..(i + 1) - 1 : l \in 1..i - 1 \/ l = i
    BY <1>1
  <2>4. \A l \in 1..i - 1 : l \in 1..(i + 1) - 1
    BY <1>1
  <2>5. i \in 1..(i + 1) - 1
    BY <1>1
  <2>6. LabelHolds(body, c, a, T, i + 1, r)
    <3>1. r.target \in 1..Len(c) + 1 /\ a[r.target] = State(body, T, 0, Loops(body, i))
      BY <1>1, <1>3, <2>1
    <3> QED
      BY <2>1, <2>5, <3>1 DEF LabelHolds
  <2>7. ASSUME NEW k \in 1..Len(R) PROVE LabelHolds(body, c, a, T, i + 1, R[k])
    <3>1. LabelHolds(body, c, a, T, i, R[k])
      BY <1>1 DEF Labels
    <3> QED
      BY <2>4, <3>1 DEF LabelHolds
  <2>8. \A k \in 1..Len(R2) : LabelHolds(body, c, a, T, i + 1, R2[k])
    BY <2>2, <2>6, <2>7
  <2>9. ASSUME NEW l \in 1..(i + 1) - 1, Kind(body, l) = "label"
        PROVE  \E k \in 1..Len(R2) : R2[k].label = body[l].node
    <3>1. CASE l = i
      BY <2>1, <2>2, <3>1
    <3>2. CASE l \in 1..i - 1
      <4>1. PICK k \in 1..Len(R) : R[k].label = body[l].node
        BY <1>1, <2>9, <3>2 DEF Labels
      <4> QED
        BY <2>2, <4>1
    <3> QED
      BY <2>3, <3>1, <3>2
  <2> QED
    BY <2>2, <2>8, <2>9 DEF Labels
<1>9. a[Len(c) + 1] = State(body, T, Operands(body, i + 1), Loops(body, i + 1))
  BY <1>1, <1>3
<1>10. BodyInv(body, i + 1, c, N, S, R2, P, tc, a, T)
  BY <1>1, <1>3, <1>4, <1>5, <1>7, <1>8, <1>9 DEF BodyInv, Sound
<1> QED
  BY <1>10

-----------------------------------------------------------------------------
(* goto: what the resolver accepts keeps the temporaries bound *)

(* A loop's place among those around an item. *)
Inward(body, L) ==
  /\ L \in Seq(Nat)
  /\ \A k \in 1..Len(L) :
       /\ Len(Loops(body, L[k])) = Len(L) - k
       /\ \A m \in 1..Len(L) - k : Loops(body, L[k])[m] = L[k + m]
  /\ \A k \in 1..Len(L) : L[k] \in 1..Len(body)
  /\ \A k \in 1..Len(L) : \A m \in 1..k - 1 : L[k] < L[m]

(* The loops around an item, from the outermost in. *)
LEMMA Inwards ==
  ASSUME NEW body, Body(body), NEW i, i \in 1..Len(body)
  PROVE  Inward(body, Loops(body, i))
<1>0. PICK L : L = Loops(body, i)
  OBVIOUS
<1> DEFINE n == Nesting(body)
<1>1. L \in Seq(Nat) /\ L = n[i].loops
  BY <1>0, PlaceTyped DEF Loops
<1>2. Stacked(body, n, L)
  BY <1>1, AllStacked
<1>3. ASSUME NEW k \in 1..Len(L)
      PROVE  /\ Len(Loops(body, L[k])) = Len(L) - k
             /\ \A m \in 1..Len(L) - k : Loops(body, L[k])[m] = L[k + m]
  BY <1>2 DEF Stacked, Loops
<1>4. Before(L, i)
  BY <1>1, AllOpened
<1>5. ASSUME NEW k \in 1..Len(L) PROVE L[k] \in 1..Len(body) /\ L[k] \in Nat
  <2>1. L[k] \in 1..i - 1
    BY <1>4 DEF Before, Members
  <2>2. Len(body) \in Nat
    BY DEF Body
  <2> QED
    BY <2>1, <2>2
<1>6. ASSUME NEW k \in 1..Len(L), NEW m \in 1..k - 1 PROVE L[k] < L[m]
  <2>1. Len(L) \in Nat /\ m \in 1..Len(L) /\ k - m \in 1..Len(L) - m /\ m + (k - m) = k
    BY <1>1
  <2>2. Loops(body, L[m])[k - m] = L[k] /\ Len(Loops(body, L[m])) = Len(L) - m
    BY <1>3, <2>1
  <2>3. Before(Loops(body, L[m]), L[m])
    BY <1>5, <2>1, AllOpened DEF Loops
  <2>4. L[k] \in Members(Loops(body, L[m]))
    BY <2>1, <2>2 DEF Members
  <2>5. L[k] \in 1..L[m] - 1
    BY <2>3, <2>4 DEF Before
  <2> QED
    BY <1>5, <2>1, <2>5
<1>7. Inward(body, L)
  BY <1>1, <1>3, <1>5, <1>6 DEF Inward
<1> QED
  BY <1>0, <1>7

(* What is around a loop that is around both items is around both. *)
LEMMA SharedLoops ==
  ASSUME NEW body, Body(body), NEW i, i \in 1..Len(body), NEW j, j \in 1..Len(body),
         NEW h, h \in Members(Loops(body, i)), h \in Members(Loops(body, j)),
         NEW o, o \in Members(Loops(body, i)), o <= h
  PROVE  o \in Members(Loops(body, j))
<1>0. PICK L : L = Loops(body, i) /\ Inward(body, L)
  BY Inwards
<1>1. PICK M : M = Loops(body, j) /\ Inward(body, M)
  BY Inwards
<1>2. PICK k \in 1..Len(L), m \in 1..Len(M), p \in 1..Len(L) : h = L[k] /\ h = M[m] /\ o = L[p]
  BY <1>0, <1>1 DEF Members
<1>3. /\ L \in Seq(Nat)
      /\ \A q \in 1..Len(L) :
           /\ Len(Loops(body, L[q])) = Len(L) - q
           /\ \A r \in 1..Len(L) - q : Loops(body, L[q])[r] = L[q + r]
      /\ \A q \in 1..Len(L) : \A r \in 1..q - 1 : L[q] < L[r]
      /\ \A q \in 1..Len(L) : L[q] \in 1..Len(body)
  BY <1>0 DEF Inward
<1>4. /\ M \in Seq(Nat)
      /\ \A q \in 1..Len(M) :
           /\ Len(Loops(body, M[q])) = Len(M) - q
           /\ \A r \in 1..Len(M) - q : Loops(body, M[q])[r] = M[q + r]
  BY <1>1 DEF Inward
<1>5. CASE p = k
  BY <1>1, <1>2, <1>5 DEF Members
<1>6. CASE p < k
  <2>1. p \in 1..k - 1
    BY <1>2, <1>6
  <2>2. L[k] < L[p] /\ L[k] \in Nat /\ L[p] \in Nat
    <3>1. k \in 1..Len(L) /\ p \in 1..Len(L) /\ Len(body) \in Nat
      BY DEF Body
    <3>2. L[k] < L[p]
      BY <1>3, <2>1, <3>1
    <3>3. L[k] \in 1..Len(body) /\ L[p] \in 1..Len(body)
      BY <1>3, <3>1
    <3> QED
      BY <3>1, <3>2, <3>3
  <2> QED
    BY <1>2, <2>2
<1>7. CASE k < p
  <2>1. Len(L) \in Nat /\ Len(M) \in Nat
    <3>1. L \in Seq(Nat) /\ M \in Seq(Nat)
      BY <1>3, <1>4
    <3> QED
      BY <3>1
  <2>2. p - k \in 1..Len(L) - k /\ k + (p - k) = p
    BY <1>2, <1>7, <2>1
  <2>3. Loops(body, h)[p - k] = L[p] /\ Len(Loops(body, h)) = Len(L) - k
    BY <1>2, <1>3, <2>2
  <2>4. Len(Loops(body, h)) = Len(M) - m
    BY <1>2, <1>4
  <2>5. p - k \in 1..Len(M) - m
    BY <2>2, <2>3, <2>4
  <2>6. Loops(body, h)[p - k] = M[m + (p - k)]
    BY <1>2, <1>4, <2>5
  <2>7. m + (p - k) \in 1..Len(M)
    BY <1>2, <2>1, <2>5
  <2> QED
    BY <1>1, <1>2, <2>3, <2>6, <2>7 DEF Members
<1>8. p = k \/ p < k \/ k < p
  BY <1>2
<1> QED
  BY <1>5, <1>6, <1>7, <1>8

(* The foreach loops around an item that ends none. *)
LEMMA ForeachsAre ==
  ASSUME NEW body, Body(body), NEW i, i \in 1..Len(body), Kind(body, i) \notin Ends
  PROVE  ForeachsAround(body, i) = {h \in Members(Loops(body, i)) : Kind(body, h) = "each"}
  BY LoopsAroundAre DEF ForeachsAround, Kind, Loops

(* A goto the resolver lets through stays within the foreachs of its label.*)
LEMMA JumpKeepsTemps ==
  ASSUME NEW body, Body(body), Accepted(body),
         NEW l, l \in 1..Len(body), Kind(body, l) = "label",
         NEW g, g \in 1..Len(body), Kind(body, g) = "goto", body[l].node = body[g].node,
         NEW T
  PROVE  TempsOf(body, T, Loops(body, l)) \subseteq TempsOf(body, T, Loops(body, g))
<1>1. l \in At(body, {"label"}) /\ g \in At(body, {"goto"})
  BY DEF At, Kind
<1>2. PICK k \in At(body, {"label"}) : MayJump(body, k, g)
  BY <1>1 DEF Accepted
<1>3. k = l
  BY <1>1, <1>2 DEF Accepted, MayJump
<1>4. \/ ForeachsAround(body, l) = {}
      \/ \E head \in ForeachsAround(body, l) :
           /\ \A other \in ForeachsAround(body, l) : other <= head
           /\ head \in ForeachsAround(body, g)
  BY <1>2, <1>3 DEF MayJump
<1>5. /\ ForeachsAround(body, l) = {h \in Members(Loops(body, l)) : Kind(body, h) = "each"}
      /\ ForeachsAround(body, g) = {h \in Members(Loops(body, g)) : Kind(body, h) = "each"}
  <2>1. Kind(body, l) \notin Ends /\ Kind(body, g) \notin Ends
    BY DEF Ends
  <2> QED
    BY <2>1, ForeachsAre
<1>6. ForeachsAround(body, l) \subseteq ForeachsAround(body, g)
  <2>1. CASE ForeachsAround(body, l) = {}
    BY <2>1
  <2>2. ASSUME NEW head \in ForeachsAround(body, l),
               \A other \in ForeachsAround(body, l) : other <= head,
               head \in ForeachsAround(body, g)
        PROVE  ForeachsAround(body, l) \subseteq ForeachsAround(body, g)
    <3> SUFFICES ASSUME NEW o \in ForeachsAround(body, l) PROVE o \in ForeachsAround(body, g)
      OBVIOUS
    <3>1. /\ head \in Members(Loops(body, l)) /\ head \in Members(Loops(body, g))
          /\ o \in Members(Loops(body, l)) /\ o <= head /\ Kind(body, o) = "each"
      BY <1>5, <2>2
    <3>2. o \in Members(Loops(body, g))
      BY <3>1, SharedLoops
    <3> QED
      BY <1>5, <3>1, <3>2
  <2> QED
    BY <1>4, <2>1, <2>2
<1>7. \A L : TempsOf(body, T, L) =
        {t \in Nat : \E h \in {x \in Members(L) : Kind(body, x) = "each"} : t = T[h] \/ t = T[h] + 1}
  BY DEF TempsOf
<1> QED
  BY <1>5, <1>6, <1>7

(* So the state at the goto will do for its label. *)
LEMMA GotoLeads ==
  ASSUME NEW body, Body(body), Accepted(body),
         NEW l, l \in 1..Len(body), Kind(body, l) = "label",
         NEW g, g \in 1..Len(body), Kind(body, g) = "goto", body[l].node = body[g].node,
         NEW ins, ins.op = "jump", NEW T
  PROVE  Leads(ins, State(body, T, 0, Loops(body, g)), State(body, T, 0, Loops(body, l)))
<1>1. TempsOf(body, T, Loops(body, l)) \subseteq TempsOf(body, T, Loops(body, g))
  BY JumpKeepsTemps
<1> QED
  BY <1>1 DEF Leads, State, Takes, Gives

(* To a label that was met. *)
LEMMA GotoBackItem ==
  ASSUME NEW body, NEW i, NEW c, NEW N, NEW S, NEW R, NEW P, NEW tc, NEW a, NEW T,
         BodyInv(body, i, c, N, S, R, P, tc, a, T),
         Kind(body, i) = "goto", Accepted(body),
         NEW k, k \in 1..Len(R), R[k].label = body[i].node,
         NEW target, target = R[k].target,
         NEW ins, Made(body, ins, "jump", target, i), NEW d, Writes(c, ins, d)
  PROVE  \E b : BodyInv(body, i + 1, d, N, S, R, P, tc, b, T)
<1>1. /\ Body(body) /\ i \in 1..Len(body) /\ i \in Nat /\ NotLast(body, i)
      /\ Labels(body, c, a, T, i, R)
      /\ Unresolved(c) \subseteq Remembered(N, S, P, Part(body, i))
  BY ItemFacts DEF NotLast, Kind
<1>2. Kind(body, i) \in {"break", "continue", "label", "goto"} /\ Kind(body, i) # "each"
      /\ Kind(body, i) # "label"
  OBVIOUS
<1>3. /\ Operands(body, i) = 0
      /\ Part(body, i) = "body"
      /\ Open(body, i + 1) = Open(body, i)
      /\ Loops(body, i + 1) = Loops(body, i)
      /\ Part(body, i + 1) = Part(body, i)
      /\ Operands(body, i + 1) = Operands(body, i)
  BY <1>1, <1>2, MoveJump
<1>4. PICK v : v = State(body, T, Operands(body, i), Loops(body, i))
  OBVIOUS
<1>5. v \in States /\ v = State(body, T, 0, Loops(body, i))
  BY <1>3, <1>4, StateTyped
<1>6. target \in 1..Len(c) + 1 /\ Leads(ins, v, a[target]) /\ target # Nowhere
  <2>1. LabelHolds(body, c, a, T, i, R[k])
    BY <1>1 DEF Labels
  <2>2. PICK l \in 1..i - 1 :
          /\ Kind(body, l) = "label" /\ body[l].node = body[i].node
          /\ a[target] = State(body, T, 0, Loops(body, l))
    BY <2>1 DEF LabelHolds
  <2>3. target \in 1..Len(c) + 1 /\ target # Nowhere
    BY <2>1 DEF LabelHolds, Nowhere
  <2>4. l \in 1..Len(body)
    BY <1>1
  <2>5. ins.op = "jump"
    BY DEF Made
  <2>6. Leads(ins, State(body, T, 0, Loops(body, i)), State(body, T, 0, Loops(body, l)))
    BY <1>1, <2>2, <2>4, <2>5, GotoLeads
  <2> QED
    BY <1>5, <2>2, <2>3, <2>6
<1>7. PICK op : op = "jump" /\ Made(body, ins, op, target, i)
  OBVIOUS
<1>8. /\ op \notin {"define", "load", "store", "return"}
      /\ op = "main" => Kind(body, i) = "main"
      /\ op \notin {"jump", "return"} => Leads(ins, v, v)
      /\ op \in Jumps /\ target # Nowhere => target \in 1..Len(c) + 1 /\ Leads(ins, v, a[target])
      /\ Kind(body, i) \in Statements => Operands(body, i) = 0
      /\ Made(body, ins, op, target, i)
  BY <1>3, <1>6, <1>7
<1>9. /\ Len(d) = Len(c) + 1 /\ Len(c) \in Nat
      /\ Unresolved(d) =
           Unresolved(c) \cup IF op \in Jumps /\ target = Nowhere THEN {Len(c) + 1} ELSE {}
      /\ Named(body, d, T, i + 1, tc)
      /\ Sources(body, d, i + 1)
      /\ Written(body, c, a, d, v, v, T, Open(body, i), N, Loops(body, i), S)
  <2>1. NotLast(body, i) /\ v \in States
    BY <1>1, <1>5
  <2>2. op = "return" => v.height > 0
    BY <1>8
  <2> QED
    BY <1>2, <1>4, <1>8, <2>1, <2>2, EmitOne
<1>10. Unresolved(d) = Unresolved(c)
  BY <1>6, <1>9
<1>11. PICK t : /\ Flow(body, d, t)
                /\ Kept(c, a, d, t)
                /\ t[Len(d) + 1] = v
                /\ Frames(body, d, t, T, Open(body, i), N)
                /\ Scopes(body, d, t, T, Loops(body, i), S)
  BY <1>9 DEF Written
<1>12. Sound(body, d, t, T, Open(body, i + 1), N, Loops(body, i + 1), S, i + 1, tc)
  BY <1>3, <1>9, <1>11 DEF Sound
<1>13. t[Len(d) + 1] = State(body, T, Operands(body, i + 1), Loops(body, i + 1))
  BY <1>3, <1>4, <1>11
<1>14. Unresolved(d) \subseteq Remembered(N, S, P, Part(body, i + 1))
  BY <1>1, <1>3, <1>10
<1>15. BodyInv(body, i + 1, d, N, S, R, P, tc, t, T)
  BY <1>1, <1>2, <1>11, <1>12, <1>13, <1>14, Advance
<1> QED
  BY <1>15

Waits(r, label, jump) ==
  r \in [label : Nodes, jump : Nat] /\ r.label = label /\ r.jump = jump

(* To one that is still to come. *)
LEMMA GotoAheadItem ==
  ASSUME NEW body, NEW i, NEW c, NEW N, NEW S, NEW R, NEW P, NEW tc, NEW a, NEW T,
         BodyInv(body, i, c, N, S, R, P, tc, a, T),
         Kind(body, i) = "goto",
         NEW r, Waits(r, body[i].node, Len(c) + 1), NEW P2, Appends(P, r, P2),
         NEW ins, Made(body, ins, "jump", Nowhere, i), NEW d, Writes(c, ins, d)
  PROVE  \E b : BodyInv(body, i + 1, d, N, S, R, P2, tc, b, T)
<1>1. /\ Body(body) /\ i \in 1..Len(body) /\ i \in Nat /\ NotLast(body, i)
      /\ Labels(body, c, a, T, i, R) /\ Gotos(body, c, a, T, i, P)
      /\ Unresolved(c) \subseteq Remembered(N, S, P, Part(body, i))
  BY ItemFacts DEF NotLast, Kind
<1>2. /\ Kind(body, i) \in {"break", "continue", "label", "goto"} /\ Kind(body, i) # "each"
      /\ Kind(body, i) # "label"
  OBVIOUS
<1>3. /\ Operands(body, i) = 0
      /\ Part(body, i) = "body"
      /\ Open(body, i + 1) = Open(body, i)
      /\ Loops(body, i + 1) = Loops(body, i)
      /\ Part(body, i + 1) = Part(body, i)
      /\ Operands(body, i + 1) = Operands(body, i)
  BY <1>1, <1>2, MoveJump
<1>4. PICK v : v = State(body, T, Operands(body, i), Loops(body, i))
  OBVIOUS
<1>5. v \in States /\ v = State(body, T, 0, Loops(body, i))
  BY <1>3, <1>4, StateTyped
<1>6. "jump" \in Jumps
  BY DEF Jumps
<1>7. /\ Len(d) = Len(c) + 1 /\ Len(c) \in Nat
      /\ Unresolved(d) = Unresolved(c) \cup {Len(c) + 1}
      /\ Grown(body, c, a, d, v, v, T, Open(body, i), N, Loops(body, i), S, i + 1, tc)
  <2>1. NotLast(body, i) /\ v \in States /\ (Kind(body, i) \in Statements => Operands(body, i) = 0)
    BY <1>1, <1>3, <1>5
  <2> QED
    BY <1>2, <1>4, <1>6, <2>1, EmitJump
<1>8. PICK t : /\ Sound(body, d, t, T, Open(body, i), N, Loops(body, i), S, i + 1, tc)
               /\ Kept(c, a, d, t)
               /\ t[Len(c) + 1] = v
               /\ t[Len(d) + 1] = v
  BY <1>7 DEF Grown
<1>9. i + 1 \in 1..Len(body) /\ i + 1 \in Nat /\ i <= i + 1
  BY <1>1, Forward
<1>10. Labels(body, d, t, T, i + 1, R)
  <2>1. \A l \in i..(i + 1) - 1 : Kind(body, l) # "label"
    BY <1>1, <1>2
  <2> QED
    BY <1>1, <1>8, <1>9, <2>1, LabelsKept
<1>11. Gotos(body, d, t, T, i + 1, P)
  BY <1>1, <1>8, <1>9, GotosKept
<1>12. GotoHolds(body, d, t, T, i + 1, r)
  <2>1. r.label = body[i].node /\ r.jump = Len(c) + 1
    BY DEF Waits
  <2>2. d[Len(c) + 1].op = "jump"
    BY <1>7 DEF Writes, Made
  <2>3. i \in 1..(i + 1) - 1 /\ Len(c) + 1 \in 1..Len(d)
    BY <1>1, <1>7
  <2> QED
    BY <1>5, <1>8, <2>1, <2>2, <2>3 DEF GotoHolds
<1>13. P2 \in Seq([label : Nodes, jump : Nat]) /\ JumpsOf(P2) = JumpsOf(P) \cup {Len(c) + 1}
       /\ \A m \in 1..Len(P2) : GotoHolds(body, d, t, T, i + 1, P2[m])
  <2>1. r.jump = Len(c) + 1
    BY DEF Waits
  <2>2. PICK A : /\ P \in Seq(A) /\ r \in A
                 /\ P2 \in Seq(A) => P2 \in Seq([label : Nodes, jump : Nat])
    BY <1>1 DEF Gotos, Waits
  <2>3. /\ P2 \in Seq(A) /\ P2[Len(P) + 1] = r
        /\ \A m \in 1..Len(P) : P2[m] = P[m]
        /\ \A m \in 1..Len(P2) : m \in 1..Len(P) \/ m = Len(P) + 1
    BY <2>2, Appended
  <2>4. JumpsOf(P2) = JumpsOf(P) \cup {r.jump}
    BY <2>2, JumpsAppend DEF Appends
  <2>5. \A m \in 1..Len(P) : GotoHolds(body, d, t, T, i + 1, P[m])
    BY <1>11 DEF Gotos
  <2> QED
    BY <1>12, <2>1, <2>2, <2>3, <2>4, <2>5
<1>14. Gotos(body, d, t, T, i + 1, P2)
  BY <1>13 DEF Gotos
<1>15. Unresolved(d) \subseteq Remembered(N, S, P2, Part(body, i + 1))
  BY <1>1, <1>3, <1>7, <1>13 DEF Remembered
<1>16. t[Len(d) + 1] = State(body, T, Operands(body, i + 1), Loops(body, i + 1))
  BY <1>3, <1>4, <1>8
<1>17. BodyInv(body, i + 1, d, N, S, R, P2, tc, t, T)
  BY <1>1, <1>3, <1>8, <1>9, <1>10, <1>14, <1>15, <1>16 DEF BodyInv, Sound
<1> QED
  BY <1>17

-----------------------------------------------------------------------------
(* The end of a body *)

(* Only the last item is the end of the body, and nothing is open there. *)
LEMMA LastFinishes ==
  ASSUME NEW body, Body(body), NEW i, i \in 1..Len(body), Kind(body, i) = "finish"
  PROVE  /\ i = Len(body)
         /\ Open(body, i) = <<>> /\ Loops(body, i) = <<>>
         /\ Operands(body, i) = 0 /\ Part(body, i) = "body"
<1> DEFINE n == Nesting(body)
<1>1. Len(body) \in Nat \ {0} /\ n[Len(body)] = Outermost /\ body[i].kind = "finish"
  BY DEF Body, WellNested, Moves, Kind
<1>2. ASSUME i # Len(body) PROVE FALSE
  <2>1. i \in 1..Len(body) - 1
    BY <1>1, <1>2
  <2>2. MovesOperands(body, n, i) \/ MovesBranch(body, n, i) \/ MovesLoop(body, n, i)
    BY <2>1 DEF Body, WellNested, Moves
  <2>3. ~MovesOperands(body, n, i)
    BY <1>1 DEF MovesOperands
  <2>4. ~MovesBranch(body, n, i)
    BY <1>1 DEF MovesBranch
  <2>5. ~MovesLoop(body, n, i)
    BY <1>1 DEF MovesLoop
  <2> QED
    BY <2>2, <2>3, <2>4, <2>5
<1> QED
  BY <1>1, <1>2 DEF Open, Loops, Operands, Part, Outermost

(* Gotos that wait, and the labels they wait for: the resolver has seen to *)
(* it that there are some.                                                 *)
GotoLands(c, a, j, target) ==
  /\ j \in 1..Len(c)
  /\ c[j].op = "jump"
  /\ target \in 1..Len(c) + 1
  /\ Leads(c[j], a[j], a[target])

(* At the end of a body the resolver accepted, every goto that waits has   *)
(* its label, and may jump there.                                          *)
LEMMA LabelsDeclared ==
  ASSUME NEW body, NEW i, NEW c, NEW N, NEW S, NEW R, NEW P, NEW tc, NEW a, NEW T,
         BodyInv(body, i, c, N, S, R, P, tc, a, T),
         Kind(body, i) = "finish", Accepted(body)
  PROVE  /\ \A p \in 1..Len(P) : \E k \in 1..Len(R) : R[k].label = P[p].label
         /\ \A p \in 1..Len(P) : \A k \in 1..Len(R) :
              R[k].label = P[p].label => GotoLands(c, a, P[p].jump, R[k].target)
<1>1. /\ Body(body) /\ i \in 1..Len(body) /\ i \in Nat
      /\ Labels(body, c, a, T, i, R) /\ Gotos(body, c, a, T, i, P)
  BY ItemFacts
<1>2. i = Len(body)
  BY <1>1, LastFinishes
<1>3. ASSUME NEW p \in 1..Len(P) PROVE GotoHolds(body, c, a, T, i, P[p])
  BY <1>1 DEF Gotos
<1>4. ASSUME NEW k \in 1..Len(R) PROVE LabelHolds(body, c, a, T, i, R[k])
  BY <1>1 DEF Labels
<1>5. ASSUME NEW p \in 1..Len(P) PROVE \E k \in 1..Len(R) : R[k].label = P[p].label
  <2>1. PICK g \in 1..i - 1 : Kind(body, g) = "goto" /\ body[g].node = P[p].label
    BY <1>3 DEF GotoHolds
  <2>2. g \in At(body, {"goto"})
    BY <1>1, <2>1 DEF At, Kind
  <2>3. PICK l \in At(body, {"label"}) : MayJump(body, l, g)
    BY <2>2 DEF Accepted
  <2>4. l \in 1..Len(body) /\ Kind(body, l) = "label" /\ body[l].node = body[g].node
    BY <2>3 DEF At, Kind, MayJump
  <2>5. l # i
    BY <2>4
  <2>6. l \in 1..i - 1
    BY <1>1, <1>2, <2>4, <2>5
  <2> QED
    BY <1>1, <2>1, <2>4, <2>6 DEF Labels
<1>6. ASSUME NEW p \in 1..Len(P), NEW k \in 1..Len(R), R[k].label = P[p].label
      PROVE  GotoLands(c, a, P[p].jump, R[k].target)
  <2>1. PICK g \in 1..i - 1 :
          /\ Kind(body, g) = "goto" /\ body[g].node = P[p].label
          /\ a[P[p].jump] = State(body, T, 0, Loops(body, g))
    BY <1>3 DEF GotoHolds
  <2>2. PICK l \in 1..i - 1 :
          /\ Kind(body, l) = "label" /\ body[l].node = R[k].label
          /\ a[R[k].target] = State(body, T, 0, Loops(body, l))
    BY <1>4 DEF LabelHolds
  <2>3. P[p].jump \in 1..Len(c) /\ c[P[p].jump].op = "jump" /\ R[k].target \in 1..Len(c) + 1
    BY <1>3, <1>4 DEF GotoHolds, LabelHolds
  <2>4. PICK ins : ins = c[P[p].jump] /\ ins.op = "jump"
    BY <2>3
  <2>5. g \in 1..Len(body) /\ l \in 1..Len(body) /\ body[l].node = body[g].node
    BY <1>1, <1>6, <2>1, <2>2
  <2>6. Leads(ins, State(body, T, 0, Loops(body, g)), State(body, T, 0, Loops(body, l)))
    BY <1>1, <2>1, <2>2, <2>4, <2>5, GotoLeads
  <2>7. Leads(c[P[p].jump], a[P[p].jump], a[R[k].target])
    BY <2>1, <2>2, <2>4, <2>6
  <2> QED
    BY <2>3, <2>7 DEF GotoLands
<1> QED
  BY <1>5, <1>6

(* A chunk's last instructions, with the call of the entry point or not. *)
EndCode(body, x, i, calls) ==
  /\ x \in Seq(Instructions(body))
  /\ calls =>
       /\ Len(x) = 4
       /\ Made(body, x[1], "main", 0, i) /\ Made(body, x[2], "drop", 1, i)
       /\ Made(body, x[3], "const", 0, i) /\ Made(body, x[4], "return", 1, i)
  /\ ~calls =>
       /\ Len(x) = 2
       /\ Made(body, x[1], "const", 0, i) /\ Made(body, x[2], "return", 1, i)

(* What the last instructions are. *)
LEMMA EndOps ==
  ASSUME NEW body, NEW x, NEW i, NEW calls, EndCode(body, x, i, calls)
  PROVE  /\ x \in Seq(Instructions(body)) /\ Len(x) \in {2, 4} /\ Len(x) \in Nat
         /\ x[Len(x)].op = "return"
         /\ \A k \in 1..Len(x) : x[k].op \in {"main", "drop", "const", "return"} /\ x[k].item = i
         /\ calls => /\ Len(x) = 4 /\ x[1].op = "main" /\ x[2].op = "drop"
                     /\ x[3].op = "const" /\ x[4].op = "return"
<1>1. CASE calls
  <2>1. x \in Seq(Instructions(body)) /\ Len(x) = 4
    BY <1>1 DEF EndCode
  <2>2. /\ x[1].op = "main" /\ x[2].op = "drop" /\ x[3].op = "const" /\ x[4].op = "return"
        /\ x[1].item = i /\ x[2].item = i /\ x[3].item = i /\ x[4].item = i
    BY <1>1 DEF EndCode, Made
  <2>3. \A k \in 1..Len(x) : k = 1 \/ k = 2 \/ k = 3 \/ k = 4
    BY <2>1
  <2> QED
    BY <2>1, <2>2, <2>3
<1>2. CASE ~calls
  <2>1. x \in Seq(Instructions(body)) /\ Len(x) = 2
    BY <1>2 DEF EndCode
  <2>2. x[1].op = "const" /\ x[2].op = "return" /\ x[1].item = i /\ x[2].item = i
    BY <1>2 DEF EndCode, Made
  <2>3. \A k \in 1..Len(x) : k = 1 \/ k = 2
    BY <2>1
  <2> QED
    BY <1>2, <2>1, <2>2, <2>3
<1> QED
  BY <1>1, <1>2

(* They are a block. *)
LEMMA EndBlock ==
  ASSUME NEW body, NEW i, NEW x, NEW calls, EndCode(body, x, i, calls),
         NEW c, NEW a, NEW v, a[Len(c) + 1] = v, v \in States, v.height = 0
  PROVE  \E s : Block(body, c, a, x, s)
<1>1. PICK u : HasState(u, 1, v.bound)
  <2>1. PICK u : u = [height |-> 1, bound |-> v.bound]
    OBVIOUS
  <2>2. v.bound \in SUBSET Nat
    BY DEF States
  <2> QED
    BY <2>1, <2>2 DEF HasState, States
<1>2. u \in States /\ u.height = 1 /\ u.bound = v.bound
  BY <1>1 DEF HasState
<1>3. CASE calls
  <2>1. PICK s : s = <<v, u, v, u, v>>
    OBVIOUS
  <2>2. /\ s \in Seq(States) /\ Len(s) = 5
        /\ s[1] = v /\ s[2] = u /\ s[3] = v /\ s[4] = u /\ s[5] = v
    BY <1>2, <2>1
  <2>3. /\ x \in Seq(Instructions(body)) /\ Len(x) = 4
        /\ x[1].op = "main" /\ x[2].op = "drop" /\ x[3].op = "const" /\ x[4].op = "return"
        /\ \A k \in 1..Len(x) : x[k].item = i
    <3>1. \A k \in 1..Len(x) : x[k].item = i
      BY EndOps
    <3>2. /\ x \in Seq(Instructions(body)) /\ Len(x) = 4
          /\ x[1].op = "main" /\ x[2].op = "drop" /\ x[3].op = "const" /\ x[4].op = "return"
      BY <1>3 DEF EndCode, Made
    <3> QED
      BY <3>1, <3>2
  <2>4. x[1].arg = 0 /\ x[2].arg = 1
    BY <1>3 DEF EndCode, Made
  <2>5. Leads(x[1], v, u) /\ Leads(x[2], u, v) /\ Leads(x[3], v, u)
    BY <1>2, <2>3, <2>4 DEF Leads, Takes, Gives, Binds
  <2>6. /\ Fits(c, a, s, x[1], s[1], s[2]) /\ Fits(c, a, s, x[2], s[2], s[3])
        /\ Fits(c, a, s, x[3], s[3], s[4]) /\ Fits(c, a, s, x[4], s[4], s[5])
    BY <1>2, <2>2, <2>3, <2>5 DEF Fits, Jumps
  <2>7. ASSUME NEW k \in 1..Len(x) PROVE Fits(c, a, s, x[k], s[k], s[k + 1])
    <3>1. k = 1 \/ k = 2 \/ k = 3 \/ k = 4
      BY <2>3
    <3> QED
      BY <2>6, <3>1
  <2>8. FitsAll(body, c, a, i, x, s)
    BY <2>2, <2>3, <2>7 DEF FitsAll
  <2> QED
    BY <2>8, BlockOf
<1>4. CASE ~calls
  <2>1. PICK s : s = <<v, u, v>>
    OBVIOUS
  <2>2. s \in Seq(States) /\ Len(s) = 3 /\ s[1] = v /\ s[2] = u /\ s[3] = v
    BY <1>2, <2>1
  <2>3. /\ x \in Seq(Instructions(body)) /\ Len(x) = 2
        /\ x[1].op = "const" /\ x[2].op = "return"
    BY <1>4 DEF EndCode, Made
  <2>4. \A k \in 1..Len(x) : x[k].item = i
    BY EndOps
  <2>5. Leads(x[1], v, u)
    BY <1>2, <2>3 DEF Leads, Takes, Gives, Binds
  <2>6. Fits(c, a, s, x[1], s[1], s[2]) /\ Fits(c, a, s, x[2], s[2], s[3])
    BY <1>2, <2>2, <2>3, <2>5 DEF Fits, Jumps
  <2>7. ASSUME NEW k \in 1..Len(x) PROVE Fits(c, a, s, x[k], s[k], s[k + 1])
    <3>1. k = 1 \/ k = 2
      BY <2>3
    <3> QED
      BY <2>6, <3>1
  <2>8. FitsAll(body, c, a, i, x, s)
    BY <2>2, <2>3, <2>4, <2>7 DEF FitsAll
  <2> QED
    BY <2>8, BlockOf
<1> QED
  BY <1>3, <1>4

(* The code before the end, and the jumps that get their labels' addresses. *)
Resolves(body, d, R, P, e) ==
  /\ e \in Seq(Instructions(body))
  /\ Len(e) = Len(d)
  /\ \A j \in 1..Len(d) :
       /\ e[j].op = d[j].op /\ e[j].item = d[j].item
       /\ \/ e[j] = d[j] /\ \A p \in 1..Len(P) : P[p].jump # j
          \/ \E p \in 1..Len(P), k \in 1..Len(R) :
               P[p].jump = j /\ R[k].label = P[p].label /\ e[j].arg = R[k].target

(* A finished chunk. *)
Complete(body, e, b, tc) ==
  /\ Flow(body, e, b)
  /\ Len(e) \in Nat \ {0}
  /\ e[Len(e)].op = "return"
  /\ \A j \in 1..Len(e) : e[j].op \in Jumps => e[j].arg \in 1..Len(e)
  /\ \A j \in 1..Len(e) : e[j].op \in {"define", "load", "store"} => e[j].arg < tc

(* One whose end, from instruction m + 1, calls the entry point. *)
EndsWithCall(body, e, m) ==
  /\ m \in Nat /\ Len(e) = m + 4
  /\ e[m + 1].op = "main" /\ e[m + 2].op = "drop" /\ e[m + 3].op = "const"
  /\ \A j \in 1..m : e[j].op # "main" /\ body[e[j].item].kind # "finish"
  /\ \A j \in 1..m : e[j].op \in Jumps => e[j].arg \in 1..m + 1

(* A body that has come to its end is a finished chunk once the gotos have *)
(* their addresses.                                                        *)
LEMMA FinishItem ==
  ASSUME NEW body, NEW i, NEW c, NEW N, NEW S, NEW R, NEW P, NEW tc, NEW a, NEW T,
         BodyInv(body, i, c, N, S, R, P, tc, a, T),
         Kind(body, i) = "finish", Accepted(body),
         NEW x, NEW calls, EndCode(body, x, i, calls),
         NEW d, Joins(c, x, d), NEW e, Resolves(body, d, R, P, e)
  PROVE  /\ \E b : Complete(body, e, b, tc)
         /\ Apart(e, T[0], tc)
         /\ calls /\ At(body, {"main"}) = {} => EndsWithCall(body, e, Len(c))
<1>1. /\ Body(body) /\ i \in 1..Len(body) /\ i \in Nat
      /\ Flow(body, c, a) /\ c \in Seq(Instructions(body)) /\ Len(c) \in Nat
      /\ a[Len(c) + 1] = State(body, T, Operands(body, i), Loops(body, i))
      /\ Frames(body, c, a, T, Open(body, i), N)
      /\ Scopes(body, c, a, T, Loops(body, i), S)
      /\ Unresolved(c) \subseteq Remembered(N, S, P, Part(body, i))
      /\ Named(body, c, T, i, tc)
      /\ Sources(body, c, i)
  BY ItemFacts
<1>2. /\ i = Len(body)
      /\ Open(body, i) = <<>> /\ Loops(body, i) = <<>>
      /\ Operands(body, i) = 0 /\ Part(body, i) = "body"
  BY <1>1, LastFinishes
<1>3. Unresolved(c) \subseteq JumpsOf(P)
  <2>1. Len(N) = 0 /\ Len(S) = 0
    BY <1>1, <1>2 DEF Frames, Scopes
  <2>2. JumpsOf(N) = {} /\ BreaksOf(S) = {} /\ ContinuesOf(S) = {}
    BY <2>1 DEF JumpsOf, BreaksOf, ContinuesOf
  <2> QED
    BY <1>1, <1>2, <2>2 DEF Remembered
<1>4. PICK v : v = State(body, T, 0, Loops(body, i))
  OBVIOUS
<1>5. v \in States /\ v.height = 0 /\ a[Len(c) + 1] = v
  BY <1>1, <1>2, <1>4, StateTyped DEF State
<1>6. PICK s : Block(body, c, a, x, s)
  BY <1>5, EndBlock
<1>7. /\ x \in Seq(Instructions(body)) /\ Len(x) \in {2, 4} /\ Len(x) \in Nat
      /\ x[Len(x)].op = "return"
      /\ \A k \in 1..Len(x) : x[k].op \in {"main", "drop", "const", "return"} /\ x[k].item = i
      /\ calls => /\ Len(x) = 4 /\ x[1].op = "main" /\ x[2].op = "drop"
                  /\ x[3].op = "const" /\ x[4].op = "return"
  BY EndOps
<1>8. /\ Len(d) = Len(c) + Len(x)
      /\ \A j \in 1..Len(c) : d[j] = c[j]
      /\ \A k \in 1..Len(x) : d[Len(c) + k] = x[k]
  BY <1>1, <1>6, Emit DEF Joins
<1>9. PICK t : Flow(body, d, t) /\ Kept(c, a, d, t)
  BY <1>1, <1>6, Emit DEF Joins
<1>10. \A j \in 1..Len(d) :
         \/ j \in 1..Len(c)
         \/ j \notin 1..Len(c) /\ j - Len(c) \in 1..Len(x) /\ j = Len(c) + (j - Len(c))
  BY <1>1, <1>7, <1>8
<1>11. ASSUME NEW j \in 1..Len(d), j \notin 1..Len(c)
       PROVE  d[j].op \in {"main", "drop", "const", "return"} /\ d[j].item = i
  <2>1. PICK k \in 1..Len(x) : j = Len(c) + k
    BY <1>10, <1>11
  <2>2. d[j] = x[k]
    BY <1>8, <2>1
  <2> QED
    BY <1>7, <2>2
<1>12. ASSUME NEW p \in 1..Len(P), NEW k \in 1..Len(R), R[k].label = P[p].label
       PROVE  GotoLands(c, a, P[p].jump, R[k].target)
  BY <1>12, LabelsDeclared
<1>13. ASSUME NEW j \in 1..Len(d)
       PROVE  \/ e[j] = d[j] /\ \A p \in 1..Len(P) : P[p].jump # j
              \/ GotoLands(c, a, j, e[j].arg)
  <2>1. ASSUME NEW p \in 1..Len(P), NEW k \in 1..Len(R),
               P[p].jump = j, R[k].label = P[p].label, e[j].arg = R[k].target
        PROVE  GotoLands(c, a, j, e[j].arg)
    BY <1>12, <2>1
  <2> QED
    BY <2>1 DEF Resolves
<1>14. /\ e \in Seq(Instructions(body)) /\ Len(e) = Len(d) /\ Len(d) \in Nat
       /\ \A j \in 1..Len(d) : e[j].op = d[j].op /\ e[j].item = d[j].item
  BY <1>1, <1>7, <1>8 DEF Resolves
<1>15. Flow(body, e, t)
  <2>1. ASSUME NEW j \in 1..Len(d), GotoLands(c, a, j, e[j].arg)
        PROVE  /\ d[j].op \in Jumps /\ e[j].arg \in 1..Len(d) + 1
               /\ Leads(d[j], t[j], t[e[j].arg])
    <3>1. PICK target : target = e[j].arg
      OBVIOUS
    <3>2. /\ j \in 1..Len(c) /\ c[j].op = "jump" /\ target \in 1..Len(c) + 1
          /\ Leads(c[j], a[j], a[target])
      BY <2>1, <3>1 DEF GotoLands
    <3>3. d[j] = c[j] /\ t[j] = a[j] /\ t[target] = a[target]
      <4>1. j \in 1..Len(c) + 1
        BY <1>1, <3>2
      <4> QED
        BY <1>8, <1>9, <3>2, <4>1 DEF Kept
    <3>4. target \in 1..Len(d) + 1
      BY <1>1, <1>7, <1>8, <3>2
    <3> QED
      BY <3>1, <3>2, <3>3, <3>4 DEF Jumps
  <2>2. ASSUME NEW j \in 1..Len(d)
        PROVE  \/ e[j] = d[j]
               \/ /\ d[j].op \in Jumps /\ e[j].arg \in 1..Len(d) + 1
                  /\ Leads(d[j], t[j], t[e[j].arg])
    BY <1>13, <2>1
  <2> QED
    BY <1>9, <1>14, <2>2, Resolve
<1>16. ASSUME NEW j \in 1..Len(e), e[j].op \in Jumps
       PROVE  j \in 1..Len(c) /\ e[j].arg \in 1..Len(c) + 1
  <2>1. j \in 1..Len(c)
    <3>1. d[j].op \in Jumps
      BY <1>14, <1>16
    <3> QED
      BY <1>11, <1>14, <3>1 DEF Jumps
  <2>2. CASE GotoLands(c, a, j, e[j].arg)
    BY <2>1, <2>2 DEF GotoLands
  <2>3. CASE e[j] = d[j] /\ \A p \in 1..Len(P) : P[p].jump # j
    <3>1. e[j] = c[j]
      BY <1>8, <2>1, <2>3
    <3>2. j \notin JumpsOf(P)
      BY <2>3 DEF JumpsOf
    <3>3. c[j].arg # Nowhere /\ c[j].op \in Jumps
      BY <1>3, <1>16, <2>1, <3>1, <3>2 DEF Unresolved
    <3>4. FlowAt(body, c, a, j)
      BY <1>1, <2>1 DEF Flow
    <3> QED
      BY <2>1, <3>1, <3>3, <3>4 DEF FlowAt
  <2> QED
    BY <1>13, <1>14, <2>1, <2>2, <2>3
<1>17. ASSUME NEW j \in 1..Len(e), e[j].op \in {"define", "load", "store"}
       PROVE  j \in 1..Len(c) /\ e[j] = c[j]
  <2>1. j \in 1..Len(c) /\ d[j] = c[j]
    BY <1>8, <1>11, <1>14, <1>17
  <2>2. ~GotoLands(c, a, j, e[j].arg)
    BY <1>14, <1>17, <2>1 DEF GotoLands
  <2> QED
    BY <1>13, <1>14, <2>1, <2>2
<1>18. Apart(e, T[0], tc)
  <2>1. Apart(c, T[0], tc)
    BY <1>1 DEF Named
  <2> QED
    BY <1>17, <2>1 DEF Apart
<1>19. Complete(body, e, t, tc)
  <2>1. Len(e) \in Nat \ {0} /\ Len(e) = Len(c) + Len(x) /\ Len(x) \in 1..Len(x)
    <3>1. Len(e) = Len(c) + Len(x)
      BY <1>8, <1>14
    <3>2. Len(c) \in Nat /\ Len(x) \in Nat /\ Len(x) > 0
      <4>1. Len(c) \in Nat
        BY <1>1
      <4>2. Len(x) = 2 \/ Len(x) = 4
        BY <1>7
      <4> QED
        BY <4>1, <4>2
    <3> QED
      BY <3>1, <3>2
  <2>2. e[Len(e)].op = "return"
    <3>1. d[Len(d)] = x[Len(x)] /\ Len(d) \in 1..Len(d)
      BY <1>8, <1>14, <2>1
    <3> QED
      BY <1>7, <1>14, <3>1
  <2>3. ASSUME NEW j \in 1..Len(e), e[j].op \in Jumps PROVE e[j].arg \in 1..Len(e)
    <3>1. PICK n : n = e[j].arg
      OBVIOUS
    <3>2. n \in 1..Len(c) + 1
      BY <1>16, <2>3, <3>1
    <3>3. n \in 1..Len(e)
      BY <1>1, <1>7, <2>1, <3>2
    <3> QED
      BY <3>1, <3>3
  <2>4. ASSUME NEW j \in 1..Len(e), e[j].op \in {"define", "load", "store"} PROVE e[j].arg < tc
    BY <1>1, <1>17, <2>4 DEF Named
  <2> QED
    BY <1>15, <2>1, <2>2, <2>3, <2>4 DEF Complete
<1>20. ASSUME calls, At(body, {"main"}) = {} PROVE EndsWithCall(body, e, Len(c))
  <2>1. Len(x) = 4 /\ x[1].op = "main" /\ x[2].op = "drop" /\ x[3].op = "const"
    BY <1>7, <1>20
  <2>2. Len(e) = Len(c) + 4
    BY <1>8, <1>14, <2>1
  <2>3. d[Len(c) + 1].op = "main" /\ d[Len(c) + 2].op = "drop" /\ d[Len(c) + 3].op = "const"
    BY <1>8, <2>1
  <2>4. Len(c) + 1 \in 1..Len(d) /\ Len(c) + 2 \in 1..Len(d) /\ Len(c) + 3 \in 1..Len(d)
    BY <1>1, <1>8, <2>1
  <2>5. ASSUME NEW j \in 1..Len(c)
        PROVE  e[j].op # "main" /\ body[e[j].item].kind # "finish"
    <3>1. j \in 1..Len(d) /\ d[j] = c[j]
      BY <1>1, <1>8, <2>1
    <3>2. c[j].item < i /\ (c[j].op = "main" => body[c[j].item].kind = "main")
      BY <1>1 DEF Sources
    <3>3. c[j].item \in 1..Len(body)
      <4>1. c[j] \in Instructions(body)
        BY <1>1
      <4> QED
        BY <4>1 DEF Instructions
    <3>4. PICK m : m = c[j].item
      OBVIOUS
    <3>5. m \in 1..Len(body) /\ m < i
      BY <3>2, <3>3, <3>4
    <3>6. m # i
      BY <1>1, <3>5
    <3>7. body[m].kind # "finish"
      BY <1>1, <1>2, <3>5, <3>6, LastFinishes DEF Kind
    <3>8. body[m].kind # "main"
      BY <1>20, <3>5 DEF At
    <3>9. e[j].op = c[j].op /\ e[j].item = c[j].item
      BY <1>14, <3>1
    <3> QED
      BY <3>2, <3>4, <3>7, <3>8, <3>9
  <2>6. ASSUME NEW j \in 1..Len(c), e[j].op \in Jumps PROVE e[j].arg \in 1..Len(c) + 1
    <3>1. j \in 1..Len(e)
      BY <1>1, <2>2
    <3> QED
      BY <1>16, <2>6, <3>1
  <2> QED
    BY <1>1, <1>14, <2>2, <2>3, <2>4, <2>5, <2>6 DEF EndsWithCall
<1> QED
  BY <1>18, <1>19, <1>20
=============================================================================
