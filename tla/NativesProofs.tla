--------------------------- MODULE NativesProofs ---------------------------
(***************************************************************************)
(* Proofs about Natives, for every program and every set of symbols: what  *)
(* the C backend keeps in long longs and doubles, and the assembly backend *)
(* in boxes, is what BoxedProgram's variables hold.                        *)
(*   - Nodes: what is emitted for a node gives, as a box and as either     *)
(*     native value, what the node means, if each of its reads does        *)
(*     (NodeFine, by induction over the nodes NodesRight).                 *)
(*   - What is stored is a value of its slot's kind, in every program:     *)
(*     Inv and TypeOKHolds ask nothing of it.                              *)
(*   - The analysis: once nothing is newly unsafe, what is stored in a     *)
(*     native slot is of the slot's type, where what the analysis does not *)
(*     look at agrees.  The code does not ask that of a program, so        *)
(*     MeaningsAgree and AllAgree are written where they are needed, and   *)
(*     Covered says which programs a theorem is about.                     *)
(*   - The program: Inv, by one lemma for each action, and from it the     *)
(*     properties and the refinement.                                      *)
(***************************************************************************)
EXTENDS Natives, Integers, WellFoundedInduction, TLAPS

(* A set of natural numbers has a least element. *)
LEMMA LeastOfNaturals ==
  ASSUME NEW S \in SUBSET Nat, S # {}
  PROVE \E n \in S : \A m \in S : n <= m
<1> DEFINE less == {p \in Nat \X Nat : p[1] < p[2]}
<1>1. IsWellFoundedOn(less, Nat)
  BY NatLessThanWellFounded, Zenon DEF OpToRel
<1>2. PICK n \in S : \A m \in S : <<m, n>> \notin less
  <2> HIDE DEF less
  <2> QED BY <1>1, WFMin
<1>3. \A m \in S : ~(m < n)
  BY <1>2
<1> QED BY <1>3

(* What holds of a node if it does of the nodes before it holds of all. *)
LEMMA NodeInduction ==
  ASSUME NEW N \in Nat, NEW S \in SUBSET (1..N),
         \A n \in 1..N : (\A m \in 1..n - 1 : m \in S) => n \in S
  PROVE S = 1..N
<1>1. CASE 1..N \ S = {}
  BY <1>1
<1>2. CASE 1..N \ S # {}
  <2>1. 1..N \ S \in SUBSET Nat
    OBVIOUS
  <2>2. PICK n \in 1..N \ S : \A m \in 1..N \ S : n <= m
    BY <2>1, <1>2, LeastOfNaturals
  <2>3. \A m \in 1..n - 1 : m \in S
    BY <2>2
  <2> QED BY <2>2, <2>3
<1> QED BY <1>1, <1>2

(* The operands of a node are known from the nodes before it. *)
LEMMA OperandsBefore ==
  ASSUME NEW e, NEW readable, ExpressionOK(e, readable), NEW n \in 1..Len(e), NEW f, NEW g,
         \A m \in 1..n - 1 : f[m] = g[m]
  PROVE Operands(e[n], f) = Operands(e[n], g)
<1>1. e[n].kids \in Seq(1..n - 1)
  BY DEF ExpressionOK, NodeOK
<1>2. \A i \in 1..Len(e[n].kids) : e[n].kids[i] \in 1..n - 1
  BY <1>1
<1> QED BY <1>2 DEF Operands

-----------------------------------------------------------------------------
(* Each of the four functions over the nodes of an expression is what its  *)
(* definition says of every node: a function with those values exists, by  *)
(* induction on the number of nodes it is defined for.                     *)

LEMMA EvalIs ==
  ASSUME NEW e, NEW readable, ExpressionOK(e, readable), NEW meaning, NEW from, NEW truth
  PROVE \A n \in 1..Len(e) :
          Eval(e, meaning, from, truth)[n] =
            EvalNode(e[n], Operands(e[n], Eval(e, meaning, from, truth)), meaning, from, truth)
<1> DEFINE F(n, kid) == EvalNode(e[n], kid, meaning, from, truth)
           Is(f, k) == f = [n \in 1..k |-> F(n, Operands(e[n], f))]
           Missing == {k \in Nat : k <= Len(e) /\ ~\E f : Is(f, k)}
<1>e. Len(e) \in Nat
  BY DEF ExpressionOK
<1>1. Missing = {}
  <2>1. SUFFICES ASSUME Missing # {} PROVE FALSE
    OBVIOUS
  <2>2. PICK k \in Missing : \A m \in Missing : k <= m
    <3>1. Missing \in SUBSET Nat
      OBVIOUS
    <3> HIDE DEF Missing
    <3> QED BY <2>1, <3>1, LeastOfNaturals
  <2>3. k # 0
    <3>1. Is([n \in 1..0 |-> 0], 0)
      OBVIOUS
    <3> HIDE DEF Is
    <3> QED BY <3>1
  <2>4. k - 1 \in Nat /\ k - 1 \notin Missing /\ k - 1 <= Len(e) /\ k \in Nat /\ k <= Len(e)
    BY <2>2, <2>3, <1>e
  <2>5. PICK f : Is(f, k - 1)
    <3> HIDE DEF Is
    <3> QED BY <2>4
  <2> DEFINE g == [n \in 1..k |-> IF n < k THEN f[n] ELSE F(k, Operands(e[k], f))]
  <2>6. \A n \in 1..k : Operands(e[n], g) = Operands(e[n], f)
    <3>1. TAKE n \in 1..k
    <3>2. n \in 1..Len(e) /\ \A m \in 1..n - 1 : g[m] = f[m]
      BY <2>4
    <3> HIDE DEF g
    <3> QED BY <3>2, OperandsBefore
  <2>7. \A n \in 1..k : g[n] = F(n, Operands(e[n], f))
    <3>1. TAKE n \in 1..k
    <3>2. CASE n = k
      BY <3>2
    <3>3. CASE n # k
      <4>1. n \in 1..k - 1
        BY <3>3, <2>4
      <4>2. f[n] = F(n, Operands(e[n], f))
        <5> HIDE DEF F
        <5> QED BY <2>5, <4>1
      <4> HIDE DEF F
      <4> QED BY <4>1, <4>2, <2>4
    <3> QED BY <3>2, <3>3
  <2>8. Is(g, k)
    <3>1. \A n \in 1..k : g[n] = F(n, Operands(e[n], g))
      <4> HIDE DEF g, F
      <4> QED BY <2>6, <2>7
    <3>2. g = [n \in 1..k |-> g[n]]
      OBVIOUS
    <3> HIDE DEF g, F
    <3> QED BY <3>1, <3>2
  <2> HIDE DEF Is
  <2> QED BY <2>2, <2>8
<1>2. PICK f : Is(f, Len(e))
  <2> HIDE DEF Is
  <2> QED BY <1>1, <1>e
<1>3. \E h : h = [n \in 1..Len(e) |-> EvalNode(e[n], Operands(e[n], h), meaning, from, truth)]
  BY <1>2, Zenon
<1>4. Eval(e, meaning, from, truth) =
        [n \in 1..Len(e) |->
           EvalNode(e[n], Operands(e[n], Eval(e, meaning, from, truth)), meaning, from, truth)]
  BY <1>3, Zenon DEF Eval
<1> QED BY <1>4

LEMMA InferIs ==
  ASSUME NEW e, NEW readable, ExpressionOK(e, readable), NEW before
  PROVE \A n \in 1..Len(e) :
          infer_expr(e, before)[n] =
            infer_node(e[n], Operands(e[n], infer_expr(e, before)), before)
<1> DEFINE F(n, kid) == infer_node(e[n], kid, before)
           Is(f, k) == f = [n \in 1..k |-> F(n, Operands(e[n], f))]
           Missing == {k \in Nat : k <= Len(e) /\ ~\E f : Is(f, k)}
<1>e. Len(e) \in Nat
  BY DEF ExpressionOK
<1>1. Missing = {}
  <2>1. SUFFICES ASSUME Missing # {} PROVE FALSE
    OBVIOUS
  <2>2. PICK k \in Missing : \A m \in Missing : k <= m
    <3>1. Missing \in SUBSET Nat
      OBVIOUS
    <3> HIDE DEF Missing
    <3> QED BY <2>1, <3>1, LeastOfNaturals
  <2>3. k # 0
    <3>1. Is([n \in 1..0 |-> 0], 0)
      OBVIOUS
    <3> HIDE DEF Is
    <3> QED BY <3>1
  <2>4. k - 1 \in Nat /\ k - 1 \notin Missing /\ k - 1 <= Len(e) /\ k \in Nat /\ k <= Len(e)
    BY <2>2, <2>3, <1>e
  <2>5. PICK f : Is(f, k - 1)
    <3> HIDE DEF Is
    <3> QED BY <2>4
  <2> DEFINE g == [n \in 1..k |-> IF n < k THEN f[n] ELSE F(k, Operands(e[k], f))]
  <2>6. \A n \in 1..k : Operands(e[n], g) = Operands(e[n], f)
    <3>1. TAKE n \in 1..k
    <3>2. n \in 1..Len(e) /\ \A m \in 1..n - 1 : g[m] = f[m]
      BY <2>4
    <3> HIDE DEF g
    <3> QED BY <3>2, OperandsBefore
  <2>7. \A n \in 1..k : g[n] = F(n, Operands(e[n], f))
    <3>1. TAKE n \in 1..k
    <3>2. CASE n = k
      BY <3>2
    <3>3. CASE n # k
      <4>1. n \in 1..k - 1
        BY <3>3, <2>4
      <4>2. f[n] = F(n, Operands(e[n], f))
        <5> HIDE DEF F
        <5> QED BY <2>5, <4>1
      <4> HIDE DEF F
      <4> QED BY <4>1, <4>2, <2>4
    <3> QED BY <3>2, <3>3
  <2>8. Is(g, k)
    <3>1. \A n \in 1..k : g[n] = F(n, Operands(e[n], g))
      <4> HIDE DEF g, F
      <4> QED BY <2>6, <2>7
    <3>2. g = [n \in 1..k |-> g[n]]
      OBVIOUS
    <3> HIDE DEF g, F
    <3> QED BY <3>1, <3>2
  <2> HIDE DEF Is
  <2> QED BY <2>2, <2>8
<1>2. PICK f : Is(f, Len(e))
  <2> HIDE DEF Is
  <2> QED BY <1>1, <1>e
<1>3. \E h : h = [n \in 1..Len(e) |-> infer_node(e[n], Operands(e[n], h), before)]
  BY <1>2, Zenon
<1>4. infer_expr(e, before) =
        [n \in 1..Len(e) |->
           infer_node(e[n], Operands(e[n], infer_expr(e, before)), before)]
  BY <1>3, Zenon DEF infer_expr
<1> QED BY <1>4

LEMMA StableIs ==
  ASSUME NEW e, NEW readable, ExpressionOK(e, readable), NEW t, NEW before
  PROVE \A n \in 1..Len(e) :
          expression_representation_is_stable(t, before, e)[n] =
            stable_node(e[n], node_representation(e, before)[n],
                           Operands(e[n], node_representation(e, before)),
                            Operands(e[n], expression_representation_is_stable(t, before, e)), t)
<1> DEFINE F(n, kid) == stable_node(e[n], node_representation(e, before)[n],
                           Operands(e[n], node_representation(e, before)), kid, t)
           Is(f, k) == f = [n \in 1..k |-> F(n, Operands(e[n], f))]
           Missing == {k \in Nat : k <= Len(e) /\ ~\E f : Is(f, k)}
<1>e. Len(e) \in Nat
  BY DEF ExpressionOK
<1>1. Missing = {}
  <2>1. SUFFICES ASSUME Missing # {} PROVE FALSE
    OBVIOUS
  <2>2. PICK k \in Missing : \A m \in Missing : k <= m
    <3>1. Missing \in SUBSET Nat
      OBVIOUS
    <3> HIDE DEF Missing
    <3> QED BY <2>1, <3>1, LeastOfNaturals
  <2>3. k # 0
    <3>1. Is([n \in 1..0 |-> 0], 0)
      OBVIOUS
    <3> HIDE DEF Is
    <3> QED BY <3>1
  <2>4. k - 1 \in Nat /\ k - 1 \notin Missing /\ k - 1 <= Len(e) /\ k \in Nat /\ k <= Len(e)
    BY <2>2, <2>3, <1>e
  <2>5. PICK f : Is(f, k - 1)
    <3> HIDE DEF Is
    <3> QED BY <2>4
  <2> DEFINE g == [n \in 1..k |-> IF n < k THEN f[n] ELSE F(k, Operands(e[k], f))]
  <2>6. \A n \in 1..k : Operands(e[n], g) = Operands(e[n], f)
    <3>1. TAKE n \in 1..k
    <3>2. n \in 1..Len(e) /\ \A m \in 1..n - 1 : g[m] = f[m]
      BY <2>4
    <3> HIDE DEF g
    <3> QED BY <3>2, OperandsBefore
  <2>7. \A n \in 1..k : g[n] = F(n, Operands(e[n], f))
    <3>1. TAKE n \in 1..k
    <3>2. CASE n = k
      BY <3>2
    <3>3. CASE n # k
      <4>1. n \in 1..k - 1
        BY <3>3, <2>4
      <4>2. f[n] = F(n, Operands(e[n], f))
        <5> HIDE DEF F
        <5> QED BY <2>5, <4>1
      <4> HIDE DEF F
      <4> QED BY <4>1, <4>2, <2>4
    <3> QED BY <3>2, <3>3
  <2>8. Is(g, k)
    <3>1. \A n \in 1..k : g[n] = F(n, Operands(e[n], g))
      <4> HIDE DEF g, F
      <4> QED BY <2>6, <2>7
    <3>2. g = [n \in 1..k |-> g[n]]
      OBVIOUS
    <3> HIDE DEF g, F
    <3> QED BY <3>1, <3>2
  <2> HIDE DEF Is
  <2> QED BY <2>2, <2>8
<1>2. PICK f : Is(f, Len(e))
  <2> HIDE DEF Is
  <2> QED BY <1>1, <1>e
<1>3. \E h : h = [n \in 1..Len(e) |-> stable_node(e[n], node_representation(e, before)[n],
                           Operands(e[n], node_representation(e, before)), Operands(e[n], h), t)]
  BY <1>2, Zenon
<1>4. expression_representation_is_stable(t, before, e) =
        [n \in 1..Len(e) |->
           stable_node(e[n], node_representation(e, before)[n],
                           Operands(e[n], node_representation(e, before)),
                            Operands(e[n], expression_representation_is_stable(t, before, e)), t)]
  BY <1>3, Zenon DEF expression_representation_is_stable
<1> QED BY <1>4

LEMMA EmittedIs ==
  ASSUME NEW e, NEW readable, ExpressionOK(e, readable), NEW before, NEW from, NEW truth
  PROVE \A n \in 1..Len(e) :
          Emitted(before, e, from, truth)[n] =
            emit_node(Site(before, e, n), Operands(e[n], Emitted(before, e, from, truth)), from, truth)
<1> DEFINE F(n, kid) == emit_node(Site(before, e, n), kid, from, truth)
           Is(f, k) == f = [n \in 1..k |-> F(n, Operands(e[n], f))]
           Missing == {k \in Nat : k <= Len(e) /\ ~\E f : Is(f, k)}
<1>e. Len(e) \in Nat
  BY DEF ExpressionOK
<1>1. Missing = {}
  <2>1. SUFFICES ASSUME Missing # {} PROVE FALSE
    OBVIOUS
  <2>2. PICK k \in Missing : \A m \in Missing : k <= m
    <3>1. Missing \in SUBSET Nat
      OBVIOUS
    <3> HIDE DEF Missing
    <3> QED BY <2>1, <3>1, LeastOfNaturals
  <2>3. k # 0
    <3>1. Is([n \in 1..0 |-> 0], 0)
      OBVIOUS
    <3> HIDE DEF Is
    <3> QED BY <3>1
  <2>4. k - 1 \in Nat /\ k - 1 \notin Missing /\ k - 1 <= Len(e) /\ k \in Nat /\ k <= Len(e)
    BY <2>2, <2>3, <1>e
  <2>5. PICK f : Is(f, k - 1)
    <3> HIDE DEF Is
    <3> QED BY <2>4
  <2> DEFINE g == [n \in 1..k |-> IF n < k THEN f[n] ELSE F(k, Operands(e[k], f))]
  <2>6. \A n \in 1..k : Operands(e[n], g) = Operands(e[n], f)
    <3>1. TAKE n \in 1..k
    <3>2. n \in 1..Len(e) /\ \A m \in 1..n - 1 : g[m] = f[m]
      BY <2>4
    <3> HIDE DEF g
    <3> QED BY <3>2, OperandsBefore
  <2>7. \A n \in 1..k : g[n] = F(n, Operands(e[n], f))
    <3>1. TAKE n \in 1..k
    <3>2. CASE n = k
      BY <3>2
    <3>3. CASE n # k
      <4>1. n \in 1..k - 1
        BY <3>3, <2>4
      <4>2. f[n] = F(n, Operands(e[n], f))
        <5> HIDE DEF F
        <5> QED BY <2>5, <4>1
      <4> HIDE DEF F
      <4> QED BY <4>1, <4>2, <2>4
    <3> QED BY <3>2, <3>3
  <2>8. Is(g, k)
    <3>1. \A n \in 1..k : g[n] = F(n, Operands(e[n], g))
      <4> HIDE DEF g, F
      <4> QED BY <2>6, <2>7
    <3>2. g = [n \in 1..k |-> g[n]]
      OBVIOUS
    <3> HIDE DEF g, F
    <3> QED BY <3>1, <3>2
  <2> HIDE DEF Is
  <2> QED BY <2>2, <2>8
<1>2. PICK f : Is(f, Len(e))
  <2> HIDE DEF Is
  <2> QED BY <1>1, <1>e
<1>3. \E h : h = [n \in 1..Len(e) |-> emit_node(Site(before, e, n), Operands(e[n], h), from, truth)]
  BY <1>2, Zenon
<1>4. Emitted(before, e, from, truth) =
        [n \in 1..Len(e) |->
           emit_node(Site(before, e, n), Operands(e[n], Emitted(before, e, from, truth)), from, truth)]
  BY <1>3, Zenon DEF Emitted
<1> QED BY <1>4
-----------------------------------------------------------------------------
(* Values *)

(* A value that a variable may hold, but for where it comes from.          *)
Shaped(v) ==
  /\ v \in [tag : Tags, from : Nat, elements : SUBSET Tags]
  /\ v.tag # "array" => v.elements = {}

Fine(v) == v = Error \/ Shaped(v)

(* Nothing has been lost of it. *)
Kept(v) == v = Error \/ v.from # Lost

LEMMA ProperIs ==
  ASSUME NEW v
  PROVE Proper(v) <=> Shaped(v) /\ v.from # Lost
BY DEF Proper, Shaped, Lost

(* What a native slot of a representation holds of a value that fits it.   *)
As(wanted, v) ==
  IF v # Error /\ wanted = "f64" /\ v.tag = "int" THEN Scalar("float", v.from) ELSE v

LEMMA ProperScalar ==
  ASSUME NEW tag \in Tags, NEW from \in Nat
  PROVE Shaped(Scalar(tag, from)) /\ Scalar(tag, from).tag = tag /\ Scalar(tag, from).from = from
BY DEF Shaped, Scalar, Value

LEMMA ScalarOf ==
  ASSUME NEW v, Shaped(v), v.tag # "array"
  PROVE v = Scalar(v.tag, v.from)
BY DEF Shaped, Scalar, Value

LEMMA ErrorIsNot ==
  ASSUME NEW v, Shaped(v)
  PROVE v # Error /\ v # Unbound /\ v # Junk /\ v.tag \in Tags /\ v.from \in Nat
BY DEF Shaped, Error, Unbound, Junk, Scalar, Value, Tags

LEMMA ErrorTag ==
  Error.tag = "error" /\ Error # Unbound /\ Fine(Error)
BY DEF Error, Unbound, Scalar, Value, Fine

LEMMA ProperArray ==
  ASSUME NEW elements \in SUBSET Tags, NEW from \in Nat
  PROVE Shaped(Value("array", from, elements))
BY DEF Shaped, Value, Tags

LEMMA Arity ==
  ASSUME NEW node, NEW n, NEW readable, NodeOK(node, n, readable)
  PROVE /\ node.kind \in {"minus", "not", "length", "cast", "index"} => Len(node.kids) = 1
        /\ node.kind \in {"binary", "logic"} => Len(node.kids) = 2
        /\ node.kind = "ternary" => Len(node.kids) = 3
        /\ node.kind \in {"none", "number", "float", "string", "read", "call", "print"} =>
             Len(node.kids) = 0
<1>1. node.kind # "array" => Len(node.kids) = Kinds[node.kind]
  BY DEF NodeOK
<1>2. /\ Kinds["minus"] = 1 /\ Kinds["not"] = 1 /\ Kinds["length"] = 1 /\ Kinds["cast"] = 1
      /\ Kinds["index"] = 1 /\ Kinds["binary"] = 2 /\ Kinds["logic"] = 2 /\ Kinds["ternary"] = 3
      /\ Kinds["number"] = 0 /\ Kinds["float"] = 0 /\ Kinds["string"] = 0 /\ Kinds["read"] = 0
      /\ Kinds["call"] = 0 /\ Kinds["print"] = 0 /\ Kinds["none"] = 0
  BY DEF Kinds
<1> QED BY <1>1, <1>2

LEMMA BinaryFine ==
  ASSUME NEW op \in Operators, NEW a, NEW b, Shaped(a), Shaped(b), NEW from \in Nat
  PROVE Fine(HDBinary(op, a, b, from))
<1>1. CASE op = "concat"
  <2>1. Shaped(Scalar("string", from))
    BY ProperScalar DEF Tags
  <2>2. CASE "array" \in {a.tag, b.tag}
    <3> DEFINE elements(v) == IF v.tag = "array" THEN v.elements ELSE {v.tag}
    <3>1. elements(a) \cup elements(b) \in SUBSET Tags
      BY DEF Shaped
    <3>2. Shaped(Value("array", from, elements(a) \cup elements(b)))
      <4> HIDE DEF elements
      <4> QED BY <3>1, ProperArray
    <3> QED BY <1>1, <2>2, <3>2 DEF HDBinary, HDConcat, Fine
  <2>3. CASE ~("array" \in {a.tag, b.tag})
    BY <1>1, <2>1, <2>3 DEF HDBinary, HDConcat, Fine
  <2> QED BY <2>2, <2>3
<1>2. CASE op # "concat"
  <2>1. Shaped(Scalar("int", from)) /\ Shaped(Scalar("float", from))
    BY ProperScalar DEF Tags
  <2>2. Shaped(Scalar(a.tag, from))
    BY ProperScalar, ErrorIsNot
  <2> QED BY <1>2, <2>1, <2>2 DEF HDBinary, Operators, Fine
<1> QED BY <1>1, <1>2

(* What an operator makes of values is a value, and is from the statement. *)
LEMMA ApplyFine ==
  ASSUME NEW node, NEW n \in Nat, NEW readable, NodeOK(node, n, readable), node.kind # "read",
         NEW v, Len(v) = Len(node.kids), \A i \in 1..Len(node.kids) : Fine(v[i]),
         NEW from \in Nat, NEW truth \in BOOLEAN
  PROVE Fine(Apply(node, v, from, truth))
<1>1. CASE \E i \in Evaluated(node, truth) : v[i] = Error
  BY <1>1 DEF Apply, Fine
<1>2. CASE ~\E i \in Evaluated(node, truth) : v[i] = Error
  <2>1. \A i \in Evaluated(node, truth) : i \in 1..Len(node.kids) => Shaped(v[i])
    BY <1>2 DEF Fine
  <2>2. \A tag \in Tags : Shaped(Scalar(tag, from))
    BY ProperScalar
  <2>3. CASE node.kind \in {"none", "number", "float", "string", "call", "print", "not", "logic"}
    BY <1>2, <2>2, <2>3 DEF Apply, Fine, Tags, NodeOK, Kinds
  <2>4. CASE node.kind = "array"
    <3>1. \A i \in 1..Len(v) : v[i].tag \in Tags
      BY <2>1, <2>4, ErrorIsNot DEF Evaluated
    <3>2. \A elements \in SUBSET Tags : Shaped(Value("array", from, elements))
      BY ProperArray
    <3>3. {v[i].tag : i \in 1..Len(v)} \in SUBSET Tags
      BY <3>1
    <3>4. Shaped(Value("array", from, {v[i].tag : i \in 1..Len(v)}))
      BY <3>2, <3>3, Zenon
    <3> QED BY <1>2, <2>4, <3>4 DEF Apply, Fine
  <2>5. CASE node.kind \in {"minus", "length", "cast", "index"}
    <3>1. Len(node.kids) = 1 /\ Shaped(v[1])
      <4>1. Len(node.kids) = 1
        BY <2>5, Arity
      <4>2. 1 \in Evaluated(node, truth)
        BY <2>5, <4>1 DEF Evaluated
      <4> QED BY <2>1, <4>1, <4>2
    <3>2. CASE node.kind = "minus"
      <4>1. Fine(HDBinary("arith", Scalar("int", from), v[1], from))
        BY <2>2, <3>1, BinaryFine DEF Operators, Tags
      <4> QED BY <1>2, <3>2, <4>1 DEF Apply
    <3>3. CASE node.kind = "length"
      BY <1>2, <2>2, <3>1, <3>3 DEF Apply, HDLength, Fine, Tags
    <3>4. CASE node.kind = "cast"
      BY <1>2, <2>2, <3>1, <3>4 DEF Apply, HDCast, Fine, Tags, NodeOK
    <3>5. CASE node.kind = "index"
      <4>1. v[1].tag = "array" /\ node.arg \in v[1].elements => node.arg \in Tags
        BY <3>1 DEF Shaped
      <4> QED BY <1>2, <2>2, <3>5, <4>1 DEF Apply, HDIndex, Fine
    <3> QED BY <2>5, <3>2, <3>3, <3>4, <3>5
  <2>6. CASE node.kind = "binary"
    <3>1. Shaped(v[1]) /\ Shaped(v[2]) /\ node.arg \in Operators
      <4>1. Len(node.kids) = 2
        BY <2>6, Arity
      <4>2. 1 \in Evaluated(node, truth) /\ 2 \in Evaluated(node, truth)
        BY <2>6, <4>1 DEF Evaluated
      <4> QED BY <2>1, <2>6, <4>1, <4>2 DEF NodeOK
    <3>2. Fine(HDBinary(node.arg, v[1], v[2], from))
      BY <3>1, BinaryFine
    <3> QED BY <1>2, <2>6, <3>2 DEF Apply
  <2>7. CASE node.kind = "ternary"
    <3>1. Len(node.kids) = 3
      BY <2>7, Arity
    <3> QED BY <1>2, <2>7, <3>1 DEF Apply
  <2> QED BY <2>3, <2>4, <2>5, <2>6, <2>7 DEF NodeOK, Kinds
<1> QED BY <1>1, <1>2

(* An operator loses nothing that its operands have not lost.              *)
LEMMA ApplyKeeps ==
  ASSUME NEW node, NEW n \in Nat, NEW readable, NodeOK(node, n, readable), node.kind # "read",
         NEW v, NEW from \in Nat \ {Lost}, NEW truth \in BOOLEAN,
         \A i \in Evaluated(node, truth) : Kept(v[i])
  PROVE Kept(Apply(node, v, from, truth))
<1>1. /\ Kept(Error) /\ \A tag : Kept(Scalar(tag, from))
      /\ \A elements : Kept(Value("array", from, elements))
  BY DEF Kept, Scalar, Value
<1>2. \A op \in Operators : \A a, b : Kept(HDBinary(op, a, b, from))
  BY <1>1 DEF Operators, HDBinary, HDConcat
<1>3. CASE \E i \in Evaluated(node, truth) : v[i] = Error
  BY <1>1, <1>3 DEF Apply
<1>4. CASE ~\E i \in Evaluated(node, truth) : v[i] = Error
  <2>1. CASE node.kind \in {"none", "number", "float", "string", "call", "print", "not", "logic"}
    BY <1>1, <1>4, <2>1 DEF Apply
  <2>2. CASE node.kind = "array"
    BY <1>1, <1>4, <2>2 DEF Apply
  <2>3. CASE node.kind = "minus"
    BY <1>2, <1>4, <2>3 DEF Apply, Operators
  <2>4. CASE node.kind = "length"
    BY <1>1, <1>4, <2>4 DEF Apply, HDLength
  <2>5. CASE node.kind = "cast"
    BY <1>1, <1>4, <2>5 DEF Apply, HDCast
  <2>6. CASE node.kind = "index"
    BY <1>1, <1>4, <2>6 DEF Apply, HDIndex
  <2>7. CASE node.kind = "binary"
    <3>1. Kept(HDBinary(node.arg, v[1], v[2], from))
      BY <1>2, <2>7 DEF NodeOK
    <3> QED BY <1>4, <2>7, <3>1 DEF Apply
  <2>8. CASE node.kind = "ternary"
    BY <1>4, <2>8 DEF Apply, Evaluated
  <2> QED BY <2>1, <2>2, <2>3, <2>4, <2>5, <2>6, <2>7, <2>8 DEF NodeOK, Kinds
<1> QED BY <1>3, <1>4

-----------------------------------------------------------------------------
(* Nodes *)

(* What is right of a node of a type and a value, of which this is known   *)
(* to be stable and that is emitted: boxed, its value; native, if that is   *)
(* stable, the same.                                                       *)
Right(type, v, stable, code) ==
  /\ Fine(v) /\ code["boxed"] = v
  /\ \A rep \in {"i64", "f64"} :
       stable[rep] =>
         /\ type_representation(type) = rep
         /\ v = Error \/ v.tag \in TagsOf(rep)
         /\ code[rep] = v
         /\ rep = "i64" => code["f64"] = As("f64", v)

(* A readable symbol has a value that is of its type, and each way of      *)
(* reading it gives that.                                                  *)
ReadsRight(s) ==
  /\ Held[s] = Unbound \/ Shaped(Held[s])
  /\ emit_load(s) = IF Held[s] = Unbound THEN Error ELSE Held[s]
  /\ \A rep \in {"i64", "f64"} :
       Rep(s) = rep =>
         /\ Held[s] = Unbound \/ Held[s].tag \in TagsOf(rep)
         /\ NativeRead(s, rep) = emit_load(s)
         /\ rep = "i64" => Native("f64", NativeRead(s, "f64")) = As("f64", emit_load(s))

LEMMA RepOfType ==
  ASSUME NEW type
  PROVE /\ type_representation(type) \in Representations
        /\ type_representation(type) = "i64" <=> type = "int"
        /\ type_representation(type) = "f64" <=> type = "F64"
BY DEF type_representation, Representations

LEMMA CommonNumeric ==
  ASSUME NEW left \in {"int", "F64"}, NEW right \in {"int", "F64"}
  PROVE common_type(left, right) = IF left = right THEN left ELSE "F64"
<1>1. "int" \notin ArrayTypes /\ "F64" \notin ArrayTypes
  BY DEF ArrayTypes, Elements
<1> QED BY <1>1 DEF common_type, common_plain

LEMMA TagsOfRep ==
  /\ TagsOf("i64") = {"int"} /\ TagsOf("f64") = {"float"} /\ TagsOf("boxed") = Tags
BY DEF TagsOf, Tags

(* Conversions keep a value of the type they are to.                       *)
LEMMA UnboxKeeps ==
  ASSUME NEW v, Fine(v), NEW rep \in {"i64", "f64"}, v = Error \/ v.tag \in TagsOf(rep)
  PROVE /\ emit_unbox(rep, v) = v
        /\ Native(rep, v) = v
        /\ rep = "i64" => /\ Native("f64", v) = As("f64", v)
                          /\ Native("f64", emit_unbox("f64", v)) = As("f64", v)
<1>1. CASE v = Error
  BY <1>1, ErrorTag DEF emit_unbox, AsI64, HDAsDouble, Native, As
<1>2. CASE v # Error
  <2>1. Shaped(v) /\ v.tag \in TagsOf(rep)
    BY <1>2 DEF Fine
  <2>2. v = Scalar(v.tag, v.from)
    BY <2>1, ScalarOf, TagsOfRep
  <2>3. CASE rep = "i64"
    <3>1. v.tag = "int" /\ v = Scalar("int", v.from)
      BY <2>1, <2>2, <2>3, TagsOfRep
    <3>2. /\ Scalar("float", v.from) # Error
          /\ Scalar("float", v.from).tag = "float" /\ Scalar("float", v.from).from = v.from
      BY ErrorTag DEF Scalar, Value, Error
    <3> QED BY <1>2, <2>3, <3>1, <3>2 DEF emit_unbox, AsI64, HDAsDouble, Native, As
  <2>4. CASE rep = "f64"
    <3>1. v.tag = "float" /\ v = Scalar("float", v.from)
      BY <2>1, <2>2, <2>4, TagsOfRep
    <3> QED BY <1>2, <2>4, <3>1 DEF emit_unbox, AsI64, HDAsDouble, Native, As
  <2> QED BY <2>3, <2>4
<1> QED BY <1>1, <1>2

(* Two operands of native types, stable, make a value of their common one. *)
LEMMA NumericBinary ==
  ASSUME NEW op \in Operators, op # "concat", op # "compare",
         NEW a, NEW b, Shaped(a), Shaped(b), NEW from,
         NEW left \in {"int", "F64"}, NEW right \in {"int", "F64"},
         a.tag \in TagsOf(type_representation(left)), b.tag \in TagsOf(type_representation(right))
  PROVE \/ HDBinary(op, a, b, from) = Error
        \/ HDBinary(op, a, b, from).tag \in TagsOf(type_representation(common_type(left, right)))
<1>1. /\ a.tag = (IF left = "int" THEN "int" ELSE "float")
      /\ b.tag = (IF right = "int" THEN "int" ELSE "float")
  BY RepOfType, TagsOfRep
<1>2. /\ Scalar("int", from).tag = "int" /\ Scalar("float", from).tag = "float"
      /\ \A tag : Scalar(tag, from).tag = tag
  BY DEF Scalar, Value
<1>3. TagsOf(type_representation(common_type(left, right))) =
        IF left = "int" /\ right = "int" THEN {"int"} ELSE {"float"}
  BY CommonNumeric, RepOfType, TagsOfRep
<1>4. CASE op \in {"arith", "div"}
  BY <1>1, <1>2, <1>3, <1>4 DEF HDBinary, Numeric
<1>5. CASE op = "bits"
  BY <1>1, <1>2, <1>3, <1>5 DEF HDBinary, Numeric
<1>6. CASE op = "pow"
  BY <1>1, <1>2, <1>3, <1>6 DEF HDBinary, Numeric
<1> QED BY <1>4, <1>5, <1>6 DEF Operators

(* A node whose operands are right, and which is what was found of it.     *)
OperandsRight(site, kt, kv, ke) ==
  /\ kv = [i \in 1..Len(site.node.kids) |-> kv[i]]
  /\ \A i \in 1..Len(site.node.kids) :
       /\ site.rep[i] = type_representation(kt[i])
       /\ Right(kt[i], kv[i], site.stable[i], ke[i])

SiteRight(site, readable, before, kt, kv, ke) ==
  /\ \E n \in Nat : NodeOK(site.node, n, readable)
  /\ site.node.kind = "read" => ReadsRight(site.node.arg)
  /\ site.own = type_representation(infer_node(site.node, kt, before))
  /\ OperandsRight(site, kt, kv, ke)

StableAt(site) == stable_node(site.node, site.own, site.rep, site.stable, table)

LEMMA SiteArity ==
  ASSUME NEW site, NEW readable, NEW before, NEW kt, NEW kv, NEW ke,
         SiteRight(site, readable, before, kt, kv, ke)
  PROVE /\ site.node.kind \in {"minus", "not", "length", "cast", "index"} => Len(site.node.kids) = 1
        /\ site.node.kind \in {"binary", "logic"} => Len(site.node.kids) = 2
        /\ site.node.kind = "ternary" => Len(site.node.kids) = 3
        /\ site.node.kind \in {"none", "number", "float", "string", "read", "call", "print"} =>
             Len(site.node.kids) = 0
        /\ Len(site.node.kids) \in Nat /\ Len(kv) = Len(site.node.kids)
        /\ site.node.kind \in DOMAIN Kinds \cup {"array"}
        /\ site.node.kind = "binary" => site.node.arg \in Operators
<1>1. PICK n \in Nat : NodeOK(site.node, n, readable)
  BY DEF SiteRight
<1>2. Len(site.node.kids) \in Nat
  BY <1>1 DEF NodeOK
<1>3. Len(kv) = Len(site.node.kids)
  BY <1>2 DEF SiteRight, OperandsRight
<1> QED BY <1>1, <1>2, <1>3, Arity DEF NodeOK

(* Every node has a value, or is an error.                                 *)
LEMMA NodeFine ==
  ASSUME NEW site, NEW readable, NEW before, NEW kt, NEW kv, NEW ke,
         SiteRight(site, readable, before, kt, kv, ke),
         NEW from \in Nat, NEW truth \in BOOLEAN
  PROVE Fine(EvalNode(site.node, kv, Held, from, truth))
<1>1. CASE site.node.kind = "read"
  BY <1>1, ErrorTag DEF EvalNode, SiteRight, ReadsRight, Fine
<1>2. CASE site.node.kind # "read"
  <2>1. PICK n \in Nat : NodeOK(site.node, n, readable)
    BY DEF SiteRight
  <2>2. \A i \in 1..Len(site.node.kids) : Fine(kv[i])
    BY DEF SiteRight, OperandsRight, Right
  <2>3. Fine(Apply(site.node, kv, from, truth))
    BY <2>1, <2>2, <1>2, SiteArity, ApplyFine
  <2> QED BY <1>2, <2>3 DEF EvalNode
<1> QED BY <1>1, <1>2

(* A stable node has a value with the tag foretold.                        *)
LEMMA TypedNode ==
  ASSUME NEW site, NEW readable, NEW before, NEW kt, NEW kv, NEW ke,
         SiteRight(site, readable, before, kt, kv, ke),
         NEW from \in Nat, NEW truth \in BOOLEAN,
         NEW rep \in {"i64", "f64"}, StableAt(site)[rep]
  PROVE /\ site.own = rep
        /\ \/ EvalNode(site.node, kv, Held, from, truth) = Error
           \/ EvalNode(site.node, kv, Held, from, truth).tag \in TagsOf(rep)
<1> DEFINE node == site.node
           v == EvalNode(node, kv, Held, from, truth)
<1>0. rep \in Representations
  BY DEF Representations
<1>1. site.own = rep
  BY <1>0 DEF StableAt, stable_node
<1>2. \A tag : Scalar(tag, from).tag = tag
  BY DEF Scalar, Value
<1>3. CASE \E i \in Evaluated(node, truth) : kv[i] = Error /\ node.kind # "read"
  BY <1>1, <1>3 DEF EvalNode, Apply
<1>4. CASE ~\E i \in Evaluated(node, truth) : kv[i] = Error /\ node.kind # "read"
  <2>1. CASE node.kind \in {"number", "not", "print"}
    <3>1. rep = "i64"
      BY <1>0, <2>1 DEF StableAt, stable_node
    <3>2. v = Scalar("int", from)
      BY <1>4, <2>1 DEF EvalNode, Apply
    <3> QED BY <1>1, <1>2, <3>1, <3>2, TagsOfRep
  <2>2. CASE node.kind = "length"
    <3>1. rep = "i64"
      BY <1>0, <2>2 DEF StableAt, stable_node
    <3>2. v = Scalar("int", from) \/ v = Error
      BY <1>4, <2>2 DEF EvalNode, Apply, HDLength
    <3> QED BY <1>1, <1>2, <3>1, <3>2, TagsOfRep
  <2>3. CASE node.kind = "float"
    <3>1. rep = "f64"
      BY <1>0, <2>3 DEF StableAt, stable_node
    <3>2. v = Scalar("float", from)
      BY <1>4, <2>3 DEF EvalNode, Apply
    <3> QED BY <1>1, <1>2, <3>1, <3>2, TagsOfRep
  <2>4. CASE node.kind = "read"
    <3>1. Rep(node.arg) = rep
      BY <1>0, <2>4 DEF StableAt, stable_node, Rep
    <3>2. Held[node.arg] = Unbound \/ Held[node.arg].tag \in TagsOf(rep)
      BY <2>4, <3>1 DEF SiteRight, ReadsRight
    <3> QED BY <1>1, <2>4, <3>2 DEF EvalNode
  <2>5. CASE node.kind \in {"binary", "logic"}
    <3>1. /\ node.arg # "concat"
          /\ \A i \in 1..2 : site.rep[i] # "boxed" /\ site.stable[i][site.rep[i]]
      BY <1>0, <2>5 DEF StableAt, stable_node
    <3>2. Len(node.kids) = 2
      BY <2>5, SiteArity
    <3>3. \A i \in 1..2 :
            /\ kt[i] \in {"int", "F64"} /\ site.rep[i] = type_representation(kt[i])
            /\ kv[i] = Error \/ (Shaped(kv[i]) /\ kv[i].tag \in TagsOf(type_representation(kt[i])))
      BY <3>1, <3>2, RepOfType DEF SiteRight, OperandsRight, Right, Fine, Representations
    <3>4. CASE node.kind = "logic"
      <4>1. v = Scalar("int", from)
        BY <1>4, <3>4 DEF EvalNode, Apply
      <4>2. infer_node(node, kt, before) = "int"
        BY <3>4 DEF infer_node
      <4>3. rep = "i64"
        BY <1>1, <4>2, RepOfType DEF SiteRight
      <4> QED BY <1>1, <1>2, <4>1, <4>3, TagsOfRep
    <3>5. CASE node.kind = "binary" /\ node.arg = "compare"
      <4>1. v = HDBinary("compare", kv[1], kv[2], from)
        BY <1>4, <3>5 DEF EvalNode, Apply
      <4>2. infer_node(node, kt, before) = "int"
        BY <3>5 DEF infer_node
      <4>3. rep = "i64"
        BY <1>1, <4>2, RepOfType DEF SiteRight
      <4>4. v = Error \/ v = Scalar("int", from)
        BY <4>1 DEF HDBinary
      <4> QED BY <1>1, <1>2, <4>3, <4>4, TagsOfRep
    <3>6. CASE node.kind = "binary" /\ node.arg # "compare"
      <4>1. v = HDBinary(node.arg, kv[1], kv[2], from)
        BY <1>4, <3>6 DEF EvalNode, Apply
      <4>2. 1 \in Evaluated(node, truth) /\ 2 \in Evaluated(node, truth)
        BY <3>2, <3>6 DEF Evaluated
      <4>3. /\ Shaped(kv[1]) /\ kv[1].tag \in TagsOf(type_representation(kt[1]))
            /\ Shaped(kv[2]) /\ kv[2].tag \in TagsOf(type_representation(kt[2]))
        BY <1>4, <3>3, <3>6, <4>2
      <4>4. infer_node(node, kt, before) = common_type(kt[1], kt[2])
        BY <3>1, <3>6 DEF infer_node
      <4>5. rep = type_representation(common_type(kt[1], kt[2]))
        BY <1>1, <4>4 DEF SiteRight
      <4>6. kt[1] \in {"int", "F64"} /\ kt[2] \in {"int", "F64"}
        BY <3>3
      <4>7. node.arg \in Operators
        BY <3>6, SiteArity
      <4> HIDE DEF v, node
      <4>8. v = Error \/ v.tag \in TagsOf(type_representation(common_type(kt[1], kt[2])))
        BY <3>1, <3>6, <4>1, <4>3, <4>6, <4>7, NumericBinary
      <4> QED BY <1>1, <4>5, <4>8 DEF v, node
    <3> QED BY <2>5, <3>4, <3>5, <3>6
  <2>6. CASE node.kind = "minus"
    <3>1. site.stable[1][site.rep[1]] /\ Len(node.kids) = 1
      BY <1>0, <2>6, SiteArity DEF StableAt, stable_node
    <3>2. site.rep[1] = rep
      BY <1>1, <2>6, <3>1 DEF SiteRight, OperandsRight, infer_node
    <3>3. Shaped(kv[1]) /\ kv[1].tag \in TagsOf(rep)
      <4>1. 1 \in Evaluated(node, truth)
        BY <2>6, <3>1 DEF Evaluated
      <4> QED BY <1>4, <2>6, <3>1, <3>2, <4>1 DEF SiteRight, OperandsRight, Right, Fine
    <3>4. v = HDBinary("arith", Scalar("int", from), kv[1], from)
      BY <1>4, <2>6 DEF EvalNode, Apply
    <3> QED BY <1>1, <1>2, <3>3, <3>4, TagsOfRep DEF HDBinary, Numeric
  <2>7. CASE node.kind = "ternary"
    <3>1. site.stable[2][rep] /\ site.stable[3][rep] /\ Len(node.kids) = 3
      BY <1>0, <2>7, SiteArity DEF StableAt, stable_node
    <3>2. \A i \in 2..3 : kv[i] = Error \/ kv[i].tag \in TagsOf(rep)
      BY <3>1 DEF SiteRight, OperandsRight, Right
    <3>3. v = kv[2] \/ v = kv[3]
      BY <1>4, <2>7 DEF EvalNode, Apply
    <3> QED BY <1>1, <3>2, <3>3
  <2>8. node.kind \in {"number", "not", "print", "length", "float", "read", "binary", "logic",
                       "minus", "ternary"}
    BY <1>0 DEF StableAt, stable_node
  <2> QED BY <2>1, <2>2, <2>3, <2>4, <2>5, <2>6, <2>7, <2>8
<1> QED BY <1>3, <1>4

(* Operators on numbers do not tell an integer from its float, where the   *)
(* other operand is a float or the result is an integer.                   *)
LEMMA BinaryAs ==
  ASSUME NEW op \in {"arith", "compare"}, NEW a, NEW b, Fine(a), Fine(b), NEW from,
         a = Error \/ a.tag \in Numeric, b = Error \/ b.tag \in Numeric,
         op = "arith" => a = Error \/ b = Error \/ "float" \in {a.tag, b.tag}
  PROVE /\ As("f64", a) = Error <=> a = Error
        /\ As("f64", b) = Error <=> b = Error
        /\ a # Error /\ b # Error =>
             HDBinary(op, As("f64", a), As("f64", b), from) = HDBinary(op, a, b, from)
<1>1. \A x : Scalar("float", x).tag = "float" /\ Scalar("float", x) # Error
  BY ErrorTag DEF Scalar, Value
<1>2. /\ a # Error => As("f64", a).tag = "float" /\ As("f64", a) # Error
      /\ b # Error => As("f64", b).tag = "float" /\ As("f64", b) # Error
      /\ As("f64", Error) = Error
  BY <1>1 DEF As, Numeric
<1>3. ASSUME a # Error, b # Error
      PROVE HDBinary(op, As("f64", a), As("f64", b), from) = HDBinary(op, a, b, from)
  <2>1. CASE op = "arith"
    BY <1>2, <1>3, <2>1 DEF HDBinary, Numeric
  <2>2. CASE op = "compare"
    BY <1>2, <1>3, <2>2 DEF HDBinary, Numeric
  <2> QED BY <2>1, <2>2
<1> QED BY <1>2, <1>3

(* The body of a direct expression computes the node's value from native   *)
(* operands.                                                               *)
LEMMA DirectNode ==
  ASSUME NEW site, NEW readable, NEW before, NEW kt, NEW kv, NEW ke,
         SiteRight(site, readable, before, kt, kv, ke), direct_scalar_expression(site),
         NEW from \in Nat, NEW truth \in BOOLEAN
  PROVE /\ site.own \in {"i64", "f64"} /\ StableAt(site)[site.own] /\ site.node.kind # "read"
        /\ emit_direct_scalar_body(site, ke, from, truth) = EvalNode(site.node, kv, Held, from, truth)
<1> DEFINE node == site.node
           operands == IF node.kind # "binary" \/ node.arg # "compare" THEN site.own
                       ELSE IF \E i \in 1..2 : site.rep[i] = "f64" THEN "f64" ELSE "i64"
           wanted(i) == IF node.kind = "ternary" /\ i = 1 THEN "boxed" ELSE operands
           w == [i \in 1..Len(node.kids) |-> ke[i][wanted(i)]]
<1>1. site.own \in {"i64", "f64"} /\ site.own \in Representations
  BY RepOfType DEF direct_scalar_expression, SiteRight, Representations
<1>2. /\ kv = [i \in 1..Len(node.kids) |-> kv[i]]
      /\ \A i \in 1..Len(node.kids) :
           /\ site.rep[i] = type_representation(kt[i])
           /\ Right(kt[i], kv[i], site.stable[i], ke[i])
  BY DEF SiteRight, OperandsRight
<1>3. emit_direct_scalar_body(site, ke, from, truth) = Apply(node, w, from, truth)
  BY DEF emit_direct_scalar_body
<1>4. CASE node.kind = "minus"
  <2>1. site.stable[1][site.rep[1]] /\ Len(node.kids) = 1
    BY <1>4, SiteArity DEF direct_scalar_expression
  <2>2. site.rep[1] = site.own
    BY <1>2, <1>4, <2>1 DEF SiteRight, infer_node
  <2>3. ke[1][site.own] = kv[1]
    BY <1>1, <1>2, <2>1, <2>2 DEF Right
  <2>4. w = kv
    BY <1>2, <1>4, <2>1, <2>3
  <2>5. StableAt(site)[site.own]
    BY <1>1, <1>4, <2>1 DEF StableAt, stable_node
  <2> QED BY <1>1, <1>3, <1>4, <2>4, <2>5 DEF EvalNode
<1>5. CASE node.kind = "ternary"
  <2>1. site.stable[2][site.own] /\ site.stable[3][site.own] /\ Len(node.kids) = 3
    BY <1>5, SiteArity DEF direct_scalar_expression
  <2>2. ke[1]["boxed"] = kv[1] /\ ke[2][site.own] = kv[2] /\ ke[3][site.own] = kv[3]
    BY <1>1, <1>2, <2>1 DEF Right
  <2>3. w = kv
    <3>1. \A i \in 1..3 : ke[i][wanted(i)] = kv[i]
      BY <1>5, <2>2
    <3> HIDE DEF wanted
    <3> QED BY <1>2, <2>1, <3>1
  <2>4. StableAt(site)[site.own]
    BY <1>1, <1>5, <2>1 DEF StableAt, stable_node
  <2> QED BY <1>1, <1>3, <1>5, <2>3, <2>4 DEF EvalNode
<1>6. CASE node.kind = "binary"
  <2>1. /\ node.arg \in {"arith", "compare"} /\ Len(node.kids) = 2
        /\ \A i \in 1..2 : site.rep[i] # "boxed" /\ site.stable[i][site.rep[i]]
    BY <1>6, SiteArity DEF direct_scalar_expression
  <2>2. \A i \in 1..2 :
          /\ kt[i] \in {"int", "F64"} /\ site.rep[i] = type_representation(kt[i])
          /\ Fine(kv[i]) /\ (kv[i] = Error \/ kv[i].tag \in TagsOf(site.rep[i]))
          /\ ke[i][site.rep[i]] = kv[i]
          /\ site.rep[i] = "i64" => ke[i]["f64"] = As("f64", kv[i])
    BY <1>2, <2>1, RepOfType DEF Right, Representations
  <2>3. StableAt(site)[site.own]
    BY <1>1, <1>6, <2>1 DEF StableAt, stable_node
  <2>4. w = [i \in 1..2 |-> ke[i][operands]]
    BY <1>6, <2>1
  <2>5. \A i \in 1..2 : site.rep[i] = "f64" => As("f64", kv[i]) = kv[i]
    BY <2>2, TagsOfRep DEF As
  <2>6. node.arg = "arith" => site.own = type_representation(common_type(kt[1], kt[2]))
    BY <1>6, <2>1 DEF SiteRight, infer_node
  <2>7. CASE operands = "f64"
    <3>1. w[1] = As("f64", kv[1]) /\ w[2] = As("f64", kv[2])
      <4>1. \A i \in 1..2 : ke[i]["f64"] = As("f64", kv[i])
        BY <2>2, <2>5, RepOfType
      <4> HIDE DEF operands, w
      <4> QED BY <2>4, <2>7, <4>1
    <3>2. /\ kv[1] = Error \/ kv[1].tag \in Numeric
          /\ kv[2] = Error \/ kv[2].tag \in Numeric
      BY <2>2, RepOfType, TagsOfRep DEF Numeric
    <3>3. node.arg = "arith" => kv[1] = Error \/ kv[2] = Error \/ "float" \in {kv[1].tag, kv[2].tag}
      <4>1. SUFFICES ASSUME node.arg = "arith"
                     PROVE kv[1] = Error \/ kv[2] = Error \/ "float" \in {kv[1].tag, kv[2].tag}
        OBVIOUS
      <4>2. site.own = "f64"
        BY <2>7, <4>1
      <4>3. kt[1] = "F64" \/ kt[2] = "F64"
        BY <2>2, <2>6, <4>1, <4>2, CommonNumeric, RepOfType
      <4> QED BY <2>2, <4>3, RepOfType, TagsOfRep
    <3>4. /\ w[1] = Error <=> kv[1] = Error
          /\ w[2] = Error <=> kv[2] = Error
          /\ kv[1] # Error /\ kv[2] # Error =>
               HDBinary(node.arg, w[1], w[2], from) = HDBinary(node.arg, kv[1], kv[2], from)
      <4> HIDE DEF node, w
      <4> QED BY <2>1, <2>2, <3>1, <3>2, <3>3, BinaryAs
    <3>5. Evaluated(node, truth) = 1..2
      BY <1>6, <2>1 DEF Evaluated
    <3>6. Apply(node, w, from, truth) = Apply(node, kv, from, truth)
      <4> HIDE DEF w
      <4> QED BY <1>6, <3>4, <3>5 DEF Apply
    <3> QED BY <1>1, <1>3, <1>6, <2>3, <3>6 DEF EvalNode
  <2>8. CASE operands # "f64"
    <3>1. operands = "i64" /\ site.rep[1] = "i64" /\ site.rep[2] = "i64"
      <4>1. CASE node.arg = "compare"
        BY <1>6, <2>1, <2>2, <2>8, <4>1, RepOfType DEF Representations
      <4>2. CASE node.arg = "arith"
        <5>1. site.own = "i64"
          BY <1>1, <2>8, <4>2
        <5>2. kt[1] = "int" /\ kt[2] = "int"
          BY <2>2, <2>6, <4>2, <5>1, CommonNumeric, RepOfType
        <5> QED BY <2>2, <4>2, <5>1, <5>2, RepOfType
      <4> QED BY <2>1, <4>1, <4>2
    <3>2. \A i \in 1..2 : ke[i][operands] = kv[i]
      BY <2>2, <3>1
    <3>3. w = kv
      <4> HIDE DEF operands, w
      <4> QED BY <1>2, <2>1, <2>4, <3>2
    <3> QED BY <1>1, <1>3, <1>6, <2>3, <3>3 DEF EvalNode
  <2> QED BY <2>7, <2>8
<1> QED BY <1>4, <1>5, <1>6 DEF direct_scalar_expression

(* A boxed expression is its value.                                        *)
LEMMA BoxedNode ==
  ASSUME NEW site, NEW readable, NEW before, NEW kt, NEW kv, NEW ke,
         SiteRight(site, readable, before, kt, kv, ke),
         NEW from \in Nat, NEW truth \in BOOLEAN
  PROVE emit_expression(site, ke, from, truth) = EvalNode(site.node, kv, Held, from, truth)
<1>1. CASE site.node.kind = "read"
  BY <1>1 DEF emit_expression, EvalNode, SiteRight, ReadsRight
<1>2. CASE site.node.kind # "read" /\ direct_scalar_expression(site)
  <2> DEFINE v == EvalNode(site.node, kv, Held, from, truth)
  <2>1. site.own \in {"i64", "f64"} /\ emit_direct_scalar_body(site, ke, from, truth) = v
    BY <1>2, DirectNode
  <2>2. Fine(v) /\ (v = Error \/ v.tag \in TagsOf(site.own))
    BY <1>2, DirectNode, NodeFine, TypedNode
  <2> HIDE DEF v
  <2>3. Native(site.own, v) = v
    BY <2>1, <2>2, UnboxKeeps
  <2> QED BY <1>2, <2>1, <2>3 DEF emit_expression, v
<1>3. CASE site.node.kind # "read" /\ ~direct_scalar_expression(site)
  <2>1. /\ kv = [i \in 1..Len(site.node.kids) |-> kv[i]]
        /\ \A i \in 1..Len(site.node.kids) : ke[i]["boxed"] = kv[i]
    BY DEF SiteRight, OperandsRight, Right
  <2>2. [i \in 1..Len(site.node.kids) |-> ke[i]["boxed"]] = kv
    BY <2>1
  <2> QED BY <1>3, <2>2 DEF emit_expression, EvalNode
<1> QED BY <1>1, <1>2, <1>3

(* A stable expression is its value where a native one is wanted, and an   *)
(* integer one is its value as a float where that is wanted.               *)
LEMMA ScalarNode ==
  ASSUME NEW site, NEW readable, NEW before, NEW kt, NEW kv, NEW ke,
         SiteRight(site, readable, before, kt, kv, ke),
         NEW from \in Nat, NEW truth \in BOOLEAN,
         NEW rep \in {"i64", "f64"}, StableAt(site)[rep]
  PROVE LET v == EvalNode(site.node, kv, Held, from, truth) IN
        /\ emit_scalar_value(site, ke, rep, from, truth) = v
        /\ rep = "i64" => emit_scalar_value(site, ke, "f64", from, truth) = As("f64", v)
<1> DEFINE v == EvalNode(site.node, kv, Held, from, truth)
           value(wanted) ==
             CASE site.node.kind \in {"number", "float"} -> Apply(site.node, <<>>, from, truth)
               [] site.node.kind = "read" -> NativeRead(site.node.arg, wanted)
               [] direct_scalar_expression(site) ->
                    emit_direct_scalar_body(site, ke, from, truth)
               [] OTHER -> emit_unbox(wanted, emit_expression(site, ke, from, truth))
<1>1. /\ Fine(v) /\ site.own = rep /\ (v = Error \/ v.tag \in TagsOf(rep))
      /\ emit_expression(site, ke, from, truth) = v
  BY NodeFine, TypedNode, BoxedNode
<1>2. /\ emit_scalar_value(site, ke, rep, from, truth) = value(rep)
      /\ rep = "i64" => emit_scalar_value(site, ke, "f64", from, truth) = Native("f64", value("f64"))
  BY <1>1 DEF emit_scalar_value
<1>3. /\ emit_unbox(rep, v) = v
      /\ rep = "i64" => /\ Native("f64", v) = As("f64", v)
                        /\ Native("f64", emit_unbox("f64", v)) = As("f64", v)
  <2> HIDE DEF v
  <2> QED BY <1>1, UnboxKeeps
<1>4. CASE site.node.kind \in {"number", "float"}
  <2>1. Apply(site.node, <<>>, from, truth) = v
    <3>1. Evaluated(site.node, truth) = {}
      BY <1>4, SiteArity DEF Evaluated
    <3> QED BY <1>4, <3>1 DEF Apply, EvalNode
  <2>2. value(rep) = v /\ value("f64") = v
    BY <1>4, <2>1 DEF direct_scalar_expression
  <2> HIDE DEF v, value
  <2> QED BY <1>2, <1>3, <2>2 DEF v
<1>5. CASE site.node.kind = "read"
  <2>1. Rep(site.node.arg) = rep
    BY <1>5 DEF StableAt, stable_node, Rep, Representations
  <2>2. ReadsRight(site.node.arg) /\ v = emit_load(site.node.arg)
    BY <1>5 DEF SiteRight, EvalNode, ReadsRight
  <2>3. value(rep) = NativeRead(site.node.arg, rep) /\ value("f64") = NativeRead(site.node.arg, "f64")
    BY <1>5 DEF direct_scalar_expression
  <2> HIDE DEF v, value
  <2> QED BY <1>2, <2>1, <2>2, <2>3 DEF ReadsRight, v
<1>6. CASE site.node.kind \notin {"number", "float", "read"} /\ direct_scalar_expression(site)
  <2>1. value(rep) = v /\ value("f64") = v
    BY <1>6, DirectNode
  <2> HIDE DEF v, value
  <2> QED BY <1>2, <1>3, <2>1 DEF v
<1>7. CASE site.node.kind \notin {"number", "float", "read"} /\ ~direct_scalar_expression(site)
  <2>1. value(rep) = emit_unbox(rep, v) /\ value("f64") = emit_unbox("f64", v)
    BY <1>1, <1>7
  <2> HIDE DEF v, value
  <2> QED BY <1>2, <1>3, <2>1 DEF v
<1> QED BY <1>4, <1>5, <1>6, <1>7

-----------------------------------------------------------------------------
(* Expressions *)

LEMMA NodesRight ==
  ASSUME NEW e, NEW readable, ExpressionOK(e, readable), \A s \in readable : ReadsRight(s),
         NEW before, NEW from \in Nat, NEW truth \in BOOLEAN
  PROVE \A n \in 1..Len(e) :
          Right(infer_expr(e, before)[n], Eval(e, Held, from, truth)[n],
                expression_representation_is_stable(table, before, e)[n],
                Emitted(before, e, from, truth)[n])
<1> DEFINE type == infer_expr(e, before)
           val == Eval(e, Held, from, truth)
           stable == expression_representation_is_stable(table, before, e)
           code == Emitted(before, e, from, truth)
           S == {n \in 1..Len(e) : Right(type[n], val[n], stable[n], code[n])}
<1>1. ASSUME NEW n \in 1..Len(e), \A m \in 1..n - 1 : m \in S
      PROVE n \in S
  <2> DEFINE site == Site(before, e, n)
             kt == Operands(e[n], type)
             kv == Operands(e[n], val)
             ke == Operands(e[n], code)
  <2>1. /\ site.node = e[n] /\ site.own = node_representation(e, before)[n]
        /\ site.rep = Operands(e[n], node_representation(e, before))
        /\ site.stable = Operands(e[n], stable)
    BY DEF Site
  <2>2. NodeOK(e[n], n, readable) /\ n \in Nat
    BY DEF ExpressionOK
  <2>3. \A i \in 1..Len(e[n].kids) : e[n].kids[i] \in 1..n - 1 /\ e[n].kids[i] \in 1..Len(e)
    BY <2>2 DEF NodeOK, ExpressionOK
  <2>4. \A m \in 1..Len(e) : node_representation(e, before)[m] = type_representation(type[m])
    BY DEF node_representation
  <2>5. \A i \in 1..Len(e[n].kids) :
          /\ kt[i] = type[e[n].kids[i]] /\ kv[i] = val[e[n].kids[i]]
          /\ ke[i] = code[e[n].kids[i]] /\ site.stable[i] = stable[e[n].kids[i]]
          /\ site.rep[i] = type_representation(type[e[n].kids[i]])
    <3> HIDE DEF site, type, val, stable, code
    <3> QED BY <2>1, <2>3, <2>4 DEF Operands
  <2>6. OperandsRight(site, kt, kv, ke)
    <3>1. kv = [i \in 1..Len(e[n].kids) |-> kv[i]]
      BY DEF Operands
    <3>2. \A i \in 1..Len(e[n].kids) : Right(kt[i], kv[i], site.stable[i], ke[i])
      <4> HIDE DEF site, kt, kv, ke, type, val, stable, code
      <4> QED BY <1>1, <2>3, <2>5
    <3> HIDE DEF site, kt, kv, ke, type, val, stable, code
    <3> QED BY <2>1, <2>5, <3>1, <3>2 DEF OperandsRight
  <2>7. type[n] = infer_node(e[n], kt, before)
    BY InferIs
  <2>8. val[n] = EvalNode(e[n], kv, Held, from, truth)
    BY EvalIs
  <2>9. stable[n] = StableAt(site)
    <3>1. stable[n] = stable_node(e[n], node_representation(e, before)[n],
                        Operands(e[n], node_representation(e, before)), Operands(e[n], stable), table)
      BY StableIs
    <3> QED BY <2>1, <3>1 DEF StableAt
  <2>10. code[n] = emit_node(site, ke, from, truth)
    BY EmittedIs
  <2>11. SiteRight(site, readable, before, kt, kv, ke)
    <3>1. e[n].kind = "read" => ReadsRight(e[n].arg)
      BY <2>2 DEF NodeOK
    <3> HIDE DEF site, kt, kv, ke, type, val, stable, code
    <3> QED BY <2>1, <2>2, <2>4, <2>6, <2>7, <3>1 DEF SiteRight
  <2>12. /\ code[n]["boxed"] = emit_expression(site, ke, from, truth)
         /\ \A rep \in {"i64", "f64"} : code[n][rep] = emit_scalar_value(site, ke, rep, from, truth)
    <3> HIDE DEF site, ke, code
    <3> QED BY <2>10 DEF emit_node, Representations
  <2>13. Fine(val[n]) /\ code[n]["boxed"] = val[n]
    <3> HIDE DEF site, kt, kv, ke, type, val, stable, code
    <3> QED BY <2>1, <2>8, <2>11, <2>12, NodeFine, BoxedNode
  <2>14. ASSUME NEW rep \in {"i64", "f64"}, stable[n][rep]
         PROVE /\ type_representation(type[n]) = rep
               /\ val[n] = Error \/ val[n].tag \in TagsOf(rep)
               /\ code[n][rep] = val[n]
               /\ rep = "i64" => code[n]["f64"] = As("f64", val[n])
    <3> HIDE DEF site, kt, kv, ke, type, val, stable, code
    <3>1. StableAt(site)[rep]
      BY <2>9, <2>14
    <3>2. /\ site.own = rep
          /\ val[n] = Error \/ val[n].tag \in TagsOf(rep)
      BY <2>1, <2>8, <2>11, <3>1, TypedNode
    <3>3. /\ emit_scalar_value(site, ke, rep, from, truth) = val[n]
          /\ rep = "i64" => emit_scalar_value(site, ke, "f64", from, truth) = As("f64", val[n])
      BY <2>1, <2>8, <2>11, <3>1, ScalarNode
    <3> QED BY <2>1, <2>4, <2>12, <3>2, <3>3
  <2> HIDE DEF site, kt, kv, ke, type, val, stable, code
  <2> QED BY <2>13, <2>14 DEF Right
<1>2. Len(e) \in Nat /\ S \in SUBSET (1..Len(e))
  BY DEF ExpressionOK
<1>3. S = 1..Len(e)
  <2> HIDE DEF S
  <2> QED BY <1>1, <1>2, NodeInduction
<1> QED BY <1>3

(* An expression only reads what may be read where it stands.              *)
LEMMA EvalReads ==
  ASSUME NEW e, NEW readable, ExpressionOK(e, readable), NEW some, NEW other,
         \A s \in readable : some[s] = other[s], NEW from, NEW truth
  PROVE Whole(e, Eval(e, some, from, truth)) = Whole(e, Eval(e, other, from, truth))
<1> DEFINE f == Eval(e, some, from, truth)
           g == Eval(e, other, from, truth)
           S == {n \in 1..Len(e) : f[n] = g[n]}
<1>1. ASSUME NEW n \in 1..Len(e), \A m \in 1..n - 1 : m \in S
      PROVE n \in S
  <2>1. f[n] = EvalNode(e[n], Operands(e[n], f), some, from, truth)
    BY EvalIs
  <2>2. g[n] = EvalNode(e[n], Operands(e[n], g), other, from, truth)
    BY EvalIs
  <2>3. Operands(e[n], f) = Operands(e[n], g)
    <3>1. \A m \in 1..n - 1 : f[m] = g[m]
      BY <1>1
    <3> HIDE DEF f, g
    <3> QED BY <3>1, OperandsBefore
  <2>4. e[n].kind = "read" => some[e[n].arg] = other[e[n].arg]
    BY DEF ExpressionOK, NodeOK
  <2> HIDE DEF f, g
  <2>5. f[n] = g[n]
    BY <2>1, <2>2, <2>3, <2>4 DEF EvalNode
  <2> QED BY <2>5
<1>2. Len(e) \in Nat \ {0} /\ S \in SUBSET (1..Len(e))
  BY DEF ExpressionOK
<1>3. S = 1..Len(e)
  <2> HIDE DEF S
  <2> QED BY <1>1, <1>2, NodeInduction
<1>4. Len(e) \in S
  <2> HIDE DEF S
  <2> QED BY <1>2, <1>3
<1> QED BY <1>4 DEF Whole

(* A native value has the tag of its representation, wherever it is from.  *)
LEMMA UnboxFine ==
  ASSUME NEW v, Shaped(v), NEW rep \in Representations
  PROVE /\ Shaped(emit_unbox(rep, v)) /\ emit_unbox(rep, v).tag \in TagsOf(rep)
        /\ Shaped(Native(rep, v)) /\ Native(rep, v).tag \in TagsOf(rep)
<1>1. v # Error /\ v.tag \in Tags /\ v.tag # "error"
  BY ErrorIsNot DEF Tags
<1>2. /\ Shaped(Scalar("int", Lost)) /\ Shaped(Scalar("float", Lost)) /\ Lost \in Nat
      /\ Shaped(Scalar("int", v.from)) /\ Shaped(Scalar("float", v.from))
      /\ \A from : Scalar("int", from).tag = "int" /\ Scalar("float", from).tag = "float"
  <2>1. v.from \in Nat /\ Lost \in Nat
    BY ErrorIsNot DEF Lost
  <2>2. \A from : Scalar("int", from).tag = "int" /\ Scalar("float", from).tag = "float"
    BY DEF Scalar, Value
  <2> QED BY <2>1, <2>2, ProperScalar DEF Tags
<1>3. CASE rep = "boxed"
  BY <1>1, <1>3, TagsOfRep DEF emit_unbox, Native
<1>4. CASE rep = "i64"
  <2>1. AsI64(v) = v \/ AsI64(v) = Scalar("int", Lost)
    BY DEF AsI64
  <2>2. AsI64(v) = v => v.tag = "int"
    BY <1>1, <1>2 DEF AsI64
  <2>3. \E from \in {v.from, Lost} : Native(rep, v) = Scalar("int", from)
    BY <1>1, <1>4 DEF Native
  <2> QED BY <1>2, <1>4, <2>1, <2>2, <2>3, TagsOfRep DEF emit_unbox
<1>5. CASE rep = "f64"
  <2>1. HDAsDouble(v) \in {v, Scalar("float", v.from), Scalar("float", Lost)}
    BY DEF HDAsDouble
  <2>2. HDAsDouble(v) = v => v.tag = "float"
    BY <1>1, <1>2 DEF HDAsDouble
  <2>3. Native(rep, v) = Scalar("float", v.from)
    BY <1>1, <1>5 DEF Native
  <2> QED BY <1>2, <1>5, <2>1, <2>2, <2>3, TagsOfRep DEF emit_unbox
<1> QED BY <1>3, <1>4, <1>5 DEF Representations

LEMMA FineUnboxed ==
  ASSUME NEW v, Fine(v), NEW rep \in Representations
  PROVE Fine(emit_unbox(rep, v)) /\ Fine(Native(rep, v))
<1>1. CASE v = Error
  BY <1>1, ErrorTag DEF emit_unbox, AsI64, HDAsDouble, Native
<1>2. CASE v # Error
  BY <1>2, UnboxFine DEF Fine
<1> QED BY <1>1, <1>2

(* However a symbol is read, it gives a value.                             *)
ReadsFine(s) ==
  Fine(emit_load(s)) /\ \A wanted \in {"i64", "f64"} : Fine(NativeRead(s, wanted))

(* Whatever is emitted computes a value, even one that it has lost.        *)
LEMMA EmittedFine ==
  ASSUME NEW e, NEW readable, ExpressionOK(e, readable), \A s \in readable : ReadsFine(s),
         NEW before, NEW from \in Nat, NEW truth \in BOOLEAN
  PROVE \A n \in 1..Len(e), wanted \in Representations :
          Fine(Emitted(before, e, from, truth)[n][wanted])
<1> DEFINE code == Emitted(before, e, from, truth)
           S == {n \in 1..Len(e) : \A wanted \in Representations : Fine(code[n][wanted])}
<1>1. ASSUME NEW n \in 1..Len(e), \A m \in 1..n - 1 : m \in S
      PROVE n \in S
  <2> DEFINE site == Site(before, e, n)
             node == e[n]
             ke == Operands(e[n], code)
             N == Len(node.kids)
  <2>1. site.node = node /\ site.own \in Representations
    BY RepOfType DEF Site, node_representation
  <2>2. NodeOK(node, n, readable) /\ n \in Nat /\ (node.kind = "read" => ReadsFine(node.arg))
    BY DEF ExpressionOK, NodeOK
  <2>3. N \in Nat /\ \A i \in 1..N : node.kids[i] \in 1..n - 1
    BY <2>2 DEF NodeOK
  <2>4. \A i \in 1..N, wanted \in Representations : Fine(ke[i][wanted])
    <3>1. \A i \in 1..N : ke[i] = code[node.kids[i]]
      BY DEF Operands
    <3> HIDE DEF ke, code, node
    <3> QED BY <1>1, <2>3, <3>1
  <2>5. code[n] = emit_node(site, ke, from, truth)
    BY EmittedIs
  <2> HIDE DEF site, ke, code, node
  <2>6. ASSUME NEW w, w = [i \in 1..N |-> w[i]], \A i \in 1..N : Fine(w[i]), node.kind # "read"
        PROVE Fine(Apply(node, w, from, truth))
    <3>1. Len(w) = N
      BY <2>3, <2>6
    <3> QED BY <2>2, <2>6, <3>1, ApplyFine
  <2>7. direct_scalar_expression(site) =>
          /\ site.own \in {"i64", "f64"} /\ node.kind # "read"
          /\ Fine(emit_direct_scalar_body(site, ke, from, truth))
    <3>1. SUFFICES ASSUME direct_scalar_expression(site)
                   PROVE /\ site.own \in {"i64", "f64"} /\ node.kind # "read"
                         /\ Fine(emit_direct_scalar_body(site, ke, from, truth))
      OBVIOUS
    <3> DEFINE operands == IF node.kind # "binary" \/ node.arg # "compare" THEN site.own
                           ELSE IF \E i \in 1..2 : site.rep[i] = "f64" THEN "f64" ELSE "i64"
               wanted(i) == IF node.kind = "ternary" /\ i = 1 THEN "boxed" ELSE operands
               w == [i \in 1..N |-> ke[i][wanted(i)]]
    <3>2. site.own \in {"i64", "f64"} /\ node.kind # "read"
      BY <2>1, <3>1 DEF direct_scalar_expression, Representations
    <3>3. \A i \in 1..N : wanted(i) \in Representations
      BY <2>1 DEF Representations
    <3>4. \A i \in 1..N : Fine(ke[i][wanted(i)])
      <4> HIDE DEF wanted
      <4> QED BY <2>4, <3>3
    <3>5. emit_direct_scalar_body(site, ke, from, truth) = Apply(node, w, from, truth)
      BY <2>1 DEF emit_direct_scalar_body
    <3>6. w = [i \in 1..N |-> w[i]] /\ \A i \in 1..N : Fine(w[i])
      BY <3>4
    <3> HIDE DEF w
    <3> QED BY <2>6, <3>2, <3>5, <3>6
  <2>8. Fine(emit_expression(site, ke, from, truth))
    <3>1. CASE node.kind = "read"
      BY <2>1, <2>2, <3>1 DEF emit_expression, ReadsFine
    <3>2. CASE node.kind # "read" /\ direct_scalar_expression(site)
      BY <2>1, <2>7, <3>2, FineUnboxed DEF emit_expression
    <3>3. CASE node.kind # "read" /\ ~direct_scalar_expression(site)
      <4> DEFINE w == [i \in 1..N |-> ke[i]["boxed"]]
      <4>1. w = [i \in 1..N |-> w[i]] /\ \A i \in 1..N : Fine(w[i])
        BY <2>4 DEF Representations
      <4>2. emit_expression(site, ke, from, truth) = Apply(node, w, from, truth)
        BY <2>1, <3>3 DEF emit_expression
      <4> HIDE DEF w
      <4> QED BY <2>6, <3>3, <4>1, <4>2
    <3> QED BY <3>1, <3>2, <3>3
  <2>9. ASSUME NEW wanted \in {"i64", "f64"}
        PROVE Fine(emit_scalar_value(site, ke, wanted, from, truth))
    <3> DEFINE value == CASE node.kind \in {"number", "float"} -> Apply(node, <<>>, from, truth)
                          [] node.kind = "read" -> NativeRead(node.arg, wanted)
                          [] direct_scalar_expression(site) ->
                               emit_direct_scalar_body(site, ke, from, truth)
                          [] OTHER -> emit_unbox(wanted, emit_expression(site, ke, from, truth))
    <3>1. emit_scalar_value(site, ke, wanted, from, truth) =
            IF site.own \notin {wanted, "boxed"} THEN Native(wanted, value) ELSE value
      BY <2>1 DEF emit_scalar_value
    <3>2. Fine(value)
      <4>1. CASE node.kind \in {"number", "float"}
        <5>1. N = 0
          BY <2>2, <4>1, Arity
        <5>2. \A i \in 1..N : Fine(<<>>[i])
          BY <5>1
        <5>3. node.kind # "read"
          BY <4>1
        <5>4. Len(<<>>) = Len(node.kids)
          BY <5>1
        <5>5. Fine(Apply(node, <<>>, from, truth))
          BY <2>2, <5>2, <5>3, <5>4, ApplyFine
        <5>6. ~direct_scalar_expression(site)
          BY <2>1, <4>1 DEF direct_scalar_expression
        <5> QED BY <4>1, <5>5, <5>6
      <4>2. CASE node.kind = "read"
        BY <2>2, <2>7, <4>2 DEF ReadsFine
      <4>3. CASE node.kind \notin {"number", "float", "read"} /\ direct_scalar_expression(site)
        BY <2>7, <4>3
      <4>4. CASE node.kind \notin {"number", "float", "read"} /\ ~direct_scalar_expression(site)
        BY <2>8, <4>4, FineUnboxed DEF Representations
      <4> QED BY <4>1, <4>2, <4>3, <4>4
    <3> HIDE DEF value
    <3> QED BY <3>1, <3>2, FineUnboxed DEF Representations
  <2> QED BY <2>5, <2>8, <2>9 DEF emit_node, Representations
<1>2. Len(e) \in Nat /\ S \in SUBSET (1..Len(e))
  BY DEF ExpressionOK
<1>3. S = 1..Len(e)
  <2> HIDE DEF S
  <2> QED BY <1>1, <1>2, NodeInduction
<1> QED BY <1>3

(* An expression over what has lost nothing loses nothing.                 *)
LEMMA EvalKeeps ==
  ASSUME NEW e, NEW readable, ExpressionOK(e, readable), NEW meaning,
         \A s \in readable : meaning[s] = Unbound \/ meaning[s].from # Lost,
         NEW from \in Nat \ {Lost}, NEW truth \in BOOLEAN
  PROVE Kept(Whole(e, Eval(e, meaning, from, truth)))
<1> DEFINE f == Eval(e, meaning, from, truth)
           S == {n \in 1..Len(e) : Kept(f[n])}
<1>1. ASSUME NEW n \in 1..Len(e), \A m \in 1..n - 1 : m \in S
      PROVE n \in S
  <2>1. f[n] = EvalNode(e[n], Operands(e[n], f), meaning, from, truth)
    BY EvalIs
  <2>2. NodeOK(e[n], n, readable) /\ n \in Nat
    BY DEF ExpressionOK
  <2>3. CASE e[n].kind = "read"
    <3> HIDE DEF f
    <3>1. Kept(EvalNode(e[n], Operands(e[n], f), meaning, from, truth))
      BY <2>2, <2>3 DEF EvalNode, NodeOK, Kept
    <3> QED BY <2>1, <3>1
  <2>4. CASE e[n].kind # "read"
    <3>1. \A i \in 1..Len(e[n].kids) : e[n].kids[i] \in 1..n - 1
      BY <2>2 DEF NodeOK
    <3>2. \A i \in 1..Len(e[n].kids) : Operands(e[n], f)[i] = f[e[n].kids[i]]
      BY DEF Operands
    <3> HIDE DEF f
    <3>3. \A i \in 1..Len(e[n].kids) : Kept(Operands(e[n], f)[i])
      BY <1>1, <3>1, <3>2
    <3>4. Evaluated(e[n], truth) \subseteq 1..Len(e[n].kids)
      <4>1. CASE e[n].kind = "ternary"
        <5>1. Len(e[n].kids) = 3
          BY <2>2, <4>1, Arity
        <5> QED BY <4>1, <5>1 DEF Evaluated
      <4>2. CASE e[n].kind = "logic"
        <5>1. Len(e[n].kids) = 2
          BY <2>2, <4>2, Arity
        <5> QED BY <4>2, <5>1 DEF Evaluated
      <4>3. CASE e[n].kind \notin {"ternary", "logic"}
        BY <4>3 DEF Evaluated
      <4> QED BY <4>1, <4>2, <4>3
    <3>5. Kept(Apply(e[n], Operands(e[n], f), from, truth))
      BY <2>2, <2>4, <3>3, <3>4, ApplyKeeps
    <3> QED BY <2>1, <2>4, <3>5 DEF EvalNode
  <2> QED BY <2>3, <2>4
<1>2. Len(e) \in Nat \ {0} /\ S \in SUBSET (1..Len(e))
  BY DEF ExpressionOK
<1>3. S = 1..Len(e)
  <2> HIDE DEF S
  <2> QED BY <1>1, <1>2, NodeInduction
<1>4. Len(e) \in S
  <2> HIDE DEF S
  <2> QED BY <1>2, <1>3
<1> QED BY <1>4 DEF Whole

-----------------------------------------------------------------------------
(* Programs *)

LEMMA ConcatIs ==
  ASSUME NEW S, NEW a \in Seq(S), NEW b \in Seq(S)
  PROVE /\ Len(a \o b) = Len(a) + Len(b)
        /\ \A i \in 1..Len(a \o b) :
             IF i <= Len(a) THEN i \in 1..Len(a) /\ (a \o b)[i] = a[i]
             ELSE i - Len(a) \in 1..Len(b) /\ (a \o b)[i] = b[i - Len(a)]
OBVIOUS

LEMMA TextIs ==
  ASSUME NEW p \in Programs
  PROVE /\ Len(Text(p)) \in Nat
        /\ \A i \in 1..Len(Text(p)) :
             /\ StatementOK(Text(p)[i], IF InBody(p, i) THEN Symbols ELSE Globals)
             /\ \/ \E j \in 1..Len(p.top) : Text(p)[i] = p.top[j]
                \/ \E j \in 1..Len(p.body) : Text(p)[i] = p.body[j]
<1>1. /\ IsList(p.top) /\ IsList(p.body) /\ p.first \in {"top", "body"}
      /\ \A i \in 1..Len(p.top) : StatementOK(p.top[i], Globals)
      /\ \A i \in 1..Len(p.body) : StatementOK(p.body[i], Symbols)
  BY ProgramsAssumption
<1> DEFINE S == {p.top[i] : i \in 1..Len(p.top)} \cup {p.body[i] : i \in 1..Len(p.body)}
<1>2. p.top \in Seq(S) /\ p.body \in Seq(S)
  <2>1. \A T : p.top \in Seq(T) => p.top \in Seq(T \cup {p.body[i] : i \in 1..Len(p.body)})
    OBVIOUS
  <2>2. \A T : p.body \in Seq(T) => p.body \in Seq({p.top[i] : i \in 1..Len(p.top)} \cup T)
    OBVIOUS
  <2> QED BY <1>1, <2>1, <2>2 DEF IsList
<1> HIDE DEF S
<1>3. CASE p.first = "top"
  <2>1. Text(p) = p.top \o p.body
    BY <1>3 DEF Text
  <2>2. /\ Len(Text(p)) \in Nat
        /\ \A i \in 1..Len(Text(p)) :
             IF i <= Len(p.top) THEN i \in 1..Len(p.top) /\ Text(p)[i] = p.top[i]
             ELSE i - Len(p.top) \in 1..Len(p.body) /\ Text(p)[i] = p.body[i - Len(p.top)]
    <3>1. Len(p.top) \in Nat /\ Len(p.body) \in Nat
      BY <1>2
    <3>2. Len(p.top \o p.body) = Len(p.top) + Len(p.body)
      BY <1>2, ConcatIs
    <3>3. \A i \in 1..Len(p.top \o p.body) :
            IF i <= Len(p.top) THEN i \in 1..Len(p.top) /\ (p.top \o p.body)[i] = p.top[i]
            ELSE i - Len(p.top) \in 1..Len(p.body) /\ (p.top \o p.body)[i] = p.body[i - Len(p.top)]
      BY <1>2, ConcatIs
    <3>4. Len(Text(p)) \in Nat
      <4>1. Len(Text(p)) = Len(p.top) + Len(p.body)
        BY <2>1, <3>2, Zenon
      <4>2. \A m, n \in Nat : m + n \in Nat
        OBVIOUS
      <4> QED BY <3>1, <4>1, <4>2, Zenon
    <3>5. \A i \in 1..Len(Text(p)) :
            IF i <= Len(p.top) THEN i \in 1..Len(p.top) /\ Text(p)[i] = p.top[i]
            ELSE i - Len(p.top) \in 1..Len(p.body) /\ Text(p)[i] = p.body[i - Len(p.top)]
      BY <2>1, <3>3, Zenon
    <3> QED BY <3>4, <3>5
  <2>3. ASSUME NEW i \in 1..Len(Text(p))
        PROVE /\ StatementOK(Text(p)[i], IF InBody(p, i) THEN Symbols ELSE Globals)
              /\ \/ \E j \in 1..Len(p.top) : Text(p)[i] = p.top[j]
                 \/ \E j \in 1..Len(p.body) : Text(p)[i] = p.body[j]
    <3>1. CASE i <= Len(p.top)
      <4>1. ~InBody(p, i)
        BY <1>3, <3>1, <1>2 DEF InBody
      <4> QED BY <1>1, <2>2, <3>1, <4>1
    <3>2. CASE ~(i <= Len(p.top))
      <4>1. InBody(p, i)
        BY <1>3, <3>2, <1>2 DEF InBody
      <4> QED BY <1>1, <2>2, <3>2, <4>1
    <3> QED BY <3>1, <3>2
  <2> QED BY <2>2, <2>3
<1>4. CASE p.first = "body"
  <2>1. Text(p) = p.body \o p.top
    BY <1>4 DEF Text
  <2>2. /\ Len(Text(p)) \in Nat
        /\ \A i \in 1..Len(Text(p)) :
             IF i <= Len(p.body) THEN i \in 1..Len(p.body) /\ Text(p)[i] = p.body[i]
             ELSE i - Len(p.body) \in 1..Len(p.top) /\ Text(p)[i] = p.top[i - Len(p.body)]
    <3>1. Len(p.top) \in Nat /\ Len(p.body) \in Nat
      BY <1>2
    <3>2. Len(p.body \o p.top) = Len(p.body) + Len(p.top)
      BY <1>2, ConcatIs
    <3>3. \A i \in 1..Len(p.body \o p.top) :
            IF i <= Len(p.body) THEN i \in 1..Len(p.body) /\ (p.body \o p.top)[i] = p.body[i]
            ELSE i - Len(p.body) \in 1..Len(p.top) /\ (p.body \o p.top)[i] = p.top[i - Len(p.body)]
      BY <1>2, ConcatIs
    <3>4. Len(Text(p)) \in Nat
      <4>1. Len(Text(p)) = Len(p.body) + Len(p.top)
        BY <2>1, <3>2, Zenon
      <4>2. \A m, n \in Nat : m + n \in Nat
        OBVIOUS
      <4> QED BY <3>1, <4>1, <4>2, Zenon
    <3>5. \A i \in 1..Len(Text(p)) :
            IF i <= Len(p.body) THEN i \in 1..Len(p.body) /\ Text(p)[i] = p.body[i]
            ELSE i - Len(p.body) \in 1..Len(p.top) /\ Text(p)[i] = p.top[i - Len(p.body)]
      BY <2>1, <3>3, Zenon
    <3> QED BY <3>4, <3>5
  <2>3. ASSUME NEW i \in 1..Len(Text(p))
        PROVE /\ StatementOK(Text(p)[i], IF InBody(p, i) THEN Symbols ELSE Globals)
              /\ \/ \E j \in 1..Len(p.top) : Text(p)[i] = p.top[j]
                 \/ \E j \in 1..Len(p.body) : Text(p)[i] = p.body[j]
    <3>1. CASE i <= Len(p.body)
      <4>1. InBody(p, i)
        BY <1>4, <3>1, <1>2 DEF InBody
      <4> QED BY <1>1, <2>2, <3>1, <4>1
    <3>2. CASE ~(i <= Len(p.body))
      <4>1. ~InBody(p, i)
        BY <1>4, <3>2, <1>2 DEF InBody
      <4> QED BY <1>1, <2>2, <3>2, <4>1
    <3> QED BY <3>1, <3>2
  <2> QED BY <2>2, <2>3
<1> QED BY <1>1, <1>3, <1>4

LEMMA LeastIs ==
  ASSUME NEW S \in SUBSET Nat, S # {}
  PROVE Least(S) \in S
BY LeastOfNaturals, Zenon DEF Least

(* A symbol has a first declaration if a statement binds it.               *)
LEMMA DeclarationIs ==
  ASSUME NEW statements, Len(statements) \in Nat, NEW symbol
  PROVE declaration(statements, symbol) = 0 <=> Binders(statements, symbol) = {}
<1>1. /\ Binders(statements, symbol) \in SUBSET Nat /\ 0 \notin Binders(statements, symbol)
      /\ Explicit(statements, symbol) \subseteq Binders(statements, symbol)
  BY DEF Binders, Explicit
<1>2. CASE Explicit(statements, symbol) # {}
  <2>1. Least(Explicit(statements, symbol)) \in Explicit(statements, symbol)
    <3>1. Explicit(statements, symbol) \in SUBSET Nat
      BY <1>1
    <3> QED BY <1>2, <3>1, LeastIs
  <2>2. declaration(statements, symbol) = Least(Explicit(statements, symbol))
    BY <1>2 DEF declaration
  <2> QED BY <1>1, <2>1, <2>2
<1>3. CASE Explicit(statements, symbol) = {} /\ Binders(statements, symbol) # {}
  <2>1. Least(Binders(statements, symbol)) \in Binders(statements, symbol)
    BY <1>1, <1>3, LeastIs
  <2> QED BY <1>1, <1>3, <2>1 DEF declaration
<1>4. CASE Binders(statements, symbol) = {}
  BY <1>1, <1>4 DEF declaration
<1> QED BY <1>2, <1>3, <1>4

(* A global that is bound anywhere is bound by the top level.              *)
LEMMA GlobalBound ==
  ASSUME NEW p \in Programs, NEW g \in Globals, Binders(Text(p), g) # {}
  PROVE Binders(p.top, g) # {}
<1>1. PICK i \in 1..Len(Text(p)) : Text(p)[i].op # "use" /\ g \in {Text(p)[i].symbol, Text(p)[i].index}
  BY DEF Binders
<1>2. CASE \E j \in 1..Len(p.top) : Text(p)[i] = p.top[j]
  BY <1>1, <1>2 DEF Binders
<1>3. CASE \E j \in 1..Len(p.body) : Text(p)[i] = p.body[j]
  <2>1. Binders(p.body, g) # {}
    BY <1>1, <1>3 DEF Binders
  <2> QED BY <2>1, ProgramsAssumption
<1> QED BY <1>2, <1>3, TextIs

-----------------------------------------------------------------------------
(* The invariant *)

(* Nothing has run. *)
Unstarted ==
  /\ slot = [s \in Symbols |-> Junk]
  /\ bound = {}
  /\ env = [n \in Names |-> IF n \in program.constants THEN RuntimeValue ELSE Unbound]
  /\ inside = FALSE
  /\ seen = Unbound

(* A symbol that nothing binds has no type. *)
TypesRight ==
  /\ IsList(types) /\ types # <<>>
  /\ DOMAIN types[Len(types)] = Symbols
  /\ \A s \in Symbols :
       declaration(Text(program), s) = 0 /\ ~IsParameter(program, s)
         => types[Len(types)][s] = "unknown"

(* What slots and the runtime's variables hold is a value, of the slot's   *)
(* type, and a variable of the running scope that is bound is written.     *)
ValuesShaped ==
  /\ DOMAIN slot = Symbols /\ DOMAIN env = Names /\ bound \subseteq Bits(Symbols)
  /\ \A s \in Symbols : slot[s] # Junk => Shaped(slot[s]) /\ slot[s].tag \in TagsOf(Rep(s))
  /\ \A s \in Symbols : IsBound(s) /\ (inside \/ s \in Globals) => slot[s] # Junk
  /\ \A n \in Names : env[n] = Unbound \/ Shaped(env[n])
  /\ seen = Unbound \/ Shaped(seen)

(* A runtime's variable is of the representation of what may mean it.      *)
EnvFits ==
  \A s \in Symbols :
    ~IsParameter(program, s) /\ Rep(s) # "boxed"
      => env[NameOf[s]] = Unbound \/ env[NameOf[s]].tag \in TagsOf(Rep(s))

(* And nothing has been lost of it. *)
ValuesKept ==
  /\ \A s \in Symbols : slot[s] # Junk => slot[s].from # Lost
  /\ \A n \in Names : env[n] = Unbound \/ env[n].from # Lost
  /\ seen = Unbound \/ seen.from # Lost

Inv ==
  /\ program \in Programs /\ backend \in {"asm", "c"}
  /\ status \in {"seeding", "checking", "crashed", "emitting", "running", "failed"}
  /\ inside \in BOOLEAN
  /\ TypesRight
  /\ status \in {"emitting", "running", "failed"} =>
       /\ ForeachValues(program) \cap Symbols \subseteq unsafe
       /\ backend = "asm" => Symbols \subseteq unsafe
  /\ status \notin {"running", "failed"} => Unstarted
  /\ status \in {"running", "failed"} =>
       /\ Newly(table, program) = {} /\ ValuesShaped
       /\ MeaningsAgree => EnvFits
       /\ AllAgree => ValuesKept

LEMMA RepIs ==
  ASSUME NEW s
  PROVE /\ Rep(s) \in Representations
        /\ Rep(s) # "boxed" => Rep(s) \in {"i64", "f64"} /\ s \notin unsafe
                                 /\ types[Len(types)][s] # "unknown"
BY DEF Rep, symbol_representation, table, type_representation, Representations

(* A native symbol is bound somewhere, or a parameter.                     *)
LEMMA NativeDeclared ==
  ASSUME Inv, NEW s \in Symbols, Rep(s) # "boxed", ~IsParameter(program, s)
  PROVE declaration(Text(program), s) # 0
BY RepIs DEF Inv, TypesRight

(* What a local means until it is bound has its representation.            *)
LEMMA FallbackIs ==
  ASSUME Inv, NEW s \in Symbols, global_fallback(s) # NoSymbol
  PROVE /\ global_fallback(s) \in Globals /\ global_fallback(s) \in Symbols
        /\ s \notin Globals /\ ~IsParameter(program, s)
        /\ NameOf[global_fallback(s)] = NameOf[s]
        /\ MeaningsAgree /\ (declaration(Text(program), s) # 0 \/ Rep(s) # "boxed")
             => Rep(global_fallback(s)) = Rep(s)
<1> DEFINE global == {g \in Globals : NameOf[g] = NameOf[s] /\ Binders(program.top, g) # {}}
<1>1. s \notin Globals /\ ~IsParameter(program, s) /\ global # {}
  BY DEF global_fallback
<1>2. global_fallback(s) = CHOOSE g \in global : TRUE
  BY <1>1 DEF global_fallback
<1>3. global_fallback(s) \in global
  <2> HIDE DEF global
  <2> QED BY <1>1, <1>2
<1>4. MeaningsAgree /\ (declaration(Text(program), s) # 0 \/ Rep(s) # "boxed")
        => Rep(global_fallback(s)) = Rep(s)
  <2>1. MeaningsAgree /\ declaration(Text(program), s) # 0 => Rep(global_fallback(s)) = Rep(s)
    BY DEF MeaningsAgree, FallbacksAgree
  <2> QED BY <1>1, <2>1, NativeDeclared
<1> QED BY <1>1, <1>3, <1>4, NamesAssumption

(* Two symbols of one name, neither a parameter, have one representation.  *)
LEMMA SameName ==
  ASSUME Inv, MeaningsAgree, NEW s \in Symbols, NEW t \in Symbols, NameOf[s] = NameOf[t],
         ~IsParameter(program, s), ~IsParameter(program, t),
         declaration(Text(program), s) # 0, declaration(Text(program), t) # 0
  PROVE Rep(s) = Rep(t)
<1>1. ASSUME NEW g \in Symbols, NEW l \in Symbols, g \in Globals, l \notin Globals,
             NameOf[g] = NameOf[l], ~IsParameter(program, l),
             declaration(Text(program), g) # 0, declaration(Text(program), l) # 0
      PROVE Rep(g) = Rep(l)
  <2>1. Binders(program.top, g) # {}
    <3>1. program \in Programs /\ Len(Text(program)) \in Nat
      BY TextIs DEF Inv
    <3>2. Binders(Text(program), g) # {}
      BY <1>1, <3>1, DeclarationIs
    <3> QED BY <1>1, <3>1, <3>2, GlobalBound
  <2> DEFINE global == {h \in Globals : NameOf[h] = NameOf[l] /\ Binders(program.top, h) # {}}
  <2>2. global = {g}
    BY <1>1, <2>1, NamesAssumption
  <2>3. global_fallback(l) = g
    BY <1>1, <2>2 DEF global_fallback
  <2>4. g # NoSymbol
    BY <1>1, NamesAssumption
  <2> QED BY <1>1, <2>3, <2>4 DEF MeaningsAgree, FallbacksAgree
<1>2. CASE s \in Globals <=> t \in Globals
  BY <1>2, NamesAssumption
<1>3. CASE ~(s \in Globals <=> t \in Globals)
  BY <1>1, <1>3
<1> QED BY <1>2, <1>3

-----------------------------------------------------------------------------
(* What a running program reads and computes *)

Scope == IF inside THEN Symbols ELSE Globals

LEMMA LeadsTo ==
  ASSUME NEW s
  PROVE /\ Leads(s) \in {"own", "global", "env", "nowhere"}
        /\ Leads(s) = "own" <=> IsBound(s)
        /\ Leads(s) = "global" =>
             /\ ~IsBound(s)
             /\ global_fallback(s) # NoSymbol /\ global_fallback(s) \in bound
        /\ Leads(s) \in {"env", "nowhere"} =>
             /\ ~IsBound(s)
             /\ global_fallback(s) = NoSymbol \/ global_fallback(s) \notin bound
        /\ Leads(s) = "env" => env[NameOf[s]] # Unbound
        /\ Leads(s) = "nowhere" => env[NameOf[s]] = Unbound
BY DEF Leads

(* A slot that a readable symbol leads to holds a value of its type.       *)
LEMMA OwnIs ==
  ASSUME Inv, ValuesShaped, NEW s \in Scope, IsBound(s)
  PROVE slot[s] # Junk /\ Shaped(slot[s]) /\ slot[s].tag \in TagsOf(Rep(s))
<1>1. s \in Symbols /\ (inside \/ s \in Globals)
  BY NamesAssumption DEF Scope
<1> QED BY <1>1 DEF ValuesShaped

LEMMA GlobalIs ==
  ASSUME Inv, ValuesShaped, NEW s \in Symbols, Leads(s) = "global"
  PROVE LET g == global_fallback(s) IN
        /\ g \in Symbols /\ slot[g] # Junk /\ Shaped(slot[g]) /\ slot[g].tag \in TagsOf(Rep(g))
        /\ MeaningsAgree /\ Rep(s) # "boxed" => Rep(g) = Rep(s)
<1> DEFINE g == global_fallback(s)
<1>1. /\ g \in bound /\ g \in Globals /\ g \in Symbols
      /\ MeaningsAgree /\ Rep(s) # "boxed" => Rep(g) = Rep(s)
  BY LeadsTo, FallbackIs
<1>2. IsBound(g)
  BY <1>1 DEF IsBound
<1> HIDE DEF g
<1> QED BY <1>1, <1>2 DEF ValuesShaped, g

LEMMA EnvIs ==
  ASSUME Inv, ValuesShaped, NEW s \in Symbols, Leads(s) \in {"env", "nowhere"}
  PROVE /\ env[NameOf[s]] = Unbound \/ Shaped(env[NameOf[s]])
        /\ EnvFits /\ Rep(s) # "boxed" =>
             env[NameOf[s]] = Unbound \/ env[NameOf[s]].tag \in TagsOf(Rep(s))
<1>1. NameOf[s] \in Names
  BY NamesAssumption
<1>2. ~IsParameter(program, s)
  BY LeadsTo DEF IsBound, has_bound_bit
<1> QED BY <1>1, <1>2 DEF ValuesShaped, EnvFits

(* Every read gives a value. *)
LEMMA ReadableFine ==
  ASSUME Inv, status = "running", NEW s \in Scope
  PROVE ReadsFine(s)
<1>1. s \in Symbols /\ ValuesShaped
  BY NamesAssumption DEF Scope, Inv
<1>2. Fine(HDLoadX(s)) \/ Leads(s) \in {"own", "global"}
  BY <1>1, LeadsTo, EnvIs, ErrorTag DEF HDLoadX, Fine
<1>3. Leads(s) = "own" => Fine(slot[s])
  BY <1>1, LeadsTo, OwnIs DEF Fine
<1>4. Leads(s) = "global" => Fine(slot[global_fallback(s)])
  BY <1>1, GlobalIs DEF Fine
<1>5. Fine(emit_load(s))
  BY <1>2, <1>3, <1>4, LeadsTo DEF emit_load
<1>6. ASSUME NEW wanted \in {"i64", "f64"} PROVE Fine(NativeRead(s, wanted))
  <2>1. wanted \in Representations
    BY DEF Representations
  <2>2. \A v : Fine(v) => Fine(emit_unbox(wanted, v))
    BY <2>1, FineUnboxed
  <2> QED BY <1>2, <1>3, <1>4, <1>5, <2>2, LeadsTo DEF NativeRead
<1> QED BY <1>5, <1>6 DEF ReadsFine

(* Where names mean what is of their representations, what it is typed as. *)
LEMMA ReadableRight ==
  ASSUME Inv, MeaningsAgree, status = "running", NEW s \in Scope
  PROVE ReadsRight(s)
<1>1. s \in Symbols
  BY NamesAssumption DEF Scope
<1>2. ValuesShaped /\ EnvFits
  BY DEF Inv
<1>3. CASE Leads(s) = "own"
  <2>1. Shaped(slot[s]) /\ slot[s].tag \in TagsOf(Rep(s)) /\ slot[s] # Unbound /\ Fine(slot[s])
    BY <1>2, <1>3, LeadsTo, OwnIs, ErrorIsNot DEF Fine
  <2>2. Held[s] = slot[s] /\ emit_load(s) = slot[s]
    BY <1>1, <1>3 DEF Held, emit_load
  <2>3. \A wanted : Rep(s) # "boxed" => NativeRead(s, wanted) = slot[s]
    BY <1>3 DEF NativeRead
  <2>4. Rep(s) = "i64" => Native("f64", slot[s]) = As("f64", slot[s])
    BY <2>1, UnboxKeeps
  <2> QED BY <2>1, <2>2, <2>3, <2>4 DEF ReadsRight
<1>4. CASE Leads(s) = "global"
  <2> DEFINE g == global_fallback(s)
  <2>1. /\ Shaped(slot[g]) /\ slot[g].tag \in TagsOf(Rep(g)) /\ slot[g] # Unbound /\ Fine(slot[g])
        /\ Rep(s) # "boxed" => Rep(g) = Rep(s)
    BY <1>1, <1>2, <1>4, GlobalIs, ErrorIsNot DEF Fine
  <2>2. Held[s] = slot[g] /\ emit_load(s) = slot[g]
    BY <1>1, <1>4 DEF Held, emit_load
  <2>3. \A wanted : Rep(s) # "boxed" =>
          NativeRead(s, wanted) =
            IF Rep(g) = wanted THEN slot[g] ELSE emit_unbox(wanted, slot[g])
    BY <1>4 DEF NativeRead
  <2>4. Rep(s) = "i64" => Native("f64", emit_unbox("f64", slot[g])) = As("f64", slot[g])
    BY <2>1, UnboxKeeps
  <2> HIDE DEF g
  <2> QED BY <2>1, <2>2, <2>3, <2>4 DEF ReadsRight
<1>5. CASE Leads(s) \in {"env", "nowhere"}
  <2> DEFINE v == env[NameOf[s]]
  <2>1. /\ v = Unbound \/ Shaped(v)
        /\ Rep(s) # "boxed" => v = Unbound \/ v.tag \in TagsOf(Rep(s))
    BY <1>1, <1>2, <1>5, EnvIs
  <2>2. Held[s] = v /\ emit_load(s) = HDLoadX(s)
    BY <1>1, <1>5 DEF Held, emit_load
  <2>3. HDLoadX(s) = IF v = Unbound THEN Error ELSE v
    BY DEF HDLoadX
  <2>4. \A wanted : Rep(s) # "boxed" => NativeRead(s, wanted) = emit_unbox(wanted, HDLoadX(s))
    BY <1>5 DEF NativeRead
  <2>5. /\ Fine(HDLoadX(s))
        /\ HDLoadX(s) = Error \/ (Rep(s) # "boxed" => HDLoadX(s).tag \in TagsOf(Rep(s)))
    BY <2>1, <2>3, ErrorTag DEF Fine
  <2>6. \A rep \in {"i64", "f64"} : Rep(s) = rep =>
          /\ emit_unbox(rep, HDLoadX(s)) = HDLoadX(s)
          /\ rep = "i64" => Native("f64", emit_unbox("f64", HDLoadX(s))) = As("f64", HDLoadX(s))
    BY <2>5, UnboxKeeps
  <2> HIDE DEF v
  <2> QED BY <2>1, <2>2, <2>3, <2>4, <2>6 DEF ReadsRight
<1> QED BY <1>3, <1>4, <1>5, LeadsTo

(* Where all agrees, nothing that is read has lost anything.               *)
LEMMA ReadableKept ==
  ASSUME Inv, AllAgree, status = "running", NEW s \in Scope
  PROVE Held[s] = Unbound \/ Held[s].from # Lost
<1>1. s \in Symbols /\ ValuesShaped /\ ValuesKept /\ NameOf[s] \in Names
  BY NamesAssumption DEF Scope, Inv
<1>2. Leads(s) = "own" => slot[s].from # Lost
  BY <1>1, LeadsTo, OwnIs DEF ValuesKept
<1>3. Leads(s) = "global" => slot[global_fallback(s)].from # Lost
  BY <1>1, GlobalIs DEF ValuesKept
<1>4. env[NameOf[s]] = Unbound \/ env[NameOf[s]].from # Lost
  BY <1>1 DEF ValuesKept
<1> QED BY <1>1, <1>2, <1>3, <1>4, LeadsTo DEF Held

(* The value of a statement's expression, nothing being unboxed.           *)
Meant(i, truth) == Whole(At(i).expr, Eval(At(i).expr, Held, i, truth))

LEMMA AtIs ==
  ASSUME Inv, NEW i \in Statements, Executing(i)
  PROVE /\ StatementOK(At(i), Scope) /\ ExpressionOK(At(i).expr, Scope)
        /\ Scope \subseteq Symbols /\ i \in Nat \ {0} /\ NoSymbol \notin Symbols
<1>1. program \in Programs
  BY DEF Inv
<1>2. /\ Len(Text(program)) \in Nat
      /\ StatementOK(Text(program)[i], IF InBody(program, i) THEN Symbols ELSE Globals)
  BY <1>1, TextIs DEF Statements
<1>3. StatementOK(At(i), Scope)
  BY <1>2 DEF Executing, At, Scope, Inv
<1> QED BY <1>2, <1>3, NamesAssumption DEF StatementOK, Scope, Statements

(* What is emitted computes some value. *)
LEMMA ComputedFine ==
  ASSUME Inv, status = "running", NEW i \in Statements, Executing(i), NEW truth \in BOOLEAN
  PROVE /\ Fine(Boxed(i, truth))
        /\ \A wanted \in Representations : Fine(Computed(wanted, i, truth))
<1> DEFINE e == At(i).expr
<1>1. ExpressionOK(e, Scope) /\ i \in Nat /\ Len(e) \in 1..Len(e)
  BY AtIs DEF ExpressionOK
<1>2. \A s \in Scope : ReadsFine(s)
  BY ReadableFine
<1>3. \A wanted \in Representations : Fine(Emitted(types[i], e, i, truth)[Len(e)][wanted])
  <2> HIDE DEF e
  <2> QED BY <1>1, <1>2, EmittedFine
<1>4. \A wanted : Computed(wanted, i, truth) = Emitted(types[i], e, i, truth)[Len(e)][wanted]
  BY DEF Computed, Whole
<1> HIDE DEF e
<1> QED BY <1>3, <1>4 DEF Boxed, Representations

(* Where names mean what is of their representations, it is what is meant, *)
(* boxed, and natively where that is stable.                               *)
LEMMA ComputedRight ==
  ASSUME Inv, MeaningsAgree, status = "running", NEW i \in Statements, Executing(i),
         NEW truth \in BOOLEAN
  PROVE /\ Fine(Meant(i, truth)) /\ Boxed(i, truth) = Meant(i, truth)
        /\ \A s \in Symbols : Rep(s) # "boxed" /\ Stable(table, program, i, s) =>
             /\ Computed(Rep(s), i, truth) = Meant(i, truth)
             /\ Meant(i, truth) = Error \/ Meant(i, truth).tag \in TagsOf(Rep(s))
<1> DEFINE e == At(i).expr
           n == Len(e)
<1>1. ExpressionOK(e, Scope) /\ i \in Nat /\ n \in 1..Len(e)
  BY AtIs DEF ExpressionOK
<1>2. \A s \in Scope : ReadsRight(s)
  BY ReadableRight
<1>3. Right(infer_expr(e, types[i])[n], Eval(e, Held, i, truth)[n],
            expression_representation_is_stable(table, types[i], e)[n],
            Emitted(types[i], e, i, truth)[n])
  <2> HIDE DEF e, n
  <2> QED BY <1>1, <1>2, NodesRight
<1>4. Meant(i, truth) = Eval(e, Held, i, truth)[n]
  BY DEF Meant, Whole
<1>5. \A wanted : Computed(wanted, i, truth) = Emitted(types[i], e, i, truth)[n][wanted]
  BY DEF Computed, Whole
<1>6. \A s \in Symbols :
        Stable(table, program, i, s) =
          expression_representation_is_stable(table, types[i], e)[n][Rep(s)]
  BY DEF Stable, Whole, At, Rep, table
<1> HIDE DEF e, n
<1> QED BY <1>3, <1>4, <1>5, <1>6, RepIs DEF Right, Boxed

(* And where all agrees, nothing has been lost of it.                      *)
LEMMA MeantKept ==
  ASSUME Inv, AllAgree, status = "running", NEW i \in Statements, Executing(i),
         NEW truth \in BOOLEAN
  PROVE Kept(Meant(i, truth))
<1>1. ExpressionOK(At(i).expr, Scope) /\ i \in Nat \ {Lost}
  BY AtIs DEF Lost
<1>2. \A s \in Scope : Held[s] = Unbound \/ Held[s].from # Lost
  BY ReadableKept
<1> QED BY <1>1, <1>2, EvalKeeps DEF Meant

-----------------------------------------------------------------------------
(* Steps *)

(* What is decided before the program runs stays decided.                  *)
LEMMA UnitKeeps ==
  ASSUME unit' = unit
  PROVE /\ program' = program /\ types' = types /\ unsafe' = unsafe /\ table' = table
        /\ \A s : Rep(s)' = Rep(s)
        /\ \A s : has_bound_bit(s)' = has_bound_bit(s)
        /\ \A symbols : Bits(symbols)' = Bits(symbols)
        /\ \A s : global_fallback(s)' = global_fallback(s)
        /\ Statements' = Statements
        /\ \A i : At(i)' = At(i)
<1>1. program' = program /\ types' = types /\ unsafe' = unsafe
  BY DEF unit
<1>2. table' = table
  BY <1>1 DEF table
<1> QED BY <1>1, <1>2 DEF Rep, has_bound_bit, Bits, global_fallback, Statements, At

LEMMA AgreeKept ==
  ASSUME unit' = unit
  PROVE (MeaningsAgree' <=> MeaningsAgree) /\ (AllAgree' <=> AllAgree)
<1>1. DeclarationsAgree' <=> DeclarationsAgree
  BY UnitKeeps DEF DeclarationsAgree
<1>2. IndexesAgree' <=> IndexesAgree
  BY UnitKeeps DEF IndexesAgree
<1>3. ArgumentsAgree' <=> ArgumentsAgree
  BY UnitKeeps DEF ArgumentsAgree
<1>4. FallbacksAgree' <=> FallbacksAgree
  BY UnitKeeps DEF FallbacksAgree
<1>5. ConstantsAgree' <=> ConstantsAgree
  BY UnitKeeps DEF ConstantsAgree
<1> QED BY <1>1, <1>2, <1>3, <1>4, <1>5 DEF AllAgree, MeaningsAgree

(* A step of the running program that keeps the values right keeps all.    *)
LEMMA RunningKeeps ==
  ASSUME Inv, status = "running", unit' = unit, status' \in {"running", "failed"},
         inside' \in BOOLEAN, ValuesShaped',
         MeaningsAgree => EnvFits', AllAgree => ValuesKept'
  PROVE Inv'
<1>1. (MeaningsAgree' => EnvFits') /\ (AllAgree' => ValuesKept')
  BY AgreeKept
<1>2. TypesRight'
  BY UnitKeeps DEF Inv, TypesRight
<1>3. backend' = backend
  BY DEF unit
<1> QED BY <1>1, <1>2, <1>3, UnitKeeps DEF Inv

(* What the runtime's variables hold fits as long as it stays.             *)
LEMMA FitsStill ==
  ASSUME Inv, status = "running", unit' = unit, env' = env, MeaningsAgree
  PROVE EnvFits'
<1>1. EnvFits
  BY DEF Inv
<1> QED BY <1>1, UnitKeeps DEF EnvFits

(* Variables are written with values of their types, of which nothing has  *)
(* been lost where all agrees.                                             *)
LEMMA Written ==
  ASSUME Inv, status = "running", unit' = unit, env' = env, inside' = inside, seen' = seen,
         status' = status,
         NEW T \in SUBSET Symbols, NEW w,
         \A t \in T : Shaped(w[t]) /\ w[t].tag \in TagsOf(Rep(t)),
         \A t \in T : AllAgree => w[t].from # Lost,
         slot' = [s \in Symbols |-> IF s \in T THEN w[s] ELSE slot[s]],
         bound \subseteq bound', bound' \subseteq bound \cup Bits(T)
  PROVE Inv'
<1>1. ValuesShaped
  BY DEF Inv
<1>2. \A t \in T : w[t] # Junk
  BY ErrorIsNot
<1>3. DOMAIN slot' = Symbols /\ \A s \in Symbols : slot'[s] = IF s \in T THEN w[s] ELSE slot[s]
  OBVIOUS
<1>4. bound' \subseteq Bits(Symbols)
  BY <1>1 DEF ValuesShaped, Bits
<1>5. \A s \in Symbols : slot'[s] # Junk => Shaped(slot'[s]) /\ slot'[s].tag \in TagsOf(Rep(s))
  BY <1>1, <1>3 DEF ValuesShaped
<1>6. ASSUME NEW s \in Symbols, IsBound(s)', inside \/ s \in Globals PROVE slot'[s] # Junk
  <2>1. s \in T \/ IsBound(s)
    BY <1>6, UnitKeeps DEF IsBound, Bits
  <2> QED BY <1>1, <1>2, <1>3, <1>6, <2>1 DEF ValuesShaped
<1>7. program' = program /\ (\A s : Rep(s)' = Rep(s)) /\ Bits(Symbols)' = Bits(Symbols)
  BY UnitKeeps
<1>8. ValuesShaped'
  BY <1>1, <1>3, <1>4, <1>5, <1>6, <1>7 DEF ValuesShaped
<1>9. AllAgree => ValuesKept'
  <2>1. AllAgree => ValuesKept
    BY DEF Inv
  <2> QED BY <1>3, <2>1 DEF ValuesKept
<1>10. inside' \in BOOLEAN
  BY DEF Inv
<1> QED BY <1>8, <1>9, <1>10, FitsStill, RunningKeeps

LEMMA WrittenOne ==
  ASSUME Inv, status = "running", unit' = unit, env' = env, inside' = inside, seen' = seen,
         status' = status,
         NEW t \in Symbols, NEW v, Shaped(v), v.tag \in TagsOf(Rep(t)), AllAgree => v.from # Lost,
         slot' = [slot EXCEPT ![t] = v],
         bound \subseteq bound', bound' \subseteq bound \cup Bits({t})
  PROVE Inv'
<1> DEFINE w == [x \in {t} |-> v]
<1>1. DOMAIN slot = Symbols
  BY DEF Inv, ValuesShaped
<1>2. slot' = [s \in Symbols |-> IF s \in {t} THEN w[s] ELSE slot[s]]
  BY <1>1
<1>3. \A x \in {t} : /\ Shaped(w[x]) /\ w[x].tag \in TagsOf(Rep(x))
                     /\ AllAgree => w[x].from # Lost
  OBVIOUS
<1> HIDE DEF w
<1> QED BY <1>2, <1>3, Written

(* A value of a symbol's type is stored as it is.                          *)
LEMMA UnboxTyped ==
  ASSUME NEW s, NEW v, Shaped(v), v.tag \in TagsOf(Rep(s))
  PROVE emit_unbox(Rep(s), v) = v /\ (Rep(s) # "boxed" => Native(Rep(s), v) = v)
<1>1. CASE Rep(s) = "boxed"
  BY <1>1 DEF emit_unbox
<1>2. CASE Rep(s) # "boxed"
  <2>1. Rep(s) \in {"i64", "f64"} /\ Fine(v)
    BY <1>2, RepIs DEF Fine
  <2> QED BY <1>2, <2>1, UnboxKeeps
<1> QED BY <1>1, <1>2

(* A declaration gives its symbol a value of its type; and where all       *)
(* agrees, what its expression means.                                      *)
LEMMA InitialiserIs ==
  ASSUME Inv, status = "running", NEW i \in Statements, Executing(i), NEW truth \in BOOLEAN,
         At(i).op = "declare"
  PROVE /\ At(i).symbol \in Scope /\ At(i).symbol \in Symbols
        /\ Initialiser(i, truth) # Error =>
             /\ Shaped(Initialiser(i, truth))
             /\ Initialiser(i, truth).tag \in TagsOf(Rep(At(i).symbol))
<1> DEFINE s == At(i).symbol
           v == Computed(Rep(s), i, truth)
<1>1. s \in Scope /\ s \in Symbols
  BY AtIs DEF StatementOK
<1>2. Fine(Boxed(i, truth)) /\ Fine(v) /\ Rep(s) \in Representations
  BY ComputedFine, RepIs
<1>3. CASE Rep(s) = "boxed"
  <2>1. Initialiser(i, truth) = Boxed(i, truth)
    BY <1>3 DEF Initialiser
  <2> QED BY <1>1, <1>2, <1>3, <2>1, ErrorIsNot, TagsOfRep DEF Fine
<1>4. CASE Rep(s) # "boxed"
  <2>1. Initialiser(i, truth) = Native(Rep(s), v)
    BY <1>4 DEF Initialiser
  <2>2. v = Error => Native(Rep(s), v) = Error
    BY DEF Native
  <2> HIDE DEF v, s
  <2>3. v # Error => Shaped(Native(Rep(s), v)) /\ Native(Rep(s), v).tag \in TagsOf(Rep(s))
    BY <1>2, UnboxFine DEF Fine
  <2> QED BY <1>1, <2>1, <2>2, <2>3 DEF s
<1> QED BY <1>3, <1>4

LEMMA DeclareIs ==
  ASSUME Inv, AllAgree, status = "running", NEW i \in Statements, Executing(i),
         NEW truth \in BOOLEAN, At(i).op = "declare"
  PROVE Initialiser(i, truth) = Meant(i, truth)
<1> DEFINE s == At(i).symbol
           v == Meant(i, truth)
<1>1. MeaningsAgree /\ s \in Symbols
  BY AtIs DEF AllAgree, StatementOK
<1>2. Fine(v) /\ Boxed(i, truth) = v
  BY <1>1, ComputedRight
<1>3. CASE Rep(s) = "boxed"
  BY <1>2, <1>3 DEF Initialiser
<1>4. CASE Rep(s) # "boxed"
  <2>1. Stable(table, program, i, s)
    BY <1>4 DEF AllAgree, DeclarationsAgree
  <2>2. Computed(Rep(s), i, truth) = v /\ (v = Error \/ v.tag \in TagsOf(Rep(s)))
    BY <1>1, <1>4, <2>1, ComputedRight
  <2>3. Native(Rep(s), v) = v
    <3> HIDE DEF v, s
    <3> QED BY <1>2, <1>4, <2>2, RepIs, UnboxKeeps
  <2> QED BY <1>4, <2>2, <2>3 DEF Initialiser
<1> QED BY <1>3, <1>4

LEMMA BindsIs ==
  ASSUME Inv, NEW i \in Statements, At(i).op # "use", NEW s \in {At(i).symbol, At(i).index}
  PROVE i \in Binders(Text(program), s) /\ declaration(Text(program), s) # 0
<1>1. i \in Binders(Text(program), s)
  BY DEF Statements, At, Binders
<1>2. Len(Text(program)) \in Nat
  BY TextIs DEF Inv
<1> QED BY <1>1, <1>2, DeclarationIs

(* An assignment's value is of its symbol's type, and so of that of the    *)
(* global that the symbol means where it is not bound.                     *)
LEMMA AssignIs ==
  ASSUME Inv, MeaningsAgree, status = "running", NEW i \in Statements, Executing(i),
         NEW truth \in BOOLEAN, At(i).op = "assign"
  PROVE /\ Boxed(i, truth) = Meant(i, truth)
        /\ declaration(Text(program), At(i).symbol) # 0
        /\ Meant(i, truth) # Error =>
             Shaped(Meant(i, truth)) /\ Meant(i, truth).tag \in TagsOf(Rep(At(i).symbol))
<1> DEFINE s == At(i).symbol
           v == Meant(i, truth)
<1>1. s \in Symbols
  BY AtIs DEF StatementOK
<1>2. Fine(v) /\ Boxed(i, truth) = v
  BY ComputedRight
<1>3. i \in Binders(Text(program), s) /\ declaration(Text(program), s) # 0
  BY BindsIs
<1>4. CASE Rep(s) = "boxed"
  <2>1. Fine(v) /\ v # Error => Shaped(v) /\ v.tag \in Tags
    BY ErrorIsNot DEF Fine
  <2> QED BY <1>1, <1>2, <1>3, <1>4, <2>1, TagsOfRep
<1>5. CASE Rep(s) # "boxed"
  <2>1. Stable(table, program, i, s)
    BY <1>1, <1>3, <1>5 DEF Inv, Newly, Rep, At
  <2>2. v = Error \/ v.tag \in TagsOf(Rep(s))
    BY <1>1, <1>5, <2>1, ComputedRight
  <2> QED BY <1>1, <1>2, <1>3, <2>2 DEF Fine
<1> QED BY <1>4, <1>5

(* The store changes one variable, or the runtime's: to its value unboxed,  *)
(* which is the value where names mean what is of their representations.   *)
Target(s) == IF Leads(s) = "global" THEN global_fallback(s) ELSE s

LEMMA TargetIs ==
  ASSUME Inv, NEW s \in Symbols
  PROVE /\ Target(s) \in Symbols /\ NameOf[Target(s)] = NameOf[s]
        /\ Leads(s) # "global" => Target(s) = s
        /\ MeaningsAgree /\ declaration(Text(program), s) # 0 => Rep(Target(s)) = Rep(s)
BY LeadsTo, FallbackIs DEF Target

LEMMA StoreIs ==
  ASSUME NEW s, NEW v, emit_store(s, v)
  PROVE LET t == Target(s) IN
        IF Leads(s) = "env"
        THEN slot' = slot /\ bound' = bound /\ env' = [env EXCEPT ![NameOf[s]] = v]
        ELSE /\ slot' = [slot EXCEPT ![t] = emit_unbox(Rep(t), v)] /\ env' = env
             /\ bound' = IF Leads(s) = "nowhere" THEN bound \cup Bits({s}) ELSE bound
<1> DEFINE t == Target(s)
<1>1. /\ slot' = (CASE Leads(s) = "global" -> emit_define(global_fallback(s), v)
                    [] Leads(s) = "env" -> slot
                    [] OTHER -> emit_define(s, v))
      /\ bound' = IF Leads(s) = "nowhere" THEN bound \cup Bits({s}) ELSE bound
      /\ env' = IF Leads(s) = "env" THEN [env EXCEPT ![NameOf[s]] = v] ELSE env
  BY DEF emit_store
<1>2. Leads(s) # "env" => slot' = emit_define(t, v)
  BY <1>1 DEF Target
<1>3. emit_define(t, v) = [slot EXCEPT ![t] = emit_unbox(Rep(t), v)]
  BY DEF emit_define
<1>4. Leads(s) = "env" => slot' = slot
  BY <1>1
<1> QED BY <1>1, <1>2, <1>3, <1>4

LEMMA StoredIs ==
  ASSUME Inv, MeaningsAgree, status = "running", NEW i \in Statements, Executing(i),
         NEW truth \in BOOLEAN, At(i).op = "assign", Meant(i, truth) # Error
  PROVE LET t == Target(At(i).symbol) IN emit_unbox(Rep(t), Meant(i, truth)) = Meant(i, truth)
<1> DEFINE s == At(i).symbol
           v == Meant(i, truth)
           t == Target(s)
<1>1. /\ s \in Symbols /\ declaration(Text(program), s) # 0
      /\ Shaped(v) /\ v.tag \in TagsOf(Rep(s))
  BY AtIs, AssignIs DEF StatementOK
<1>2. Rep(t) = Rep(s)
  BY <1>1, TargetIs
<1> HIDE DEF v, t, s
<1>3. emit_unbox(Rep(t), v) = v
  BY <1>1, <1>2, UnboxTyped
<1> QED BY <1>3 DEF v, t, s

(* One turn of a loop gives the value its element, boxed, and the index an *)
(* integer, unboxed.                                                       *)
LEMMA TurnIs ==
  ASSUME Inv, status = "running", NEW i \in Statements, Executing(i), NEW truth \in BOOLEAN,
         At(i).op = "foreach"
  PROVE /\ At(i).symbol \in Scope /\ At(i).symbol \in Symbols
        /\ At(i).index # NoSymbol => At(i).index \in Scope /\ At(i).index \in Symbols
        /\ \A tag \in Boxed(i, truth).elements : Proper(Scalar(tag, i))
        /\ Proper(Scalar("int", i)) /\ Scalar("int", i).tag = "int"
        /\ Rep(At(i).symbol) = "boxed"
<1>1. Fine(Boxed(i, truth))
  BY ComputedFine
<1>2. /\ At(i).symbol \in Scope /\ At(i).symbol \in Symbols /\ i \in Nat \ {0}
      /\ At(i).index # NoSymbol => At(i).index \in Scope /\ At(i).index \in Symbols
  BY AtIs DEF StatementOK
<1>3. \A tag \in Tags : Proper(Scalar(tag, i)) /\ Scalar(tag, i).tag = tag
  BY <1>2, ProperScalar, ProperIs DEF Lost
<1>4. Boxed(i, truth).elements \subseteq Tags
  <2>1. Error.elements = {}
    BY DEF Error, Scalar, Value
  <2> QED BY <1>1, <2>1 DEF Fine, Shaped
<1>5. Rep(At(i).symbol) = "boxed"
  <2>1. At(i).symbol \in ForeachValues(program)
    BY DEF ForeachValues, At, Statements
  <2> QED BY <1>2, <2>1, RepIs DEF Inv
<1>6. "int" \in Tags
  BY DEF Tags
<1> QED BY <1>2, <1>3, <1>4, <1>5, <1>6

(* Where the indexes agree, an integer is one to the index, too.           *)
LEMMA IndexIs ==
  ASSUME Inv, IndexesAgree, status = "running", NEW i \in Statements, Executing(i),
         At(i).op = "foreach", At(i).index # NoSymbol
  PROVE emit_unbox(Rep(At(i).index), Scalar("int", i)) = Scalar("int", i)
<1>1. At(i).index \in Symbols
  BY AtIs DEF StatementOK
<1>2. Rep(At(i).index) # "f64"
  <2>1. At(i).index \in ForeachIndexes(program)
    BY DEF ForeachIndexes, At, Statements
  <2> QED BY <1>1, <2>1 DEF IndexesAgree
<1> QED BY <1>2, RepIs DEF Representations, emit_unbox, AsI64, Scalar, Value

LEMMA DeclareKeeps == ASSUME Inv, Declare PROVE Inv'
<1>1. PICK i \in Statements, truth \in BOOLEAN :
        /\ Executing(i) /\ At(i).op = "declare" /\ Initialiser(i, truth) # Error
        /\ slot' = [slot EXCEPT ![At(i).symbol] = Initialiser(i, truth)]
        /\ bound' = bound \cup Bits({At(i).symbol})
        /\ UNCHANGED <<unit, env, inside, seen, status>>
  BY DEF Declare
<1> DEFINE s == At(i).symbol
           v == Initialiser(i, truth)
<1>2. status = "running"
  BY <1>1 DEF Executing
<1>3. s \in Symbols /\ Shaped(v) /\ v.tag \in TagsOf(Rep(s))
  BY <1>1, <1>2, InitialiserIs
<1>4. AllAgree => v.from # Lost
  BY <1>1, <1>2, DeclareIs, MeantKept DEF Kept
<1>5. slot' = [slot EXCEPT ![s] = v] /\ bound' = bound \cup Bits({s})
  BY <1>1
<1> HIDE DEF s, v
<1> QED BY <1>1, <1>2, <1>3, <1>4, <1>5, WrittenOne

LEMMA AssignKeeps == ASSUME Inv, Assign PROVE Inv'
<1>1. PICK i \in Statements, truth \in BOOLEAN :
        /\ Executing(i) /\ At(i).op = "assign" /\ Boxed(i, truth) # Error
        /\ emit_store(At(i).symbol, Boxed(i, truth))
        /\ UNCHANGED <<unit, inside, seen, status>>
  BY DEF Assign
<1> DEFINE s == At(i).symbol
           v == Boxed(i, truth)
           t == Target(s)
           stored == emit_unbox(Rep(t), v)
<1>2. status = "running" /\ ValuesShaped
  BY <1>1 DEF Executing, Inv
<1>3. s \in Symbols /\ t \in Symbols /\ (Leads(s) # "global" => t = s)
  BY <1>1, AtIs, TargetIs DEF StatementOK
<1>4. Shaped(v) /\ Shaped(stored) /\ stored.tag \in TagsOf(Rep(t))
  <2>1. Shaped(v)
    BY <1>1, <1>2, ComputedFine DEF Fine
  <2> HIDE DEF v, t
  <2> QED BY <2>1, RepIs, UnboxFine
<1>5. MeaningsAgree =>
        /\ v.tag \in TagsOf(Rep(s)) /\ declaration(Text(program), s) # 0
        /\ stored = v
  BY <1>1, <1>2, AssignIs, StoredIs
<1>6. AllAgree => v.from # Lost /\ stored.from # Lost
  <2>1. AllAgree => MeaningsAgree
    BY DEF AllAgree
  <2>2. AllAgree => v = Meant(i, truth) /\ Kept(Meant(i, truth))
    BY <1>1, <1>2, <2>1, AssignIs, MeantKept
  <2> QED BY <1>1, <1>5, <2>1, <2>2 DEF Kept
<1>7. IF Leads(s) = "env"
      THEN slot' = slot /\ bound' = bound /\ env' = [env EXCEPT ![NameOf[s]] = v]
      ELSE /\ slot' = [slot EXCEPT ![t] = stored] /\ env' = env
           /\ bound' = IF Leads(s) = "nowhere" THEN bound \cup Bits({s}) ELSE bound
  BY <1>1, StoreIs
<1> HIDE DEF s, v, t, stored
<1>8. CASE Leads(s) # "env"
  <2>1. /\ slot' = [slot EXCEPT ![t] = stored] /\ env' = env
        /\ bound \subseteq bound' /\ bound' \subseteq bound \cup Bits({t})
    BY <1>3, <1>7, <1>8
  <2> QED BY <1>1, <1>2, <1>3, <1>4, <1>6, <2>1, WrittenOne
<1>9. CASE Leads(s) = "env"
  <2>1. /\ slot' = slot /\ bound' = bound /\ env' = [env EXCEPT ![NameOf[s]] = v]
        /\ seen' = seen /\ inside' = inside
    BY <1>1, <1>7, <1>9
  <2>2. ~IsParameter(program, s) /\ NameOf[s] \in Names /\ DOMAIN env = Names
    BY <1>2, <1>3, <1>9, LeadsTo, NamesAssumption DEF IsBound, has_bound_bit, ValuesShaped
  <2>3. \A n \in Names : env'[n] = IF n = NameOf[s] THEN v ELSE env[n]
    BY <2>1, <2>2
  <2>4. ASSUME MeaningsAgree, NEW x \in Symbols, ~IsParameter(program, x), Rep(x) # "boxed"
        PROVE env'[NameOf[x]] = Unbound \/ env'[NameOf[x]].tag \in TagsOf(Rep(x))
    <3>1. NameOf[x] \in Names
      BY NamesAssumption
    <3>2. CASE NameOf[x] = NameOf[s]
      <4>1. Rep(x) = Rep(s)
        BY <1>2, <1>3, <1>5, <2>2, <2>4, <3>2, SameName, NativeDeclared
      <4> QED BY <1>5, <2>3, <2>4, <3>1, <3>2, <4>1
    <3>3. CASE NameOf[x] # NameOf[s]
      <4>1. EnvFits
        BY <1>2, <2>4 DEF Inv
      <4> QED BY <2>3, <2>4, <3>1, <3>3, <4>1 DEF EnvFits
    <3> QED BY <3>2, <3>3
  <2>5. DOMAIN env' = Names /\ \A n \in Names : env'[n] = Unbound \/ Shaped(env'[n])
    BY <1>2, <1>4, <2>1, <2>2, <2>3 DEF ValuesShaped
  <2>6. \A x : IsBound(x)' <=> IsBound(x)
    BY <1>1, <2>1, UnitKeeps DEF IsBound
  <2>7. program' = program /\ (\A x : Rep(x)' = Rep(x)) /\ Bits(Symbols)' = Bits(Symbols)
    BY <1>1, UnitKeeps
  <2>8. ValuesShaped'
    BY <1>2, <2>1, <2>5, <2>6, <2>7 DEF ValuesShaped
  <2>9. MeaningsAgree => EnvFits'
    BY <2>4, <2>7 DEF EnvFits
  <2>10. AllAgree => ValuesKept'
    <3>1. AllAgree => ValuesKept
      BY <1>2 DEF Inv
    <3> QED BY <1>6, <2>1, <2>3, <3>1 DEF ValuesKept
  <2> QED BY <1>1, <1>2, <2>8, <2>9, <2>10, RunningKeeps DEF Inv
<1> QED BY <1>8, <1>9

LEMMA ForeachKeeps == ASSUME Inv, Foreach PROVE Inv'
<1>1. PICK i \in Statements, truth \in BOOLEAN :
        /\ Executing(i) /\ At(i).op = "foreach"
        /\ \E tag \in Boxed(i, truth).elements :
             slot' = [s \in Symbols |->
                        CASE s = At(i).index -> emit_unbox(Rep(s), Scalar("int", i))
                          [] s = At(i).symbol /\ s # At(i).index -> emit_unbox(Rep(s), Scalar(tag, i))
                          [] OTHER -> slot[s]]
        /\ bound' = bound \cup Bits({At(i).symbol, At(i).index} \ {NoSymbol})
        /\ UNCHANGED <<unit, env, inside, seen, status>>
  BY DEF Foreach
<1>2. PICK tag \in Boxed(i, truth).elements :
        slot' = [s \in Symbols |->
                   CASE s = At(i).index -> emit_unbox(Rep(s), Scalar("int", i))
                     [] s = At(i).symbol /\ s # At(i).index -> emit_unbox(Rep(s), Scalar(tag, i))
                     [] OTHER -> slot[s]]
  BY <1>1
<1>3. status = "running"
  BY <1>1 DEF Executing
<1> DEFINE T == {At(i).symbol, At(i).index} \ {NoSymbol}
           w == [s \in T |-> IF s = At(i).index THEN emit_unbox(Rep(s), Scalar("int", i))
                             ELSE emit_unbox(Rep(s), Scalar(tag, i))]
<1>4. /\ At(i).symbol \in Symbols /\ (At(i).index # NoSymbol => At(i).index \in Symbols)
      /\ Proper(Scalar(tag, i)) /\ Proper(Scalar("int", i)) /\ Rep(At(i).symbol) = "boxed"
  BY <1>1, <1>2, <1>3, TurnIs
<1>5. T \in SUBSET Symbols /\ NoSymbol \notin Symbols
  BY <1>4, NamesAssumption
<1>6. \A rep \in Representations : \A v : Proper(v) =>
        Shaped(emit_unbox(rep, v)) /\ emit_unbox(rep, v).tag \in TagsOf(rep)
  BY ProperIs, UnboxFine
<1>7. ASSUME NEW t \in T
      PROVE /\ Shaped(w[t]) /\ w[t].tag \in TagsOf(Rep(t))
            /\ AllAgree => w[t].from # Lost
  <2>0. Rep(t) \in Representations
    BY RepIs
  <2>1. CASE t = At(i).index
    <3>1. w[t] = emit_unbox(Rep(t), Scalar("int", i))
      BY <1>7, <2>1
    <3>2. AllAgree => w[t] = Scalar("int", i)
      <4>1. SUFFICES ASSUME AllAgree PROVE w[t] = Scalar("int", i)
        OBVIOUS
      <4>2. t # NoSymbol /\ IndexesAgree
        BY <1>7, <4>1 DEF AllAgree
      <4> HIDE DEF w, T
      <4> QED BY <1>1, <1>3, <2>1, <3>1, <4>2, IndexIs
    <3> HIDE DEF w, T
    <3> QED BY <1>4, <1>6, <2>0, <3>1, <3>2, ProperIs
  <2>2. CASE t = At(i).symbol /\ t # At(i).index
    <3>1. w[t] = emit_unbox(Rep(t), Scalar(tag, i))
      BY <1>7, <2>2
    <3>2. w[t] = Scalar(tag, i)
      BY <1>4, <2>2, <3>1 DEF emit_unbox
    <3> HIDE DEF w, T
    <3> QED BY <1>4, <1>6, <2>0, <3>1, <3>2, ProperIs
  <2> QED BY <1>7, <2>1, <2>2
<1>8. slot' = [s \in Symbols |-> IF s \in T THEN w[s] ELSE slot[s]]
  <2>1. ASSUME NEW s \in Symbols
        PROVE (CASE s = At(i).index -> emit_unbox(Rep(s), Scalar("int", i))
                 [] s = At(i).symbol /\ s # At(i).index -> emit_unbox(Rep(s), Scalar(tag, i))
                 [] OTHER -> slot[s]) = IF s \in T THEN w[s] ELSE slot[s]
    BY <1>5
  <2> HIDE DEF T, w
  <2> QED BY <1>2, <2>1
<1>9. bound' = bound \cup Bits(T)
  BY <1>1
<1> HIDE DEF T, w
<1> QED BY <1>1, <1>3, <1>5, <1>7, <1>8, <1>9, Written

LEMMA UseKeeps == ASSUME Inv, Use PROVE Inv'
<1>1. PICK i \in Statements, truth \in BOOLEAN :
        /\ Executing(i) /\ At(i).op = "use" /\ Boxed(i, truth) # Error
        /\ seen' = Boxed(i, truth)
        /\ UNCHANGED <<unit, slot, bound, env, inside, status>>
  BY DEF Use
<1>2. status = "running" /\ ValuesShaped
  BY <1>1 DEF Executing, Inv
<1>3. Shaped(seen') /\ (AllAgree => seen'.from # Lost)
  <2>1. Shaped(seen')
    BY <1>1, <1>2, ComputedFine DEF Fine
  <2>2. ASSUME AllAgree PROVE seen'.from # Lost
    <3>1. MeaningsAgree
      BY <2>2 DEF AllAgree
    <3>2. seen' = Meant(i, truth) /\ Kept(Meant(i, truth))
      BY <1>1, <1>2, <2>2, <3>1, ComputedRight, MeantKept
    <3> QED BY <1>1, <3>2 DEF Kept
  <2> QED BY <2>1, <2>2
<1>4. \A x : IsBound(x)' <=> IsBound(x)
  BY <1>1, UnitKeeps DEF IsBound
<1>5. program' = program /\ (\A x : Rep(x)' = Rep(x)) /\ Bits(Symbols)' = Bits(Symbols)
  BY <1>1, UnitKeeps
<1>6. ValuesShaped'
  BY <1>1, <1>2, <1>3, <1>4, <1>5 DEF ValuesShaped
<1>7. AllAgree => ValuesKept'
  <2>1. AllAgree => ValuesKept
    BY <1>2 DEF Inv
  <2> QED BY <1>1, <1>3, <2>1 DEF ValuesKept
<1>8. MeaningsAgree => EnvFits'
  BY <1>1, <1>2, FitsStill
<1> QED BY <1>1, <1>2, <1>6, <1>7, <1>8, RunningKeeps DEF Inv

LEMMA FailKeeps == ASSUME Inv, RuntimeError \/ Return PROVE Inv'
<1>1. /\ status = "running" /\ status' \in {"running", "failed"} /\ inside' \in BOOLEAN
      /\ inside' => inside
      /\ UNCHANGED <<unit, slot, bound, env, seen>>
  <2>1. CASE RuntimeError
    BY <2>1 DEF RuntimeError, Executing, Inv
  <2>2. CASE Return
    BY <2>2 DEF Return
  <2> QED BY <2>1, <2>2
<1>2. \A x : IsBound(x)' <=> IsBound(x)
  BY <1>1, UnitKeeps DEF IsBound
<1>3. program' = program /\ (\A x : Rep(x)' = Rep(x)) /\ Bits(Symbols)' = Bits(Symbols)
  BY <1>1, UnitKeeps
<1>4. ValuesShaped'
  BY <1>1, <1>2, <1>3 DEF Inv, ValuesShaped
<1>5. AllAgree => ValuesKept'
  BY <1>1 DEF Inv, ValuesKept
<1>6. MeaningsAgree => EnvFits'
  BY <1>1, FitsStill
<1> QED BY <1>1, <1>4, <1>5, <1>6, RunningKeeps

(* A parameter gets its argument, unboxed, and as it is where they agree.  *)
LEMMA FrameIs ==
  ASSUME Inv, NEW s \in Symbols
  PROVE IF IsParameter(program, s)
        THEN /\ Shaped(declare_frame(s)) /\ declare_frame(s).tag \in TagsOf(Rep(s))
             /\ s \notin Globals
             /\ LET positions == {i \in 1..Len(program.params) : program.params[i] = s}
                    arg == program.args[CHOOSE i \in positions : \A j \in positions : j <= i] IN
                /\ positions # {} /\ Proper(arg)
                /\ ArgumentsAgree => declare_frame(s) = arg
        ELSE declare_frame(s) = Junk /\ {i \in 1..Len(program.params) : program.params[i] = s} = {}
<1> DEFINE positions == {i \in 1..Len(program.params) : program.params[i] = s}
           last == CHOOSE i \in positions : \A j \in positions : j <= i
<1>1. CASE ~IsParameter(program, s)
  BY <1>1 DEF IsParameter, declare_frame
<1>2. CASE IsParameter(program, s)
  <2>1. positions # {}
    BY <1>2 DEF IsParameter
  <2>2. /\ Len(program.params) \in Nat
        /\ \A i \in 1..Len(program.params) :
             program.params[i] \in (Symbols \ Globals) \cup {NoSymbol} /\ Proper(program.args[i])
    BY ProgramsAssumption DEF Inv
  <2>3. last \in positions
    <3>1. \E i \in positions : \A j \in positions : j <= i
      <4> DEFINE N == Len(program.params)
                 mirrored == {N - i : i \in positions}
      <4>1. mirrored \in SUBSET Nat /\ mirrored # {}
        <5>1. \A i \in positions : N - i \in Nat
          BY <2>2
        <5> HIDE DEF positions, N
        <5> QED BY <2>1, <5>1
      <4>2. PICK n \in mirrored : \A m \in mirrored : n <= m
        <5> HIDE DEF mirrored
        <5> QED BY <4>1, LeastOfNaturals
      <4>3. PICK i \in positions : n = N - i
        BY <4>2
      <4>4. \A j \in positions : j <= i
        <5>1. TAKE j \in positions
        <5>2. N - j \in mirrored
          OBVIOUS
        <5>3. n <= N - j
          <6> HIDE DEF mirrored
          <6> QED BY <4>2, <5>2
        <5>4. i \in 1..N /\ j \in 1..N /\ N \in Nat
          BY <2>2
        <5> HIDE DEF N
        <5> QED BY <4>3, <5>3, <5>4
      <4> QED BY <4>4
    <3> HIDE DEF positions
    <3> QED BY <3>1
  <2>4. last \in 1..Len(program.params) /\ program.params[last] = s
    <3> HIDE DEF last
    <3> QED BY <2>3
  <2> HIDE DEF last
  <2>5. s # NoSymbol /\ s \notin Globals /\ Proper(program.args[last])
    BY <2>2, <2>4, NamesAssumption
  <2>6. ArgumentsAgree => emit_unbox(Rep(s), program.args[last]) = program.args[last]
    BY <2>4, <2>5 DEF ArgumentsAgree
  <2>7. declare_frame(s) = emit_unbox(Rep(s), program.args[last])
    BY <2>1 DEF declare_frame, last
  <2>8. Shaped(declare_frame(s)) /\ declare_frame(s).tag \in TagsOf(Rep(s))
    BY <2>5, <2>7, ProperIs, RepIs, UnboxFine
  <2> QED BY <1>2, <2>1, <2>5, <2>6, <2>7, <2>8 DEF last
<1> QED BY <1>1, <1>2

LEMMA CallKeeps == ASSUME Inv, Call PROVE Inv'
<1>1. /\ status = "running" /\ ~inside /\ inside' = TRUE
      /\ slot' = [s \in Symbols |-> IF s \in Globals THEN slot[s] ELSE declare_frame(s)]
      /\ bound' = bound \cap Globals
      /\ UNCHANGED <<unit, env, seen, status>>
  BY DEF Call, clear_bound_bits
<1>2. ValuesShaped /\ (AllAgree => ValuesKept /\ ArgumentsAgree)
  BY <1>1 DEF Inv, AllAgree
<1>3. ASSUME NEW s \in Symbols
      PROVE /\ slot'[s] # Junk => Shaped(slot'[s]) /\ slot'[s].tag \in TagsOf(Rep(s))
            /\ IsBound(s)' => slot'[s] # Junk
            /\ AllAgree /\ slot'[s] # Junk => slot'[s].from # Lost
  <2>1. CASE s \in Globals
    <3>1. slot'[s] = slot[s]
      BY <1>1, <2>1
    <3>2. IsBound(s)' => IsBound(s)
      BY <1>1, UnitKeeps DEF IsBound
    <3> QED BY <1>2, <2>1, <3>1, <3>2 DEF ValuesShaped, ValuesKept
  <2>2. CASE s \notin Globals
    <3>1. slot'[s] = declare_frame(s)
      BY <1>1, <2>2
    <3>2. IsBound(s)' => IsParameter(program, s)
      BY <1>1, <2>2, UnitKeeps DEF IsBound, has_bound_bit
    <3>3. CASE IsParameter(program, s)
      BY <1>2, <3>1, <3>3, FrameIs, ErrorIsNot, ProperIs
    <3>4. CASE ~IsParameter(program, s)
      BY <3>1, <3>2, <3>4, FrameIs
    <3> QED BY <3>3, <3>4
  <2> QED BY <2>1, <2>2
<1>4. /\ program' = program /\ (\A x : Rep(x)' = Rep(x)) /\ Bits(Symbols)' = Bits(Symbols)
      /\ DOMAIN slot' = Symbols
  BY <1>1, UnitKeeps
<1>5. ValuesShaped'
  BY <1>1, <1>2, <1>3, <1>4 DEF ValuesShaped
<1>6. AllAgree => ValuesKept'
  BY <1>1, <1>2, <1>3 DEF ValuesKept
<1>7. MeaningsAgree => EnvFits'
  BY <1>1, FitsStill
<1> QED BY <1>1, <1>5, <1>6, <1>7, RunningKeeps

(* The passes *)

LEMMA AppendIs ==
  ASSUME NEW s, IsList(s), NEW x
  PROVE /\ IsList(Append(s, x)) /\ Append(s, x) # <<>>
        /\ Append(s, x)[Len(Append(s, x))] = x
<1> DEFINE S == {s[i] : i \in 1..Len(s)}
           a == Append(s, x)
<1>1. s \in Seq(S)
  BY DEF IsList
<1>2. s \in Seq(S \cup {x})
  <2> HIDE DEF S
  <2> QED BY <1>1
<1>3. Len(a) = Len(s) + 1 /\ Len(s) \in Nat /\ a[Len(a)] = x /\ a # <<>> /\ a \in Seq(S \cup {x})
  <2> HIDE DEF S
  <2> QED BY <1>2
<1>4. a \in Seq({a[i] : i \in 1..Len(a)})
  <2> HIDE DEF S, a
  <2> QED BY <1>3
<1> QED BY <1>3, <1>4 DEF IsList

(* A statement gives types to no symbol but those that it binds.           *)
LEMMA CheckIs ==
  ASSUME NEW statements, Len(statements) \in Nat, NEW i \in 1..Len(statements),
         StatementOK(statements[i], Symbols), NEW known, DOMAIN known = Symbols
  PROVE /\ DOMAIN check_stmt(statements[i], known) = Symbols
        /\ \A s \in Symbols :
             declaration(statements, s) = 0 => check_stmt(statements[i], known)[s] = known[s]
<1> DEFINE t == statements[i]
<1>1. ASSUME NEW s \in Symbols, declaration(statements, s) = 0
      PROVE t.op # "use" => s # t.symbol /\ s # t.index
  <2>1. i \notin Binders(statements, s)
    BY <1>1, DeclarationIs
  <2> QED BY <2>1 DEF Binders
<1>2. t.op \in {"declare", "assign", "foreach", "use"}
  BY DEF StatementOK
<1>3. CASE t.op = "declare"
  BY <1>1, <1>3 DEF check_stmt
<1>4. CASE t.op = "assign"
  BY <1>1, <1>4 DEF check_stmt
<1>5. CASE t.op = "foreach"
  BY <1>1, <1>5 DEF check_stmt
<1>6. CASE t.op = "use"
  BY <1>1, <1>6 DEF check_stmt
<1> QED BY <1>2, <1>3, <1>4, <1>5, <1>6

(* What the seed gives is a type for each symbol, and none for a symbol    *)
(* that nothing binds, which is not misread either.                        *)
LEMMA SeedKeeps == ASSUME Inv, Seed PROVE Inv'
<1>1. /\ status = "seeding" /\ status' \in {"checking", "crashed"}
      /\ UNCHANGED <<program, backend, unsafe, slot, bound, env, inside, seen>>
      /\ \/ types' = <<seed_symbol_types(Text(program), program.params, program.param_types)>>
         \/ types' = types
  BY DEF Seed
<1> DEFINE seed == seed_symbol_types(Text(program), program.params, program.param_types)
<1>2. /\ DOMAIN seed = Symbols
      /\ \A s \in Symbols :
           declaration(Text(program), s) = 0 /\ ~IsParameter(program, s) => seed[s] = "unknown"
  <2>1. ASSUME NEW s \in Symbols, declaration(Text(program), s) = 0, ~IsParameter(program, s)
        PROVE seed[s] = "unknown"
    <3>1. program \in Programs /\ Len(Text(program)) \in Nat
      BY TextIs DEF Inv
    <3>2. Binders(Text(program), s) = {}
      BY <2>1, <3>1, DeclarationIs
    <3>3. Explicit(Text(program), s) = {}
      BY <3>2 DEF Explicit
    <3>4. ~IsParameterOf(program.params, s)
      BY <2>1 DEF IsParameter, IsParameterOf
    <3>5. ~IsForeachIndex(Text(program), s)
      <4>1. SUFFICES ASSUME NEW i \in 1..Len(Text(program)), Text(program)[i].index = s PROVE FALSE
        BY DEF IsForeachIndex
      <4>2. Text(program)[i].op = "foreach"
        BY <3>1, <4>1, TextIs, NamesAssumption DEF StatementOK
      <4> QED BY <3>2, <4>1, <4>2 DEF Binders
    <3>6. ~IsMisread(Text(program), program.params, s)
      BY <3>5 DEF IsMisread
    <3> QED BY <3>3, <3>4, <3>6 DEF seed_symbol_types
  <2>2. DOMAIN seed = Symbols
    BY DEF seed_symbol_types
  <2> QED BY <2>1, <2>2
<1> HIDE DEF seed
<1>3. ASSUME types' = <<seed>> PROVE IsList(types') /\ types' # <<>> /\ types'[Len(types')] = seed
  <2>1. \A x : <<x>> \in Seq({<<x>>[i] : i \in 1..Len(<<x>>)}) /\ <<x>> # <<>> /\ <<x>>[Len(<<x>>)] = x
    OBVIOUS
  <2> QED BY <1>3, <2>1 DEF IsList
<1>4. TypesRight'
  <2>1. CASE types' = <<seed>>
    BY <1>1, <1>2, <1>3, <2>1 DEF TypesRight
  <2>2. CASE types' = types
    BY <1>1, <2>2 DEF Inv, TypesRight
  <2> QED BY <1>1, <2>1, <2>2 DEF seed
<1>5. Unstarted'
  BY <1>1 DEF Inv, Unstarted
<1> QED BY <1>1, <1>4, <1>5 DEF Inv

LEMMA CheckKeeps == ASSUME Inv, HDTypeCheckProgram PROVE Inv'
<1>1. /\ status = "checking" /\ Len(types) <= Len(Text(program))
      /\ types' = Append(types, check_stmt(At(Len(types)), types[Len(types)]))
      /\ UNCHANGED <<program, backend, unsafe, slot, bound, env, inside, seen, status>>
  BY DEF HDTypeCheckProgram
<1> DEFINE n == Len(types)
           next == check_stmt(At(n), types[n])
<1>2. /\ program \in Programs /\ IsList(types) /\ types # <<>> /\ DOMAIN types[n] = Symbols
      /\ \A s \in Symbols : declaration(Text(program), s) = 0 /\ ~IsParameter(program, s)
                              => types[n][s] = "unknown"
  BY DEF Inv, TypesRight
<1>3. n \in 1..Len(Text(program))
  <2>1. n \in Nat /\ n # 0
    BY <1>2 DEF IsList
  <2>2. Len(Text(program)) \in Nat
    BY <1>2, TextIs
  <2> HIDE DEF n
  <2>3. n <= Len(Text(program))
    BY <1>1 DEF n
  <2> QED BY <2>1, <2>2, <2>3
<1>4. StatementOK(Text(program)[n], Symbols)
  <2>1. StatementOK(Text(program)[n], IF InBody(program, n) THEN Symbols ELSE Globals)
    BY <1>2, <1>3, TextIs
  <2>2. \A e : ExpressionOK(e, Globals) => ExpressionOK(e, Symbols)
    BY NamesAssumption DEF ExpressionOK, NodeOK
  <2> HIDE DEF n
  <2> QED BY <2>1, <2>2, NamesAssumption DEF StatementOK
<1>5. /\ DOMAIN next = Symbols
      /\ \A s \in Symbols : declaration(Text(program), s) = 0 => next[s] = types[n][s]
  <2> HIDE DEF n
  <2>1. Len(Text(program)) \in Nat
    BY <1>2, TextIs
  <2> QED BY <1>2, <1>3, <1>4, <2>1, CheckIs DEF At
<1>6. IsList(types') /\ types' # <<>> /\ types'[Len(types')] = next
  <2> HIDE DEF next
  <2> QED BY <1>1, <1>2, AppendIs DEF next
<1> HIDE DEF n, next
<1>7. TypesRight'
  BY <1>1, <1>2, <1>5, <1>6 DEF TypesRight
<1>8. Unstarted'
  BY <1>1 DEF Inv, Unstarted
<1> QED BY <1>1, <1>7, <1>8 DEF Inv

LEMMA StartKeeps == ASSUME Inv, StartEmitting PROVE Inv'
<1>1. /\ status = "checking" /\ status' = "emitting"
      /\ unsafe' = IF backend = "asm" THEN Symbols ELSE ForeachValues(program)
      /\ UNCHANGED <<program, backend, types, slot, bound, env, inside, seen>>
  BY DEF StartEmitting
<1>2. TypesRight' /\ Unstarted'
  BY <1>1 DEF Inv, TypesRight, Unstarted
<1> QED BY <1>1, <1>2 DEF Inv

LEMMA AnalyzeKeeps == ASSUME Inv, analyze_native_slots PROVE Inv'
<1>1. /\ status = "emitting" /\ unsafe \subseteq unsafe'
      /\ UNCHANGED <<program, backend, types, slot, bound, env, inside, seen, status>>
  BY DEF analyze_native_slots
<1>2. TypesRight' /\ Unstarted'
  BY <1>1 DEF Inv, TypesRight, Unstarted
<1> QED BY <1>1, <1>2 DEF Inv

LEMMA RunKeeps == ASSUME Inv, Run PROVE Inv'
<1>1. /\ status = "emitting" /\ Newly(table, program) = {} /\ status' = "running"
      /\ UNCHANGED <<unit, slot, bound, env, inside, seen>>
  BY DEF Run
<1>2. /\ slot = [s \in Symbols |-> Junk] /\ bound = {} /\ inside = FALSE /\ seen = Unbound
      /\ env = [n \in Names |-> IF n \in program.constants THEN RuntimeValue ELSE Unbound]
  BY <1>1 DEF Inv, Unstarted
<1>3. Shaped(RuntimeValue) /\ RuntimeValue.tag = "int" /\ RuntimeValue.from # Lost
  BY ProperScalar DEF RuntimeValue, Tags, Lost
<1>4. ASSUME NEW s \in Symbols, IsBound(s), inside \/ s \in Globals PROVE FALSE
  <2>1. IsParameter(program, s) /\ s \in Globals
    BY <1>2, <1>4 DEF IsBound, has_bound_bit
  <2> QED BY <2>1, ProgramsAssumption, NamesAssumption DEF IsParameter, Inv
<1>5. ValuesShaped /\ ValuesKept
  BY <1>2, <1>3, <1>4 DEF ValuesShaped, ValuesKept
<1>6. ASSUME MeaningsAgree, NEW s \in Symbols, Rep(s) # "boxed"
      PROVE env[NameOf[s]] = Unbound \/ env[NameOf[s]].tag \in TagsOf(Rep(s))
  <2>1. NameOf[s] \in Names
    BY NamesAssumption
  <2>2. NameOf[s] \in program.constants => Rep(s) = "i64"
    BY <1>6, RepIs DEF MeaningsAgree, ConstantsAgree
  <2> QED BY <1>2, <1>3, <2>1, <2>2, TagsOfRep
<1>7. MeaningsAgree => EnvFits
  BY <1>6 DEF EnvFits
<1>8. program' = program /\ (\A x : Rep(x)' = Rep(x)) /\ Bits(Symbols)' = Bits(Symbols)
  BY <1>1, UnitKeeps
<1>9. ValuesShaped' /\ ValuesKept' /\ TypesRight' /\ (MeaningsAgree' => EnvFits')
  <2>1. \A x : IsBound(x)' <=> IsBound(x)
    BY <1>1, UnitKeeps DEF IsBound
  <2>2. ValuesShaped'
    BY <1>1, <1>5, <1>8, <2>1 DEF ValuesShaped
  <2>3. ValuesKept'
    BY <1>1, <1>5 DEF ValuesKept
  <2>4. TypesRight'
    BY <1>1, UnitKeeps DEF Inv, TypesRight
  <2>5. MeaningsAgree' => EnvFits'
    <3>1. MeaningsAgree' => MeaningsAgree
      BY <1>1, AgreeKept
    <3> QED BY <1>1, <1>7, <1>8, <3>1 DEF EnvFits
  <2> QED BY <2>2, <2>3, <2>4, <2>5
<1>10. backend' = backend /\ Newly(table, program)' = {}
  BY <1>1, UnitKeeps DEF unit
<1> QED BY <1>1, <1>9, <1>10, UnitKeeps DEF Inv

LEMMA InitInv == ASSUME Init PROVE Inv
<1>1. /\ program \in Programs /\ backend \in {"asm", "c"} /\ status = "seeding" /\ Unstarted
      /\ types = <<[s \in Symbols |-> "unknown"]>>
  BY BackendsAssumption DEF Init, Unstarted
<1>2. IsList(types) /\ types # <<>> /\ types[Len(types)] = [s \in Symbols |-> "unknown"]
  <2>1. \A x : <<x>> \in Seq({<<x>>[i] : i \in 1..Len(<<x>>)}) /\ <<x>> # <<>> /\ <<x>>[Len(<<x>>)] = x
    OBVIOUS
  <2> QED BY <1>1, <2>1 DEF IsList
<1>3. TypesRight
  BY <1>2 DEF TypesRight
<1> QED BY <1>1, <1>3 DEF Inv, Unstarted

LEMMA NextKeeps == ASSUME Inv, [Next]_vars PROVE Inv'
<1>1. CASE Next
  BY <1>1, SeedKeeps, CheckKeeps, StartKeeps, AnalyzeKeeps, RunKeeps, DeclareKeeps, AssignKeeps,
     ForeachKeeps, UseKeeps, FailKeeps, CallKeeps DEF Next
<1>2. CASE UNCHANGED vars
  <2>1. /\ UNCHANGED <<program, backend, types, unsafe, slot, bound, env, inside, seen, status>>
        /\ UNCHANGED unit
    BY <1>2 DEF vars, unit
  <2>2. (TypesRight' <=> TypesRight) /\ (Unstarted' <=> Unstarted)
    BY <2>1, UnitKeeps DEF TypesRight, Unstarted
  <2>3. (\A x : IsBound(x)' <=> IsBound(x)) /\ (\A x : Rep(x)' = Rep(x)) /\ Bits(Symbols)' = Bits(Symbols)
    BY <2>1, UnitKeeps DEF IsBound
  <2>4. (ValuesShaped' <=> ValuesShaped) /\ (ValuesKept' <=> ValuesKept) /\ (EnvFits' <=> EnvFits)
    BY <2>1, <2>3 DEF ValuesShaped, ValuesKept, EnvFits
  <2>5. Newly(table, program)' = Newly(table, program)
    BY <2>1, UnitKeeps
  <2>6. (MeaningsAgree' <=> MeaningsAgree) /\ (AllAgree' <=> AllAgree)
    BY <2>1, AgreeKept
  <2> QED BY <2>1, <2>2, <2>4, <2>5, <2>6 DEF Inv
<1> QED BY <1>1, <1>2

LEMMA InvHolds == Spec => []Inv
<1>1. Init => Inv
  BY InitInv
<1>2. Inv /\ [Next]_vars => Inv'
  BY NextKeeps
<1> QED BY <1>1, <1>2, PTL DEF Spec

-----------------------------------------------------------------------------
(* What follows from the invariant *)

LEMMA TypeOKFollows == ASSUME Inv PROVE TypeOK
<1>1. CASE status \notin {"running", "failed"}
  BY <1>1 DEF Inv, Unstarted, TypeOK
<1>2. CASE status \in {"running", "failed"}
  <2>1. ValuesShaped
    BY <1>2 DEF Inv
  <2>2. bound \subseteq {s \in Symbols : has_bound_bit(s)}
    BY <2>1 DEF ValuesShaped, Bits
  <2>3. \A s \in bound : s \in Symbols /\ IsBound(s)
    BY <2>2 DEF IsBound
  <2> QED BY <1>2, <2>1, <2>2, <2>3 DEF ValuesShaped, TypeOK
<1> QED BY <1>1, <1>2

(* The assembly backend keeps every variable in a box, and a box agrees    *)
(* with whatever is put into it.                                           *)
LEMMA AsmAgrees ==
  ASSUME Inv, backend = "asm", status \in {"running", "failed"}
  PROVE AllAgree
<1>1. \A s \in Symbols : Rep(s) = "boxed"
  BY DEF Inv, Rep, symbol_representation, table
<1>2. DeclarationsAgree
  <2>1. \A i \in Statements : At(i).op = "declare" => At(i).symbol \in Symbols
    BY TextIs, NamesAssumption DEF Inv, Statements, At, StatementOK
  <2> QED BY <1>1, <2>1 DEF DeclarationsAgree
<1>3. IndexesAgree
  BY <1>1 DEF IndexesAgree
<1>4. ArgumentsAgree
  <2>1. \A i \in 1..Len(program.params) :
          program.params[i] # NoSymbol => program.params[i] \in Symbols
    BY ProgramsAssumption DEF Inv
  <2> QED BY <1>1, <2>1 DEF ArgumentsAgree, emit_unbox
<1>5. FallbacksAgree
  BY <1>1, FallbackIs DEF FallbacksAgree
<1>6. ConstantsAgree
  BY <1>1 DEF ConstantsAgree
<1> QED BY <1>2, <1>3, <1>4, <1>5, <1>6 DEF AllAgree, MeaningsAgree

LEMMA CoveredAgrees ==
  ASSUME Inv, Covered, status \in {"running", "failed"}
  PROVE AllAgree
BY AsmAgrees DEF Inv, Covered

LEMMA NothingLostFollows == ASSUME Inv, Covered PROVE NothingLost
<1>1. CASE status \notin {"running", "failed"}
  <2>1. bound = {} /\ inside = FALSE /\ seen = Unbound
    BY <1>1 DEF Inv, Unstarted
  <2>2. \A s \in Symbols : IsParameter(program, s) => s \notin Globals
    BY ProgramsAssumption, NamesAssumption DEF IsParameter, Inv
  <2> QED BY <2>1, <2>2 DEF NothingLost, IsBound, has_bound_bit
<1>2. CASE status \in {"running", "failed"}
  <2>1. ValuesShaped /\ ValuesKept
    BY <1>2, CoveredAgrees DEF Inv
  <2> QED BY <2>1 DEF ValuesShaped, ValuesKept, NothingLost
<1> QED BY <1>1, <1>2

LEMMA StableFollows == ASSUME Inv PROVE StableIsTyped
<1>1. SUFFICES ASSUME status = "running", MeaningsAgree,
                      NEW i \in Statements, Executing(i), NEW truth \in BOOLEAN,
                      NEW n \in 1..Len(At(i).expr), NEW rep \in {"i64", "f64"},
                      expression_representation_is_stable(table, types[i], At(i).expr)[n][rep],
                      Eval(At(i).expr, Held, i, truth)[n] # Error
               PROVE Eval(At(i).expr, Held, i, truth)[n].tag \in TagsOf(rep)
  BY DEF StableIsTyped
<1>2. ExpressionOK(At(i).expr, Scope) /\ i \in Nat
  BY <1>1, AtIs
<1>3. \A s \in Scope : ReadsRight(s)
  BY <1>1, ReadableRight
<1>4. Right(infer_expr(At(i).expr, types[i])[n], Eval(At(i).expr, Held, i, truth)[n],
            expression_representation_is_stable(table, types[i], At(i).expr)[n],
            Emitted(types[i], At(i).expr, i, truth)[n])
  BY <1>2, <1>3, NodesRight
<1> QED BY <1>1, <1>4 DEF Right

(* A slot is of its C type, and one that is bound has been written, in     *)
(* every program: a value that does not fit a slot is lost, and not stored *)
(* as another.                                                             *)
THEOREM TypeOKHolds == Spec => []TypeOK
BY InvHolds, TypeOKFollows, PTL

(* A value is replaced by the unused half of a box, on its way to a slot   *)
(* or out of one (emit_c.c), only where the C backend keeps a variable     *)
(* natively about which an agreement is broken.                            *)
THEOREM CoveredLosesNothingHolds == Spec => []CoveredLosesNothing
<1>1. Inv => CoveredLosesNothing
  BY NothingLostFollows DEF CoveredLosesNothing
<1> QED BY <1>1, InvHolds, PTL

(* What the analysis calls stable has the kind that it foretells, in every *)
(* program whose names mean only what is of their representations.         *)
THEOREM StableIsTypedHolds == Spec => []StableIsTyped
BY InvHolds, StableFollows, PTL

-----------------------------------------------------------------------------
(* The program's meaning *)

(* What the slots hold, in the terms of BoxedProgram.                      *)
HeldBar ==
  [s \in Symbols |-> IF IsBound(s) /\ (inside \/ s \in Globals) THEN slot[s] ELSE Unbound]
StatusBar == IF status = "failed" THEN "failed" ELSE "running"

LEMMA SameValues ==
  /\ Boxes!Error = Error /\ Boxes!Unbound = Unbound /\ Boxes!RuntimeValue = RuntimeValue
  /\ \A tag, from : Boxes!Scalar(tag, from) = Scalar(tag, from)
BY DEF Boxes!Error, Error, Boxes!Unbound, Unbound, Boxes!Scalar, Scalar, Boxes!Value, Value,
       Boxes!Lost, Lost, Boxes!RuntimeValue, RuntimeValue

LEMMA SameEval ==
  ASSUME NEW e, NEW meaning, NEW from, NEW truth
  PROVE /\ Boxes!Eval(e, meaning, from, truth) = Eval(e, meaning, from, truth)
        /\ \A known : Boxes!Whole(e, known) = Whole(e, known)
BY DEF Boxes!Eval, Eval, Boxes!EvalNode, EvalNode, Boxes!Operands, Operands, Boxes!Unbound, Unbound,
       Boxes!Error, Error, Boxes!Scalar, Scalar, Boxes!Value, Value, Boxes!Lost, Lost, Boxes!Apply, Apply,
       Boxes!Evaluated, Evaluated, Boxes!HDBinary, HDBinary, Boxes!HDConcat, HDConcat,
       Boxes!Numeric, Numeric, Boxes!HDLength, HDLength, Boxes!HDCast, HDCast, Boxes!HDIndex, HDIndex,
       Boxes!Whole, Whole

LEMMA SameProgram ==
  /\ Boxes!Statements = Statements
  /\ \A i : Boxes!At(i) = At(i)
  /\ \A s : Boxes!Fallback(program, s) = global_fallback(s)
  /\ status = "running" => \A i : Boxes!Executing(i) <=> Executing(i)
<1>1. Boxes!Statements = Statements /\ \A i : Boxes!At(i) = At(i)
  BY DEF Boxes!Statements, Statements, Boxes!At, At, Boxes!Text, Text
<1>2. \A s : Boxes!Fallback(program, s) = global_fallback(s)
  <2>2. TAKE s
  <2> DEFINE global == {g \in Globals : NameOf[g] = NameOf[s] /\ Binders(program.top, g) # {}}
  <2>3. Boxes!Fallback(program, s) =
          IF (s \notin Globals /\ ~IsParameter(program, s)) /\ global # {}
          THEN CHOOSE g \in global : TRUE ELSE NoSymbol
    BY DEF Boxes!Fallback, IsParameter, Boxes!Binders, Binders
  <2>4. global_fallback(s) =
          IF s \notin Globals /\ ~IsParameter(program, s) /\ global # {}
          THEN CHOOSE g \in global : TRUE ELSE NoSymbol
    BY DEF global_fallback
  <2> HIDE DEF global
  <2> QED BY <2>3, <2>4
<1>3. status = "running" => \A i : Boxes!Executing(i) <=> Executing(i)
  BY DEF Boxes!Executing, Executing, Boxes!InBody, InBody
<1> QED BY <1>1, <1>2, <1>3

(* A name leads to the same place, and means the same.                     *)
LEMMA SameLeads ==
  ASSUME Inv, ValuesShaped, NEW s \in Scope
  PROVE /\ Boxes!Leads(program, HeldBar, s) = Leads(s)
        /\ Boxes!Meaning(program, HeldBar)[s] = Held[s]
<1> DEFINE g == global_fallback(s)
<1>1. s \in Symbols /\ (inside \/ s \in Globals)
  BY NamesAssumption DEF Scope
<1>2. HeldBar[s] = (IF IsBound(s) THEN slot[s] ELSE Unbound)
  BY <1>1 DEF HeldBar
<1>3. HeldBar[s] # Unbound <=> IsBound(s)
  BY <1>1, <1>2, OwnIs, ErrorIsNot
<1>4. ASSUME g # NoSymbol
      PROVE /\ HeldBar[g] # Unbound <=> g \in bound
            /\ g \in bound => HeldBar[g] = slot[g]
  <2>1. g \in Globals /\ g \in Symbols
    BY <1>1, <1>4, FallbackIs
  <2>2. ~IsParameter(program, g)
    BY <2>1, ProgramsAssumption, NamesAssumption DEF IsParameter, Inv
  <2>3. IsBound(g) <=> g \in bound
    BY <2>2 DEF IsBound, has_bound_bit
  <2>4. HeldBar[g] = IF g \in bound THEN slot[g] ELSE Unbound
    BY <2>1, <2>3 DEF HeldBar
  <2>5. g \in bound => slot[g] # Unbound
    <3> HIDE DEF g
    <3> QED BY <1>1, <2>1, <2>3, ErrorIsNot DEF ValuesShaped
  <2> QED BY <2>4, <2>5
<1>5. /\ Boxes!Fallback(program, s) = g
      /\ Boxes!Unbound = Unbound
  BY SameProgram, SameValues
<1>6. Boxes!Leads(program, HeldBar, s) =
        CASE HeldBar[s] # Unbound -> "own"
          [] HeldBar[s] = Unbound /\ g # NoSymbol /\ HeldBar[g] # Unbound -> "global"
          [] HeldBar[s] = Unbound /\ (g = NoSymbol \/ HeldBar[g] = Unbound) ->
               IF env[NameOf[s]] # Unbound THEN "env" ELSE "nowhere"
  BY <1>5 DEF Boxes!Leads
<1>7. Leads(s) =
        CASE IsBound(s) -> "own"
          [] ~IsBound(s) /\ g # NoSymbol /\ g \in bound -> "global"
          [] ~IsBound(s) /\ (g = NoSymbol \/ g \notin bound) ->
               IF env[NameOf[s]] # Unbound THEN "env" ELSE "nowhere"
  BY DEF Leads
<1> HIDE DEF g
<1>8. Boxes!Leads(program, HeldBar, s) = Leads(s)
  BY <1>3, <1>4, <1>6, <1>7
<1>9. Boxes!Meaning(program, HeldBar)[s] =
        CASE Leads(s) = "own" -> HeldBar[s]
          [] Leads(s) = "global" -> HeldBar[g]
          [] OTHER -> env[NameOf[s]]
  BY <1>1, <1>5, <1>8 DEF Boxes!Meaning
<1>10. Held[s] =
         CASE Leads(s) = "own" -> slot[s]
           [] Leads(s) = "global" -> slot[g]
           [] OTHER -> env[NameOf[s]]
  BY <1>1 DEF Held, g
<1>11. /\ Leads(s) = "own" => HeldBar[s] = slot[s]
       /\ Leads(s) = "global" => HeldBar[g] = slot[g]
  BY <1>2, <1>4, LeadsTo DEF g
<1> QED BY <1>8, <1>9, <1>10, <1>11

LEMMA SameResult ==
  ASSUME Inv, status = "running", NEW i \in Statements, Executing(i), NEW truth \in BOOLEAN
  PROVE Boxes!Result(i, truth) = Meant(i, truth)
<1> DEFINE e == At(i).expr
           m == Boxes!Meaning(program, HeldBar)
<1>1. Boxes!Result(i, truth) = Whole(e, Eval(e, m, i, truth))
  <2>1. Boxes!Result(i, truth) =
          Boxes!Whole(Boxes!At(i).expr, Boxes!Eval(Boxes!At(i).expr, m, i, truth))
    BY DEF Boxes!Result, HeldBar
  <2> HIDE DEF m
  <2> QED BY <2>1, SameEval, SameProgram
<1>2. ExpressionOK(e, Scope) /\ \A s \in Scope : m[s] = Held[s]
  BY AtIs, SameLeads DEF Inv
<1> HIDE DEF e, m
<1>3. Whole(e, Eval(e, m, i, truth)) = Whole(e, Eval(e, Held, i, truth))
  BY <1>2, EvalReads
<1> QED BY <1>1, <1>3 DEF Meant, e

(* What is written to slots that are then bound is held.                   *)
LEMMA BarWritten ==
  ASSUME unit' = unit, inside' = inside,
         NEW T \in SUBSET Symbols, Bits(T) \subseteq bound', \A t \in T : inside \/ t \in Globals,
         \A s \in Symbols : s \notin T => slot'[s] = slot[s],
         bound \subseteq bound', bound' \subseteq bound \cup Bits(T)
  PROVE HeldBar' = [s \in Symbols |-> IF s \in T THEN slot'[s] ELSE HeldBar[s]]
<1>1. ASSUME NEW s \in Symbols PROVE IF s \in T THEN IsBound(s)' ELSE IsBound(s)' <=> IsBound(s)
  BY <1>1, UnitKeeps DEF IsBound, Bits
<1>2. HeldBar' = [s \in Symbols |-> IF IsBound(s)' /\ (inside \/ s \in Globals) THEN slot'[s] ELSE Unbound]
  BY DEF HeldBar
<1>3. ASSUME NEW s \in Symbols
      PROVE (IF IsBound(s)' /\ (inside \/ s \in Globals) THEN slot'[s] ELSE Unbound) =
            IF s \in T THEN slot'[s] ELSE HeldBar[s]
  BY <1>1 DEF HeldBar
<1> QED BY <1>2, <1>3

LEMMA BarWrittenOne ==
  ASSUME unit' = unit, inside' = inside, DOMAIN slot = Symbols,
         NEW t \in Symbols, NEW v, Bits({t}) \subseteq bound', inside \/ t \in Globals,
         slot' = [slot EXCEPT ![t] = v],
         bound \subseteq bound', bound' \subseteq bound \cup Bits({t})
  PROVE HeldBar' = [HeldBar EXCEPT ![t] = v]
<1> DEFINE T == {t}
<1>1. slot'[t] = v /\ DOMAIN HeldBar = Symbols
  BY DEF HeldBar
<1>2. HeldBar' = [s \in Symbols |-> IF s \in T THEN slot'[s] ELSE HeldBar[s]]
  <2>1. \A x \in T : inside \/ x \in Globals
    OBVIOUS
  <2>2. T \in SUBSET Symbols /\ Bits(T) \subseteq bound' /\ bound' \subseteq bound \cup Bits(T)
    OBVIOUS
  <2>3. \A s \in Symbols : s \notin T => slot'[s] = slot[s]
    OBVIOUS
  <2> HIDE DEF T
  <2> QED BY <2>1, <2>2, <2>3, BarWritten
<1> QED BY <1>1, <1>2

LEMMA StatusIs ==
  /\ status = "running" => StatusBar = "running"
  /\ StatusBar # "failed" <=> status # "failed"
  /\ StatusBar = "running" <=> status # "failed"
BY DEF StatusBar

LEMMA DeclareBar == ASSUME Inv, AllAgree, Declare PROVE Boxes!Declare
<1>1. PICK i \in Statements, truth \in BOOLEAN :
        /\ Executing(i) /\ At(i).op = "declare" /\ Initialiser(i, truth) # Error
        /\ slot' = [slot EXCEPT ![At(i).symbol] = Initialiser(i, truth)]
        /\ bound' = bound \cup Bits({At(i).symbol})
        /\ UNCHANGED <<unit, env, inside, seen, status>>
  BY DEF Declare
<1> DEFINE s == At(i).symbol
           v == Meant(i, truth)
<1>2. status = "running"
  BY <1>1 DEF Executing
<1>3. s \in Scope /\ s \in Symbols /\ Initialiser(i, truth) = v /\ v # Error
  BY <1>1, <1>2, DeclareIs, InitialiserIs
<1>4. slot' = [slot EXCEPT ![s] = v] /\ bound' = bound \cup Bits({s}) /\ (inside \/ s \in Globals)
  BY <1>1, <1>3 DEF Scope
<1>5. DOMAIN slot = Symbols
  BY <1>2 DEF Inv, ValuesShaped
<1> HIDE DEF s, v
<1>6. HeldBar' = [HeldBar EXCEPT ![s] = v]
  BY <1>1, <1>3, <1>4, <1>5, BarWrittenOne
<1>7. /\ i \in Boxes!Statements /\ Boxes!Executing(i) /\ Boxes!At(i) = At(i)
      /\ Boxes!Result(i, truth) = v /\ Boxes!Error = Error
  BY <1>1, <1>2, SameProgram, SameResult, SameValues DEF v
<1>8. StatusBar' = StatusBar /\ UNCHANGED <<program, env, inside, seen>>
  BY <1>1, UnitKeeps DEF StatusBar
<1> QED BY <1>1, <1>3, <1>6, <1>7, <1>8 DEF Boxes!Declare, HeldBar, StatusBar, s

LEMMA AssignBar == ASSUME Inv, AllAgree, Assign PROVE Boxes!Assign
<1>1. PICK i \in Statements, truth \in BOOLEAN :
        /\ Executing(i) /\ At(i).op = "assign" /\ Boxed(i, truth) # Error
        /\ emit_store(At(i).symbol, Boxed(i, truth))
        /\ UNCHANGED <<unit, inside, seen, status>>
  BY DEF Assign
<1> DEFINE s == At(i).symbol
           v == Meant(i, truth)
           t == Target(s)
<1>2. status = "running" /\ MeaningsAgree /\ ValuesShaped
  BY <1>1 DEF Executing, Inv, AllAgree
<1>3. /\ s \in Scope /\ s \in Symbols /\ v # Error /\ (inside \/ s \in Globals)
      /\ Boxed(i, truth) = v /\ emit_unbox(Rep(t), v) = v
  <2>1. s \in Scope /\ s \in Symbols /\ (inside \/ s \in Globals)
    BY <1>1, AtIs DEF StatementOK, Scope
  <2>2. Boxed(i, truth) = v
    BY <1>1, <1>2, AssignIs
  <2>3. emit_unbox(Rep(t), v) = v
    BY <1>1, <1>2, <2>2, StoredIs
  <2> QED BY <1>1, <2>1, <2>2, <2>3
<1>4. /\ t \in Symbols /\ NameOf[t] = NameOf[s]
      /\ IF Leads(s) = "env"
         THEN slot' = slot /\ bound' = bound /\ env' = [env EXCEPT ![NameOf[s]] = v]
         ELSE /\ slot' = [slot EXCEPT ![t] = v] /\ env' = env
              /\ bound' = IF Leads(s) = "nowhere" THEN bound \cup Bits({s}) ELSE bound
  <2>1. t \in Symbols /\ NameOf[t] = NameOf[s]
    BY <1>3, TargetIs
  <2>2. emit_store(s, v)
    BY <1>1, <1>3
  <2> HIDE DEF s, v
  <2>3. IF Leads(s) = "env"
        THEN slot' = slot /\ bound' = bound /\ env' = [env EXCEPT ![NameOf[s]] = v]
        ELSE /\ slot' = [slot EXCEPT ![t] = emit_unbox(Rep(t), v)] /\ env' = env
             /\ bound' = IF Leads(s) = "nowhere" THEN bound \cup Bits({s}) ELSE bound
    BY <2>2, StoreIs
  <2> HIDE DEF t
  <2> QED BY <1>3, <2>1, <2>3
<1>5. /\ t = IF Leads(s) = "global" THEN global_fallback(s) ELSE s
      /\ Leads(s) # "global" => t = s
  BY DEF Target
<1>6. /\ i \in Boxes!Statements /\ Boxes!Executing(i) /\ Boxes!At(i) = At(i)
      /\ Boxes!Result(i, truth) = v /\ Boxes!Error = Error
      /\ Boxes!Leads(program, HeldBar, s) = Leads(s) /\ Boxes!Fallback(program, s) = global_fallback(s)
  BY <1>1, <1>2, <1>3, SameProgram, SameResult, SameValues, SameLeads
<1>7. StatusBar' = StatusBar /\ UNCHANGED <<program, inside, seen>>
  BY <1>1, UnitKeeps DEF StatusBar
<1>8. IF Leads(s) = "env" THEN env' = [env EXCEPT ![NameOf[t]] = v] /\ HeldBar' = HeldBar
      ELSE HeldBar' = [HeldBar EXCEPT ![t] = v] /\ env' = env
  <2>1. CASE Leads(s) = "env"
    <3>1. \A x : IsBound(x)' <=> IsBound(x)
      BY <1>1, <1>4, <2>1, UnitKeeps DEF IsBound
    <3>2. HeldBar' = HeldBar
      BY <1>4, <1>7, <2>1, <3>1 DEF HeldBar
    <3> QED BY <1>4, <2>1, <3>2
  <2>2. CASE Leads(s) # "env"
    <3>1. Bits({t}) \subseteq bound' /\ bound \subseteq bound' /\ bound' \subseteq bound \cup Bits({t})
      <4>1. CASE Leads(s) = "nowhere"
        BY <1>4, <1>5, <4>1
      <4>2. CASE Leads(s) = "own"
        <5>1. IsBound(s) /\ t = s /\ bound' = bound
          BY <1>4, <1>5, <4>2, LeadsTo
        <5> QED BY <5>1 DEF IsBound, Bits
      <4>3. CASE Leads(s) = "global"
        <5>1. t \in bound /\ bound' = bound
          BY <1>4, <1>5, <4>3, LeadsTo
        <5> QED BY <5>1 DEF Bits
      <4> QED BY <2>2, <4>1, <4>2, <4>3, LeadsTo
    <3>2. inside \/ t \in Globals
      BY <1>2, <1>3, <1>5, LeadsTo, FallbackIs
    <3>3. DOMAIN slot = Symbols /\ slot' = [slot EXCEPT ![t] = v] /\ env' = env
      BY <1>2, <1>4, <2>2 DEF ValuesShaped
    <3> HIDE DEF s, v, t
    <3>4. HeldBar' = [HeldBar EXCEPT ![t] = v]
      BY <1>1, <1>4, <3>1, <3>2, <3>3, BarWrittenOne
    <3> QED BY <2>2, <3>3, <3>4
  <2> QED BY <2>1, <2>2
<1> HIDE DEF v, t
<1> QED BY <1>1, <1>3, <1>5, <1>6, <1>7, <1>8 DEF Boxes!Assign, HeldBar, StatusBar

LEMMA ForeachIs ==
  ASSUME Inv, AllAgree, Foreach
  PROVE \E i \in Statements, truth \in BOOLEAN : \E tag \in Meant(i, truth).elements :
          /\ Executing(i) /\ At(i).op = "foreach"
          /\ slot' = [s \in Symbols |-> IF s = At(i).index THEN Scalar("int", i)
                                        ELSE IF s = At(i).symbol THEN Scalar(tag, i) ELSE slot[s]]
          /\ bound' = bound \cup Bits({At(i).symbol, At(i).index} \ {NoSymbol})
          /\ UNCHANGED <<unit, env, inside, seen, status>>
<1>1. PICK i \in Statements, truth \in BOOLEAN :
        /\ Executing(i) /\ At(i).op = "foreach"
        /\ \E tag \in Boxed(i, truth).elements :
             slot' = [s \in Symbols |->
                        CASE s = At(i).index -> emit_unbox(Rep(s), Scalar("int", i))
                          [] s = At(i).symbol /\ s # At(i).index -> emit_unbox(Rep(s), Scalar(tag, i))
                          [] OTHER -> slot[s]]
        /\ bound' = bound \cup Bits({At(i).symbol, At(i).index} \ {NoSymbol})
        /\ UNCHANGED <<unit, env, inside, seen, status>>
  BY DEF Foreach
<1>2. status = "running" /\ MeaningsAgree /\ IndexesAgree
  BY <1>1 DEF Executing, AllAgree
<1>3. PICK tag \in Meant(i, truth).elements :
        slot' = [s \in Symbols |->
                   CASE s = At(i).index -> emit_unbox(Rep(s), Scalar("int", i))
                     [] s = At(i).symbol /\ s # At(i).index -> emit_unbox(Rep(s), Scalar(tag, i))
                     [] OTHER -> slot[s]]
  BY <1>1, <1>2, ComputedRight
<1>4. Rep(At(i).symbol) = "boxed"
  BY <1>1, <1>2, TurnIs
<1>5. \A s \in Symbols : s = At(i).index => emit_unbox(Rep(s), Scalar("int", i)) = Scalar("int", i)
  BY <1>1, <1>2, IndexIs, NamesAssumption
<1>6. \A s : s = At(i).symbol => emit_unbox(Rep(s), Scalar(tag, i)) = Scalar(tag, i)
  BY <1>4 DEF emit_unbox
<1>7. ASSUME NEW s \in Symbols
      PROVE (CASE s = At(i).index -> emit_unbox(Rep(s), Scalar("int", i))
               [] s = At(i).symbol /\ s # At(i).index -> emit_unbox(Rep(s), Scalar(tag, i))
               [] OTHER -> slot[s]) =
            IF s = At(i).index THEN Scalar("int", i)
            ELSE IF s = At(i).symbol THEN Scalar(tag, i) ELSE slot[s]
  BY <1>5, <1>6
<1>8. slot' = [s \in Symbols |-> IF s = At(i).index THEN Scalar("int", i)
                                 ELSE IF s = At(i).symbol THEN Scalar(tag, i) ELSE slot[s]]
  BY <1>3, <1>7
<1> QED BY <1>1, <1>3, <1>8

LEMMA ForeachBar == ASSUME Inv, AllAgree, Foreach PROVE Boxes!Foreach
<1>1. PICK i \in Statements, truth \in BOOLEAN : \E tag \in Meant(i, truth).elements :
        /\ Executing(i) /\ At(i).op = "foreach"
        /\ slot' = [s \in Symbols |-> IF s = At(i).index THEN Scalar("int", i)
                                      ELSE IF s = At(i).symbol THEN Scalar(tag, i) ELSE slot[s]]
        /\ bound' = bound \cup Bits({At(i).symbol, At(i).index} \ {NoSymbol})
        /\ UNCHANGED <<unit, env, inside, seen, status>>
  BY ForeachIs
<1>2. PICK tag \in Meant(i, truth).elements :
        slot' = [s \in Symbols |-> IF s = At(i).index THEN Scalar("int", i)
                                   ELSE IF s = At(i).symbol THEN Scalar(tag, i) ELSE slot[s]]
  BY <1>1
<1> DEFINE value == At(i).symbol
           index == At(i).index
           T == {value, index} \ {NoSymbol}
           turned == [HeldBar EXCEPT ![value] = Scalar(tag, i),
                                     ![IF index = NoSymbol THEN value ELSE index] =
                                       Scalar(IF index = NoSymbol THEN tag ELSE "int", i)]
<1>3. status = "running"
  BY <1>1 DEF Executing
<1>4. /\ value \in Symbols /\ value \in Scope /\ NoSymbol \notin Symbols
      /\ index # NoSymbol => index \in Symbols /\ index \in Scope
  BY <1>1, <1>3, TurnIs, NamesAssumption
<1>5. HeldBar' = [s \in Symbols |-> IF s \in T THEN slot'[s] ELSE HeldBar[s]]
  <2>1. T \in SUBSET Symbols /\ \A t \in T : inside \/ t \in Globals
    BY <1>4 DEF Scope
  <2>2. Bits(T) \subseteq bound' /\ bound \subseteq bound' /\ bound' \subseteq bound \cup Bits(T)
    BY <1>1
  <2>3. \A s \in Symbols : s \notin T => slot'[s] = slot[s]
    BY <1>2, <1>4
  <2> HIDE DEF T
  <2> QED BY <1>1, <2>1, <2>2, <2>3, BarWritten
<1>6. HeldBar' = turned
  <2>1. DOMAIN HeldBar = Symbols
    BY DEF HeldBar
  <2>2. \A s \in Symbols : slot'[s] = IF s = index THEN Scalar("int", i)
                                      ELSE IF s = value THEN Scalar(tag, i) ELSE slot[s]
    BY <1>2
  <2>3. DOMAIN turned = Symbols
    BY <2>1
  <2>4. ASSUME NEW s \in Symbols
        PROVE turned[s] = IF s \in T THEN slot'[s] ELSE HeldBar[s]
    <3>1. CASE index = NoSymbol
      BY <1>4, <2>1, <2>2, <3>1
    <3>2. CASE index # NoSymbol
      BY <1>4, <2>1, <2>2, <3>2
    <3> QED BY <3>1, <3>2
  <2>5. turned = [s \in Symbols |-> turned[s]]
    BY <2>1
  <2> HIDE DEF T, turned
  <2> QED BY <1>5, <2>4, <2>5
<1>7. /\ i \in Boxes!Statements /\ Boxes!Executing(i) /\ Boxes!At(i) = At(i)
      /\ Boxes!Result(i, truth) = Meant(i, truth)
      /\ \A x, from : Boxes!Scalar(x, from) = Scalar(x, from)
  BY <1>1, <1>3, SameProgram, SameResult, SameValues
<1>8. StatusBar' = StatusBar /\ UNCHANGED <<program, env, inside, seen>>
  BY <1>1, UnitKeeps DEF StatusBar
<1>9. tag \in Boxes!Result(i, truth).elements
  BY <1>2, <1>7
<1> QED BY <1>1, <1>6, <1>7, <1>8, <1>9 DEF Boxes!Foreach, HeldBar, StatusBar

LEMMA UseBar == ASSUME Inv, AllAgree, Use PROVE Boxes!Use
<1>1. PICK i \in Statements, truth \in BOOLEAN :
        /\ Executing(i) /\ At(i).op = "use" /\ Boxed(i, truth) # Error
        /\ seen' = Boxed(i, truth)
        /\ UNCHANGED <<unit, slot, bound, env, inside, status>>
  BY DEF Use
<1>2. status = "running" /\ Boxed(i, truth) = Meant(i, truth)
  <2>1. status = "running"
    BY <1>1 DEF Executing
  <2> QED BY <1>1, <2>1, ComputedRight DEF AllAgree
<1>3. /\ i \in Boxes!Statements /\ Boxes!Executing(i) /\ Boxes!At(i) = At(i)
      /\ Boxes!Result(i, truth) = Meant(i, truth) /\ Boxes!Error = Error
  BY <1>1, <1>2, SameProgram, SameResult, SameValues
<1>4. StatusBar' = StatusBar /\ HeldBar' = HeldBar /\ UNCHANGED <<program, env, inside>>
  <2>1. \A x : IsBound(x)' <=> IsBound(x)
    BY <1>1, UnitKeeps DEF IsBound
  <2> QED BY <1>1, <2>1, UnitKeeps DEF StatusBar, HeldBar
<1> QED BY <1>1, <1>2, <1>3, <1>4 DEF Boxes!Use, HeldBar, StatusBar

LEMMA FailBar == ASSUME Inv, AllAgree, RuntimeError PROVE Boxes!RuntimeError
<1>1. PICK i \in Statements, truth \in BOOLEAN :
        /\ Executing(i) /\ Fails(i, truth)
        /\ status' = "failed"
        /\ UNCHANGED <<unit, slot, bound, env, inside, seen>>
  BY DEF RuntimeError
<1>2. status = "running"
  BY <1>1 DEF Executing
<1>3. /\ i \in Boxes!Statements /\ Boxes!Executing(i) /\ Boxes!At(i) = At(i)
      /\ Boxes!Result(i, truth) = Meant(i, truth) /\ Boxes!Error = Error
  BY <1>1, <1>2, SameProgram, SameResult, SameValues
<1>4. /\ Boxed(i, truth) = Meant(i, truth)
      /\ At(i).op = "declare" => Initialiser(i, truth) = Meant(i, truth)
  BY <1>1, <1>2, ComputedRight, DeclareIs DEF AllAgree
<1>5. Meant(i, truth) = Error \/ (At(i).op = "foreach" /\ Meant(i, truth).tag # "array")
  BY <1>1, <1>4 DEF Fails
<1>6. Boxes!Fails(i, Boxes!Result(i, truth))
  BY <1>3, <1>5 DEF Boxes!Fails
<1>7. StatusBar' = "failed" /\ HeldBar' = HeldBar /\ UNCHANGED <<program, env, inside, seen>>
  <2>1. \A x : IsBound(x)' <=> IsBound(x)
    BY <1>1, UnitKeeps DEF IsBound
  <2> QED BY <1>1, <2>1, UnitKeeps DEF StatusBar, HeldBar
<1> QED BY <1>3, <1>6, <1>7 DEF Boxes!RuntimeError, HeldBar, StatusBar

LEMMA CallBar == ASSUME Inv, AllAgree, Call PROVE Boxes!Call
<1>1. /\ status = "running" /\ ~inside /\ inside' = TRUE
      /\ slot' = [s \in Symbols |-> IF s \in Globals THEN slot[s] ELSE declare_frame(s)]
      /\ bound' = bound \cap Globals
      /\ UNCHANGED <<unit, env, seen, status>>
  BY DEF Call, clear_bound_bits
<1>2. ArgumentsAgree
  BY DEF AllAgree
<1>3. ASSUME NEW s \in Symbols
      PROVE (IF IsBound(s)' THEN slot'[s] ELSE Unbound) =
            IF s \in Globals THEN HeldBar[s] ELSE Boxes!Passed(program, s)
  <2>1. CASE s \in Globals
    <3>1. IsBound(s)' <=> IsBound(s)
      BY <1>1, <2>1, UnitKeeps DEF IsBound
    <3> QED BY <1>1, <2>1, <3>1 DEF HeldBar
  <2>2. CASE s \notin Globals
    <3>1. slot'[s] = declare_frame(s)
      BY <1>1, <2>2
    <3>2. IsBound(s)' <=> IsParameter(program, s)
      BY <1>1, <2>2, UnitKeeps DEF IsBound, has_bound_bit
    <3>3. CASE IsParameter(program, s)
      <4>1. Boxes!Passed(program, s) = declare_frame(s)
        BY <1>2, <3>3, FrameIs DEF Boxes!Passed
      <4> QED BY <2>2, <3>1, <3>2, <3>3, <4>1
    <3>4. CASE ~IsParameter(program, s)
      <4>1. Boxes!Passed(program, s) = Unbound
        BY <1>2, <3>4, FrameIs, SameValues DEF Boxes!Passed
      <4> QED BY <2>2, <3>2, <3>4, <4>1
    <3> QED BY <3>3, <3>4
  <2> QED BY <2>1, <2>2
<1>4. HeldBar' = [s \in Symbols |-> IF IsBound(s)' THEN slot'[s] ELSE Unbound]
  BY <1>1 DEF HeldBar
<1>5. HeldBar' = [s \in Symbols |-> IF s \in Globals THEN HeldBar[s] ELSE Boxes!Passed(program, s)]
  BY <1>3, <1>4
<1>6. StatusBar = "running" /\ StatusBar' = StatusBar /\ UNCHANGED <<program, env, seen>>
  BY <1>1, UnitKeeps DEF StatusBar
<1> QED BY <1>1, <1>5, <1>6 DEF Boxes!Call, HeldBar, StatusBar

LEMMA ReturnBar == ASSUME Inv, Return PROVE Boxes!Return
<1>1. /\ status = "running" /\ inside /\ inside' = FALSE
      /\ UNCHANGED <<unit, slot, bound, env, seen, status>>
  BY DEF Return
<1>2. \A s : IsBound(s)' <=> IsBound(s)
  BY <1>1, UnitKeeps DEF IsBound
<1>3. HeldBar' = [s \in Symbols |-> IF s \in Globals THEN HeldBar[s] ELSE Unbound]
  BY <1>1, <1>2 DEF HeldBar
<1>4. StatusBar = "running" /\ StatusBar' = StatusBar /\ UNCHANGED <<program, env, seen>>
  BY <1>1, UnitKeeps DEF StatusBar
<1> QED BY <1>1, <1>3, <1>4, SameValues DEF Boxes!Return, HeldBar, StatusBar

(* The passes, and what changes nothing, change no meaning.                *)
LEMMA PassBar ==
  ASSUME Inv,
         Seed \/ HDTypeCheckProgram \/ StartEmitting \/ analyze_native_slots \/ Run \/ UNCHANGED vars
  PROVE UNCHANGED Boxes!vars
<1>1. /\ UNCHANGED <<program, slot, bound, env, inside, seen>>
      /\ StatusBar' = StatusBar
  BY DEF Seed, HDTypeCheckProgram, StartEmitting, analyze_native_slots, Run, vars, unit, StatusBar
<1>2. \A s : IsBound(s)' <=> IsBound(s)
  BY <1>1 DEF IsBound, has_bound_bit
<1>3. HeldBar' = HeldBar
  BY <1>1, <1>2 DEF HeldBar
<1> QED BY <1>1, <1>3 DEF Boxes!vars, HeldBar, StatusBar

LEMMA InitBar == ASSUME Init PROVE Boxes!Init
<1>1. Inv /\ bound = {} /\ inside = FALSE /\ seen = Unbound /\ status = "seeding"
      /\ env = [n \in Names |-> IF n \in program.constants THEN RuntimeValue ELSE Unbound]
  BY InitInv DEF Init
<1>2. ASSUME NEW s \in Symbols PROVE ~(IsBound(s) /\ (inside \/ s \in Globals))
  BY <1>1, ProgramsAssumption, NamesAssumption DEF IsBound, has_bound_bit, IsParameter, Inv
<1>3. HeldBar = [s \in Symbols |-> Unbound] /\ StatusBar = "running"
  BY <1>1, <1>2 DEF HeldBar, StatusBar
<1> QED BY <1>1, <1>3, SameValues DEF Boxes!Init, HeldBar, StatusBar

LEMMA NextBar ==
  ASSUME Inv, Covered, [Next]_vars
  PROVE [Boxes!Next]_(Boxes!vars)
<1>1. CASE Seed \/ HDTypeCheckProgram \/ StartEmitting \/ analyze_native_slots \/ Run \/ UNCHANGED vars
  BY <1>1, PassBar
<1>2. CASE Return
  BY <1>2, ReturnBar DEF Boxes!Next
<1>3. CASE Declare \/ Assign \/ Foreach \/ Use \/ RuntimeError \/ Call
  <2>1. status = "running"
    BY <1>3 DEF Declare, Assign, Foreach, Use, RuntimeError, Call, Executing
  <2>2. AllAgree
    BY <2>1, CoveredAgrees
  <2> QED BY <1>3, <2>2, DeclareBar, AssignBar, ForeachBar, UseBar, FailBar, CallBar DEF Boxes!Next
<1> QED BY <1>1, <1>2, <1>3 DEF Next

(* Whatever the analysis decides, the slots, the bits and the chain of a   *)
(* load and of a store do in each step of a covered program what the       *)
(* program means, with every value boxed.                                  *)
THEOREM ImplementsBoxedHolds == Spec => ImplementsBoxed
<1>1. Init => Boxes!Init
  BY InitBar
<1>2. Inv /\ [Next]_vars => [Covered => [Boxes!Next]_(Boxes!vars)]_vars
  BY NextBar
<1>3. Spec => []Inv
  BY InvHolds
<1> QED BY <1>1, <1>2, <1>3, PTL DEF Spec, ImplementsBoxed

(* A program that stays covered is BoxedProgram's. *)
THEOREM CoveredRefinesBoxed == Spec => ([]Covered => Boxes!Spec)
<1>1. Init => Boxes!Init
  BY InitBar
<1>2. Inv /\ Covered /\ [Next]_vars => [Boxes!Next]_(Boxes!vars)
  BY NextBar
<1>3. Spec => []Inv
  BY InvHolds
<1> QED BY <1>1, <1>2, <1>3, PTL DEF Spec, Boxes!Spec

(* The assembly backend loses no value, and its code does what the program *)
(* means, in every program.                                                *)
THEOREM AsmRefinesBoxed == Spec /\ backend = "asm" => []NothingLost /\ Boxes!Spec
<1>1. backend = "asm" /\ [Next]_vars => (backend = "asm")'
  BY DEF Next, Seed, HDTypeCheckProgram, StartEmitting, analyze_native_slots, Run, Declare, Assign,
         Foreach, Use, RuntimeError, Call, Return, vars, unit
<1>2. backend = "asm" => Covered
  BY DEF Covered
<1>3. CoveredLosesNothing /\ Covered => NothingLost
  BY DEF CoveredLosesNothing
<1> QED BY <1>1, <1>2, <1>3, CoveredLosesNothingHolds, CoveredRefinesBoxed, PTL DEF Spec
=============================================================================
