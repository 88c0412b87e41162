------------------------------- MODULE Natives -------------------------------
(***************************************************************************)
(* The variables of a program as the native backends keep them.  The       *)
(* assembly backend (emit_asm.c) gives each a whole HDValue; the C backend *)
(* (emit_c.c) asks the type checker which can be a long long or a double,  *)
(* and evaluates expressions over those without boxing them.  A slot that  *)
(* has been given the wrong one of the three loses its value's tag, or the *)
(* value.  The programs and what they mean are BoxedProgram's; the classes *)
(* of the C backend are not described.                                     *)
(***************************************************************************)
EXTENDS TypeCheck

CONSTANTS
  Programs,
  Globals,
  Names,
  NameOf,
  Backends     \* of "asm" and "c"

VARIABLES
  program,
  backend,
  types,       \* the symbols' types before each statement and after the last
  unsafe,      \* the symbols that must be boxed, whatever their types
  slot,        \* of each symbol, a value: of a native one, an int or a float
  bound,       \* the symbols whose bit is set; parameters have none
  env,
  inside,
  seen,
  status

unit == <<program, backend, types, unsafe>>
vars == <<unit, slot, bound, env, inside, seen, status>>

(* A slot that has not been written. *)
Junk == Scalar("junk", Lost)

-----------------------------------------------------------------------------
(* Which variables are native *)

Text(p) == IF p.first = "top" THEN p.top \o p.body ELSE p.body \o p.top

InBody(p, i) == IF p.first = "top" THEN i > Len(p.top) ELSE i <= Len(p.body)

IsParameter(p, symbol) == \E i \in 1..Len(p.params) : p.params[i] = symbol

Representations == {"i64", "f64", "boxed"}

type_representation(type) ==
  CASE type = "int" -> "i64" [] type = "F64" -> "f64" [] OTHER -> "boxed"

(* What the resolver and the parser see to: a name is one symbol in its    *)
(* scope; the top level reads and binds its own symbols only; and a symbol *)
(* of it that a function binds is one that it binds itself.                *)
ASSUME NamesAssumption ==
  /\ NoSymbol \notin Symbols /\ Globals \subseteq Symbols /\ NameOf \in [Symbols -> Names]
  /\ \A s, t \in Symbols : NameOf[s] = NameOf[t] /\ (s \in Globals <=> t \in Globals) => s = t

ASSUME BackendsAssumption == Backends \subseteq {"asm", "c"}

StatementOK(s, scope) ==
  /\ s.op \in {"declare", "assign", "foreach", "use"}
  /\ ExpressionOK(s.expr, scope)
  /\ \A n \in 1..Len(s.expr) : s.expr[n].kind = "none" => s.op = "declare" /\ Len(s.expr) = 1
  /\ s.op # "use" => s.symbol \in scope
  /\ s.index \in (IF s.op = "foreach" THEN scope \cup {NoSymbol} ELSE {NoSymbol})

IsList(s) == s \in Seq({s[i] : i \in 1..Len(s)})

ASSUME ProgramsAssumption ==
  \A p \in Programs :
    /\ IsList(p.top) /\ IsList(p.body)
    /\ \A i \in 1..Len(p.top) : StatementOK(p.top[i], Globals)
    /\ \A i \in 1..Len(p.body) : StatementOK(p.body[i], Symbols)
    /\ \A g \in Globals : Binders(p.body, g) # {} => Binders(p.top, g) # {}
    /\ p.first \in {"top", "body"} /\ p.constants \subseteq Names
    /\ Len(p.params) \in Nat
    /\ \A i \in 1..Len(p.params) :
         p.params[i] \in (Symbols \ Globals) \cup {NoSymbol} /\ Proper(p.args[i])

(* t is what is known so far: the types, and the unsafe symbols. *)
symbol_representation(t, symbol) ==
  IF symbol \in t.unsafe THEN "boxed" ELSE type_representation(t.types[Len(t.types)][symbol])

node_representation(e, before) ==
  LET type == infer_expr(e, before) IN [n \in 1..Len(e) |-> type_representation(type[n])]

(* Mutant: an arm of a conditional expression is only asked for its type.  *)
stable_armTyped(node, own, rep, kid, t) ==
  [expected \in Representations |->
     /\ own = expected
     /\ CASE node.kind \in {"number", "not", "length", "print"} -> expected = "i64"
          [] node.kind = "float" -> expected = "f64"
          [] node.kind = "read" -> symbol_representation(t, node.arg) = expected
          [] node.kind \in {"binary", "logic"} ->
               node.arg # "concat" /\ \A i \in 1..2 : rep[i] # "boxed" /\ kid[i][rep[i]]
          [] node.kind = "minus" -> kid[1][rep[1]]
          [] node.kind = "ternary" -> TRUE
          [] OTHER -> FALSE]

(* Whether a node's value surely has the expected tag, given its own       *)
(* representation, its operands' and what is known of their stability.     *)
stable_node(node, own, rep, kid, t) ==
  [expected \in Representations |->
     /\ own = expected
     /\ CASE node.kind \in {"number", "not", "length", "print"} -> expected = "i64"
          [] node.kind = "float" -> expected = "f64"
          [] node.kind = "read" -> symbol_representation(t, node.arg) = expected
          [] node.kind \in {"binary", "logic"} ->
               node.arg # "concat" /\ \A i \in 1..2 : rep[i] # "boxed" /\ kid[i][rep[i]]
          [] node.kind = "minus" -> kid[1][rep[1]]
          [] node.kind = "ternary" -> kid[2][expected] /\ kid[3][expected]
          [] OTHER -> FALSE]

expression_representation_is_stable(t, before, e) ==
  LET rep == node_representation(e, before)
      stable[n \in 1..Len(e)] ==
        stable_node(e[n], rep[n], Operands(e[n], rep), Operands(e[n], stable), t)
  IN stable

Stable(t, p, i, symbol) ==
  Whole(Text(p)[i].expr, expression_representation_is_stable(t, t.types[i], Text(p)[i].expr))
    [symbol_representation(t, symbol)]

ForeachValues(p) ==
  {Text(p)[i].symbol : i \in {j \in 1..Len(Text(p)) : Text(p)[j].op = "foreach"}}
ForeachIndexes(p) == {Text(p)[i].index : i \in 1..Len(Text(p))}

(* The symbols that are found unsafe next: their first declaration's       *)
(* value, or that of some assignment, may have another tag.                *)
Newly(t, p) ==
  {symbol \in Symbols :
     LET first == declaration(Text(p), symbol) IN
     /\ first # 0
     /\ symbol_representation(t, symbol) # "boxed"
     /\ \/ /\ ~IsParameter(p, symbol) /\ symbol \notin ForeachIndexes(p)
           /\ ~Stable(t, p, first, symbol)
        \/ \E i \in Binders(Text(p), symbol) :
             Text(p)[i].op = "assign" /\ ~Stable(t, p, i, symbol)}

-----------------------------------------------------------------------------
(* Slots *)

table == [types |-> types, unsafe |-> unsafe]

Rep(symbol) == symbol_representation(table, symbol)

(* Mutant: a boxed value is stored as it is. *)
emit_unboxAsIs(rep, v) == v

emit_unbox(rep, v) ==
  CASE rep = "i64" -> AsI64(v) [] rep = "f64" -> HDAsDouble(v) [] OTHER -> v

(* int_value and float_value of a C expression, and C's own conversion of  *)
(* one to a native slot's type; a truncated float is another value.        *)
Native(rep, v) ==
  CASE v = Error -> v
    [] rep = "i64" /\ v # Error -> Scalar("int", IF v.tag = "int" THEN v.from ELSE Lost)
    [] rep = "f64" /\ v # Error -> Scalar("float", v.from)
    [] OTHER -> v

has_bound_bit(symbol) == ~IsParameter(program, symbol)

IsBound(symbol) == ~has_bound_bit(symbol) \/ symbol \in bound

global_fallback(symbol) ==
  LET global == {g \in Globals : NameOf[g] = NameOf[symbol] /\ Binders(program.top, g) # {}} IN
  IF symbol \notin Globals /\ ~IsParameter(program, symbol) /\ global # {}
  THEN CHOOSE g \in global : TRUE ELSE NoSymbol

Leads(symbol) ==
  LET fallback == global_fallback(symbol) IN
  CASE IsBound(symbol) -> "own"
    [] ~IsBound(symbol) /\ fallback # NoSymbol /\ fallback \in bound -> "global"
    [] ~IsBound(symbol) /\ (fallback = NoSymbol \/ fallback \notin bound) ->
         IF env[NameOf[symbol]] # Unbound THEN "env" ELSE "nowhere"

HDLoadX(symbol) == IF env[NameOf[symbol]] = Unbound THEN Error ELSE env[NameOf[symbol]]

emit_load(symbol) ==
  LET leads == Leads(symbol) IN
  CASE leads = "own" -> slot[symbol]
    [] leads = "global" -> slot[global_fallback(symbol)]
    [] OTHER -> HDLoadX(symbol)

(* A read where a native value is wanted.  A fallback's slot of another    *)
(* representation is boxed and unboxed again.                              *)
NativeRead(symbol, wanted) ==
  LET leads == Leads(symbol)
      fallback == global_fallback(symbol) IN
  IF Rep(symbol) = "boxed" THEN emit_unbox(wanted, emit_load(symbol))
  ELSE CASE leads = "own" -> slot[symbol]
         [] leads = "global" ->
              IF Rep(fallback) = wanted THEN slot[fallback]
              ELSE emit_unbox(wanted, slot[fallback])
         [] OTHER -> emit_unbox(wanted, HDLoadX(symbol))

-----------------------------------------------------------------------------
(* Expressions: what the emitted code computes *)

(* A node with what the backend knows of it and its operands. *)
Site(before, e, n) ==
  [node |-> e[n],
   own |-> node_representation(e, before)[n],
   rep |-> Operands(e[n], node_representation(e, before)),
   stable |-> Operands(e[n], expression_representation_is_stable(table, before, e))]

direct_scalar_expression(site) ==
  /\ backend = "c"
  /\ site.own # "boxed"
  /\ \/ /\ site.node.kind = "binary" /\ site.node.arg \in {"arith", "compare"}
        /\ \A i \in 1..2 : site.rep[i] # "boxed" /\ site.stable[i][site.rep[i]]
     \/ site.node.kind = "minus" /\ site.stable[1][site.rep[1]]
     \/ site.node.kind = "ternary" /\ \A i \in 2..3 : site.stable[i][site.own]

(* "kid" is what each operand gives as a box and as either native value,   *)
(* "from" is the statement, and "truth" what a condition in it said.       *)
emit_direct_scalar_body(site, kid, from, truth) ==
  LET operands ==
        IF site.node.kind # "binary" \/ site.node.arg # "compare" THEN site.own
        ELSE IF \E i \in 1..2 : site.rep[i] = "f64" THEN "f64" ELSE "i64"
      wanted(i) == IF site.node.kind = "ternary" /\ i = 1 THEN "boxed" ELSE operands
  IN Apply(site.node, [i \in 1..Len(site.node.kids) |-> kid[i][wanted(i)]], from, truth)

emit_expression(site, kid, from, truth) ==
  CASE site.node.kind = "read" -> emit_load(site.node.arg)
    [] site.node.kind # "read" /\ direct_scalar_expression(site) ->
         Native(site.own, emit_direct_scalar_body(site, kid, from, truth))
    [] OTHER ->
         Apply(site.node, [i \in 1..Len(site.node.kids) |-> kid[i]["boxed"]], from, truth)

emit_scalar_value(site, kid, wanted, from, truth) ==
  LET value ==
        CASE site.node.kind \in {"number", "float"} -> Apply(site.node, <<>>, from, truth)
          [] site.node.kind = "read" -> NativeRead(site.node.arg, wanted)
          [] direct_scalar_expression(site) -> emit_direct_scalar_body(site, kid, from, truth)
          [] OTHER -> emit_unbox(wanted, emit_expression(site, kid, from, truth))
  IN IF site.own \notin {wanted, "boxed"} THEN Native(wanted, value) ELSE value

emit_node(site, kid, from, truth) ==
  [wanted \in Representations |->
     IF wanted = "boxed" THEN emit_expression(site, kid, from, truth)
     ELSE emit_scalar_value(site, kid, wanted, from, truth)]

(* "before" are the types that the checker found before the statement.     *)
Emitted(before, e, from, truth) ==
  LET code[n \in 1..Len(e)] ==
        emit_node(Site(before, e, n), Operands(e[n], code), from, truth)
  IN code

-----------------------------------------------------------------------------
(* Statements *)

Statements == 1..Len(Text(program))
At(i) == Text(program)[i]
Executing(i) == status = "running" /\ (inside <=> InBody(program, i))

Computed(wanted, i, truth) ==
  Whole(At(i).expr, Emitted(types[i], At(i).expr, i, truth))[wanted]

Boxed(i, truth) == Computed("boxed", i, truth)

(* The slot a symbol would be given. *)
emit_define(symbol, v) == [slot EXCEPT ![symbol] = emit_unbox(Rep(symbol), v)]

Bits(symbols) == {s \in symbols : has_bound_bit(s)}

Initialiser(i, truth) ==
  LET symbol == At(i).symbol IN
  IF Rep(symbol) = "boxed" THEN Boxed(i, truth)
  ELSE Native(Rep(symbol), Computed(Rep(symbol), i, truth))

Declare ==
  \E i \in Statements, truth \in BOOLEAN :
    /\ Executing(i) /\ At(i).op = "declare" /\ Initialiser(i, truth) # Error
    /\ slot' = [slot EXCEPT ![At(i).symbol] = Initialiser(i, truth)]
    /\ bound' = bound \cup Bits({At(i).symbol})
    /\ UNCHANGED <<unit, env, inside, seen, status>>

(* Mutant: an unbound local is bound without a look at the global. *)
emit_storeOwn(symbol, v) ==
  /\ slot' = emit_define(symbol, v)
  /\ bound' = bound \cup Bits({symbol})
  /\ UNCHANGED env

emit_store(symbol, v) ==
  LET leads == Leads(symbol)
      fallback == global_fallback(symbol) IN
  /\ slot' = CASE leads = "global" -> emit_define(fallback, v)
               [] leads = "env" -> slot
               [] OTHER -> emit_define(symbol, v)
  /\ bound' = IF leads = "nowhere" THEN bound \cup Bits({symbol}) ELSE bound
  /\ env' = IF leads = "env" THEN [env EXCEPT ![NameOf[symbol]] = v] ELSE env

Assign ==
  \E i \in Statements, truth \in BOOLEAN :
    /\ Executing(i) /\ At(i).op = "assign" /\ Boxed(i, truth) # Error
    /\ emit_store(At(i).symbol, Boxed(i, truth))
    /\ UNCHANGED <<unit, inside, seen, status>>

(* One turn.  The element and its index are boxed when they are bound. *)
Foreach ==
  \E i \in Statements, truth \in BOOLEAN :
    LET value == At(i).symbol
        index == At(i).index
        both == {value, index} \ {NoSymbol} IN
    /\ Executing(i) /\ At(i).op = "foreach"
    /\ \E tag \in Boxed(i, truth).elements :
         slot' = [s \in Symbols |->
                    CASE s = index -> emit_unbox(Rep(s), Scalar("int", i))
                      [] s = value /\ s # index -> emit_unbox(Rep(s), Scalar(tag, i))
                      [] OTHER -> slot[s]]
    /\ bound' = bound \cup Bits(both)
    /\ UNCHANGED <<unit, env, inside, seen, status>>

Use ==
  \E i \in Statements, truth \in BOOLEAN :
    /\ Executing(i) /\ At(i).op = "use" /\ Boxed(i, truth) # Error
    /\ seen' = Boxed(i, truth)
    /\ UNCHANGED <<unit, slot, bound, env, inside, status>>

Fails(i, truth) ==
  CASE At(i).op = "declare" -> Initialiser(i, truth) = Error
    [] At(i).op = "foreach" -> Boxed(i, truth).tag # "array"
    [] OTHER -> Boxed(i, truth) = Error

RuntimeError ==
  \E i \in Statements, truth \in BOOLEAN :
    /\ Executing(i) /\ Fails(i, truth)
    /\ status' = "failed"
    /\ UNCHANGED <<unit, slot, bound, env, inside, seen>>

(* A new frame: a parameter gets its argument, which is boxed, and of two  *)
(* with one name the last.                                                 *)
declare_frame(symbol) ==
  LET positions == {i \in 1..Len(program.params) : program.params[i] = symbol} IN
  IF positions = {} THEN Junk
  ELSE emit_unbox(Rep(symbol),
                  program.args[CHOOSE i \in positions : \A j \in positions : j <= i])

clear_bound_bits(bits) == bits \cap Globals

Call ==
  /\ status = "running" /\ ~inside
  /\ inside' = TRUE
  /\ slot' = [s \in Symbols |-> IF s \in Globals THEN slot[s] ELSE declare_frame(s)]
  /\ bound' = clear_bound_bits(bound)
  /\ UNCHANGED <<unit, env, seen, status>>

Return ==
  /\ status = "running" /\ inside
  /\ inside' = FALSE
  /\ UNCHANGED <<unit, slot, bound, env, seen, status>>

-----------------------------------------------------------------------------
(* What the analysis does not look at, and nothing else refuses: a         *)
(* symbol's later declarations, arguments and indexes, and the global or   *)
(* the runtime's constant that it may mean.  It is right about a program   *)
(* where these happen to agree with what it found.                         *)

DeclarationsAgree ==
  \A i \in Statements :
    At(i).op = "declare" /\ Rep(At(i).symbol) # "boxed" => Stable(table, program, i, At(i).symbol)

IndexesAgree == \A s \in ForeachIndexes(program) \cap Symbols : Rep(s) # "f64"

ArgumentsAgree ==
  \A i \in 1..Len(program.params) :
    LET s == program.params[i] IN
    s # NoSymbol => emit_unbox(Rep(s), program.args[i]) = program.args[i]

FallbacksAgree ==
  \A s \in Symbols :
    declaration(Text(program), s) # 0 /\ global_fallback(s) # NoSymbol
      => Rep(s) = Rep(global_fallback(s))

ConstantsAgree ==
  \A s \in Symbols : NameOf[s] \in program.constants => Rep(s) # "f64"

(* What a name may mean is of the representation of its symbol.            *)
MeaningsAgree == FallbacksAgree /\ ConstantsAgree

AllAgree == DeclarationsAgree /\ IndexesAgree /\ ArgumentsAgree /\ MeaningsAgree

-----------------------------------------------------------------------------

(* The passes: the checker gives the symbols their first types and goes    *)
(* from statement to statement, and then the C backend marks symbols as    *)
(* unsafe until it finds no other.                                         *)

Seed ==
  /\ status = "seeding"
  /\ \/ /\ Survives(Text(program), program.params)
        /\ types' = <<seed_symbol_types(Text(program), program.params, program.param_types)>>
        /\ status' = "checking"
     \/ /\ MayCrash(Text(program), program.params)
        /\ status' = "crashed" /\ UNCHANGED types
  /\ UNCHANGED <<program, backend, unsafe, slot, bound, env, inside, seen>>

HDTypeCheckProgram ==
  /\ status = "checking" /\ Len(types) <= Len(Text(program))
  /\ types' = Append(types, check_stmt(At(Len(types)), types[Len(types)]))
  /\ UNCHANGED <<program, backend, unsafe, slot, bound, env, inside, seen, status>>

StartEmitting ==
  /\ status = "checking" /\ Len(types) > Len(Text(program))
  /\ unsafe' = IF backend = "asm" THEN Symbols ELSE ForeachValues(program)
  /\ status' = "emitting"
  /\ UNCHANGED <<program, backend, types, slot, bound, env, inside, seen>>

analyze_native_slots ==
  /\ status = "emitting"
  /\ \E symbol \in Newly(table, program) : unsafe' = unsafe \cup {symbol}
  /\ UNCHANGED <<program, backend, types, slot, bound, env, inside, seen, status>>

Run ==
  /\ status = "emitting" /\ Newly(table, program) = {}
  /\ status' = "running"
  /\ UNCHANGED <<unit, slot, bound, env, inside, seen>>

RuntimeValue == Scalar("int", 99)

Init ==
  /\ program \in Programs
  /\ backend \in Backends
  /\ types = <<[s \in Symbols |-> "unknown"]>>
  /\ unsafe = {}
  /\ slot = [s \in Symbols |-> Junk]
  /\ bound = {}
  /\ env = [n \in Names |-> IF n \in program.constants THEN RuntimeValue ELSE Unbound]
  /\ inside = FALSE
  /\ seen = Unbound
  /\ status = "seeding"

Next ==
  \/ Seed \/ HDTypeCheckProgram \/ StartEmitting \/ analyze_native_slots \/ Run
  \/ Declare \/ Assign \/ Foreach \/ Use \/ RuntimeError
  \/ Call \/ Return

Spec == Init /\ [][Next]_vars

-----------------------------------------------------------------------------
(* Properties *)

TagsOf(rep) ==
  CASE rep = "i64" -> {"int"} [] rep = "f64" -> {"float"}
    [] OTHER -> {"int", "float", "string", "array"}

(* A slot is of its C type, and one that is bound has been written. *)
TypeOK ==
  /\ status \in {"seeding", "checking", "crashed", "emitting", "running", "failed"}
  /\ bound \subseteq {s \in Symbols : has_bound_bit(s)}
  /\ \A s \in Symbols : slot[s] # Junk => slot[s].tag \in TagsOf(Rep(s))
  /\ \A s \in bound : inside \/ s \in Globals => slot[s] # Junk

(* "Prove that every value which can enter a slot has the representation   *)
(* its semantic type predicts" (emit_c.c): no value is replaced by the     *)
(* unused half of a box on its way to a slot or out of one.                *)
NothingLost ==
  /\ \A s \in Symbols : IsBound(s) /\ (inside \/ s \in Globals) => slot[s].from # Lost
  /\ seen # Unbound => seen.from # Lost

(* The programs that the C backend is right about; the assembly backend is *)
(* about all.                                                              *)
Covered == backend = "c" /\ status \in {"running", "failed"} => AllAgree

(* A value is lost only where the C backend keeps a variable natively that *)
(* an agreement is broken about: what the analysis does look at suffices.  *)
CoveredLosesNothing == Covered => NothingLost

(* Where names may only mean what is of their symbols' representations,    *)
(* whenever an expression that the analysis calls stable is evaluated, the *)
(* value it has when nothing is unboxed is of the kind foretold.           *)
Held ==
  [s \in Symbols |->
     LET leads == Leads(s) IN
     CASE leads = "own" -> slot[s]
       [] leads = "global" -> slot[global_fallback(s)]
       [] OTHER -> env[NameOf[s]]]

StableIsTyped ==
  status = "running" /\ MeaningsAgree =>
    \A i \in {j \in Statements : Executing(j)}, truth \in BOOLEAN :
      LET e == At(i).expr
          value == Eval(e, Held, i, truth)
          stable == expression_representation_is_stable(table, types[i], e) IN
      \A n \in 1..Len(e), rep \in {"i64", "f64"} :
        stable[n][rep] /\ value[n] # Error => value[n].tag \in TagsOf(rep)

(* The type pass "is intentionally non-rejecting" (docs/roadmap.md): every *)
(* program that was resolved is emitted.                                   *)
NonRejecting == status # "crashed"

Boxes == INSTANCE BoxedProgram WITH
  held <- [s \in Symbols |->
             IF IsBound(s) /\ (inside \/ s \in Globals) THEN slot[s] ELSE Unbound],
  status <- IF status = "failed" THEN "failed" ELSE "running"

(* Whatever the analysis decides, the slots, the bits and the chain of a   *)
(* load and of a store do in each step of a covered program what the       *)
(* program means, with every value boxed.  Whether a program is covered is *)
(* decided once and for all when it starts to run.                         *)
ImplementsBoxed ==
  Boxes!Init /\ [][Covered => [Boxes!Next]_(Boxes!vars)]_vars
=============================================================================
