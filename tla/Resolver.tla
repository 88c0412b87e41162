------------------------------ MODULE Resolver ------------------------------
(***************************************************************************)
(* Name resolution (src/src/resolve.c): HDResolveProgram walks the tree    *)
(* several times, once per purpose, and fills the tables every backend     *)
(* reads: symbols with their slots and fallbacks, the binding of each node,*)
(* labels and the label of each goto.                                      *)
(*                                                                         *)
(* A scope's body is the list of its nodes in the order visit_children     *)
(* reaches them.  A "foreach" or "loop" (while, for) opens a body that an  *)
(* "end" closes, so the walks of statement structure need no tree; nodes   *)
(* that name nothing are left out.  Scope 0 is the top level               *)
(* (HD_NO_FUNCTION), scopes 1.. the functions, and a symbol's owner stands *)
(* for its storage and function_index.  Symbol and label ids count from 1. *)
(* Running out of memory is left out.                                      *)
(***************************************************************************)
EXTENDS Integers, Sequences, FiniteSets, SlotTables

CONSTANTS
  Names,     \* identifiers, of variables and of labels
  NoName,    \* a parameter or a foreach index the source leaves out
  Nodes,     \* AST nodes
  NoNode,
  Programs   \* [count, body : [0..count -> items], params, defaults]

Kinds == {"declare", "read", "assign", "foreach", "loop", "end", "label", "goto", "break"}

Items == [kind : Kinds, name : Names \cup {NoName}, index : Names \cup {NoName},
          node : Nodes]

Named == {"declare", "read", "assign", "foreach", "label", "goto"}

CountOf(body, kinds, i) == Cardinality({k \in 1..i : body[k].kind \in kinds})

(* How many bodies are open after i.                                       *)
Balance(body, i) == CountOf(body, {"foreach", "loop"}, i) - CountOf(body, {"end"}, i)

(* What the parser builds: the kinds that name something do.               *)
ASSUME ProgramsAssumption ==
  /\ NoName \notin Names
  /\ NoNode \notin Nodes
  /\ \A p \in Programs :
       /\ p.count \in Nat
       /\ p.body \in [0..p.count -> Seq(Items)]
       /\ p.params \in [1..p.count -> Seq(Names \cup {NoName})]
       /\ p.defaults \in [1..p.count -> Seq(Items)]
       /\ \A s \in 0..p.count : \A i \in 1..Len(p.body[s]) :
            p.body[s][i].kind \in Named => p.body[s][i].name \in Names
       /\ \A s \in 1..p.count : \A i \in 1..Len(p.defaults[s]) :
            p.defaults[s][i].kind \in {"read", "assign"} /\ p.defaults[s][i].name \in Names

(* The nodes a scope's names are resolved at, defaults first. *)
Walked(p, s) == IF s = 0 THEN p.body[s] ELSE p.defaults[s] \o p.body[s]

(* A node that is reached more than once is so in one scope, and names the *)
(* same thing each time.                                                   *)
ASSUME NodesAssumption ==
  \A p \in Programs : \A s, t \in 0..p.count :
    \A i \in 1..Len(Walked(p, s)), j \in 1..Len(Walked(p, t)) :
      Walked(p, s)[i].node = Walked(p, t)[j].node =>
        s = t /\ Walked(p, s)[i] = Walked(p, t)[j]

(* A body that was opened is closed, and a foreach, being a statement, is  *)
(* reached once.                                                           *)
ASSUME BodiesAssumption ==
  \A p \in Programs : \A s \in 0..p.count :
    /\ \A i \in 1..Len(p.body[s]) : Balance(p.body[s], i) >= 0
    /\ Balance(p.body[s], Len(p.body[s])) = 0
    /\ \A i, j \in 1..Len(p.body[s]) :
         /\ p.body[s][i].kind = "foreach"
         /\ p.body[s][i].node = p.body[s][j].node
         => i = j

VARIABLES
  program,
  walk,         \* the pass HDResolveProgram is in
  scope,        \* the resolver's function_index
  pos,          \* the node (parameter, symbol) the pass is at
  nest,         \* the loops around that node, innermost first
  table,        \* [symbols, slots], slots counting each scope's frame
  param_slots,  \* the functions' parameter_slots
  bindings,     \* [node, role, symbol]
  labels,       \* [name, scope, foreach]
  gotos,        \* [node, label]
  had_error

vars == <<program, walk, scope, pos, nest, table, param_slots, bindings, labels,
          gotos, had_error>>

External == -1
NoSlot == -1
NoSymbol == 0

-----------------------------------------------------------------------------
(* The symbol table *)

Matches(t, n, owner) ==
  {i \in 1..Len(t.symbols) : t.symbols[i].name = n /\ t.symbols[i].owner = owner}

find_symbol(t, n, owner) ==
  IF Matches(t, n, owner) = {} THEN NoSymbol
  ELSE CHOOSE i \in Matches(t, n, owner) : \A j \in Matches(t, n, owner) : i <= j

Flagged(t, i, param) == [t EXCEPT !.symbols[i].param = @ \/ param]

NewSymbol(t, n, owner, param) ==
  [name |-> n, owner |-> owner, param |-> param, fallback |-> NoSymbol,
   slot |-> IF owner = External THEN NoSlot ELSE t.slots[owner]]

(* Mutant: the names of a function get one slot. *)
AddSymbolSameSlot(t, n, owner, param) ==
  IF find_symbol(t, n, owner) # NoSymbol
  THEN Flagged(t, find_symbol(t, n, owner), param)
  ELSE [symbols |-> Append(t.symbols, NewSymbol(t, n, owner, param)),
        slots   |-> IF owner = 0 THEN [t.slots EXCEPT ![owner] = @ + 1] ELSE t.slots]

(* A symbol a scope already has is the same symbol. *)
add_symbol(t, n, owner, param) ==
  IF find_symbol(t, n, owner) # NoSymbol
  THEN Flagged(t, find_symbol(t, n, owner), param)
  ELSE [symbols |-> Append(t.symbols, NewSymbol(t, n, owner, param)),
        slots   |-> IF owner = External THEN t.slots ELSE [t.slots EXCEPT ![owner] = @ + 1]]

scope_symbol(t, n) ==
  IF find_symbol(t, n, scope) # NoSymbol THEN find_symbol(t, n, scope)
                                         ELSE find_symbol(t, n, 0)

-----------------------------------------------------------------------------
(* The passes *)

Visited ==
  CASE walk = "params" -> program.params[scope]
    [] walk = "link" -> table.symbols
    [] walk = "resolve" -> Walked(program, scope)
    [] OTHER -> program.body[scope]

Node == Visited[pos]

Visiting(w) == walk = w /\ pos <= Len(Visited) /\ pos' = pos + 1

AfterLast == [resolve |-> "labels", labels |-> "gotos", gotos |-> "loops", loops |-> "done"]

(* A function's names are collected in three passes before the next        *)
(* function's; every other pass covers all scopes.                         *)
NextWalk ==
  CASE walk = "params" -> [walk |-> "explicit", scope |-> scope]
    [] walk = "explicit" -> [walk |-> "implicit", scope |-> scope]
    [] walk = "implicit" /\ scope < program.count -> [walk |-> "params", scope |-> scope + 1]
    [] walk = "implicit" /\ scope = program.count -> [walk |-> "link", scope |-> 0]
    [] walk = "link" -> [walk |-> "resolve", scope |-> 0]
    [] OTHER -> IF scope < program.count THEN [walk |-> walk, scope |-> scope + 1]
                ELSE [walk |-> AfterLast[walk], scope |-> 0]

EndWalk ==
  /\ walk # "done"
  /\ pos > Len(Visited)
  /\ walk' = NextWalk.walk
  /\ scope' = NextWalk.scope
  /\ pos' = 1
  /\ nest' = <<>>
  /\ UNCHANGED <<program, table, param_slots, bindings, labels, gotos, had_error>>

CollectExplicit ==
  /\ Visiting("explicit")
  /\ LET value == add_symbol(table, Node.name, scope, FALSE) IN
     table' = IF Node.kind \notin {"declare", "foreach"} THEN table
              ELSE IF Node.index = NoName THEN value
              ELSE add_symbol(value, Node.index, scope, FALSE)
  /\ UNCHANGED <<program, walk, scope, nest, param_slots, bindings, labels, gotos, had_error>>

(* Mutant: an assignment never looks past its own scope. *)
CollectImplicitOwn ==
  /\ Visiting("implicit")
  /\ table' = IF Node.kind = "assign" THEN add_symbol(table, Node.name, scope, FALSE) ELSE table
  /\ UNCHANGED <<program, walk, scope, nest, param_slots, bindings, labels, gotos, had_error>>

CollectImplicit ==
  /\ Visiting("implicit")
  /\ table' = IF Node.kind = "assign" /\ scope_symbol(table, Node.name) = NoSymbol
              THEN add_symbol(table, Node.name, scope, FALSE) ELSE table
  /\ UNCHANGED <<program, walk, scope, nest, param_slots, bindings, labels, gotos, had_error>>

(* Mutant: the slot of a parameter is its position. *)
AddParameterByPosition ==
  /\ Visiting("params")
  /\ table' = IF Node = NoName THEN table ELSE add_symbol(table, Node, scope, TRUE)
  /\ param_slots' = [param_slots EXCEPT ![scope] = Append(@, pos - 1)]
  /\ UNCHANGED <<program, walk, scope, nest, bindings, labels, gotos, had_error>>

AddParameter ==
  /\ Visiting("params")
  /\ table' = IF Node = NoName THEN table ELSE add_symbol(table, Node, scope, TRUE)
  /\ param_slots' = [param_slots EXCEPT ![scope] = Append(@,
       IF Node = NoName THEN NoSlot
       ELSE table'.symbols[find_symbol(table', Node, scope)].slot)]
  /\ UNCHANGED <<program, walk, scope, nest, bindings, labels, gotos, had_error>>

(* Mutant: a global looks for a global, and finds itself. *)
LinkFallbackToSelf ==
  LET symbol == table.symbols[pos]
      global == find_symbol(table, symbol.name, 0) IN
  /\ Visiting("link")
  /\ table' = IF symbol.owner = External \/ symbol.param THEN table
              ELSE [table EXCEPT !.symbols[pos].fallback = global]
  /\ UNCHANGED <<program, walk, scope, nest, param_slots, bindings, labels, gotos, had_error>>

(* Mutant: the external symbol is taken to be the newest one. *)
LinkFallbackNewest ==
  LET symbol == table.symbols[pos]
      global == IF symbol.owner > 0 THEN find_symbol(table, symbol.name, 0) ELSE NoSymbol
      linked == IF global = NoSymbol THEN add_symbol(table, symbol.name, External, FALSE)
                ELSE table IN
  /\ Visiting("link")
  /\ table' = IF symbol.owner = External \/ symbol.param THEN table
              ELSE [linked EXCEPT !.symbols[pos].fallback =
                      IF global = NoSymbol THEN Len(table.symbols) + 1 ELSE global]
  /\ UNCHANGED <<program, walk, scope, nest, param_slots, bindings, labels, gotos, had_error>>

(* Externals are appended to the list this pass goes through. *)
LinkFallback ==
  LET symbol == table.symbols[pos]
      global == IF symbol.owner > 0 THEN find_symbol(table, symbol.name, 0) ELSE NoSymbol
      linked == IF global = NoSymbol THEN add_symbol(table, symbol.name, External, FALSE)
                ELSE table IN
  /\ Visiting("link")
  /\ table' = IF symbol.owner = External \/ symbol.param THEN table
              ELSE [linked EXCEPT !.symbols[pos].fallback =
                      IF global = NoSymbol THEN find_symbol(linked, symbol.name, External)
                      ELSE global]
  /\ UNCHANGED <<program, walk, scope, nest, param_slots, bindings, labels, gotos, had_error>>

resolve_name(t, n) ==
  IF scope_symbol(t, n) # NoSymbol THEN scope_symbol(t, n) ELSE find_symbol(t, n, External)

add_binding(role, symbol) ==
  IF symbol = NoSymbol THEN <<>> ELSE <<[node |-> Node.node, role |-> role, symbol |-> symbol]>>

ResolveNode ==
  /\ Visiting("resolve")
  /\ table' = IF Node.kind \in {"read", "assign"} /\ scope_symbol(table, Node.name) = NoSymbol
              THEN add_symbol(table, Node.name, External, FALSE) ELSE table
  /\ bindings' = bindings \o
       CASE Node.kind = "declare" -> add_binding("declaration", scope_symbol(table, Node.name))
         [] Node.kind = "read" -> add_binding("read", resolve_name(table', Node.name))
         [] Node.kind = "assign" -> add_binding("write", resolve_name(table', Node.name))
         [] Node.kind = "foreach" ->
              add_binding("foreach-value", scope_symbol(table, Node.name)) \o
              (IF Node.index = NoName THEN <<>>
               ELSE add_binding("foreach-index", scope_symbol(table, Node.index)))
         [] OTHER -> <<>>
  /\ UNCHANGED <<program, walk, scope, nest, param_slots, labels, gotos, had_error>>

-----------------------------------------------------------------------------
(* Labels, gotos and loops *)

Descend ==
  nest' = IF Node.kind \in {"foreach", "loop"} THEN <<Node>> \o nest
          ELSE IF Node.kind = "end" THEN Tail(nest) ELSE nest

Foreachs == {i \in 1..Len(nest) : nest[i].kind = "foreach"}

enclosing_foreach ==
  IF Foreachs = {} THEN NoNode
  ELSE nest[CHOOSE i \in Foreachs : \A j \in Foreachs : i <= j].node

foreach_encloses(node) == \E i \in Foreachs : nest[i].node = node

(* After an error every visit that is left returns at once. *)
resolution_error == had_error' = TRUE /\ walk' = "done"

find_label(n) == {l \in 1..Len(labels) : labels[l].scope = scope /\ labels[l].name = n}

CollectLabel ==
  /\ Visiting("labels")
  /\ Descend
  /\ IF Node.kind = "label" /\ find_label(Node.name) # {}
     THEN resolution_error /\ UNCHANGED labels
     ELSE /\ labels' = IF Node.kind # "label" THEN labels
                       ELSE Append(labels, [name |-> Node.name, scope |-> scope,
                                            foreach |-> enclosing_foreach])
          /\ UNCHANGED <<walk, had_error>>
  /\ UNCHANGED <<program, scope, table, param_slots, bindings, gotos>>

(* Mutant: the label's innermost foreach is compared with the goto's only. *)
MayJumpInnermost(l) == labels[l].foreach = enclosing_foreach

MayJump(l) == labels[l].foreach = NoNode \/ foreach_encloses(labels[l].foreach)

BindGoto ==
  /\ Visiting("gotos")
  /\ Descend
  /\ IF Node.kind # "goto" THEN UNCHANGED <<gotos, walk, had_error>>
     ELSE \/ /\ \E l \in find_label(Node.name) :
                  MayJump(l) /\ gotos' = Append(gotos, [node |-> Node.node, label |-> l])
             /\ UNCHANGED <<walk, had_error>>
          \/ /\ \A l \in find_label(Node.name) : ~MayJump(l)
             /\ resolution_error
             /\ UNCHANGED gotos
  /\ UNCHANGED <<program, scope, table, param_slots, bindings, labels>>

CheckLoop ==
  /\ Visiting("loops")
  /\ Descend
  /\ IF Node.kind = "break" /\ nest = <<>> THEN resolution_error
                                          ELSE UNCHANGED <<walk, had_error>>
  /\ UNCHANGED <<program, scope, table, param_slots, bindings, labels, gotos>>

Init ==
  /\ program \in Programs
  /\ walk = "explicit"
  /\ scope = 0
  /\ pos = 1
  /\ nest = <<>>
  /\ table = [symbols |-> <<>>, slots |-> [s \in 0..program.count |-> 0]]
  /\ param_slots = [f \in 1..program.count |-> <<>>]
  /\ bindings = <<>>
  /\ labels = <<>>
  /\ gotos = <<>>
  /\ had_error = FALSE

Next ==
  \/ CollectExplicit \/ CollectImplicit \/ AddParameter \/ LinkFallback
  \/ ResolveNode \/ CollectLabel \/ BindGoto \/ CheckLoop
  \/ EndWalk

Spec == Init /\ [][Next]_vars

-----------------------------------------------------------------------------
(* What the tables should say, read off the program *)

Collected == walk \in {"link", "resolve", "labels", "gotos", "loops", "done"}
Linked == Collected /\ walk # "link"
Resolved == Linked /\ walk # "resolve"

At(s, i) == program.body[s][i]

IsParam(s, n) ==
  s # 0 /\ \E i \in 1..Len(program.params[s]) : program.params[s][i] = n

Declares(s, n) ==
  \/ IsParam(s, n)
  \/ \E i \in 1..Len(program.body[s]) :
       At(s, i).kind \in {"declare", "foreach"} /\ n \in {At(s, i).name, At(s, i).index}

Assigns(s, n) == \E i \in 1..Len(program.body[s]) : At(s, i).kind = "assign" /\ At(s, i).name = n

Owns(s, n) == Declares(s, n) \/ (Assigns(s, n) /\ (s = 0 \/ ~(Declares(0, n) \/ Assigns(0, n))))

Owner(s, n) == IF Owns(s, n) THEN s ELSE IF Owns(0, n) THEN 0 ELSE External

RolesOf(item) ==
  CASE item.kind = "declare" -> {"declaration"}
    [] item.kind = "read" -> {"read"}
    [] item.kind = "assign" -> {"write"}
    [] item.kind = "foreach" -> {"foreach-value"} \cup
                                (IF item.index = NoName THEN {} ELSE {"foreach-index"})
    [] OTHER -> {}

NameIn(item, role) == IF role = "foreach-index" THEN item.index ELSE item.name

(* The body that j opens holds i. *)
Encloses(s, j, i) ==
  /\ j < i
  /\ At(s, j).kind \in {"foreach", "loop"}
  /\ \A k \in j..i : Balance(program.body[s], k) >= Balance(program.body[s], j)

Positions(s, kind) == {i \in 1..Len(program.body[s]) : At(s, i).kind = kind}

LabelTwice(s) ==
  \E i, j \in Positions(s, "label") : i # j /\ At(s, i).name = At(s, j).name

(* A goto to nowhere, or into a foreach that it is not inside of itself.   *)
GotoAstray(s) ==
  \E g \in Positions(s, "goto") :
    \A l \in Positions(s, "label") :
      At(s, l).name = At(s, g).name =>
        \E j \in Positions(s, "foreach") : Encloses(s, j, l) /\ ~Encloses(s, j, g)

BreakAstray(s) ==
  \E b \in Positions(s, "break") : \A j \in 1..Len(program.body[s]) : ~Encloses(s, j, b)

-----------------------------------------------------------------------------
(* Properties *)

Scopes == 0..program.count

Symbols ==
  [name : Names, owner : External..program.count, slot : Int, param : BOOLEAN,
   fallback : 0..Len(table.symbols)]

(* The shape of the tables; ids refer to entries that exist. *)
TypeOK ==
  /\ walk \in {"params", "explicit", "implicit", "link", "resolve", "labels", "gotos",
              "loops", "done"}
  /\ scope \in Scopes
  /\ table.symbols \in Seq(Symbols)
  /\ table.slots \in [Scopes -> Nat]
  /\ param_slots \in [1..program.count -> Seq(Int)]
  /\ \A i \in 1..Len(bindings) : bindings[i].symbol \in 1..Len(table.symbols)
  /\ \A i \in 1..Len(gotos) : gotos[i].label \in 1..Len(labels)

NamesOf(s) == {n \in Names : find_symbol(table, n, s) # NoSymbol}

SlotOf(s) ==
  [n \in Names |-> IF n \in NamesOf(s) THEN table.symbols[find_symbol(table, n, s)].slot
                   ELSE NoSlot]

(* What SlotFrames assumes: the names a scope owns, which are those the    *)
(* program gives it wherever in the scope they appear, have slots of its   *)
(* frame, each its own, and no slot is without a name.                     *)
TablesFitFrames ==
  Collected =>
    \A s \in Scopes :
      /\ NamesOf(s) = {n \in Names : Owns(s, n)}
      /\ FrameFits(NamesOf(s), SlotOf(s), table.slots[s])
      /\ \A slot \in 0..table.slots[s] - 1 : \E n \in NamesOf(s) : SlotOf(s)[n] = slot

(* A call may fill the slots param_slots names: that of the parameter's    *)
(* name, whoever else has that name, and none for a parameter without one. *)
ParametersHaveSlots ==
  Collected =>
    \A f \in 1..program.count :
      /\ Len(param_slots[f]) = Len(program.params[f])
      /\ \A i \in 1..Len(param_slots[f]) :
           param_slots[f][i] = IF program.params[f][i] = NoName THEN NoSlot
                               ELSE SlotOf(f)[program.params[f][i]]

(* "This makes source order irrelevant to identity": each node that names  *)
(* something is bound, and to the symbol of the innermost scope that owns  *)
(* the name anywhere in its text; a node reached twice is bound alike.     *)
BindingsFollowScope ==
  Resolved =>
    \A s \in Scopes : \A i \in 1..Len(program.body[s]) : \A role \in RolesOf(At(s, i)) :
      LET mine == {b \in 1..Len(bindings) : /\ bindings[b].node = At(s, i).node
                                            /\ bindings[b].role = role} IN
      /\ mine # {}
      /\ \A b \in mine :
           /\ table.symbols[bindings[b].symbol].name = NameIn(At(s, i), role)
           /\ table.symbols[bindings[b].symbol].owner = Owner(s, NameIn(At(s, i), role))

(* "A local falls back to a global of the same name and then to the        *)
(* runtime-provided name ... Parameters ... have no fallback": the links   *)
(* lead outwards, keep the name, skip no scope and end.                    *)
FallbacksLeadOut ==
  Linked =>
    \A i \in 1..Len(table.symbols) :
      LET symbol == table.symbols[i]
          next   == table.symbols[symbol.fallback] IN
      IF symbol.owner = External \/ IsParam(symbol.owner, symbol.name)
      THEN symbol.fallback = NoSymbol
      ELSE /\ symbol.fallback # NoSymbol
           /\ next.name = symbol.name
           /\ next.owner = IF symbol.owner > 0 /\ Owns(0, symbol.name) THEN 0 ELSE External

(* A program is refused exactly when a scope has a label twice, a goto     *)
(* without a label or into a foreach body from outside it (which would     *)
(* skip the loop counter), or a break without a loop.                      *)
RefusesExactly ==
  walk = "done" =>
    (had_error <=> \E s \in Scopes : LabelTwice(s) \/ GotoAstray(s) \/ BreakAstray(s))
=============================================================================
