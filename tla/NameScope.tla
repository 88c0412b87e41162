------------------------------ MODULE NameScope ------------------------------
(***************************************************************************)
(* What a HolyD program is promised about its names, whichever backend     *)
(* runs it (src/src/resolve.h, the comment on fallback_id): a declaration  *)
(* takes effect when execution reaches it, not before; until then the name *)
(* means whatever the enclosing scope means by it.  There are no slots, no *)
(* active bits and no environments here: a scope is a partial map from     *)
(* names to values, and every activation of a function has one of its own. *)
(*                                                                         *)
(* SlotFrames (the bytecode VM) is shown to implement this module.         *)
(***************************************************************************)
EXTENDS Naturals, Sequences

CONSTANTS
  Names,      \* the identifiers of the program
  Temps,      \* the names the foreach lowering invents ("$foreach_0_index")
  Functions,  \* the functions of the program
  Params,     \* [Functions -> Seq(Names \cup {NoName})], the parameter lists
  Locals,     \* [Functions -> SUBSET Names], the names a function declares
  Globals,    \* the names the top level declares or assigns
  RuntimeConstants, \* the names the runtime defines before the program starts
  RuntimeValue,     \* [RuntimeConstants -> Values]
  Values,     \* what a variable can hold
  NoName,     \* a parameter the source leaves unnamed
  Unbound,    \* the meaning of a name that no scope binds
  MaxDepth    \* bound on the activations alive at once

VARIABLES
  top,        \* [Names \cup Temps -> value or Unbound], the top-level scope
  runtime,    \* [Names -> value or Unbound], what the runtime itself defines
  calls,      \* the activations, outermost first: [fn, scope]
  seen,       \* the value the last read produced
  status      \* "running", "failed" (a runtime error) or "done"

scopeVars == <<top, runtime, calls, seen, status>>

EmptyScope == [n \in Names \cup Temps |-> Unbound]

InCall == calls # <<>>
Current == calls[Len(calls)]

(* The names the scope being executed owns.  A function that only assigns  *)
(* a name the top level declares does not own it.                          *)
OwnNames == IF InCall THEN Locals[Current.fn] ELSE Globals

(* What a name means at this moment: the innermost scope that has bound it *)
(* so far, then the top level, then the runtime.                           *)
Meaning(n) ==
  IF InCall /\ Current.scope[n] # Unbound THEN Current.scope[n]
  ELSE IF top[n] # Unbound THEN top[n]
  ELSE runtime[n]

InScope(f, n) == [calls EXCEPT ![Len(calls)].scope[f] = n]

(* Bind a name in the scope that owns it. *)
BindOwn(n, v) ==
  IF InCall /\ n \in Locals[Current.fn] \cup Temps
  THEN calls' = InScope(n, v) /\ UNCHANGED top
  ELSE top' = [top EXCEPT ![n] = v] /\ UNCHANGED calls

Init ==
  /\ top = EmptyScope
  /\ runtime = [n \in Names |-> IF n \in RuntimeConstants
                                THEN RuntimeValue[n] ELSE Unbound]
  /\ calls = <<>>
  /\ seen = Unbound
  /\ status = "running"

(* Reading a name that means nothing is an error that ends the run. *)
Read(n) ==
  /\ status = "running"
  /\ IF Meaning(n) # Unbound
     THEN seen' = Meaning(n) /\ UNCHANGED status
     ELSE status' = "failed" /\ UNCHANGED seen
  /\ UNCHANGED <<top, runtime, calls>>

(* A declaration binds the name in the scope it is written in. *)
Declare(n, v) ==
  /\ status = "running"
  /\ n \in OwnNames
  /\ BindOwn(n, v)
  /\ UNCHANGED <<runtime, seen, status>>

(* An assignment writes the binding a read would have found, and makes a   *)
(* new one, in the scope that owns the name, only when there is none.      *)
Assign(n, v) ==
  /\ status = "running"
  /\ n \in Globals \/ n \in OwnNames
  /\ \/ /\ InCall /\ Current.scope[n] # Unbound
        /\ calls' = InScope(n, v)
        /\ UNCHANGED <<top, runtime>>
     \/ /\ ~(InCall /\ Current.scope[n] # Unbound)
        /\ top[n] # Unbound
        /\ top' = [top EXCEPT ![n] = v]
        /\ UNCHANGED <<runtime, calls>>
     \/ /\ ~(InCall /\ Current.scope[n] # Unbound)
        /\ top[n] = Unbound
        /\ runtime[n] # Unbound
        /\ runtime' = [runtime EXCEPT ![n] = v]
        /\ UNCHANGED <<top, calls>>
     \/ /\ Meaning(n) = Unbound
        /\ BindOwn(n, v)
        /\ UNCHANGED runtime
  /\ UNCHANGED <<seen, status>>

(* The hidden variables of a foreach belong to the activation that runs    *)
(* the loop and to nobody else.                                            *)
TempValue(t) == IF InCall THEN Current.scope[t] ELSE top[t]

ReadTemp(t) ==
  /\ status = "running"
  /\ IF TempValue(t) # Unbound
     THEN seen' = TempValue(t) /\ UNCHANGED status
     ELSE status' = "failed" /\ UNCHANGED seen
  /\ UNCHANGED <<top, runtime, calls>>

WriteTemp(t, v) ==
  /\ status = "running"
  /\ BindOwn(t, v)
  /\ UNCHANGED <<runtime, seen, status>>

(* A call binds the parameters, the last of two with the same name         *)
(* winning, and nothing else.                                              *)
BoundParam(f, n) == \E i \in 1..Len(Params[f]) : Params[f][i] = n

LastParam(f, n) ==
  CHOOSE i \in 1..Len(Params[f]) :
    /\ Params[f][i] = n
    /\ \A j \in 1..Len(Params[f]) : Params[f][j] = n => j <= i

Entered(f, args) ==
  [fn |-> f,
   scope |-> [n \in Names \cup Temps |->
                IF BoundParam(f, n) THEN args[LastParam(f, n)] ELSE Unbound]]

Enter(f, args) ==
  /\ status = "running"
  /\ Len(calls) < MaxDepth
  /\ calls' = Append(calls, Entered(f, args))
  /\ UNCHANGED <<top, runtime, seen, status>>

(* Leaving an activation forgets its scope; leaving the top level ends the *)
(* run.                                                                    *)
Leave ==
  /\ status = "running"
  /\ IF InCall
     THEN calls' = SubSeq(calls, 1, Len(calls) - 1) /\ UNCHANGED status
     ELSE status' = "done" /\ UNCHANGED calls
  /\ UNCHANGED <<top, runtime, seen>>

(* Any other runtime error. *)
Fail ==
  /\ status = "running"
  /\ status' = "failed"
  /\ UNCHANGED <<top, runtime, calls, seen>>

Next ==
  \/ \E n \in Names : Read(n)
  \/ \E n \in Names, v \in Values : Declare(n, v) \/ Assign(n, v)
  \/ \E t \in Temps : ReadTemp(t)
  \/ \E t \in Temps, v \in Values : WriteTemp(t, v)
  \/ \E f \in Functions : \E args \in [1..Len(Params[f]) -> Values] : Enter(f, args)
  \/ Leave
  \/ Fail

Spec == Init /\ [][Next]_scopeVars
=============================================================================
