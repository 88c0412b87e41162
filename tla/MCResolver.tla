---------------------------- MODULE MCResolver ------------------------------
(***************************************************************************)
(* Three families of programs.  The first has every way two names can be   *)
(* declared, assigned and read in up to two statements at the top level    *)
(* and up to two in a function with up to three parameters.  The second    *)
(* has every arrangement of up to six loops, ends, labels, gotos and       *)
(* breaks at the top level, beside a function with a label or a goto of    *)
(* its own.  The third has two functions that use the same names.          *)
(***************************************************************************)
EXTENDS Resolver, TLC

MCNames == {"x", "y"}

Item(k, n, i) == [kind |-> k, name |-> n, index |-> i]

Upto(items, n) == UNION {[1..k -> items] : k \in 0..n}

(* Nodes are numbered by place; equal reads side by side are one node that *)
(* the parser's desugaring of arr[i] += v reaches twice.                   *)
Shared(body, i) == i > 1 /\ body[i] = body[i - 1] /\ body[i].kind = "read"

Placed(body, first) ==
  [i \in 1..Len(body) |->
     [kind |-> body[i].kind, name |-> body[i].name, index |-> body[i].index,
      node |-> first + (IF Shared(body, i) THEN i - 1 ELSE i)]]

MCNodes == 1..30

Closed(body) == /\ \A i \in 1..Len(body) : Balance(body, i) >= 0
                /\ Balance(body, Len(body)) = 0

End == Item("end", NoName, NoName)

NameItems == {Item(k, n, NoName) : k \in {"declare", "read", "assign"}, n \in MCNames}
Foreachs2 == {<<Item("foreach", "x", i), Item(k, "y", NoName), End>> :
                i \in {NoName, "y"}, k \in {"read", "assign"}}

MainBodies == Upto({item \in NameItems : item.kind # "read"}, 2) \cup Foreachs2
              \cup {<<Item("read", "x", NoName)>>}
FunctionBodies == Upto(NameItems, 2) \cup Foreachs2

(* A parameter's default value is resolved and nothing else.               *)
Defaults(ps) == IF Len(ps) = 1 THEN <<Item("assign", "x", NoName)>> ELSE <<>>

Program(main, ps, body) ==
  [count |-> 1, params |-> <<ps>>, defaults |-> <<Placed(Defaults(ps), 20)>>,
   body |-> (0 :> Placed(main, 0)) @@ (1 :> Placed(body, 10))]

NamePrograms ==
  {Program(main, ps, body) : main \in MainBodies, body \in FunctionBodies,
                             ps \in {<<>>, <<"y">>, <<NoName, "y", "y">>}}

JumpItems == {Item("foreach", "y", NoName), Item("loop", NoName, NoName), End,
              Item("label", "x", NoName), Item("goto", "x", NoName),
              Item("break", NoName, NoName)}

JumpBodies(n) == {body \in Upto(JumpItems, n) : Closed(body)}

JumpPrograms ==
  {Program(main, <<>>, <<Item("label", "x", NoName)>>) : main \in JumpBodies(6)} \cup
  {Program(main, <<>>, <<Item("goto", "x", NoName)>>) : main \in JumpBodies(3)}

TwoBodies == {<<Item(k, "x", NoName), Item(j, "y", NoName)>> :
                k \in {"declare", "assign", "read"}, j \in {"declare", "label", "goto"}}

TwoPrograms ==
  {[count |-> 2, params |-> <<<<>>, <<"y">>>>, defaults |-> <<<<>>, <<>>>>,
    body |-> (0 :> Placed(main, 0)) @@ (1 :> Placed(one, 10)) @@ (2 :> Placed(two, 20))] :
     main \in {<<>>, <<Item("assign", "x", NoName)>>}, one \in TwoBodies, two \in TwoBodies}

MCPrograms == NamePrograms \cup JumpPrograms \cup TwoPrograms
=============================================================================
