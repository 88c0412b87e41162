----------------------------- MODULE SlotFrames -----------------------------
(***************************************************************************)
(* How the bytecode VM (src/src/compiler.c) keeps variables: the globals   *)
(* live in one frame of slots for the whole run, every call gets a frame   *)
(* of its own on the C stack, a slot counts only while its active byte is  *)
(* set, and what no slot answers is looked up by name in an Environment    *)
(* chain (src/src/eval.c) that holds the runtime's constants and the       *)
(* hidden variables of foreach.                                            *)
(*                                                                         *)
(* An action is one variable opcode, a call or a return, with the decision *)
(* emit_variable took about it when it compiled the name.  The program is  *)
(* any sequence of such instructions, and the operand stack is abstracted: *)
(* an instruction that pops gets any value, one that pushes leaves its     *)
(* value in "seen".                                                        *)
(***************************************************************************)
EXTENDS Integers, Sequences, SlotTables

CONSTANTS
  Names, Temps, Functions, Params, Locals, Globals, RuntimeConstants,
  RuntimeValue, Values, NoName, Unbound, MaxDepth,  \* as in NameScope
  MainTemps,    \* the foreach names the top-level chunk uses
  TempsOf,      \* [Functions -> SUBSET Temps], those of each function's chunk
  GlobalSlot,   \* [Names -> Int], the slot of a name with a global symbol
  GlobalCount,  \* program->global_slot_count
  LocalSlot,    \* [Functions -> [Names -> Int]], slots in a call's frame
  FrameCount,   \* [Functions -> Nat], fn->frame_slot_count
  Junk          \* what an uninitialised HDValue holds

NoSlot == -1
EnvNames == Names \cup Temps

(* The resolver's tables: every name of a scope has a slot of the frame and *)
(* no two share one; the lowering never gives two chunks the same temporary.*)
ASSUME ValuesAssumption ==
  /\ Unbound \notin Values
  /\ Junk \notin Values
  /\ Junk # Unbound
  /\ NoName \notin Names \cup Temps
  /\ MaxDepth \in Nat

ASSUME ScopeAssumption ==
  /\ Names \cap Temps = {}
  /\ Globals \subseteq Names
  /\ RuntimeConstants \subseteq Names
  /\ RuntimeValue \in [RuntimeConstants -> Values]
  /\ Params \in [Functions -> Seq(Names \cup {NoName})]
  /\ Locals \in [Functions -> SUBSET Names]
  /\ \A f \in Functions : \A i \in 1..Len(Params[f]) :
        Params[f][i] \in Locals[f] \cup {NoName}

ASSUME TempAssumption ==
  /\ MainTemps \subseteq Temps
  /\ TempsOf \in [Functions -> SUBSET Temps]
  /\ \A f \in Functions : TempsOf[f] \cap MainTemps = {}

ASSUME SlotAssumption ==
  /\ GlobalSlot \in [Names -> Int]
  /\ LocalSlot \in [Functions -> [Names -> Int]]
  /\ FrameCount \in [Functions -> Nat]
  /\ FrameFits(Globals, GlobalSlot, GlobalCount)
  /\ \A f \in Functions : FrameFits(Locals[f], LocalSlot[f], FrameCount[f])

VARIABLES
  globalFrame,  \* vm.global_frame: [slots, active]
  globals,      \* the Environment HDRunProgram creates
  frames,       \* the activations, outermost first: [fn, frame, local]
  seen,         \* the value the last load pushed
  status        \* "running", "failed" or "done"

vars == <<globalFrame, globals, frames, seen, status>>

InCall == frames # <<>>
Current == frames[Len(frames)]

EmptyEnv == [n \in EnvNames |-> Unbound]

(* malloc and the C stack do not clear slots; only the active bytes are. *)
FreshFrame(count) ==
  [slots  |-> [s \in 0..count - 1 |-> Junk],
   active |-> [s \in 0..count - 1 |-> FALSE]]

FrameHolds(frame, slot) == slot \in DOMAIN frame.slots
(* Mutant: reading a slot without looking at its active byte. *)
FrameActiveUnchecked(frame, slot) == FrameHolds(frame, slot)

FrameActive(frame, slot) == FrameHolds(frame, slot) /\ frame.active[slot]

-----------------------------------------------------------------------------
(* What the compiler decided about a name (emit_variable, fallback_slot).  *)

IsParam(f, n) == \E i \in 1..Len(Params[f]) : Params[f][i] = n

IsLocal(n) == InCall /\ n \in Locals[Current.fn]

Operand(n) == IF IsLocal(n) THEN LocalSlot[Current.fn][n] ELSE GlobalSlot[n]

(* Mutant: the resolver never linked the fallbacks. *)
FallbackUnlinked(n) == NoSlot

(* A local falls back to the global of the same name.  A parameter is      *)
(* active from entry and has no fallback; a global has only its name.      *)
Fallback(n) ==
  IF IsLocal(n) /\ n \in Globals /\ ~IsParam(Current.fn, n)
  THEN GlobalSlot[n] ELSE NoSlot

Own(n) == IF IsLocal(n) THEN Current.frame ELSE globalFrame

HasSymbol(n) == IsLocal(n) \/ n \in Globals

ChunkTemps == IF InCall THEN TempsOf[Current.fn] ELSE MainTemps

-----------------------------------------------------------------------------
(* The Environment chain: a call's own, then the program's. *)

EnvGet(n) == IF InCall /\ Current.local[n] # Unbound
             THEN Current.local[n] ELSE globals[n]

(* Mutant: every chunk defines its temporaries in the program's Environment.*)
EnvDefineGlobally(n, v) ==
  /\ globals' = [globals EXCEPT ![n] = v]
  /\ UNCHANGED frames

EnvDefine(n, v) ==
  IF InCall
  THEN /\ frames' = [frames EXCEPT ![Len(frames)].local[n] = v]
       /\ UNCHANGED globals
  ELSE /\ globals' = [globals EXCEPT ![n] = v]
       /\ UNCHANGED frames

EnvSet(n, v) ==
  IF (InCall => Current.local[n] = Unbound) /\ globals[n] # Unbound
  THEN /\ globals' = [globals EXCEPT ![n] = v]
       /\ UNCHANGED frames
  ELSE EnvDefine(n, v)

-----------------------------------------------------------------------------
(* BC_LOCAL_LOAD, BC_GLOBAL_LOAD, BC_VARIABLE_LOAD *)

Found(n) ==
  IF HasSymbol(n) /\ FrameActive(Own(n), Operand(n))
  THEN Own(n).slots[Operand(n)]
  ELSE IF HasSymbol(n) /\ FrameActive(globalFrame, Fallback(n))
  THEN globalFrame.slots[Fallback(n)]
  ELSE EnvGet(n)

Load(n) ==
  /\ status = "running"
  /\ IF Found(n) # Unbound
     THEN seen' = Found(n) /\ UNCHANGED status
     ELSE status' = "failed" /\ UNCHANGED seen
  /\ UNCHANGED <<globalFrame, globals, frames>>

-----------------------------------------------------------------------------
(* BC_LOCAL_DEFINE, BC_GLOBAL_DEFINE *)

Put(frame, slot, v) ==
  [slots  |-> [frame.slots EXCEPT ![slot] = v],
   active |-> [frame.active EXCEPT ![slot] = TRUE]]

WriteOwn(n, v) ==
  IF IsLocal(n)
  THEN /\ frames' = [frames EXCEPT ![Len(frames)].frame = Put(@, Operand(n), v)]
       /\ UNCHANGED globalFrame
  ELSE /\ globalFrame' = Put(globalFrame, Operand(n), v)
       /\ UNCHANGED frames

(* A declaration is compiled in the scope that owns the name. *)
Define(n, v) ==
  /\ status = "running"
  /\ IF InCall THEN IsLocal(n) ELSE n \in Globals
  /\ IF FrameHolds(Own(n), Operand(n))
     THEN WriteOwn(n, v) /\ UNCHANGED status
     ELSE status' = "failed" /\ UNCHANGED <<globalFrame, frames>>
  /\ UNCHANGED <<globals, seen>>

(* BC_LOCAL_STORE, BC_GLOBAL_STORE *)
StoreActive(n, v) ==
  /\ FrameActive(Own(n), Operand(n))
  /\ WriteOwn(n, v)
  /\ UNCHANGED <<globals, status>>

(* Mutant: a store to a local that is not bound yet binds it. *)
StoreFallbackShadows(n, v) ==
  /\ ~FrameActive(Own(n), Operand(n))
  /\ FrameActive(globalFrame, Fallback(n))
  /\ WriteOwn(n, v)
  /\ UNCHANGED <<globals, status>>

StoreFallback(n, v) ==
  /\ ~FrameActive(Own(n), Operand(n))
  /\ FrameActive(globalFrame, Fallback(n))
  /\ globalFrame' = [globalFrame EXCEPT !.slots[Fallback(n)] = v]
  /\ UNCHANGED <<globals, frames, status>>

StoreByName(n, v) ==
  /\ ~FrameActive(Own(n), Operand(n))
  /\ ~FrameActive(globalFrame, Fallback(n))
  /\ EnvGet(n) # Unbound
  /\ EnvSet(n, v)
  /\ UNCHANGED <<globalFrame, status>>

StoreNew(n, v) ==
  /\ ~FrameActive(Own(n), Operand(n))
  /\ ~FrameActive(globalFrame, Fallback(n))
  /\ EnvGet(n) = Unbound
  /\ IF FrameHolds(Own(n), Operand(n))
     THEN WriteOwn(n, v) /\ UNCHANGED status
     ELSE status' = "failed" /\ UNCHANGED <<globalFrame, frames>>
  /\ UNCHANGED globals

Store(n, v) ==
  /\ status = "running"
  /\ HasSymbol(n)
  /\ \/ StoreActive(n, v)
     \/ StoreFallback(n, v)
     \/ StoreByName(n, v)
     \/ StoreNew(n, v)
  /\ UNCHANGED seen

-----------------------------------------------------------------------------
(* BC_VARIABLE_LOAD, _DEFINE and _STORE on the names the foreach lowering  *)
(* invents, which the resolver never saw.                                  *)

LoadTemp(t) ==
  /\ status = "running"
  /\ t \in ChunkTemps
  /\ IF EnvGet(t) # Unbound
     THEN seen' = EnvGet(t) /\ UNCHANGED status
     ELSE status' = "failed" /\ UNCHANGED seen
  /\ UNCHANGED <<globalFrame, globals, frames>>

DefineTemp(t, v) ==
  /\ status = "running"
  /\ t \in ChunkTemps
  /\ EnvDefine(t, v)
  /\ UNCHANGED <<globalFrame, seen, status>>

StoreTemp(t, v) ==
  /\ status = "running"
  /\ t \in ChunkTemps
  /\ EnvSet(t, v)
  /\ UNCHANGED <<globalFrame, seen, status>>

-----------------------------------------------------------------------------
(* call_function and BC_FUNCTION_RETURN *)

(* fn->param_slots[i], -1 for a parameter without a name. *)
ParamSlot(f, i) == IF Params[f][i] = NoName THEN NoSlot
                   ELSE LocalSlot[f][Params[f][i]]

IsParamSlot(f, s) == \E i \in 1..Len(Params[f]) : ParamSlot(f, i) = s

(* The arguments are written in order, so of two parameters that share a   *)
(* slot the later one stays.                                               *)
LastWriter(f, s) ==
  CHOOSE i \in 1..Len(Params[f]) :
    /\ ParamSlot(f, i) = s
    /\ \A j \in 1..Len(Params[f]) : ParamSlot(f, j) = s => j <= i

(* Mutants: the active bytes set for the whole frame, or for none of it. *)
EntrySlots(f, args) ==
  [s \in 0..FrameCount[f] - 1 |-> IF IsParamSlot(f, s) THEN args[LastWriter(f, s)] ELSE Junk]
EntryFrameAllActive(f, args) ==
  [slots  |-> EntrySlots(f, args), active |-> [s \in 0..FrameCount[f] - 1 |-> TRUE]]
EntryFrameUnmarked(f, args) ==
  [slots  |-> EntrySlots(f, args), active |-> [s \in 0..FrameCount[f] - 1 |-> FALSE]]

EntryFrame(f, args) ==
  LET fresh == FreshFrame(FrameCount[f]) IN
  [slots  |-> [s \in DOMAIN fresh.slots |->
                 IF IsParamSlot(f, s) THEN args[LastWriter(f, s)]
                                      ELSE fresh.slots[s]],
   active |-> [s \in DOMAIN fresh.active |-> IsParamSlot(f, s)]]

(* The new Environment's parent is the program's, not the caller's. *)
Call(f, args) ==
  /\ status = "running"
  /\ Len(frames) < MaxDepth
  /\ frames' = Append(frames, [fn |-> f, frame |-> EntryFrame(f, args),
                               local |-> EmptyEnv])
  /\ UNCHANGED <<globalFrame, globals, seen, status>>

Return ==
  /\ status = "running"
  /\ IF InCall
     THEN frames' = SubSeq(frames, 1, Len(frames) - 1) /\ UNCHANGED status
     ELSE status' = "done" /\ UNCHANGED frames
  /\ UNCHANGED <<globalFrame, globals, seen>>

(* Every other way an instruction ends the run: an arity mismatch, an      *)
(* unknown function, an operator error, the operand stack's limits, memory.*)
Fault ==
  /\ status = "running"
  /\ status' = "failed"
  /\ UNCHANGED <<globalFrame, globals, frames, seen>>

Init ==
  /\ globalFrame = FreshFrame(GlobalCount)
  /\ globals = [n \in EnvNames |-> IF n \in RuntimeConstants
                                   THEN RuntimeValue[n] ELSE Unbound]
  /\ frames = <<>>
  /\ seen = Unbound
  /\ status = "running"

Next ==
  \/ \E n \in Names : Load(n)
  \/ \E n \in Names, v \in Values : Define(n, v) \/ Store(n, v)
  \/ \E t \in Temps : LoadTemp(t)
  \/ \E t \in Temps, v \in Values : DefineTemp(t, v) \/ StoreTemp(t, v)
  \/ \E f \in Functions : \E args \in [1..Len(Params[f]) -> Values] : Call(f, args)
  \/ Return
  \/ Fault

Spec == Init /\ [][Next]_vars

-----------------------------------------------------------------------------
(* Properties *)

FrameOf(count) ==
  [slots : [0..count - 1 -> Values \cup {Junk}], active : [0..count - 1 -> BOOLEAN]]

EnvOf == [EnvNames -> Values \cup {Unbound}]

Activation(f) == [fn : {f}, frame : FrameOf(FrameCount[f]), local : EnvOf]

(* The shape of the VM's state.  Of "seen" it says that no load ever       *)
(* pushes what an uninitialised slot holds.                                *)
TypeOK ==
  /\ globalFrame \in FrameOf(GlobalCount)
  /\ globals \in EnvOf
  /\ frames \in Seq(UNION {Activation(f) : f \in Functions})
  /\ seen \in Values \cup {Unbound}
  /\ status \in {"running", "failed", "done"}

(* An active byte is only ever set on a slot that has been written.  The   *)
(* slots themselves come from malloc or the C stack, uncleared.            *)
Initialised(frame) ==
  \A s \in DOMAIN frame.slots : frame.active[s] => frame.slots[s] # Junk

ActiveIsInitialised ==
  /\ Initialised(globalFrame)
  /\ \A i \in 1..Len(frames) : Initialised(frames[i].frame)

(* A parameter is bound for as long as its activation lives, which is why  *)
(* the resolver may give it no fallback.                                   *)
ParamsActive ==
  \A i \in 1..Len(frames) : \A n \in Names :
    IsParam(frames[i].fn, n) =>
      FrameActive(frames[i].frame, LocalSlot[frames[i].fn][n])

(* A function's Environment holds that function's own temporaries and      *)
(* nothing else, and no function's temporary ever reaches the globals.     *)
EnvIsScoped ==
  /\ \A n \in EnvNames : globals[n] # Unbound => n \in RuntimeConstants \cup MainTemps
  /\ \A n \in RuntimeConstants : globals[n] # Unbound
  /\ \A i \in 1..Len(frames) : \A n \in EnvNames :
        frames[i].local[n] # Unbound => n \in TempsOf[frames[i].fn]

(* "An assignment writes to whatever the name already means, and only      *)
(* binds a new slot when the name means nothing yet": a store to a name    *)
(* with a meaning leaves every active byte as it was, and a read through   *)
(* the same instruction sees the value whichever link of the chain took it.*)
StoreKeepsChain ==
  [][\A n \in Names, v \in Values :
       Store(n, v) /\ Found(n) # Unbound =>
         /\ Found(n)' = v
         /\ globalFrame'.active = globalFrame.active
         /\ \A i \in 1..Len(frames) :
              frames'[i].frame.active = frames[i].frame.active]_vars

-----------------------------------------------------------------------------
(* The refinement: an active slot is a binding, an inactive one is none.   *)

Bound(frame, slot) == IF FrameActive(frame, slot) THEN frame.slots[slot] ELSE Unbound

AbsTop ==
  [n \in EnvNames |-> IF n \in Globals THEN Bound(globalFrame, GlobalSlot[n])
                      ELSE IF n \in Temps THEN globals[n] ELSE Unbound]

AbsRuntime == [n \in Names |-> globals[n]]

AbsScope(a) ==
  [n \in EnvNames |-> IF n \in Locals[a.fn] THEN Bound(a.frame, LocalSlot[a.fn][n])
                      ELSE IF n \in Temps THEN a.local[n] ELSE Unbound]

AbsCalls == [i \in 1..Len(frames) |-> [fn |-> frames[i].fn, scope |-> AbsScope(frames[i])]]

Scope == INSTANCE NameScope WITH top <- AbsTop, runtime <- AbsRuntime, calls <- AbsCalls

(* The VM's slots, active bytes and Environments implement the scoping the *)
(* language promises.                                                      *)
ImplementsNameScope == Scope!Spec
=============================================================================
