-------------------------- MODULE SlotFramesProofs --------------------------
(***************************************************************************)
(* Proofs about SlotFrames, for every program the resolver can hand it.    *)
(* The inductive invariant says of every activation that it is good: its   *)
(* shape is that of its function, its active slots have been written, its  *)
(* parameters are active and its Environment holds only its own            *)
(* temporaries.                                                            *)
(***************************************************************************)
EXTENDS SlotFrames, WellFoundedInduction, TLAPS

Activations == UNION {Activation(f) : f \in Functions}

GoodActivations ==
  {a \in Activations :
     /\ Initialised(a.frame)
     /\ \A n \in Names : IsParam(a.fn, n) => FrameActive(a.frame, LocalSlot[a.fn][n])
     /\ \A n \in EnvNames : a.local[n] # Unbound => n \in TempsOf[a.fn]}

GlobalsInv ==
  /\ globalFrame \in FrameOf(GlobalCount)
  /\ Initialised(globalFrame)
  /\ globals \in EnvOf
  /\ \A n \in EnvNames : globals[n] # Unbound => n \in RuntimeConstants \cup MainTemps
  /\ \A n \in RuntimeConstants : globals[n] # Unbound

IInv ==
  /\ GlobalsInv
  /\ frames \in Seq(GoodActivations)
  /\ seen \in Values \cup {Unbound}
  /\ status \in {"running", "failed", "done"}

-----------------------------------------------------------------------------
(* Facts about activations and frames *)

(* The assumption on the slots, opened up. *)
LEMMA SlotsFit ==
  /\ GlobalCount \in Nat
  /\ FrameCount \in [Functions -> Nat]
  /\ GlobalSlot \in [Names -> Int]
  /\ LocalSlot \in [Functions -> [Names -> Int]]
  /\ \A n \in Globals : GlobalSlot[n] \in 0..GlobalCount - 1
  /\ \A m, n \in Globals : GlobalSlot[m] = GlobalSlot[n] => m = n
  /\ \A f \in Functions : \A n \in Locals[f] :
        LocalSlot[f][n] \in 0..FrameCount[f] - 1
  /\ \A f \in Functions : \A m, n \in Locals[f] :
        LocalSlot[f][m] = LocalSlot[f][n] => m = n
  BY SlotAssumption DEF FrameFits

(* An activation is the record its function prescribes. *)
LEMMA ActivationFields ==
  ASSUME NEW a \in Activations
  PROVE  /\ a.fn \in Functions
         /\ a.frame \in FrameOf(FrameCount[a.fn])
         /\ a.local \in EnvOf
         /\ a = [fn |-> a.fn, frame |-> a.frame, local |-> a.local]
  BY DEF Activations, Activation

(* A record with the right fields is an activation. *)
LEMMA MakeActivation ==
  ASSUME NEW f \in Functions, NEW fr \in FrameOf(FrameCount[f]), NEW e \in EnvOf
  PROVE  [fn |-> f, frame |-> fr, local |-> e] \in Activations
  BY DEF Activations, Activation

(* Writing a slot of a frame keeps its shape, keeps its active slots       *)
(* written and never clears an active byte.                                *)
LEMMA PutFrame ==
  ASSUME NEW c \in Nat, NEW fr \in FrameOf(c), NEW s \in 0..c - 1, NEW v \in Values
  PROVE  /\ Put(fr, s, v) \in FrameOf(c)
         /\ Initialised(fr) => Initialised(Put(fr, s, v))
         /\ \A t : FrameActive(fr, t) => FrameActive(Put(fr, s, v), t)
         /\ FrameActive(Put(fr, s, v), s) /\ Put(fr, s, v).slots[s] = v
         /\ \A t \in 0..c - 1 : t # s =>
              /\ Put(fr, s, v).slots[t] = fr.slots[t]
              /\ Put(fr, s, v).active[t] = fr.active[t]
  BY ValuesAssumption DEF Put, FrameOf, Initialised, FrameActive, FrameHolds

(* The sequence operations the actions use. *)
LEMMA SetLast ==
  ASSUME NEW S, NEW q \in Seq(S), q # <<>>, NEW x \in S
  PROVE  /\ [q EXCEPT ![Len(q)] = x] \in Seq(S)
         /\ Len([q EXCEPT ![Len(q)] = x]) = Len(q)
         /\ Len(q) \in 1..Len(q)
         /\ q[Len(q)] \in S
  OBVIOUS

LEMMA DropLast ==
  ASSUME NEW S, NEW q \in Seq(S), q # <<>>
  PROVE  SubSeq(q, 1, Len(q) - 1) \in Seq(S)
  OBVIOUS

(* What a chunk's instruction can count on about the activation it runs in.*)
LEMMA CurrentIsGood ==
  ASSUME IInv, InCall
  PROVE  /\ Current \in GoodActivations
         /\ Current \in Activations
         /\ Current.fn \in Functions
         /\ Current.frame \in FrameOf(FrameCount[Current.fn])
         /\ Current.local \in EnvOf
  <1>1. Current \in GoodActivations
    BY SetLast DEF IInv, InCall, Current
  <1> QED
    BY <1>1, ActivationFields DEF GoodActivations

(* What the updates of an action do to the current activation *)

(* A binding written to the current activation's own slot. *)
LEMMA WriteOwnGood ==
  ASSUME IInv, NEW n \in Names, NEW v \in Values, HasSymbol(n), WriteOwn(n, v)
  PROVE  /\ frames' \in Seq(GoodActivations)
         /\ globalFrame' \in FrameOf(GlobalCount)
         /\ Initialised(globalFrame')
  <1>1. CASE IsLocal(n)
    <2> DEFINE s == LocalSlot[Current.fn][n]
               a == [Current EXCEPT !.frame = Put(Current.frame, s, v)]
    <2>1. /\ Current \in GoodActivations
          /\ Current.fn \in Functions
          /\ Current.frame \in FrameOf(FrameCount[Current.fn])
          /\ Current.local \in EnvOf
          /\ Current \in Activations
          /\ frames # <<>>
      BY <1>1, CurrentIsGood DEF IsLocal, InCall
    <2>2. s \in 0..FrameCount[Current.fn] - 1 /\ FrameCount[Current.fn] \in Nat
      BY <1>1, <2>1, SlotsFit DEF IsLocal
    <2>3. a = [fn |-> Current.fn, frame |-> Put(Current.frame, s, v), local |-> Current.local]
      BY <2>1, ActivationFields
    <2>4. /\ Put(Current.frame, s, v) \in FrameOf(FrameCount[Current.fn])
          /\ Initialised(Put(Current.frame, s, v))
          /\ \A t : FrameActive(Current.frame, t) => FrameActive(Put(Current.frame, s, v), t)
      BY <2>1, <2>2, PutFrame DEF GoodActivations
    <2>5. a \in Activations
      BY <2>1, <2>3, <2>4, MakeActivation
    <2>6. a \in GoodActivations
      BY <2>1, <2>3, <2>4, <2>5 DEF GoodActivations
    <2>7. frames' = [frames EXCEPT ![Len(frames)] = a]
      BY <1>1 DEF WriteOwn, Operand, Current
    <2> QED
      BY <1>1, <2>1, <2>6, <2>7, SetLast DEF IInv, GlobalsInv, WriteOwn
  <1>2. CASE ~IsLocal(n)
    <2>1. GlobalSlot[n] \in 0..GlobalCount - 1 /\ GlobalCount \in Nat
      BY <1>2, SlotsFit DEF HasSymbol
    <2> QED
      BY <1>2, <2>1, PutFrame DEF IInv, GlobalsInv, WriteOwn, Operand
  <1> QED
    BY <1>1, <1>2

(* A temporary of the current chunk written to the current Environment. *)
LEMMA EnvDefineGood ==
  ASSUME IInv, NEW t \in ChunkTemps, NEW v \in Values, EnvDefine(t, v)
  PROVE  /\ frames' \in Seq(GoodActivations)
         /\ globals' \in EnvOf
         /\ \A n \in EnvNames : globals'[n] # Unbound => n \in RuntimeConstants \cup MainTemps
         /\ \A n \in RuntimeConstants : globals'[n] # Unbound
  <1>1. CASE InCall
    <2> DEFINE e == [Current.local EXCEPT ![t] = v]
               a == [Current EXCEPT !.local = e]
    <2>1. /\ Current \in GoodActivations
          /\ Current \in Activations
          /\ Current.fn \in Functions
          /\ Current.frame \in FrameOf(FrameCount[Current.fn])
          /\ Current.local \in EnvOf
          /\ frames # <<>>
      BY <1>1, CurrentIsGood DEF InCall
    <2>2. t \in TempsOf[Current.fn]
      BY <1>1 DEF ChunkTemps
    <2>3. e \in EnvOf /\ \A n \in EnvNames : e[n] # Unbound => n \in TempsOf[Current.fn]
      BY <2>1, <2>2 DEF EnvOf, GoodActivations
    <2>4. a = [fn |-> Current.fn, frame |-> Current.frame, local |-> e]
      BY <2>1, ActivationFields
    <2>5. a \in Activations
      BY <2>1, <2>3, <2>4, MakeActivation
    <2>6. a \in GoodActivations
      BY <2>1, <2>3, <2>4, <2>5 DEF GoodActivations
    <2>7. frames' = [frames EXCEPT ![Len(frames)] = a]
      BY <1>1 DEF EnvDefine, Current
    <2> QED
      BY <1>1, <2>1, <2>6, <2>7, SetLast DEF IInv, GlobalsInv, EnvDefine
  <1>2. CASE ~InCall
    <2>1. t \in MainTemps /\ t \in EnvNames /\ Unbound # v
      BY <1>2, ValuesAssumption, TempAssumption DEF ChunkTemps, EnvNames
    <2>2. globals' = [globals EXCEPT ![t] = v] /\ frames' = frames
      BY <1>2 DEF EnvDefine
    <2>3. globals' \in EnvOf
      BY <2>1, <2>2 DEF IInv, GlobalsInv, EnvOf
    <2> QED
      BY <2>1, <2>2, <2>3 DEF IInv, GlobalsInv, EnvOf
  <1> QED
    BY <1>1, <1>2

(* EnvSet walks the chain, but a temporary it finds above the current      *)
(* activation would have to be the top level's, and the names differ.      *)
LEMMA EnvSetTempGood ==
  ASSUME IInv, NEW t \in ChunkTemps, NEW v \in Values
  PROVE  EnvSet(t, v) <=> EnvDefine(t, v)
  <1>1. CASE InCall
    <2>1. Current.fn \in Functions
      BY <1>1, CurrentIsGood
    <2>2. t \in TempsOf[Current.fn] /\ t \in Temps
      BY <1>1, <2>1, TempAssumption DEF ChunkTemps
    <2>3. globals[t] = Unbound
      BY <2>1, <2>2, TempAssumption, ScopeAssumption DEF IInv, GlobalsInv, EnvNames
    <2> QED
      BY <2>3 DEF EnvSet
  <1>2. CASE ~InCall
    BY <1>2 DEF EnvSet, EnvDefine
  <1> QED
    BY <1>1, <1>2

(* A source name that only the Environment answers is a runtime constant,  *)
(* and storing to it rewrites the constant where it is.                    *)
LEMMA EnvSetNameGood ==
  ASSUME IInv, NEW n \in Names, NEW v \in Values, EnvGet(n) # Unbound
  PROVE  /\ EnvGet(n) = globals[n]
         /\ globals[n] # Unbound
         /\ EnvSet(n, v) => /\ globals' = [globals EXCEPT ![n] = v]
                            /\ frames' = frames
  <1>1. InCall => Current.local[n] = Unbound
    BY CurrentIsGood, TempAssumption, ScopeAssumption DEF GoodActivations, EnvNames
  <1> QED
    BY <1>1 DEF EnvGet, EnvSet

(* Among the parameters that share a slot there is a last one.             *)
LEMMA LastWriterIsParam ==
  ASSUME NEW f \in Functions, NEW s, IsParamSlot(f, s)
  PROVE  /\ LastWriter(f, s) \in 1..Len(Params[f])
         /\ ParamSlot(f, LastWriter(f, s)) = s
         /\ \A j \in 1..Len(Params[f]) : ParamSlot(f, j) = s => j <= LastWriter(f, s)
  <1> DEFINE len == Len(Params[f])
             W == {i \in 1..len : ParamSlot(f, i) = s}
             Rest == {len - i : i \in W}
             less == {ss \in Nat \X Nat : ss[1] < ss[2]}
  <1>1. len \in Nat
    BY ScopeAssumption
  <1>2. Rest # {} /\ Rest \subseteq Nat
    <2>1. PICK i \in W : TRUE
      BY DEF IsParamSlot
    <2>2. len - i \in Rest
      BY <2>1
    <2>3. \A j \in 1..len : len - j \in Nat
      BY <1>1
    <2>4. Rest \subseteq Nat
      BY <2>3
    <2> QED
      BY <2>2, <2>4
  <1>3. IsWellFoundedOn(less, Nat)
    BY NatLessThanWellFounded, Zenon DEF OpToRel
  <1>4. PICK r \in Rest : \A q \in Rest : ~(<<q, r>> \in less)
    BY <1>2, <1>3, WFMin
  <1>5. \A q \in Rest : ~(q < r)
    BY <1>2, <1>4
  <1>6. PICK i \in W : r = len - i
    OBVIOUS
  <1>7. \A j \in W : j <= i
    <2> SUFFICES ASSUME NEW j \in W PROVE j <= i
      OBVIOUS
    <2>1. ~(len - j < len - i)
      BY <1>5, <1>6
    <2> QED
      BY <1>1, <2>1
  <1> QED
    BY <1>7 DEF LastWriter

(* A call's frame: only the parameters are active, and they are written.   *)
LEMMA EntryFrameGood ==
  ASSUME NEW f \in Functions, NEW args \in [1..Len(Params[f]) -> Values]
  PROVE  /\ EntryFrame(f, args) \in FrameOf(FrameCount[f])
         /\ Initialised(EntryFrame(f, args))
         /\ \A n \in Names : IsParam(f, n) =>
              FrameActive(EntryFrame(f, args), LocalSlot[f][n])
  <1> DEFINE dom == 0..FrameCount[f] - 1
  <1>1. /\ EntryFrame(f, args).slots =
             [s \in dom |-> IF IsParamSlot(f, s) THEN args[LastWriter(f, s)] ELSE Junk]
        /\ EntryFrame(f, args).active = [s \in dom |-> IsParamSlot(f, s)]
        /\ EntryFrame(f, args) = [slots |-> EntryFrame(f, args).slots,
                                  active |-> EntryFrame(f, args).active]
    BY DEF EntryFrame, FreshFrame
  <1>2. ASSUME NEW s \in dom, IsParamSlot(f, s)
        PROVE  args[LastWriter(f, s)] \in Values
    BY <1>2, LastWriterIsParam
  <1>3. /\ EntryFrame(f, args).slots \in [dom -> Values \cup {Junk}]
        /\ EntryFrame(f, args).active \in [dom -> BOOLEAN]
    BY <1>1, <1>2 DEF IsParamSlot
  <1>4. EntryFrame(f, args) \in FrameOf(FrameCount[f])
    BY <1>1, <1>3 DEF FrameOf
  <1>5. Initialised(EntryFrame(f, args))
    BY <1>1, <1>2, ValuesAssumption DEF Initialised
  <1>6. ASSUME NEW n \in Names, IsParam(f, n)
        PROVE  FrameActive(EntryFrame(f, args), LocalSlot[f][n])
    <2>1. PICK i \in 1..Len(Params[f]) : Params[f][i] = n
      BY <1>6 DEF IsParam
    <2>2. n # NoName /\ n \in Locals[f]
      BY <2>1, ValuesAssumption, ScopeAssumption
    <2>3. LocalSlot[f][n] \in dom /\ ParamSlot(f, i) = LocalSlot[f][n]
      BY <2>1, <2>2, SlotsFit DEF ParamSlot
    <2> QED
      BY <1>1, <2>3 DEF FrameActive, FrameHolds, IsParamSlot
  <1> QED
    BY <1>4, <1>5, <1>6

-----------------------------------------------------------------------------
(* The invariant is inductive *)

LEMMA InitIInv == Init => IInv
  <1> SUFFICES ASSUME Init PROVE IInv
    OBVIOUS
  <1>1. globalFrame \in FrameOf(GlobalCount) /\ Initialised(globalFrame)
    BY SlotsFit DEF Init, FreshFrame, FrameOf, Initialised
  <1>2. /\ globals \in EnvOf
        /\ \A n \in EnvNames : globals[n] # Unbound => n \in RuntimeConstants \cup MainTemps
        /\ \A n \in RuntimeConstants : globals[n] # Unbound
    BY ScopeAssumption, ValuesAssumption DEF Init, EnvOf, EnvNames
  <1>3. frames \in Seq(GoodActivations)
    BY DEF Init
  <1> QED
    BY <1>1, <1>2, <1>3 DEF Init, IInv, GlobalsInv

(* What a load pushes is a value: of an active slot, which has been        *)
(* written, or of the Environment.                                         *)
LEMMA FoundIsValue ==
  ASSUME IInv, NEW n \in Names
  PROVE  Found(n) \in Values \cup {Unbound}
  <1>1. EnvGet(n) \in Values \cup {Unbound}
    BY CurrentIsGood DEF EnvGet, IInv, GlobalsInv, EnvOf, EnvNames
  <1>2. ASSUME NEW s, FrameActive(globalFrame, s)
        PROVE  globalFrame.slots[s] \in Values
    BY <1>2, SlotsFit DEF FrameActive, FrameHolds, IInv, GlobalsInv, FrameOf, Initialised
  <1>3. ASSUME IsLocal(n), NEW s, FrameActive(Current.frame, s)
        PROVE  Current.frame.slots[s] \in Values
    BY <1>3, CurrentIsGood, SlotsFit
       DEF IsLocal, FrameActive, FrameHolds, FrameOf, Initialised, GoodActivations
  <1> QED
    BY <1>1, <1>2, <1>3 DEF Found, Own

LEMMA NextIInv == IInv /\ [Next]_vars => IInv'
  <1> SUFFICES ASSUME IInv, [Next]_vars PROVE IInv'
    OBVIOUS
  <1>1. ASSUME NEW n \in Names, Load(n) PROVE IInv'
    BY <1>1, FoundIsValue DEF Load, IInv, GlobalsInv
  <1>2. ASSUME NEW n \in Names, NEW v \in Values, Define(n, v) PROVE IInv'
    <2>1. HasSymbol(n)
      BY <1>2 DEF Define, HasSymbol
    <2>2. CASE WriteOwn(n, v)
      BY <1>2, <2>1, <2>2, WriteOwnGood DEF Define, IInv, GlobalsInv
    <2>3. CASE UNCHANGED <<globalFrame, frames>> /\ status' = "failed"
      BY <1>2, <2>3 DEF Define, IInv, GlobalsInv
    <2> QED
      BY <1>2, <2>2, <2>3 DEF Define
  <1>3. ASSUME NEW n \in Names, NEW v \in Values, Store(n, v) PROVE IInv'
    <2>1. HasSymbol(n)
      BY <1>3 DEF Store
    <2>2. CASE StoreActive(n, v)
      BY <1>3, <2>1, <2>2, WriteOwnGood DEF Store, StoreActive, IInv, GlobalsInv
    <2>3. CASE StoreFallback(n, v)
      <3>1. globalFrame' = [slots |-> [globalFrame.slots EXCEPT ![Fallback(n)] = v],
                            active |-> globalFrame.active]
        BY <2>3 DEF StoreFallback, IInv, GlobalsInv, FrameOf
      <3>2. globalFrame' \in FrameOf(GlobalCount) /\ Initialised(globalFrame')
        BY <3>1, ValuesAssumption DEF IInv, GlobalsInv, FrameOf, Initialised
      <3> QED
        BY <1>3, <2>3, <3>2 DEF Store, StoreFallback, IInv, GlobalsInv
    <2>4. CASE StoreByName(n, v)
      <3>1. /\ globals' = [globals EXCEPT ![n] = v]
            /\ frames' = frames
            /\ globals[n] # Unbound
        BY <2>4, EnvSetNameGood DEF StoreByName
      <3>2. globals' \in EnvOf
        BY <3>1 DEF IInv, GlobalsInv, EnvOf
      <3>3. /\ \A m \in EnvNames : globals'[m] # Unbound => m \in RuntimeConstants \cup MainTemps
            /\ \A m \in RuntimeConstants : globals'[m] # Unbound
        BY <3>1, ValuesAssumption, ScopeAssumption DEF IInv, GlobalsInv, EnvOf, EnvNames
      <3> QED
        BY <1>3, <2>4, <3>1, <3>2, <3>3 DEF Store, StoreByName, IInv, GlobalsInv
    <2>5. CASE StoreNew(n, v)
      <3>1. CASE WriteOwn(n, v)
        BY <1>3, <2>1, <2>5, <3>1, WriteOwnGood DEF Store, StoreNew, IInv, GlobalsInv
      <3>2. CASE UNCHANGED <<globalFrame, frames>> /\ status' = "failed"
        BY <1>3, <2>5, <3>2 DEF Store, StoreNew, IInv, GlobalsInv
      <3> QED
        BY <2>5, <3>1, <3>2 DEF StoreNew
    <2> QED
      BY <1>3, <2>2, <2>3, <2>4, <2>5 DEF Store
  <1>4. ASSUME NEW t \in Temps, LoadTemp(t) PROVE IInv'
    <2>1. EnvGet(t) \in Values \cup {Unbound}
      BY CurrentIsGood DEF EnvGet, IInv, GlobalsInv, EnvOf, EnvNames
    <2> QED
      BY <1>4, <2>1 DEF LoadTemp, IInv, GlobalsInv
  <1>5. ASSUME NEW t \in Temps, NEW v \in Values, DefineTemp(t, v) PROVE IInv'
    BY <1>5, EnvDefineGood DEF DefineTemp, IInv, GlobalsInv
  <1>6. ASSUME NEW t \in Temps, NEW v \in Values, StoreTemp(t, v) PROVE IInv'
    BY <1>6, EnvDefineGood, EnvSetTempGood DEF StoreTemp, IInv, GlobalsInv
  <1>7. ASSUME NEW f \in Functions, NEW args \in [1..Len(Params[f]) -> Values], Call(f, args)
        PROVE  IInv'
    <2> DEFINE a == [fn |-> f, frame |-> EntryFrame(f, args), local |-> EmptyEnv]
    <2>1. a \in Activations
      BY EntryFrameGood, MakeActivation DEF EmptyEnv, EnvOf
    <2>2. a \in GoodActivations
      BY <2>1, EntryFrameGood DEF GoodActivations, EmptyEnv
    <2> QED
      BY <1>7, <2>2 DEF Call, IInv, GlobalsInv
  <1>8. ASSUME Return PROVE IInv'
    BY <1>8, DropLast DEF Return, InCall, IInv, GlobalsInv
  <1>9. ASSUME Fault PROVE IInv'
    BY <1>9 DEF Fault, IInv, GlobalsInv
  <1>10. CASE UNCHANGED vars
    BY <1>10 DEF vars, IInv, GlobalsInv
  <1> QED
    BY <1>1, <1>2, <1>3, <1>4, <1>5, <1>6, <1>7, <1>8, <1>9, <1>10 DEF Next

-----------------------------------------------------------------------------
(* What the invariant gives *)

LEMMA IInvImplies == IInv => TypeOK /\ ActiveIsInitialised /\ ParamsActive /\ EnvIsScoped
  <1> SUFFICES ASSUME IInv PROVE TypeOK /\ ActiveIsInitialised /\ ParamsActive /\ EnvIsScoped
    OBVIOUS
  <1>1. \A i \in 1..Len(frames) : frames[i] \in GoodActivations
    BY DEF IInv
  <1>2. frames \in Seq(Activations)
    BY DEF IInv, GoodActivations
  <1>3. TypeOK
    BY <1>2 DEF TypeOK, IInv, GlobalsInv, Activations
  <1>4. ActiveIsInitialised /\ ParamsActive
    BY <1>1 DEF IInv, GlobalsInv, GoodActivations, ActiveIsInitialised, ParamsActive
  <1>5. EnvIsScoped
    BY <1>1 DEF IInv, GlobalsInv, GoodActivations, EnvIsScoped
  <1> QED
    BY <1>3, <1>4, <1>5

LEMMA Invariance == Spec => []IInv
  BY InitIInv, NextIInv, PTL DEF Spec

(* The shape of the VM's state; no load pushes uninitialised memory.       *)
THEOREM TypeCorrect == Spec => []TypeOK
  BY Invariance, IInvImplies, PTL

(* An active byte is only ever set on a slot that has been written, though *)
(* neither malloc nor the C stack clears the slots.                        *)
THEOREM SlotsInitialised == Spec => []ActiveIsInitialised
  BY Invariance, IInvImplies, PTL

(* Parameters are bound from entry to return, so they need no fallback.    *)
THEOREM ParametersActive == Spec => []ParamsActive
  BY Invariance, IInvImplies, PTL

(* The name-keyed Environments never mix the temporaries of two chunks.    *)
THEOREM EnvironmentsScoped == Spec => []EnvIsScoped
  BY Invariance, IInvImplies, PTL

-----------------------------------------------------------------------------
(* The refinement, step by step *)

(* The abstract scope of an activation, field by field. *)
LEMMA AbsScopeValue ==
  ASSUME NEW a \in GoodActivations
  PROVE  /\ \A n \in Names : AbsScope(a)[n] =
               IF n \in Locals[a.fn] THEN Bound(a.frame, LocalSlot[a.fn][n]) ELSE Unbound
         /\ \A t \in Temps : AbsScope(a)[t] = a.local[t]
  BY ActivationFields, ScopeAssumption DEF AbsScope, EnvNames, GoodActivations

LEMMA AbsTopValue ==
  /\ \A n \in Names : AbsTop[n] =
        IF n \in Globals THEN Bound(globalFrame, GlobalSlot[n]) ELSE Unbound
  /\ \A t \in Temps : AbsTop[t] = globals[t]
  BY ScopeAssumption DEF AbsTop, EnvNames

LEMMA AbsCurrent ==
  ASSUME IInv
  PROVE  /\ Scope!InCall <=> InCall
         /\ Len(AbsCalls) = Len(frames)
         /\ InCall => /\ Scope!Current.fn = Current.fn
                      /\ Scope!Current.scope = AbsScope(Current)
  BY SetLast DEF IInv, AbsCalls, InCall, Current, Scope!InCall, Scope!Current

(* An active slot of a good frame holds a value, so its binding is one. *)
LEMMA BoundIffActive ==
  ASSUME NEW c \in Nat, NEW fr \in FrameOf(c), Initialised(fr), NEW s
  PROVE  /\ Bound(fr, s) # Unbound <=> FrameActive(fr, s)
         /\ FrameActive(fr, s) => Bound(fr, s) = fr.slots[s]
  BY ValuesAssumption DEF Bound, FrameActive, FrameHolds, FrameOf, Initialised

LEMMA CurrentBound ==
  ASSUME IInv, InCall, NEW s
  PROVE  /\ Bound(Current.frame, s) # Unbound <=> FrameActive(Current.frame, s)
         /\ FrameActive(Current.frame, s) => Bound(Current.frame, s) = Current.frame.slots[s]
  BY CurrentIsGood, SlotsFit, BoundIffActive DEF GoodActivations

LEMMA GlobalBound ==
  ASSUME IInv, NEW s
  PROVE  /\ Bound(globalFrame, s) # Unbound <=> FrameActive(globalFrame, s)
         /\ FrameActive(globalFrame, s) => Bound(globalFrame, s) = globalFrame.slots[s]
  BY SlotsFit, BoundIffActive DEF IInv, GlobalsInv

(* The chain the VM reads down finds what the scopes mean. *)
LEMMA ChainIsMeaning ==
  ASSUME IInv, NEW n \in Names
  PROVE  /\ (InCall /\ AbsScope(Current)[n] # Unbound)
               <=> (IsLocal(n) /\ FrameActive(Own(n), Operand(n)))
         /\ ~(IsLocal(n) /\ FrameActive(Own(n), Operand(n))) =>
               (AbsTop[n] # Unbound
                  <=> \/ ~IsLocal(n) /\ n \in Globals /\ FrameActive(Own(n), Operand(n))
                      \/ FrameActive(globalFrame, Fallback(n)))
         /\ EnvGet(n) = AbsRuntime[n]
         /\ Scope!Meaning(n) = Found(n)
  <1>1. InCall => AbsScope(Current)[n] = IF n \in Locals[Current.fn]
                                          THEN Bound(Current.frame, LocalSlot[Current.fn][n])
                                          ELSE Unbound
    BY CurrentIsGood, AbsScopeValue
  <1>2. (InCall /\ AbsScope(Current)[n] # Unbound)
               <=> (IsLocal(n) /\ FrameActive(Own(n), Operand(n)))
    BY <1>1, CurrentBound DEF IsLocal, Own, Operand
  <1>3. ~FrameActive(globalFrame, NoSlot)
    BY SlotsFit DEF IInv, GlobalsInv, FrameOf, FrameActive, FrameHolds, NoSlot
  <1>4. IsLocal(n) /\ IsParam(Current.fn, n) => FrameActive(Own(n), Operand(n))
    BY CurrentIsGood DEF IsLocal, Own, Operand, GoodActivations
  <1>5. AbsTop[n] # Unbound <=> n \in Globals /\ FrameActive(globalFrame, GlobalSlot[n])
    BY AbsTopValue, GlobalBound
  <1>6. ASSUME ~(IsLocal(n) /\ FrameActive(Own(n), Operand(n)))
        PROVE  AbsTop[n] # Unbound
                  <=> \/ ~IsLocal(n) /\ n \in Globals /\ FrameActive(Own(n), Operand(n))
                      \/ FrameActive(globalFrame, Fallback(n))
    BY <1>3, <1>4, <1>5, <1>6 DEF Own, Operand, Fallback
  <1>7. EnvGet(n) = AbsRuntime[n]
    <2>1. InCall => Current.local[n] = Unbound
      BY CurrentIsGood, TempAssumption, ScopeAssumption DEF GoodActivations, EnvNames
    <2> QED
      BY <2>1 DEF EnvGet, AbsRuntime
  <1>8. Scope!Meaning(n) = Found(n)
    <2>1. Scope!Meaning(n) = IF InCall /\ AbsScope(Current)[n] # Unbound
                             THEN AbsScope(Current)[n]
                             ELSE IF AbsTop[n] # Unbound THEN AbsTop[n] ELSE AbsRuntime[n]
      BY AbsCurrent DEF Scope!Meaning
    <2>2. CASE IsLocal(n) /\ FrameActive(Own(n), Operand(n))
      BY <1>1, <1>2, <2>1, <2>2, CurrentBound DEF Found, HasSymbol, IsLocal, Own, Operand
    <2>3. CASE ~(IsLocal(n) /\ FrameActive(Own(n), Operand(n))) /\ AbsTop[n] # Unbound
      <3>1. n \in Globals /\ FrameActive(globalFrame, GlobalSlot[n])
            /\ AbsTop[n] = globalFrame.slots[GlobalSlot[n]]
        BY <1>5, <2>3, AbsTopValue, GlobalBound
      <3> QED
        BY <1>2, <1>4, <2>1, <2>3, <3>1 DEF Found, HasSymbol, Own, Operand, Fallback
    <2>4. CASE ~(IsLocal(n) /\ FrameActive(Own(n), Operand(n))) /\ AbsTop[n] = Unbound
      BY <1>2, <1>6, <1>7, <2>1, <2>4 DEF Found, HasSymbol
    <2> QED
      BY <2>2, <2>3, <2>4
  <1> QED
    BY <1>2, <1>6, <1>7, <1>8

(* Replacing the current activation by one that binds a single name more   *)
(* is a single update of its abstract scope.                               *)
LEMMA AbsCallsUpdate ==
  ASSUME IInv, InCall, NEW a \in GoodActivations, a.fn = Current.fn,
         NEW n \in EnvNames, NEW v, AbsScope(a) = [AbsScope(Current) EXCEPT ![n] = v],
         frames' = [frames EXCEPT ![Len(frames)] = a]
  PROVE  AbsCalls' = Scope!InScope(n, v)
  <1> DEFINE C == [i \in 1..Len(frames) |->
                     IF i = Len(frames) THEN [fn |-> a.fn, scope |-> AbsScope(a)]
                     ELSE [fn |-> frames[i].fn, scope |-> AbsScope(frames[i])]]
  <1>1. Len(frames) \in Nat /\ Len(frames') = Len(frames)
    BY SetLast DEF IInv, InCall
  <1>2. \A i \in 1..Len(frames) : frames'[i] = IF i = Len(frames) THEN a ELSE frames[i]
    BY DEF IInv
  <1>3. AbsCalls' = [i \in 1..Len(frames') |-> [fn |-> frames'[i].fn, scope |-> AbsScope(frames'[i])]]
    BY DEF AbsCalls, AbsScope, Bound, FrameActive, FrameHolds
  <1>4. AbsCalls' = C
    BY <1>1, <1>2, <1>3
  <1>5. Len(AbsCalls) = Len(frames)
    BY AbsCurrent
  <1>6. C = [AbsCalls EXCEPT ![Len(frames)] =
               [fn |-> Current.fn, scope |-> [AbsScope(Current) EXCEPT ![n] = v]]]
    BY <1>1 DEF AbsCalls, Current
  <1>7. AbsCalls[Len(frames)] = [fn |-> Current.fn, scope |-> AbsScope(Current)]
    BY <1>1, SetLast DEF AbsCalls, Current, IInv, InCall
  <1>8. [AbsCalls EXCEPT ![Len(frames)].scope[n] = v]
        = [AbsCalls EXCEPT ![Len(frames)] =
             [fn |-> Current.fn, scope |-> [AbsScope(Current) EXCEPT ![n] = v]]]
    <2> DEFINE k == Len(frames)
               r == AbsCalls[k]
    <2>1. r = [fn |-> Current.fn, scope |-> AbsScope(Current)]
      BY <1>7
    <2>2. [r EXCEPT !.scope = [r.scope EXCEPT ![n] = v]]
          = [fn |-> Current.fn, scope |-> [AbsScope(Current) EXCEPT ![n] = v]]
      BY <2>1
    <2>3. [AbsCalls EXCEPT ![k].scope[n] = v]
          = [AbsCalls EXCEPT ![k] = [r EXCEPT !.scope = [r.scope EXCEPT ![n] = v]]]
      OBVIOUS
    <2> QED
      BY <2>2, <2>3
  <1> QED
    BY <1>4, <1>5, <1>6, <1>8 DEF Scope!InScope

(* The scopes depend on the frames and Environments alone. *)
LEMMA AbsUnchanged ==
  /\ globalFrame' = globalFrame /\ globals' = globals => AbsTop' = AbsTop
  /\ globals' = globals => AbsRuntime' = AbsRuntime
  /\ frames' = frames => AbsCalls' = AbsCalls
  BY DEF AbsTop, AbsRuntime, AbsCalls, AbsScope, Bound, FrameActive, FrameHolds

(* Writing a name's own slot binds that name in the scope that owns it and *)
(* no other name: slots are not shared.                                    *)
LEMMA WriteOwnIsBindOwn ==
  ASSUME IInv, NEW n \in Names, NEW v \in Values, HasSymbol(n), WriteOwn(n, v),
         globals' = globals
  PROVE  /\ Scope!BindOwn(n, v)
         /\ AbsRuntime' = AbsRuntime
         /\ IsLocal(n) => /\ AbsCalls' = Scope!InScope(n, v)
                          /\ AbsTop' = AbsTop
         /\ ~IsLocal(n) => /\ AbsTop' = [AbsTop EXCEPT ![n] = v]
                           /\ AbsCalls' = AbsCalls
  <1>1. CASE IsLocal(n)
    <2> DEFINE f == Current.fn
               s == LocalSlot[f][n]
               fr == Put(Current.frame, s, v)
               a == [Current EXCEPT !.frame = fr]
    <2>1. /\ InCall
          /\ Current \in GoodActivations
          /\ Current \in Activations
          /\ f \in Functions
          /\ n \in Locals[f]
          /\ Current.frame \in FrameOf(FrameCount[f])
          /\ Current.local \in EnvOf
      BY <1>1, CurrentIsGood DEF IsLocal
    <2>2. s \in 0..FrameCount[f] - 1 /\ FrameCount[f] \in Nat
      BY <2>1, SlotsFit
    <2>3. a = [fn |-> f, frame |-> fr, local |-> Current.local]
      BY <2>1, ActivationFields
    <2>4. /\ fr \in FrameOf(FrameCount[f])
          /\ Initialised(fr)
          /\ \A t : FrameActive(Current.frame, t) => FrameActive(fr, t)
          /\ FrameActive(fr, s) /\ fr.slots[s] = v
          /\ \A t \in 0..FrameCount[f] - 1 : t # s =>
               /\ fr.slots[t] = Current.frame.slots[t]
               /\ fr.active[t] = Current.frame.active[t]
      <3>1. Initialised(Current.frame)
        BY <2>1 DEF GoodActivations
      <3> QED BY <2>1, <2>2, <3>1, PutFrame, SMTT(30)
    <2>5. a \in GoodActivations
      <3>1. a.fn = f /\ a.frame = fr /\ a.local = Current.local
        BY <2>3
      <3>2. a \in Activations
        <4>1. f \in Functions /\ fr \in FrameOf(FrameCount[f]) /\ Current.local \in EnvOf
          BY <2>1, <2>4
        <4> HIDE DEF a, f, fr
        <4> QED BY <2>3, <4>1, MakeActivation
      <3>3. \A m \in Names : IsParam(f, m) => FrameActive(fr, LocalSlot[f][m])
        BY <2>1, <2>4 DEF GoodActivations
      <3>4. \A m \in EnvNames : Current.local[m] # Unbound => m \in TempsOf[f]
        BY <2>1 DEF GoodActivations
      <3> HIDE DEF a, f, fr
      <3> QED BY <2>4, <3>1, <3>2, <3>3, <3>4 DEF GoodActivations
    <2>6. Bound(fr, s) = v
      BY <2>4 DEF Bound
    <2>7. \A m \in Locals[f] : m # n => Bound(fr, LocalSlot[f][m]) = Bound(Current.frame, LocalSlot[f][m])
      <3> SUFFICES ASSUME NEW m \in Locals[f], m # n
                   PROVE  Bound(fr, LocalSlot[f][m]) = Bound(Current.frame, LocalSlot[f][m])
        OBVIOUS
      <3>1. LocalSlot[f][m] \in 0..FrameCount[f] - 1 /\ LocalSlot[f][m] # s
        BY <2>1, SlotsFit
      <3> QED
        BY <2>1, <2>2, <2>4, <3>1 DEF Bound, FrameActive, FrameHolds, FrameOf
    <2>8. AbsScope(a) = [AbsScope(Current) EXCEPT ![n] = v]
      BY <2>1, <2>3, <2>6, <2>7, ScopeAssumption DEF AbsScope, EnvNames
    <2>9. frames' = [frames EXCEPT ![Len(frames)] = a] /\ globalFrame' = globalFrame
      BY <1>1 DEF WriteOwn, Operand, Current
    <2>10. a.fn = Current.fn /\ n \in EnvNames /\ n \in Locals[Current.fn]
      BY <2>1, <2>3 DEF EnvNames
    <2> HIDE DEF a, f
    <2>11. AbsCalls' = Scope!InScope(n, v)
      BY <2>1, <2>5, <2>8, <2>9, <2>10, AbsCallsUpdate
    <2> QED
      BY <1>1, <2>1, <2>9, <2>10, <2>11, AbsUnchanged, AbsCurrent DEF Scope!BindOwn
  <1>2. CASE ~IsLocal(n)
    <2> DEFINE s == GlobalSlot[n]
    <2>1. n \in Globals /\ s \in 0..GlobalCount - 1 /\ GlobalCount \in Nat
      BY <1>2, SlotsFit DEF HasSymbol
    <2>2. /\ globalFrame' = Put(globalFrame, s, v)
          /\ frames' = frames
      BY <1>2 DEF WriteOwn, Operand
    <2>3. /\ Put(globalFrame, s, v) \in FrameOf(GlobalCount)
          /\ FrameActive(globalFrame', s) /\ globalFrame'.slots[s] = v
          /\ \A t \in 0..GlobalCount - 1 : t # s =>
               /\ globalFrame'.slots[t] = globalFrame.slots[t]
               /\ globalFrame'.active[t] = globalFrame.active[t]
      BY <2>1, <2>2, PutFrame, SMTT(30) DEF IInv, GlobalsInv
    <2>4. Bound(globalFrame', s) = v
      BY <2>3 DEF Bound
    <2>5. \A m \in Globals : m # n => Bound(globalFrame', GlobalSlot[m]) = Bound(globalFrame, GlobalSlot[m])
      <3> SUFFICES ASSUME NEW m \in Globals, m # n
                   PROVE  Bound(globalFrame', GlobalSlot[m]) = Bound(globalFrame, GlobalSlot[m])
        OBVIOUS
      <3>1. GlobalSlot[m] \in 0..GlobalCount - 1 /\ GlobalSlot[m] # s
        BY <2>1, SlotsFit
      <3> QED
        BY <2>2, <2>3, <3>1 DEF Bound, FrameActive, FrameHolds, FrameOf, IInv, GlobalsInv
    <2>6. AbsTop' = [AbsTop EXCEPT ![n] = v]
      <3>1. AbsTop' = [m \in EnvNames |-> IF m \in Globals THEN Bound(globalFrame', GlobalSlot[m])
                                          ELSE IF m \in Temps THEN globals[m] ELSE Unbound]
        BY DEF AbsTop
      <3> QED
        BY <2>1, <2>4, <2>5, <3>1, ScopeAssumption DEF AbsTop, EnvNames
    <2>7. ~(InCall /\ n \in Locals[Current.fn] \cup Temps)
      BY <1>2, ScopeAssumption DEF IsLocal
    <2> QED
      BY <1>2, <2>2, <2>6, <2>7, AbsUnchanged, AbsCurrent DEF Scope!BindOwn
  <1> QED
    BY <1>1, <1>2

(* A temporary's definition stays in the scope of the chunk that runs. *)
LEMMA EnvDefineIsBindOwn ==
  ASSUME IInv, NEW t \in ChunkTemps, NEW v \in Values, EnvDefine(t, v),
         globalFrame' = globalFrame
  PROVE  Scope!BindOwn(t, v) /\ AbsRuntime' = AbsRuntime
  <1>1. CASE InCall
    <2> DEFINE f == Current.fn
               e == [Current.local EXCEPT ![t] = v]
               a == [Current EXCEPT !.local = e]
    <2>1. /\ Current \in GoodActivations
          /\ Current \in Activations
          /\ f \in Functions
          /\ Current.frame \in FrameOf(FrameCount[f])
          /\ Current.local \in EnvOf
      BY <1>1, CurrentIsGood
    <2>2. t \in TempsOf[f] /\ t \in Temps /\ t \notin Locals[f]
      BY <1>1, <2>1, TempAssumption, ScopeAssumption DEF ChunkTemps
    <2>3. e \in EnvOf /\ \A n \in EnvNames : e[n] # Unbound => n \in TempsOf[f]
      BY <2>1, <2>2 DEF EnvOf, GoodActivations
    <2>4. a = [fn |-> f, frame |-> Current.frame, local |-> e]
      BY <2>1, ActivationFields
    <2>5. a \in GoodActivations
      <3>1. a \in Activations
        BY <2>1, <2>3, <2>4, MakeActivation
      <3> QED
        BY <2>1, <2>3, <2>4, <3>1 DEF GoodActivations
    <2>6. AbsScope(a) = [AbsScope(Current) EXCEPT ![t] = v]
      <3>1. a.fn = f /\ a.frame = Current.frame /\ a.local = e
        BY <2>4
      <3>2. \A n \in EnvNames : e[n] = IF n = t THEN v ELSE Current.local[n]
        BY <2>1 DEF EnvOf
      <3>3. t \in EnvNames
        BY <2>2 DEF EnvNames
      <3> HIDE DEF a, e
      <3> QED BY <2>2, <3>1, <3>2, <3>3 DEF AbsScope
    <2>7. frames' = [frames EXCEPT ![Len(frames)] = a] /\ globals' = globals
      BY <1>1 DEF EnvDefine, Current
    <2>8. a.fn = Current.fn /\ t \in EnvNames
      BY <2>2, <2>4 DEF EnvNames
    <2> HIDE DEF a, f
    <2>9. AbsCalls' = Scope!InScope(t, v)
      BY <1>1, <2>5, <2>6, <2>7, <2>8, AbsCallsUpdate
    <2> QED
      BY <1>1, <2>2, <2>7, <2>9, AbsUnchanged, AbsCurrent DEF Scope!BindOwn
  <1>2. CASE ~InCall
    <2>1. t \in Temps /\ t \notin Names /\ t \notin Globals
      BY <1>2, TempAssumption, ScopeAssumption DEF ChunkTemps
    <2>2. globals' = [globals EXCEPT ![t] = v] /\ frames' = frames
      BY <1>2 DEF EnvDefine
    <2>3. AbsTop' = [AbsTop EXCEPT ![t] = v]
      <3>1. AbsTop' = [m \in EnvNames |-> IF m \in Globals THEN Bound(globalFrame, GlobalSlot[m])
                                          ELSE IF m \in Temps THEN globals'[m] ELSE Unbound]
        BY DEF AbsTop
      <3> QED
        BY <2>1, <2>2, <3>1 DEF AbsTop, EnvNames, IInv, GlobalsInv, EnvOf
    <2>4. AbsRuntime' = AbsRuntime
      BY <2>1, <2>2 DEF AbsRuntime, IInv, GlobalsInv, EnvOf, EnvNames
    <2> QED
      BY <1>2, <2>2, <2>3, <2>4, AbsUnchanged, AbsCurrent DEF Scope!BindOwn
  <1> QED
    BY <1>1, <1>2

(* The resolver's slots identify the parameters: the last argument written *)
(* to a slot is the last one passed under the name.                        *)
LEMMA EntryIsEntered ==
  ASSUME NEW f \in Functions, NEW args \in [1..Len(Params[f]) -> Values],
         NEW a, a = [fn |-> f, frame |-> EntryFrame(f, args), local |-> EmptyEnv]
  PROVE  AbsScope(a) = Scope!Entered(f, args).scope
  <1> DEFINE P == 1..Len(Params[f])
  <1>1. \A i \in P : Params[f][i] \in Locals[f] \cup {NoName} /\ Locals[f] \subseteq Names
    BY ScopeAssumption
  <1>2. ASSUME NEW n \in Locals[f]
        PROVE  \A i \in P : ParamSlot(f, i) = LocalSlot[f][n] <=> Params[f][i] = n
    BY <1>1, <1>2, SlotsFit, ValuesAssumption DEF ParamSlot, NoSlot
  <1>3. ASSUME NEW n \in Locals[f]
        PROVE  IsParamSlot(f, LocalSlot[f][n]) <=> Scope!BoundParam(f, n)
    BY <1>2, <1>3 DEF IsParamSlot, Scope!BoundParam
  <1>4. ASSUME NEW n \in Locals[f], Scope!BoundParam(f, n)
        PROVE  LastWriter(f, LocalSlot[f][n]) = Scope!LastParam(f, n)
    <2> DEFINE w == LastWriter(f, LocalSlot[f][n])
               p == Scope!LastParam(f, n)
    <2>1. /\ w \in P
          /\ Params[f][w] = n
          /\ \A j \in P : Params[f][j] = n => j <= w
      BY <1>2, <1>3, <1>4, LastWriterIsParam
    <2>2. /\ p \in P
          /\ Params[f][p] = n
          /\ \A j \in P : Params[f][j] = n => j <= p
      BY <2>1 DEF Scope!LastParam
    <2>3. w <= p /\ p <= w /\ w \in Int /\ p \in Int
      BY <2>1, <2>2, ScopeAssumption
    <2> QED
      BY <2>3
  <1>5. ASSUME NEW n \in Names, n \notin Locals[f]
        PROVE  ~Scope!BoundParam(f, n)
    BY <1>1, <1>5, ValuesAssumption DEF Scope!BoundParam
  <1>6. ASSUME NEW t \in Temps
        PROVE  ~Scope!BoundParam(f, t) /\ t \notin Locals[f]
    BY <1>1, ScopeAssumption, ValuesAssumption DEF Scope!BoundParam
  <1>7. ASSUME NEW n \in Locals[f]
        PROVE  Bound(EntryFrame(f, args), LocalSlot[f][n])
                 = IF Scope!BoundParam(f, n) THEN args[Scope!LastParam(f, n)] ELSE Unbound
    <2> DEFINE s == LocalSlot[f][n]
               D == 0..FrameCount[f] - 1
    <2>1. s \in D
      BY SlotsFit
    <2>2. EntryFrame(f, args) =
            [slots  |-> [t \in D |-> IF IsParamSlot(f, t) THEN args[LastWriter(f, t)] ELSE Junk],
             active |-> [t \in D |-> IsParamSlot(f, t)]]
      BY DEF EntryFrame, FreshFrame
    <2>3. Bound(EntryFrame(f, args), s)
            = IF IsParamSlot(f, s) THEN args[LastWriter(f, s)] ELSE Unbound
      BY <2>1, <2>2 DEF Bound, FrameActive, FrameHolds
    <2> QED
      BY <2>3, <1>3, <1>4
  <1> DEFINE F == [n \in EnvNames |-> IF n \in Locals[f] THEN Bound(EntryFrame(f, args), LocalSlot[f][n])
                                      ELSE IF n \in Temps THEN EmptyEnv[n] ELSE Unbound]
             G == [n \in EnvNames |-> IF Scope!BoundParam(f, n)
                                      THEN args[Scope!LastParam(f, n)] ELSE Unbound]
  <1>8. AbsScope(a) = F
    BY DEF AbsScope
  <1>9. Scope!Entered(f, args).scope = G
    BY DEF Scope!Entered, EnvNames
  <1>10. ASSUME NEW n \in EnvNames PROVE F[n] = G[n]
    <2>1. CASE n \in Locals[f]
      BY <2>1, <1>7
    <2>2. CASE n \in Temps
      BY <2>2, <1>6 DEF EmptyEnv
    <2>3. CASE n \in Names /\ n \notin Locals[f] /\ n \notin Temps
      BY <2>3, <1>5
    <2> QED
      BY <2>1, <2>2, <2>3 DEF EnvNames
  <1> QED
    BY <1>8, <1>9, <1>10

(* A load finds what the name means. *)
LEMMA LoadIsRead ==
  ASSUME IInv, NEW n \in Names, Load(n)
  PROVE  Scope!Read(n)
  BY ChainIsMeaning, AbsUnchanged DEF Load, Scope!Read

(* A declaration binds the name in the scope that owns it: the frame always*)
(* has the slot.                                                           *)
LEMMA OwnHolds ==
  ASSUME IInv, NEW n \in Names, HasSymbol(n)
  PROVE  FrameHolds(Own(n), Operand(n))
  <1>1. CASE IsLocal(n)
    BY <1>1, CurrentIsGood, SlotsFit DEF IsLocal, FrameHolds, Own, Operand, FrameOf
  <1>2. CASE ~IsLocal(n)
    BY <1>2, SlotsFit DEF HasSymbol, FrameHolds, Own, Operand, FrameOf, IInv, GlobalsInv
  <1> QED
    BY <1>1, <1>2

LEMMA DefineIsDeclare ==
  ASSUME IInv, NEW n \in Names, NEW v \in Values, Define(n, v)
  PROVE  Scope!Declare(n, v)
  <1>1. HasSymbol(n)
    BY DEF Define, HasSymbol
  <1>2. WriteOwn(n, v) /\ status' = status /\ globals' = globals /\ seen' = seen
    BY <1>1, OwnHolds DEF Define
  <1>3. n \in Scope!OwnNames
    BY AbsCurrent DEF Define, IsLocal, Scope!OwnNames
  <1> QED
    BY <1>1, <1>2, <1>3, WriteOwnIsBindOwn DEF Define, Scope!Declare

(* The three links of the chain a store can take, and the new binding. *)
LEMMA StoreFallbackIsAssign ==
  ASSUME IInv, NEW n \in Names, NEW v \in Values, HasSymbol(n), StoreFallback(n, v)
  PROVE  /\ AbsTop' = [AbsTop EXCEPT ![n] = v]
         /\ AbsRuntime' = AbsRuntime
         /\ AbsCalls' = AbsCalls
  <1> DEFINE s == GlobalSlot[n]
  <1>1. n \in Globals /\ Fallback(n) = s /\ FrameActive(globalFrame, s)
    BY SlotsFit
       DEF StoreFallback, Fallback, FrameActive, FrameHolds, NoSlot, IInv, GlobalsInv, FrameOf
  <1>2. globalFrame' = [slots |-> [globalFrame.slots EXCEPT ![s] = v],
                        active |-> globalFrame.active]
        /\ globals' = globals /\ frames' = frames
    BY <1>1 DEF StoreFallback, IInv, GlobalsInv, FrameOf
  <1>3. Bound(globalFrame', s) = v
    BY <1>1, <1>2 DEF Bound, FrameActive, FrameHolds
  <1>4. \A m \in Globals : m # n => Bound(globalFrame', GlobalSlot[m]) = Bound(globalFrame, GlobalSlot[m])
    <2> SUFFICES ASSUME NEW m \in Globals, m # n
                 PROVE  Bound(globalFrame', GlobalSlot[m]) = Bound(globalFrame, GlobalSlot[m])
      OBVIOUS
    <2>1. GlobalSlot[m] # s
      BY <1>1, SlotsFit
    <2> QED
      BY <1>2, <2>1 DEF Bound, FrameActive, FrameHolds
  <1>5. AbsTop' = [m \in EnvNames |-> IF m \in Globals THEN Bound(globalFrame', GlobalSlot[m])
                                      ELSE IF m \in Temps THEN globals[m] ELSE Unbound]
    BY <1>2 DEF AbsTop
  <1>6. AbsTop' = [AbsTop EXCEPT ![n] = v]
    BY <1>1, <1>3, <1>4, <1>5, ScopeAssumption DEF AbsTop, EnvNames
  <1> QED
    BY <1>2, <1>6, AbsUnchanged

LEMMA StoreByNameIsAssign ==
  ASSUME IInv, NEW n \in Names, NEW v \in Values, StoreByName(n, v)
  PROVE  /\ AbsRuntime' = [AbsRuntime EXCEPT ![n] = v]
         /\ AbsTop' = AbsTop
         /\ AbsCalls' = AbsCalls
  <1>1. globals' = [globals EXCEPT ![n] = v] /\ frames' = frames /\ globalFrame' = globalFrame
    BY EnvSetNameGood DEF StoreByName
  <1>2. AbsRuntime' = [AbsRuntime EXCEPT ![n] = v]
    BY <1>1 DEF AbsRuntime, IInv, GlobalsInv, EnvOf, EnvNames
  <1>3. AbsTop' = [m \in EnvNames |-> IF m \in Globals THEN Bound(globalFrame, GlobalSlot[m])
                                      ELSE IF m \in Temps THEN globals'[m] ELSE Unbound]
    BY <1>1 DEF AbsTop
  <1>4. \A t \in Temps : globals'[t] = globals[t]
    BY <1>1, ScopeAssumption DEF IInv, GlobalsInv, EnvOf, EnvNames
  <1> QED
    BY <1>1, <1>2, <1>3, <1>4, AbsUnchanged DEF AbsTop

LEMMA StoreIsAssign ==
  ASSUME IInv, NEW n \in Names, NEW v \in Values, Store(n, v)
  PROVE  Scope!Assign(n, v)
  <1> DEFINE OwnBound == Scope!InCall /\ Scope!Current.scope[n] # Unbound
  <1>1. HasSymbol(n) /\ status = "running" /\ seen' = seen
    BY DEF Store
  <1>2. n \in Globals \/ n \in Scope!OwnNames
    BY <1>1, AbsCurrent DEF HasSymbol, IsLocal, Scope!OwnNames
  <1>3. /\ OwnBound <=> IsLocal(n) /\ FrameActive(Own(n), Operand(n))
        /\ Scope!Meaning(n) = Found(n)
        /\ EnvGet(n) = AbsRuntime[n]
    BY ChainIsMeaning, AbsCurrent
  <1>4. ~OwnBound =>
          (AbsTop[n] # Unbound
             <=> \/ ~IsLocal(n) /\ n \in Globals /\ FrameActive(Own(n), Operand(n))
                 \/ FrameActive(globalFrame, Fallback(n)))
    BY <1>3, ChainIsMeaning
  <1>5. CASE StoreActive(n, v)
    <2>1. WriteOwn(n, v) /\ globals' = globals /\ status' = status /\ FrameActive(Own(n), Operand(n))
      BY <1>5 DEF StoreActive
    <2>2. /\ AbsRuntime' = AbsRuntime
          /\ IsLocal(n) => AbsCalls' = Scope!InScope(n, v) /\ AbsTop' = AbsTop
          /\ ~IsLocal(n) => AbsTop' = [AbsTop EXCEPT ![n] = v] /\ AbsCalls' = AbsCalls
      BY <1>1, <2>1, WriteOwnIsBindOwn
    <2>3. CASE IsLocal(n)
      BY <1>1, <1>2, <1>3, <2>1, <2>2, <2>3 DEF Scope!Assign
    <2>4. CASE ~IsLocal(n)
      <3>1. ~OwnBound /\ AbsTop[n] # Unbound
        BY <1>1, <1>3, <1>4, <2>1, <2>4 DEF HasSymbol
      <3> QED
        BY <1>1, <1>2, <2>1, <2>2, <2>4, <3>1 DEF Scope!Assign
    <2> QED
      BY <2>3, <2>4
  <1>6. CASE StoreFallback(n, v)
    <2>1. ~OwnBound /\ AbsTop[n] # Unbound /\ status' = status
      BY <1>3, <1>4, <1>6 DEF StoreFallback
    <2> QED
      BY <1>1, <1>2, <1>6, <2>1, StoreFallbackIsAssign DEF Scope!Assign
  <1>7. CASE StoreByName(n, v)
    <2>1. ~OwnBound /\ AbsTop[n] = Unbound /\ AbsRuntime[n] # Unbound /\ status' = status
      BY <1>3, <1>4, <1>7 DEF StoreByName
    <2> QED
      BY <1>1, <1>2, <1>7, <2>1, StoreByNameIsAssign DEF Scope!Assign
  <1>8. CASE StoreNew(n, v)
    <2>1. WriteOwn(n, v) /\ status' = status /\ globals' = globals
      BY <1>1, <1>8, OwnHolds DEF StoreNew
    <2>2. Scope!Meaning(n) = Unbound
      BY <1>3, <1>8 DEF StoreNew, Found
    <2>3. Scope!BindOwn(n, v) /\ AbsRuntime' = AbsRuntime
      BY <1>1, <2>1, WriteOwnIsBindOwn
    <2> QED
      BY <1>1, <1>2, <2>1, <2>2, <2>3 DEF Scope!Assign
  <1> QED
    BY <1>5, <1>6, <1>7, <1>8 DEF Store

(* The foreach's hidden variables. *)
LEMMA TempIsMeaning ==
  ASSUME IInv, NEW t \in ChunkTemps
  PROVE  Scope!TempValue(t) = EnvGet(t) /\ t \in Temps
  <1>1. t \in Temps
    BY CurrentIsGood, TempAssumption DEF ChunkTemps
  <1>2. CASE InCall
    <2>1. t \in TempsOf[Current.fn] /\ Current.fn \in Functions
      BY <1>2, CurrentIsGood DEF ChunkTemps
    <2>2. globals[t] = Unbound
      BY <1>1, <2>1, TempAssumption, ScopeAssumption DEF IInv, GlobalsInv, EnvNames
    <2> QED
      BY <1>1, <1>2, <2>2, CurrentIsGood, AbsCurrent, AbsScopeValue DEF Scope!TempValue, EnvGet
  <1>3. CASE ~InCall
    BY <1>1, <1>3, AbsCurrent, AbsTopValue DEF Scope!TempValue, EnvGet
  <1> QED
    BY <1>1, <1>2, <1>3

LEMMA LoadTempIsRead ==
  ASSUME IInv, NEW t \in Temps, LoadTemp(t)
  PROVE  Scope!ReadTemp(t)
  BY TempIsMeaning, AbsUnchanged DEF LoadTemp, Scope!ReadTemp

LEMMA StoreTempIsWrite ==
  ASSUME IInv, NEW t \in Temps, NEW v \in Values, DefineTemp(t, v) \/ StoreTemp(t, v)
  PROVE  Scope!WriteTemp(t, v)
  <1>1. ASSUME EnvDefine(t, v), t \in ChunkTemps, status = "running",
               globalFrame' = globalFrame, seen' = seen, status' = status
        PROVE  Scope!WriteTemp(t, v)
    BY <1>1, EnvDefineIsBindOwn DEF Scope!WriteTemp
  <1>2. DefineTemp(t, v) => Scope!WriteTemp(t, v)
    BY <1>1 DEF DefineTemp
  <1>3. StoreTemp(t, v) => Scope!WriteTemp(t, v)
    BY <1>1, EnvSetTempGood DEF StoreTemp
  <1> QED
    BY <1>2, <1>3

LEMMA CallIsEnter ==
  ASSUME IInv, NEW f \in Functions, NEW args \in [1..Len(Params[f]) -> Values], Call(f, args)
  PROVE  Scope!Enter(f, args)
  <1> DEFINE a == [fn |-> f, frame |-> EntryFrame(f, args), local |-> EmptyEnv]
             A == [i \in 1..Len(frames) |->
                     [fn |-> frames[i].fn, scope |-> AbsScope(frames[i])]]
             x == [fn |-> a.fn, scope |-> AbsScope(a)]
  <1>1. frames' = Append(frames, a) /\ globals' = globals /\ globalFrame' = globalFrame
    BY DEF Call
  <1>2. AbsScope(a) = Scope!Entered(f, args).scope
    BY EntryIsEntered
  <1>3. a.fn = f /\ Scope!Entered(f, args).fn = f
        /\ Scope!Entered(f, args) = [fn |-> f, scope |-> Scope!Entered(f, args).scope]
    BY DEF Scope!Entered
  <1>4. x = Scope!Entered(f, args)
    BY <1>2, <1>3
  <1>5. AbsCalls' = [i \in 1..Len(frames') |-> [fn |-> frames'[i].fn, scope |-> AbsScope(frames'[i])]]
    BY DEF AbsCalls, AbsScope, Bound, FrameActive, FrameHolds
  <1> HIDE DEF a
  <1>6. Len(frames) \in Nat /\ Len(frames') = Len(frames) + 1
        /\ frames'[Len(frames) + 1] = a
        /\ \A i \in 1..Len(frames) : frames'[i] = frames[i]
    BY <1>1 DEF IInv
  <1>7. A = AbsCalls
    BY DEF AbsCalls
  <1> HIDE DEF x
  <1>8. Append(A, x) = [i \in 1..Len(frames) + 1 |-> IF i = Len(frames) + 1 THEN x ELSE A[i]]
    BY <1>6
  <1>9. AbsCalls' = Append(A, x)
    BY <1>5, <1>6, <1>8 DEF x
  <1>10. Len(AbsCalls) < MaxDepth /\ status = "running" /\ status' = status /\ seen' = seen
    BY AbsCurrent DEF Call
  <1> QED
    BY <1>1, <1>4, <1>7, <1>9, <1>10, AbsUnchanged DEF Scope!Enter

LEMMA ReturnIsLeave ==
  ASSUME IInv, Return
  PROVE  Scope!Leave
  <1> DEFINE A == [i \in 1..Len(frames) |->
                     [fn |-> frames[i].fn, scope |-> AbsScope(frames[i])]]
  <1>1. CASE InCall
    <2>1. /\ Len(frames) \in Nat /\ Len(frames) >= 1
          /\ Len(frames') = Len(frames) - 1
          /\ \A i \in 1..Len(frames) - 1 : frames'[i] = frames[i]
      BY <1>1 DEF Return, IInv, InCall
    <2>2. AbsCalls' = [i \in 1..Len(frames') |-> [fn |-> frames'[i].fn, scope |-> AbsScope(frames'[i])]]
      BY DEF AbsCalls, AbsScope, Bound, FrameActive, FrameHolds
    <2>3. AbsCalls' = [i \in 1..Len(frames) - 1 |-> A[i]]
      BY <2>1, <2>2
    <2>4. Len(A) = Len(frames) /\ A = AbsCalls
      BY <2>1 DEF AbsCalls
    <2>5. SubSeq(A, 1, Len(A) - 1) = [i \in 1..Len(frames) - 1 |-> A[i]]
      BY <2>1, <2>4
    <2>6. AbsCalls' = SubSeq(AbsCalls, 1, Len(AbsCalls) - 1)
      BY <2>3, <2>4, <2>5
    <2> QED
      BY <1>1, <2>6, AbsUnchanged, AbsCurrent DEF Return, Scope!Leave
  <1>2. CASE ~InCall
    BY <1>2, AbsUnchanged, AbsCurrent DEF Return, Scope!Leave
  <1> QED
    BY <1>1, <1>2

LEMMA InitIsInit == Init => Scope!Init
  <1> SUFFICES ASSUME Init PROVE Scope!Init
    OBVIOUS
  <1>1. \A n \in Globals : Bound(globalFrame, GlobalSlot[n]) = Unbound
    BY SlotsFit DEF Init, FreshFrame, Bound, FrameActive, FrameHolds
  <1>2. \A t \in Temps : globals[t] = Unbound
    BY ScopeAssumption DEF Init, EnvNames
  <1>3. AbsTop = Scope!EmptyScope
    BY <1>1, <1>2 DEF AbsTop, Scope!EmptyScope, EnvNames
  <1>4. AbsRuntime = [n \in Names |-> IF n \in RuntimeConstants
                                      THEN RuntimeValue[n] ELSE Unbound]
    BY DEF Init, AbsRuntime, EnvNames
  <1>5. AbsCalls = <<>>
    BY DEF Init, AbsCalls
  <1> QED
    BY <1>3, <1>4, <1>5 DEF Init, Scope!Init

LEMMA StepIsStep == IInv /\ [Next]_vars => [Scope!Next]_(Scope!scopeVars)
  <1> SUFFICES ASSUME IInv, [Next]_vars PROVE [Scope!Next]_(Scope!scopeVars)
    OBVIOUS
  <1>1. ASSUME NEW n \in Names, Load(n) PROVE Scope!Next
    BY <1>1, LoadIsRead DEF Scope!Next
  <1>2. ASSUME NEW n \in Names, NEW v \in Values, Define(n, v) PROVE Scope!Next
    BY <1>2, DefineIsDeclare DEF Scope!Next
  <1>3. ASSUME NEW n \in Names, NEW v \in Values, Store(n, v) PROVE Scope!Next
    BY <1>3, StoreIsAssign DEF Scope!Next
  <1>4. ASSUME NEW t \in Temps, LoadTemp(t) PROVE Scope!Next
    BY <1>4, LoadTempIsRead DEF Scope!Next
  <1>5. ASSUME NEW t \in Temps, NEW v \in Values, DefineTemp(t, v) \/ StoreTemp(t, v)
        PROVE  Scope!Next
    BY <1>5, StoreTempIsWrite DEF Scope!Next
  <1>6. ASSUME NEW f \in Functions, NEW args \in [1..Len(Params[f]) -> Values], Call(f, args)
        PROVE  Scope!Next
    BY <1>6, CallIsEnter DEF Scope!Next
  <1>7. ASSUME Return PROVE Scope!Next
    BY <1>7, ReturnIsLeave DEF Scope!Next
  <1>8. ASSUME Fault PROVE Scope!Next
    BY <1>8, AbsUnchanged DEF Fault, Scope!Fail, Scope!Next
  <1>9. CASE UNCHANGED vars
    BY <1>9, AbsUnchanged DEF vars, Scope!scopeVars
  <1> QED
    BY <1>1, <1>2, <1>3, <1>4, <1>5, <1>6, <1>7, <1>8, <1>9 DEF Next

(* The bytecode VM's slots, active bytes, fallbacks and Environments       *)
(* implement lexical scoping: a name means what the innermost scope that   *)
(* has bound it so far says.                                               *)
THEOREM Refinement == Spec => ImplementsNameScope
  BY Invariance, InitIsInit, StepIsStep, PTL DEF Spec, ImplementsNameScope, Scope!Spec

-----------------------------------------------------------------------------
(* What a store leaves alone *)

LEMMA StoreActiveKeeps ==
  ASSUME IInv, NEW n \in Names, NEW v \in Values, HasSymbol(n), StoreActive(n, v)
  PROVE  /\ Found(n)' = v
         /\ globalFrame'.active = globalFrame.active
         /\ \A i \in 1..Len(frames) : frames'[i].frame.active = frames[i].frame.active
  <1>1. CASE IsLocal(n)
    <2> DEFINE f == Current.fn
               s == LocalSlot[f][n]
               fr == Put(Current.frame, s, v)
               a == [Current EXCEPT !.frame = fr]
    <2>1. /\ InCall
          /\ Current \in Activations
          /\ f \in Functions
          /\ n \in Locals[f]
          /\ Current.frame \in FrameOf(FrameCount[f])
          /\ FrameActive(Current.frame, s)
      BY <1>1, CurrentIsGood DEF IsLocal, StoreActive, Own, Operand
    <2>2. s \in 0..FrameCount[f] - 1 /\ FrameCount[f] \in Nat
      BY <2>1, SlotsFit
    <2>3. a = [fn |-> f, frame |-> fr, local |-> Current.local]
      BY <2>1, ActivationFields
    <2>4. fr.active = Current.frame.active
      BY <2>1, <2>2 DEF Put, FrameOf, FrameActive
    <2>5. FrameActive(fr, s) /\ fr.slots[s] = v
      BY <2>1, <2>2, PutFrame
    <2>6. frames' = [frames EXCEPT ![Len(frames)] = a] /\ globalFrame' = globalFrame
      BY <1>1 DEF StoreActive, WriteOwn, Operand, Current
    <2>7. a.fn = f /\ a.frame = fr
      BY <2>3
    <2> HIDE DEF a
    <2>8. Len(frames') = Len(frames) /\ Len(frames) \in 1..Len(frames) /\ frames' # <<>>
          /\ \A i \in 1..Len(frames) : frames'[i] = IF i = Len(frames) THEN a ELSE frames[i]
      BY <2>1, <2>6 DEF IInv, InCall
    <2>9. InCall' /\ Current' = a
      BY <2>8 DEF InCall, Current
    <2>10. IsLocal(n)' /\ Own(n)' = fr /\ Operand(n)' = s
      BY <2>1, <2>7, <2>9 DEF IsLocal, Own, Operand
    <2>11. Found(n)' = v
      BY <2>5, <2>10 DEF Found, HasSymbol, FrameActive, FrameHolds
    <2> QED
      BY <2>4, <2>6, <2>7, <2>8, <2>11 DEF Current
  <1>2. CASE ~IsLocal(n)
    <2> DEFINE s == GlobalSlot[n]
    <2>1. n \in Globals /\ s \in 0..GlobalCount - 1 /\ GlobalCount \in Nat
          /\ FrameActive(globalFrame, s)
      BY <1>2, SlotsFit DEF HasSymbol, StoreActive, Own, Operand
    <2>2. globalFrame' = Put(globalFrame, s, v) /\ frames' = frames
      BY <1>2 DEF StoreActive, WriteOwn, Operand
    <2>3. globalFrame'.active = globalFrame.active
      BY <2>1, <2>2 DEF Put, FrameOf, FrameActive, IInv, GlobalsInv
    <2>4. FrameActive(globalFrame', s) /\ globalFrame'.slots[s] = v
      BY <2>1, <2>2, PutFrame DEF IInv, GlobalsInv
    <2>5. ~IsLocal(n)'
      BY <1>2, <2>2 DEF IsLocal, InCall, Current
    <2>6. Found(n)' = v
      BY <2>1, <2>4, <2>5 DEF Found, HasSymbol, Own, Operand, FrameActive, FrameHolds
    <2> QED
      BY <2>2, <2>3, <2>6
  <1> QED
    BY <1>1, <1>2

LEMMA StoreElsewhereKeeps ==
  ASSUME IInv, NEW n \in Names, NEW v \in Values, HasSymbol(n),
         StoreFallback(n, v) \/ StoreByName(n, v)
  PROVE  /\ Found(n)' = v
         /\ globalFrame'.active = globalFrame.active
         /\ frames' = frames
  <1>1. CASE StoreFallback(n, v)
    <2>1. globalFrame' = [slots |-> [globalFrame.slots EXCEPT ![Fallback(n)] = v],
                          active |-> globalFrame.active]
          /\ frames' = frames /\ FrameActive(globalFrame, Fallback(n))
      BY <1>1 DEF StoreFallback, IInv, GlobalsInv, FrameOf
    <2>2. HasSymbol(n)' /\ Fallback(n)' = Fallback(n) /\ Operand(n)' = Operand(n)
          /\ IsLocal(n)' = IsLocal(n)
      BY <2>1 DEF HasSymbol, Fallback, Operand, IsLocal, InCall, Current
    <2>3. FrameActive(globalFrame', Fallback(n)) /\ globalFrame'.slots[Fallback(n)] = v
      BY <2>1 DEF FrameActive, FrameHolds
    <2>4. ~FrameActive(Own(n)', Operand(n))
      BY <1>1, <2>1 DEF StoreFallback, Own, FrameActive, FrameHolds, IsLocal, InCall, Current
    <2> QED
      BY <2>1, <2>2, <2>3, <2>4 DEF Found, FrameActive, FrameHolds
  <1>2. CASE StoreByName(n, v)
    <2>1. globals' = [globals EXCEPT ![n] = v] /\ frames' = frames /\ globalFrame' = globalFrame
          /\ EnvGet(n) = globals[n]
          /\ ~FrameActive(Own(n), Operand(n)) /\ ~FrameActive(globalFrame, Fallback(n))
          /\ EnvGet(n) # Unbound
      BY <1>2, EnvSetNameGood DEF StoreByName
    <2>2. InCall => Current.local[n] = Unbound
      BY CurrentIsGood, TempAssumption, ScopeAssumption DEF GoodActivations, EnvNames
    <2>3. globals'[n] = v
      BY <2>1 DEF IInv, GlobalsInv, EnvOf, EnvNames
    <2>4. EnvGet(n)' = v
      BY <2>1, <2>2, <2>3 DEF EnvGet, InCall, Current
    <2> QED
      BY <2>1, <2>4 DEF Found, Own, Operand, Fallback, HasSymbol, IsLocal, FrameActive,
                        FrameHolds, InCall, Current
  <1> QED
    BY <1>1, <1>2

LEMMA StoreStep ==
  ASSUME IInv, NEW n \in Names, NEW v \in Values, Store(n, v), Found(n) # Unbound
  PROVE  /\ Found(n)' = v
         /\ globalFrame'.active = globalFrame.active
         /\ \A i \in 1..Len(frames) : frames'[i].frame.active = frames[i].frame.active
  <1>1. ~StoreNew(n, v)
    BY DEF StoreNew, Found
  <1> QED
    BY <1>1, StoreActiveKeeps, StoreElsewhereKeeps DEF Store

(* An assignment writes to whatever the name already means: no slot comes  *)
(* alive, and the next read sees the value.                                *)
THEOREM StoresKeepChain == Spec => StoreKeepsChain
  <1>1. IInv /\ [Next]_vars =>
          [\A n \in Names, v \in Values :
             Store(n, v) /\ Found(n) # Unbound =>
               /\ Found(n)' = v
               /\ globalFrame'.active = globalFrame.active
               /\ \A i \in 1..Len(frames) :
                    frames'[i].frame.active = frames[i].frame.active]_vars
    BY StoreStep
  <1> QED
    BY <1>1, Invariance, PTL DEF Spec, StoreKeepsChain
=============================================================================
