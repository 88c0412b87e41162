--------------------------- MODULE ResolverProofs ---------------------------
(***************************************************************************)
(* Proofs about Resolver, for every program.  Two things are tracked       *)
(* through the passes: that the symbol table is well formed (one symbol to *)
(* a name and owner, one slot to a symbol, no slot without one), and which *)
(* names of which scopes it holds by now, which depends on the pass and    *)
(* on how far it has come.  From that invariant the second half goes on to *)
(* what the resolver does beyond the names in its table:                   *)
(*   - The bindings: each node that names something is bound in each of    *)
(*     its roles, and to the symbol of the scope that owns the name.       *)
(*   - The links between symbols: a local falls back to a global of its    *)
(*     name, a global to the runtime's, a parameter to nothing.  What is   *)
(*     tracked for these besides is which symbols are marked as parameters *)
(*     and which are linked by now.                                        *)
(*   - The refusals: an error means that a label, a goto or a break is     *)
(*     wrong, and none that all are right.  What is tracked is that the    *)
(*     list of loops says which are open, and that each label has its      *)
(*     innermost foreach.                                                  *)
(***************************************************************************)
EXTENDS Resolver, SequenceTheorems, FiniteSetTheorems, WellFoundedInduction, TLAPS

SymbolRecords(count) ==
  [name : Names, owner : External..count, slot : Int, param : BOOLEAN, fallback : Nat]

TablesOf(count) == [symbols : Seq(SymbolRecords(count)), slots : [0..count -> Nat]]

SameKey(a, b) == a.name = b.name /\ a.owner = b.owner

WellFormed(t, count) ==
  /\ t \in TablesOf(count)
  /\ \A i \in 1..Len(t.symbols) : t.symbols[i].fallback <= Len(t.symbols)
  /\ \A i, j \in 1..Len(t.symbols) : SameKey(t.symbols[i], t.symbols[j]) => i = j
  /\ \A i \in 1..Len(t.symbols) :
       t.symbols[i].owner # External =>
         t.symbols[i].slot \in 0..t.slots[t.symbols[i].owner] - 1
  /\ \A i, j \in 1..Len(t.symbols) :
       /\ t.symbols[i].owner = t.symbols[j].owner
       /\ t.symbols[i].owner # External
       /\ t.symbols[i].slot = t.symbols[j].slot
       => i = j
  /\ \A s \in 0..count : \A k \in 0..t.slots[s] - 1 :
       \E i \in 1..Len(t.symbols) : t.symbols[i].owner = s /\ t.symbols[i].slot = k

Has(t, n, owner) ==
  \E i \in 1..Len(t.symbols) : t.symbols[i].name = n /\ t.symbols[i].owner = owner

(* The symbols of t are still there, with their slots. *)
Extends(t, u) ==
  /\ Len(t.symbols) <= Len(u.symbols)
  /\ \A i \in 1..Len(t.symbols) :
       /\ u.symbols[i].name = t.symbols[i].name
       /\ u.symbols[i].owner = t.symbols[i].owner
       /\ u.symbols[i].slot = t.symbols[i].slot

-----------------------------------------------------------------------------
(* Facts about the symbol table *)

(* With one symbol to a name and owner, the search finds it or nothing.    *)
LEMMA FindSymbol ==
  ASSUME NEW count \in Nat, NEW t, WellFormed(t, count), NEW n, NEW owner
  PROVE  /\ find_symbol(t, n, owner) # NoSymbol <=> Has(t, n, owner)
         /\ Has(t, n, owner) =>
              /\ find_symbol(t, n, owner) \in 1..Len(t.symbols)
              /\ t.symbols[find_symbol(t, n, owner)].name = n
              /\ t.symbols[find_symbol(t, n, owner)].owner = owner
         /\ \A i \in 1..Len(t.symbols) :
              t.symbols[i].name = n /\ t.symbols[i].owner = owner =>
                i = find_symbol(t, n, owner)
<1>0. Len(t.symbols) \in Nat
  BY DEF WellFormed, TablesOf
<1>1. CASE ~Has(t, n, owner)
  BY <1>1 DEF find_symbol, Matches, Has
<1>2. CASE Has(t, n, owner)
  <2>1. PICK i \in 1..Len(t.symbols) : t.symbols[i].name = n /\ t.symbols[i].owner = owner
    BY <1>2 DEF Has
  <2>2. Matches(t, n, owner) = {i}
    BY <2>1 DEF Matches, WellFormed, SameKey
  <2>3. find_symbol(t, n, owner) = i
    <3>1. (CHOOSE k \in {i} : \A j \in {i} : k <= j) = i
      BY <1>0, <2>1
    <3> QED BY <2>2, <3>1 DEF find_symbol
  <2>4. i # NoSymbol
    BY <1>0, <2>1 DEF NoSymbol
  <2> QED BY <1>2, <2>1, <2>2, <2>3, <2>4 DEF Matches
<1> QED BY <1>1, <1>2

(* A table that differs in flags and fallbacks only is as good.            *)
LEMMA Relabelled ==
  ASSUME NEW count \in Nat, NEW t, NEW u, WellFormed(t, count),
         u \in TablesOf(count), u.slots = t.slots, Len(u.symbols) = Len(t.symbols),
         Extends(t, u),
         \A i \in 1..Len(u.symbols) : u.symbols[i].fallback <= Len(u.symbols)
  PROVE  /\ WellFormed(u, count)
         /\ \A n, owner : Has(u, n, owner) <=> Has(t, n, owner)
<1>1. \A n, owner : Has(u, n, owner) <=> Has(t, n, owner)
  BY DEF Has, Extends
<1>2. \A i, j \in 1..Len(u.symbols) : SameKey(u.symbols[i], u.symbols[j]) => i = j
  BY DEF WellFormed, SameKey, Extends
<1>3. \A i \in 1..Len(u.symbols) :
        u.symbols[i].owner # External =>
          u.symbols[i].slot \in 0..u.slots[u.symbols[i].owner] - 1
  BY DEF WellFormed, Extends
<1>4. \A i, j \in 1..Len(u.symbols) :
        /\ u.symbols[i].owner = u.symbols[j].owner
        /\ u.symbols[i].owner # External
        /\ u.symbols[i].slot = u.symbols[j].slot
        => i = j
  <2> SUFFICES ASSUME NEW i \in 1..Len(u.symbols), NEW j \in 1..Len(u.symbols),
                      u.symbols[i].owner = u.symbols[j].owner,
                      u.symbols[i].owner # External,
                      u.symbols[i].slot = u.symbols[j].slot
               PROVE  i = j
    OBVIOUS
  <2>1. /\ t.symbols[i].owner = t.symbols[j].owner
        /\ t.symbols[i].owner # External
        /\ t.symbols[i].slot = t.symbols[j].slot
    BY DEF Extends
  <2> QED BY <2>1 DEF WellFormed
<1>5. \A s \in 0..count : \A k \in 0..u.slots[s] - 1 :
        \E i \in 1..Len(u.symbols) : u.symbols[i].owner = s /\ u.symbols[i].slot = k
  <2> SUFFICES ASSUME NEW s \in 0..count, NEW k \in 0..u.slots[s] - 1
               PROVE  \E i \in 1..Len(u.symbols) : u.symbols[i].owner = s /\ u.symbols[i].slot = k
    OBVIOUS
  <2>1. PICK i \in 1..Len(t.symbols) : t.symbols[i].owner = s /\ t.symbols[i].slot = k
    BY DEF WellFormed
  <2> QED BY <2>1 DEF Extends
<1> QED BY <1>1, <1>2, <1>3, <1>4, <1>5 DEF WellFormed

LEMMA FlaggedTable ==
  ASSUME NEW count \in Nat, NEW t, WellFormed(t, count),
         NEW i \in 1..Len(t.symbols), NEW param \in BOOLEAN
  PROVE  /\ WellFormed(Flagged(t, i, param), count)
         /\ Extends(t, Flagged(t, i, param))
         /\ \A n, owner : Has(Flagged(t, i, param), n, owner) <=> Has(t, n, owner)
<1> DEFINE u == Flagged(t, i, param)
           s == [t.symbols[i] EXCEPT !.param = @ \/ param]
<1>1. t \in TablesOf(count) /\ t.symbols[i] \in SymbolRecords(count)
  BY DEF WellFormed, TablesOf
<1>2. s \in SymbolRecords(count)
  BY <1>1 DEF SymbolRecords
<1>3. u = [t EXCEPT !.symbols = [t.symbols EXCEPT ![i] = s]]
  BY DEF Flagged
<1>4. u.slots = t.slots /\ u.symbols = [t.symbols EXCEPT ![i] = s]
  BY <1>1, <1>3 DEF TablesOf
<1> HIDE DEF s
<1>5. /\ u.symbols \in Seq(SymbolRecords(count))
      /\ Len(u.symbols) = Len(t.symbols)
      /\ \A j \in 1..Len(t.symbols) : u.symbols[j] = IF j = i THEN s ELSE t.symbols[j]
  <2>1. t.symbols \in Seq(SymbolRecords(count))
    BY <1>1 DEF TablesOf
  <2> QED BY <1>2, <1>4, <2>1, ExceptSeq
<1>6. /\ s.name = t.symbols[i].name /\ s.owner = t.symbols[i].owner
      /\ s.slot = t.symbols[i].slot /\ s.fallback = t.symbols[i].fallback
  BY <1>1 DEF s, SymbolRecords
<1>7. u \in TablesOf(count)
  BY <1>1, <1>3, <1>4, <1>5 DEF TablesOf
<1> HIDE DEF u
<1>8. Len(t.symbols) \in Nat
  BY <1>1 DEF TablesOf
<1>9. Extends(t, u)
  BY <1>5, <1>6, <1>8 DEF Extends
<1>10. \A j \in 1..Len(u.symbols) : u.symbols[j].fallback <= Len(u.symbols)
  BY <1>5, <1>6, <1>8 DEF WellFormed
<1>11. u.slots = t.slots /\ Len(u.symbols) = Len(t.symbols)
  BY <1>4, <1>5
<1>12. WellFormed(u, count) /\ \A n, owner : Has(u, n, owner) <=> Has(t, n, owner)
  BY <1>7, <1>9, <1>10, <1>11, Relabelled
<1> QED BY <1>9, <1>12 DEF u

LEMMA FallbackTable ==
  ASSUME NEW count \in Nat, NEW t, WellFormed(t, count),
         NEW i \in 1..Len(t.symbols), NEW x \in 0..Len(t.symbols)
  PROVE  LET u == [t EXCEPT !.symbols[i].fallback = x] IN
         /\ WellFormed(u, count)
         /\ Extends(t, u)
         /\ \A n, owner : Has(u, n, owner) <=> Has(t, n, owner)
<1> DEFINE u == [t EXCEPT !.symbols[i].fallback = x]
           s == [t.symbols[i] EXCEPT !.fallback = x]
<1>1. t \in TablesOf(count) /\ t.symbols[i] \in SymbolRecords(count)
  BY DEF WellFormed, TablesOf
<1>2. s \in SymbolRecords(count)
  <2>1. x \in Nat
    BY <1>1 DEF TablesOf
  <2> QED BY <1>1, <2>1 DEF SymbolRecords
<1>3. u = [t EXCEPT !.symbols = [t.symbols EXCEPT ![i] = s]]
  OBVIOUS
<1>4. u.slots = t.slots /\ u.symbols = [t.symbols EXCEPT ![i] = s]
  BY <1>1, <1>3 DEF TablesOf
<1> HIDE DEF s
<1>5. /\ u.symbols \in Seq(SymbolRecords(count))
      /\ Len(u.symbols) = Len(t.symbols)
      /\ \A j \in 1..Len(t.symbols) : u.symbols[j] = IF j = i THEN s ELSE t.symbols[j]
  <2>1. t.symbols \in Seq(SymbolRecords(count))
    BY <1>1 DEF TablesOf
  <2> QED BY <1>2, <1>4, <2>1, ExceptSeq
<1>6. /\ s.name = t.symbols[i].name /\ s.owner = t.symbols[i].owner
      /\ s.slot = t.symbols[i].slot /\ s.fallback = x
  BY <1>1 DEF s, SymbolRecords
<1>7. u \in TablesOf(count)
  BY <1>1, <1>3, <1>4, <1>5 DEF TablesOf
<1> HIDE DEF u
<1>8. Len(t.symbols) \in Nat
  BY <1>1 DEF TablesOf
<1>9. Extends(t, u)
  BY <1>5, <1>6, <1>8 DEF Extends
<1>10. \A j \in 1..Len(u.symbols) : u.symbols[j].fallback <= Len(u.symbols)
  BY <1>5, <1>6, <1>8 DEF WellFormed
<1>11. u.slots = t.slots /\ Len(u.symbols) = Len(t.symbols)
  BY <1>4, <1>5
<1>12. WellFormed(u, count) /\ \A n, owner : Has(u, n, owner) <=> Has(t, n, owner)
  BY <1>7, <1>9, <1>10, <1>11, Relabelled
<1> QED BY <1>9, <1>12 DEF u

(* The name has a symbol now, nothing else changed, and the table is still *)
(* well formed: a new symbol takes the first slot its frame has not used.  *)
LEMMA AddSymbol ==
  ASSUME NEW count \in Nat, NEW t, WellFormed(t, count), NEW n \in Names,
         NEW owner \in External..count, NEW param \in BOOLEAN
  PROVE  LET u == add_symbol(t, n, owner, param) IN
         /\ WellFormed(u, count)
         /\ Extends(t, u)
         /\ \A m, o : Has(u, m, o) <=> (Has(t, m, o) \/ (m = n /\ o = owner))
<1>1. CASE Has(t, n, owner)
  <2>1. /\ find_symbol(t, n, owner) # NoSymbol
        /\ find_symbol(t, n, owner) \in 1..Len(t.symbols)
    BY <1>1, FindSymbol
  <2> QED BY <1>1, <2>1, FlaggedTable DEF add_symbol
<1>2. CASE ~Has(t, n, owner)
  <2> DEFINE u == add_symbol(t, n, owner, param)
             new == NewSymbol(t, n, owner, param)
             slots == IF owner = External THEN t.slots
                      ELSE [t.slots EXCEPT ![owner] = @ + 1]
             last == Len(t.symbols) + 1
  <2>1. u = [symbols |-> Append(t.symbols, new), slots |-> slots]
    <3>1. find_symbol(t, n, owner) = NoSymbol
      BY <1>2, FindSymbol
    <3> QED BY <3>1 DEF add_symbol
  <2>2. /\ t.symbols \in Seq(SymbolRecords(count))
        /\ t.slots \in [0..count -> Nat]
        /\ Len(t.symbols) \in Nat
    BY DEF WellFormed, TablesOf
  <2>3. /\ new \in SymbolRecords(count)
        /\ new.name = n
        /\ new.owner = owner
        /\ new.fallback = 0
        /\ owner # External => owner \in 0..count /\ new.slot = t.slots[owner]
    BY <2>2 DEF NewSymbol, SymbolRecords, External, NoSlot, NoSymbol
  <2>4. /\ u.symbols \in Seq(SymbolRecords(count))
        /\ Len(u.symbols) = last
        /\ \A i \in 1..Len(t.symbols) : u.symbols[i] = t.symbols[i]
        /\ u.symbols[last] = new
    <3>1. u.symbols = Append(t.symbols, new)
      BY <2>1
    <3> HIDE DEF new
    <3> QED BY <2>2, <2>3, <3>1, AppendProperties
  <2>5. /\ u.slots \in [0..count -> Nat]
        /\ \A s \in 0..count : u.slots[s] = IF s = owner THEN t.slots[s] + 1 ELSE t.slots[s]
    BY <2>1, <2>2 DEF External
  <2>6. u \in TablesOf(count)
    BY <2>1, <2>4, <2>5 DEF TablesOf
  <2> HIDE DEF u, new
  <2>7. Extends(t, u)
    BY <2>2, <2>4 DEF Extends
  <2>8. 1..Len(t.symbols) \subseteq 1..last /\ last \in 1..last /\ last \notin 1..Len(t.symbols)
    BY <2>2
  <2>9. /\ \A i \in 1..last : i \in 1..Len(t.symbols) \/ i = last
        /\ last \in Nat
    BY <2>2
  <2> HIDE DEF last
  <2>10. \A m, o : Has(u, m, o) <=> (Has(t, m, o) \/ (m = n /\ o = owner))
    <3> SUFFICES ASSUME NEW m, NEW o
                 PROVE  Has(u, m, o) <=> (Has(t, m, o) \/ (m = n /\ o = owner))
      OBVIOUS
    <3>1. Has(u, m, o) => Has(t, m, o) \/ (m = n /\ o = owner)
      BY <2>3, <2>4, <2>9 DEF Has
    <3>2. Has(t, m, o) => Has(u, m, o)
      BY <2>4, <2>8 DEF Has
    <3>3. m = n /\ o = owner => Has(u, m, o)
      BY <2>3, <2>4, <2>8 DEF Has
    <3> QED BY <3>1, <3>2, <3>3
  <2>11. \A i \in 1..Len(t.symbols) :
           t.symbols[i].owner \in External..count /\ t.symbols[i].fallback \in Nat
    <3>1. \A i \in 1..Len(t.symbols) : t.symbols[i] \in SymbolRecords(count)
      BY <2>2, ElementOfSeq
    <3> QED BY <3>1 DEF SymbolRecords
  <2>12. \A i \in 1..last : u.symbols[i].fallback <= last
    <3> SUFFICES ASSUME NEW i \in 1..last PROVE u.symbols[i].fallback <= last
      OBVIOUS
    <3>1. CASE i = last
      BY <2>3, <2>4, <2>9, <3>1
    <3>2. CASE i \in 1..Len(t.symbols)
      <4>1. t.symbols[i].fallback <= Len(t.symbols) /\ Len(t.symbols) <= last
        BY <2>2, <3>2 DEF WellFormed, last
      <4> QED BY <2>2, <2>4, <2>9, <2>11, <3>2, <4>1
    <3> QED BY <2>9, <3>1, <3>2
  <2>13. \A i, j \in 1..last : SameKey(u.symbols[i], u.symbols[j]) => i = j
    <3>1. \A i \in 1..Len(t.symbols) :
            ~SameKey(u.symbols[i], u.symbols[last]) /\ ~SameKey(u.symbols[last], u.symbols[i])
      BY <1>2, <2>3, <2>4 DEF SameKey, Has
    <3>2. \A i, j \in 1..Len(t.symbols) : SameKey(u.symbols[i], u.symbols[j]) => i = j
      BY <2>4 DEF WellFormed
    <3> QED BY <2>9, <3>1, <3>2
  <2>14. \A i \in 1..Len(t.symbols) :
           u.symbols[i].owner # External =>
             u.symbols[i].slot \in 0..t.slots[u.symbols[i].owner] - 1
    BY <2>4 DEF WellFormed
  <2>15. \A i \in 1..last :
           u.symbols[i].owner # External =>
             u.symbols[i].slot \in 0..u.slots[u.symbols[i].owner] - 1
    <3> SUFFICES ASSUME NEW i \in 1..last, u.symbols[i].owner # External
                 PROVE  u.symbols[i].slot \in 0..u.slots[u.symbols[i].owner] - 1
      OBVIOUS
    <3>1. CASE i = last
      <4>1. u.symbols[i].owner = owner /\ owner \in 0..count /\ u.symbols[i].slot = t.slots[owner]
        BY <2>3, <2>4, <3>1
      <4>2. t.slots[owner] \in Nat
        BY <2>2, <4>1
      <4>3. u.slots[owner] = t.slots[owner] + 1
        BY <2>5, <4>1
      <4>4. t.slots[owner] \in 0..u.slots[owner] - 1
        BY <4>2, <4>3
      <4> QED BY <4>1, <4>4
    <3>2. CASE i \in 1..Len(t.symbols)
      <4>1. PICK s \in 0..count : s = u.symbols[i].owner
        BY <2>4, <2>11, <3>2 DEF External
      <4>2. t.slots[s] \in Nat /\ u.slots[s] \in Nat /\ t.slots[s] <= u.slots[s]
        <5>1. t.slots[s] \in Nat
          BY <2>2
        <5>2. u.slots[s] = IF s = owner THEN t.slots[s] + 1 ELSE t.slots[s]
          BY <2>5
        <5> QED BY <5>1, <5>2
      <4>3. u.symbols[i].slot \in 0..t.slots[s] - 1
        BY <2>14, <3>2, <4>1
      <4> QED BY <4>1, <4>2, <4>3
    <3> QED BY <2>9, <3>1, <3>2
  <2>16. \A i, j \in 1..last :
           /\ u.symbols[i].owner = u.symbols[j].owner
           /\ u.symbols[i].owner # External
           /\ u.symbols[i].slot = u.symbols[j].slot
           => i = j
    <3>1. \A i \in 1..Len(t.symbols) :
            ~(/\ u.symbols[i].owner = u.symbols[last].owner
              /\ u.symbols[i].owner # External
              /\ u.symbols[i].slot = u.symbols[last].slot)
      <4> SUFFICES ASSUME NEW i \in 1..Len(t.symbols),
                          u.symbols[i].owner = u.symbols[last].owner,
                          u.symbols[i].owner # External,
                          u.symbols[i].slot = u.symbols[last].slot
                   PROVE  FALSE
        OBVIOUS
      <4>1. owner \in 0..count /\ u.symbols[i].slot = t.slots[owner]
        BY <2>3, <2>4
      <4>2. u.symbols[i].slot \in 0..t.slots[owner] - 1
        BY <2>3, <2>4, <2>14
      <4>3. t.slots[owner] \in Nat
        BY <2>2, <4>1
      <4> QED BY <4>1, <4>2, <4>3
    <3>2. \A i, j \in 1..Len(t.symbols) :
            /\ u.symbols[i].owner = u.symbols[j].owner
            /\ u.symbols[i].owner # External
            /\ u.symbols[i].slot = u.symbols[j].slot
            => i = j
      BY <2>4 DEF WellFormed
    <3> QED BY <2>9, <3>1, <3>2
  <2>17. \A s \in 0..count : \A k \in 0..u.slots[s] - 1 :
           \E i \in 1..last : u.symbols[i].owner = s /\ u.symbols[i].slot = k
    <3> SUFFICES ASSUME NEW s \in 0..count, NEW k \in 0..u.slots[s] - 1
                 PROVE  \E i \in 1..last : u.symbols[i].owner = s /\ u.symbols[i].slot = k
      OBVIOUS
    <3>1. CASE k \in 0..t.slots[s] - 1
      <4>1. PICK i \in 1..Len(t.symbols) : t.symbols[i].owner = s /\ t.symbols[i].slot = k
        BY <3>1 DEF WellFormed
      <4> QED BY <2>4, <2>8, <4>1
    <3>2. CASE k \notin 0..t.slots[s] - 1
      <4>1. s = owner /\ k = t.slots[s]
        <5>1. t.slots[s] \in Nat
          BY <2>2
        <5>2. u.slots[s] = IF s = owner THEN t.slots[s] + 1 ELSE t.slots[s]
          BY <2>5
        <5> QED BY <3>2, <5>1, <5>2
      <4>2. owner # External
        BY <4>1 DEF External
      <4> QED BY <2>3, <2>4, <2>8, <4>1, <4>2
    <3> QED BY <3>1, <3>2
  <2>18. WellFormed(u, count)
    BY <2>4, <2>6, <2>12, <2>13, <2>15, <2>16, <2>17 DEF WellFormed
  <2> QED BY <2>7, <2>10, <2>18 DEF u
<1> QED BY <1>1, <1>2

-----------------------------------------------------------------------------
(* The inductive invariant *)

Walks == {"params", "explicit", "implicit", "link", "resolve", "labels", "gotos",
          "loops", "done"}

ParamUpto(s, n, k) ==
  s # 0 /\ \E i \in 1..Len(program.params[s]) : i < k /\ program.params[s][i] = n

Declaring(s, n, i) == At(s, i).kind \in {"declare", "foreach"} /\ n \in {At(s, i).name, At(s, i).index}

DeclaredUpto(s, n, k) == \E i \in 1..Len(program.body[s]) : i < k /\ Declaring(s, n, i)

AssignedUpto(s, n, k) ==
  \E i \in 1..Len(program.body[s]) :
    i < k /\ At(s, i).kind = "assign" /\ At(s, i).name = n

(* Whether the table has n as a name of scope s by now. *)
Held(s, n) ==
  /\ Collected \/ s < scope => Owns(s, n)
  /\ ~Collected =>
       /\ s <= scope
       /\ s = scope /\ walk = "params" => ParamUpto(s, n, pos)
       /\ s = scope /\ walk = "explicit" => IsParam(s, n) \/ DeclaredUpto(s, n, pos)
       /\ s = scope /\ walk = "implicit" =>
            Declares(s, n) \/ (AssignedUpto(s, n, pos) /\ (s = 0 \/ ~Owns(0, n)))

ControlInv ==
  /\ program \in Programs
  /\ walk \in Walks
  /\ scope \in Scopes
  /\ pos \in Nat \ {0}
  /\ walk = "params" => scope # 0 /\ pos <= Len(program.params[scope]) + 1

NamesInv == \A s \in Scopes : \A n \in Names : Has(table, n, s) <=> Held(s, n)

ParamsDone(f) == Collected \/ f < scope \/ (f = scope /\ walk # "params")

ParamsInv ==
  /\ param_slots \in [1..program.count -> Seq(Int)]
  /\ \A f \in 1..program.count :
       /\ Len(param_slots[f]) = IF ParamsDone(f) THEN Len(program.params[f])
                                ELSE IF f = scope THEN pos - 1 ELSE 0
       /\ \A i \in 1..Len(param_slots[f]) :
            IF program.params[f][i] = NoName THEN param_slots[f][i] = NoSlot
            ELSE \E j \in 1..Len(table.symbols) :
                   /\ table.symbols[j].name = program.params[f][i]
                   /\ table.symbols[j].owner = f
                   /\ table.symbols[j].slot = param_slots[f][i]

Roles == {"declaration", "read", "write", "foreach-value", "foreach-index"}

RefsInv ==
  /\ bindings \in Seq([node : Nodes, role : Roles, symbol : 1..Len(table.symbols)])
  /\ gotos \in Seq([node : Nodes, label : 1..Len(labels)])
  /\ \E S : labels \in Seq(S)

IInv ==
  /\ ControlInv
  /\ WellFormed(table, program.count)
  /\ NamesInv
  /\ ParamsInv
  /\ RefsInv

LEMMA ProgramFacts ==
  ASSUME ControlInv
  PROVE  /\ program.count \in Nat
         /\ program.body \in [Scopes -> Seq(Items)]
         /\ program.params \in [1..program.count -> Seq(Names \cup {NoName})]
         /\ program.defaults \in [1..program.count -> Seq(Items)]
         /\ \A s \in Scopes : \A i \in 1..Len(program.body[s]) :
              program.body[s][i].kind \in Named => program.body[s][i].name \in Names
         /\ \A s \in 1..program.count : \A i \in 1..Len(program.defaults[s]) :
              /\ program.defaults[s][i].kind \in {"read", "assign"}
              /\ program.defaults[s][i].name \in Names
  BY ProgramsAssumption DEF ControlInv, Scopes

LEMMA Initially ==
  ASSUME Init
  PROVE  IInv
<1>1. ControlInv /\ program.count \in Nat
  <2>1. program.count \in Nat
    BY ProgramsAssumption DEF Init
  <2> QED BY <2>1 DEF Init, ControlInv, Walks, Scopes
<1>2. table.symbols = <<>> /\ Len(table.symbols) = 0
      /\ table.slots = [s \in 0..program.count |-> 0]
  BY DEF Init
<1>3. WellFormed(table, program.count)
  <2>1. table \in TablesOf(program.count)
    BY <1>1 DEF Init, TablesOf
  <2> QED BY <1>1, <1>2, <2>1 DEF WellFormed
<1>4. NamesInv
  <2> SUFFICES ASSUME NEW s \in Scopes, NEW n \in Names PROVE ~Has(table, n, s) /\ ~Held(s, n)
    BY DEF NamesInv
  <2>1. ~Has(table, n, s)
    BY <1>2 DEF Has
  <2>2. s \in Nat /\ scope = 0 /\ pos = 1 /\ walk = "explicit"
    BY <1>1 DEF Init, Scopes
  <2>3. s = 0 => ~IsParam(s, n) /\ ~DeclaredUpto(s, n, pos)
    BY <2>2 DEF IsParam, DeclaredUpto
  <2>4. ~Held(s, n)
    BY <2>2, <2>3 DEF Held, Collected
  <2> QED BY <2>1, <2>4
<1>5. ParamsInv
  <2>1. param_slots = [f \in 1..program.count |-> <<>>] /\ scope = 0 /\ walk = "explicit"
    BY DEF Init
  <2>2. \A f \in 1..program.count : ~ParamsDone(f) /\ f # scope /\ param_slots[f] = <<>>
    BY <1>1, <2>1 DEF ParamsDone, Collected
  <2> QED BY <2>1, <2>2 DEF ParamsInv
<1>6. RefsInv
  <2>1. bindings = <<>> /\ gotos = <<>> /\ labels = <<>>
    BY DEF Init
  <2>2. \A S : <<>> \in Seq(S)
    OBVIOUS
  <2> QED BY <2>1, <2>2 DEF RefsInv
<1> QED BY <1>1, <1>3, <1>4, <1>5, <1>6 DEF IInv

-----------------------------------------------------------------------------
(* The steps *)

(* References into the table survive its growth.                           *)
LEMMA BindingsSurvive ==
  ASSUME IInv, WellFormed(table', program.count), Extends(table, table')
  PROVE  bindings \in Seq([node : Nodes, role : Roles, symbol : 1..Len(table'.symbols)])
<1>1. Len(table.symbols) \in Nat /\ Len(table'.symbols) \in Nat
  BY DEF IInv, WellFormed, TablesOf
<1>2. 1..Len(table.symbols) \subseteq 1..Len(table'.symbols)
  BY <1>1 DEF Extends
<1>3. [node : Nodes, role : Roles, symbol : 1..Len(table.symbols)] \subseteq
      [node : Nodes, role : Roles, symbol : 1..Len(table'.symbols)]
  BY <1>2
<1> QED BY <1>3, SeqMonotonic DEF IInv, RefsInv

LEMMA ParamsSurvive ==
  ASSUME IInv, WellFormed(table', program.count), Extends(table, table'),
         UNCHANGED <<program, walk, scope, param_slots>>, walk # "params"
  PROVE  ParamsInv'
<1>1. Len(table.symbols) \in Nat /\ Len(table'.symbols) \in Nat
  BY DEF IInv, WellFormed, TablesOf
<1>2. \A f \in 1..program.count : f # scope => (ParamsDone(f)' <=> ParamsDone(f))
  BY DEF ParamsDone, Collected
<1>3. ParamsDone(scope) /\ ParamsDone(scope)'
  BY DEF ParamsDone
<1>4. \A f \in 1..program.count : (ParamsDone(f)' <=> ParamsDone(f)) /\ (f = scope => ParamsDone(f))
  BY <1>2, <1>3 DEF ParamsDone, Collected
<1>5. \A j \in 1..Len(table.symbols) :
        /\ j \in 1..Len(table'.symbols)
        /\ table'.symbols[j].name = table.symbols[j].name
        /\ table'.symbols[j].owner = table.symbols[j].owner
        /\ table'.symbols[j].slot = table.symbols[j].slot
  BY <1>1 DEF Extends
<1>6. \A f \in 1..program.count :
        Len(param_slots[f]) = IF ParamsDone(f)' THEN Len(program.params[f])
                              ELSE IF f = scope THEN pos' - 1 ELSE 0
  BY <1>4 DEF IInv, ParamsInv
<1>7. \A f \in 1..program.count : \A i \in 1..Len(param_slots[f]) :
        IF program.params[f][i] = NoName THEN param_slots[f][i] = NoSlot
        ELSE \E j \in 1..Len(table'.symbols) :
               /\ table'.symbols[j].name = program.params[f][i]
               /\ table'.symbols[j].owner = f
               /\ table'.symbols[j].slot = param_slots[f][i]
  <2> SUFFICES ASSUME NEW f \in 1..program.count, NEW i \in 1..Len(param_slots[f]),
                      program.params[f][i] # NoName
               PROVE  \E j \in 1..Len(table'.symbols) :
                        /\ table'.symbols[j].name = program.params[f][i]
                        /\ table'.symbols[j].owner = f
                        /\ table'.symbols[j].slot = param_slots[f][i]
    BY DEF IInv, ParamsInv
  <2>1. PICK j \in 1..Len(table.symbols) :
          /\ table.symbols[j].name = program.params[f][i]
          /\ table.symbols[j].owner = f
          /\ table.symbols[j].slot = param_slots[f][i]
    BY DEF IInv, ParamsInv
  <2> QED BY <1>5, <2>1
<1>8. param_slots' = param_slots /\ program' = program /\ scope' = scope
  OBVIOUS
<1>9. param_slots \in [1..program.count -> Seq(Int)]
  BY DEF IInv, ParamsInv
<1> QED BY <1>6, <1>7, <1>8, <1>9 DEF ParamsInv

LEMMA VisitControl ==
  ASSUME IInv, UNCHANGED <<program, walk, scope>>, walk # "params", pos' = pos + 1
  PROVE  ControlInv'
  BY DEF IInv, ControlInv, Scopes

(* A pass over a body that only adds symbols.                              *)
LEMMA TableStep ==
  ASSUME IInv, UNCHANGED <<program, walk, scope, param_slots, bindings, labels, gotos>>,
         walk # "params", pos' = pos + 1, WellFormed(table', program.count),
         Extends(table, table'), NamesInv'
  PROVE  IInv'
<1>1. ControlInv'
  BY VisitControl
<1>2. ParamsInv'
  BY ParamsSurvive
<1>3. RefsInv'
  BY BindingsSurvive DEF IInv, RefsInv
<1> QED BY <1>1, <1>2, <1>3 DEF IInv

(* Nothing the table says of scopes is touched once they are collected.    *)
LEMMA NamesSettled ==
  ASSUME IInv, Collected, Collected', program' = program,
         \A s \in Scopes : \A n \in Names : Has(table', n, s) <=> Has(table, n, s)
  PROVE  NamesInv'
<1>1. \A s, n : Held(s, n) <=> Owns(s, n)
  BY DEF Held
<1>2. \A s, n : Held(s, n)' <=> Owns(s, n)'
  BY DEF Held
<1>3. \A s, n : Owns(s, n)' <=> Owns(s, n)
  BY DEF Owns, Declares, Assigns, IsParam, At
<1> QED BY <1>1, <1>2, <1>3 DEF IInv, NamesInv, Scopes

LEMMA SameTable ==
  ASSUME IInv
  PROVE  Extends(table, table)
  BY DEF Extends, IInv, WellFormed, TablesOf

(* The node a pass over bodies is at.                                      *)
LEMMA NodeInBody ==
  ASSUME IInv, walk \in {"explicit", "implicit", "labels", "gotos", "loops"},
         pos <= Len(Visited)
  PROVE  /\ Node = At(scope, pos)
         /\ pos \in 1..Len(program.body[scope])
         /\ Node \in Items
         /\ Node.kind \in Named => Node.name \in Names
<1>1. Visited = program.body[scope]
  BY DEF Visited
<1>2. program.body[scope] \in Seq(Items) /\ scope \in Scopes /\ pos \in Nat \ {0}
  BY ProgramFacts DEF IInv, ControlInv
<1>3. pos \in 1..Len(program.body[scope])
  BY <1>1, <1>2
<1>4. Node = program.body[scope][pos]
  BY <1>1 DEF Node
<1>5. Node \in Items
  BY <1>2, <1>3, <1>4, ElementOfSeq
<1>6. Node.kind \in Named => Node.name \in Names
  BY <1>2, <1>3, <1>4, ProgramFacts DEF IInv
<1> QED BY <1>3, <1>4, <1>5, <1>6 DEF At

(* The passes over labels, gotos and loops leave the tables alone.         *)
LEMMA QuietStep ==
  ASSUME IInv, walk \in {"labels", "gotos", "loops"}, walk' \in {walk, "done"},
         UNCHANGED <<program, scope, table, param_slots>>, pos' = pos + 1, RefsInv'
  PROVE  IInv'
<1>1. Collected /\ Collected'
  BY DEF Collected
<1>2. ControlInv'
  BY DEF IInv, ControlInv, Scopes, Walks
<1>3. NamesInv'
  BY <1>1, NamesSettled
<1>4. ParamsInv'
  <2>1. \A f \in 1..program.count : ParamsDone(f) /\ ParamsDone(f)'
    BY <1>1 DEF ParamsDone
  <2> QED BY <2>1 DEF IInv, ParamsInv
<1> QED BY <1>2, <1>3, <1>4 DEF IInv

LEMMA CheckLoopStep ==
  ASSUME IInv, CheckLoop
  PROVE  IInv'
<1>1. /\ walk = "loops" /\ walk' \in {walk, "done"} /\ pos' = pos + 1
      /\ UNCHANGED <<program, scope, table, param_slots, bindings, labels, gotos>>
  BY DEF CheckLoop, Visiting, resolution_error
<1>2. RefsInv'
  BY <1>1 DEF IInv, RefsInv
<1> QED BY <1>1, <1>2, QuietStep

LEMMA CollectLabelStep ==
  ASSUME IInv, CollectLabel
  PROVE  IInv'
<1>1. /\ walk = "labels" /\ walk' \in {walk, "done"} /\ pos' = pos + 1
      /\ UNCHANGED <<program, scope, table, param_slots, bindings, gotos>>
  BY DEF CollectLabel, Visiting, resolution_error
<1> DEFINE label == [name |-> Node.name, scope |-> scope, foreach |-> enclosing_foreach]
<1>2. labels' = labels \/ labels' = Append(labels, label)
  BY DEF CollectLabel
<1> HIDE DEF label
<1>3. PICK S : labels \in Seq(S)
  BY DEF IInv, RefsInv
<1>4. labels' \in Seq(S \cup {label}) /\ Len(labels) \in Nat /\ Len(labels') \in Nat
      /\ Len(labels) <= Len(labels')
  <2>1. labels \in Seq(S \cup {label})
    BY <1>3, SeqMonotonic
  <2>2. Append(labels, label) \in Seq(S \cup {label}) /\ Len(Append(labels, label)) = Len(labels) + 1
    BY <2>1, AppendProperties
  <2>3. Len(labels) \in Nat
    BY <2>1, LenProperties
  <2> QED BY <1>2, <2>1, <2>2, <2>3
<1>5. gotos \in Seq([node : Nodes, label : 1..Len(labels')])
  <2>1. [node : Nodes, label : 1..Len(labels)] \subseteq [node : Nodes, label : 1..Len(labels')]
    BY <1>4
  <2> QED BY <2>1, SeqMonotonic DEF IInv, RefsInv
<1>6. RefsInv'
  BY <1>1, <1>4, <1>5 DEF IInv, RefsInv
<1> QED BY <1>1, <1>6, QuietStep

LEMMA BindGotoStep ==
  ASSUME IInv, BindGoto
  PROVE  IInv'
<1>1. /\ walk = "gotos" /\ walk' \in {walk, "done"} /\ pos' = pos + 1
      /\ UNCHANGED <<program, scope, table, param_slots, bindings, labels>>
  BY DEF BindGoto, Visiting, resolution_error
<1>2. gotos' \in Seq([node : Nodes, label : 1..Len(labels)])
  <2>1. gotos \in Seq([node : Nodes, label : 1..Len(labels)])
    BY DEF IInv, RefsInv
  <2>2. CASE gotos' = gotos
    BY <2>1, <2>2
  <2>3. CASE gotos' # gotos
    <3>1. PICK l \in find_label(Node.name) :
            gotos' = Append(gotos, [node |-> Node.node, label |-> l])
      BY <2>3 DEF BindGoto
    <3>2. l \in 1..Len(labels)
      BY DEF find_label
    <3>3. Node.node \in Nodes
      BY <1>1, NodeInBody DEF BindGoto, Visiting, Items
    <3> QED BY <2>1, <3>1, <3>2, <3>3, AppendProperties
  <2> QED BY <2>2, <2>3
<1>3. RefsInv'
  BY <1>1, <1>2 DEF IInv, RefsInv
<1> QED BY <1>1, <1>3, QuietStep

-----------------------------------------------------------------------------
(* Collecting the names of a scope *)

(* What the table holds of the scopes before and after the one the pass    *)
(* is in does not change.                                                  *)
LEMMA OtherScopes ==
  ASSUME IInv, ~Collected, UNCHANGED <<program, walk, scope>>,
         NEW s \in Scopes, s # scope, NEW n \in Names
  PROVE  Held(s, n)' <=> Held(s, n)
<1>1. ~Collected'
  BY DEF Collected
<1>2. Owns(s, n)' <=> Owns(s, n)
  BY DEF Owns, Declares, Assigns, IsParam, At
<1> QED BY <1>1, <1>2 DEF Held

LEMMA CollectExplicitStep ==
  ASSUME IInv, CollectExplicit
  PROVE  IInv'
<1>1. /\ walk = "explicit" /\ pos' = pos + 1 /\ pos <= Len(Visited)
      /\ UNCHANGED <<program, walk, scope, param_slots, bindings, labels, gotos>>
  BY DEF CollectExplicit, Visiting
<1>2. /\ Node = At(scope, pos) /\ pos \in 1..Len(program.body[scope])
      /\ Node \in Items /\ (Node.kind \in Named => Node.name \in Names)
  BY <1>1, NodeInBody
<1>3. ~Collected /\ ~Collected'
  BY <1>1 DEF Collected
<1>4. /\ program.count \in Nat /\ WellFormed(table, program.count)
      /\ scope \in External..program.count /\ scope \in Scopes
  BY ProgramFacts DEF IInv, ControlInv, Scopes, External
<1> DEFINE declaring == Node.kind \in {"declare", "foreach"}
           value == add_symbol(table, Node.name, scope, FALSE)
<1>5. /\ WellFormed(table', program.count)
      /\ Extends(table, table')
      /\ \A n \in Names : \A s :
           Has(table', n, s) <=> Has(table, n, s) \/ (s = scope /\ Declaring(scope, n, pos))
  <2>1. CASE ~declaring
    <3>1. table' = table
      BY <2>1 DEF CollectExplicit
    <3>2. \A n : ~Declaring(scope, n, pos)
      BY <1>2, <2>1 DEF Declaring
    <3> QED BY <1>4, <3>1, <3>2, SameTable
  <2>2. CASE declaring
    <3>1. Node.name \in Names
      BY <1>2, <2>2 DEF Named
    <3>2. /\ WellFormed(value, program.count)
          /\ Extends(table, value)
          /\ \A m, o : Has(value, m, o) <=> (Has(table, m, o) \/ (m = Node.name /\ o = scope))
      BY <1>4, <3>1, AddSymbol
    <3>3. \A n : Declaring(scope, n, pos) <=> n = Node.name \/ n = Node.index
      BY <1>2, <2>2 DEF Declaring
    <3>4. CASE Node.index = NoName
      <4>1. table' = value
        BY <2>2, <3>4 DEF CollectExplicit
      <4>2. \A n \in Names : Declaring(scope, n, pos) <=> n = Node.name
        BY <3>3, <3>4, ProgramsAssumption
      <4> HIDE DEF value
      <4> QED BY <3>2, <4>1, <4>2
    <3>5. CASE Node.index # NoName
      <4> DEFINE both == add_symbol(value, Node.index, scope, FALSE)
      <4>1. Node.index \in Names
        BY <1>2, <3>5 DEF Items
      <4>2. table' = both
        BY <2>2, <3>5 DEF CollectExplicit
      <4> HIDE DEF value
      <4>3. /\ WellFormed(both, program.count)
            /\ Extends(value, both)
            /\ \A m, o : Has(both, m, o) <=> (Has(value, m, o) \/ (m = Node.index /\ o = scope))
        BY <1>4, <3>2, <4>1, AddSymbol
      <4> HIDE DEF both
      <4>4. Extends(table, both)
        <5>1. Len(table.symbols) \in Nat /\ Len(value.symbols) \in Nat /\ Len(both.symbols) \in Nat
          BY <1>4, <3>2, <4>3 DEF WellFormed, TablesOf
        <5> QED BY <3>2, <4>3, <5>1 DEF Extends
      <4> QED BY <3>2, <3>3, <4>2, <4>3, <4>4
    <3> QED BY <3>4, <3>5
  <2> QED BY <2>1, <2>2
<1>6. NamesInv'
  <2> SUFFICES ASSUME NEW s \in Scopes, NEW n \in Names
               PROVE  Has(table', n, s) <=> Held(s, n)'
    BY <1>1 DEF NamesInv, Scopes
  <2>1. Has(table, n, s) <=> Held(s, n)
    BY DEF IInv, NamesInv
  <2>2. CASE s # scope
    BY <1>1, <1>3, <1>5, <2>1, <2>2, OtherScopes
  <2>3. CASE s = scope
    <3>1. DeclaredUpto(s, n, pos)' <=> DeclaredUpto(s, n, pos) \/ Declaring(s, n, pos)
      <4>1. DeclaredUpto(s, n, pos)' <=> DeclaredUpto(s, n, pos + 1)
        BY <1>1 DEF DeclaredUpto, Declaring, At
      <4>2. \A i \in 1..Len(program.body[s]) : i < pos + 1 <=> i < pos \/ i = pos
        BY <1>2, <2>3
      <4>3. pos \in 1..Len(program.body[s])
        BY <1>2, <2>3
      <4> QED BY <4>1, <4>2, <4>3 DEF DeclaredUpto
    <3>2. Held(s, n) <=> IsParam(s, n) \/ DeclaredUpto(s, n, pos)
      BY <1>1, <1>3, <1>4, <2>3 DEF Held, Scopes
    <3>3. Held(s, n)' <=> IsParam(s, n)' \/ DeclaredUpto(s, n, pos)'
      BY <1>1, <1>3, <1>4, <2>3 DEF Held, Scopes
    <3>4. IsParam(s, n)' <=> IsParam(s, n)
      BY <1>1 DEF IsParam
    <3> QED BY <1>5, <2>1, <2>3, <3>1, <3>2, <3>3, <3>4
  <2> QED BY <2>2, <2>3
<1> QED BY <1>1, <1>5, <1>6, TableStep

LEMMA CollectImplicitStep ==
  ASSUME IInv, CollectImplicit
  PROVE  IInv'
<1>1. /\ walk = "implicit" /\ pos' = pos + 1 /\ pos <= Len(Visited)
      /\ UNCHANGED <<program, walk, scope, param_slots, bindings, labels, gotos>>
  BY DEF CollectImplicit, Visiting
<1>2. /\ Node = At(scope, pos) /\ pos \in 1..Len(program.body[scope])
      /\ Node \in Items /\ (Node.kind \in Named => Node.name \in Names)
  BY <1>1, NodeInBody
<1>3. ~Collected /\ ~Collected'
  BY <1>1 DEF Collected
<1>4. /\ program.count \in Nat /\ WellFormed(table, program.count)
      /\ scope \in External..program.count /\ scope \in Scopes /\ 0 \in Scopes
  BY ProgramFacts DEF IInv, ControlInv, Scopes, External
<1> DEFINE adds == Node.kind = "assign" /\ scope_symbol(table, Node.name) = NoSymbol
<1>5. scope_symbol(table, Node.name) = NoSymbol <=>
        ~Has(table, Node.name, scope) /\ ~Has(table, Node.name, 0)
  BY <1>4, FindSymbol DEF scope_symbol
<1>6. /\ WellFormed(table', program.count)
      /\ Extends(table, table')
      /\ \A n, s : Has(table', n, s) <=>
                     Has(table, n, s) \/ (adds /\ s = scope /\ n = Node.name)
  <2>1. CASE ~adds
    BY <1>4, <2>1, SameTable DEF CollectImplicit
  <2>2. CASE adds
    <3>1. Node.name \in Names
      BY <1>2, <2>2 DEF Named
    <3>2. table' = add_symbol(table, Node.name, scope, FALSE)
      BY <2>2 DEF CollectImplicit
    <3> QED BY <1>4, <2>2, <3>1, <3>2, AddSymbol
  <2> QED BY <2>1, <2>2
<1>7. NamesInv'
  <2> SUFFICES ASSUME NEW s \in Scopes, NEW n \in Names
               PROVE  Has(table', n, s) <=> Held(s, n)'
    BY <1>1 DEF NamesInv, Scopes
  <2>1. (Has(table, n, s) <=> Held(s, n)) /\ (Has(table, n, 0) <=> Held(0, n))
    BY <1>4 DEF IInv, NamesInv
  <2>2. CASE s # scope
    BY <1>1, <1>3, <1>6, <2>1, <2>2, OtherScopes
  <2>3. CASE s = scope
    <3> DEFINE here == Node.kind = "assign" /\ Node.name = n
               outer == s = 0 \/ ~Owns(0, n)
    <3>1. AssignedUpto(s, n, pos)' <=> AssignedUpto(s, n, pos) \/ here
      <4>1. AssignedUpto(s, n, pos)' <=> AssignedUpto(s, n, pos + 1)
        BY <1>1 DEF AssignedUpto, At
      <4>2. \A i \in 1..Len(program.body[s]) : i < pos + 1 <=> i < pos \/ i = pos
        BY <1>2, <2>3
      <4>3. pos \in 1..Len(program.body[s]) /\ Node = At(s, pos)
        BY <1>2, <2>3
      <4> QED BY <4>1, <4>2, <4>3 DEF AssignedUpto
    <3>2. Held(s, n) <=> Declares(s, n) \/ (AssignedUpto(s, n, pos) /\ outer)
      BY <1>1, <1>3, <1>4, <2>3 DEF Held, Scopes
    <3>3. Held(s, n)' <=> Declares(s, n) \/ (AssignedUpto(s, n, pos)' /\ outer)
      <4>1. /\ Declares(s, n)' <=> Declares(s, n)
            /\ Owns(0, n)' <=> Owns(0, n)
        BY <1>1 DEF Owns, Declares, Assigns, IsParam, At
      <4> QED BY <1>1, <1>3, <1>4, <2>3, <4>1 DEF Held, Scopes
    <3>4. s # 0 => (Has(table, n, 0) <=> Owns(0, n))
      BY <1>3, <1>4, <2>1, <2>3 DEF Held, Scopes
    <3>5. here => (adds <=> ~Has(table, n, s) /\ ~Has(table, n, 0))
      BY <1>5, <2>3
    <3>6. Has(table', n, s) <=> Has(table, n, s) \/ (adds /\ here)
      BY <1>6, <2>3
    <3> HIDE DEF adds, here
    <3> QED BY <2>1, <3>1, <3>2, <3>3, <3>4, <3>5, <3>6
  <2> QED BY <2>2, <2>3
<1> QED BY <1>1, <1>6, <1>7, TableStep

LEMMA AddParameterStep ==
  ASSUME IInv, AddParameter
  PROVE  IInv'
<1>1. /\ walk = "params" /\ pos' = pos + 1 /\ pos <= Len(Visited) /\ Visited = program.params[scope]
      /\ UNCHANGED <<program, walk, scope, bindings, labels, gotos>>
  BY DEF AddParameter, Visiting, Visited
<1>2. /\ program.count \in Nat /\ WellFormed(table, program.count)
      /\ scope \in External..program.count /\ scope \in 1..program.count /\ scope \in Scopes
      /\ program.params[scope] \in Seq(Names \cup {NoName}) /\ pos \in Nat \ {0}
  <2>1. /\ ControlInv /\ WellFormed(table, program.count)
        /\ scope \in Scopes /\ scope # 0 /\ pos \in Nat \ {0}
    BY <1>1 DEF IInv, ControlInv
  <2>2. program.count \in Nat
        /\ program.params \in [1..program.count -> Seq(Names \cup {NoName})]
    BY <2>1, ProgramFacts
  <2>3. scope \in External..program.count /\ scope \in 1..program.count
    BY <2>1, <2>2 DEF Scopes, External
  <2> QED BY <2>1, <2>2, <2>3
<1> DEFINE params == program.params[scope]
<1>3. pos \in 1..Len(params) /\ Len(params) \in Nat /\ Node = params[pos]
      /\ Node \in Names \cup {NoName}
  <2>1. Len(params) \in Nat
    BY <1>2, LenProperties
  <2>2. pos \in 1..Len(params)
    BY <1>1, <1>2, <2>1
  <2>3. Node = params[pos]
    BY <1>1 DEF Node
  <2> QED BY <1>2, <2>1, <2>2, <2>3, ElementOfSeq
<1>4. ~Collected /\ ~Collected'
  BY <1>1 DEF Collected
<1>5. ControlInv'
  BY <1>1, <1>2, <1>3 DEF IInv, ControlInv, Scopes
<1>6. /\ WellFormed(table', program.count)
      /\ Extends(table, table')
      /\ \A n \in Names : \A s : Has(table', n, s) <=> Has(table, n, s) \/ (s = scope /\ n = Node)
  <2>1. CASE Node = NoName
    <3>1. table' = table
      BY <2>1 DEF AddParameter
    <3>2. \A n \in Names : n # Node
      BY <2>1, ProgramsAssumption
    <3> QED BY <1>2, <3>1, <3>2, SameTable
  <2>2. CASE Node # NoName
    <3>1. Node \in Names
      BY <1>3, <2>2
    <3> DEFINE u == add_symbol(table, Node, scope, TRUE)
    <3>2. table' = u
      BY <2>2 DEF AddParameter
    <3>3. /\ WellFormed(u, program.count)
          /\ Extends(table, u)
          /\ \A m, o : Has(u, m, o) <=> (Has(table, m, o) \/ (m = Node /\ o = scope))
      BY <1>2, <3>1, AddSymbol
    <3> HIDE DEF u
    <3> QED BY <3>2, <3>3
  <2> QED BY <2>1, <2>2
<1>7. NamesInv'
  <2> SUFFICES ASSUME NEW s \in Scopes, NEW n \in Names
               PROVE  Has(table', n, s) <=> Held(s, n)'
    BY <1>1 DEF NamesInv, Scopes
  <2>1. Has(table, n, s) <=> Held(s, n)
    BY DEF IInv, NamesInv
  <2>2. CASE s # scope
    BY <1>1, <1>4, <1>6, <2>1, <2>2, OtherScopes
  <2>3. CASE s = scope
    <3>1. ParamUpto(s, n, pos)' <=> ParamUpto(s, n, pos) \/ n = Node
      <4>1. ParamUpto(s, n, pos)' <=> ParamUpto(s, n, pos + 1)
        BY <1>1 DEF ParamUpto
      <4>2. \A i \in 1..Len(program.params[s]) : i < pos + 1 <=> i < pos \/ i = pos
        BY <1>2, <2>3
      <4>3. pos \in 1..Len(program.params[s]) /\ Node = program.params[s][pos] /\ s # 0
        BY <1>2, <1>3, <2>3
      <4> QED BY <4>1, <4>2, <4>3 DEF ParamUpto
    <3>2. Held(s, n) <=> ParamUpto(s, n, pos)
      BY <1>1, <1>2, <1>4, <2>3 DEF Held, Scopes
    <3>3. Held(s, n)' <=> ParamUpto(s, n, pos)'
      BY <1>1, <1>2, <1>4, <2>3 DEF Held, Scopes
    <3> QED BY <1>6, <2>1, <2>3, <3>1, <3>2, <3>3
  <2> QED BY <2>2, <2>3
<1> DEFINE slot == IF Node = NoName THEN NoSlot
                   ELSE table'.symbols[find_symbol(table', Node, scope)].slot
<1>8. /\ param_slots \in [1..program.count -> Seq(Int)]
      /\ param_slots' = [param_slots EXCEPT ![scope] = Append(@, slot)]
  BY DEF IInv, ParamsInv, AddParameter
<1>9. /\ slot \in Int
      /\ IF Node = NoName THEN slot = NoSlot
         ELSE \E j \in 1..Len(table'.symbols) :
                /\ table'.symbols[j].name = Node
                /\ table'.symbols[j].owner = scope
                /\ table'.symbols[j].slot = slot
  <2>1. CASE Node = NoName
    BY <2>1 DEF NoSlot
  <2>2. CASE Node # NoName
    <3>1. Has(table', Node, scope)
      BY <1>3, <1>6, <2>2
    <3> DEFINE j == find_symbol(table', Node, scope)
    <3>2. j \in 1..Len(table'.symbols) /\ table'.symbols[j].name = Node
          /\ table'.symbols[j].owner = scope
      BY <1>2, <1>6, <3>1, FindSymbol
    <3> HIDE DEF j
    <3>3. table'.symbols[j] \in SymbolRecords(program.count)
      BY <1>6, <3>2, ElementOfSeq DEF WellFormed, TablesOf
    <3>4. table'.symbols[j].slot \in Int
      BY <3>3 DEF SymbolRecords
    <3>5. slot = table'.symbols[j].slot
      BY <2>2 DEF j
    <3> QED BY <2>2, <3>2, <3>4, <3>5
  <2> QED BY <2>1, <2>2
<1> HIDE DEF slot
<1>10. /\ param_slots[scope] \in Seq(Int)
       /\ Len(param_slots[scope]) = pos - 1
  BY <1>1, <1>2, <1>4, <1>8 DEF IInv, ParamsInv, ParamsDone
<1>11. /\ Append(param_slots[scope], slot) \in Seq(Int)
       /\ Len(Append(param_slots[scope], slot)) = pos
       /\ \A i \in 1..pos - 1 : Append(param_slots[scope], slot)[i] = param_slots[scope][i]
       /\ Append(param_slots[scope], slot)[pos] = slot
  BY <1>2, <1>9, <1>10, AppendProperties
<1>12. /\ param_slots' \in [1..program.count -> Seq(Int)]
       /\ param_slots'[scope] = Append(param_slots[scope], slot)
       /\ \A f \in 1..program.count : f # scope => param_slots'[f] = param_slots[f]
  BY <1>2, <1>8, <1>11
<1>13. \A j \in 1..Len(table.symbols) :
         /\ j \in 1..Len(table'.symbols)
         /\ table'.symbols[j].name = table.symbols[j].name
         /\ table'.symbols[j].owner = table.symbols[j].owner
         /\ table'.symbols[j].slot = table.symbols[j].slot
  <2>1. Len(table.symbols) \in Nat /\ Len(table'.symbols) \in Nat
    BY <1>2, <1>6 DEF WellFormed, TablesOf
  <2> QED BY <1>6, <2>1 DEF Extends
<1>14. ParamsInv'
  <2>1. \A f \in 1..program.count :
          Len(param_slots'[f]) = IF ParamsDone(f)' THEN Len(program.params[f])
                                 ELSE IF f = scope THEN pos' - 1 ELSE 0
    <3> SUFFICES ASSUME NEW f \in 1..program.count
                 PROVE  Len(param_slots'[f]) = IF ParamsDone(f)' THEN Len(program.params[f])
                                               ELSE IF f = scope THEN pos' - 1 ELSE 0
      OBVIOUS
    <3>1. ParamsDone(f)' <=> ParamsDone(f)
      BY <1>1, <1>4 DEF ParamsDone
    <3>2. CASE f = scope
      <4>1. ~ParamsDone(f)
        BY <1>1, <1>2, <1>4, <3>2 DEF ParamsDone
      <4> QED BY <1>1, <1>2, <1>11, <1>12, <3>1, <3>2, <4>1
    <3>3. CASE f # scope
      BY <1>12, <3>1, <3>3 DEF IInv, ParamsInv
    <3> QED BY <3>2, <3>3
  <2>2. \A f \in 1..program.count : \A i \in 1..Len(param_slots[f]) :
          IF program.params[f][i] = NoName THEN param_slots[f][i] = NoSlot
          ELSE \E j \in 1..Len(table'.symbols) :
                 /\ table'.symbols[j].name = program.params[f][i]
                 /\ table'.symbols[j].owner = f
                 /\ table'.symbols[j].slot = param_slots[f][i]
    <3> SUFFICES ASSUME NEW f \in 1..program.count, NEW i \in 1..Len(param_slots[f]),
                        program.params[f][i] # NoName
                 PROVE  \E j \in 1..Len(table'.symbols) :
                          /\ table'.symbols[j].name = program.params[f][i]
                          /\ table'.symbols[j].owner = f
                          /\ table'.symbols[j].slot = param_slots[f][i]
      BY DEF IInv, ParamsInv
    <3>1. PICK j \in 1..Len(table.symbols) :
            /\ table.symbols[j].name = program.params[f][i]
            /\ table.symbols[j].owner = f
            /\ table.symbols[j].slot = param_slots[f][i]
      BY DEF IInv, ParamsInv
    <3> QED BY <1>13, <3>1
  <2>3. \A f \in 1..program.count : \A i \in 1..Len(param_slots'[f]) :
          IF program.params[f][i] = NoName THEN param_slots'[f][i] = NoSlot
          ELSE \E j \in 1..Len(table'.symbols) :
                 /\ table'.symbols[j].name = program.params[f][i]
                 /\ table'.symbols[j].owner = f
                 /\ table'.symbols[j].slot = param_slots'[f][i]
    <3> SUFFICES ASSUME NEW f \in 1..program.count, NEW i \in 1..Len(param_slots'[f])
                 PROVE  IF program.params[f][i] = NoName THEN param_slots'[f][i] = NoSlot
                        ELSE \E j \in 1..Len(table'.symbols) :
                               /\ table'.symbols[j].name = program.params[f][i]
                               /\ table'.symbols[j].owner = f
                               /\ table'.symbols[j].slot = param_slots'[f][i]
      OBVIOUS
    <3>1. CASE f # scope
      BY <1>12, <2>2, <3>1
    <3>2. CASE f = scope /\ i = pos
      BY <1>3, <1>9, <1>11, <1>12, <3>2
    <3>3. CASE f = scope /\ i # pos
      <4>1. i \in 1..pos - 1
        BY <1>2, <1>11, <1>12, <3>3
      <4>2. i \in 1..Len(param_slots[f]) /\ param_slots'[f][i] = param_slots[f][i]
        BY <1>10, <1>11, <1>12, <3>3, <4>1
      <4> QED BY <2>2, <4>2
    <3> QED BY <3>1, <3>2, <3>3
  <2>4. program' = program /\ scope' = scope /\ param_slots' \in [1..program.count -> Seq(Int)]
    BY <1>1, <1>12
  <2>5. /\ param_slots' \in [1..program'.count -> Seq(Int)]
        /\ program'.count = program.count /\ program'.params = program.params /\ scope' = scope
    BY <2>4
  <2>6. \A f \in 1..program'.count :
          Len(param_slots'[f]) = IF ParamsDone(f)' THEN Len(program'.params[f])
                                 ELSE IF f = scope' THEN pos' - 1 ELSE 0
    BY <2>1, <2>5
  <2>7. \A f \in 1..program'.count : \A i \in 1..Len(param_slots'[f]) :
          IF program'.params[f][i] = NoName THEN param_slots'[f][i] = NoSlot
          ELSE \E j \in 1..Len(table'.symbols) :
                 /\ table'.symbols[j].name = program'.params[f][i]
                 /\ table'.symbols[j].owner = f
                 /\ table'.symbols[j].slot = param_slots'[f][i]
    BY <2>3, <2>5
  <2> QED BY <2>5, <2>6, <2>7 DEF ParamsInv
<1>15. RefsInv'
  BY <1>1, <1>6, BindingsSurvive DEF IInv, RefsInv
<1> QED BY <1>1, <1>5, <1>6, <1>7, <1>14, <1>15 DEF IInv

-----------------------------------------------------------------------------
(* Linking and resolving add runtime names, which are nobody's own *)

LEMMA AddExternal ==
  ASSUME IInv, NEW n \in Names
  PROVE  LET u == add_symbol(table, n, External, FALSE) IN
         /\ WellFormed(u, program.count)
         /\ Extends(table, u)
         /\ \A m : \A s \in Scopes : Has(u, m, s) <=> Has(table, m, s)
         /\ Has(u, n, External)
<1> DEFINE u == add_symbol(table, n, External, FALSE)
<1>1. /\ program.count \in Nat /\ WellFormed(table, program.count)
      /\ External \in External..program.count /\ External \notin Scopes
  BY ProgramFacts DEF IInv, Scopes, External
<1>2. /\ WellFormed(u, program.count)
      /\ Extends(table, u)
      /\ \A m, o : Has(u, m, o) <=> (Has(table, m, o) \/ (m = n /\ o = External))
  BY <1>1, AddSymbol
<1> HIDE DEF u
<1>3. \A m : \A s \in Scopes : Has(u, m, s) <=> Has(table, m, s)
  BY <1>1, <1>2
<1>4. Has(u, n, External)
  BY <1>2
<1> QED BY <1>2, <1>3, <1>4 DEF u

LEMMA LinkFallbackStep ==
  ASSUME IInv, LinkFallback
  PROVE  IInv'
<1>1. /\ walk = "link" /\ pos' = pos + 1 /\ pos <= Len(Visited) /\ Visited = table.symbols
      /\ UNCHANGED <<program, walk, scope, param_slots, bindings, labels, gotos>>
  BY DEF LinkFallback, Visiting, Visited
<1>2. /\ program.count \in Nat /\ WellFormed(table, program.count)
      /\ 0 \in Scopes /\ External \notin Scopes /\ pos \in Nat \ {0}
  BY ProgramFacts DEF IInv, ControlInv, Scopes, External
<1>3. /\ table.symbols \in Seq(SymbolRecords(program.count))
      /\ Len(table.symbols) \in Nat /\ pos \in 1..Len(table.symbols)
  BY <1>1, <1>2 DEF WellFormed, TablesOf
<1>4. table.symbols[pos].name \in Names
  <2>1. table.symbols[pos] \in SymbolRecords(program.count)
    BY <1>3, ElementOfSeq
  <2> QED BY <2>1 DEF SymbolRecords
<1> DEFINE symbol == table.symbols[pos]
           global == IF symbol.owner > 0 THEN find_symbol(table, symbol.name, 0) ELSE NoSymbol
           linked == IF global = NoSymbol THEN add_symbol(table, symbol.name, External, FALSE)
                     ELSE table
           target == IF global = NoSymbol THEN find_symbol(linked, symbol.name, External)
                     ELSE global
           relinked == [linked EXCEPT !.symbols[pos].fallback = target]
<1>5. table' = table \/ table' = relinked
  BY DEF LinkFallback
<1>6. /\ WellFormed(linked, program.count)
      /\ Extends(table, linked)
      /\ \A n : \A s \in Scopes : Has(linked, n, s) <=> Has(table, n, s)
      /\ target \in 0..Len(linked.symbols)
  <2>1. CASE global = NoSymbol
    <3> DEFINE u == add_symbol(table, symbol.name, External, FALSE)
    <3>1. /\ WellFormed(u, program.count)
          /\ Extends(table, u)
          /\ \A n : \A s \in Scopes : Has(u, n, s) <=> Has(table, n, s)
          /\ Has(u, symbol.name, External)
      BY <1>4, AddExternal
    <3>2. linked = u /\ target = find_symbol(linked, symbol.name, External)
      BY <2>1
    <3> HIDE DEF u, linked, target
    <3>3. target \in 1..Len(linked.symbols)
      BY <1>2, <3>1, <3>2, FindSymbol
    <3>4. Len(linked.symbols) \in Nat
      BY <3>1, <3>2 DEF WellFormed, TablesOf
    <3> QED BY <3>1, <3>2, <3>3, <3>4
  <2>2. CASE global # NoSymbol
    <3>1. global = find_symbol(table, symbol.name, 0) /\ global # NoSymbol
      BY <2>2
    <3>2. linked = table /\ target = global
      BY <2>2
    <3> HIDE DEF linked, target, global
    <3>3. global \in 1..Len(table.symbols)
      BY <1>2, <3>1, FindSymbol
    <3> QED BY <1>2, <1>3, <3>2, <3>3, SameTable
  <2> QED BY <2>1, <2>2
<1> HIDE DEF target, linked
<1>7. pos \in 1..Len(linked.symbols)
  <2>1. Len(linked.symbols) \in Nat
    BY <1>6 DEF WellFormed, TablesOf
  <2> QED BY <1>3, <1>6, <2>1 DEF Extends
<1>8. /\ WellFormed(relinked, program.count)
      /\ Extends(linked, relinked)
      /\ \A n, s : Has(relinked, n, s) <=> Has(linked, n, s)
  BY <1>2, <1>6, <1>7, FallbackTable
<1> HIDE DEF relinked
<1>9. Extends(table, relinked)
  <2>1. Len(linked.symbols) \in Nat /\ Len(relinked.symbols) \in Nat
    BY <1>6, <1>8 DEF WellFormed, TablesOf
  <2> QED BY <1>3, <1>6, <1>8, <2>1 DEF Extends
<1>10. /\ WellFormed(table', program.count)
       /\ Extends(table, table')
       /\ \A n : \A s \in Scopes : Has(table', n, s) <=> Has(table, n, s)
  <2>1. CASE table' = table
    BY <1>2, <2>1, SameTable
  <2>2. CASE table' = relinked
    BY <1>6, <1>8, <1>9, <2>2
  <2> QED BY <1>5, <2>1, <2>2
<1>11. Collected /\ Collected'
  BY <1>1 DEF Collected
<1>12. NamesInv'
  BY <1>1, <1>10, <1>11, NamesSettled
<1> QED BY <1>1, <1>10, <1>12, TableStep

(* The node the last pass over names is at. *)
LEMMA NodeInScope ==
  ASSUME IInv, walk = "resolve", pos <= Len(Visited)
  PROVE  /\ Node \in Items
         /\ Node.kind \in Named => Node.name \in Names
<1>1. walk = "resolve" /\ pos <= Len(Visited)
  OBVIOUS
<1>2. scope \in Scopes /\ pos \in Nat \ {0}
  BY DEF IInv, ControlInv
<1>3. /\ Node \in Items
      /\ Node.kind \in Named => Node.name \in Names
  <2>1. program.body[scope] \in Seq(Items)
    BY <1>2, ProgramFacts DEF IInv
  <2>2. CASE scope = 0
    <3>1. Visited = program.body[scope]
      BY <1>1, <2>2 DEF Visited, Walked
    <3>2. Len(program.body[scope]) \in Nat
      BY <2>1, LenProperties
    <3>3. pos \in 1..Len(program.body[scope]) /\ Node = program.body[scope][pos]
      BY <1>1, <1>2, <3>1, <3>2 DEF Node
    <3>4. Node \in Items
      BY <2>1, <3>3, ElementOfSeq
    <3> QED BY <1>2, <3>3, <3>4, ProgramFacts DEF IInv
  <2>3. CASE scope # 0
    <3> DEFINE first == program.defaults[scope]
               rest  == program.body[scope]
    <3>1. Visited = first \o rest
      BY <1>1, <2>3 DEF Visited, Walked
    <3>2. scope \in 1..program.count
      BY <1>2, <2>3 DEF Scopes
    <3>3. first \in Seq(Items) /\ rest \in Seq(Items)
      BY <2>1, <3>2, ProgramFacts DEF IInv
    <3>4. Len(first) \in Nat /\ Len(rest) \in Nat
      BY <3>3, LenProperties
    <3>5. /\ Len(first \o rest) = Len(first) + Len(rest)
          /\ \A i \in 1..Len(first) + Len(rest) :
               (first \o rest)[i] = IF i <= Len(first) THEN first[i] ELSE rest[i - Len(first)]
      BY <3>3, ConcatProperties
    <3>6. pos \in 1..Len(first) + Len(rest)
      <4>1. pos <= Len(first) + Len(rest)
        BY <1>1, <3>1, <3>5
      <4> HIDE DEF first, rest
      <4> QED BY <1>2, <3>4, <4>1
    <3>7. Node = IF pos <= Len(first) THEN first[pos] ELSE rest[pos - Len(first)]
      BY <3>1, <3>5, <3>6 DEF Node
    <3>8. CASE pos <= Len(first)
      <4>1. pos \in 1..Len(first) /\ Node = first[pos]
        BY <3>4, <3>6, <3>7, <3>8
      <4>2. Node \in Items
        BY <3>3, <4>1, ElementOfSeq
      <4>3. Node.name \in Names
        BY <3>2, <4>1, ProgramFacts DEF IInv
      <4> QED BY <4>2, <4>3
    <3>9. CASE ~(pos <= Len(first))
      <4>1. pos - Len(first) \in 1..Len(rest) /\ Node = rest[pos - Len(first)]
        <5>1. Node = rest[pos - Len(first)]
          BY <3>7, <3>9
        <5> HIDE DEF first, rest
        <5>2. pos - Len(first) \in 1..Len(rest)
          BY <3>4, <3>6, <3>9
        <5> QED BY <5>1, <5>2
      <4>2. Node \in Items
        BY <3>3, <4>1, ElementOfSeq
      <4>3. Node.kind \in Named => Node.name \in Names
        BY <1>2, <4>1, ProgramFacts DEF IInv
      <4> QED BY <4>2, <4>3
    <3> QED BY <3>8, <3>9
  <2> QED BY <2>2, <2>3
<1> QED BY <1>3

LEMMA ResolveNodeStep ==
  ASSUME IInv, ResolveNode
  PROVE  IInv'
<1>1. /\ walk = "resolve" /\ pos' = pos + 1 /\ pos <= Len(Visited)
      /\ UNCHANGED <<program, walk, scope, param_slots, labels, gotos>>
  BY DEF ResolveNode, Visiting
<1>2. /\ program.count \in Nat /\ WellFormed(table, program.count)
      /\ scope \in Scopes /\ pos \in Nat \ {0}
  BY ProgramFacts DEF IInv, ControlInv, Scopes
<1>3. Collected /\ Collected'
  BY <1>1 DEF Collected
<1>4. /\ Node \in Items
      /\ Node.kind \in Named => Node.name \in Names
  BY <1>1, NodeInScope
<1>5. /\ WellFormed(table', program.count)
      /\ Extends(table, table')
      /\ \A n : \A s \in Scopes : Has(table', n, s) <=> Has(table, n, s)
  <2> DEFINE adds == Node.kind \in {"read", "assign"} /\ scope_symbol(table, Node.name) = NoSymbol
             u == add_symbol(table, Node.name, External, FALSE)
  <2>1. CASE ~adds
    <3>1. table' = table
      BY <2>1 DEF ResolveNode
    <3> QED BY <1>2, <3>1, SameTable
  <2>2. CASE adds
    <3>1. Node.name \in Names
      BY <1>4, <2>2 DEF Named
    <3>2. table' = u
      BY <2>2 DEF ResolveNode
    <3>3. /\ WellFormed(u, program.count)
          /\ Extends(table, u)
          /\ \A n : \A s \in Scopes : Has(u, n, s) <=> Has(table, n, s)
      BY <3>1, AddExternal
    <3> HIDE DEF u
    <3> QED BY <3>2, <3>3
  <2> QED BY <2>1, <2>2
<1>6. NamesInv'
  BY <1>1, <1>3, <1>5, NamesSettled
<1> DEFINE B == [node : Nodes, role : Roles, symbol : 1..Len(table'.symbols)]
<1>7. Len(table.symbols) \in Nat /\ Len(table'.symbols) \in Nat
      /\ Len(table.symbols) <= Len(table'.symbols)
  BY <1>2, <1>5 DEF WellFormed, TablesOf, Extends
<1>8. \A role \in Roles : \A x \in 0..Len(table'.symbols) : add_binding(role, x) \in Seq(B)
  <2> SUFFICES ASSUME NEW role \in Roles, NEW x \in 0..Len(table'.symbols)
               PROVE  add_binding(role, x) \in Seq(B)
    OBVIOUS
  <2>1. CASE x = NoSymbol
    <3>1. add_binding(role, x) = <<>>
      BY <2>1 DEF add_binding
    <3> QED BY <3>1, EmptySeq
  <2>2. CASE x # NoSymbol
    <3> DEFINE b == [node |-> Node.node, role |-> role, symbol |-> x]
    <3>1. b \in B
      BY <1>4, <1>7, <2>2 DEF Items, NoSymbol
    <3>2. add_binding(role, x) = <<b>>
      BY <2>2 DEF add_binding
    <3> HIDE DEF b, B
    <3>3. <<b>> \in Seq(B)
      BY <3>1
    <3> QED BY <3>2, <3>3
  <2> QED BY <2>1, <2>2
<1>9. \A n : scope_symbol(table, n) \in 0..Len(table'.symbols)
  <2>1. \A n, o : find_symbol(table, n, o) \in 0..Len(table.symbols)
    BY <1>2, <1>7, FindSymbol DEF NoSymbol
  <2>2. \A n : scope_symbol(table, n) \in 0..Len(table.symbols)
    BY <2>1 DEF scope_symbol
  <2> QED BY <1>7, <2>2
<1>10. \A n : resolve_name(table', n) \in 0..Len(table'.symbols)
  <2>1. \A n, o : find_symbol(table', n, o) \in 0..Len(table'.symbols)
    BY <1>2, <1>5, <1>7, FindSymbol DEF NoSymbol
  <2> QED BY <2>1 DEF resolve_name, scope_symbol
<1> DEFINE more ==
       CASE Node.kind = "declare" -> add_binding("declaration", scope_symbol(table, Node.name))
         [] Node.kind = "read" -> add_binding("read", resolve_name(table', Node.name))
         [] Node.kind = "assign" -> add_binding("write", resolve_name(table', Node.name))
         [] Node.kind = "foreach" ->
              add_binding("foreach-value", scope_symbol(table, Node.name)) \o
              (IF Node.index = NoName THEN <<>>
               ELSE add_binding("foreach-index", scope_symbol(table, Node.index)))
         [] OTHER -> <<>>
<1>11. bindings' = bindings \o more
  BY DEF ResolveNode
<1> HIDE DEF B
<1>12. more \in Seq(B)
  <2>1. CASE Node.kind = "declare"
    BY <1>8, <1>9, <2>1 DEF Roles
  <2>2. CASE Node.kind = "read"
    BY <1>8, <1>10, <2>2 DEF Roles
  <2>3. CASE Node.kind = "assign"
    BY <1>8, <1>10, <2>3 DEF Roles
  <2>4. CASE Node.kind = "foreach"
    <3> DEFINE v == add_binding("foreach-value", scope_symbol(table, Node.name))
               x == IF Node.index = NoName THEN <<>>
                    ELSE add_binding("foreach-index", scope_symbol(table, Node.index))
    <3>1. v \in Seq(B)
      BY <1>8, <1>9 DEF Roles
    <3>2. x \in Seq(B)
      BY <1>8, <1>9, EmptySeq DEF Roles
    <3>3. more = v \o x
      BY <2>4
    <3> HIDE DEF v, x, more
    <3> QED BY <3>1, <3>2, <3>3, ConcatProperties
  <2>5. CASE Node.kind \notin {"declare", "read", "assign", "foreach"}
    BY <2>5, EmptySeq
  <2> QED BY <2>1, <2>2, <2>3, <2>4, <2>5
<1> HIDE DEF more
<1>13. bindings \in Seq(B)
  BY <1>5, BindingsSurvive DEF B
<1>14. bindings' \in Seq(B)
  BY <1>11, <1>12, <1>13, ConcatProperties
<1>15. RefsInv'
  BY <1>1, <1>14 DEF IInv, RefsInv, B
<1>16. ControlInv' /\ ParamsInv'
  BY <1>1, <1>5, VisitControl, ParamsSurvive
<1> QED BY <1>1, <1>5, <1>6, <1>15, <1>16 DEF IInv

-----------------------------------------------------------------------------
(* From one pass to the next *)

(* A pass that ends has been at every node of the scope it is in.          *)
LEMMA WalkComplete ==
  ASSUME IInv, walk \in {"params", "explicit", "implicit"}, pos > Len(Visited), NEW n
  PROVE  /\ walk = "params" => (ParamUpto(scope, n, pos) <=> IsParam(scope, n))
         /\ walk = "explicit" =>
              (IsParam(scope, n) \/ DeclaredUpto(scope, n, pos) <=> Declares(scope, n))
         /\ walk = "implicit" => (AssignedUpto(scope, n, pos) <=> Assigns(scope, n))
<1>1. scope \in Scopes /\ pos \in Nat \ {0}
  BY DEF IInv, ControlInv
<1>2. CASE walk = "params"
  <2>1. scope \in 1..program.count
    BY <1>1, <1>2 DEF IInv, ControlInv, Scopes
  <2>2. Len(program.params[scope]) \in Nat
    BY <2>1, ProgramFacts, LenProperties DEF IInv
  <2>3. Visited = program.params[scope]
    BY <1>2 DEF Visited
  <2>4. \A i \in 1..Len(program.params[scope]) : i < pos
    BY <1>1, <2>2, <2>3
  <2> QED BY <1>2, <2>4 DEF ParamUpto, IsParam
<1>3. CASE walk \in {"explicit", "implicit"}
  <2>1. Len(program.body[scope]) \in Nat
    BY <1>1, ProgramFacts, LenProperties DEF IInv
  <2>2. Visited = program.body[scope]
    BY <1>3 DEF Visited
  <2>3. \A i \in 1..Len(program.body[scope]) : i < pos
    BY <1>1, <2>1, <2>2
  <2>4. DeclaredUpto(scope, n, pos) <=> \E i \in 1..Len(program.body[scope]) : Declaring(scope, n, i)
    BY <2>3 DEF DeclaredUpto
  <2>5. AssignedUpto(scope, n, pos) <=> Assigns(scope, n)
    BY <2>3 DEF AssignedUpto, Assigns
  <2> QED BY <1>3, <2>4, <2>5 DEF Declares, Declaring
<1> QED BY <1>2, <1>3

LEMMA NextWalkCases ==
  ASSUME IInv, walk # "done"
  PROVE  \/ walk = "params" /\ NextWalk = [walk |-> "explicit", scope |-> scope]
         \/ walk = "explicit" /\ NextWalk = [walk |-> "implicit", scope |-> scope]
         \/ /\ walk = "implicit" /\ scope < program.count
            /\ NextWalk = [walk |-> "params", scope |-> scope + 1]
         \/ /\ walk = "implicit" /\ scope = program.count
            /\ NextWalk = [walk |-> "link", scope |-> 0]
         \/ /\ Collected
            /\ NextWalk.walk \in Walks \ {"params", "explicit", "implicit"}
            /\ NextWalk.scope \in Scopes
<1>1. /\ scope \in Nat /\ scope <= program.count /\ program.count \in Nat
      /\ walk \in Walks
  BY ProgramFacts DEF IInv, ControlInv, Scopes
<1>2. CASE walk = "params"
  BY <1>2 DEF NextWalk
<1>3. CASE walk = "explicit"
  BY <1>3 DEF NextWalk
<1>4. CASE walk = "implicit" /\ scope < program.count
  BY <1>4 DEF NextWalk
<1>5. CASE walk = "implicit" /\ scope = program.count
  <2>1. ~(scope < program.count)
    BY <1>1, <1>5
  <2> QED BY <1>5, <2>1 DEF NextWalk
<1>6. CASE walk = "link"
  <2>1. NextWalk = [walk |-> "resolve", scope |-> 0] /\ 0 \in Scopes
    BY <1>1, <1>6 DEF NextWalk, Scopes
  <2> QED BY <1>6, <2>1 DEF Walks, Collected
<1>7. CASE walk \in {"resolve", "labels", "gotos", "loops"}
  <2>1. NextWalk = IF scope < program.count THEN [walk |-> walk, scope |-> scope + 1]
                   ELSE [walk |-> AfterLast[walk], scope |-> 0]
    BY <1>7 DEF NextWalk
  <2>2. AfterLast[walk] \in {"labels", "gotos", "loops", "done"}
    BY <1>7 DEF AfterLast
  <2>3. Collected
    BY <1>7 DEF Collected
  <2>4. CASE scope < program.count
    <3>1. NextWalk.walk = walk /\ NextWalk.scope = scope + 1
      BY <2>1, <2>4
    <3>2. scope + 1 \in Scopes
      BY <1>1, <2>4 DEF Scopes
    <3> QED BY <1>7, <2>3, <3>1, <3>2 DEF Walks
  <2>5. CASE ~(scope < program.count)
    <3>1. NextWalk.walk = AfterLast[walk] /\ NextWalk.scope = 0
      BY <2>1, <2>5
    <3>2. 0 \in Scopes
      BY <1>1 DEF Scopes
    <3> QED BY <2>2, <2>3, <3>1, <3>2 DEF Walks
  <2> QED BY <2>4, <2>5
<1>8. walk = "implicit" => scope < program.count \/ scope = program.count
  BY <1>1
<1> QED BY <1>1, <1>2, <1>3, <1>4, <1>5, <1>6, <1>7, <1>8 DEF Walks

LEMMA EndWalkStep ==
  ASSUME IInv, EndWalk
  PROVE  IInv'
<1>1. /\ walk # "done" /\ pos > Len(Visited)
      /\ walk' = NextWalk.walk /\ scope' = NextWalk.scope /\ pos' = 1
      /\ UNCHANGED <<program, table, param_slots, bindings, labels, gotos>>
  BY DEF EndWalk
<1>2. /\ scope \in Nat /\ scope <= program.count /\ program.count \in Nat
      /\ scope \in Scopes /\ pos \in Nat \ {0} /\ program \in Programs
  BY ProgramFacts DEF IInv, ControlInv, Scopes
<1>3. WellFormed(table', program'.count) /\ RefsInv'
  BY <1>1 DEF IInv, RefsInv
<1>4. \A n, s : Has(table', n, s) <=> Has(table, n, s)
  BY <1>1
<1>5. \A s, n : /\ Owns(s, n)' <=> Owns(s, n)
                /\ Declares(s, n)' <=> Declares(s, n)
                /\ IsParam(s, n)' <=> IsParam(s, n)
  BY <1>1 DEF Owns, Declares, Assigns, IsParam, At
<1>6. \A s \in Scopes : \A n :
        /\ ~ParamUpto(s, n, pos)'
        /\ ~DeclaredUpto(s, n, pos)'
        /\ ~AssignedUpto(s, n, pos)'
  BY <1>1 DEF ParamUpto, DeclaredUpto, AssignedUpto
<1>7. \A s \in Scopes : s \in Nat /\ (s <= scope <=> s < scope \/ s = scope)
  BY <1>2 DEF Scopes
<1>8. ASSUME ControlInv',
             \A s \in Scopes : \A n \in Names : Held(s, n)' <=> Held(s, n),
             \A f \in 1..program.count :
               Len(param_slots[f]) = IF ParamsDone(f)' THEN Len(program.params[f])
                                     ELSE IF f = scope' THEN 0 ELSE 0
      PROVE  IInv'
  <2>1. NamesInv'
    BY <1>1, <1>4, <1>8 DEF IInv, NamesInv, Scopes
  <2>2. ParamsInv'
    BY <1>1, <1>8 DEF IInv, ParamsInv
  <2> QED BY <1>3, <1>8, <2>1, <2>2 DEF IInv
<1>9. \A f \in 1..program.count :
        Len(param_slots[f]) = IF ParamsDone(f) THEN Len(program.params[f])
                              ELSE IF f = scope THEN pos - 1 ELSE 0
  BY DEF IInv, ParamsInv
<1>10. CASE walk = "params" /\ NextWalk = [walk |-> "explicit", scope |-> scope]
  <2>1. walk' = "explicit" /\ scope' = scope
    BY <1>1, <1>10
  <2>2. ~Collected /\ ~Collected' /\ scope \in 1..program.count
    BY <1>2, <1>10, <2>1 DEF Collected, IInv, ControlInv
  <2>3. pos - 1 = Len(program.params[scope])
    <3>1. Visited = program.params[scope]
      BY <1>10 DEF Visited
    <3>2. Len(program.params[scope]) \in Nat
      BY <2>2, ProgramFacts, LenProperties DEF IInv
    <3>3. pos <= Len(program.params[scope]) + 1
      BY <1>10 DEF IInv, ControlInv
    <3> QED BY <1>1, <1>2, <3>1, <3>2, <3>3
  <2>4. ControlInv'
    BY <1>1, <1>2, <2>1 DEF ControlInv, Scopes, Walks
  <2>5. \A s \in Scopes : \A n \in Names : Held(s, n)' <=> Held(s, n)
    <3> SUFFICES ASSUME NEW s \in Scopes, NEW n \in Names PROVE Held(s, n)' <=> Held(s, n)
      OBVIOUS
    <3>1. ParamUpto(scope, n, pos) <=> IsParam(scope, n)
      BY <1>1, <1>10, WalkComplete
    <3>2. CASE s = scope
      <4>1. Held(s, n) <=> ParamUpto(s, n, pos)
        BY <1>2, <1>10, <2>2, <3>2 DEF Held
      <4>2. Held(s, n)' <=> IsParam(s, n)
        BY <1>2, <1>5, <1>6, <2>1, <2>2, <3>2 DEF Held
      <4> QED BY <3>1, <3>2, <4>1, <4>2
    <3>3. CASE s # scope
      BY <1>5, <2>1, <2>2, <3>3 DEF Held
    <3> QED BY <3>2, <3>3
  <2>6. \A f \in 1..program.count :
          Len(param_slots[f]) = IF ParamsDone(f)' THEN Len(program.params[f])
                                ELSE IF f = scope' THEN 0 ELSE 0
    <3> SUFFICES ASSUME NEW f \in 1..program.count
                 PROVE  Len(param_slots[f]) = IF ParamsDone(f)' THEN Len(program.params[f]) ELSE 0
      OBVIOUS
    <3>1. CASE f = scope
      <4>1. ~ParamsDone(f) /\ ParamsDone(f)'
        BY <1>2, <1>10, <2>1, <2>2, <3>1 DEF ParamsDone
      <4> QED BY <1>9, <2>3, <3>1, <4>1
    <3>2. CASE f # scope
      <4>1. ParamsDone(f)' <=> ParamsDone(f)
        BY <2>1, <2>2, <3>2 DEF ParamsDone
      <4> QED BY <1>9, <3>2, <4>1
    <3> QED BY <3>1, <3>2
  <2> QED BY <1>8, <2>4, <2>5, <2>6
<1>11. CASE walk = "explicit" /\ NextWalk = [walk |-> "implicit", scope |-> scope]
  <2>1. walk' = "implicit" /\ scope' = scope
    BY <1>1, <1>11
  <2>2. ~Collected /\ ~Collected'
    BY <1>11, <2>1 DEF Collected
  <2>3. ControlInv'
    BY <1>1, <1>2, <2>1 DEF ControlInv, Scopes, Walks
  <2>4. \A s \in Scopes : \A n \in Names : Held(s, n)' <=> Held(s, n)
    <3> SUFFICES ASSUME NEW s \in Scopes, NEW n \in Names PROVE Held(s, n)' <=> Held(s, n)
      OBVIOUS
    <3>1. IsParam(scope, n) \/ DeclaredUpto(scope, n, pos) <=> Declares(scope, n)
      BY <1>1, <1>11, WalkComplete
    <3>2. CASE s = scope
      <4>1. Held(s, n) <=> IsParam(s, n) \/ DeclaredUpto(s, n, pos)
        BY <1>2, <1>11, <2>2, <3>2 DEF Held
      <4>2. Held(s, n)' <=> Declares(s, n)
        BY <1>2, <1>5, <1>6, <2>1, <2>2, <3>2 DEF Held
      <4> QED BY <3>1, <3>2, <4>1, <4>2
    <3>3. CASE s # scope
      BY <1>5, <2>1, <2>2, <3>3 DEF Held
    <3> QED BY <3>2, <3>3
  <2>5. \A f \in 1..program.count :
          Len(param_slots[f]) = IF ParamsDone(f)' THEN Len(program.params[f])
                                ELSE IF f = scope' THEN 0 ELSE 0
    <3>1. \A f \in 1..program.count : f = scope => ParamsDone(f) /\ ParamsDone(f)'
      BY <1>11, <2>1 DEF ParamsDone
    <3>2. \A f \in 1..program.count : f # scope => (ParamsDone(f) <=> ParamsDone(f)')
      BY <2>1, <2>2 DEF ParamsDone
    <3> QED BY <1>9, <3>1, <3>2
  <2> QED BY <1>8, <2>3, <2>4, <2>5
<1>12. ASSUME walk = "implicit", NEW s \in Scopes, NEW n \in Names
       PROVE  Held(s, n) <=> s <= scope /\ Owns(s, n)
  <2>1. ~Collected
    BY <1>12 DEF Collected
  <2>2. CASE s = scope
    <3>1. AssignedUpto(s, n, pos) <=> Assigns(s, n)
      BY <1>1, <1>12, <2>2, WalkComplete
    <3>2. Held(s, n) <=> Declares(s, n) \/ (AssignedUpto(s, n, pos) /\ (s = 0 \/ ~Owns(0, n)))
      BY <1>2, <1>12, <2>1, <2>2 DEF Held
    <3>3. Owns(0, n) <=> Declares(0, n) \/ Assigns(0, n)
      BY DEF Owns
    <3> QED BY <1>2, <2>2, <3>1, <3>2, <3>3 DEF Owns
  <2>3. CASE s # scope
    BY <1>7, <1>12, <2>1, <2>3 DEF Held
  <2> QED BY <2>2, <2>3
<1>13. CASE /\ walk = "implicit" /\ scope < program.count
            /\ NextWalk = [walk |-> "params", scope |-> scope + 1]
  <2>1. walk' = "params" /\ scope' = scope + 1 /\ scope + 1 \in 1..program.count
    BY <1>1, <1>2, <1>13
  <2>2. ~Collected /\ ~Collected'
    BY <1>13, <2>1 DEF Collected
  <2>3. ControlInv'
    <3>1. Len(program.params[scope + 1]) \in Nat
      BY <2>1, ProgramFacts, LenProperties DEF IInv
    <3>2. 1 <= Len(program.params[scope + 1]) + 1
      BY <3>1
    <3> QED BY <1>1, <1>2, <2>1, <3>2 DEF ControlInv, Scopes, Walks
  <2>4. \A s \in Scopes : \A n \in Names : Held(s, n)' <=> Held(s, n)
    <3> SUFFICES ASSUME NEW s \in Scopes, NEW n \in Names PROVE Held(s, n)' <=> Held(s, n)
      OBVIOUS
    <3>1. Held(s, n) <=> s <= scope /\ Owns(s, n)
      BY <1>12, <1>13
    <3>2. /\ s <= scope <=> s < scope'
          /\ s <= scope' <=> s < scope' \/ s = scope'
      BY <1>2, <1>7, <2>1
    <3>3. CASE s = scope'
      <4>1. ~Held(s, n)'
        BY <1>6, <2>1, <2>2, <3>3 DEF Held
      <4>2. ~(s <= scope)
        BY <1>2, <2>1, <3>3
      <4> QED BY <3>1, <4>1, <4>2
    <3>4. CASE s # scope'
      <4>1. Held(s, n)' <=> s < scope' /\ Owns(s, n)
        BY <1>5, <2>2, <3>2, <3>4 DEF Held
      <4> QED BY <3>1, <3>2, <4>1
    <3> QED BY <3>3, <3>4
  <2>5. \A f \in 1..program.count :
          Len(param_slots[f]) = IF ParamsDone(f)' THEN Len(program.params[f])
                                ELSE IF f = scope' THEN 0 ELSE 0
    <3> SUFFICES ASSUME NEW f \in 1..program.count
                 PROVE  Len(param_slots[f]) = IF ParamsDone(f)' THEN Len(program.params[f]) ELSE 0
      OBVIOUS
    <3>1. ParamsDone(f) <=> f < scope \/ f = scope
      BY <1>13, <2>2 DEF ParamsDone
    <3>2. ParamsDone(f)' <=> f < scope + 1
      BY <1>2, <2>1, <2>2 DEF ParamsDone
    <3>3. f < scope + 1 <=> f < scope \/ f = scope
      BY <1>2
    <3> QED BY <1>9, <3>1, <3>2, <3>3
  <2> QED BY <1>8, <2>3, <2>4, <2>5
<1>14. CASE /\ walk = "implicit" /\ scope = program.count
            /\ NextWalk = [walk |-> "link", scope |-> 0]
  <2>1. walk' = "link" /\ scope' = 0 /\ Collected'
    BY <1>1, <1>14 DEF Collected
  <2>2. ~Collected
    BY <1>14 DEF Collected
  <2>3. ControlInv'
    BY <1>1, <1>2, <2>1 DEF ControlInv, Scopes, Walks
  <2>4. \A s \in Scopes : \A n \in Names : Held(s, n)' <=> Held(s, n)
    <3> SUFFICES ASSUME NEW s \in Scopes, NEW n \in Names PROVE Held(s, n)' <=> Held(s, n)
      OBVIOUS
    <3>1. Held(s, n) <=> Owns(s, n)
      <4>1. s <= scope
        BY <1>14 DEF Scopes
      <4> QED BY <1>12, <1>14, <4>1
    <3> QED BY <1>5, <2>1, <3>1 DEF Held
  <2>5. \A f \in 1..program.count :
          Len(param_slots[f]) = IF ParamsDone(f)' THEN Len(program.params[f])
                                ELSE IF f = scope' THEN 0 ELSE 0
    <3>1. \A f \in 1..program.count : ParamsDone(f) /\ ParamsDone(f)'
      BY <1>2, <1>14, <2>1 DEF ParamsDone
    <3> QED BY <1>9, <3>1
  <2> QED BY <1>8, <2>3, <2>4, <2>5
<1>15. CASE /\ Collected
            /\ NextWalk.walk \in Walks \ {"params", "explicit", "implicit"}
            /\ NextWalk.scope \in Scopes
  <2>1. Collected /\ Collected'
    BY <1>1, <1>15 DEF Walks, Collected
  <2>2. ControlInv'
    BY <1>1, <1>2, <1>15 DEF ControlInv, Scopes, Walks
  <2>3. \A s \in Scopes : \A n \in Names : Held(s, n)' <=> Held(s, n)
    BY <1>5, <2>1 DEF Held
  <2>4. \A f \in 1..program.count : ParamsDone(f) /\ ParamsDone(f)'
    BY <2>1 DEF ParamsDone
  <2> QED BY <1>8, <1>9, <2>2, <2>3, <2>4
<1> QED BY <1>1, <1>10, <1>11, <1>13, <1>14, <1>15, NextWalkCases

-----------------------------------------------------------------------------
(* The theorems *)

LEMMA Stuttering ==
  ASSUME IInv, UNCHANGED vars
  PROVE  IInv'
<1>1. UNCHANGED <<program, walk, scope, pos, table, param_slots, bindings, labels, gotos>>
  BY DEF vars
<1>2. ControlInv'
  BY <1>1 DEF IInv, ControlInv, Scopes
<1>3. WellFormed(table', program'.count) /\ RefsInv'
  BY <1>1 DEF IInv, RefsInv
<1>4. NamesInv'
  <2>1. \A s, n : /\ Owns(s, n)' <=> Owns(s, n)
                  /\ Declares(s, n)' <=> Declares(s, n)
                  /\ IsParam(s, n)' <=> IsParam(s, n)
    BY <1>1 DEF Owns, Declares, Assigns, IsParam, At
  <2>2. \A s, n : /\ ParamUpto(s, n, pos)' <=> ParamUpto(s, n, pos)
                  /\ DeclaredUpto(s, n, pos)' <=> DeclaredUpto(s, n, pos)
                  /\ AssignedUpto(s, n, pos)' <=> AssignedUpto(s, n, pos)
    BY <1>1 DEF ParamUpto, DeclaredUpto, Declaring, AssignedUpto, At
  <2>3. Collected' <=> Collected
    BY <1>1 DEF Collected
  <2>4. \A s, n : Held(s, n)' <=> Held(s, n)
    BY <1>1, <2>1, <2>2, <2>3 DEF Held
  <2> QED BY <1>1, <2>4 DEF IInv, NamesInv, Scopes
<1>5. ParamsInv'
  <2>1. \A f : ParamsDone(f)' <=> ParamsDone(f)
    BY <1>1 DEF ParamsDone, Collected
  <2> QED BY <1>1, <2>1 DEF IInv, ParamsInv
<1> QED BY <1>2, <1>3, <1>4, <1>5 DEF IInv

LEMMA Inductive == Spec => []IInv
<1>1. Init => IInv
  BY Initially
<1>2. IInv /\ [Next]_vars => IInv'
  BY CollectExplicitStep, CollectImplicitStep, AddParameterStep, LinkFallbackStep,
     ResolveNodeStep, CollectLabelStep, BindGotoStep, CheckLoopStep, EndWalkStep,
     Stuttering DEF Next
<1> QED BY <1>1, <1>2, PTL DEF Spec

LEMMA IInvTypeOK ==
  ASSUME IInv
  PROVE  TypeOK
<1>1. /\ program.count \in Nat /\ WellFormed(table, program.count)
      /\ table.symbols \in Seq(SymbolRecords(program.count))
      /\ table.slots \in [0..program.count -> Nat]
  BY ProgramFacts DEF IInv, WellFormed, TablesOf
<1>2. table.symbols \in Seq(Symbols)
  <2> DEFINE n == Len(table.symbols)
  <2>1. n \in Nat /\ table.symbols \in [1..n -> SymbolRecords(program.count)]
    BY <1>1, LenProperties
  <2>2. \A i \in 1..n : table.symbols[i] \in Symbols
    <3> SUFFICES ASSUME NEW i \in 1..n PROVE table.symbols[i] \in Symbols
      OBVIOUS
    <3>1. table.symbols[i] \in SymbolRecords(program.count)
      BY <2>1
    <3>2. table.symbols[i].fallback <= n
      BY <1>1 DEF WellFormed
    <3>3. table.symbols[i].fallback \in 0..Len(table.symbols)
      BY <2>1, <3>1, <3>2 DEF SymbolRecords
    <3> QED BY <3>1, <3>3 DEF SymbolRecords, Symbols
  <2>3. table.symbols \in [1..n -> Symbols]
    BY <2>1, <2>2
  <2> HIDE DEF n
  <2> QED BY <2>1, <2>3, SeqDef
<1>3. \A i \in 1..Len(bindings) : bindings[i].symbol \in 1..Len(table.symbols)
  <2>1. \A i \in 1..Len(bindings) :
          bindings[i] \in [node : Nodes, role : Roles, symbol : 1..Len(table.symbols)]
    BY ElementOfSeq DEF IInv, RefsInv
  <2> QED BY <2>1
<1>4. \A i \in 1..Len(gotos) : gotos[i].label \in 1..Len(labels)
  <2>1. \A i \in 1..Len(gotos) : gotos[i] \in [node : Nodes, label : 1..Len(labels)]
    BY ElementOfSeq DEF IInv, RefsInv
  <2> QED BY <2>1
<1> QED BY <1>1, <1>2, <1>3, <1>4 DEF TypeOK, IInv, ControlInv, ParamsInv, Walks, Scopes

(* What a scope's names and slots are, in terms of the table's records.    *)
LEMMA NamesAndSlots ==
  ASSUME IInv, NEW s \in Scopes
  PROVE  /\ \A n \in Names : n \in NamesOf(s) <=> Has(table, n, s)
         /\ NamesOf(s) \subseteq Names
         /\ \A n \in NamesOf(s) : \E i \in 1..Len(table.symbols) :
              /\ table.symbols[i].name = n
              /\ table.symbols[i].owner = s
              /\ SlotOf(s)[n] = table.symbols[i].slot
         /\ \A i \in 1..Len(table.symbols) : table.symbols[i].owner = s =>
              /\ table.symbols[i].name \in NamesOf(s)
              /\ SlotOf(s)[table.symbols[i].name] = table.symbols[i].slot
<1>1. program.count \in Nat /\ WellFormed(table, program.count)
  BY ProgramFacts DEF IInv
<1>2. \A n \in Names : n \in NamesOf(s) <=> Has(table, n, s)
  BY <1>1, FindSymbol DEF NamesOf
<1>3. NamesOf(s) \subseteq Names
  BY DEF NamesOf
<1>4. \A n \in NamesOf(s) : \E i \in 1..Len(table.symbols) :
        /\ table.symbols[i].name = n
        /\ table.symbols[i].owner = s
        /\ SlotOf(s)[n] = table.symbols[i].slot
  <2> SUFFICES ASSUME NEW n \in NamesOf(s)
               PROVE  \E i \in 1..Len(table.symbols) :
                        /\ table.symbols[i].name = n
                        /\ table.symbols[i].owner = s
                        /\ SlotOf(s)[n] = table.symbols[i].slot
    OBVIOUS
  <2>1. SlotOf(s)[n] = table.symbols[find_symbol(table, n, s)].slot
    BY <1>3 DEF SlotOf
  <2>2. Has(table, n, s)
    BY <1>2, <1>3
  <2> QED BY <1>1, <2>1, <2>2, FindSymbol
<1>5. ASSUME NEW i \in 1..Len(table.symbols), table.symbols[i].owner = s
      PROVE  /\ table.symbols[i].name \in NamesOf(s)
             /\ SlotOf(s)[table.symbols[i].name] = table.symbols[i].slot
  <2> DEFINE n == table.symbols[i].name
  <2>1. n \in Names
    <3>1. table.symbols[i] \in SymbolRecords(program.count)
      BY <1>1, ElementOfSeq DEF WellFormed, TablesOf
    <3> QED BY <3>1 DEF SymbolRecords
  <2>2. n \in NamesOf(s)
    BY <1>2, <1>5, <2>1 DEF Has
  <2>3. find_symbol(table, n, s) = i
    BY <1>1, <1>5, FindSymbol
  <2>4. SlotOf(s)[n] = table.symbols[find_symbol(table, n, s)].slot
    BY <2>1, <2>2 DEF SlotOf
  <2> QED BY <2>2, <2>3, <2>4
<1> QED BY <1>2, <1>3, <1>4, <1>5

LEMMA IInvTablesFitFrames ==
  ASSUME IInv
  PROVE  TablesFitFrames
<1> SUFFICES ASSUME Collected, NEW s \in Scopes
             PROVE  /\ NamesOf(s) = {n \in Names : Owns(s, n)}
                    /\ FrameFits(NamesOf(s), SlotOf(s), table.slots[s])
                    /\ \A slot \in 0..table.slots[s] - 1 : \E n \in NamesOf(s) : SlotOf(s)[n] = slot
  BY DEF TablesFitFrames
<1>1. /\ program.count \in Nat /\ WellFormed(table, program.count)
      /\ s \in 0..program.count /\ s # External
  BY ProgramFacts DEF IInv, Scopes, External
<1>2. NamesOf(s) = {n \in Names : Owns(s, n)}
  <2>1. \A n \in Names : Has(table, n, s) <=> Owns(s, n)
    BY DEF IInv, NamesInv, Held
  <2> QED BY <2>1, NamesAndSlots
<1>3. table.slots[s] \in Nat
  BY <1>1 DEF WellFormed, TablesOf
<1>4. \A n \in NamesOf(s) : SlotOf(s)[n] \in 0..table.slots[s] - 1
  <2> SUFFICES ASSUME NEW n \in NamesOf(s) PROVE SlotOf(s)[n] \in 0..table.slots[s] - 1
    OBVIOUS
  <2>1. PICK i \in 1..Len(table.symbols) :
          /\ table.symbols[i].owner = s
          /\ SlotOf(s)[n] = table.symbols[i].slot
    BY NamesAndSlots
  <2> QED BY <1>1, <2>1 DEF WellFormed
<1>5. \A m, n \in NamesOf(s) : SlotOf(s)[m] = SlotOf(s)[n] => m = n
  <2> SUFFICES ASSUME NEW m \in NamesOf(s), NEW n \in NamesOf(s), SlotOf(s)[m] = SlotOf(s)[n]
               PROVE  m = n
    OBVIOUS
  <2>1. PICK i \in 1..Len(table.symbols) :
          /\ table.symbols[i].name = m
          /\ table.symbols[i].owner = s
          /\ SlotOf(s)[m] = table.symbols[i].slot
    BY NamesAndSlots
  <2>2. PICK j \in 1..Len(table.symbols) :
          /\ table.symbols[j].name = n
          /\ table.symbols[j].owner = s
          /\ SlotOf(s)[n] = table.symbols[j].slot
    BY NamesAndSlots
  <2>3. i = j
    BY <1>1, <2>1, <2>2 DEF WellFormed
  <2> QED BY <2>1, <2>2, <2>3
<1>6. \A k \in 0..table.slots[s] - 1 : \E n \in NamesOf(s) : SlotOf(s)[n] = k
  <2> SUFFICES ASSUME NEW k \in 0..table.slots[s] - 1
               PROVE  \E n \in NamesOf(s) : SlotOf(s)[n] = k
    OBVIOUS
  <2>1. PICK i \in 1..Len(table.symbols) :
          table.symbols[i].owner = s /\ table.symbols[i].slot = k
    BY <1>1 DEF WellFormed
  <2> QED BY <2>1, NamesAndSlots
<1> QED BY <1>2, <1>3, <1>4, <1>5, <1>6 DEF FrameFits

LEMMA IInvParametersHaveSlots ==
  ASSUME IInv
  PROVE  ParametersHaveSlots
<1> SUFFICES ASSUME Collected, NEW f \in 1..program.count
             PROVE  /\ Len(param_slots[f]) = Len(program.params[f])
                    /\ \A i \in 1..Len(param_slots[f]) :
                         param_slots[f][i] = IF program.params[f][i] = NoName THEN NoSlot
                                             ELSE SlotOf(f)[program.params[f][i]]
  BY DEF ParametersHaveSlots
<1>1. Len(param_slots[f]) = Len(program.params[f])
  BY DEF IInv, ParamsInv, ParamsDone
<1>2. ASSUME NEW i \in 1..Len(param_slots[f])
      PROVE  param_slots[f][i] = IF program.params[f][i] = NoName THEN NoSlot
                                 ELSE SlotOf(f)[program.params[f][i]]
  <2>1. CASE program.params[f][i] = NoName
    BY <2>1 DEF IInv, ParamsInv
  <2>2. CASE program.params[f][i] # NoName
    <3>1. PICK j \in 1..Len(table.symbols) :
            /\ table.symbols[j].name = program.params[f][i]
            /\ table.symbols[j].owner = f
            /\ table.symbols[j].slot = param_slots[f][i]
      BY <2>2 DEF IInv, ParamsInv
    <3>2. f \in Scopes
      BY ProgramFacts DEF IInv, Scopes
    <3> QED BY <2>2, <3>1, <3>2, NamesAndSlots
  <2> QED BY <2>1, <2>2
<1> QED BY <1>1, <1>2

(* However a program is written, the ids in the resolver's tables refer to *)
(* entries that exist (HDResolveProgram).                                  *)
THEOREM ResolverTypeCorrect == Spec => []TypeOK
<1>1. IInv => TypeOK
  BY IInvTypeOK
<1> QED BY <1>1, Inductive, PTL

(* Every program gets the tables SlotFrames assumes: its names are         *)
(* collected in the order of three passes, and each gets a slot of its own *)
(* in the frame of the scope that owns it (add_symbol).                    *)
THEOREM SlotAssumptionEstablished == Spec => []TablesFitFrames
<1>1. IInv => TablesFitFrames
  BY IInvTablesFitFrames
<1> QED BY <1>1, Inductive, PTL

(* A call fills, for each parameter, the slot the body knows it by         *)
(* (add_parameters).                                                       *)
THEOREM ParametersMapped == Spec => []ParametersHaveSlots
<1>1. IInv => ParametersHaveSlots
  BY IInvParametersHaveSlots
<1> QED BY <1>1, Inductive, PTL

-----------------------------------------------------------------------------

Bindings == [node : Nodes, role : Roles, symbol : Nat]

(* Whose symbol each name is in each scope. *)
Owners == [s \in Scopes |-> [n \in Names |-> Owner(s, n)]]

(* In table t, x is the symbol that n means in scope s. *)
Meant(t, owners, x, s, n) ==
  /\ n \in Names
  /\ x \in 1..Len(t.symbols)
  /\ t.symbols[x].name = n
  /\ t.symbols[x].owner = owners[s][n]

(* The binding says of the item what it should. *)
Explains(t, owners, binding, s, item) ==
  /\ binding.node = item.node
  /\ binding.role \in RolesOf(item)
  /\ Meant(t, owners, binding.symbol, s, NameIn(item, binding.role))

(* The bindings are right about the item, and give it these roles. *)
Covers(t, owners, more, s, item, roles) ==
  /\ more \in Seq(Bindings)
  /\ \A b \in 1..Len(more) : Explains(t, owners, more[b], s, item)
  /\ \A role \in roles : \E b \in 1..Len(more) : more[b].node = item.node /\ more[b].role = role

(* The walk over names has been at the i-th node of scope s. *)
Seen(s, i) ==
  \/ walk \in {"labels", "gotos", "loops", "done"}
  \/ walk = "resolve" /\ (s < scope \/ (s = scope /\ i < pos))

NoneBefore == walk \in {"params", "explicit", "implicit", "link"} => bindings = <<>>

AllExplained ==
  \A b \in 1..Len(bindings) :
    \E s \in Scopes : \E i \in 1..Len(Walked(program, s)) :
      Explains(table, Owners, bindings[b], s, Walked(program, s)[i])

AllBound ==
  \A s \in Scopes : \A i \in 1..Len(Walked(program, s)) :
    \A role \in RolesOf(Walked(program, s)[i]) :
      Seen(s, i) =>
        \E b \in 1..Len(bindings) :
          bindings[b].node = Walked(program, s)[i].node /\ bindings[b].role = role

BoundInv == NoneBefore /\ AllExplained /\ AllBound

-----------------------------------------------------------------------------
(* What the lookups find *)

LEMMA ScopeSymbol ==
  ASSUME NEW t, WellFormed(t, program.count), program.count \in Nat, scope \in Scopes,
         \A m \in Names : \A s \in Scopes : Has(t, m, s) <=> Owns(s, m),
         NEW n \in Names
  PROVE  /\ Owns(scope, n) => scope_symbol(t, n) # NoSymbol
         /\ scope_symbol(t, n) # NoSymbol => Meant(t, Owners, scope_symbol(t, n), scope, n)
         /\ Has(t, n, External) \/ scope_symbol(t, n) # NoSymbol =>
              resolve_name(t, n) # NoSymbol /\ Meant(t, Owners, resolve_name(t, n), scope, n)
<1>1. 0 \in Scopes
  BY DEF Scopes
<1>2. \A o : /\ find_symbol(t, n, o) # NoSymbol <=> Has(t, n, o)
             /\ Has(t, n, o) => /\ find_symbol(t, n, o) \in 1..Len(t.symbols)
                                /\ t.symbols[find_symbol(t, n, o)].name = n
                                /\ t.symbols[find_symbol(t, n, o)].owner = o
  BY FindSymbol
<1>3. (Has(t, n, scope) <=> Owns(scope, n)) /\ (Has(t, n, 0) <=> Owns(0, n))
  BY <1>1
<1>4. Owners[scope][n] = Owner(scope, n)
  BY DEF Owners
<1>5. CASE Owns(scope, n)
  BY <1>2, <1>3, <1>4, <1>5 DEF scope_symbol, resolve_name, Meant, Owner
<1>6. CASE ~Owns(scope, n) /\ Owns(0, n)
  BY <1>2, <1>3, <1>4, <1>6 DEF scope_symbol, resolve_name, Meant, Owner
<1>7. CASE ~Owns(scope, n) /\ ~Owns(0, n)
  BY <1>2, <1>3, <1>4, <1>7 DEF scope_symbol, resolve_name, Meant, Owner
<1> QED BY <1>5, <1>6, <1>7

LEMMA Joined ==
  ASSUME NEW S, NEW p \in Seq(S), NEW q \in Seq(S)
  PROVE  /\ p \o q \in Seq(S)
         /\ \A i \in 1..Len(p) : i \in 1..Len(p \o q) /\ (p \o q)[i] = p[i]
         /\ \A i \in 1..Len(q) : Len(p) + i \in 1..Len(p \o q) /\ (p \o q)[Len(p) + i] = q[i]
         /\ \A i \in 1..Len(p \o q) :
              \/ i \in 1..Len(p) /\ (p \o q)[i] = p[i]
              \/ i - Len(p) \in 1..Len(q) /\ (p \o q)[i] = q[i - Len(p)]
<1>1. /\ p \o q \in Seq(S)
      /\ Len(p \o q) = Len(p) + Len(q)
      /\ \A i \in 1..Len(p) + Len(q) :
           (p \o q)[i] = IF i <= Len(p) THEN p[i] ELSE q[i - Len(p)]
      /\ Len(p) \in Nat /\ Len(q) \in Nat
  BY ConcatProperties, LenProperties
<1> QED BY <1>1

LEMMA WalkedLength ==
  ASSUME IInv
  PROVE  \A s \in Scopes : Len(Walked(program, s)) \in Nat
<1> SUFFICES ASSUME NEW s \in Scopes PROVE Len(Walked(program, s)) \in Nat
  OBVIOUS
<1>1. s # 0 => s \in 1..program.count
  BY DEF Scopes
<1>2. program.body[s] \in Seq(Items) /\ (s # 0 => program.defaults[s] \in Seq(Items))
  BY <1>1, ProgramFacts DEF IInv
<1>3. Walked(program, s) \in Seq(Items)
  BY <1>2, ConcatProperties DEF Walked
<1> QED BY <1>3, LenProperties

(* The nodes of a body are among those the walk is at. *)
LEMMA BodyWalked ==
  ASSUME IInv, NEW s \in Scopes, NEW i \in 1..Len(program.body[s])
  PROVE  \E k \in 1..Len(Walked(program, s)) : Walked(program, s)[k] = At(s, i)
<1>1. CASE s = 0
  BY <1>1 DEF Walked, At
<1>2. CASE s # 0
  <2>1. s \in 1..program.count
    BY <1>2 DEF Scopes
  <2>2. program.body[s] \in Seq(Items) /\ program.defaults[s] \in Seq(Items)
    BY <2>1, ProgramFacts DEF IInv
  <2> DEFINE first == program.defaults[s]
             rest  == program.body[s]
  <2>3. Walked(program, s) = first \o rest /\ rest[i] = At(s, i)
    BY <1>2 DEF Walked, At
  <2>4. i \in 1..Len(rest) /\ first \in Seq(Items) /\ rest \in Seq(Items)
    BY <2>2
  <2> HIDE DEF first, rest
  <2>5. Len(first) + i \in 1..Len(first \o rest) /\ (first \o rest)[Len(first) + i] = rest[i]
    BY <2>4, Joined
  <2> QED BY <2>3, <2>5
<1> QED BY <1>1, <1>2

(* The node the walk is at, in its scope. *)
LEMMA NodeWalked ==
  ASSUME IInv, walk = "resolve", pos <= Len(Visited)
  PROVE  /\ pos \in 1..Len(Walked(program, scope))
         /\ Node = Walked(program, scope)[pos]
         /\ Node.kind \in {"declare", "foreach"} =>
              \A n \in {Node.name, Node.index} : Owns(scope, n)
<1>1. scope \in Scopes /\ pos \in Nat \ {0} /\ program.body[scope] \in Seq(Items)
  BY ProgramFacts DEF IInv, ControlInv
<1>2. Visited = Walked(program, scope)
  BY DEF Visited
<1>3. Node = Walked(program, scope)[pos]
  BY <1>2 DEF Node
<1>4. CASE scope = 0
  <2>1. Walked(program, scope) = program.body[scope] /\ Len(program.body[scope]) \in Nat
    BY <1>1, <1>4, LenProperties DEF Walked
  <2>2. pos \in 1..Len(program.body[scope]) /\ Node = At(scope, pos)
    BY <1>1, <1>2, <1>3, <2>1 DEF At
  <2> QED BY <1>3, <2>1, <2>2 DEF Owns, Declares
<1>5. CASE scope # 0
  <2> DEFINE first == program.defaults[scope]
             rest  == program.body[scope]
  <2>1. scope \in 1..program.count
    BY <1>1, <1>5 DEF Scopes
  <2>2. first \in Seq(Items) /\ rest \in Seq(Items)
        /\ \A i \in 1..Len(first) : first[i].kind \in {"read", "assign"}
    BY <1>1, <2>1, ProgramFacts DEF IInv
  <2>3. Walked(program, scope) = first \o rest
    BY <1>5 DEF Walked
  <2>4. Len(first) \in Nat /\ Len(rest) \in Nat
    BY <2>2, LenProperties
  <2>6. \A i \in 1..Len(rest) : rest[i] = At(scope, i)
    BY DEF At
  <2> HIDE DEF first, rest
  <2>5. /\ Len(first \o rest) = Len(first) + Len(rest)
        /\ \A i \in 1..Len(first) + Len(rest) :
             (first \o rest)[i] = IF i <= Len(first) THEN first[i] ELSE rest[i - Len(first)]
    BY <2>2, ConcatProperties
  <2>7. pos \in 1..Len(first) + Len(rest)
    BY <1>1, <1>2, <2>3, <2>4, <2>5
  <2>8. CASE pos <= Len(first)
    <3>1. pos \in 1..Len(first) /\ Node = first[pos]
      BY <1>3, <2>3, <2>4, <2>5, <2>7, <2>8
    <3> QED BY <1>3, <2>2, <2>3, <2>5, <2>7, <3>1
  <2>9. CASE ~(pos <= Len(first))
    <3>1. pos - Len(first) \in 1..Len(rest)
      BY <2>4, <2>7, <2>9
    <3>2. Node = At(scope, pos - Len(first)) /\ pos - Len(first) \in 1..Len(program.body[scope])
      BY <1>3, <2>3, <2>5, <2>6, <2>7, <2>9, <3>1 DEF rest
    <3> QED BY <1>3, <2>3, <2>5, <2>7, <3>2 DEF Owns, Declares
  <2> QED BY <2>8, <2>9
<1> QED BY <1>4, <1>5

-----------------------------------------------------------------------------
(* What the visit of a node adds *)

LEMMA OneBinding ==
  ASSUME NEW t, NEW owners, NEW role \in RolesOf(Node), NEW x \in Nat, x # NoSymbol,
         Node \in Items, Meant(t, owners, x, scope, NameIn(Node, role))
  PROVE  Covers(t, owners, add_binding(role, x), scope, Node, {role})
<1> DEFINE b == [node |-> Node.node, role |-> role, symbol |-> x]
<1>1. role \in Roles
  BY DEF RolesOf, Roles
<1>2. b \in Bindings
  BY <1>1 DEF Items, Bindings
<1>3. b.node = Node.node /\ b.role = role /\ b.symbol = x
  OBVIOUS
<1>4. Explains(t, owners, b, scope, Node)
  BY <1>3 DEF Explains
<1>5. add_binding(role, x) = <<b>>
  BY DEF add_binding
<1> HIDE DEF b
<1>6. <<b>> \in Seq(Bindings) /\ Len(<<b>>) = 1 /\ <<b>>[1] = b
  BY <1>2
<1> QED BY <1>3, <1>4, <1>5, <1>6 DEF Covers

LEMMA TwoBindings ==
  ASSUME NEW t, NEW owners, NEW p, NEW q, NEW P, NEW Q, NEW s, NEW item,
         Covers(t, owners, p, s, item, P), Covers(t, owners, q, s, item, Q)
  PROVE  Covers(t, owners, p \o q, s, item, P \cup Q)
<1>1. p \in Seq(Bindings) /\ q \in Seq(Bindings)
  BY DEF Covers
<1>2. \A b \in 1..Len(p \o q) : Explains(t, owners, (p \o q)[b], s, item)
  BY <1>1, Joined DEF Covers
<1>3. \A role \in P \cup Q :
        \E b \in 1..Len(p \o q) : (p \o q)[b].node = item.node /\ (p \o q)[b].role = role
  <2>1. ASSUME NEW role \in P
        PROVE  \E b \in 1..Len(p \o q) : (p \o q)[b].node = item.node /\ (p \o q)[b].role = role
    <3>1. PICK b \in 1..Len(p) : p[b].node = item.node /\ p[b].role = role
      BY DEF Covers
    <3> QED BY <1>1, <3>1, Joined
  <2>2. ASSUME NEW role \in Q
        PROVE  \E b \in 1..Len(p \o q) : (p \o q)[b].node = item.node /\ (p \o q)[b].role = role
    <3>1. PICK b \in 1..Len(q) : q[b].node = item.node /\ q[b].role = role
      BY DEF Covers
    <3>2. Len(p) + b \in 1..Len(p \o q) /\ (p \o q)[Len(p) + b] = q[b]
      BY <1>1, Joined
    <3> QED BY <3>1, <3>2
  <2> QED BY <2>1, <2>2
<1> QED BY <1>1, <1>2, <1>3, Joined DEF Covers

LEMMA ResolveNodeAdds ==
  ASSUME IInv, ResolveNode
  PROVE  \E more : /\ bindings' = bindings \o more
                   /\ Covers(table', Owners, more, scope, Node, RolesOf(Node))
<1>1. walk = "resolve" /\ pos <= Len(Visited) /\ Collected
  BY DEF ResolveNode, Visiting, Collected
<1>2. /\ program.count \in Nat /\ WellFormed(table, program.count)
      /\ scope \in Scopes /\ 0 \in Scopes
  BY ProgramFacts DEF IInv, ControlInv, Scopes
<1>3. /\ Node \in Items
      /\ Node.kind \in Named => Node.name \in Names
      /\ Node.index # NoName => Node.index \in Names
  BY <1>1, NodeInScope DEF Items
<1>4. \A m \in Names : \A s \in Scopes : Has(table, m, s) <=> Owns(s, m)
  BY <1>1 DEF IInv, NamesInv, Held
<1>5. Node.kind \in {"declare", "foreach"} => \A n \in {Node.name, Node.index} : Owns(scope, n)
  BY <1>1, NodeWalked
<1> DEFINE more ==
       CASE Node.kind = "declare" -> add_binding("declaration", scope_symbol(table, Node.name))
         [] Node.kind = "read" -> add_binding("read", resolve_name(table', Node.name))
         [] Node.kind = "assign" -> add_binding("write", resolve_name(table', Node.name))
         [] Node.kind = "foreach" ->
              add_binding("foreach-value", scope_symbol(table, Node.name)) \o
              (IF Node.index = NoName THEN <<>>
               ELSE add_binding("foreach-index", scope_symbol(table, Node.index)))
         [] OTHER -> <<>>
<1>6. bindings' = bindings \o more
  BY DEF ResolveNode
<1>7. Len(table.symbols) \in Nat
  BY <1>2 DEF WellFormed, TablesOf
<1>8. ASSUME Node.kind \in {"declare", "foreach"}, NEW n \in Names, Owns(scope, n)
      PROVE  /\ table' = table
             /\ scope_symbol(table, n) \in Nat /\ scope_symbol(table, n) # NoSymbol
             /\ Meant(table', Owners, scope_symbol(table, n), scope, n)
  <2>1. table' = table
    BY <1>8 DEF ResolveNode
  <2>2. scope_symbol(table, n) # NoSymbol /\ Meant(table, Owners, scope_symbol(table, n), scope, n)
    BY <1>2, <1>4, <1>8, ScopeSymbol
  <2> QED BY <1>7, <2>1, <2>2 DEF Meant
<1>9. ASSUME Node.kind \in {"read", "assign"}
      PROVE  /\ resolve_name(table', Node.name) \in Nat
             /\ resolve_name(table', Node.name) # NoSymbol
             /\ Meant(table', Owners, resolve_name(table', Node.name), scope, Node.name)
  <2>1. Node.name \in Names
    BY <1>3, <1>9 DEF Named
  <2> DEFINE n == Node.name
             u == IF scope_symbol(table, n) = NoSymbol THEN add_symbol(table, n, External, FALSE)
                  ELSE table
  <2>2. table' = u
    BY <1>9 DEF ResolveNode
  <2>3. /\ WellFormed(u, program.count)
        /\ \A m \in Names : \A s \in Scopes : Has(u, m, s) <=> Owns(s, m)
        /\ Has(u, n, External) \/ scope_symbol(u, n) # NoSymbol
    <3>1. CASE scope_symbol(table, n) = NoSymbol
      <4> DEFINE v == add_symbol(table, n, External, FALSE)
      <4>1. /\ WellFormed(v, program.count)
            /\ \A m : \A s \in Scopes : Has(v, m, s) <=> Has(table, m, s)
            /\ Has(v, n, External)
        BY <2>1, AddExternal
      <4>2. u = v
        BY <3>1
      <4> HIDE DEF u, v
      <4> QED BY <1>4, <4>1, <4>2
    <3>2. CASE scope_symbol(table, n) # NoSymbol
      <4>1. u = table
        BY <3>2
      <4> HIDE DEF u
      <4> QED BY <1>2, <1>4, <3>2, <4>1
    <3> QED BY <3>1, <3>2
  <2> HIDE DEF u
  <2>4. resolve_name(u, n) # NoSymbol /\ Meant(u, Owners, resolve_name(u, n), scope, n)
    BY <1>2, <2>1, <2>3, ScopeSymbol
  <2>5. resolve_name(u, n) \in Nat
    BY <2>3, <2>4 DEF Meant, WellFormed, TablesOf
  <2> QED BY <2>2, <2>4, <2>5
<1>10. Covers(table', Owners, more, scope, Node, RolesOf(Node))
  <2>1. CASE Node.kind = "declare"
    <3>1. Node.name \in Names /\ Owns(scope, Node.name)
      BY <1>3, <1>5, <2>1 DEF Named
    <3>2. RolesOf(Node) = {"declaration"} /\ NameIn(Node, "declaration") = Node.name
      BY <2>1 DEF RolesOf, NameIn
    <3>3. Covers(table', Owners, add_binding("declaration", scope_symbol(table, Node.name)),
                 scope, Node, {"declaration"})
      BY <1>3, <1>8, <2>1, <3>1, <3>2, OneBinding
    <3>4. more = add_binding("declaration", scope_symbol(table, Node.name))
      BY <2>1
    <3> QED BY <3>2, <3>3, <3>4
  <2>2. CASE Node.kind = "read"
    <3>1. RolesOf(Node) = {"read"} /\ NameIn(Node, "read") = Node.name
      BY <2>2 DEF RolesOf, NameIn
    <3>2. Covers(table', Owners, add_binding("read", resolve_name(table', Node.name)),
                 scope, Node, {"read"})
      BY <1>3, <1>9, <2>2, <3>1, OneBinding
    <3>3. more = add_binding("read", resolve_name(table', Node.name))
      BY <2>2
    <3> QED BY <3>1, <3>2, <3>3
  <2>3. CASE Node.kind = "assign"
    <3>1. RolesOf(Node) = {"write"} /\ NameIn(Node, "write") = Node.name
      BY <2>3 DEF RolesOf, NameIn
    <3>2. Covers(table', Owners, add_binding("write", resolve_name(table', Node.name)),
                 scope, Node, {"write"})
      BY <1>3, <1>9, <2>3, <3>1, OneBinding
    <3>3. more = add_binding("write", resolve_name(table', Node.name))
      BY <2>3
    <3> QED BY <3>1, <3>2, <3>3
  <2>4. CASE Node.kind = "foreach"
    <3> DEFINE value == add_binding("foreach-value", scope_symbol(table, Node.name))
               index == add_binding("foreach-index", scope_symbol(table, Node.index))
    <3>1. Node.name \in Names /\ Owns(scope, Node.name) /\ Owns(scope, Node.index)
      BY <1>3, <1>5, <2>4 DEF Named
    <3>2. /\ "foreach-value" \in RolesOf(Node) /\ NameIn(Node, "foreach-value") = Node.name
          /\ Node.index = NoName => RolesOf(Node) = {"foreach-value"}
          /\ Node.index # NoName => RolesOf(Node) = {"foreach-value"} \cup {"foreach-index"}
          /\ NameIn(Node, "foreach-index") = Node.index
      BY <2>4 DEF RolesOf, NameIn
    <3>3. Covers(table', Owners, value, scope, Node, {"foreach-value"})
      BY <1>3, <1>8, <2>4, <3>1, <3>2, OneBinding
    <3>4. CASE Node.index = NoName
      <4>1. more = value \o <<>>
        BY <2>4, <3>4
      <4> HIDE DEF value, more
      <4>2. value \o <<>> = value
        BY <3>3, ConcatEmptySeq DEF Covers
      <4> QED BY <3>2, <3>3, <3>4, <4>1, <4>2
    <3>5. CASE Node.index # NoName
      <4>1. more = value \o index
        BY <2>4, <3>5
      <4>2. Covers(table', Owners, index, scope, Node, {"foreach-index"})
        BY <1>3, <1>8, <2>4, <3>1, <3>2, <3>5, OneBinding
      <4> HIDE DEF value, index, more
      <4> QED BY <3>2, <3>3, <3>5, <4>1, <4>2, TwoBindings
    <3> QED BY <3>4, <3>5
  <2>5. CASE Node.kind \notin {"declare", "read", "assign", "foreach"}
    <3>1. more = <<>> /\ RolesOf(Node) = {}
      BY <2>5 DEF RolesOf
    <3> HIDE DEF more
    <3> QED BY <3>1, EmptySeq DEF Covers
  <2> QED BY <2>1, <2>2, <2>3, <2>4, <2>5
<1> QED BY <1>6, <1>10

-----------------------------------------------------------------------------
(* The steps *)

(* What a name means depends on the program alone. *)
LEMMA ProgramSame ==
  ASSUME program' = program
  PROVE  Scopes' = Scopes /\ Owners' = Owners
<1>1. Scopes' = Scopes
  BY DEF Scopes
<1>2. \A s, n : Owns(s, n)' <=> Owns(s, n)
  BY DEF Owns, Declares, Assigns, IsParam, At
<1>3. \A s, n : Owner(s, n)' = Owner(s, n)
  BY <1>2 DEF Owner
<1> QED BY <1>1, <1>3 DEF Owners

LEMMA ExplainsGrows ==
  ASSUME NEW t, NEW u, Len(t.symbols) \in Nat, Len(u.symbols) \in Nat, Extends(t, u),
         NEW owners, NEW binding, NEW s, NEW item, Explains(t, owners, binding, s, item)
  PROVE  Explains(u, owners, binding, s, item)
  BY DEF Extends, Explains, Meant

LEMMA ResolveNodeBinds ==
  ASSUME IInv, IInv', BoundInv, ResolveNode
  PROVE  BoundInv'
<1>1. /\ walk = "resolve" /\ walk' = walk /\ pos <= Len(Visited) /\ pos' = pos + 1
      /\ program' = program /\ scope' = scope
  BY DEF ResolveNode, Visiting
<1>2. Scopes' = Scopes /\ Owners' = Owners
  BY <1>1, ProgramSame
<1>3. /\ pos \in 1..Len(Walked(program, scope)) /\ Node = Walked(program, scope)[pos]
      /\ scope \in Scopes /\ pos \in Nat
  BY <1>1, NodeWalked DEF IInv, ControlInv
<1>4. PICK more : /\ bindings' = bindings \o more
                  /\ Covers(table', Owners, more, scope, Node, RolesOf(Node))
  BY ResolveNodeAdds
<1>5. Len(table.symbols) \in Nat /\ Len(table'.symbols) \in Nat
  BY DEF IInv, WellFormed, TablesOf
<1>6. bindings \in Seq(Bindings) /\ more \in Seq(Bindings)
  <2>1. [node : Nodes, role : Roles, symbol : 1..Len(table.symbols)] \subseteq Bindings
    BY <1>5 DEF Bindings
  <2> QED BY <1>4, <2>1, SeqMonotonic DEF IInv, RefsInv, Covers
<1>7. Extends(table, table')
  <2>1. CASE table' = table
    BY <2>1, SameTable
  <2>2. CASE table' # table
    <3>1. Node.kind \in {"read", "assign"} /\ table' = add_symbol(table, Node.name, External, FALSE)
      BY <2>2 DEF ResolveNode
    <3>2. Node.name \in Names
      BY <1>1, <3>1, NodeInScope DEF Named
    <3> QED BY <3>1, <3>2, AddExternal
  <2> QED BY <2>1, <2>2
<1>8. NoneBefore'
  BY <1>1 DEF NoneBefore
<1>9. ASSUME NEW b \in 1..Len(bindings')
      PROVE  \E s \in Scopes : \E i \in 1..Len(Walked(program, s)) :
               Explains(table', Owners, bindings'[b], s, Walked(program, s)[i])
  <2>1. CASE b \in 1..Len(bindings) /\ bindings'[b] = bindings[b]
    <3>1. PICK s \in Scopes : \E i \in 1..Len(Walked(program, s)) :
            Explains(table, Owners, bindings[b], s, Walked(program, s)[i])
      BY <2>1 DEF BoundInv, AllExplained
    <3>2. PICK i \in 1..Len(Walked(program, s)) :
            Explains(table, Owners, bindings[b], s, Walked(program, s)[i])
      BY <3>1
    <3>3. Explains(table', Owners, bindings'[b], s, Walked(program, s)[i])
      BY <1>5, <1>7, <2>1, <3>2, ExplainsGrows
    <3> QED BY <3>3
  <2>2. CASE b - Len(bindings) \in 1..Len(more) /\ bindings'[b] = more[b - Len(bindings)]
    <3>1. Explains(table', Owners, bindings'[b], scope, Walked(program, scope)[pos])
      BY <1>3, <1>4, <2>2 DEF Covers
    <3> QED BY <1>3, <3>1
  <2>3. bindings' = bindings \o more /\ b \in 1..Len(bindings \o more)
    BY <1>4, <1>9
  <2>4. \/ b \in 1..Len(bindings) /\ (bindings \o more)[b] = bindings[b]
        \/ b - Len(bindings) \in 1..Len(more) /\ (bindings \o more)[b] = more[b - Len(bindings)]
    BY <1>6, <2>3, Joined
  <2> QED BY <2>1, <2>2, <2>3, <2>4, Zenon
<1>10. AllExplained'
  BY <1>1, <1>2, <1>9 DEF AllExplained
<1>11. ASSUME NEW s \in Scopes, NEW i \in 1..Len(Walked(program, s)),
              NEW role \in RolesOf(Walked(program, s)[i]), Seen(s, i)'
       PROVE  \E b \in 1..Len(bindings') :
                /\ bindings'[b].node = Walked(program, s)[i].node
                /\ bindings'[b].role = role
  <2>1. CASE Seen(s, i)
    <3>1. PICK b \in 1..Len(bindings) :
            bindings[b].node = Walked(program, s)[i].node /\ bindings[b].role = role
      BY <2>1 DEF BoundInv, AllBound
    <3>2. b \in 1..Len(bindings') /\ bindings'[b] = bindings[b]
      BY <1>4, <1>6, Joined
    <3> QED BY <3>1, <3>2
  <2>2. CASE ~Seen(s, i)
    <3>1. Len(Walked(program, s)) \in Nat /\ i \in Nat
      BY WalkedLength
    <3>2. s = scope /\ i = pos
      BY <1>1, <1>3, <1>11, <2>2, <3>1 DEF Seen
    <3>3. PICK b \in 1..Len(more) : more[b].node = Node.node /\ more[b].role = role
      BY <1>3, <1>4, <3>2 DEF Covers
    <3>4. Len(bindings) + b \in 1..Len(bindings') /\ bindings'[Len(bindings) + b] = more[b]
      BY <1>4, <1>6, Joined
    <3> QED BY <1>3, <3>2, <3>3, <3>4
  <2> QED BY <2>1, <2>2
<1>12. AllBound'
  BY <1>1, <1>2, <1>11 DEF AllBound
<1> QED BY <1>8, <1>10, <1>12 DEF BoundInv

(* A step that leaves the bindings and what they refer to alone. *)
LEMMA BindingsAlone ==
  ASSUME BoundInv, UNCHANGED <<program, bindings>>, table' = table \/ bindings = <<>>,
         NoneBefore',
         \A s \in Scopes : \A i \in 1..Len(Walked(program, s)) : Seen(s, i)' => Seen(s, i)
  PROVE  BoundInv'
<1>1. Scopes' = Scopes /\ Owners' = Owners
  BY ProgramSame
<1>2. AllExplained'
  <2>1. CASE bindings = <<>>
    BY <2>1 DEF AllExplained
  <2>2. CASE table' = table
    BY <1>1, <2>2 DEF AllExplained, BoundInv
  <2> QED BY <2>1, <2>2
<1>3. AllBound'
  <2> SUFFICES ASSUME NEW s \in Scopes, NEW i \in 1..Len(Walked(program, s)),
                      NEW role \in RolesOf(Walked(program, s)[i]), Seen(s, i)'
               PROVE  \E b \in 1..Len(bindings) :
                        /\ bindings[b].node = Walked(program, s)[i].node
                        /\ bindings[b].role = role
    BY <1>1 DEF AllBound
  <2> QED BY DEF BoundInv, AllBound
<1> QED BY <1>2, <1>3 DEF BoundInv

LEMMA EndWalkBinds ==
  ASSUME IInv, BoundInv, EndWalk
  PROVE  BoundInv'
<1>1. /\ walk # "done" /\ pos > Len(Visited) /\ pos' = 1
      /\ walk' = NextWalk.walk /\ scope' = NextWalk.scope
      /\ UNCHANGED <<program, table, bindings>>
  BY DEF EndWalk
<1>2. /\ scope \in Nat /\ scope <= program.count /\ program.count \in Nat
      /\ walk \in Walks /\ pos \in Nat
  BY ProgramFacts DEF IInv, ControlInv, Scopes
<1>3. \A s \in Scopes : s \in Nat /\ s <= program.count
  BY <1>2 DEF Scopes
<1>4. \A s \in Scopes : Len(Walked(program, s)) \in Nat
  BY WalkedLength
<1>5. CASE walk \in {"params", "explicit", "implicit"}
  <2>1. bindings = <<>>
    BY <1>5 DEF BoundInv, NoneBefore
  <2>2. walk' \notin {"resolve", "labels", "gotos", "loops", "done"}
    <3>1. CASE walk = "params"
      BY <1>1, <3>1 DEF NextWalk
    <3>2. CASE walk = "explicit"
      BY <1>1, <3>2 DEF NextWalk
    <3>3. CASE walk = "implicit"
      <4>1. ~Collected
        BY <3>3 DEF Collected
      <4>2. \/ NextWalk = [walk |-> "params", scope |-> scope + 1]
            \/ NextWalk = [walk |-> "link", scope |-> 0]
        BY <3>3, <4>1, NextWalkCases
      <4> QED BY <1>1, <4>2
    <3> QED BY <1>5, <3>1, <3>2, <3>3
  <2>3. \A s, i : ~Seen(s, i)'
    BY <2>2 DEF Seen
  <2>4. NoneBefore'
    BY <1>1, <2>1 DEF NoneBefore
  <2> QED BY <1>1, <2>3, <2>4, BindingsAlone
<1>6. CASE walk = "link"
  <2>1. walk' = "resolve" /\ scope' = 0
    BY <1>1, <1>6 DEF NextWalk
  <2>2. \A s \in Scopes : \A i \in 1..Len(Walked(program, s)) : ~Seen(s, i)'
    BY <1>1, <1>3, <1>4, <2>1 DEF Seen
  <2>3. NoneBefore'
    BY <2>1 DEF NoneBefore
  <2> QED BY <1>1, <2>2, <2>3, BindingsAlone
<1>7. CASE walk \in {"resolve", "labels", "gotos", "loops"}
  <2>1. NextWalk = IF scope < program.count THEN [walk |-> walk, scope |-> scope + 1]
                   ELSE [walk |-> AfterLast[walk], scope |-> 0]
    BY <1>7 DEF NextWalk
  <2>2. AfterLast[walk] \in {"labels", "gotos", "loops", "done"}
    BY <1>7 DEF AfterLast
  <2>3. \/ walk' = walk /\ scope' = scope + 1
        \/ walk' \in {"labels", "gotos", "loops", "done"} /\ scope = program.count
    BY <1>1, <1>2, <2>1, <2>2
  <2>4. NoneBefore'
    BY <1>7, <2>3 DEF NoneBefore
  <2>5. CASE walk = "resolve"
    <3>1. Visited = Walked(program, scope)
      BY <2>5 DEF Visited
    <3>2. ASSUME NEW s \in Scopes, NEW i \in 1..Len(Walked(program, s)), Seen(s, i)'
          PROVE  Seen(s, i)
      <4>1. i \in Nat \ {0} /\ i <= Len(Walked(program, s))
        BY <1>4
      <4>2. s <= scope
        <5>1. CASE walk' = walk /\ scope' = scope + 1
          BY <1>1, <1>2, <1>3, <2>5, <3>2, <4>1, <5>1 DEF Seen
        <5>2. CASE scope = program.count
          BY <1>3, <5>2
        <5> QED BY <2>3, <5>1, <5>2
      <4>3. s = scope => i < pos
        BY <1>1, <1>2, <1>4, <3>1, <4>1
      <4> QED BY <1>2, <1>3, <2>5, <4>2, <4>3 DEF Seen
    <3> QED BY <1>1, <2>4, <3>2, BindingsAlone
  <2>6. CASE walk \in {"labels", "gotos", "loops"}
    <3>1. \A s, i : Seen(s, i)
      BY <2>6 DEF Seen
    <3> QED BY <1>1, <2>4, <3>1, BindingsAlone
  <2> QED BY <1>7, <2>5, <2>6
<1> QED BY <1>1, <1>2, <1>5, <1>6, <1>7 DEF Walks

LEMMA RestBinds ==
  ASSUME BoundInv,
         \/ CollectExplicit \/ CollectImplicit \/ AddParameter \/ LinkFallback
         \/ CollectLabel \/ BindGoto \/ CheckLoop
         \/ UNCHANGED vars
  PROVE  BoundInv'
<1>1. CASE CollectExplicit \/ CollectImplicit \/ AddParameter \/ LinkFallback
  <2>1. /\ walk \in {"params", "explicit", "implicit", "link"} /\ walk' = walk
        /\ UNCHANGED <<program, bindings>>
    BY <1>1 DEF CollectExplicit, CollectImplicit, AddParameter, LinkFallback, Visiting
  <2>2. bindings = <<>>
    BY <2>1 DEF BoundInv, NoneBefore
  <2>3. NoneBefore' /\ \A s, i : ~Seen(s, i)'
    BY <2>1, <2>2 DEF NoneBefore, Seen
  <2> QED BY <2>1, <2>2, <2>3, BindingsAlone
<1>2. CASE CollectLabel \/ BindGoto \/ CheckLoop
  <2>1. /\ walk \in {"labels", "gotos", "loops"} /\ walk' \in {walk, "done"}
        /\ UNCHANGED <<program, bindings, table>>
    BY <1>2 DEF CollectLabel, BindGoto, CheckLoop, Visiting, resolution_error
  <2>2. NoneBefore' /\ \A s, i : Seen(s, i)
    BY <2>1 DEF NoneBefore, Seen
  <2> QED BY <2>1, <2>2, BindingsAlone
<1>3. CASE UNCHANGED vars
  <2>1. UNCHANGED <<program, bindings, table, walk, scope, pos>>
    BY <1>3 DEF vars
  <2>2. NoneBefore' /\ \A s, i : Seen(s, i)' => Seen(s, i)
    BY <2>1 DEF BoundInv, NoneBefore, Seen
  <2> QED BY <2>1, <2>2, BindingsAlone
<1> QED BY <1>1, <1>2, <1>3

LEMMA BindingsInductive == Spec => [](IInv /\ BoundInv)
<1>1. Init => IInv /\ BoundInv
  <2>1. Init => bindings = <<>> /\ walk = "explicit"
    BY DEF Init
  <2>2. bindings = <<>> /\ walk = "explicit" => BoundInv
    BY DEF BoundInv, NoneBefore, AllExplained, AllBound, Seen
  <2> QED BY <2>1, <2>2, Initially
<1>2. IInv /\ IInv' /\ BoundInv /\ [Next]_vars => BoundInv'
  BY ResolveNodeBinds, EndWalkBinds, RestBinds DEF Next
<1> QED BY <1>1, <1>2, Inductive, PTL DEF Spec

-----------------------------------------------------------------------------
(* The theorem *)

LEMMA BoundFollowsScope ==
  ASSUME IInv, BoundInv
  PROVE  BindingsFollowScope
<1> SUFFICES ASSUME Resolved, NEW s \in Scopes, NEW i \in 1..Len(program.body[s]),
                    NEW role \in RolesOf(At(s, i))
             PROVE  LET mine == {b \in 1..Len(bindings) :
                                   /\ bindings[b].node = At(s, i).node
                                   /\ bindings[b].role = role} IN
                    /\ mine # {}
                    /\ \A b \in mine :
                         /\ table.symbols[bindings[b].symbol].name = NameIn(At(s, i), role)
                         /\ table.symbols[bindings[b].symbol].owner = Owner(s, NameIn(At(s, i), role))
  BY DEF BindingsFollowScope
<1>1. \A x, k : Seen(x, k)
  BY DEF Resolved, Linked, Collected, Seen, IInv, ControlInv, Walks
<1>2. program \in Programs /\ program.count \in Nat
  BY ProgramFacts DEF IInv, ControlInv
<1>3. PICK k \in 1..Len(Walked(program, s)) : Walked(program, s)[k] = At(s, i)
  BY BodyWalked
<1>4. \E b \in 1..Len(bindings) : bindings[b].node = At(s, i).node /\ bindings[b].role = role
  <2>1. role \in RolesOf(Walked(program, s)[k])
    BY <1>3
  <2>2. \E b \in 1..Len(bindings) :
          bindings[b].node = Walked(program, s)[k].node /\ bindings[b].role = role
    BY <1>1, <2>1 DEF BoundInv, AllBound
  <2> QED BY <1>3, <2>2
<1>5. ASSUME NEW b \in 1..Len(bindings),
             bindings[b].node = At(s, i).node, bindings[b].role = role
      PROVE  /\ table.symbols[bindings[b].symbol].name = NameIn(At(s, i), role)
             /\ table.symbols[bindings[b].symbol].owner = Owner(s, NameIn(At(s, i), role))
  <2>1. PICK x \in Scopes : \E j \in 1..Len(Walked(program, x)) :
          Explains(table, Owners, bindings[b], x, Walked(program, x)[j])
    BY DEF BoundInv, AllExplained
  <2>2. PICK j \in 1..Len(Walked(program, x)) :
          Explains(table, Owners, bindings[b], x, Walked(program, x)[j])
    BY <2>1
  <2>3. Walked(program, x)[j].node = Walked(program, s)[k].node
    BY <1>3, <1>5, <2>2 DEF Explains
  <2>4. x = s /\ Walked(program, x)[j] = At(s, i)
    BY <1>2, <1>3, <2>3, NodesAssumption DEF Scopes
  <2>5. Explains(table, Owners, bindings[b], s, At(s, i))
    BY <2>2, <2>4
  <2>6. Meant(table, Owners, bindings[b].symbol, s, NameIn(At(s, i), role))
    BY <1>5, <2>5 DEF Explains
  <2> QED BY <2>6 DEF Meant, Owners
<1> QED BY <1>4, <1>5

(* Whatever a program declares and wherever, a name means the symbol of    *)
(* the innermost scope that owns it, at each of its uses, even at those    *)
(* that come before what makes the scope its owner (resolve_node).         *)
THEOREM BindingsScoped == Spec => []BindingsFollowScope
<1>1. IInv /\ BoundInv => BindingsFollowScope
  BY BoundFollowsScope
<1> QED BY <1>1, BindingsInductive, PTL

-----------------------------------------------------------------------------
(* The links between the symbols *)

(* Whether a symbol of scope s with name n is marked as a parameter by now. *)
Marked(s, n) ==
  /\ s # External
  /\ IF s = scope /\ walk = "params" THEN ParamUpto(s, n, pos) ELSE IsParam(s, n)

FlagsInv ==
  \A i \in 1..Len(table.symbols) :
    table.symbols[i].param <=> Marked(table.symbols[i].owner, table.symbols[i].name)

Outer(y) == IF y.owner > 0 /\ Owns(0, y.name) THEN 0 ELSE External

Ends(y) == y.owner = External \/ IsParam(y.owner, y.name)

(* Where symbol i leads, when it leads anywhere. *)
LeadsOut(i) ==
  /\ table.symbols[i].fallback \in 1..Len(table.symbols)
  /\ table.symbols[table.symbols[i].fallback].name = table.symbols[i].name
  /\ table.symbols[table.symbols[i].fallback].owner = Outer(table.symbols[i])

Passed(i) == Collected /\ (walk = "link" => i < pos)

LinksInv ==
  \A i \in 1..Len(table.symbols) :
    IF Passed(i) /\ ~Ends(table.symbols[i]) THEN LeadsOut(i)
    ELSE table.symbols[i].fallback = NoSymbol

-----------------------------------------------------------------------------
(* What the two writes to the table do to the fields *)

LEMMA AddSymbolFields ==
  ASSUME NEW count \in Nat, NEW t, WellFormed(t, count), NEW n \in Names,
         NEW owner \in External..count, NEW param \in BOOLEAN
  PROVE  LET u == add_symbol(t, n, owner, param) IN
         /\ \A i \in 1..Len(t.symbols) :
              /\ u.symbols[i].fallback = t.symbols[i].fallback
              /\ u.symbols[i].param <=>
                   (t.symbols[i].param \/ (param /\ t.symbols[i].name = n
                                                 /\ t.symbols[i].owner = owner))
         /\ \A i \in 1..Len(u.symbols) :
              i \notin 1..Len(t.symbols) =>
                /\ u.symbols[i].name = n
                /\ u.symbols[i].owner = owner
                /\ u.symbols[i].param <=> param
                /\ u.symbols[i].fallback = NoSymbol
<1>1. /\ t \in TablesOf(count) /\ t.symbols \in Seq(SymbolRecords(count))
      /\ Len(t.symbols) \in Nat
      /\ \A i \in 1..Len(t.symbols) : t.symbols[i] \in SymbolRecords(count)
  BY DEF WellFormed, TablesOf
<1>2. CASE Has(t, n, owner)
  <2> DEFINE k == find_symbol(t, n, owner)
  <2>1. /\ k # NoSymbol /\ k \in 1..Len(t.symbols)
        /\ \A i \in 1..Len(t.symbols) :
             t.symbols[i].name = n /\ t.symbols[i].owner = owner <=> i = k
    BY <1>2, FindSymbol
  <2> DEFINE s == [t.symbols[k] EXCEPT !.param = @ \/ param]
             u == add_symbol(t, n, owner, param)
  <2>2. u = Flagged(t, k, param)
    BY <2>1 DEF add_symbol
  <2> HIDE DEF k
  <2>3. u = [t EXCEPT !.symbols = [t.symbols EXCEPT ![k] = s]]
    BY <2>2 DEF Flagged
  <2>4. s \in SymbolRecords(count) /\ s.fallback = t.symbols[k].fallback
        /\ (s.param <=> (t.symbols[k].param \/ param))
    BY <1>1, <2>1 DEF SymbolRecords
  <2>5. u.symbols = [t.symbols EXCEPT ![k] = s]
    BY <1>1, <2>3 DEF TablesOf
  <2> HIDE DEF s, u
  <2>6. /\ Len(u.symbols) = Len(t.symbols)
        /\ \A j \in 1..Len(t.symbols) : u.symbols[j] = IF j = k THEN s ELSE t.symbols[j]
    BY <1>1, <2>1, <2>4, <2>5, ExceptSeq
  <2>7. \A i \in 1..Len(t.symbols) :
          u.symbols[i].fallback = t.symbols[i].fallback
    BY <2>4, <2>6
  <2>8. \A i \in 1..Len(t.symbols) :
          u.symbols[i].param <=>
            (t.symbols[i].param \/ (param /\ t.symbols[i].name = n
                                          /\ t.symbols[i].owner = owner))
    <3> SUFFICES ASSUME NEW i \in 1..Len(t.symbols)
                 PROVE  u.symbols[i].param <=> (t.symbols[i].param \/ (param /\ i = k))
      BY <2>1
    <3>1. CASE i = k
      BY <2>4, <2>6, <3>1
    <3>2. CASE i # k
      <4>1. u.symbols[i] = t.symbols[i]
        BY <2>6, <3>2
      <4> QED BY <3>2, <4>1
    <3> QED BY <3>1, <3>2
  <2> QED BY <2>6, <2>7, <2>8 DEF u
<1>3. CASE ~Has(t, n, owner)
  <2> DEFINE u == add_symbol(t, n, owner, param)
             new == NewSymbol(t, n, owner, param)
  <2>1. u.symbols = Append(t.symbols, new)
    <3>1. find_symbol(t, n, owner) = NoSymbol
      BY <1>3, FindSymbol
    <3> QED BY <3>1 DEF add_symbol
  <2>2. /\ new.name = n /\ new.owner = owner /\ new.fallback = NoSymbol
        /\ (new.param <=> param)
    BY DEF NewSymbol
  <2> HIDE DEF new, u
  <2>3. /\ Len(u.symbols) = Len(t.symbols) + 1
        /\ \A i \in 1..Len(t.symbols) : u.symbols[i] = t.symbols[i]
        /\ u.symbols[Len(t.symbols) + 1] = new
    BY <1>1, <2>1
  <2>4. \A i \in 1..Len(u.symbols) : i \notin 1..Len(t.symbols) => u.symbols[i] = new
    BY <1>1, <2>3
  <2>5. \A i \in 1..Len(t.symbols) : ~(t.symbols[i].name = n /\ t.symbols[i].owner = owner)
    BY <1>3 DEF Has
  <2>6. \A i \in 1..Len(t.symbols) :
          /\ u.symbols[i].fallback = t.symbols[i].fallback
          /\ u.symbols[i].param <=>
               (t.symbols[i].param \/ (param /\ t.symbols[i].name = n
                                             /\ t.symbols[i].owner = owner))
    BY <2>3, <2>5
  <2> QED BY <2>2, <2>4, <2>6 DEF u
<1> QED BY <1>2, <1>3

LEMMA FallbackFields ==
  ASSUME NEW count \in Nat, NEW t, WellFormed(t, count),
         NEW i \in 1..Len(t.symbols), NEW x \in 0..Len(t.symbols)
  PROVE  LET u == [t EXCEPT !.symbols[i].fallback = x] IN
         /\ Len(u.symbols) = Len(t.symbols)
         /\ \A j \in 1..Len(t.symbols) : j # i => u.symbols[j] = t.symbols[j]
         /\ u.symbols[i].name = t.symbols[i].name
         /\ u.symbols[i].owner = t.symbols[i].owner
         /\ u.symbols[i].param = t.symbols[i].param
         /\ u.symbols[i].fallback = x
<1> DEFINE u == [t EXCEPT !.symbols[i].fallback = x]
           s == [t.symbols[i] EXCEPT !.fallback = x]
<1>1. t \in TablesOf(count) /\ t.symbols[i] \in SymbolRecords(count)
      /\ t.symbols \in Seq(SymbolRecords(count))
  BY DEF WellFormed, TablesOf
<1>2. s \in SymbolRecords(count)
  <2>1. x \in Nat
    BY <1>1
  <2> QED BY <1>1, <2>1 DEF SymbolRecords
<1>3. u.symbols = [t.symbols EXCEPT ![i] = s]
  BY <1>1 DEF TablesOf
<1>4. s.name = t.symbols[i].name /\ s.owner = t.symbols[i].owner
      /\ s.param = t.symbols[i].param /\ s.fallback = x
  BY <1>1 DEF SymbolRecords
<1> HIDE DEF s, u
<1>5. /\ Len(u.symbols) = Len(t.symbols)
      /\ \A j \in 1..Len(t.symbols) : u.symbols[j] = IF j = i THEN s ELSE t.symbols[j]
  BY <1>1, <1>2, <1>3, ExceptSeq
<1> QED BY <1>4, <1>5 DEF u

(* What t has is still there as it was; what is new is unmarked and leads  *)
(* nowhere.                                                                *)
Grown(t, u) ==
  /\ Len(t.symbols) <= Len(u.symbols)
  /\ \A i \in 1..Len(t.symbols) :
       /\ u.symbols[i].name = t.symbols[i].name
       /\ u.symbols[i].owner = t.symbols[i].owner
       /\ u.symbols[i].fallback = t.symbols[i].fallback
       /\ u.symbols[i].param <=> t.symbols[i].param
  /\ \A i \in 1..Len(u.symbols) :
       i \notin 1..Len(t.symbols) => ~u.symbols[i].param /\ u.symbols[i].fallback = NoSymbol

LEMMA GrownBySymbol ==
  ASSUME NEW count \in Nat, NEW t, WellFormed(t, count), NEW n \in Names,
         NEW owner \in External..count
  PROVE  LET u == add_symbol(t, n, owner, FALSE) IN
         /\ WellFormed(u, count)
         /\ Grown(t, u)
         /\ \A i \in 1..Len(u.symbols) : i \notin 1..Len(t.symbols) => u.symbols[i].owner = owner
<1>1. ASSUME NEW param \in BOOLEAN, ~param
      PROVE  LET u == add_symbol(t, n, owner, param) IN
             /\ WellFormed(u, count)
             /\ Grown(t, u)
             /\ \A i \in 1..Len(u.symbols) : i \notin 1..Len(t.symbols) => u.symbols[i].owner = owner
  <2> DEFINE u == add_symbol(t, n, owner, param)
  <2>1. WellFormed(u, count) /\ Extends(t, u)
    BY AddSymbol
  <2>2. /\ \A i \in 1..Len(t.symbols) :
             /\ u.symbols[i].fallback = t.symbols[i].fallback
             /\ u.symbols[i].param <=>
                  (t.symbols[i].param \/ (param /\ t.symbols[i].name = n
                                                /\ t.symbols[i].owner = owner))
        /\ \A i \in 1..Len(u.symbols) :
             i \notin 1..Len(t.symbols) =>
               /\ u.symbols[i].name = n
               /\ u.symbols[i].owner = owner
               /\ u.symbols[i].param <=> param
               /\ u.symbols[i].fallback = NoSymbol
    BY AddSymbolFields
  <2> HIDE DEF u
  <2> QED BY <1>1, <2>1, <2>2 DEF Grown, Extends, u
<1> QED BY <1>1

LEMMA GrownSame ==
  ASSUME NEW count, NEW t, WellFormed(t, count)
  PROVE  Grown(t, t)
  BY DEF Grown, WellFormed, TablesOf

LEMMA GrownTwice ==
  ASSUME NEW count, NEW t, NEW u, NEW v, WellFormed(t, count), WellFormed(u, count),
         WellFormed(v, count), Grown(t, u), Grown(u, v)
  PROVE  Grown(t, v)
<1>1. Len(t.symbols) \in Nat /\ Len(u.symbols) \in Nat /\ Len(v.symbols) \in Nat
  BY DEF WellFormed, TablesOf
<1>2. Len(t.symbols) <= Len(v.symbols)
      /\ \A i \in 1..Len(t.symbols) : i \in 1..Len(u.symbols)
  BY <1>1 DEF Grown
<1>3. \A i \in 1..Len(t.symbols) :
        /\ v.symbols[i].name = t.symbols[i].name
        /\ v.symbols[i].owner = t.symbols[i].owner
        /\ v.symbols[i].fallback = t.symbols[i].fallback
        /\ v.symbols[i].param <=> t.symbols[i].param
  BY <1>2 DEF Grown
<1>4. \A i \in 1..Len(v.symbols) :
        i \notin 1..Len(t.symbols) => ~v.symbols[i].param /\ v.symbols[i].fallback = NoSymbol
  BY DEF Grown
<1> QED BY <1>2, <1>3, <1>4 DEF Grown

-----------------------------------------------------------------------------
(* The steps *)

(* A name that a scope is sure of has its symbol: one that is new now is   *)
(* of another name or scope.                                               *)
LEMMA NewIsUnknown ==
  ASSUME IInv, IInv', Grown(table, table'), NEW i \in 1..Len(table'.symbols),
         i \notin 1..Len(table.symbols), NEW s, NEW n,
         table'.symbols[i].owner = s, table'.symbols[i].name = n
  PROVE  ~Has(table, n, s)
<1> SUFFICES ASSUME Has(table, n, s) PROVE FALSE
  OBVIOUS
<1>1. PICK j \in 1..Len(table.symbols) :
        table.symbols[j].name = n /\ table.symbols[j].owner = s
  BY DEF Has
<1>2. Len(table.symbols) \in Nat /\ Len(table'.symbols) \in Nat
  BY DEF IInv, WellFormed, TablesOf
<1>3. /\ j \in 1..Len(table'.symbols)
      /\ table'.symbols[j].name = n
      /\ table'.symbols[j].owner = s
  BY <1>1, <1>2 DEF Grown
<1>4. i = j
  BY <1>3 DEF IInv, WellFormed, SameKey
<1> QED BY <1>1, <1>4

(* A pass that adds names, before or after the links are made.             *)
LEMMA GrowStep ==
  ASSUME IInv, IInv', FlagsInv, LinksInv, UNCHANGED <<program, walk, scope>>,
         walk \notin {"params", "link"}, Grown(table, table')
  PROVE  FlagsInv' /\ LinksInv'
<1>1. \A s, n : /\ IsParam(s, n)' <=> IsParam(s, n)
                /\ Owns(s, n)' <=> Owns(s, n)
  BY DEF IsParam, Owns, Declares, Assigns, At
<1>2. \A s, n : /\ Marked(s, n) <=> s # External /\ IsParam(s, n)
                /\ Marked(s, n)' <=> s # External /\ IsParam(s, n)
  BY <1>1 DEF Marked
<1>3. (Collected' <=> Collected) /\ \A i : (Passed(i) <=> Collected) /\ (Passed(i)' <=> Collected)
  BY DEF Collected, Passed
<1>4. Len(table.symbols) \in Nat /\ Len(table'.symbols) \in Nat
      /\ 1..Len(table.symbols) \subseteq 1..Len(table'.symbols)
  BY DEF IInv, WellFormed, TablesOf, Grown
<1>5. \A i \in 1..Len(table'.symbols) :
        /\ table'.symbols[i].name \in Names
        /\ table'.symbols[i].owner # External => table'.symbols[i].owner \in Scopes
  <2>1. \A i \in 1..Len(table'.symbols) : table'.symbols[i] \in SymbolRecords(program.count)
    BY DEF IInv, WellFormed, TablesOf
  <2>2. program.count \in Nat
    BY ProgramFacts DEF IInv
  <2> QED BY <2>1, <2>2 DEF SymbolRecords, Scopes, External
<1>6. ASSUME NEW i \in 1..Len(table'.symbols), i \notin 1..Len(table.symbols),
             table'.symbols[i].owner # External
      PROVE  ~Collected /\ ~IsParam(table'.symbols[i].owner, table'.symbols[i].name)
  <2>1. PICK s \in Scopes, n \in Names : table'.symbols[i].owner = s /\ table'.symbols[i].name = n
    BY <1>5, <1>6
  <2>2. Has(table', n, s)
    BY <2>1 DEF Has
  <2>3. ~Has(table, n, s)
    BY <1>6, <2>1, NewIsUnknown
  <2>4. Held(s, n)' /\ ~Held(s, n)
    BY <2>1, <2>2, <2>3 DEF IInv, NamesInv, Scopes
  <2>5. ~Collected
    BY <1>1, <1>3, <2>4 DEF Held
  <2>6. walk \in {"explicit", "implicit"} /\ s \in Nat /\ scope \in Nat /\ s <= scope
    BY <1>3, <2>1, <2>4, <2>5, ProgramFacts
       DEF Held, IInv, ControlInv, Walks, Collected, Scopes
  <2>7. ~IsParam(s, n)
    BY <2>4, <2>5, <2>6 DEF Held, Owns, Declares
  <2> QED BY <2>1, <2>5, <2>7
<1>7. FlagsInv'
  <2> SUFFICES ASSUME NEW i \in 1..Len(table'.symbols)
               PROVE  table'.symbols[i].param <=>
                        Marked(table.symbols[i].owner, table.symbols[i].name)'
    BY DEF FlagsInv
  <2>1. CASE i \in 1..Len(table.symbols)
    <3>1. table.symbols[i].param <=> Marked(table.symbols[i].owner, table.symbols[i].name)
      BY <2>1 DEF FlagsInv
    <3>2. /\ table'.symbols[i].name = table.symbols[i].name
          /\ table'.symbols[i].owner = table.symbols[i].owner
          /\ table'.symbols[i].param <=> table.symbols[i].param
      BY <2>1 DEF Grown
    <3> QED BY <1>2, <3>1, <3>2
  <2>2. CASE i \notin 1..Len(table.symbols)
    <3>1. ~table'.symbols[i].param
      BY <2>2 DEF Grown
    <3> QED BY <1>2, <1>6, <2>2, <3>1
  <2> QED BY <2>1, <2>2
<1>8. LinksInv'
  <2> SUFFICES ASSUME NEW i \in 1..Len(table'.symbols)
               PROVE  IF Collected /\ ~Ends(table.symbols[i])' THEN LeadsOut(i)'
                      ELSE table'.symbols[i].fallback = NoSymbol
    BY <1>3 DEF LinksInv
  <2>1. CASE i \in 1..Len(table.symbols)
    <3>1. /\ table'.symbols[i].name = table.symbols[i].name
          /\ table'.symbols[i].owner = table.symbols[i].owner
          /\ table'.symbols[i].fallback = table.symbols[i].fallback
      BY <2>1 DEF Grown
    <3>2. Ends(table.symbols[i])' <=> Ends(table.symbols[i])
      BY <1>1, <3>1 DEF Ends
    <3>3. IF Collected /\ ~Ends(table.symbols[i]) THEN LeadsOut(i)
          ELSE table.symbols[i].fallback = NoSymbol
      BY <1>3, <2>1 DEF LinksInv
    <3>4. LeadsOut(i) => LeadsOut(i)'
      <4> SUFFICES ASSUME LeadsOut(i) PROVE LeadsOut(i)'
        OBVIOUS
      <4> DEFINE f == table.symbols[i].fallback
      <4>1. f \in 1..Len(table.symbols) /\ table.symbols[f].name = table.symbols[i].name
            /\ table.symbols[f].owner = Outer(table.symbols[i])
        BY DEF LeadsOut
      <4>2. table'.symbols[i].fallback = f
        BY <3>1
      <4> HIDE DEF f
      <4>3. table'.symbols[f].name = table.symbols[f].name
            /\ table'.symbols[f].owner = table.symbols[f].owner
        BY <4>1 DEF Grown
      <4>4. Outer(table.symbols[i])' = Outer(table.symbols[i])
        BY <1>1, <3>1 DEF Outer
      <4> QED BY <1>4, <3>1, <4>1, <4>2, <4>3, <4>4 DEF LeadsOut
    <3> QED BY <3>1, <3>2, <3>3, <3>4
  <2>2. CASE i \notin 1..Len(table.symbols)
    <3>1. table'.symbols[i].fallback = NoSymbol
      BY <2>2 DEF Grown
    <3>2. ~Collected \/ table'.symbols[i].owner = External
      BY <1>6, <2>2
    <3> QED BY <3>1, <3>2 DEF Ends
  <2> QED BY <2>1, <2>2
<1> QED BY <1>7, <1>8

LEMMA GrowingPasses ==
  ASSUME IInv, CollectExplicit \/ CollectImplicit \/ ResolveNode
  PROVE  /\ UNCHANGED <<program, walk, scope>>
         /\ walk \notin {"params", "link"}
         /\ Grown(table, table')
<1>1. UNCHANGED <<program, walk, scope>> /\ pos <= Len(Visited)
      /\ walk \in {"explicit", "implicit", "resolve"}
  BY DEF CollectExplicit, CollectImplicit, ResolveNode, Visiting
<1>2. /\ program.count \in Nat /\ WellFormed(table, program.count)
      /\ scope \in External..program.count /\ External \in External..program.count
  BY ProgramFacts DEF IInv, ControlInv, Scopes, External
<1>3. /\ Node.kind \in Named => Node.name \in Names
      /\ Node.index \in Names \cup {NoName}
  BY <1>1, NodeInBody, NodeInScope DEF Items
<1>4. \A n \in Names : \A o \in {scope, External} :
        LET u == add_symbol(table, n, o, FALSE) IN
        WellFormed(u, program.count) /\ Grown(table, u)
  BY <1>2, GrownBySymbol
<1>5. Grown(table, table)
  BY <1>2, GrownSame
<1> SUFFICES Grown(table, table')
  BY <1>1
<1>6. CASE CollectExplicit
  <2>1. CASE Node.kind \notin {"declare", "foreach"}
    BY <1>5, <1>6, <2>1 DEF CollectExplicit
  <2>2. CASE Node.kind \in {"declare", "foreach"}
    <3> DEFINE value == add_symbol(table, Node.name, scope, FALSE)
               both == add_symbol(value, Node.index, scope, FALSE)
    <3>1. WellFormed(value, program.count) /\ Grown(table, value)
      BY <1>3, <1>4, <2>2 DEF Named
    <3>2. table' = IF Node.index = NoName THEN value ELSE both
      BY <1>6, <2>2 DEF CollectExplicit
    <3> HIDE DEF value
    <3>3. CASE Node.index # NoName
      <4>1. WellFormed(both, program.count) /\ Grown(value, both)
        BY <1>2, <1>3, <3>1, <3>3, GrownBySymbol
      <4> HIDE DEF both
      <4>2. Grown(table, both)
        BY <1>2, <3>1, <4>1, GrownTwice
      <4> QED BY <3>2, <3>3, <4>2
    <3> QED BY <3>1, <3>2, <3>3
  <2> QED BY <2>1, <2>2
<1>7. CASE CollectImplicit
  <2>1. table' = table \/ (Node.kind = "assign" /\ table' = add_symbol(table, Node.name, scope, FALSE))
    BY <1>7 DEF CollectImplicit
  <2> QED BY <1>3, <1>4, <1>5, <2>1 DEF Named
<1>8. CASE ResolveNode
  <2>1. table' = table \/ (Node.kind \in {"read", "assign"}
                           /\ table' = add_symbol(table, Node.name, External, FALSE))
    BY <1>8 DEF ResolveNode
  <2> QED BY <1>3, <1>4, <1>5, <2>1 DEF Named
<1> QED BY <1>6, <1>7, <1>8

(* A parameter's symbol is marked from the moment its pass has seen it. *)
LEMMA AddParameterMarks ==
  ASSUME IInv, FlagsInv, LinksInv, AddParameter
  PROVE  FlagsInv' /\ LinksInv'
<1>1. /\ walk = "params" /\ pos' = pos + 1 /\ pos <= Len(Visited) /\ Visited = program.params[scope]
      /\ UNCHANGED <<program, walk, scope>>
  BY DEF AddParameter, Visiting, Visited
<1>2. /\ program.count \in Nat /\ WellFormed(table, program.count)
      /\ scope \in External..program.count /\ scope \in 1..program.count
      /\ program.params[scope] \in Seq(Names \cup {NoName}) /\ pos \in Nat \ {0}
  <2>1. /\ ControlInv /\ WellFormed(table, program.count)
        /\ scope \in Scopes /\ scope # 0 /\ pos \in Nat \ {0}
    BY <1>1 DEF IInv, ControlInv
  <2>2. program.count \in Nat
        /\ program.params \in [1..program.count -> Seq(Names \cup {NoName})]
    BY <2>1, ProgramFacts
  <2>3. scope \in External..program.count /\ scope \in 1..program.count
    BY <2>1, <2>2 DEF Scopes, External
  <2> QED BY <2>1, <2>2, <2>3
<1> DEFINE params == program.params[scope]
<1>3. pos \in 1..Len(params) /\ Node = params[pos] /\ Node \in Names \cup {NoName}
  <2>1. Len(params) \in Nat
    BY <1>2, LenProperties
  <2>2. pos \in 1..Len(params)
    BY <1>1, <1>2, <2>1
  <2>3. Node = params[pos]
    BY <1>1 DEF Node
  <2> QED BY <1>2, <2>2, <2>3, ElementOfSeq
<1>4. \A i : ~Passed(i) /\ ~Passed(i)'
  BY <1>1 DEF Passed, Collected
<1>5. scope # External /\ scope # 0
  BY <1>2 DEF External
<1>6. \A s, n : IsParam(s, n)' <=> IsParam(s, n)
  BY <1>1 DEF IsParam
<1>7. \A n : ParamUpto(scope, n, pos)' <=> ParamUpto(scope, n, pos) \/ n = Node
  <2> SUFFICES ASSUME NEW n
               PROVE  ParamUpto(scope, n, pos)' <=> ParamUpto(scope, n, pos) \/ n = Node
    OBVIOUS
  <2>1. ParamUpto(scope, n, pos)' <=> ParamUpto(scope, n, pos + 1)
    BY <1>1 DEF ParamUpto
  <2>2. \A i \in 1..Len(params) : i < pos + 1 <=> i < pos \/ i = pos
    BY <1>2
  <2> QED BY <1>3, <1>5, <2>1, <2>2 DEF ParamUpto
<1>8. \A s, n : Marked(s, n)' <=> Marked(s, n) \/ (s = scope /\ n = Node)
  BY <1>1, <1>5, <1>6, <1>7 DEF Marked
<1>9. \A i \in 1..Len(table.symbols) : table.symbols[i].name \in Names
  <2>1. \A i \in 1..Len(table.symbols) : table.symbols[i] \in SymbolRecords(program.count)
    BY <1>2 DEF WellFormed, TablesOf
  <2> QED BY <2>1 DEF SymbolRecords
<1>10. CASE Node = NoName
  <2>1. table' = table
    BY <1>10 DEF AddParameter
  <2>2. FlagsInv'
    BY <1>8, <1>9, <1>10, <2>1, ProgramsAssumption DEF FlagsInv
  <2> QED BY <1>4, <2>1, <2>2 DEF LinksInv
<1>11. CASE Node # NoName
  <2> DEFINE u == add_symbol(table, Node, scope, TRUE)
  <2>1. table' = u /\ Node \in Names
    BY <1>3, <1>11 DEF AddParameter
  <2>2. Extends(table, u) /\ WellFormed(u, program.count)
    BY <1>2, <2>1, AddSymbol
  <2>3. ASSUME NEW param \in BOOLEAN, param
        PROVE  LET v == add_symbol(table, Node, scope, param) IN
               /\ \A i \in 1..Len(table.symbols) :
                    /\ v.symbols[i].fallback = table.symbols[i].fallback
                    /\ v.symbols[i].param <=>
                         (table.symbols[i].param \/ (table.symbols[i].name = Node
                                                       /\ table.symbols[i].owner = scope))
               /\ \A i \in 1..Len(v.symbols) :
                    i \notin 1..Len(table.symbols) =>
                      /\ v.symbols[i].name = Node
                      /\ v.symbols[i].owner = scope
                      /\ v.symbols[i].param
                      /\ v.symbols[i].fallback = NoSymbol
    <3> DEFINE v == add_symbol(table, Node, scope, param)
    <3>1. /\ \A i \in 1..Len(table.symbols) :
               /\ v.symbols[i].fallback = table.symbols[i].fallback
               /\ v.symbols[i].param <=>
                    (table.symbols[i].param \/ (param /\ table.symbols[i].name = Node
                                                      /\ table.symbols[i].owner = scope))
          /\ \A i \in 1..Len(v.symbols) :
               i \notin 1..Len(table.symbols) =>
                 /\ v.symbols[i].name = Node
                 /\ v.symbols[i].owner = scope
                 /\ v.symbols[i].param <=> param
                 /\ v.symbols[i].fallback = NoSymbol
      BY <1>2, <2>1, AddSymbolFields
    <3> HIDE DEF v
    <3> QED BY <2>3, <3>1 DEF v
  <2>4. /\ \A i \in 1..Len(table.symbols) :
             /\ u.symbols[i].fallback = table.symbols[i].fallback
             /\ u.symbols[i].param <=>
                  (table.symbols[i].param \/ (table.symbols[i].name = Node
                                                /\ table.symbols[i].owner = scope))
        /\ \A i \in 1..Len(u.symbols) :
             i \notin 1..Len(table.symbols) =>
               /\ u.symbols[i].name = Node
               /\ u.symbols[i].owner = scope
               /\ u.symbols[i].param
               /\ u.symbols[i].fallback = NoSymbol
    BY <2>3
  <2> HIDE DEF u
  <2>5. FlagsInv'
    <3> SUFFICES ASSUME NEW i \in 1..Len(table'.symbols)
                 PROVE  table'.symbols[i].param <=>
                          Marked(table.symbols[i].owner, table.symbols[i].name)'
      BY DEF FlagsInv
    <3>1. CASE i \in 1..Len(table.symbols)
      <4>1. table.symbols[i].param <=> Marked(table.symbols[i].owner, table.symbols[i].name)
        BY <3>1 DEF FlagsInv
      <4>2. table'.symbols[i].name = table.symbols[i].name
            /\ table'.symbols[i].owner = table.symbols[i].owner
        BY <2>1, <2>2, <3>1 DEF Extends
      <4> QED BY <1>8, <2>1, <2>4, <3>1, <4>1, <4>2
    <3>2. CASE i \notin 1..Len(table.symbols)
      BY <1>8, <2>1, <2>4, <3>2
    <3> QED BY <3>1, <3>2
  <2>6. \A i \in 1..Len(table'.symbols) : table'.symbols[i].fallback = NoSymbol
    BY <1>4, <2>1, <2>4 DEF LinksInv
  <2> QED BY <1>4, <2>5, <2>6 DEF LinksInv
<1> QED BY <1>10, <1>11

(* Symbols before the one the pass is at keep their links, that one gets   *)
(* its own, and the runtime's names that it may add lead nowhere.          *)
LEMMA LinkFallbackLinks ==
  ASSUME IInv, FlagsInv, LinksInv, LinkFallback
  PROVE  FlagsInv' /\ LinksInv'
<1>1. /\ walk = "link" /\ pos' = pos + 1 /\ pos <= Len(Visited) /\ Visited = table.symbols
      /\ UNCHANGED <<program, walk, scope>>
  BY DEF LinkFallback, Visiting, Visited
<1>2. /\ program.count \in Nat /\ WellFormed(table, program.count)
      /\ 0 \in Scopes /\ External \in External..program.count /\ pos \in Nat \ {0}
  BY ProgramFacts DEF IInv, ControlInv, Scopes, External
<1>3. /\ table.symbols \in Seq(SymbolRecords(program.count))
      /\ Len(table.symbols) \in Nat /\ pos \in 1..Len(table.symbols)
  BY <1>1, <1>2 DEF WellFormed, TablesOf
<1>4. table.symbols[pos].name \in Names
  <2>1. table.symbols[pos] \in SymbolRecords(program.count)
    BY <1>3, ElementOfSeq
  <2> QED BY <2>1 DEF SymbolRecords
<1>5. \A s, n : /\ IsParam(s, n)' <=> IsParam(s, n)
                /\ Owns(s, n)' <=> Owns(s, n)
  BY <1>1 DEF IsParam, Owns, Declares, Assigns, At
<1>6. \A s, n : /\ Marked(s, n) <=> s # External /\ IsParam(s, n)
                /\ Marked(s, n)' <=> s # External /\ IsParam(s, n)
  BY <1>1, <1>5 DEF Marked
<1>7. \A i \in Nat : (Passed(i) <=> i < pos) /\ (Passed(i)' <=> i < pos \/ i = pos)
  BY <1>1, <1>2 DEF Collected, Passed
<1> DEFINE symbol == table.symbols[pos]
<1>8. symbol.param <=> symbol.owner # External /\ IsParam(symbol.owner, symbol.name)
  BY <1>3, <1>6 DEF FlagsInv
<1>9. symbol.fallback = NoSymbol
  BY <1>3, <1>7 DEF LinksInv
<1>10. CASE symbol.owner = External \/ symbol.param
  <2>1. table' = table
    BY <1>10 DEF LinkFallback
  <2>2. Ends(symbol)
    BY <1>8, <1>10 DEF Ends
  <2>3. FlagsInv'
    BY <1>6, <2>1 DEF FlagsInv
  <2>4. \A i \in 1..Len(table.symbols) :
          /\ Ends(table.symbols[i])' <=> Ends(table.symbols[i])
          /\ Outer(table.symbols[i])' = Outer(table.symbols[i])
    BY <1>5, <2>1 DEF Ends, Outer
  <2>5. \A i \in 1..Len(table.symbols) : LeadsOut(i)' <=> LeadsOut(i)
    BY <2>1, <2>4 DEF LeadsOut
  <2> SUFFICES ASSUME NEW i \in 1..Len(table.symbols)
               PROVE  IF Passed(i)' /\ ~Ends(table.symbols[i])' THEN LeadsOut(i)'
                      ELSE table'.symbols[i].fallback = NoSymbol
    BY <2>1, <2>3 DEF LinksInv
  <2>6. i \in Nat
    BY <1>3
  <2>7. CASE i = pos
    BY <1>9, <2>1, <2>2, <2>4, <2>7
  <2>8. CASE i # pos
    BY <1>7, <2>1, <2>4, <2>5, <2>6, <2>8 DEF LinksInv
  <2> QED BY <2>7, <2>8
<1>11. CASE ~(symbol.owner = External \/ symbol.param)
  <2> DEFINE global == IF symbol.owner > 0 THEN find_symbol(table, symbol.name, 0) ELSE NoSymbol
             linked == IF global = NoSymbol THEN add_symbol(table, symbol.name, External, FALSE)
                       ELSE table
             target == IF global = NoSymbol THEN find_symbol(linked, symbol.name, External)
                       ELSE global
             relinked == [linked EXCEPT !.symbols[pos].fallback = target]
  <2>1. table' = relinked
    BY <1>11 DEF LinkFallback
  <2>2. Has(table, symbol.name, 0) <=> Owns(0, symbol.name)
    BY <1>1, <1>2, <1>4 DEF IInv, NamesInv, Held, Collected
  <2>3. /\ WellFormed(linked, program.count)
        /\ Grown(table, linked)
        /\ \A i \in 1..Len(linked.symbols) :
             i \notin 1..Len(table.symbols) => linked.symbols[i].owner = External
        /\ target \in 1..Len(linked.symbols)
        /\ linked.symbols[target].name = symbol.name
        /\ linked.symbols[target].owner = Outer(symbol)
    <3>1. CASE global = NoSymbol
      <4> DEFINE u == add_symbol(table, symbol.name, External, FALSE)
      <4>1. /\ WellFormed(u, program.count)
            /\ Grown(table, u)
            /\ \A i \in 1..Len(u.symbols) :
                 i \notin 1..Len(table.symbols) => u.symbols[i].owner = External
        BY <1>2, <1>4, GrownBySymbol
      <4>2. Has(u, symbol.name, External)
        BY <1>4, AddExternal
      <4>3. linked = u /\ target = find_symbol(linked, symbol.name, External)
        BY <3>1
      <4>4. Outer(symbol) = External
        <5>1. symbol.owner > 0 => ~Has(table, symbol.name, 0)
          BY <1>2, <3>1, FindSymbol
        <5> QED BY <2>2, <5>1 DEF Outer
      <4> HIDE DEF u, linked, target
      <4>5. /\ target \in 1..Len(linked.symbols)
            /\ linked.symbols[target].name = symbol.name
            /\ linked.symbols[target].owner = External
        BY <1>2, <4>1, <4>2, <4>3, FindSymbol
      <4> QED BY <4>1, <4>3, <4>4, <4>5
    <3>2. CASE global # NoSymbol
      <4>1. symbol.owner > 0 /\ global = find_symbol(table, symbol.name, 0)
        BY <3>2
      <4>2. linked = table /\ target = global
        BY <3>2
      <4> HIDE DEF linked, target
      <4>3. Has(table, symbol.name, 0)
        BY <1>2, <3>2, <4>1, FindSymbol
      <4>4. /\ global \in 1..Len(table.symbols)
            /\ table.symbols[global].name = symbol.name
            /\ table.symbols[global].owner = 0
        BY <1>2, <4>1, <4>3, FindSymbol
      <4>5. Outer(symbol) = 0
        BY <2>2, <4>1, <4>3 DEF Outer
      <4>6. Grown(table, table)
        BY <1>2, GrownSame
      <4> HIDE DEF global
      <4> QED BY <1>2, <4>2, <4>4, <4>5, <4>6
    <3> QED BY <3>1, <3>2
  <2> HIDE DEF target, linked
  <2>4. /\ Len(linked.symbols) \in Nat /\ pos \in 1..Len(linked.symbols)
        /\ 1..Len(table.symbols) \subseteq 1..Len(linked.symbols)
    BY <1>3, <2>3 DEF WellFormed, TablesOf, Grown
  <2>5. /\ Len(relinked.symbols) = Len(linked.symbols)
        /\ \A j \in 1..Len(linked.symbols) : j # pos => relinked.symbols[j] = linked.symbols[j]
        /\ relinked.symbols[pos].name = linked.symbols[pos].name
        /\ relinked.symbols[pos].owner = linked.symbols[pos].owner
        /\ relinked.symbols[pos].param = linked.symbols[pos].param
        /\ relinked.symbols[pos].fallback = target
    <3>1. target \in 0..Len(linked.symbols)
      BY <2>3, <2>4
    <3> QED BY <1>2, <2>3, <2>4, <3>1, FallbackFields
  <2> HIDE DEF relinked
  <2>6. \A j \in 1..Len(linked.symbols) :
          /\ table'.symbols[j].name = linked.symbols[j].name
          /\ table'.symbols[j].owner = linked.symbols[j].owner
          /\ table'.symbols[j].param = linked.symbols[j].param
    BY <2>1, <2>5
  <2>7. \A i \in 1..Len(table.symbols) :
          /\ table'.symbols[i].name = table.symbols[i].name
          /\ table'.symbols[i].owner = table.symbols[i].owner
          /\ table'.symbols[i].param <=> table.symbols[i].param
          /\ i # pos => table'.symbols[i].fallback = table.symbols[i].fallback
    BY <2>1, <2>3, <2>4, <2>5, <2>6 DEF Grown
  <2>8. \A i \in 1..Len(table'.symbols) :
          i \notin 1..Len(table.symbols) =>
            /\ table'.symbols[i].owner = External
            /\ ~table'.symbols[i].param
            /\ table'.symbols[i].fallback = NoSymbol
    BY <1>3, <2>1, <2>3, <2>5, <2>6 DEF Grown
  <2>9. FlagsInv'
    <3> SUFFICES ASSUME NEW i \in 1..Len(table'.symbols)
                 PROVE  table'.symbols[i].param <=>
                          Marked(table.symbols[i].owner, table.symbols[i].name)'
      BY DEF FlagsInv
    <3>1. CASE i \in 1..Len(table.symbols)
      <4>1. table.symbols[i].param <=> Marked(table.symbols[i].owner, table.symbols[i].name)
        BY <3>1 DEF FlagsInv
      <4> QED BY <1>6, <2>7, <3>1, <4>1
    <3>2. CASE i \notin 1..Len(table.symbols)
      BY <1>6, <2>8, <3>2
    <3> QED BY <3>1, <3>2
  <2>10. LinksInv'
    <3> SUFFICES ASSUME NEW i \in 1..Len(table'.symbols)
                 PROVE  IF Passed(i)' /\ ~Ends(table.symbols[i])' THEN LeadsOut(i)'
                        ELSE table'.symbols[i].fallback = NoSymbol
      BY DEF LinksInv
    <3>1. CASE i \notin 1..Len(table.symbols)
      BY <2>8, <3>1 DEF Ends
    <3>2. ASSUME i \in 1..Len(table.symbols)
          PROVE  /\ Ends(table.symbols[i])' <=> Ends(table.symbols[i])
                 /\ Outer(table.symbols[i])' = Outer(table.symbols[i])
                 /\ i \in Nat
      BY <1>3, <1>5, <2>7, <3>2 DEF Ends, Outer
    <3>3. CASE i = pos
      <4>1. LeadsOut(i)'
        BY <1>3, <2>1, <2>3, <2>5, <2>6, <2>7, <3>2, <3>3 DEF LeadsOut
      <4>2. ~Ends(table.symbols[i])' /\ Passed(i)'
        BY <1>3, <1>7, <1>8, <1>11, <3>2, <3>3 DEF Ends
      <4> QED BY <4>1, <4>2
    <3>4. CASE i \in 1..Len(table.symbols) /\ i # pos
      <4>1. IF Passed(i) /\ ~Ends(table.symbols[i]) THEN LeadsOut(i)
            ELSE table.symbols[i].fallback = NoSymbol
        BY <3>4 DEF LinksInv
      <4>2. LeadsOut(i) => LeadsOut(i)'
        <5> SUFFICES ASSUME LeadsOut(i) PROVE LeadsOut(i)'
          OBVIOUS
        <5> DEFINE f == table.symbols[i].fallback
        <5>1. f \in 1..Len(table.symbols) /\ table.symbols[f].name = table.symbols[i].name
              /\ table.symbols[f].owner = Outer(table.symbols[i])
          BY DEF LeadsOut
        <5>2. table'.symbols[i].fallback = f
          BY <2>7, <3>4
        <5> HIDE DEF f
        <5>3. table'.symbols[f].name = table.symbols[f].name
              /\ table'.symbols[f].owner = table.symbols[f].owner
              /\ f \in 1..Len(table'.symbols)
          BY <2>1, <2>4, <2>5, <2>7, <5>1
        <5> QED BY <2>7, <3>2, <3>4, <5>1, <5>2, <5>3 DEF LeadsOut
      <4>3. Passed(i)' <=> Passed(i)
        BY <1>7, <3>2, <3>4
      <4> QED BY <2>7, <3>2, <3>4, <4>1, <4>2, <4>3
    <3> QED BY <1>3, <3>1, <3>3, <3>4
  <2> QED BY <2>9, <2>10
<1> QED BY <1>10, <1>11

(* From one pass to the next: the parameters' pass has seen all of them,   *)
(* and the pass over the links every symbol, those it added included.      *)
LEMMA EndWalkLinks ==
  ASSUME IInv, FlagsInv, LinksInv, EndWalk
  PROVE  FlagsInv' /\ LinksInv'
<1>1. /\ walk # "done" /\ pos > Len(Visited)
      /\ walk' = NextWalk.walk /\ scope' = NextWalk.scope /\ pos' = 1
      /\ UNCHANGED <<program, table>>
  BY DEF EndWalk
<1>2. /\ scope \in Nat /\ program.count \in Nat /\ scope \in Scopes /\ pos \in Nat \ {0}
      /\ Len(table.symbols) \in Nat
  BY ProgramFacts DEF IInv, ControlInv, Scopes, WellFormed, TablesOf
<1>3. \A s, n : /\ IsParam(s, n)' <=> IsParam(s, n)
                /\ Owns(s, n)' <=> Owns(s, n)
  BY <1>1 DEF IsParam, Owns, Declares, Assigns, At
<1>4. \A s, n : Marked(s, n) <=> s # External /\ IsParam(s, n)
  BY WalkComplete, <1>1 DEF Marked
<1>5. \A i \in 1..Len(table.symbols) :
        /\ table.symbols[i].name \in Names
        /\ table.symbols[i].owner # External => table.symbols[i].owner \in Scopes
  <2>1. \A i \in 1..Len(table.symbols) : table.symbols[i] \in SymbolRecords(program.count)
    BY DEF IInv, WellFormed, TablesOf
  <2> QED BY <1>2, <2>1 DEF SymbolRecords, Scopes, External
<1>6. ASSUME NEW i \in 1..Len(table.symbols), walk' = "params"
      PROVE  table.symbols[i].owner # scope'
  <2> SUFFICES ASSUME table.symbols[i].owner = scope' PROVE FALSE
    OBVIOUS
  <2>1. walk = "implicit" /\ scope' = scope + 1 /\ ~Collected
    <3> DEFINE next == NextWalk
    <3>1. next.walk = "params" /\ scope' = next.scope
      BY <1>1, <1>6
    <3>2. \/ walk = "params" /\ next = [walk |-> "explicit", scope |-> scope]
          \/ walk = "explicit" /\ next = [walk |-> "implicit", scope |-> scope]
          \/ walk = "implicit" /\ next = [walk |-> "params", scope |-> scope + 1]
          \/ walk = "implicit" /\ next = [walk |-> "link", scope |-> 0]
          \/ next.walk # "params"
      BY <1>1, NextWalkCases
    <3> HIDE DEF next
    <3>3. walk = "implicit" /\ next = [walk |-> "params", scope |-> scope + 1]
      BY <3>1, <3>2
    <3> QED BY <3>1, <3>3 DEF Collected
  <2>2. PICK s \in Scopes, n \in Names : table.symbols[i].owner = s /\ table.symbols[i].name = n
    BY <1>2, <1>5, <2>1 DEF External
  <2>3. Has(table, n, s)
    BY <2>2 DEF Has
  <2>4. Held(s, n)
    BY <2>2, <2>3 DEF IInv, NamesInv
  <2>5. s <= scope
    BY <2>1, <2>4 DEF Held
  <2> QED BY <1>2, <2>1, <2>2, <2>5
<1>7. FlagsInv'
  <2> SUFFICES ASSUME NEW i \in 1..Len(table.symbols)
               PROVE  table.symbols[i].param <=>
                        Marked(table.symbols[i].owner, table.symbols[i].name)'
    BY <1>1 DEF FlagsInv
  <2>1. Marked(table.symbols[i].owner, table.symbols[i].name)'
          <=> /\ table.symbols[i].owner # External
              /\ IsParam(table.symbols[i].owner, table.symbols[i].name)
    BY <1>1, <1>3, <1>6 DEF Marked
  <2> QED BY <1>4, <2>1 DEF FlagsInv
<1>8. LinksInv'
  <2>1. \A i \in 1..Len(table.symbols) :
          /\ Ends(table.symbols[i])' <=> Ends(table.symbols[i])
          /\ Outer(table.symbols[i])' = Outer(table.symbols[i])
    BY <1>1, <1>3 DEF Ends, Outer
  <2>2. \A i \in 1..Len(table.symbols) : LeadsOut(i)' <=> LeadsOut(i)
    BY <1>1, <2>1 DEF LeadsOut
  <2>3. \A i \in 1..Len(table.symbols) : Passed(i)' <=> Passed(i)
    <3>1. CASE Collected
      <4>1. Collected' /\ walk' # "link"
        <5>1. walk' \in Walks \ {"params", "explicit", "implicit"}
          BY <1>1, <3>1, NextWalkCases DEF Collected
        <5>2. Collected'
          BY <5>1 DEF Walks, Collected
        <5>3. walk \in {"link", "resolve", "labels", "gotos", "loops"}
          BY <1>1, <3>1 DEF Collected
        <5>4. walk' # "link"
          BY <1>1, <5>3 DEF NextWalk, AfterLast
        <5> QED BY <5>2, <5>4
      <4>2. walk = "link" => Visited = table.symbols
        BY DEF Visited
      <4>3. walk = "link" => \A i \in 1..Len(table.symbols) : i < pos
        BY <1>1, <1>2, <4>2
      <4> QED BY <3>1, <4>1, <4>3 DEF Passed
    <3>2. CASE ~Collected
      <4>1. Collected' => walk' = "link"
        BY <1>1, <3>2, NextWalkCases DEF Collected
      <4>2. \A i \in 1..Len(table.symbols) : ~(i < pos')
        BY <1>1
      <4> QED BY <3>2, <4>1, <4>2 DEF Passed
    <3> QED BY <3>1, <3>2
  <2> QED BY <1>1, <2>1, <2>2, <2>3 DEF LinksInv
<1> QED BY <1>7, <1>8

(* The passes over labels, gotos and loops, and stuttering. *)
LEMMA RestLinks ==
  ASSUME IInv, FlagsInv, LinksInv, UNCHANGED <<program, scope, table>>,
         \/ walk \in {"labels", "gotos", "loops"} /\ walk' \in {walk, "done"}
         \/ UNCHANGED <<walk, pos>>
  PROVE  FlagsInv' /\ LinksInv'
<1>1. \A s, n : /\ IsParam(s, n)' <=> IsParam(s, n)
                /\ Owns(s, n)' <=> Owns(s, n)
  BY DEF IsParam, Owns, Declares, Assigns, At
<1>2. \A s, n : Marked(s, n)' <=> Marked(s, n)
  <2>1. UNCHANGED <<walk, pos>> => \A s, n : ParamUpto(s, n, pos)' <=> ParamUpto(s, n, pos)
    BY DEF ParamUpto
  <2> QED BY <1>1, <2>1 DEF Marked
<1>3. \A i : Passed(i)' <=> Passed(i)
  BY DEF Passed, Collected
<1>4. \A i \in 1..Len(table.symbols) :
        /\ Ends(table.symbols[i])' <=> Ends(table.symbols[i])
        /\ Outer(table.symbols[i])' = Outer(table.symbols[i])
  BY <1>1 DEF Ends, Outer
<1>5. \A i \in 1..Len(table.symbols) : LeadsOut(i)' <=> LeadsOut(i)
  BY <1>4 DEF LeadsOut
<1> QED BY <1>2, <1>3, <1>4, <1>5 DEF FlagsInv, LinksInv

LEMMA LinksInductive == Spec => [](IInv /\ FlagsInv /\ LinksInv)
<1>1. Init => FlagsInv /\ LinksInv
  <2> SUFFICES ASSUME Init PROVE FlagsInv /\ LinksInv
    OBVIOUS
  <2>1. Len(table.symbols) = 0
    BY DEF Init
  <2> QED BY <2>1 DEF FlagsInv, LinksInv
<1>2. IInv /\ IInv' /\ FlagsInv /\ LinksInv /\ [Next]_vars => FlagsInv' /\ LinksInv'
  <2> SUFFICES ASSUME IInv, IInv', FlagsInv, LinksInv, [Next]_vars
               PROVE  FlagsInv' /\ LinksInv'
    OBVIOUS
  <2>1. CASE CollectExplicit \/ CollectImplicit \/ ResolveNode
    BY <2>1, GrowingPasses, GrowStep
  <2>2. CASE AddParameter
    BY <2>2, AddParameterMarks
  <2>3. CASE LinkFallback
    BY <2>3, LinkFallbackLinks
  <2>4. CASE CollectLabel \/ BindGoto \/ CheckLoop
    <3>1. /\ UNCHANGED <<program, scope, table>>
          /\ walk \in {"labels", "gotos", "loops"}
          /\ walk' \in {walk, "done"}
      BY <2>4 DEF CollectLabel, BindGoto, CheckLoop, Visiting, resolution_error
    <3> QED BY <3>1, RestLinks
  <2>5. CASE EndWalk
    BY <2>5, EndWalkLinks
  <2>6. CASE UNCHANGED vars
    <3>1. UNCHANGED <<program, scope, table>> /\ UNCHANGED <<walk, pos>>
      BY <2>6 DEF vars
    <3> QED BY <3>1, RestLinks
  <2> QED BY <2>1, <2>2, <2>3, <2>4, <2>5, <2>6 DEF Next
<1> QED BY <1>1, <1>2, Inductive, PTL DEF Spec

(* However a program is written, HDResolveProgram links each local to the  *)
(* global of its name if there is one and to the runtime's name if not,    *)
(* each global to the runtime's name, and a parameter to nothing: reading  *)
(* an unbound name leads outwards in at most two steps and ends.           *)
THEOREM LinksLeadOut == Spec => []FallbacksLeadOut
<1>1. IInv /\ LinksInv => FallbacksLeadOut
  <2> SUFFICES ASSUME IInv, LinksInv, Linked, NEW i \in 1..Len(table.symbols)
               PROVE  LET symbol == table.symbols[i]
                          next   == table.symbols[symbol.fallback] IN
                      IF symbol.owner = External \/ IsParam(symbol.owner, symbol.name)
                      THEN symbol.fallback = NoSymbol
                      ELSE /\ symbol.fallback # NoSymbol
                           /\ next.name = symbol.name
                           /\ next.owner = IF symbol.owner > 0 /\ Owns(0, symbol.name)
                                           THEN 0 ELSE External
    BY DEF FallbacksLeadOut
  <2>1. IF ~Ends(table.symbols[i]) THEN LeadsOut(i) ELSE table.symbols[i].fallback = NoSymbol
    BY DEF LinksInv, Passed, Linked
  <2>2. Len(table.symbols) \in Nat
    BY DEF IInv, WellFormed, TablesOf
  <2> QED BY <2>1, <2>2 DEF Ends, LeadsOut, Outer, NoSymbol
<1> QED BY <1>1, LinksInductive, PTL

-----------------------------------------------------------------------------
(* How deep a place of a body is *)

Opens == {"foreach", "loop"}

Change(kind) == IF kind \in Opens THEN 1 ELSE IF kind = "end" THEN -1 ELSE 0

(* The items that a count has seen by i are those by i - 1, and perhaps i. *)
LEMMA CountStep ==
  ASSUME NEW body, NEW kinds, NEW i \in Nat \ {0}
  PROVE  /\ CountOf(body, kinds, 0) = 0
         /\ CountOf(body, kinds, i - 1) \in Nat
         /\ CountOf(body, kinds, i) =
              CountOf(body, kinds, i - 1) + (IF body[i].kind \in kinds THEN 1 ELSE 0)
<1> DEFINE Counted(n) == {k \in 1..n : body[k].kind \in kinds}
<1>1. Counted(0) = {}
  OBVIOUS
<1>2. IsFiniteSet(Counted(i - 1))
  <2>1. IsFiniteSet(1..(i - 1))
    BY FS_Interval
  <2>2. Counted(i - 1) \in SUBSET (1..(i - 1))
    OBVIOUS
  <2> HIDE DEF Counted
  <2> QED BY <2>1, <2>2, FS_Subset
<1>3. i \notin Counted(i - 1)
  OBVIOUS
<1>4. \A k : k \in 1..i <=> (k \in 1..(i - 1) \/ k = i)
  OBVIOUS
<1>5. Counted(i) = IF body[i].kind \in kinds THEN Counted(i - 1) \cup {i} ELSE Counted(i - 1)
  BY <1>4
<1>6. \A n : CountOf(body, kinds, n) = Cardinality(Counted(n))
  BY DEF CountOf
<1> HIDE DEF Counted
<1>7. Cardinality(Counted(i - 1)) \in Nat
  BY <1>2, FS_CardinalityType
<1>8. Cardinality(Counted(i - 1) \cup {i}) = Cardinality(Counted(i - 1)) + 1
  BY <1>2, <1>3, FS_AddElement
<1>9. Cardinality(Counted(0)) = 0
  BY <1>1, FS_EmptySet
<1>10. CASE body[i].kind \in kinds
  BY <1>5, <1>6, <1>7, <1>8, <1>9, <1>10
<1>11. CASE body[i].kind \notin kinds
  BY <1>5, <1>6, <1>7, <1>9, <1>11
<1> QED BY <1>10, <1>11

LEMMA BalanceStep ==
  ASSUME NEW body, NEW i \in Nat \ {0}
  PROVE  /\ Balance(body, 0) = 0
         /\ Balance(body, i - 1) \in Int
         /\ Balance(body, i) = Balance(body, i - 1) + Change(body[i].kind)
<1> DEFINE up(n) == CountOf(body, {"foreach", "loop"}, n)
           down(n) == CountOf(body, {"end"}, n)
<1>1. up(0) = 0 /\ up(i - 1) \in Nat
      /\ up(i) = up(i - 1) + (IF body[i].kind \in {"foreach", "loop"} THEN 1 ELSE 0)
  BY CountStep
<1>2. down(0) = 0 /\ down(i - 1) \in Nat
      /\ down(i) = down(i - 1) + (IF body[i].kind \in {"end"} THEN 1 ELSE 0)
  BY CountStep
<1>3. \A n : Balance(body, n) = up(n) - down(n)
  BY DEF Balance
<1> HIDE DEF up, down
<1>4. body[i].kind = "end" => body[i].kind \notin {"foreach", "loop"}
  OBVIOUS
<1> QED BY <1>1, <1>2, <1>3, <1>4 DEF Change, Opens

(* What BodiesAssumption says of a body.                                   *)
Closed(body) ==
  /\ body \in Seq(Items)
  /\ \A i \in 1..Len(body) : Balance(body, i) >= 0
  /\ \A i, j \in 1..Len(body) :
       body[i].kind = "foreach" /\ body[i].node = body[j].node => i = j

LEMMA BalanceNatural ==
  ASSUME NEW body, Closed(body)
  PROVE  /\ Len(body) \in Nat
         /\ \A i \in 0..Len(body) : Balance(body, i) \in Nat
<1>1. Len(body) \in Nat
  BY LenProperties DEF Closed
<1>2. Balance(body, 0) = 0
  BY BalanceStep, 1 \in Nat \ {0}
<1>3. ASSUME NEW i \in 1..Len(body) PROVE Balance(body, i) \in Nat
  <2>1. Balance(body, i) >= 0 /\ i \in Nat \ {0}
    BY <1>1 DEF Closed
  <2>2. i + 1 \in Nat \ {0} /\ (i + 1) - 1 = i
    BY <2>1
  <2>3. Balance(body, (i + 1) - 1) \in Int
    BY <2>2, BalanceStep
  <2> QED BY <2>1, <2>2, <2>3
<1> QED BY <1>1, <1>2, <1>3

(* The body that j opens is open just before i, and at i.                  *)
Around(body, j, i) ==
  /\ j \in 1..i - 1
  /\ body[j].kind \in Opens
  /\ \A k \in j..i - 1 : Balance(body, k) >= Balance(body, j)

Holds(body, j, i) ==
  /\ j < i
  /\ body[j].kind \in Opens
  /\ \A k \in j..i : Balance(body, k) >= Balance(body, j)

(* Of two bodies that are open the later is the deeper.                    *)
LEMMA LaterIsDeeper ==
  ASSUME NEW body, Closed(body), NEW i \in 1..Len(body) + 1,
         NEW j \in 1..Len(body), NEW k \in 1..Len(body),
         Around(body, j, i), Around(body, k, i), j < k
  PROVE  Balance(body, j) < Balance(body, k)
<1>1. k \in Nat \ {0} /\ j \in Nat /\ k - 1 \in j..i - 1 /\ k - 1 \in 0..Len(body)
      /\ j \in 0..Len(body) /\ k \in 0..Len(body)
  BY BalanceNatural DEF Around
<1>2. Balance(body, k) = Balance(body, k - 1) + Change(body[k].kind)
  BY <1>1, BalanceStep
<1>3. Balance(body, k - 1) >= Balance(body, j)
  BY <1>1 DEF Around
<1>4. Change(body[k].kind) = 1
  BY DEF Around, Change
<1>5. Balance(body, k) \in Nat /\ Balance(body, k - 1) \in Nat /\ Balance(body, j) \in Nat
  BY <1>1, BalanceNatural
<1> QED BY <1>2, <1>3, <1>4, <1>5

-----------------------------------------------------------------------------
(* The loops around a node *)

(* n lists the bodies that are open before i, innermost first.             *)
Nested(n, body, i) ==
  /\ n \in Seq(Items)
  /\ Len(n) = Balance(body, i - 1)
  /\ \A k \in 1..Len(n) :
       \E j \in 1..Len(body) : Around(body, j, i) /\ Balance(body, j) = Len(n) - k + 1
  /\ \A j \in 1..Len(body) :
       Around(body, j, i) =>
         /\ Balance(body, j) \in 1..Len(n)
         /\ n[Len(n) - Balance(body, j) + 1] = body[j]

LEMMA NestedAtFirst ==
  ASSUME NEW body, Closed(body)
  PROVE  Nested(<<>>, body, 1)
<1>1. Balance(body, 0) = 0
  BY BalanceStep, 1 \in Nat \ {0}
<1>2. \A j \in 1..Len(body) : ~Around(body, j, 1)
  BY DEF Around
<1>3. <<>> \in Seq(Items) /\ Len(<<>>) = 0 /\ 1 - 1 = 0
  OBVIOUS
<1> HIDE DEF Around
<1> QED BY <1>1, <1>2, <1>3 DEF Nested

(* What a node does to the bodies around the next.                         *)
LEMMA AroundNext ==
  ASSUME NEW body, Closed(body), NEW i \in 1..Len(body), NEW j \in 1..Len(body)
  PROVE  /\ Around(body, j, i + 1) <=>
              \/ j = i /\ body[i].kind \in Opens
              \/ Around(body, j, i) /\ Balance(body, i) >= Balance(body, j)
         /\ Around(body, j, i) => Balance(body, i - 1) >= Balance(body, j)
<1>1. i \in Nat \ {0} /\ j \in Nat \ {0} /\ Balance(body, i) \in Nat
  BY BalanceNatural
<1>2. (i + 1) - 1 = i
  BY <1>1
<1>3. \A k : k \in j..i <=> (k \in j..i - 1 \/ (k = i /\ j <= i))
  BY <1>1
<1>4. j \in 1..i <=> (j \in 1..i - 1 \/ j = i)
  BY <1>1
<1>5. \A k \in i..i : k = i
  BY <1>1
<1>6. j \in 1..i - 1 => j <= i /\ i - 1 \in j..i - 1
  BY <1>1
<1> QED BY <1>1, <1>2, <1>3, <1>4, <1>5, <1>6 DEF Around

Descended(n, item) ==
  IF item.kind \in Opens THEN <<item>> \o n ELSE IF item.kind = "end" THEN Tail(n) ELSE n

(* Descend keeps the list.                                                 *)
LEMMA NestedNext ==
  ASSUME NEW body, Closed(body), NEW i \in 1..Len(body), NEW n, Nested(n, body, i), NEW m,
         m = Descended(n, body[i])
  PROVE  Nested(m, body, i + 1)
<1> DEFINE d == Balance(body, i - 1)
           e == Balance(body, i)
<1>1. i \in Nat \ {0} /\ d \in Nat /\ e \in Nat
  BY BalanceNatural
<1>2. e = d + Change(body[i].kind)
  BY <1>1, BalanceStep
<1>3. n \in Seq(Items) /\ Len(n) = d
  BY DEF Nested
<1>4. body[i] \in Items
  BY ElementOfSeq DEF Closed
<1>5. \A j \in 1..Len(body) : Balance(body, j) \in Nat
  BY BalanceNatural
<1>6. \A j \in 1..Len(body) : Around(body, j, i) => Balance(body, j) \in 1..d /\ j # i
  BY <1>1, <1>3 DEF Nested, Around
<1> HIDE DEF d, e
<1>7. (i + 1) - 1 = i
  BY <1>1
<1>8. CASE body[i].kind \in Opens
  <2>1. e = d + 1
    BY <1>2, <1>8 DEF Change
  <2>2. /\ m \in Seq(Items) /\ Len(m) = d + 1
        /\ m[1] = body[i]
        /\ \A k \in 1..d : m[k + 1] = n[k]
    <3> DEFINE top == <<body[i]>>
    <3>1. m = top \o n
      BY <1>8 DEF Descended
    <3>2. top \in Seq(Items) /\ Len(top) = 1 /\ top[1] = body[i]
      BY <1>4
    <3> HIDE DEF top
    <3>3. /\ m \in Seq(Items) /\ Len(m) = 1 + d
          /\ \A k \in 1..1 + d : m[k] = IF k <= 1 THEN top[k] ELSE n[k - 1]
      BY <1>3, <3>1, <3>2, ConcatProperties
    <3>4. ASSUME NEW k \in 1..d PROVE m[k + 1] = n[k]
      <4>1. k + 1 \in 1..1 + d /\ ~(k + 1 <= 1) /\ (k + 1) - 1 = k
        BY <1>1
      <4> QED BY <3>3, <4>1
    <3> QED BY <1>1, <3>2, <3>3, <3>4
  <2>3. ASSUME NEW j \in 1..Len(body)
        PROVE  Around(body, j, i + 1) <=> j = i \/ Around(body, j, i)
    <3>1. Around(body, j, i + 1) <=> j = i \/ (Around(body, j, i) /\ e >= Balance(body, j))
      BY <1>8, AroundNext DEF e
    <3>2. Around(body, j, i) => e >= Balance(body, j)
      BY <1>1, <1>6, <2>1
    <3> QED BY <3>1, <3>2
  <2>4. ASSUME NEW k \in 1..d + 1
        PROVE  \E j \in 1..Len(body) : Around(body, j, i + 1) /\ Balance(body, j) = (d + 1) - k + 1
    <3>1. CASE k = 1
      <4>1. Around(body, i, i + 1) /\ Balance(body, i) = (d + 1) - k + 1
        BY <1>1, <2>1, <2>3, <3>1 DEF e
      <4> QED BY <4>1
    <3>2. CASE k # 1
      <4>1. k - 1 \in 1..Len(n)
        BY <1>1, <1>3, <3>2
      <4>2. PICK j \in 1..Len(body) :
              Around(body, j, i) /\ Balance(body, j) = Len(n) - (k - 1) + 1
        BY <4>1 DEF Nested
      <4> QED BY <1>1, <1>3, <2>3, <4>2
    <3> QED BY <3>1, <3>2
  <2>5. ASSUME NEW j \in 1..Len(body), Around(body, j, i + 1)
        PROVE  Balance(body, j) \in 1..d + 1 /\ m[(d + 1) - Balance(body, j) + 1] = body[j]
    <3>1. CASE j = i
      <4>1. Balance(body, j) = d + 1
        BY <2>1, <3>1 DEF e
      <4>2. (d + 1) - Balance(body, j) + 1 = 1 /\ d + 1 \in 1..d + 1
        BY <1>1, <4>1
      <4> QED BY <2>2, <3>1, <4>1, <4>2
    <3>2. CASE j # i
      <4>1. Around(body, j, i)
        BY <2>3, <2>5, <3>2
      <4>2. Balance(body, j) \in 1..d /\ n[d - Balance(body, j) + 1] = body[j]
        BY <1>3, <4>1 DEF Nested
      <4>3. d - Balance(body, j) + 1 \in 1..d
            /\ (d + 1) - Balance(body, j) + 1 = (d - Balance(body, j) + 1) + 1
            /\ Balance(body, j) \in 1..d + 1
        BY <1>1, <4>2
      <4> QED BY <2>2, <4>2, <4>3
    <3> QED BY <3>1, <3>2
  <2>6. Balance(body, (i + 1) - 1) = d + 1
    BY <1>7, <2>1 DEF e
  <2>7. m \in Seq(Items) /\ Len(m) = d + 1 /\ d + 1 \in Nat
    BY <1>1, <2>2
  <2>8. \A k \in 1..Len(m) :
          \E j \in 1..Len(body) : Around(body, j, i + 1) /\ Balance(body, j) = Len(m) - k + 1
    BY <2>4, <2>7
  <2>9. \A j \in 1..Len(body) :
          Around(body, j, i + 1) =>
            /\ Balance(body, j) \in 1..Len(m)
            /\ m[Len(m) - Balance(body, j) + 1] = body[j]
    BY <2>5, <2>7
  <2> QED BY <2>6, <2>7, <2>8, <2>9 DEF Nested
<1>9. CASE body[i].kind = "end"
  <2>1. body[i].kind \notin Opens
    BY <1>9 DEF Opens
  <2>2. e = d - 1 /\ d \in Nat \ {0}
    BY <1>1, <1>2, <1>9, <2>1 DEF Change
  <2>3. /\ m \in Seq(Items) /\ Len(m) = d - 1
        /\ \A k \in 1..d - 1 : m[k] = n[k + 1]
    <3>1. m = Tail(n) /\ n # <<>>
      BY <1>3, <1>9, <2>1, <2>2 DEF Descended
    <3> QED BY <3>1, <1>3, <2>2, HeadTailProperties
  <2>4. \A j \in 1..Len(body) :
          Around(body, j, i + 1) <=> Around(body, j, i) /\ d - 1 >= Balance(body, j)
    BY <2>1, <2>2, AroundNext DEF e
  <2>5. ASSUME NEW k \in 1..d - 1
        PROVE  \E j \in 1..Len(body) : Around(body, j, i + 1) /\ Balance(body, j) = d - 1 - k + 1
    <3>1. k + 1 \in 1..Len(n)
      BY <1>3, <2>2
    <3>2. PICK j \in 1..Len(body) :
            Around(body, j, i) /\ Balance(body, j) = Len(n) - (k + 1) + 1
      BY <3>1 DEF Nested
    <3> QED BY <1>3, <2>2, <2>4, <3>2
  <2>6. ASSUME NEW j \in 1..Len(body), Around(body, j, i + 1)
        PROVE  Balance(body, j) \in 1..d - 1 /\ m[d - 1 - Balance(body, j) + 1] = body[j]
    <3>1. Around(body, j, i) /\ d - 1 >= Balance(body, j)
      BY <2>4, <2>6
    <3>2. Balance(body, j) \in 1..d /\ n[d - Balance(body, j) + 1] = body[j]
      BY <1>3, <3>1 DEF Nested
    <3>3. d - 1 - Balance(body, j) + 1 \in 1..d - 1
          /\ (d - 1 - Balance(body, j) + 1) + 1 = d - Balance(body, j) + 1
          /\ Balance(body, j) \in 1..d - 1
      BY <2>2, <3>1, <3>2
    <3> QED BY <2>3, <3>2, <3>3
  <2> HIDE DEF Around
  <2> QED BY <1>7, <2>2, <2>3, <2>5, <2>6 DEF Nested, e
<1>10. CASE body[i].kind \notin Opens /\ body[i].kind # "end"
  <2>1. m = n /\ e = d
    BY <1>1, <1>2, <1>10 DEF Change, Descended
  <2>2. \A j \in 1..Len(body) : Around(body, j, i + 1) <=> Around(body, j, i)
    BY <1>10, <2>1, AroundNext DEF e, d
  <2> HIDE DEF Around
  <2> QED BY <1>3, <1>7, <2>1, <2>2 DEF Nested, e
<1> QED BY <1>8, <1>9, <1>10

(* What is around a node that opens and closes nothing holds it.           *)
LEMMA AroundHolds ==
  ASSUME NEW body, Closed(body), NEW i \in 1..Len(body), Change(body[i].kind) = 0,
         NEW j \in 1..Len(body)
  PROVE  Around(body, j, i) <=> Holds(body, j, i)
<1>1. i \in Nat \ {0} /\ j \in Nat \ {0} /\ Balance(body, i - 1) \in Nat
      /\ Balance(body, i) \in Nat /\ Balance(body, j) \in Nat
  BY BalanceNatural
<1>2. Balance(body, i) = Balance(body, i - 1)
  BY <1>1, BalanceStep
<1>3. j < i <=> j \in 1..i - 1
  BY <1>1
<1>4. j < i => (\A k : k \in j..i <=> (k \in j..i - 1 \/ k = i)) /\ i - 1 \in j..i - 1
  BY <1>1
<1> QED BY <1>1, <1>2, <1>3, <1>4 DEF Around, Holds

-----------------------------------------------------------------------------
(* What a jump may leave and enter *)

LEMMA Least ==
  ASSUME NEW S, S \subseteq Nat, S # {}
  PROVE  \E m \in S : \A q \in S : m <= q
<1> DEFINE less == {ss \in Nat \X Nat : ss[1] < ss[2]}
<1>1. IsWellFoundedOn(less, Nat)
  BY NatLessThanWellFounded, Zenon DEF OpToRel
<1>2. PICK m \in S : \A q \in S : ~(<<q, m>> \in less)
  BY <1>1, WFMin
<1>3. \A q \in S : ~(q < m)
  BY <1>2
<1>4. \A q \in S : q \in Nat /\ m \in Nat
  OBVIOUS
<1> QED BY <1>3, <1>4

(* The list has each body that is open, at the place that its depth says.  *)
LEMMA NestedIs ==
  ASSUME NEW body, NEW i, NEW n, Nested(n, body, i), NEW k \in 1..Len(n)
  PROVE  \E j \in 1..Len(body) :
           Around(body, j, i) /\ Balance(body, j) = Len(n) - k + 1 /\ n[k] = body[j]
<1>1. PICK j \in 1..Len(body) : Around(body, j, i) /\ Balance(body, j) = Len(n) - k + 1
  BY DEF Nested
<1>2. n[Len(n) - Balance(body, j) + 1] = body[j]
  BY <1>1 DEF Nested
<1>3. Len(n) \in Nat
  BY LenProperties DEF Nested
<1>4. Len(n) - Balance(body, j) + 1 = k
  BY <1>1, <1>3
<1> QED BY <1>1, <1>2, <1>4

(* f is the node of the innermost foreach that holds i, if there is one.   *)
InnerForeach(body, i, f) ==
  \/ /\ f = NoNode
     /\ \A j \in 1..Len(body) : body[j].kind = "foreach" => ~Holds(body, j, i)
  \/ \E j \in 1..Len(body) :
       /\ body[j].kind = "foreach" /\ Holds(body, j, i) /\ body[j].node = f
       /\ \A k \in 1..Len(body) : body[k].kind = "foreach" /\ Holds(body, k, i) => k <= j

LEMMA EnclosingForeach ==
  ASSUME NEW body, Closed(body), NEW i \in 1..Len(body), Change(body[i].kind) = 0,
         Nested(nest, body, i)
  PROVE  InnerForeach(body, i, enclosing_foreach)
<1>1. Len(nest) \in Nat /\ Len(body) \in Nat
  BY LenProperties, BalanceNatural DEF Nested
<1>2. ASSUME NEW k \in 1..Len(body), body[k].kind = "foreach", Holds(body, k, i)
      PROVE  Balance(body, k) \in Nat /\ Len(nest) - Balance(body, k) + 1 \in Foreachs
  <2>1. Around(body, k, i)
    BY <1>2, AroundHolds
  <2>2. Balance(body, k) \in 1..Len(nest) /\ nest[Len(nest) - Balance(body, k) + 1] = body[k]
    BY <2>1 DEF Nested
  <2>3. Balance(body, k) \in Nat /\ Len(nest) - Balance(body, k) + 1 \in 1..Len(nest)
    BY <1>1, <2>2
  <2> QED BY <1>2, <2>2, <2>3 DEF Foreachs
<1>3. CASE Foreachs = {}
  BY <1>2, <1>3 DEF InnerForeach, enclosing_foreach
<1>4. CASE Foreachs # {}
  <2>1. Foreachs \subseteq Nat
    BY <1>1 DEF Foreachs
  <2>2. \E c \in Foreachs : \A q \in Foreachs : c <= q
    BY <1>4, <2>1, Least
  <2>3. PICK c \in Foreachs : /\ \A q \in Foreachs : c <= q
                             /\ enclosing_foreach = nest[c].node
    BY <1>4, <2>2 DEF enclosing_foreach
  <2>4. c \in 1..Len(nest) /\ nest[c].kind = "foreach"
    BY DEF Foreachs
  <2>5. PICK j \in 1..Len(body) :
          Around(body, j, i) /\ Balance(body, j) = Len(nest) - c + 1 /\ nest[c] = body[j]
    BY <2>4, NestedIs
  <2>6. body[j].kind = "foreach" /\ Holds(body, j, i) /\ body[j].node = enclosing_foreach
    BY <2>3, <2>4, <2>5, AroundHolds
  <2>7. ASSUME NEW k \in 1..Len(body), body[k].kind = "foreach", Holds(body, k, i)
        PROVE  k <= j
    <3>1. c <= Len(nest) - Balance(body, k) + 1 /\ Balance(body, k) \in Nat
      BY <1>2, <2>3, <2>7
    <3>2. Balance(body, k) <= Balance(body, j)
      BY <1>1, <2>4, <2>5, <3>1
    <3>3. Around(body, k, i)
      BY <2>7, AroundHolds
    <3>4. i \in 1..Len(body) + 1
      BY <1>1
    <3>5. ~(j < k)
      <4> SUFFICES ASSUME j < k PROVE FALSE
        OBVIOUS
      <4>1. Balance(body, j) < Balance(body, k)
        BY <2>5, <3>3, <3>4, LaterIsDeeper
      <4>2. Balance(body, j) \in Int
        BY <1>1, <2>4, <2>5
      <4> QED BY <3>1, <3>2, <4>1, <4>2
    <3> QED BY <1>1, <3>5
  <2> QED BY <2>6, <2>7 DEF InnerForeach
<1> QED BY <1>3, <1>4

LEMMA ForeachEncloses ==
  ASSUME NEW body, Closed(body), NEW i \in 1..Len(body), Change(body[i].kind) = 0,
         Nested(nest, body, i), NEW node
  PROVE  foreach_encloses(node) <=>
           \E j \in 1..Len(body) :
             body[j].kind = "foreach" /\ body[j].node = node /\ Holds(body, j, i)
<1>1. Len(nest) \in Nat /\ Len(body) \in Nat
  BY LenProperties, BalanceNatural DEF Nested
<1>2. ASSUME foreach_encloses(node)
      PROVE  \E j \in 1..Len(body) :
               body[j].kind = "foreach" /\ body[j].node = node /\ Holds(body, j, i)
  <2>1. PICK c \in 1..Len(nest) : nest[c].kind = "foreach" /\ nest[c].node = node
    BY <1>2 DEF foreach_encloses, Foreachs
  <2>2. PICK j \in 1..Len(body) : Around(body, j, i) /\ nest[c] = body[j]
    BY NestedIs
  <2> QED BY <2>1, <2>2, AroundHolds
<1>3. ASSUME NEW j \in 1..Len(body), body[j].kind = "foreach", body[j].node = node,
             Holds(body, j, i)
      PROVE  foreach_encloses(node)
  <2>1. Around(body, j, i)
    BY <1>3, AroundHolds
  <2>2. Balance(body, j) \in 1..Len(nest) /\ nest[Len(nest) - Balance(body, j) + 1] = body[j]
    BY <2>1 DEF Nested
  <2>3. Len(nest) - Balance(body, j) + 1 \in 1..Len(nest)
    BY <1>1, <2>2
  <2> QED BY <1>3, <2>2, <2>3 DEF foreach_encloses, Foreachs
<1> QED BY <1>2, <1>3

(* Of two bodies that hold p, the outer holds what the inner does.         *)
LEMMA OuterHolds ==
  ASSUME NEW body, Closed(body), NEW p \in 1..Len(body), NEW g \in 1..Len(body),
         NEW j \in 1..Len(body), NEW k \in 1..Len(body),
         Holds(body, j, p), Holds(body, k, p), j <= k, Holds(body, k, g)
  PROVE  Holds(body, j, g)
<1>1. Len(body) \in Nat /\ \A i \in 0..Len(body) : Balance(body, i) \in Nat
  BY BalanceNatural
<1>2. j < g /\ k \in j..p
  BY <1>1 DEF Holds
<1>3. Balance(body, k) >= Balance(body, j)
  BY <1>2 DEF Holds
<1>4. ASSUME NEW i \in j..g PROVE Balance(body, i) >= Balance(body, j)
  <2>1. i \in 0..Len(body) /\ j \in 0..Len(body) /\ k \in 0..Len(body)
    BY <1>1
  <2>2. CASE i <= k
    <3>1. i \in j..p
      BY <1>1, <1>2, <2>2
    <3> QED BY <3>1 DEF Holds
  <2>3. CASE ~(i <= k)
    <3>1. i \in k..g
      BY <1>1, <2>3
    <3>2. Balance(body, i) >= Balance(body, k)
      BY <3>1 DEF Holds
    <3> QED BY <1>1, <1>3, <2>1, <3>2
  <2> QED BY <2>2, <2>3
<1> QED BY <1>2, <1>4 DEF Holds

(* The test on the label's innermost foreach alone decides for all that    *)
(* hold the label.                                                         *)
LEMMA JumpTest ==
  ASSUME NEW body, Closed(body), NEW p \in 1..Len(body), NEW g \in 1..Len(body),
         NEW f, InnerForeach(body, p, f)
  PROVE  (\/ f = NoNode
          \/ \E j \in 1..Len(body) :
               body[j].kind = "foreach" /\ body[j].node = f /\ Holds(body, j, g))
         <=> \A j \in 1..Len(body) :
               body[j].kind = "foreach" /\ Holds(body, j, p) => Holds(body, j, g)
<1>1. CASE /\ f = NoNode
           /\ \A j \in 1..Len(body) : body[j].kind = "foreach" => ~Holds(body, j, p)
  BY <1>1
<1>2. CASE \E j \in 1..Len(body) :
             /\ body[j].kind = "foreach" /\ Holds(body, j, p) /\ body[j].node = f
             /\ \A k \in 1..Len(body) : body[k].kind = "foreach" /\ Holds(body, k, p) => k <= j
  <2>1. PICK inner \in 1..Len(body) :
          /\ body[inner].kind = "foreach" /\ Holds(body, inner, p) /\ body[inner].node = f
          /\ \A k \in 1..Len(body) :
               body[k].kind = "foreach" /\ Holds(body, k, p) => k <= inner
    BY <1>2
  <2>2. f # NoNode
    <3>1. body[inner] \in Items
      BY ElementOfSeq DEF Closed
    <3> QED BY <2>1, <3>1, ProgramsAssumption DEF Items
  <2>3. \A j \in 1..Len(body) : body[j].kind = "foreach" /\ body[j].node = f => j = inner
    BY <2>1 DEF Closed
  <2>4. Holds(body, inner, g) =>
          \A j \in 1..Len(body) :
            body[j].kind = "foreach" /\ Holds(body, j, p) => Holds(body, j, g)
    BY <2>1, OuterHolds
  <2> QED BY <2>1, <2>2, <2>3, <2>4
<1> QED BY <1>1, <1>2 DEF InnerForeach

-----------------------------------------------------------------------------
(* How far the passes over labels, gotos and loops have come *)

JumpWalks == {"labels", "gotos", "loops"}

After == [labels |-> {"gotos", "loops", "done"}, gotos |-> {"loops", "done"}, loops |-> {"done"}]

(* Pass w has been at the i-th node of scope s.                            *)
Past(w, s, i) ==
  \/ walk \in After[w]
  \/ walk = w /\ (s < scope \/ (s = scope /\ i < pos))

Astray(s, g) ==
  \A l \in Positions(s, "label") :
    At(s, l).name = At(s, g).name =>
      \E j \in Positions(s, "foreach") : Encloses(s, j, l) /\ ~Encloses(s, j, g)

Loose(s, b) == \A j \in 1..Len(program.body[s]) : ~Encloses(s, j, b)

Wrong(s) == LabelTwice(s) \/ GotoAstray(s) \/ BreakAstray(s)

(* The l-th label is the one at i, with its innermost foreach.             *)
Records(l, s, i) ==
  /\ labels[l].scope = s
  /\ labels[l].name = At(s, i).name
  /\ InnerForeach(program.body[s], i, labels[l].foreach)

NestInv == walk \in JumpWalks => Nested(nest, program.body[scope], pos)

LabelsAreThere ==
  \A l \in 1..Len(labels) :
    \E s \in Scopes : \E i \in Positions(s, "label") : Past("labels", s, i) /\ Records(l, s, i)

LabelsAreKept ==
  \A s \in Scopes : \A i \in Positions(s, "label") :
    Past("labels", s, i) => \E l \in 1..Len(labels) : Records(l, s, i)

LabelsDiffer ==
  \A s \in Scopes : \A i, j \in Positions(s, "label") :
    Past("labels", s, i) /\ Past("labels", s, j) /\ At(s, i).name = At(s, j).name => i = j

GotosInv ==
  \A s \in Scopes : \A g \in Positions(s, "goto") : Past("gotos", s, g) => ~Astray(s, g)

BreaksInv ==
  \A s \in Scopes : \A b \in Positions(s, "break") : Past("loops", s, b) => ~Loose(s, b)

ErrorInv == had_error => walk = "done" /\ \E s \in Scopes : Wrong(s)

FoundInv == NestInv /\ LabelsAreThere /\ LabelsAreKept /\ LabelsDiffer /\ GotosInv /\ BreaksInv

RefusalInv == ErrorInv /\ (~had_error => FoundInv)

(* What is said of a body does not change while the passes run.            *)
LEMMA TextStays ==
  ASSUME program' = program
  PROVE  /\ Scopes' = Scopes
         /\ \A s, kind : Positions(s, kind)' = Positions(s, kind)
         /\ \A s, i : At(s, i)' = At(s, i)
         /\ \A s, g : Astray(s, g)' <=> Astray(s, g)
         /\ \A s, b : Loose(s, b)' <=> Loose(s, b)
         /\ \A s : Wrong(s)' <=> Wrong(s)
<1>1. Scopes' = Scopes
  BY DEF Scopes
<1>2. \A s, i : At(s, i)' = At(s, i)
  BY DEF At
<1>3. \A s, kind : Positions(s, kind)' = Positions(s, kind)
  BY DEF Positions, At
<1>4. \A s, j, i : Encloses(s, j, i)' <=> Encloses(s, j, i)
  BY DEF Encloses, At
<1>5. \A s, g : Astray(s, g)' <=> Astray(s, g)
  BY <1>2, <1>3, <1>4 DEF Astray
<1>6. \A s, b : Loose(s, b)' <=> Loose(s, b)
  BY <1>4 DEF Loose
<1>7. \A s : /\ LabelTwice(s)' <=> LabelTwice(s)
             /\ GotoAstray(s)' <=> GotoAstray(s)
             /\ BreakAstray(s)' <=> BreakAstray(s)
  BY <1>2, <1>3, <1>4 DEF LabelTwice, GotoAstray, BreakAstray
<1> QED BY <1>1, <1>2, <1>3, <1>5, <1>6, <1>7 DEF Wrong

LEMMA BodyClosed ==
  ASSUME IInv, NEW s \in Scopes
  PROVE  Closed(program.body[s])
<1>1. program \in Programs /\ s \in 0..program.count /\ program.body[s] \in Seq(Items)
  BY ProgramFacts DEF IInv, ControlInv, Scopes
<1> QED BY <1>1, BodiesAssumption DEF Closed

LEMMA EnclosesHolds ==
  ASSUME NEW s, NEW j, NEW i
  PROVE  Encloses(s, j, i) <=> Holds(program.body[s], j, i)
  BY DEF Encloses, Holds, At, Opens

LEMMA GotoText ==
  ASSUME NEW s
  PROVE  /\ GotoAstray(s) <=> \E g \in Positions(s, "goto") : Astray(s, g)
         /\ BreakAstray(s) <=> \E b \in Positions(s, "break") : Loose(s, b)
  BY DEF GotoAstray, BreakAstray, Astray, Loose

(* A pass that goes on, or on to the next scope or pass, keeps what was    *)
(* found, when no label comes with it and no goto or break that is wrong.  *)
LEMMA FoundStays ==
  ASSUME RefusalInv, ~had_error, UNCHANGED <<program, labels, had_error>>, NestInv',
         \A s \in Scopes : \A i \in 1..Len(program.body[s]) :
           /\ At(s, i).kind = "label" => (Past("labels", s, i)' <=> Past("labels", s, i))
           /\ At(s, i).kind = "goto" /\ Past("gotos", s, i)' => Past("gotos", s, i) \/ ~Astray(s, i)
           /\ At(s, i).kind = "break" /\ Past("loops", s, i)' => Past("loops", s, i) \/ ~Loose(s, i)
  PROVE  RefusalInv'
<1>1. FoundInv
  BY DEF RefusalInv
<1>2. \A l, s, i : Records(l, s, i)' <=> Records(l, s, i)
  BY DEF Records, At
<1>3. \A s \in Scopes : \A i \in Positions(s, "label") :
        Past("labels", s, i)' <=> Past("labels", s, i)
  BY DEF Positions
<1>4. LabelsAreThere' /\ LabelsAreKept' /\ LabelsDiffer'
  BY <1>1, <1>2, <1>3, TextStays DEF FoundInv, LabelsAreThere, LabelsAreKept, LabelsDiffer
<1>5. GotosInv'
  <2>1. \A s \in Scopes : \A g \in Positions(s, "goto") :
          Past("gotos", s, g)' => Past("gotos", s, g) \/ ~Astray(s, g)
    BY DEF Positions
  <2> QED BY <1>1, <2>1, TextStays DEF FoundInv, GotosInv
<1>6. BreaksInv'
  <2>1. \A s \in Scopes : \A b \in Positions(s, "break") :
          Past("loops", s, b)' => Past("loops", s, b) \/ ~Loose(s, b)
    BY DEF Positions
  <2> QED BY <1>1, <2>1, TextStays DEF FoundInv, BreaksInv
<1> QED BY <1>4, <1>5, <1>6 DEF RefusalInv, ErrorInv, FoundInv

-----------------------------------------------------------------------------
(* The steps of these passes *)

(* A visit adds one node to those its pass has been at.                    *)
LEMMA PastVisit ==
  ASSUME IInv, walk \in JumpWalks, UNCHANGED <<walk, scope>>, pos' = pos + 1,
         NEW w \in JumpWalks, NEW s \in Scopes, NEW i \in 1..Len(program.body[s])
  PROVE  /\ Past(w, s, i)' <=> (Past(w, s, i) \/ (w = walk /\ s = scope /\ i = pos))
         /\ ~Past(walk, scope, pos)
<1>1. pos \in Nat /\ scope \in Nat /\ s \in Nat /\ i \in Nat
  <2>1. program.body[s] \in Seq(Items) /\ program.count \in Nat
    BY ProgramFacts DEF IInv
  <2>2. Len(program.body[s]) \in Nat
    BY <2>1, LenProperties
  <2> QED BY <2>1, <2>2 DEF IInv, ControlInv, Scopes
<1>2. i < pos + 1 <=> (i < pos \/ i = pos)
  BY <1>1
<1>3. ~(scope < scope) /\ ~(pos < pos)
  BY <1>1
<1>4. walk \notin After[walk]
  BY DEF JumpWalks, After
<1> QED BY <1>2, <1>3, <1>4 DEF Past

LEMMA NestVisit ==
  ASSUME IInv, NestInv, walk \in JumpWalks, UNCHANGED <<program, walk, scope>>, pos' = pos + 1,
         pos <= Len(Visited), Descend
  PROVE  NestInv'
<1>1. Nested(nest, program.body[scope], pos)
  BY DEF NestInv
<1>2. Node = At(scope, pos) /\ pos \in 1..Len(program.body[scope])
  BY NodeInBody DEF JumpWalks
<1>3. Closed(program.body[scope])
  BY BodyClosed DEF IInv, ControlInv
<1>4. nest' = Descended(nest, program.body[scope][pos])
  BY <1>2 DEF Descend, Descended, At, Opens
<1>5. Nested(nest', program.body[scope], pos + 1)
  BY <1>1, <1>2, <1>3, <1>4, NestedNext
<1> QED BY <1>5 DEF NestInv, Nested, Around

LEMMA VisitedBody ==
  ASSUME IInv, NestInv, walk \in JumpWalks, pos <= Len(Visited),
         Node.kind \in {"label", "goto", "break"}
  PROVE  /\ Closed(program.body[scope])
         /\ Nested(nest, program.body[scope], pos)
         /\ pos \in 1..Len(program.body[scope])
         /\ Change(program.body[scope][pos].kind) = 0
<1>1. Node = At(scope, pos) /\ pos \in 1..Len(program.body[scope])
  BY NodeInBody DEF JumpWalks
<1>2. Change(Node.kind) = 0
  BY DEF Change, Opens
<1>3. Closed(program.body[scope])
  BY BodyClosed DEF IInv, ControlInv
<1> QED BY <1>1, <1>2, <1>3 DEF NestInv, At

LEMMA CheckLoopRefuses ==
  ASSUME IInv, RefusalInv, CheckLoop
  PROVE  RefusalInv'
<1>1. /\ walk = "loops" /\ pos <= Len(Visited) /\ pos' = pos + 1 /\ Descend
      /\ UNCHANGED <<program, scope, labels>>
  BY DEF CheckLoop, Visiting
<1>2. ~had_error /\ NestInv /\ walk \in JumpWalks
  BY <1>1 DEF RefusalInv, ErrorInv, FoundInv, JumpWalks
<1>3. scope \in Scopes /\ Node = At(scope, pos) /\ pos \in 1..Len(program.body[scope])
  BY <1>1, NodeInBody DEF IInv, ControlInv
<1>4. CASE Node.kind = "break" /\ nest = <<>>
  <2>1. walk' = "done" /\ had_error' = TRUE
    BY <1>4 DEF CheckLoop, resolution_error
  <2>2. /\ Closed(program.body[scope]) /\ Nested(nest, program.body[scope], pos)
        /\ Change(program.body[scope][pos].kind) = 0
    BY <1>1, <1>2, <1>4, VisitedBody
  <2>3. ASSUME NEW j \in 1..Len(program.body[scope]) PROVE ~Encloses(scope, j, pos)
    <3>1. Len(nest) = 0
      BY <1>4
    <3>2. ~Around(program.body[scope], j, pos)
      BY <2>2, <3>1 DEF Nested
    <3> QED BY <1>3, <2>2, <3>2, AroundHolds, EnclosesHolds
  <2>4. pos \in Positions(scope, "break")
    BY <1>3, <1>4 DEF Positions
  <2>5. Wrong(scope)
    BY <2>3, <2>4, GotoText DEF Loose, Wrong
  <2> QED BY <1>1, <1>3, <2>1, <2>5, TextStays DEF RefusalInv, ErrorInv
<1>5. CASE ~(Node.kind = "break" /\ nest = <<>>)
  <2>1. UNCHANGED <<walk, had_error>>
    BY <1>5 DEF CheckLoop
  <2>2. NestInv'
    BY <1>1, <1>2, <2>1, NestVisit
  <2>3. Node.kind = "break" => ~Loose(scope, pos)
    <3> SUFFICES ASSUME Node.kind = "break"
                 PROVE  \E j \in 1..Len(program.body[scope]) : Encloses(scope, j, pos)
      BY DEF Loose
    <3>1. /\ Closed(program.body[scope]) /\ Nested(nest, program.body[scope], pos)
          /\ Change(program.body[scope][pos].kind) = 0
      BY <1>1, <1>2, VisitedBody
    <3>2. 1 \in 1..Len(nest)
      <4>1. nest \in Seq(Items) /\ nest # <<>>
        BY <1>5, <3>1 DEF Nested
      <4>2. Len(nest) \in Nat /\ Len(nest) # 0
        BY <4>1, EmptySeq, LenProperties
      <4> QED BY <4>2
    <3>3. PICK j \in 1..Len(program.body[scope]) : Around(program.body[scope], j, pos)
      BY <3>1, <3>2, NestedIs
    <3> QED BY <1>3, <3>1, <3>3, AroundHolds, EnclosesHolds
  <2>4. ASSUME NEW s \in Scopes, NEW i \in 1..Len(program.body[s])
        PROVE  /\ At(s, i).kind = "label" => (Past("labels", s, i)' <=> Past("labels", s, i))
               /\ At(s, i).kind = "goto" /\ Past("gotos", s, i)' =>
                    Past("gotos", s, i) \/ ~Astray(s, i)
               /\ At(s, i).kind = "break" /\ Past("loops", s, i)' =>
                    Past("loops", s, i) \/ ~Loose(s, i)
    <3>1. \A w \in JumpWalks :
            Past(w, s, i)' <=> (Past(w, s, i) \/ (w = walk /\ s = scope /\ i = pos))
      BY <1>1, <1>2, <2>1, PastVisit
    <3> QED BY <1>1, <1>3, <2>3, <3>1 DEF JumpWalks
  <2> QED BY <1>1, <1>2, <2>1, <2>2, <2>4, FoundStays
<1> QED BY <1>4, <1>5

LEMMA BindGotoRefuses ==
  ASSUME IInv, RefusalInv, BindGoto
  PROVE  RefusalInv'
<1>1. /\ walk = "gotos" /\ pos <= Len(Visited) /\ pos' = pos + 1 /\ Descend
      /\ UNCHANGED <<program, scope, labels>>
  BY DEF BindGoto, Visiting
<1>2. ~had_error /\ FoundInv /\ NestInv /\ walk \in JumpWalks
  BY <1>1 DEF RefusalInv, ErrorInv, FoundInv, JumpWalks
<1>3. scope \in Scopes /\ Node = At(scope, pos) /\ pos \in 1..Len(program.body[scope])
  BY <1>1, NodeInBody DEF IInv, ControlInv
<1>4. ASSUME Node.kind = "goto", NEW l \in 1..Len(labels), NEW i \in Positions(scope, "label"),
             Records(l, scope, i)
      PROVE  MayJump(l) <=> \A j \in Positions(scope, "foreach") :
                              Encloses(scope, j, i) => Encloses(scope, j, pos)
  <2> DEFINE body == program.body[scope]
  <2>1. /\ Closed(body) /\ Nested(nest, body, pos) /\ pos \in 1..Len(body)
        /\ Change(body[pos].kind) = 0
    BY <1>1, <1>2, <1>4, VisitedBody
  <2>2. i \in 1..Len(body) /\ InnerForeach(body, i, labels[l].foreach)
    BY <1>4 DEF Records, Positions
  <2>3. MayJump(l) <=>
          \/ labels[l].foreach = NoNode
          \/ \E j \in 1..Len(body) : /\ body[j].kind = "foreach"
                                     /\ body[j].node = labels[l].foreach
                                     /\ Holds(body, j, pos)
    BY <2>1, ForeachEncloses DEF MayJump
  <2>4. (\/ labels[l].foreach = NoNode
         \/ \E j \in 1..Len(body) : /\ body[j].kind = "foreach"
                                    /\ body[j].node = labels[l].foreach
                                    /\ Holds(body, j, pos))
        <=> \A j \in 1..Len(body) :
              body[j].kind = "foreach" /\ Holds(body, j, i) => Holds(body, j, pos)
    <3> HIDE DEF body
    <3> QED BY <2>1, <2>2, JumpTest
  <2>5. \A j : /\ Encloses(scope, j, i) <=> Holds(body, j, i)
               /\ Encloses(scope, j, pos) <=> Holds(body, j, pos)
    BY EnclosesHolds
  <2>6. \A j : j \in Positions(scope, "foreach") <=>
                 j \in 1..Len(body) /\ body[j].kind = "foreach"
    BY DEF Positions, At
  <2> HIDE DEF body
  <2> QED BY <2>3, <2>4, <2>5, <2>6
<1>5. \A i \in Positions(scope, "label") : Past("labels", scope, i)
  BY <1>1 DEF Past, After
<1>6. pos \in Positions(scope, "goto") <=> Node.kind = "goto"
  BY <1>3 DEF Positions
<1>7. CASE had_error'
  <2>1. /\ Node.kind = "goto" /\ walk' = "done"
        /\ \A l \in find_label(Node.name) : ~MayJump(l)
    BY <1>2, <1>7 DEF BindGoto, resolution_error
  <2>2. ASSUME NEW i \in Positions(scope, "label"), At(scope, i).name = At(scope, pos).name
        PROVE  \E j \in Positions(scope, "foreach") :
                 Encloses(scope, j, i) /\ ~Encloses(scope, j, pos)
    <3>1. PICK l \in 1..Len(labels) : Records(l, scope, i)
      BY <1>2, <1>3, <1>5 DEF FoundInv, LabelsAreKept
    <3>2. l \in find_label(Node.name)
      BY <1>3, <2>2, <3>1 DEF find_label, Records
    <3> QED BY <1>4, <2>1, <3>1, <3>2
  <2>3. Astray(scope, pos)
    BY <2>2 DEF Astray
  <2>4. Wrong(scope)
    BY <1>6, <2>1, <2>3, GotoText DEF Wrong
  <2> QED BY <1>1, <1>3, <1>7, <2>1, <2>4, TextStays DEF RefusalInv, ErrorInv
<1>8. CASE ~had_error'
  <2>1. /\ UNCHANGED <<walk, had_error>>
        /\ Node.kind = "goto" => \E l \in find_label(Node.name) : MayJump(l)
    BY <1>8 DEF BindGoto, resolution_error
  <2>2. NestInv'
    BY <1>1, <1>2, <2>1, NestVisit
  <2>3. Node.kind = "goto" => ~Astray(scope, pos)
    <3> SUFFICES ASSUME Node.kind = "goto" PROVE ~Astray(scope, pos)
      OBVIOUS
    <3>1. PICK l \in find_label(Node.name) : MayJump(l)
      BY <2>1
    <3>2. l \in 1..Len(labels) /\ labels[l].scope = scope /\ labels[l].name = Node.name
      BY DEF find_label
    <3>3. PICK s \in Scopes : \E i \in Positions(s, "label") : Records(l, s, i)
      BY <1>2, <3>2 DEF FoundInv, LabelsAreThere
    <3>4. s = scope
      BY <3>2, <3>3 DEF Records
    <3>5. PICK i \in Positions(scope, "label") : Records(l, scope, i)
      BY <3>3, <3>4
    <3>6. At(scope, i).name = At(scope, pos).name
      BY <1>3, <3>2, <3>5 DEF Records
    <3>7. \A j \in Positions(scope, "foreach") :
            Encloses(scope, j, i) => Encloses(scope, j, pos)
      BY <1>4, <3>1, <3>2, <3>5
    <3> QED BY <3>5, <3>6, <3>7 DEF Astray
  <2>4. ASSUME NEW s \in Scopes, NEW i \in 1..Len(program.body[s])
        PROVE  /\ At(s, i).kind = "label" => (Past("labels", s, i)' <=> Past("labels", s, i))
               /\ At(s, i).kind = "goto" /\ Past("gotos", s, i)' =>
                    Past("gotos", s, i) \/ ~Astray(s, i)
               /\ At(s, i).kind = "break" /\ Past("loops", s, i)' =>
                    Past("loops", s, i) \/ ~Loose(s, i)
    <3>1. \A w \in JumpWalks :
            Past(w, s, i)' <=> (Past(w, s, i) \/ (w = walk /\ s = scope /\ i = pos))
      BY <1>1, <1>2, <2>1, PastVisit
    <3> QED BY <1>1, <1>3, <2>3, <3>1 DEF JumpWalks
  <2> QED BY <1>1, <1>2, <2>1, <2>2, <2>4, FoundStays
<1> QED BY <1>7, <1>8

LEMMA CollectLabelRefuses ==
  ASSUME IInv, RefusalInv, CollectLabel
  PROVE  RefusalInv'
<1>1. /\ walk = "labels" /\ pos <= Len(Visited) /\ pos' = pos + 1 /\ Descend
      /\ UNCHANGED <<program, scope>>
  BY DEF CollectLabel, Visiting
<1>2. ~had_error /\ FoundInv /\ NestInv /\ walk \in JumpWalks
  BY <1>1 DEF RefusalInv, ErrorInv, FoundInv, JumpWalks
<1>3. scope \in Scopes /\ Node = At(scope, pos) /\ pos \in 1..Len(program.body[scope])
  BY <1>1, NodeInBody DEF IInv, ControlInv
<1>4. pos \in Positions(scope, "label") <=> Node.kind = "label"
  BY <1>3 DEF Positions
<1>5. ~Past("labels", scope, pos)
  <2>1. scope \in Nat /\ pos \in Nat
    BY ProgramFacts DEF IInv, ControlInv, Scopes
  <2> QED BY <1>1, <2>1 DEF Past, After
<1>6. ASSUME NEW l \in 1..Len(labels), labels[l].scope = scope
      PROVE  \E i \in Positions(scope, "label") :
               /\ Past("labels", scope, i) /\ i # pos
               /\ labels[l].name = At(scope, i).name
  <2>1. PICK s \in Scopes : \E i \in Positions(s, "label") : Past("labels", s, i) /\ Records(l, s, i)
    BY <1>2 DEF FoundInv, LabelsAreThere
  <2>2. s = scope
    BY <1>6, <2>1 DEF Records
  <2> QED BY <1>5, <2>1, <2>2 DEF Records
<1>7. CASE Node.kind = "label" /\ find_label(Node.name) # {}
  <2>1. walk' = "done" /\ had_error' = TRUE
    BY <1>7 DEF CollectLabel, resolution_error
  <2>2. PICK l \in 1..Len(labels) : labels[l].scope = scope /\ labels[l].name = Node.name
    BY <1>7 DEF find_label
  <2>3. PICK i \in Positions(scope, "label") : i # pos /\ At(scope, i).name = At(scope, pos).name
    BY <1>3, <1>6, <2>2
  <2>4. Wrong(scope)
    BY <1>4, <1>7, <2>3 DEF Wrong, LabelTwice
  <2> QED BY <1>1, <1>3, <2>1, <2>4, TextStays DEF RefusalInv, ErrorInv
<1>8. ASSUME UNCHANGED walk, NEW s \in Scopes, NEW i \in 1..Len(program.body[s])
      PROVE  /\ Past("labels", s, i)' <=> (Past("labels", s, i) \/ (s = scope /\ i = pos))
             /\ ~Past("gotos", s, i)' /\ ~Past("loops", s, i)'
  <2>1. Past("labels", s, i)' <=> (Past("labels", s, i) \/ (s = scope /\ i = pos))
    BY <1>1, <1>2, <1>8, PastVisit
  <2>2. ~Past("gotos", s, i)' /\ ~Past("loops", s, i)'
    BY <1>1, <1>8 DEF Past, After
  <2> QED BY <2>1, <2>2
<1>9. CASE Node.kind # "label"
  <2>1. UNCHANGED <<walk, had_error, labels>>
    BY <1>9 DEF CollectLabel
  <2>2. NestInv'
    BY <1>1, <1>2, <2>1, NestVisit
  <2>3. ASSUME NEW s \in Scopes, NEW i \in 1..Len(program.body[s])
        PROVE  /\ At(s, i).kind = "label" => (Past("labels", s, i)' <=> Past("labels", s, i))
               /\ At(s, i).kind = "goto" /\ Past("gotos", s, i)' =>
                    Past("gotos", s, i) \/ ~Astray(s, i)
               /\ At(s, i).kind = "break" /\ Past("loops", s, i)' =>
                    Past("loops", s, i) \/ ~Loose(s, i)
    BY <1>3, <1>8, <1>9, <2>1
  <2> QED BY <1>1, <1>2, <2>1, <2>2, <2>3, FoundStays
<1>10. CASE Node.kind = "label" /\ find_label(Node.name) = {}
  <2> DEFINE label == [name |-> Node.name, scope |-> scope, foreach |-> enclosing_foreach]
  <2>1. UNCHANGED <<walk, had_error>> /\ labels' = Append(labels, label)
    BY <1>10 DEF CollectLabel
  <2>2. PICK last, here, place : last = Len(labels) + 1 /\ here = scope /\ place = pos
    OBVIOUS
  <2>3. NestInv'
    BY <1>1, <1>2, <2>1, NestVisit
  <2>4. InnerForeach(program.body[scope], pos, enclosing_foreach)
    BY <1>1, <1>2, <1>10, VisitedBody, EnclosingForeach
  <2>5. label.name = At(scope, pos).name /\ label.scope = scope /\ label.foreach = enclosing_foreach
    BY <1>3
  <2> HIDE DEF label
  <2>6. /\ Len(labels) \in Nat /\ Len(labels') = last
        /\ \A l \in 1..Len(labels) : labels'[l] = labels[l]
        /\ labels'[last] = label
    <3>1. PICK S : labels \in Seq(S)
      BY DEF IInv, RefsInv
    <3>2. labels \in Seq(S \cup {label}) /\ label \in S \cup {label} /\ Len(labels) \in Nat
      BY <3>1, SeqMonotonic, LenProperties
    <3> QED BY <2>1, <2>2, <3>2, AppendProperties
  <2>7. /\ last \in 1..last /\ last \notin 1..Len(labels)
        /\ \A l : l \in 1..last <=> (l \in 1..Len(labels) \/ l = last)
    BY <2>6, <2>2
  <2>8. \A l \in 1..Len(labels) : \A s, i : Records(l, s, i)' <=> Records(l, s, i)
    BY <1>1, <2>6 DEF Records, At
  <2>9. Records(last, here, place)'
    <3>1. labels'[last].scope = here /\ labels'[last].name = At(here, place).name
          /\ InnerForeach(program.body[here], place, labels'[last].foreach)
      BY <2>2, <2>4, <2>5, <2>6
    <3> QED BY <1>1, <3>1 DEF Records, At
  <2>10. \A s \in Scopes : \A i \in Positions(s, "label") :
          Past("labels", s, i)' <=> (Past("labels", s, i) \/ (s = here /\ i = place))
    BY <1>8, <2>1, <2>2 DEF Positions
  <2>11. ASSUME NEW l \in 1..last
         PROVE  \E s \in Scopes : \E i \in Positions(s, "label") :
                  Past("labels", s, i)' /\ Records(l, s, i)'
    <3>1. CASE l \in 1..Len(labels)
      <4>1. PICK s \in Scopes : \E i \in Positions(s, "label") :
              Past("labels", s, i) /\ Records(l, s, i)
        BY <1>2, <3>1 DEF FoundInv, LabelsAreThere
      <4>2. PICK i \in Positions(s, "label") : Past("labels", s, i) /\ Records(l, s, i)
        BY <4>1
      <4>3. Past("labels", s, i)' /\ Records(l, s, i)'
        BY <2>8, <2>10, <3>1, <4>2
      <4> QED BY <4>3
    <3>2. CASE l = last
      <4>1. here \in Scopes /\ place \in Positions(here, "label")
        BY <1>3, <1>4, <1>10, <2>2
      <4>2. Past("labels", here, place)'
        BY <2>10, <4>1
      <4> QED BY <2>9, <3>2, <4>1, <4>2
    <3> QED BY <2>7, <3>1, <3>2
  <2>12. ASSUME NEW s \in Scopes, NEW i \in Positions(s, "label"), Past("labels", s, i)'
         PROVE  \E l \in 1..last : Records(l, s, i)'
    <3>1. CASE Past("labels", s, i)
      <4>1. PICK l \in 1..Len(labels) : Records(l, s, i)
        BY <1>2, <3>1 DEF FoundInv, LabelsAreKept
      <4> QED BY <2>7, <2>8, <4>1
    <3>2. CASE s = here /\ i = place
      BY <2>7, <2>9, <3>2
    <3> QED BY <2>10, <2>12, <3>1, <3>2
  <2>13. ASSUME NEW i \in Positions(scope, "label"), Past("labels", scope, i)
         PROVE  At(scope, i).name # At(scope, pos).name
    <3>1. PICK l \in 1..Len(labels) : Records(l, scope, i)
      BY <1>2, <1>3, <2>13 DEF FoundInv, LabelsAreKept
    <3>2. l \notin find_label(Node.name)
      BY <1>10
    <3> QED BY <1>3, <3>1, <3>2 DEF Records, find_label
  <2>14. ASSUME NEW s \in Scopes, NEW i \in Positions(s, "label"), NEW j \in Positions(s, "label"),
                Past("labels", s, i)', Past("labels", s, j)', At(s, i).name = At(s, j).name
         PROVE  i = j
    <3>1. /\ Past("labels", s, i) \/ (s = scope /\ i = pos)
          /\ Past("labels", s, j) \/ (s = scope /\ j = pos)
      BY <2>2, <2>10, <2>14
    <3>2. Past("labels", s, i) /\ Past("labels", s, j) => i = j
      BY <1>2, <2>14 DEF FoundInv, LabelsDiffer
    <3> QED BY <2>13, <2>14, <3>1, <3>2
  <2>15. LabelsAreThere' /\ LabelsAreKept'
    BY <1>1, <2>6, <2>11, <2>12, TextStays DEF LabelsAreThere, LabelsAreKept
  <2>16. LabelsDiffer'
    BY <1>1, <2>14, TextStays DEF LabelsDiffer
  <2>17. GotosInv' /\ BreaksInv'
    BY <1>1, <1>8, <2>1, TextStays DEF GotosInv, BreaksInv, Positions
  <2> QED BY <1>2, <2>1, <2>3, <2>15, <2>16, <2>17 DEF RefusalInv, ErrorInv, FoundInv
<1> QED BY <1>7, <1>9, <1>10

(* The end of a walk over a scope: nothing new has been passed.            *)
LEMMA EndWalkRefuses ==
  ASSUME IInv, RefusalInv, EndWalk
  PROVE  RefusalInv'
<1>1. /\ walk # "done" /\ pos > Len(Visited) /\ pos' = 1 /\ nest' = <<>>
      /\ walk' = NextWalk.walk /\ scope' = NextWalk.scope
      /\ UNCHANGED <<program, labels, had_error>>
  BY DEF EndWalk
<1>2. /\ scope \in Nat /\ scope <= program.count /\ program.count \in Nat
      /\ scope \in Scopes /\ walk \in Walks /\ pos \in Nat
  BY ProgramFacts DEF IInv, ControlInv, Scopes
<1>3. ~had_error
  BY <1>1 DEF RefusalInv, ErrorInv
<1>4. \A s \in Scopes : s \in Nat /\ s <= program.count /\ Len(program.body[s]) \in Nat
  BY <1>2, ProgramFacts, LenProperties DEF IInv, Scopes
<1>5. CASE walk \in {"params", "explicit", "implicit", "link", "resolve"}
  <2>1. walk' \in {"params", "explicit", "implicit", "link", "resolve"}
        \/ (walk' = "labels" /\ scope' = 0)
    <3>1. CASE walk \in {"params", "explicit"}
      BY <1>1, <3>1 DEF NextWalk
    <3>2. CASE walk = "implicit"
      <4>1. ~Collected
        BY <3>2 DEF Collected
      <4>2. \/ NextWalk = [walk |-> "params", scope |-> scope + 1]
            \/ NextWalk = [walk |-> "link", scope |-> 0]
        BY <3>2, <4>1, <1>1, NextWalkCases
      <4> QED BY <1>1, <4>2
    <3>3. CASE walk = "link"
      BY <1>1, <3>3 DEF NextWalk
    <3>4. CASE walk = "resolve"
      <4>1. NextWalk = IF scope < program.count THEN [walk |-> walk, scope |-> scope + 1]
                       ELSE [walk |-> AfterLast[walk], scope |-> 0]
        BY <3>4 DEF NextWalk
      <4>2. AfterLast[walk] = "labels"
        BY <3>4 DEF AfterLast
      <4> QED BY <1>1, <3>4, <4>1, <4>2
    <3> QED BY <1>5, <3>1, <3>2, <3>3, <3>4
  <2>2. \A w \in JumpWalks : \A s, i : ~Past(w, s, i)
    BY <1>5 DEF Past, After, JumpWalks
  <2>3. ASSUME NEW w \in JumpWalks, NEW s \in Scopes, NEW i \in 1..Len(program.body[s])
        PROVE  ~Past(w, s, i)'
    <3>1. ~(s < 0) /\ ~(i < 1)
      BY <1>4
    <3> QED BY <1>1, <2>1, <3>1 DEF Past, After, JumpWalks
  <2>4. NestInv'
    <3>1. CASE walk' = "labels" /\ scope' = 0
      <4>1. 0 \in Scopes
        BY <1>2 DEF Scopes
      <4>2. Closed(program.body[0])
        BY <4>1, BodyClosed
      <4>3. Nested(<<>>, program.body[0], 1)
        BY <4>2, NestedAtFirst
      <4> QED BY <1>1, <3>1, <4>3 DEF NestInv, Nested, Around
    <3>2. CASE walk' \in {"params", "explicit", "implicit", "link", "resolve"}
      BY <3>2 DEF NestInv, JumpWalks
    <3> QED BY <2>1, <3>1, <3>2
  <2> QED BY <1>1, <1>3, <2>2, <2>3, <2>4, FoundStays DEF JumpWalks
<1>6. CASE walk \in JumpWalks
  <2>1. NextWalk = IF scope < program.count THEN [walk |-> walk, scope |-> scope + 1]
                   ELSE [walk |-> AfterLast[walk], scope |-> 0]
    BY <1>6 DEF NextWalk, JumpWalks
  <2>2. AfterLast[walk] = CASE walk = "labels" -> "gotos" [] walk = "gotos" -> "loops"
                            [] walk = "loops" -> "done"
    BY <1>6 DEF AfterLast, JumpWalks
  <2>3. \/ walk' = walk /\ scope' = scope + 1 /\ scope + 1 \in Scopes
        \/ /\ scope = program.count /\ scope' = 0 /\ 0 \in Scopes
           /\ \/ walk = "labels" /\ walk' = "gotos"
              \/ walk = "gotos" /\ walk' = "loops"
              \/ walk = "loops" /\ walk' = "done"
    <3>1. CASE scope < program.count
      <4>1. scope + 1 \in Scopes
        BY <1>2, <3>1 DEF Scopes
      <4> QED BY <1>1, <2>1, <3>1, <4>1
    <3>2. CASE ~(scope < program.count)
      <4>1. scope = program.count /\ 0 \in Scopes
        BY <1>2, <3>2 DEF Scopes
      <4>2. walk' = AfterLast[walk] /\ scope' = 0
        BY <1>1, <2>1, <3>2
      <4> QED BY <1>6, <2>2, <4>1, <4>2 DEF JumpWalks
    <3> QED BY <3>1, <3>2
  <2>4. Visited = program.body[scope]
    BY <1>6 DEF Visited, JumpWalks
  <2>5. ASSUME NEW w \in JumpWalks, NEW s \in Scopes, NEW i \in 1..Len(program.body[s])
        PROVE  Past(w, s, i)' <=> Past(w, s, i)
    <3>1. i \in Nat /\ ~(i < 1) /\ ~(s < 0) /\ s \in Nat
      BY <1>4
    <3>2. s = scope => i < pos
      BY <1>1, <1>2, <1>4, <2>4
    <3>3. CASE walk' = walk /\ scope' = scope + 1
      <4>1. s < scope + 1 <=> (s < scope \/ s = scope)
        BY <1>2, <3>1
      <4> QED BY <1>1, <3>1, <3>2, <3>3, <4>1 DEF Past
    <3>4. CASE walk' # walk /\ scope = program.count /\ scope' = 0
      <4>1. s < scope \/ s = scope
        BY <1>2, <1>4, <3>4
      <4>2. w = walk => Past(w, s, i)
        BY <3>2, <4>1 DEF Past
      <4>3. Past(w, s, i)' <=> walk' \in After[w]
        BY <1>1, <3>1, <3>4 DEF Past
      <4>4. w # walk => (Past(w, s, i) <=> walk \in After[w])
        BY DEF Past
      <4>5. \/ walk = "labels" /\ walk' = "gotos"
            \/ walk = "gotos" /\ walk' = "loops"
            \/ walk = "loops" /\ walk' = "done"
        BY <2>3, <3>4
      <4>6. walk' \in After[w] <=> (walk \in After[w] \/ w = walk)
        BY <4>5 DEF After, JumpWalks
      <4> QED BY <4>2, <4>3, <4>4, <4>6
    <3> QED BY <2>3, <3>3, <3>4
  <2>6. NestInv'
    <3>1. scope' \in Scopes
      BY <2>3
    <3>2. Closed(program.body[scope'])
      BY <3>1, BodyClosed
    <3>3. Nested(<<>>, program.body[scope'], 1)
      BY <3>2, NestedAtFirst
    <3> QED BY <1>1, <3>3 DEF NestInv, Nested, Around
  <2> QED BY <1>1, <1>3, <2>5, <2>6, FoundStays DEF JumpWalks
<1> QED BY <1>1, <1>2, <1>5, <1>6 DEF Walks, JumpWalks

(* The passes that come before have been at nothing.                       *)
LEMMA EarlierRefuse ==
  ASSUME RefusalInv,
         CollectExplicit \/ CollectImplicit \/ AddParameter \/ LinkFallback \/ ResolveNode
  PROVE  RefusalInv'
<1>1. /\ walk \in {"params", "explicit", "implicit", "link", "resolve"} /\ walk' = walk
      /\ UNCHANGED <<program, labels, had_error>>
  BY DEF CollectExplicit, CollectImplicit, AddParameter, LinkFallback, ResolveNode, Visiting
<1>2. ~had_error
  BY <1>1 DEF RefusalInv, ErrorInv
<1>3. \A w \in JumpWalks : \A s, i : ~Past(w, s, i) /\ ~Past(w, s, i)'
  BY <1>1 DEF Past, After, JumpWalks
<1>4. NestInv'
  BY <1>1 DEF NestInv, JumpWalks
<1> QED BY <1>1, <1>2, <1>3, <1>4, FoundStays DEF JumpWalks

LEMMA RefusalsStutter ==
  ASSUME RefusalInv, UNCHANGED vars
  PROVE  RefusalInv'
<1>1. UNCHANGED <<program, walk, scope, pos, nest, labels, had_error>>
  BY DEF vars
<1>2. CASE had_error
  BY <1>1, <1>2, TextStays DEF RefusalInv, ErrorInv
<1>3. CASE ~had_error
  <2>1. NestInv'
    BY <1>1, <1>3 DEF RefusalInv, FoundInv, NestInv, Nested, Around
  <2>2. \A w, s, i : Past(w, s, i)' <=> Past(w, s, i)
    BY <1>1 DEF Past
  <2> QED BY <1>1, <1>3, <2>1, <2>2, FoundStays
<1> QED BY <1>2, <1>3

LEMMA RefusalsInductive == Spec => [](IInv /\ RefusalInv)
<1>1. Init => RefusalInv
  <2> SUFFICES ASSUME Init PROVE RefusalInv
    OBVIOUS
  <2>1. walk = "explicit" /\ Len(labels) = 0 /\ ~had_error
    BY DEF Init
  <2>2. \A w \in JumpWalks : \A s, i : ~Past(w, s, i)
    BY <2>1 DEF Past, After, JumpWalks
  <2>3. LabelsAreThere /\ LabelsAreKept /\ LabelsDiffer
    BY <2>1, <2>2 DEF LabelsAreThere, LabelsAreKept, LabelsDiffer, JumpWalks
  <2>4. NestInv /\ GotosInv /\ BreaksInv
    BY <2>1, <2>2 DEF NestInv, GotosInv, BreaksInv, JumpWalks
  <2> QED BY <2>1, <2>3, <2>4 DEF RefusalInv, ErrorInv, FoundInv
<1>2. IInv /\ IInv' /\ RefusalInv /\ [Next]_vars => RefusalInv'
  BY CollectLabelRefuses, BindGotoRefuses, CheckLoopRefuses, EndWalkRefuses, EarlierRefuse,
     RefusalsStutter DEF Next
<1> QED BY <1>1, <1>2, Inductive, PTL DEF Spec

(* However a program nests its loops, HDResolveProgram refuses it exactly  *)
(* when a scope has a label twice, a goto that leads nowhere or into a     *)
(* foreach it is not inside of, or a break without a loop.  To compare the *)
(* label's innermost foreach with those around the goto is enough, and the *)
(* list of loops that the passes keep says which those are.                *)
THEOREM RefusalsExact == Spec => []RefusesExactly
<1>1. IInv /\ RefusalInv => RefusesExactly
  <2> SUFFICES ASSUME IInv, RefusalInv, walk = "done", ~had_error, NEW s \in Scopes, Wrong(s)
               PROVE  FALSE
    BY DEF RefusesExactly, RefusalInv, ErrorInv, Wrong
  <2>1. \A w \in JumpWalks : \A i : Past(w, s, i)
    BY DEF Past, After, JumpWalks
  <2>2. FoundInv
    BY DEF RefusalInv
  <2>3. ~LabelTwice(s)
    BY <2>1, <2>2 DEF FoundInv, LabelsDiffer, LabelTwice, JumpWalks
  <2>4. ~GotoAstray(s)
    BY <2>1, <2>2, GotoText DEF FoundInv, GotosInv, JumpWalks
  <2>5. ~BreakAstray(s)
    BY <2>1, <2>2, GotoText DEF FoundInv, BreaksInv, JumpWalks
  <2> QED BY <2>3, <2>4, <2>5 DEF Wrong
<1> QED BY <1>1, RefusalsInductive, PTL
=============================================================================
