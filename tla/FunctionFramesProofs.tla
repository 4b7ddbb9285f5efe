------------------------- MODULE FunctionFramesProofs -------------------------
(***************************************************************************)
(* Proofs about the variables of functions, for any script, any names and   *)
(* values and any nesting: what a frame, a temporary assignment or a        *)
(* subshell put in place is taken down when it ends, on whatever way; the   *)
(* flat table, the typed table and the environment agree; and every name    *)
(* means what DynamicScope says it means, though the code keeps one flat    *)
(* table and undoes the changes.                                            *)
(***************************************************************************)
EXTENDS FunctionFrames, OrderProofs, SequenceTheorems

-------------------------------------------------------------------------------
(* Types *)

\* Maps of some of the names.
SomeNames(R) == UNION {[D -> R] : D \in SUBSET Names}

Marks == [exported : BOOLEAN, readonly : BOOLEAN]
SavedVars == [value : Value, attrs : Marks]
ScopeRecords == {r \in [vars : SomeNames(SavedVars), typed : SomeNames(Value)] :
                   DOMAIN r.vars \subseteq DOMAIN r.typed}

FunctionEntries == [kind : {"function"}, scope : Nat]
PrefixEntries == [kind : {"prefix"}, for : {"call", "called", "eval"}, name : Names,
                  value : Value, typed : Value, exported : SUBSET Names]
SubshellEntries == [kind : {"subshell"}, store : Tables]
Entries == FunctionEntries \cup PrefixEntries \cup SubshellEntries

LEMMA SomeNamesIs ==
  ASSUME NEW R, NEW f
  PROVE  f \in SomeNames(R) <=> /\ DOMAIN f \subseteq Names
                                /\ f = [m \in DOMAIN f |-> f[m]]
                                /\ \A m \in DOMAIN f : f[m] \in R
<1>1. ASSUME f \in SomeNames(R)
      PROVE  DOMAIN f \subseteq Names /\ f \in [DOMAIN f -> R]
  <2>1. PICK D \in SUBSET Names : f \in [D -> R]
    BY <1>1 DEF SomeNames
  <2>2. DOMAIN f = D
    BY <2>1
  <2> QED BY <2>1, <2>2
<1>2. ASSUME DOMAIN f \in SUBSET Names, f \in [DOMAIN f -> R] PROVE f \in SomeNames(R)
  BY <1>2 DEF SomeNames
<1> QED BY <1>1, <1>2

\* A map of a scope with one name more, and with one name less.
LEMMA OneVarMore ==
  ASSUME NEW f \in SomeNames(SavedVars), NEW n \in Names, NEW v \in SavedVars
  PROVE  /\ With(f, n, v) \in SomeNames(SavedVars) /\ DOMAIN With(f, n, v) = DOMAIN f \cup {n}
         /\ With(f, n, v)[n] = v
         /\ \A m \in DOMAIN f : m # n => With(f, n, v)[m] = f[m]
<1>1. DOMAIN f \subseteq Names /\ \A m \in DOMAIN f : f[m] \in SavedVars
  BY SomeNamesIs
<1>2. With(f, n, v) \in [DOMAIN f \cup {n} -> SavedVars] /\ DOMAIN f \cup {n} \in SUBSET Names
  BY <1>1 DEF With
<1>3. With(f, n, v) \in SomeNames(SavedVars)
  BY <1>2 DEF SomeNames
<1> QED BY <1>2, <1>3 DEF With

LEMMA OneTypedMore ==
  ASSUME NEW f \in SomeNames(Value), NEW n \in Names, NEW v \in Value
  PROVE  /\ With(f, n, v) \in SomeNames(Value) /\ DOMAIN With(f, n, v) = DOMAIN f \cup {n}
         /\ With(f, n, v)[n] = v
         /\ \A m \in DOMAIN f : m # n => With(f, n, v)[m] = f[m]
<1>1. DOMAIN f \subseteq Names /\ \A m \in DOMAIN f : f[m] \in Value
  BY SomeNamesIs
<1>2. With(f, n, v) \in [DOMAIN f \cup {n} -> Value] /\ DOMAIN f \cup {n} \in SUBSET Names
  BY <1>1 DEF With
<1>3. With(f, n, v) \in SomeNames(Value)
  BY <1>2 DEF SomeNames
<1> QED BY <1>2, <1>3 DEF With

LEMMA OneNameLess ==
  ASSUME NEW R, NEW f \in SomeNames(R), NEW n
  PROVE  /\ Without(f, n) \in SomeNames(R) /\ DOMAIN Without(f, n) = DOMAIN f \ {n}
         /\ \A m \in DOMAIN f : m # n => Without(f, n)[m] = f[m]
<1>1. DOMAIN f \subseteq Names /\ \A m \in DOMAIN f : f[m] \in R
  BY SomeNamesIs
<1>2. Without(f, n) \in [DOMAIN f \ {n} -> R] /\ DOMAIN f \ {n} \in SUBSET Names
  BY <1>1 DEF Without
<1>3. Without(f, n) \in SomeNames(R)
  BY <1>2 DEF SomeNames
<1> QED BY <1>2, <1>3 DEF Without

LEMMA EntryCases ==
  ASSUME NEW e \in Entries
  PROVE  /\ e.kind \in {"function", "prefix", "subshell"}
         /\ e.kind = "function" <=> e \in FunctionEntries
         /\ e.kind = "prefix" <=> e \in PrefixEntries
         /\ e.kind = "subshell" <=> e \in SubshellEntries
BY DEF Entries, FunctionEntries, PrefixEntries, SubshellEntries

LEMMA ScopeHas ==
  ASSUME NEW r \in ScopeRecords
  PROVE  /\ r = [vars |-> r.vars, typed |-> r.typed]
         /\ r.vars \in SomeNames(SavedVars) /\ r.typed \in SomeNames(Value)
         /\ DOMAIN r.vars \subseteq DOMAIN r.typed /\ DOMAIN r.typed \subseteq Names
         /\ \A n \in DOMAIN r.vars : r.vars[n] \in SavedVars
         /\ \A n \in DOMAIN r.typed : r.typed[n] \in Value
<1>1. r \in [vars : SomeNames(SavedVars), typed : SomeNames(Value)]
      /\ DOMAIN r.vars \subseteq DOMAIN r.typed
  BY DEF ScopeRecords
<1>2. r.vars \in SomeNames(SavedVars) /\ r.typed \in SomeNames(Value)
  BY <1>1
<1>3. DOMAIN r.typed \subseteq Names /\ \A n \in DOMAIN r.typed : r.typed[n] \in Value
  BY <1>2, SomeNamesIs
<1>4. \A n \in DOMAIN r.vars : r.vars[n] \in SavedVars
  BY <1>2, SomeNamesIs
<1> QED BY <1>1, <1>2, <1>3, <1>4

LEMMA NoScope == EmptyScope \in ScopeRecords /\ DOMAIN EmptyScope.vars = {}
<1>1. [n \in {} |-> Unset] \in SomeNames(SavedVars) /\ [n \in {} |-> Unset] \in SomeNames(Value)
  <2>1. [n \in {} |-> Unset] \in [{} -> SavedVars] /\ [n \in {} |-> Unset] \in [{} -> Value]
    OBVIOUS
  <2> QED BY <2>1 DEF SomeNames
<1> QED BY <1>1 DEF EmptyScope, ScopeRecords

-------------------------------------------------------------------------------
(* The tables: what each operation does to a name and to the others. *)

\* Two tables have the same about n.
SameAt(s, t, n) ==
  /\ t.env[n] = s.env[n] /\ t.typed[n] = s.typed[n]
  /\ t.penv[n] = s.penv[n] /\ t.shadowed[n] = s.shadowed[n]
  /\ n \in t.exported <=> n \in s.exported
  /\ n \in t.readonly <=> n \in s.readonly

\* Of all names t has what s has, but for n.
Touches(s, t, n) == t \in Tables /\ \A m \in Names \ {n} : SameAt(s, t, m)

LEMMA AssignTouches ==
  ASSUME NEW s \in Tables, NEW n \in Names, NEW v \in Value
  PROVE  LET t == AssignVar(s, n, v)
         IN  /\ Touches(s, t, n) /\ t.exported = s.exported /\ t.shadowed[n] = s.shadowed[n]
             /\ \/ SameAt(s, t, n)
                \/ /\ t.env[n] = v /\ t.typed[n] = v
                   /\ t.penv[n] = IF n \in s.exported THEN v ELSE s.penv[n]
BY DEF AssignVar, Touches, SameAt, Tables

LEMMA RestoreTouches ==
  ASSUME NEW s \in Tables, NEW n \in Names, NEW v \in Value
  PROVE  LET t == RestoreVar(s, n, v)
         IN  /\ Touches(s, t, n) /\ t.exported = s.exported /\ t.shadowed = s.shadowed
             /\ t.readonly = s.readonly /\ t.typed = s.typed
             /\ t.env[n] = v /\ t.penv[n] = v
BY DEF RestoreVar, Touches, SameAt, Tables

LEMMA SetAttrsTouches ==
  ASSUME NEW s \in Tables, NEW n \in Names, NEW a \in Marks
  PROVE  LET t == SetAttrs(s, n, a)
         IN  /\ Touches(s, t, n) /\ t.env = s.env /\ t.typed = s.typed /\ t.penv = s.penv
             /\ t.shadowed = s.shadowed
             /\ n \in t.exported <=> a.exported
             /\ n \in t.readonly <=> a.readonly
BY DEF SetAttrs, Mark, Marks, Touches, SameAt, Tables

LEMMA AttributeTouches ==
  ASSUME NEW s \in Tables, NEW n \in Names, NEW v \in Value
  PROVE  LET t == GiveAttributeValue(s, n, v)
         IN  /\ Touches(s, t, n) /\ t.exported = s.exported /\ t.readonly = s.readonly
             /\ t.shadowed = s.shadowed
             /\ \/ t = s /\ s.env[n] = Unset /\ s.penv[n] = Unset
                \/ /\ t.env[n] = t.penv[n] /\ t.env[n] # Unset
                   /\ \/ v # Unset /\ t.env[n] = v /\ t.typed[n] = v
                      \/ /\ v = Unset /\ t.typed[n] = s.typed[n]
                         /\ \/ t.env[n] = s.env[n]
                            \/ s.env[n] = Unset /\ t.env[n] = s.penv[n]
<1> DEFINE w == AttributeValue(s, n, v)
           t == GiveAttributeValue(s, n, v)
<1>1. s.env \in [Names -> Value] /\ s.typed \in [Names -> Value] /\ s.penv \in [Names -> Value]
  BY DEF Tables
<1>2. w \in Value
  BY <1>1 DEF AttributeValue
<1>3. CASE w = Unset
  <2>1. t = s /\ s.env[n] = Unset /\ s.penv[n] = Unset
    BY <1>3 DEF GiveAttributeValue, AttributeValue
  <2> QED BY <2>1 DEF Touches, SameAt
<1>4. CASE w # Unset
  <2>1. t = [s EXCEPT !.env[n] = w, !.penv[n] = w, !.typed[n] = IF v = Unset THEN @ ELSE w]
    BY <1>4 DEF GiveAttributeValue
  <2>2. \/ v # Unset /\ w = v
        \/ v = Unset /\ (w = s.env[n] \/ (s.env[n] = Unset /\ w = s.penv[n]))
    BY DEF AttributeValue
  <2> HIDE DEF w, t
  <2>3. /\ t \in Tables
        /\ t.exported = s.exported /\ t.readonly = s.readonly /\ t.shadowed = s.shadowed
        /\ t.env = [s.env EXCEPT ![n] = w] /\ t.penv = [s.penv EXCEPT ![n] = w]
        /\ t.typed = [s.typed EXCEPT ![n] = IF v = Unset THEN @ ELSE w]
    BY <1>1, <1>2, <2>1 DEF Tables
  <2>4. Touches(s, t, n) /\ t.env[n] = w /\ t.penv[n] = w
        /\ t.typed[n] = IF v = Unset THEN s.typed[n] ELSE w
    BY <1>1, <2>3 DEF Touches, SameAt
  <2> QED BY <1>4, <2>2, <2>3, <2>4 DEF t
<1> QED BY <1>3, <1>4

LEMMA FreshTouches ==
  ASSUME NEW s \in Tables, NEW n \in Names
  PROVE  LET t == FreshLocal(s, n)
         IN  /\ Touches(s, t, n) /\ t.env[n] = Unset /\ t.typed[n] = Unset
             /\ t.penv[n] = s.penv[n] /\ n \notin t.exported /\ n \notin t.readonly
             /\ t.shadowed[n] \in {s.shadowed[n], s.env[n]}
<1> DEFINE u == [s EXCEPT !.shadowed[n] = IF n \in s.exported /\ s.env[n] # Unset
                                        THEN s.env[n] ELSE @,
                        !.env[n] = Unset, !.typed[n] = Unset]
<1>1. Touches(s, u, n) /\ u.env[n] = Unset /\ u.typed[n] = Unset /\ u.penv[n] = s.penv[n]
      /\ u.shadowed[n] \in {s.shadowed[n], s.env[n]}
  BY DEF Touches, SameAt, Tables, Value
<1>2. NoAttrs \in Marks /\ ~NoAttrs.exported /\ ~NoAttrs.readonly
  BY DEF NoAttrs, Marks
<1> HIDE DEF u
<1>3. u \in Tables
  BY <1>1 DEF Touches
<1> DEFINE t == SetAttrs(u, n, NoAttrs)
<1>4. /\ Touches(u, t, n) /\ t.env = u.env /\ t.typed = u.typed /\ t.penv = u.penv
      /\ t.shadowed = u.shadowed /\ n \notin t.exported /\ n \notin t.readonly
  BY <1>2, <1>3, SetAttrsTouches
<1>5. FreshLocal(s, n) = t
  BY DEF FreshLocal, u
<1> HIDE DEF t
<1>6. Touches(s, t, n)
  BY <1>1, <1>4 DEF Touches, SameAt
<1> QED BY <1>1, <1>4, <1>5, <1>6

-------------------------------------------------------------------------------
(* The frames: what each operation does to the saved values. *)

\* Two scopes have the same about n.
ScopeSameAt(r, q, n) ==
  /\ n \in DOMAIN q.vars <=> n \in DOMAIN r.vars
  /\ n \in DOMAIN r.vars => q.vars[n] = r.vars[n] /\ q.typed[n] = r.typed[n]

ScopeTouches(r, q, n) == q \in ScopeRecords /\ \A m \in Names \ {n} : ScopeSameAt(r, q, m)

LEMMA AttrsAre ==
  ASSUME NEW s \in Tables, NEW n \in Names
  PROVE  /\ Attrs(s, n) \in Marks /\ [value |-> s.env[n], attrs |-> Attrs(s, n)] \in SavedVars
         /\ Attrs(s, n).exported <=> n \in s.exported
         /\ Attrs(s, n).readonly <=> n \in s.readonly
<1>1. (n \in s.exported) \in BOOLEAN /\ (n \in s.readonly) \in BOOLEAN /\ s.env[n] \in Value
  BY DEF Tables
<1>2. Attrs(s, n) \in Marks
  BY <1>1, Zenon DEF Attrs, Marks
<1>3. [value |-> s.env[n], attrs |-> Attrs(s, n)] \in SavedVars
  BY <1>1, <1>2 DEF SavedVars
<1>4. /\ Attrs(s, n).exported <=> n \in s.exported
      /\ Attrs(s, n).readonly <=> n \in s.readonly
  BY DEF Attrs
<1> QED BY <1>2, <1>3, <1>4

LEMMA SavedIs ==
  ASSUME NEW r \in ScopeRecords, NEW s \in Tables, NEW n \in Names, n \notin DOMAIN r.vars
  PROVE  LET vars2 == With(r.vars, n, [value |-> s.env[n], attrs |-> Attrs(s, n)])
             typed2 == With(r.typed, n, s.typed[n])
         IN  /\ SaveLocal(r, s, n) = [vars |-> vars2, typed |-> typed2]
             /\ vars2 \in SomeNames(SavedVars) /\ DOMAIN vars2 = DOMAIN r.vars \cup {n}
             /\ \A m \in DOMAIN r.vars : m # n => vars2[m] = r.vars[m]
             /\ typed2 \in SomeNames(Value) /\ DOMAIN typed2 = DOMAIN r.typed \cup {n}
             /\ \A m \in DOMAIN r.typed : m # n => typed2[m] = r.typed[m]
<1> DEFINE saved == [value |-> s.env[n], attrs |-> Attrs(s, n)]
           vars2 == With(r.vars, n, saved)
           typed2 == With(r.typed, n, s.typed[n])
<1>1. r.vars \in SomeNames(SavedVars) /\ r.typed \in SomeNames(Value)
  BY ScopeHas
<1>2. SaveLocal(r, s, n) = [vars |-> vars2, typed |-> typed2]
  BY DEF SaveLocal
<1>3. saved \in SavedVars /\ s.typed[n] \in Value
  BY AttrsAre DEF Tables
<1>4. /\ vars2 \in SomeNames(SavedVars) /\ DOMAIN vars2 = DOMAIN r.vars \cup {n}
      /\ \A m \in DOMAIN r.vars : m # n => vars2[m] = r.vars[m]
  BY <1>1, <1>3, OneVarMore
<1>5. /\ typed2 \in SomeNames(Value) /\ DOMAIN typed2 = DOMAIN r.typed \cup {n}
      /\ \A m \in DOMAIN r.typed : m # n => typed2[m] = r.typed[m]
  BY <1>1, <1>3, OneTypedMore
<1> HIDE DEF vars2, typed2, saved
<1> QED BY <1>2, <1>4, <1>5 DEF vars2, typed2, saved

LEMMA SaveTouches ==
  ASSUME NEW r \in ScopeRecords, NEW s \in Tables, NEW n \in Names
  PROVE  LET q == SaveLocal(r, s, n)
         IN  ScopeTouches(r, q, n) /\ DOMAIN q.vars = DOMAIN r.vars \cup {n}
<1> DEFINE saved == [value |-> s.env[n], attrs |-> Attrs(s, n)]
           vars2 == With(r.vars, n, saved)
           typed2 == With(r.typed, n, s.typed[n])
           q == SaveLocal(r, s, n)
<1>1. DOMAIN r.vars \subseteq DOMAIN r.typed
  BY ScopeHas
<1>2. CASE n \in DOMAIN r.vars
  <2>1. q = r
    BY <1>2 DEF SaveLocal
  <2> QED BY <1>2, <2>1 DEF ScopeTouches, ScopeSameAt
<1>3. CASE n \notin DOMAIN r.vars
  <2>1. /\ q = [vars |-> vars2, typed |-> typed2]
        /\ vars2 \in SomeNames(SavedVars) /\ DOMAIN vars2 = DOMAIN r.vars \cup {n}
        /\ \A m \in DOMAIN r.vars : m # n => vars2[m] = r.vars[m]
        /\ typed2 \in SomeNames(Value) /\ DOMAIN typed2 = DOMAIN r.typed \cup {n}
        /\ \A m \in DOMAIN r.typed : m # n => typed2[m] = r.typed[m]
    BY <1>3, SavedIs
  <2> HIDE DEF q, saved, vars2, typed2
  <2>2. q \in ScopeRecords
    BY <1>1, <2>1 DEF ScopeRecords
  <2>3. ScopeTouches(r, q, n)
    BY <1>1, <2>1, <2>2 DEF ScopeTouches, ScopeSameAt
  <2> QED BY <2>1, <2>3 DEF q
<1> QED BY <1>2, <1>3

LEMMA WithoutTouches ==
  ASSUME NEW r \in ScopeRecords, NEW n \in Names
  PROVE  LET q == [r EXCEPT !.vars = Without(@, n)]
         IN  ScopeTouches(r, q, n) /\ DOMAIN q.vars = DOMAIN r.vars \ {n}
<1> DEFINE q == [r EXCEPT !.vars = Without(@, n)]
<1>1. /\ r = [vars |-> r.vars, typed |-> r.typed]
      /\ r.vars \in SomeNames(SavedVars) /\ r.typed \in SomeNames(Value)
      /\ DOMAIN r.vars \subseteq DOMAIN r.typed
  BY ScopeHas
<1>2. q = [vars |-> Without(r.vars, n), typed |-> r.typed]
  BY <1>1
<1>3. /\ Without(r.vars, n) \in SomeNames(SavedVars)
      /\ DOMAIN Without(r.vars, n) = DOMAIN r.vars \ {n}
      /\ \A m \in DOMAIN r.vars : m # n => Without(r.vars, n)[m] = r.vars[m]
  <2>1. \A f \in SomeNames(SavedVars) :
          /\ Without(f, n) \in SomeNames(SavedVars) /\ DOMAIN Without(f, n) = DOMAIN f \ {n}
          /\ \A m \in DOMAIN f : m # n => Without(f, n)[m] = f[m]
    BY OneNameLess
  <2> QED BY <1>1, <2>1
<1> HIDE DEF q
<1>4. q \in ScopeRecords
  BY <1>1, <1>2, <1>3 DEF ScopeRecords
<1>5. ScopeTouches(r, q, n)
  BY <1>1, <1>2, <1>3, <1>4 DEF ScopeTouches, ScopeSameAt
<1> QED BY <1>2, <1>3, <1>5 DEF q

\* declare -g: the saved value of a name is another.
LEMMA GlobalTouches ==
  ASSUME NEW r \in ScopeRecords, NEW n \in DOMAIN r.vars, NEW v \in Value
  PROVE  LET q == SetSaved(r, n, v)
         IN  /\ ScopeTouches(r, q, n)
             /\ DOMAIN q.vars = DOMAIN r.vars /\ DOMAIN q.typed = DOMAIN r.typed
             /\ q.vars[n].value = v /\ q.vars[n].attrs = r.vars[n].attrs /\ q.typed[n] = v
<1> DEFINE saved == [r.vars[n] EXCEPT !.value = v]
           vars2 == With(r.vars, n, saved)
           typed2 == With(r.typed, n, v)
           q == SetSaved(r, n, v)
<1>1. /\ r.vars \in SomeNames(SavedVars) /\ r.typed \in SomeNames(Value)
      /\ DOMAIN r.vars \subseteq DOMAIN r.typed /\ n \in Names /\ r.vars[n] \in SavedVars
  BY ScopeHas
<1>2. saved \in SavedVars /\ saved.value = v /\ saved.attrs = r.vars[n].attrs
  BY <1>1 DEF SavedVars
<1>3. q = [vars |-> vars2, typed |-> typed2]
  BY DEF SetSaved
<1> HIDE DEF saved, q
<1>4. /\ vars2 \in SomeNames(SavedVars) /\ DOMAIN vars2 = DOMAIN r.vars \cup {n}
      /\ vars2[n] = saved /\ \A m \in DOMAIN r.vars : m # n => vars2[m] = r.vars[m]
  BY <1>1, <1>2, OneVarMore
<1>5. /\ typed2 \in SomeNames(Value) /\ DOMAIN typed2 = DOMAIN r.typed \cup {n}
      /\ typed2[n] = v /\ \A m \in DOMAIN r.typed : m # n => typed2[m] = r.typed[m]
  BY <1>1, OneTypedMore
<1> HIDE DEF vars2, typed2
<1>6. DOMAIN vars2 = DOMAIN r.vars /\ DOMAIN typed2 = DOMAIN r.typed
  BY <1>1, <1>4, <1>5
<1>7. q \in ScopeRecords
  BY <1>1, <1>3, <1>4, <1>5, <1>6 DEF ScopeRecords
<1>8. ScopeTouches(r, q, n)
  BY <1>1, <1>3, <1>4, <1>5, <1>6, <1>7 DEF ScopeTouches, ScopeSameAt
<1> QED BY <1>2, <1>3, <1>4, <1>5, <1>6, <1>8 DEF q

\* What the end of a function puts back.
LEMMA LocalsRestored ==
  ASSUME NEW s \in Tables, NEW r \in ScopeRecords
  PROVE  LET t == RestoreLocals(s, r)
         IN  /\ t \in Tables
             /\ \A n \in DOMAIN r.vars :
                  /\ t.env[n] = r.vars[n].value /\ t.penv[n] = r.vars[n].value
                  /\ t.typed[n] = r.typed[n] /\ t.shadowed[n] = Unset
                  /\ n \in t.exported <=> r.vars[n].attrs.exported
                  /\ n \in t.readonly <=> r.vars[n].attrs.readonly
             /\ \A n \in Names \ DOMAIN r.typed : SameAt(s, t, n)
             /\ \A n \in Names \ DOMAIN r.vars :
                  t.env[n] = s.env[n] /\ (n \in t.readonly <=> n \in s.readonly)
<1> DEFINE t == RestoreLocals(s, r)
           back(g) == [n \in Names |-> IF n \in DOMAIN r.vars THEN r.vars[n].value ELSE g[n]]
           typed2 == [n \in Names |-> IF n \in DOMAIN r.typed THEN r.typed[n] ELSE s.typed[n]]
           shadowed2 == [n \in Names |-> IF n \in DOMAIN r.vars THEN Unset ELSE s.shadowed[n]]
           marks(set, a) == (set \ DOMAIN r.vars) \cup {n \in DOMAIN r.vars : r.vars[n].attrs[a]}
<1>1. /\ DOMAIN r.vars \subseteq DOMAIN r.typed /\ DOMAIN r.typed \subseteq Names
      /\ \A n \in DOMAIN r.vars : r.vars[n] \in SavedVars
      /\ \A n \in DOMAIN r.typed : r.typed[n] \in Value
  BY ScopeHas
<1>2. /\ s = [env |-> s.env, typed |-> s.typed, penv |-> s.penv, shadowed |-> s.shadowed,
              exported |-> s.exported, readonly |-> s.readonly]
      /\ s.env \in [Names -> Value] /\ s.typed \in [Names -> Value] /\ s.penv \in [Names -> Value]
      /\ s.shadowed \in [Names -> Value] /\ s.exported \subseteq Names /\ s.readonly \subseteq Names
  BY DEF Tables
<1>3. t = [env |-> back(s.env), typed |-> typed2, penv |-> back(s.penv), shadowed |-> shadowed2,
           exported |-> marks(s.exported, "exported"), readonly |-> marks(s.readonly, "readonly")]
  <2> DEFINE u == RestoreValues(s, r)
             w == RestoreAttrs(u, r)
  <2>1. u = [env |-> back(s.env), typed |-> typed2, penv |-> back(s.penv),
             shadowed |-> s.shadowed, exported |-> s.exported, readonly |-> s.readonly]
    <3>1. u = [s EXCEPT !.env = back(@), !.penv = back(@), !.typed = typed2]
      BY DEF RestoreValues
    <3> HIDE DEF back, typed2, u
    <3> QED BY <1>2, <3>1
  <2>2. w = [u EXCEPT !.exported = marks(@, "exported"), !.readonly = marks(@, "readonly")]
    BY DEF RestoreAttrs
  <2>3. t = [w EXCEPT !.shadowed = shadowed2]
    <3>1. t = [w EXCEPT !.shadowed =
                [n \in Names |-> IF n \in DOMAIN r.vars THEN Unset ELSE w.shadowed[n]]]
      BY DEF RestoreLocals
    <3> HIDE DEF u, w, t, back, typed2, marks
    <3>2. w.shadowed = s.shadowed
      BY <2>1, <2>2
    <3> QED BY <3>1, <3>2
  <2> HIDE DEF back, typed2, shadowed2, marks, u, w, t
  <2> QED BY <2>1, <2>2, <2>3
<1>4. \A n \in DOMAIN r.vars : r.vars[n].value \in Value
  BY <1>1 DEF SavedVars
<1>5. /\ back(s.env) \in [Names -> Value] /\ back(s.penv) \in [Names -> Value]
      /\ typed2 \in [Names -> Value] /\ shadowed2 \in [Names -> Value]
  BY <1>1, <1>2, <1>4 DEF Value
<1>6. marks(s.exported, "exported") \subseteq Names /\ marks(s.readonly, "readonly") \subseteq Names
  BY <1>1, <1>2
<1>7. t \in Tables
  BY <1>3, <1>5, <1>6 DEF Tables
<1>8. ASSUME NEW n \in DOMAIN r.vars
      PROVE  /\ t.env[n] = r.vars[n].value /\ t.penv[n] = r.vars[n].value
             /\ t.typed[n] = r.typed[n] /\ t.shadowed[n] = Unset
             /\ n \in t.exported <=> r.vars[n].attrs.exported
             /\ n \in t.readonly <=> r.vars[n].attrs.readonly
  <2>1. n \in Names /\ n \in DOMAIN r.typed
    BY <1>1
  <2> QED BY <1>3, <2>1
<1>9. ASSUME NEW n \in Names \ DOMAIN r.typed PROVE SameAt(s, t, n)
  <2>1. n \notin DOMAIN r.vars
    BY <1>1
  <2> QED BY <1>3, <2>1 DEF SameAt
<1>10. ASSUME NEW n \in Names \ DOMAIN r.vars
       PROVE  t.env[n] = s.env[n] /\ (n \in t.readonly <=> n \in s.readonly)
  BY <1>3
<1> QED BY <1>7, <1>8, <1>9, <1>10

\* What the end of a subshell puts back.
LEMMA ShellRestored ==
  ASSUME NEW s \in Tables, NEW saved \in Tables
  PROVE  LET t == RestoreShell(s, saved)
         IN  /\ t \in Tables /\ t.env = saved.env /\ t.typed = saved.typed
             /\ t.shadowed = saved.shadowed /\ t.exported = saved.exported
             /\ t.readonly = saved.readonly
             /\ \A n \in Names : t.penv[n] = IF saved.env[n] # Unset THEN saved.env[n]
                                              ELSE IF s.env[n] # Unset THEN Unset ELSE s.penv[n]
BY DEF RestoreShell, Tables, Value

-------------------------------------------------------------------------------
(* The invariant.  Its parts speak of any stack c of what is running, any     *)
(* scopes sc and tables s; level k is what c[k] saved, level Len(c) + 1 the   *)
(* tables.                                                                    *)

Functions(c) == {i \in DOMAIN c : c[i].kind = "function"}

\* A running function has a scope of its own, above those of its callers, ...
Placed(c, sc) ==
  \A i \in Functions(c) :
    /\ c[i].scope \in DOMAIN sc
    /\ \A j \in Functions(c) : i < j => c[i].scope < c[j].scope
\* ... and, unless a trap left one behind, every scope its function.
AllPlaced(c, sc) == \A k \in DOMAIN sc : \E i \in Functions(c) : c[i].scope = k

NoLocals(sc) == \A k \in DOMAIN sc : DOMAIN sc[k].vars = {}
NoPrefixes(c) == \A i \in DOMAIN c : c[i].kind # "prefix"

\* What c[i] does to n: a function has a local of that name, a temporary
\* assignment gives it a value.
Hides(c, sc, i, n) == c[i].kind = "function" /\ n \in DOMAIN sc[c[i].scope].vars
Gives(c, i, n) == c[i].kind = "prefix" /\ c[i].name = n

\* What is below level k does it; a function hid a value that was given.
Hidden(c, sc, n, k) == \E i \in 1 .. k - 1 : Hides(c, sc, i, n)
Given(c, n, k) == \E i \in 1 .. k - 1 : Gives(c, i, n)
HidGiven(c, sc, n, k) == \E i \in 1 .. k - 1 : Hides(c, sc, i, n) /\ Given(c, n, i)

\* The typed value, here and where it is saved, is that of the flat table or none.
TypedKept(c, sc, s) ==
  /\ \A n \in Names : s.typed[n] \in {Unset, s.env[n]}
  /\ \A k \in DOMAIN sc :
       /\ DOMAIN sc[k].typed = DOMAIN sc[k].vars
       /\ \A n \in DOMAIN sc[k].vars : sc[k].typed[n] \in {Unset, sc[k].vars[n].value}
  /\ \A i \in DOMAIN c :
       /\ c[i].kind = "prefix" => c[i].typed \in {Unset, c[i].value}
       /\ c[i].kind = "subshell" =>
            \A n \in Names : c[i].store.typed[n] \in {Unset, c[i].store.env[n]}

\* A table has a temporary value only where one is given below it.
ValuesClean(s, n) ==
  s.env[n] \notin Temporary /\ s.typed[n] \notin Temporary /\ s.penv[n] \notin Temporary
CleanTables(c, sc, s, n, k) ==
  /\ ~Given(c, n, k) => ValuesClean(s, n)
  /\ ~HidGiven(c, sc, n, k) => s.shadowed[n] \notin Temporary
CleanLevel(c, sc, n, k) ==
  /\ c[k].kind = "subshell" => CleanTables(c, sc, c[k].store, n, k)
  /\ ~Given(c, n, k) =>
       /\ Gives(c, k, n) => c[k].value \notin Temporary /\ c[k].typed \notin Temporary
       /\ Hides(c, sc, k, n) => /\ sc[c[k].scope].vars[n].value \notin Temporary
                                /\ sc[c[k].scope].typed[n] \notin Temporary
AllClean(c, sc, s) ==
  \A n \in Names : /\ CleanTables(c, sc, s, n, Len(c) + 1)
                   /\ \A k \in DOMAIN c : CleanLevel(c, sc, n, k)

\* The environment has the table's values of what nothing below the tables has
\* given or hidden, and what a function hid is in force only under a function.
Matches(s, n) == /\ n \in s.exported => s.penv[n] = s.env[n]
                 /\ s.env[n] = Unset => s.penv[n] = Unset
InEnvironment(c, sc, s) ==
  \A n \in Names :
    /\ ~Given(c, n, Len(c) + 1) /\ ~Hidden(c, sc, n, Len(c) + 1) => Matches(s, n)
    /\ ~Hidden(c, sc, n, Len(c) + 1) => s.shadowed[n] = Unset
    /\ \A k \in DOMAIN c :
         c[k].kind = "subshell" /\ ~Hidden(c, sc, n, k) => c[k].store.shadowed[n] = Unset

\* What a temporary assignment found exported is so above it, unless hidden.
ExportedAt(c, sc, n, k) ==
  /\ c[k].kind = "prefix" => n \in c[k].exported
  /\ c[k].kind = "subshell" => n \in c[k].store.exported
  /\ Hides(c, sc, k, n) => sc[c[k].scope].vars[n].attrs.exported
ExportsKept(c, sc, s) ==
  \A i \in DOMAIN c : c[i].kind = "prefix" =>
    \A n \in c[i].exported :
      /\ ~Hidden(c, sc, n, Len(c) + 1) => n \in s.exported
      /\ \A k \in DOMAIN c : i < k /\ ~Hidden(c, sc, n, k) => ExportedAt(c, sc, n, k)

Sound(c, sc, s) ==
  /\ s \in Tables /\ sc \in Seq(ScopeRecords) /\ c \in Seq(Entries)
  /\ Placed(c, sc)
  /\ ~Does("trap") => AllPlaced(c, sc)
  /\ ~Does("local") => NoLocals(sc)
  /\ ~(Does("prefix") \/ Does("eval")) => NoPrefixes(c)
  /\ ~(Does("unset") /\ Does("local")) => TypedKept(c, sc, s)
  /\ ~KeepsTemporaries => AllClean(c, sc, s)
  /\ ~MisleadsChildren => InEnvironment(c, sc, s)
  /\ ~MisleadsChildren => ExportsKept(c, sc, s)

FramesInv == Sound(control, scopes, sh) /\ error \in {"none", "return", "exit"}

-------------------------------------------------------------------------------
(* Stacks that are the same up to some level *)

\* A pending call that was made is the same entry otherwise.
SameEntry(e, f) ==
  /\ f.kind = e.kind
  /\ e.kind # "prefix" => f = e
  /\ f.name = e.name /\ f.value = e.value /\ f.typed = e.typed /\ f.exported = e.exported

Agree(c, sc, d, td, m) ==
  \A i \in 1 .. m : /\ SameEntry(c[i], d[i])
                    /\ c[i].kind = "function" => td[c[i].scope] = sc[c[i].scope]

\* Where the same names are given and hidden at each level up to m.
LEMMA SameBelow ==
  ASSUME NEW c, NEW sc, NEW d, NEW td, NEW m \in Nat, NEW n,
         \A k \in 1 .. m : /\ Hides(d, td, k, n) <=> Hides(c, sc, k, n)
                           /\ Gives(d, k, n) <=> Gives(c, k, n)
  PROVE  \A k \in 1 .. m + 1 : /\ Hidden(d, td, n, k) <=> Hidden(c, sc, n, k)
                               /\ Given(d, n, k) <=> Given(c, n, k)
                               /\ HidGiven(d, td, n, k) <=> HidGiven(c, sc, n, k)
<1>1. \A k \in 1 .. m + 1 : Given(d, n, k) <=> Given(c, n, k)
  BY DEF Given
<1>2. \A k \in 1 .. m + 1 : Hidden(d, td, n, k) <=> Hidden(c, sc, n, k)
  BY DEF Hidden
<1>3. \A k \in 1 .. m + 1 : HidGiven(d, td, n, k) <=> HidGiven(c, sc, n, k)
  BY <1>1 DEF HidGiven
<1> QED BY <1>1, <1>2, <1>3

LEMMA AgreeBelow ==
  ASSUME NEW c, NEW sc, NEW d, NEW td, NEW m \in Nat, Agree(c, sc, d, td, m), NEW n
  PROVE  /\ \A k \in 1 .. m : /\ Hides(d, td, k, n) <=> Hides(c, sc, k, n)
                              /\ Gives(d, k, n) <=> Gives(c, k, n)
         /\ \A k \in 1 .. m + 1 : /\ Hidden(d, td, n, k) <=> Hidden(c, sc, n, k)
                                  /\ Given(d, n, k) <=> Given(c, n, k)
                                  /\ HidGiven(d, td, n, k) <=> HidGiven(c, sc, n, k)
<1>1. \A k \in 1 .. m : /\ Hides(d, td, k, n) <=> Hides(c, sc, k, n)
                        /\ Gives(d, k, n) <=> Gives(c, k, n)
  BY DEF Agree, SameEntry, Hides, Gives
<1> QED BY <1>1, SameBelow

LEMMA AgreeLevels ==
  ASSUME NEW c, NEW sc, NEW d, NEW td, NEW m \in Nat, Agree(c, sc, d, td, m), NEW n, NEW k \in 1 .. m
  PROVE  /\ d[k].kind = c[k].kind
         /\ CleanLevel(d, td, n, k) <=> CleanLevel(c, sc, n, k)
         /\ ExportedAt(d, td, n, k) <=> ExportedAt(c, sc, n, k)
<1>1. /\ Hides(d, td, k, n) <=> Hides(c, sc, k, n)
      /\ Gives(d, k, n) <=> Gives(c, k, n)
      /\ Given(d, n, k) <=> Given(c, n, k)
      /\ HidGiven(d, td, n, k) <=> HidGiven(c, sc, n, k)
  BY AgreeBelow
<1>2. /\ d[k].kind = c[k].kind /\ d[k].value = c[k].value /\ d[k].typed = c[k].typed
      /\ d[k].exported = c[k].exported
      /\ c[k].kind = "subshell" => d[k].store = c[k].store
      /\ c[k].kind = "function" => td[d[k].scope] = sc[c[k].scope]
  <2>1. SameEntry(c[k], d[k]) /\ (c[k].kind = "function" => td[c[k].scope] = sc[c[k].scope])
    BY DEF Agree
  <2>2. c[k].kind = "subshell" \/ c[k].kind = "function" => d[k] = c[k]
    BY <2>1 DEF SameEntry
  <2> QED BY <2>1, <2>2 DEF SameEntry
<1>3. CleanTables(d, td, c[k].store, n, k) <=> CleanTables(c, sc, c[k].store, n, k)
  BY <1>1 DEF CleanTables
<1>4. Hides(c, sc, k, n) => c[k].kind = "function"
  BY DEF Hides
<1>5. CleanLevel(d, td, n, k) <=> CleanLevel(c, sc, n, k)
  <2>1. CASE c[k].kind = "subshell"
    <3>1. ~Gives(c, k, n) /\ ~Hides(c, sc, k, n)
      BY <2>1 DEF Gives, Hides
    <3> QED BY <1>1, <1>2, <1>3, <2>1, <3>1 DEF CleanLevel
  <2>2. CASE c[k].kind # "subshell"
    BY <1>1, <1>2, <1>4, <2>2 DEF CleanLevel
  <2> QED BY <2>1, <2>2
<1>6. ExportedAt(d, td, n, k) <=> ExportedAt(c, sc, n, k)
  <2>1. CASE Hides(c, sc, k, n)
    <3>1. td[d[k].scope] = sc[c[k].scope] /\ c[k].kind = "function"
      BY <1>2, <1>4, <2>1
    <3> QED BY <1>1, <1>2, <2>1, <3>1 DEF ExportedAt
  <2>2. CASE ~Hides(c, sc, k, n)
    BY <1>1, <1>2, <2>2 DEF ExportedAt
  <2> QED BY <2>1, <2>2
<1> QED BY <1>2, <1>5, <1>6

LEMMA NextLevel ==
  ASSUME NEW c, NEW sc, NEW n, NEW k \in Nat \ {0}
  PROVE  /\ Given(c, n, k + 1) <=> (Given(c, n, k) \/ Gives(c, k, n))
         /\ Hidden(c, sc, n, k + 1) <=> (Hidden(c, sc, n, k) \/ Hides(c, sc, k, n))
         /\ HidGiven(c, sc, n, k + 1) <=>
              (HidGiven(c, sc, n, k) \/ (Hides(c, sc, k, n) /\ Given(c, n, k)))
<1>1. 1 .. (k + 1) - 1 = (1 .. k - 1) \cup {k}
  OBVIOUS
<1>2. Given(c, n, k + 1) <=> (Given(c, n, k) \/ Gives(c, k, n))
  BY <1>1 DEF Given
<1>3. Hidden(c, sc, n, k + 1) <=> (Hidden(c, sc, n, k) \/ Hides(c, sc, k, n))
  BY <1>1 DEF Hidden
<1>4. HidGiven(c, sc, n, k + 1) <=>
        (HidGiven(c, sc, n, k) \/ (Hides(c, sc, k, n) /\ Given(c, n, k)))
  BY <1>1 DEF HidGiven
<1> QED BY <1>2, <1>3, <1>4

LEMMA PushIs ==
  ASSUME NEW R, NEW s \in Seq(R), NEW e \in R
  PROVE  /\ Append(s, e) \in Seq(R) /\ Len(Append(s, e)) = Len(s) + 1 /\ Len(s) \in Nat
         /\ DOMAIN s = 1 .. Len(s) /\ DOMAIN Append(s, e) = 1 .. Len(s) + 1
         /\ Append(s, e)[Len(s) + 1] = e /\ \A i \in 1 .. Len(s) : Append(s, e)[i] = s[i]
         /\ \A i \in 1 .. Len(s) : s[i] \in R
OBVIOUS

LEMMA PopIs ==
  ASSUME NEW R, NEW s \in Seq(R), s # <<>>
  PROVE  /\ Front(s) \in Seq(R) /\ Len(Front(s)) = Len(s) - 1 /\ Len(s) \in Nat \ {0}
         /\ DOMAIN s = 1 .. Len(s) /\ DOMAIN Front(s) = 1 .. Len(s) - 1
         /\ Last(s) = s[Len(s)] /\ \A i \in 1 .. Len(s) - 1 : Front(s)[i] = s[i]
         /\ \A i \in 1 .. Len(s) : s[i] \in R
<1>1. s = [i \in 1 .. Len(s) |-> s[i]] /\ Len(s) \in Nat \ {0}
  OBVIOUS
<1>2. Front(s) \in Seq(R) /\ Len(Front(s)) = Len(s) - 1
      /\ \A i \in 1 .. Len(s) - 1 : Front(s)[i] = s[i]
  BY <1>1 DEF Front
<1> QED BY <1>1, <1>2 DEF Last

-------------------------------------------------------------------------------
(* Commands that change the tables alone *)

LEMMA RelabelSound ==
  ASSUME NEW c, NEW sc, NEW s, Sound(c, sc, s), NEW d \in Seq(Entries),
         Len(d) = Len(c), \A i \in 1 .. Len(c) : SameEntry(c[i], d[i])
  PROVE  Sound(d, sc, s)
<1>1. c \in Seq(Entries) /\ Len(c) \in Nat /\ DOMAIN c = 1 .. Len(c) /\ DOMAIN d = 1 .. Len(c)
  BY DEF Sound
<1>2. Agree(c, sc, d, sc, Len(c))
  BY DEF Agree
<1>3. \A n : \A k \in 1 .. Len(c) + 1 : /\ Hidden(d, sc, n, k) <=> Hidden(c, sc, n, k)
                                        /\ Given(d, n, k) <=> Given(c, n, k)
                                        /\ HidGiven(d, sc, n, k) <=> HidGiven(c, sc, n, k)
  BY <1>1, <1>2, AgreeBelow
<1>4. \A n : \A k \in 1 .. Len(c) : /\ d[k].kind = c[k].kind
                                    /\ CleanLevel(d, sc, n, k) <=> CleanLevel(c, sc, n, k)
                                    /\ ExportedAt(d, sc, n, k) <=> ExportedAt(c, sc, n, k)
  BY <1>1, <1>2, AgreeLevels
<1>5. \A i \in 1 .. Len(c) : /\ d[i].kind = c[i].kind /\ (d[i].kind # "prefix" => d[i] = c[i])
                             /\ d[i].value = c[i].value /\ d[i].typed = c[i].typed
                             /\ d[i].exported = c[i].exported
  BY DEF SameEntry
<1>6. Functions(d) = Functions(c) /\ \A i \in Functions(c) : d[i].scope = c[i].scope
  BY <1>1, <1>5 DEF Functions
<1>7. Placed(d, sc)
  BY <1>6 DEF Sound, Placed
<1>8. ~Does("trap") => AllPlaced(d, sc)
  BY <1>6 DEF Sound, AllPlaced
<1>9. ~(Does("prefix") \/ Does("eval")) => NoPrefixes(d)
  BY <1>1, <1>5 DEF Sound, NoPrefixes
<1>10. ASSUME ~(Does("unset") /\ Does("local")) PROVE TypedKept(d, sc, s)
  <2>1. TypedKept(c, sc, s)
    BY <1>10 DEF Sound
  <2> QED BY <1>1, <1>5, <2>1 DEF TypedKept
<1>11. ASSUME ~KeepsTemporaries PROVE AllClean(d, sc, s)
  <2>1. AllClean(c, sc, s)
    BY <1>11 DEF Sound
  <2>2. \A n \in Names : CleanTables(d, sc, s, n, Len(c) + 1)
    BY <1>1, <1>3, <2>1 DEF AllClean, CleanTables
  <2> QED BY <1>1, <1>4, <2>1, <2>2 DEF AllClean
<1>12. ASSUME ~MisleadsChildren PROVE InEnvironment(d, sc, s)
  <2>1. InEnvironment(c, sc, s)
    BY <1>12 DEF Sound
  <2> QED BY <1>1, <1>3, <1>5, <2>1 DEF InEnvironment
<1>13. ASSUME ~MisleadsChildren PROVE ExportsKept(d, sc, s)
  <2>1. ExportsKept(c, sc, s)
    BY <1>13 DEF Sound
  <2> QED BY <1>1, <1>3, <1>4, <1>5, <2>1 DEF ExportsKept
<1> QED BY <1>7, <1>8, <1>9, <1>10, <1>11, <1>12, <1>13 DEF Sound

LEMMA TablesSound ==
  ASSUME NEW c, NEW sc, NEW s, Sound(c, sc, s), NEW n \in Names, NEW t, Touches(s, t, n),
         s.typed[n] \in {Unset, s.env[n]} => t.typed[n] \in {Unset, t.env[n]},
         ValuesClean(s, n) => ValuesClean(t, n), t.shadowed[n] = s.shadowed[n],
         ~MisleadsChildren => /\ Matches(s, n) => Matches(t, n)
                              /\ NoPrefixes(c) \/ (n \in s.exported => n \in t.exported)
  PROVE  Sound(c, sc, t)
<1>1. c \in Seq(Entries) /\ Len(c) \in Nat /\ DOMAIN c = 1 .. Len(c) /\ s \in Tables /\ t \in Tables
  BY DEF Sound, Touches
<1>2. \A m \in Names : m # n => SameAt(s, t, m)
  BY DEF Touches
<1>3. ASSUME ~(Does("unset") /\ Does("local")) PROVE TypedKept(c, sc, t)
  <2>1. TypedKept(c, sc, s)
    BY <1>3 DEF Sound
  <2>2. \A m \in Names : t.typed[m] \in {Unset, t.env[m]}
    BY <1>2, <2>1 DEF TypedKept, SameAt
  <2> QED BY <2>1, <2>2 DEF TypedKept
<1>4. ASSUME ~KeepsTemporaries PROVE AllClean(c, sc, t)
  <2>1. AllClean(c, sc, s)
    BY <1>4 DEF Sound
  <2>2. \A m \in Names : /\ ValuesClean(s, m) => ValuesClean(t, m)
                         /\ t.shadowed[m] = s.shadowed[m]
    BY <1>2 DEF SameAt, ValuesClean
  <2>3. \A m \in Names : CleanTables(c, sc, t, m, Len(c) + 1)
    BY <2>1, <2>2 DEF AllClean, CleanTables
  <2> QED BY <2>1, <2>3 DEF AllClean
<1>5. ASSUME ~MisleadsChildren PROVE InEnvironment(c, sc, t)
  <2>1. InEnvironment(c, sc, s)
    BY <1>5 DEF Sound
  <2>2. \A m \in Names : /\ Matches(s, m) => Matches(t, m)
                         /\ t.shadowed[m] = s.shadowed[m]
    BY <1>2, <1>5 DEF SameAt, Matches
  <2> QED BY <2>1, <2>2 DEF InEnvironment
<1>6. ASSUME ~MisleadsChildren PROVE ExportsKept(c, sc, t)
  <2>1. ExportsKept(c, sc, s)
    BY <1>6 DEF Sound
  <2>2. CASE NoPrefixes(c)
    BY <2>2 DEF NoPrefixes, ExportsKept
  <2>3. CASE n \in s.exported => n \in t.exported
    <3>1. s.exported \subseteq Names /\ \A m \in s.exported : m \in t.exported
      BY <1>1, <1>2, <2>3 DEF SameAt, Tables
    <3> QED BY <2>1, <3>1 DEF ExportsKept
  <2> QED BY <1>6, <2>2, <2>3
<1> QED BY <1>1, <1>3, <1>4, <1>5, <1>6 DEF Sound

LEMMA UnsetIsNone == Unset \notin Temporary /\ Unset \notin Values /\ Unset \in Value
BY TemporaryAssumption, UnsetAssumption DEF Value

LEMMA AssignSound ==
  ASSUME FramesInv, NEW n \in Names, NEW v \in Plain, Assign(n, v)
  PROVE  Sound(control', scopes', sh')
<1>1. Sound(control, scopes, sh) /\ sh \in Tables
  BY DEF FramesInv, Sound
<1>2. v \in Value /\ v \notin Temporary /\ v # Unset
  BY UnsetIsNone DEF Plain, Value
<1>3. control' = control /\ scopes' = scopes /\ sh' = AssignVar(sh, n, v)
  BY DEF Assign
<1>4. /\ Touches(sh, sh', n) /\ sh'.exported = sh.exported
      /\ sh'.shadowed[n] = sh.shadowed[n]
      /\ \/ SameAt(sh, sh', n)
         \/ /\ sh'.env[n] = v /\ sh'.typed[n] = v
            /\ sh'.penv[n] = IF n \in sh.exported THEN v ELSE sh.penv[n]
  BY <1>1, <1>2, <1>3, AssignTouches
<1>5. /\ sh.typed[n] \in {Unset, sh.env[n]} => sh'.typed[n] \in {Unset, sh'.env[n]}
      /\ ValuesClean(sh, n) => ValuesClean(sh', n)
      /\ Matches(sh, n) => Matches(sh', n)
  BY <1>2, <1>4 DEF SameAt, ValuesClean, Matches
<1> QED BY <1>1, <1>3, <1>4, <1>5, TablesSound

\* export n and readonly n.
LEMMA AttributeSound ==
  ASSUME FramesInv, NEW n \in Names, NEW v \in Plain \cup {Unset},
         Export(n, v) \/ Readonly(n, v)
  PROVE  Sound(control', scopes', sh')
<1>1. Sound(control, scopes, sh) /\ sh \in Tables
  BY DEF FramesInv, Sound
<1>2. v \in Value /\ v \notin Temporary
  BY UnsetIsNone DEF Plain, Value
<1> DEFINE u == GiveAttributeValue(sh, n, v)
<1>3. control' = control /\ scopes' = scopes
      /\ \/ sh' = [u EXCEPT !.exported = @ \cup {n}]
         \/ sh' = [u EXCEPT !.readonly = @ \cup {n}]
  BY DEF Export, Readonly
<1>4. /\ Touches(sh, u, n) /\ u.exported = sh.exported /\ u.readonly = sh.readonly
      /\ u.shadowed = sh.shadowed
      /\ \/ u = sh /\ sh.env[n] = Unset /\ sh.penv[n] = Unset
         \/ /\ u.env[n] = u.penv[n] /\ u.env[n] # Unset
            /\ \/ v # Unset /\ u.env[n] = v /\ u.typed[n] = v
               \/ /\ v = Unset /\ u.typed[n] = sh.typed[n]
                  /\ \/ u.env[n] = sh.env[n]
                     \/ sh.env[n] = Unset /\ u.env[n] = sh.penv[n]
  BY <1>1, <1>2, AttributeTouches
<1> HIDE DEF u
<1>5. u \in Tables
  BY <1>4 DEF Touches
<1>6. /\ sh' \in Tables /\ sh'.env = u.env /\ sh'.typed = u.typed /\ sh'.penv = u.penv
      /\ sh'.shadowed = u.shadowed
      /\ n \in sh.exported => n \in sh'.exported
      /\ \A m \in Names \ {n} : SameAt(u, sh', m)
  BY <1>3, <1>4, <1>5 DEF Tables, SameAt
<1>7. Touches(sh, sh', n)
  BY <1>4, <1>6 DEF Touches, SameAt
<1>8. /\ sh.typed[n] \in {Unset, sh.env[n]} => sh'.typed[n] \in {Unset, sh'.env[n]}
      /\ ValuesClean(sh, n) => ValuesClean(sh', n)
      /\ Matches(sh', n)
  BY <1>2, <1>4, <1>6 DEF ValuesClean, Matches
<1> QED BY <1>1, <1>3, <1>4, <1>6, <1>7, <1>8, TablesSound

LEMMA UnexportSound ==
  ASSUME FramesInv, NEW n \in Names, Unexport(n)
  PROVE  Sound(control', scopes', sh')
<1>1. Sound(control, scopes, sh) /\ sh \in Tables
  BY DEF FramesInv, Sound
<1>2. /\ control' = control /\ scopes' = scopes /\ Does("export-n")
      /\ sh' = [sh EXCEPT !.penv[n] = Unset, !.exported = @ \ {n}]
  BY DEF Unexport
<1>3. /\ Touches(sh, sh', n) /\ sh'.env = sh.env /\ sh'.typed = sh.typed
      /\ sh'.penv[n] = Unset /\ sh'.shadowed = sh.shadowed /\ n \notin sh'.exported
  BY <1>1, <1>2, UnsetIsNone DEF Touches, SameAt, Tables
<1>4. ~MisleadsChildren => NoPrefixes(control)
  BY <1>1, <1>2 DEF MisleadsChildren, Sound
<1>5. ValuesClean(sh, n) => ValuesClean(sh', n)
  BY <1>3, UnsetIsNone DEF ValuesClean
<1>6. Matches(sh', n)
  BY <1>3 DEF Matches
<1> QED BY <1>1, <1>2, <1>3, <1>4, <1>5, <1>6, TablesSound

\* The innermost function is that of the last scope, in a script whose traps do
\* not leave scopes behind.
LEMMA InnermostIs ==
  ASSUME NEW c \in Seq(Entries), NEW sc \in Seq(ScopeRecords), Len(sc) > 0,
         Placed(c, sc), AllPlaced(c, sc)
  PROVE  \E i \in Functions(c) :
           /\ c[i].scope = Len(sc) /\ \A j \in Functions(c) : j <= i
           /\ \A j \in Functions(c) : c[j].scope = Len(sc) => j = i
           /\ Max({0} \cup {j \in DOMAIN c : c[j].kind = "function"}) = i
<1>1. DOMAIN sc = 1 .. Len(sc) /\ Len(sc) \in Nat /\ DOMAIN c = 1 .. Len(c) /\ Len(c) \in Nat
  OBVIOUS
<1>2. PICK i \in Functions(c) : c[i].scope = Len(sc)
  <2>1. Len(sc) \in DOMAIN sc
    BY <1>1
  <2> QED BY <2>1, Zenon DEF AllPlaced
<1>3. i \in Nat /\ i > 0 /\ \A j \in Functions(c) : j \in Nat /\ c[j].scope \in 1 .. Len(sc)
  BY <1>1 DEF Functions, Placed
<1>4. \A j \in Functions(c) : /\ i < j => c[i].scope < c[j].scope
                              /\ j < i => c[j].scope < c[i].scope
  BY DEF Placed
<1>5. \A j \in Functions(c) : j <= i /\ (c[j].scope = Len(sc) => j = i)
  <2> SUFFICES ASSUME NEW j \in Functions(c) PROVE j <= i /\ (c[j].scope = Len(sc) => j = i)
    OBVIOUS
  <2>1. j \in Nat /\ c[j].scope \in 1 .. Len(sc)
    BY <1>3
  <2>2. ~(i < j)
    BY <1>1, <1>2, <1>4, <2>1
  <2>3. j < i => c[j].scope # Len(sc)
    BY <1>1, <1>2, <1>4, <2>1
  <2> QED BY <1>3, <2>1, <2>2, <2>3
<1>6. Max({0} \cup Functions(c)) = i
  <2> DEFINE S == {0} \cup Functions(c)
  <2>1. \A y \in S : y \in Nat
    BY <1>3
  <2>2. S \in SUBSET Nat /\ i \in S
    BY <2>1
  <2>3. \A y \in S : i >= y
    BY <1>3, <1>5
  <2> HIDE DEF S
  <2>4. Max(S) = i
    BY <2>2, <2>3, MaxIs
  <2> QED BY <2>4 DEF S
<1> QED BY <1>2, <1>5, <1>6 DEF Functions

\* The innermost frame that has a local of this name.
LEMMA InnermostVisible ==
  ASSUME scopes \in Seq(ScopeRecords), NEW n, VisibleScopes(n) # {}
  PROVE  /\ Max(VisibleScopes(n)) \in DOMAIN scopes
         /\ n \in DOMAIN scopes[Max(VisibleScopes(n))].vars
<1>1. DOMAIN scopes = 1 .. Len(scopes) /\ Len(scopes) \in Nat
  OBVIOUS
<1>2. VisibleScopes(n) \in SUBSET Nat /\ \A y \in VisibleScopes(n) : y <= Len(scopes)
  BY <1>1 DEF VisibleScopes
<1>3. Max(VisibleScopes(n)) \in VisibleScopes(n)
  BY <1>1, <1>2, MaxExists
<1> QED BY <1>3 DEF VisibleScopes

LEMMA UnsetSound ==
  ASSUME FramesInv, NEW n \in Names, UnsetVar(n)
  PROVE  Sound(control', scopes', sh')
<1>1. Sound(control, scopes, sh) /\ sh \in Tables /\ scopes \in Seq(ScopeRecords)
  BY DEF FramesInv, Sound
<1>2. control' = control /\ Does("unset")
  BY DEF UnsetVar
<1> DEFINE i == Max(VisibleScopes(n))
           saved == scopes[i].vars[n]
<1>3. CASE /\ VisibleScopes(n) # {} /\ i < FunctionDepth
           /\ sh' = SetAttrs(RestoreVar(sh, n, saved.value), n, saved.attrs)
           /\ scopes' = [scopes EXCEPT ![i].vars = Without(@, n)]
  <2>1. i \in DOMAIN scopes /\ n \in DOMAIN scopes[i].vars
    BY <1>1, <1>3, InnermostVisible
  <2>2. scopes[i] \in ScopeRecords /\ DOMAIN scopes = 1 .. Len(scopes)
    BY <1>1, <2>1
  <2>3. saved \in SavedVars
    BY <2>1, <2>2, ScopeHas
  <2>4. saved.value \in Value /\ saved.attrs \in Marks
    BY <2>3 DEF SavedVars
  <2> DEFINE q == [scopes[i] EXCEPT !.vars = Without(@, n)]
  <2>5. q \in ScopeRecords
    BY <2>2, WithoutTouches DEF ScopeTouches
  <2>6. scopes' = [scopes EXCEPT ![i] = q]
    BY <1>3
  <2> HIDE DEF i, saved, q
  <2>7. scopes' \in Seq(ScopeRecords) /\ DOMAIN scopes' = DOMAIN scopes
    BY <1>1, <2>1, <2>2, <2>5, <2>6, ExceptSeq
  <2>8. sh' \in Tables
    <3>1. RestoreVar(sh, n, saved.value) \in Tables
      BY <1>1, <2>4, RestoreTouches DEF Touches
    <3> QED BY <1>3, <2>4, <3>1, SetAttrsTouches DEF Touches
  <2>9. Does("local")
    BY <1>1, <2>1 DEF Sound, NoLocals
  <2>10. KeepsTemporaries /\ MisleadsChildren
    BY <1>2, <2>9 DEF KeepsTemporaries, MisleadsChildren
  <2>11. Placed(control, scopes') /\ (~Does("trap") => AllPlaced(control, scopes'))
    BY <1>1, <2>7 DEF Sound, Placed, AllPlaced
  <2> QED BY <1>1, <1>2, <2>7, <2>8, <2>9, <2>10, <2>11 DEF Sound
<1>4. CASE /\ scopes' = scopes
           /\ sh' = IF n \in sh.readonly THEN [sh EXCEPT !.typed[n] = Unset]
                    ELSE [RestoreVar(sh, n, Unset) EXCEPT !.typed[n] = Unset,
                                                          !.exported = @ \ {n}]
  <2>1. CASE n \in sh.readonly
    <3>1. sh' = [sh EXCEPT !.typed[n] = Unset]
      BY <1>4, <2>1
    <3>2. /\ Touches(sh, sh', n) /\ sh'.env = sh.env /\ sh'.typed[n] = Unset
          /\ sh'.penv = sh.penv /\ sh'.shadowed = sh.shadowed /\ sh'.exported = sh.exported
      BY <1>1, <3>1, UnsetIsNone DEF Touches, SameAt, Tables
    <3>3. ValuesClean(sh, n) => ValuesClean(sh', n)
      BY <3>2, UnsetIsNone DEF ValuesClean
    <3>4. Matches(sh, n) => Matches(sh', n)
      BY <3>2 DEF Matches
    <3> QED BY <1>1, <1>2, <1>4, <3>2, <3>3, <3>4, TablesSound
  <2>2. CASE n \notin sh.readonly
    <3> DEFINE u == RestoreVar(sh, n, Unset)
    <3>1. sh' = [u EXCEPT !.typed[n] = Unset, !.exported = @ \ {n}]
      BY <1>4, <2>2
    <3>2. /\ Touches(sh, u, n) /\ u.exported = sh.exported /\ u.shadowed = sh.shadowed
          /\ u.env[n] = Unset /\ u.penv[n] = Unset
      BY <1>1, UnsetIsNone, RestoreTouches
    <3> HIDE DEF u
    <3>3. u \in Tables
      BY <3>2 DEF Touches
    <3>4. /\ sh' \in Tables /\ sh'.env = u.env /\ sh'.penv = u.penv /\ sh'.typed[n] = Unset
          /\ sh'.shadowed = u.shadowed /\ \A m \in Names \ {n} : SameAt(u, sh', m)
      BY <3>1, <3>3, UnsetIsNone DEF SameAt, Tables
    <3>5. Touches(sh, sh', n)
      BY <3>2, <3>4 DEF Touches, SameAt
    <3>6. ~MisleadsChildren => NoPrefixes(control)
      BY <1>1, <1>2 DEF MisleadsChildren, Sound
    <3>7. ValuesClean(sh', n) /\ Matches(sh', n)
      BY <3>2, <3>4, UnsetIsNone DEF ValuesClean, Matches
    <3> QED BY <1>1, <1>2, <1>4, <3>2, <3>4, <3>5, <3>6, <3>7, TablesSound
  <2> QED BY <2>1, <2>2
<1> QED BY <1>3, <1>4 DEF UnsetVar

\* declare -g behind a local: the saved value is a plain one.
LEMMA GlobalScopeSound ==
  ASSUME NEW c, NEW sc, NEW s, Sound(c, sc, s), Does("global"),
         NEW i \in DOMAIN sc, NEW n \in DOMAIN sc[i].vars, NEW v \in Plain
  PROVE  Sound(c, [sc EXCEPT ![i] = SetSaved(@, n, v)], s)
<1>1. /\ c \in Seq(Entries) /\ Len(c) \in Nat /\ DOMAIN c = 1 .. Len(c) /\ sc \in Seq(ScopeRecords)
      /\ Placed(c, sc) /\ DOMAIN sc = 1 .. Len(sc) /\ sc[i] \in ScopeRecords
  BY DEF Sound
<1>2. v \in Value /\ v \notin Temporary
  BY DEF Plain, Value
<1> DEFINE q == SetSaved(sc[i], n, v)
           td == [sc EXCEPT ![i] = SetSaved(@, n, v)]
<1>3. /\ q \in ScopeRecords /\ \A m \in Names \ {n} : ScopeSameAt(sc[i], q, m)
      /\ DOMAIN q.vars = DOMAIN sc[i].vars /\ DOMAIN q.typed = DOMAIN sc[i].typed
      /\ q.vars[n].value = v /\ q.vars[n].attrs = sc[i].vars[n].attrs /\ q.typed[n] = v
  BY <1>1, <1>2, GlobalTouches DEF ScopeTouches
<1>4. td = [sc EXCEPT ![i] = q]
  OBVIOUS
<1> HIDE DEF q, td
<1>5. /\ td \in Seq(ScopeRecords) /\ DOMAIN td = DOMAIN sc
      /\ \A k \in DOMAIN sc : td[k] = IF k = i THEN q ELSE sc[k]
  BY <1>1, <1>3, <1>4, ExceptSeq
<1>6. \A k \in DOMAIN sc : DOMAIN td[k].vars = DOMAIN sc[k].vars
                           /\ DOMAIN td[k].typed = DOMAIN sc[k].typed
  BY <1>3, <1>5
<1>7. \A k \in DOMAIN sc : \A m \in DOMAIN sc[k].vars : m \in Names
  <2>1. \A k \in DOMAIN sc : sc[k] \in ScopeRecords
    BY <1>1
  <2> QED BY <2>1, ScopeHas
<1>8. \A k \in DOMAIN sc : \A m \in DOMAIN sc[k].vars :
        \/ td[k].vars[m] = sc[k].vars[m] /\ td[k].typed[m] = sc[k].typed[m]
        \/ td[k].vars[m].value = v /\ td[k].typed[m] = v
  BY <1>3, <1>5, <1>7 DEF ScopeSameAt
<1>9. Placed(c, td)
  BY <1>1, <1>5 DEF Placed
<1>10. ~Does("trap") => AllPlaced(c, td)
  BY <1>5 DEF Sound, AllPlaced
<1>11. ~Does("local") => NoLocals(td)
  BY <1>5, <1>6 DEF Sound, NoLocals
<1>12. ASSUME ~(Does("unset") /\ Does("local")) PROVE TypedKept(c, td, s)
  <2>1. TypedKept(c, sc, s)
    BY <1>12 DEF Sound
  <2>2. \A k \in DOMAIN td :
          /\ DOMAIN td[k].typed = DOMAIN td[k].vars
          /\ \A m \in DOMAIN td[k].vars : td[k].typed[m] \in {Unset, td[k].vars[m].value}
    BY <1>5, <1>6, <1>8, <2>1 DEF TypedKept
  <2> QED BY <2>1, <2>2 DEF TypedKept
<1>13. ASSUME ~KeepsTemporaries PROVE AllClean(c, td, s)
  <2>1. AllClean(c, sc, s)
    BY <1>13 DEF Sound
  <2>2. \A k \in 1 .. Len(c) : c[k].kind = "function" => c[k].scope \in DOMAIN sc
    BY <1>1 DEF Placed, Functions
  <2>3. \A m \in Names : \A k \in 1 .. Len(c) : Hides(c, td, k, m) <=> Hides(c, sc, k, m)
    BY <1>6, <2>2 DEF Hides
  <2>4. \A m \in Names : \A k \in 1 .. Len(c) + 1 : HidGiven(c, td, m, k) <=> HidGiven(c, sc, m, k)
    BY <1>1, <2>3, SameBelow
  <2>5. \A m \in Names : CleanTables(c, td, s, m, Len(c) + 1)
    BY <1>1, <2>1, <2>4 DEF AllClean, CleanTables
  <2>6. ASSUME NEW m \in Names, NEW k \in DOMAIN c PROVE CleanLevel(c, td, m, k)
    <3>1. CleanLevel(c, sc, m, k)
      BY <2>1 DEF AllClean
    <3>2. c[k].kind = "subshell" => CleanTables(c, td, c[k].store, m, k)
      BY <1>1, <2>4, <3>1 DEF CleanLevel, CleanTables
    <3>3. ASSUME ~Given(c, m, k), Hides(c, td, k, m)
          PROVE  td[c[k].scope].vars[m].value \notin Temporary
                 /\ td[c[k].scope].typed[m] \notin Temporary
      <4>1. Hides(c, sc, k, m) /\ c[k].scope \in DOMAIN sc /\ m \in DOMAIN sc[c[k].scope].vars
        BY <1>1, <2>2, <2>3, <3>3 DEF Hides
      <4>2. sc[c[k].scope].vars[m].value \notin Temporary
            /\ sc[c[k].scope].typed[m] \notin Temporary
        BY <3>1, <3>3, <4>1 DEF CleanLevel
      <4> QED BY <1>2, <1>8, <4>1, <4>2
    <3> QED BY <3>1, <3>2, <3>3 DEF CleanLevel
  <2> QED BY <2>5, <2>6 DEF AllClean
<1>14. MisleadsChildren
  BY DEF MisleadsChildren
<1>15. Sound(c, td, s)
  BY <1>5, <1>9, <1>10, <1>11, <1>12, <1>13, <1>14 DEF Sound
<1> QED BY <1>15 DEF td

LEMMA DeclareGlobalSound ==
  ASSUME FramesInv, NEW n \in Names, NEW v \in Plain, DeclareGlobal(n, v)
  PROVE  Sound(control', scopes', sh')
<1>1. Sound(control, scopes, sh) /\ sh \in Tables /\ scopes \in Seq(ScopeRecords)
  BY DEF FramesInv, Sound
<1>2. control' = control /\ Does("global") /\ MisleadsChildren
  BY DEF DeclareGlobal, MisleadsChildren
<1>3. v \in Value /\ v \notin Temporary
  BY DEF Plain, Value
<1> DEFINE i == Max(VisibleScopes(n))
<1>4. CASE /\ scopes' = scopes
           /\ sh' = IF n \in sh.readonly THEN sh ELSE [sh EXCEPT !.env[n] = v, !.typed[n] = v]
  <2>1. Touches(sh, sh', n) /\ sh'.shadowed = sh.shadowed
        /\ \/ sh' = sh
           \/ sh'.env[n] = v /\ sh'.typed[n] = v /\ sh'.penv = sh.penv
    BY <1>1, <1>3, <1>4 DEF Touches, SameAt, Tables
  <2>2. /\ sh.typed[n] \in {Unset, sh.env[n]} => sh'.typed[n] \in {Unset, sh'.env[n]}
        /\ ValuesClean(sh, n) => ValuesClean(sh', n)
    BY <1>3, <2>1 DEF ValuesClean
  <2> QED BY <1>1, <1>2, <1>4, <2>1, <2>2, TablesSound
<1>5. CASE /\ VisibleScopes(n) # {}
           /\ scopes' = IF scopes[i].vars[n].attrs.readonly THEN scopes
                        ELSE [scopes EXCEPT ![i] = SetSaved(@, n, v)]
           /\ sh' = [sh EXCEPT !.penv[n] = sh.env[n]]
  <2>1. i \in DOMAIN scopes /\ n \in DOMAIN scopes[i].vars
    BY <1>1, <1>5, InnermostVisible
  <2> HIDE DEF i
  <2>2. Sound(control, scopes', sh)
    BY <1>1, <1>2, <1>5, <2>1, GlobalScopeSound
  <2>3. Touches(sh, sh', n) /\ sh'.shadowed = sh.shadowed
        /\ sh'.env = sh.env /\ sh'.typed = sh.typed /\ sh'.penv[n] = sh.env[n]
    BY <1>1, <1>5 DEF Touches, SameAt, Tables
  <2>4. ValuesClean(sh, n) => ValuesClean(sh', n)
    BY <2>3 DEF ValuesClean
  <2> QED BY <1>2, <2>2, <2>3, <2>4, TablesSound
<1> QED BY <1>4, <1>5 DEF DeclareGlobal

-------------------------------------------------------------------------------
(* local: what it saves is what the tables have, and is hidden from then on. *)

LEMMA DeclareLocalTables ==
  ASSUME FramesInv, NEW n \in Names, NEW v \in Plain \cup {Unset}, DeclareLocal(n, v)
  PROVE  /\ Touches(sh, sh', n) /\ sh'.typed[n] \in {Unset, sh'.env[n]}
         /\ ValuesClean(sh, n) => ValuesClean(sh', n)
         /\ sh'.shadowed[n] \in {sh.shadowed[n], sh.env[n]}
<1>1. sh \in Tables /\ v \in Value /\ v \notin Temporary
  BY UnsetIsNone DEF FramesInv, Sound, Plain, Value
<1> DEFINE fresh == FreshLocal(sh, n)
<1>2. sh' = IF v = Unset THEN fresh ELSE [fresh EXCEPT !.env[n] = v, !.typed[n] = v]
  BY DEF DeclareLocal
<1>3. /\ Touches(sh, fresh, n) /\ fresh.env[n] = Unset /\ fresh.typed[n] = Unset
      /\ fresh.penv[n] = sh.penv[n] /\ fresh.shadowed[n] \in {sh.shadowed[n], sh.env[n]}
  BY <1>1, FreshTouches
<1> HIDE DEF fresh
<1>4. fresh \in Tables
  BY <1>3 DEF Touches
<1>5. /\ sh' \in Tables /\ \A m \in Names \ {n} : SameAt(fresh, sh', m)
      /\ sh'.penv = fresh.penv /\ sh'.shadowed = fresh.shadowed
      /\ sh'.env[n] = v /\ sh'.typed[n] = v
  BY <1>1, <1>2, <1>3, <1>4 DEF Tables, SameAt
<1>6. Touches(sh, sh', n)
  BY <1>3, <1>5 DEF Touches, SameAt
<1>7. ValuesClean(sh, n) => ValuesClean(sh', n)
  BY <1>1, <1>3, <1>5 DEF ValuesClean
<1> QED BY <1>3, <1>5, <1>6, <1>7

\* Where the frame of a local is, and which names its function hides.
LEMMA DeclareLocalScope ==
  ASSUME FramesInv, NEW n \in Names, NEW v \in Plain \cup {Unset}, DeclareLocal(n, v)
  PROVE  LET k == Len(scopes)
         IN  /\ k \in DOMAIN scopes /\ scopes[k] \in ScopeRecords
             /\ scopes' \in Seq(ScopeRecords) /\ DOMAIN scopes' = DOMAIN scopes
             /\ \A j \in DOMAIN scopes :
                  scopes'[j] = IF j = k THEN SaveLocal(scopes[k], sh, n) ELSE scopes[j]
<1> DEFINE k == Len(scopes)
<1>1. scopes \in Seq(ScopeRecords) /\ sh \in Tables /\ k > 0 /\ k \in Nat
  BY DEF FramesInv, Sound, DeclareLocal, FunctionDepth
<1>2. k \in 1 .. Len(scopes) /\ DOMAIN scopes = 1 .. Len(scopes)
  BY <1>1
<1>3. scopes[k] \in ScopeRecords
  BY <1>1, <1>2
<1>4. SaveLocal(scopes[k], sh, n) \in ScopeRecords
  BY <1>1, <1>3, SaveTouches DEF ScopeTouches
<1>5. scopes' = [scopes EXCEPT ![k] = SaveLocal(scopes[k], sh, n)]
  BY DEF DeclareLocal, CurrentScope, FunctionDepth
<1> HIDE DEF k
<1>6. /\ scopes' \in Seq(ScopeRecords) /\ DOMAIN scopes' = DOMAIN scopes
      /\ \A j \in DOMAIN scopes :
           scopes'[j] = IF j = k THEN SaveLocal(scopes[k], sh, n) ELSE scopes[j]
  BY <1>1, <1>2, <1>4, <1>5, ExceptSeq
<1> QED BY <1>2, <1>3, <1>6 DEF k

\* In a script without such traps: the function, alone, is above all others, and
\* nothing above it gives n a value unless the script may.
LEMMA DeclareLocalHides ==
  ASSUME FramesInv, NEW n \in Names, NEW v \in Plain \cup {Unset}, DeclareLocal(n, v),
         ~Does("trap")
  PROVE  \E i \in DOMAIN control :
           /\ control[i].kind = "function" /\ control[i].scope = Len(scopes)
           /\ \A j \in Functions(control) : j <= i
           /\ \A m : \A j \in DOMAIN control :
                Hides(control, scopes', j, m) <=> Hides(control, scopes, j, m) \/ (m = n /\ j = i)
           /\ ~Does("local-in-eval") /\ ~Given(control, n, i) => ~Given(control, n, Len(control) + 1)
<1> DEFINE k == Len(scopes)
<1>1. /\ scopes \in Seq(ScopeRecords) /\ sh \in Tables /\ k > 0 /\ k \in Nat
      /\ control \in Seq(Entries) /\ DOMAIN control = 1 .. Len(control) /\ Len(control) \in Nat
      /\ Placed(control, scopes) /\ AllPlaced(control, scopes)
  BY DEF FramesInv, Sound, DeclareLocal, FunctionDepth
<1>2. PICK i \in Functions(control) :
        /\ control[i].scope = k /\ \A j \in Functions(control) : j <= i
        /\ \A j \in Functions(control) : control[j].scope = k => j = i
        /\ Max({0} \cup {j \in DOMAIN control : control[j].kind = "function"}) = i
  BY <1>1, InnermostIs
<1>3. i \in DOMAIN control /\ control[i].kind = "function"
  BY DEF Functions
<1>4. InnermostFunction = i
  BY <1>2 DEF InnermostFunction, Kind
<1> HIDE DEF k
<1>5. /\ k \in DOMAIN scopes /\ scopes[k] \in ScopeRecords /\ DOMAIN scopes' = DOMAIN scopes
      /\ \A j \in DOMAIN scopes :
           scopes'[j] = IF j = k THEN SaveLocal(scopes[k], sh, n) ELSE scopes[j]
  BY DeclareLocalScope DEF k
<1> DEFINE q == SaveLocal(scopes[k], sh, n)
<1>6. DOMAIN q.vars = DOMAIN scopes[k].vars \cup {n}
  BY <1>1, <1>5, SaveTouches
<1> HIDE DEF q
<1>7. ASSUME NEW m, NEW j \in DOMAIN control
      PROVE  Hides(control, scopes', j, m) <=> Hides(control, scopes, j, m) \/ (m = n /\ j = i)
  <2>1. CASE j = i
    BY <1>2, <1>3, <1>5, <1>6, <2>1 DEF Hides, q
  <2>2. CASE j # i
    <3>1. control[j].kind = "function" => control[j].scope \in DOMAIN scopes /\ control[j].scope # k
      BY <1>1, <1>2, <2>2 DEF Placed, Functions
    <3> QED BY <1>5, <2>2, <3>1 DEF Hides
  <2> QED BY <2>1, <2>2
<1>8. ASSUME ~Does("local-in-eval"), ~Given(control, n, i)
      PROVE  ~Given(control, n, Len(control) + 1)
  <2>1. \A j \in i + 1 .. Len(control) : ~Gives(control, j, n)
    BY <1>4, <1>8 DEF DeclareLocal, Kind, Gives
  <2>2. ~Gives(control, i, n)
    BY <1>3 DEF Gives
  <2>3. \A j \in 1 .. i - 1 : ~Gives(control, j, n)
    BY <1>8 DEF Given
  <2>4. \A j \in 1 .. Len(control) : ~Gives(control, j, n)
    <3> SUFFICES ASSUME NEW j \in 1 .. Len(control) PROVE ~Gives(control, j, n)
      OBVIOUS
    <3>1. j \in 1 .. i - 1 \/ j = i \/ j \in i + 1 .. Len(control)
      BY <1>1, <1>3
    <3> QED BY <2>1, <2>2, <2>3, <3>1
  <2> QED BY <1>1, <2>4 DEF Given
<1>9. \A m : \A j \in DOMAIN control :
        Hides(control, scopes', j, m) <=> Hides(control, scopes, j, m) \/ (m = n /\ j = i)
  BY <1>7
<1>10. ~Does("local-in-eval") /\ ~Given(control, n, i) => ~Given(control, n, Len(control) + 1)
  BY <1>8
<1>11. control[i].scope = Len(scopes) /\ \A j \in Functions(control) : j <= i
  BY <1>2 DEF k
<1> QED BY <1>3, <1>9, <1>10, <1>11, Zenon

\* What a scope has after local n.
LEMMA SaveHas ==
  ASSUME NEW r \in ScopeRecords, NEW s \in Tables, NEW n \in Names, NEW q, q = SaveLocal(r, s, n)
  PROVE  /\ DOMAIN q.vars = DOMAIN r.vars \cup {n}
         /\ \A m \in DOMAIN r.vars : q.vars[m] = r.vars[m] /\ q.typed[m] = r.typed[m]
         /\ DOMAIN r.typed = DOMAIN r.vars => DOMAIN q.typed = DOMAIN q.vars
         /\ n \notin DOMAIN r.vars => q.vars[n].value = s.env[n] /\ q.typed[n] = s.typed[n]
         /\ n \notin DOMAIN r.vars => (q.vars[n].attrs.exported <=> n \in s.exported)
<1>1. DOMAIN r.vars \subseteq DOMAIN r.typed
  BY ScopeHas
<1>2. CASE n \in DOMAIN r.vars
  <2>1. q = r
    BY <1>2 DEF SaveLocal
  <2> QED BY <1>2, <2>1
<1>3. CASE n \notin DOMAIN r.vars
  <2> DEFINE saved == [value |-> s.env[n], attrs |-> Attrs(s, n)]
             vars2 == With(r.vars, n, saved)
             typed2 == With(r.typed, n, s.typed[n])
  <2>1. SaveLocal(r, s, n) = [vars |-> vars2, typed |-> typed2]
    BY <1>3 DEF SaveLocal
  <2>2. /\ vars2[n] = saved /\ DOMAIN vars2 = DOMAIN r.vars \cup {n}
        /\ \A m \in DOMAIN r.vars : m # n => vars2[m] = r.vars[m]
        /\ typed2[n] = s.typed[n] /\ DOMAIN typed2 = DOMAIN r.typed \cup {n}
        /\ \A m \in DOMAIN r.typed : m # n => typed2[m] = r.typed[m]
    <3> HIDE DEF saved
    <3> QED BY DEF With
  <2>3. saved.value = s.env[n] /\ (saved.attrs.exported <=> n \in s.exported)
    BY AttrsAre
  <2> HIDE DEF saved, vars2, typed2
  <2>4. q.vars = vars2 /\ q.typed = typed2
    BY <2>1
  <2> QED BY <1>1, <1>3, <2>1, <2>2, <2>3, <2>4
<1> QED BY <1>2, <1>3

LEMMA DeclareLocalSaved ==
  ASSUME FramesInv, NEW n \in Names, NEW v \in Plain \cup {Unset}, DeclareLocal(n, v)
  PROVE  LET r == scopes[Len(scopes)]
             q == scopes'[Len(scopes)]
         IN  /\ DOMAIN q.vars = DOMAIN r.vars \cup {n}
             /\ \A m \in DOMAIN r.vars : q.vars[m] = r.vars[m] /\ q.typed[m] = r.typed[m]
             /\ DOMAIN r.typed = DOMAIN r.vars => DOMAIN q.typed = DOMAIN q.vars
             /\ n \notin DOMAIN r.vars => q.vars[n].value = sh.env[n] /\ q.typed[n] = sh.typed[n]
             /\ n \notin DOMAIN r.vars => (q.vars[n].attrs.exported <=> n \in sh.exported)
<1> DEFINE r == scopes[Len(scopes)]
           q == scopes'[Len(scopes)]
<1>1. sh \in Tables /\ r \in ScopeRecords /\ q = SaveLocal(r, sh, n)
  BY DeclareLocalScope DEF FramesInv, Sound
<1> HIDE DEF r, q
<1>2. /\ DOMAIN q.vars = DOMAIN r.vars \cup {n}
      /\ \A m \in DOMAIN r.vars : q.vars[m] = r.vars[m] /\ q.typed[m] = r.typed[m]
      /\ DOMAIN r.typed = DOMAIN r.vars => DOMAIN q.typed = DOMAIN q.vars
      /\ n \notin DOMAIN r.vars => q.vars[n].value = sh.env[n] /\ q.typed[n] = sh.typed[n]
      /\ n \notin DOMAIN r.vars => (q.vars[n].attrs.exported <=> n \in sh.exported)
  BY <1>1, SaveHas
<1> QED BY <1>2 DEF r, q

LEMMA DeclareLocalClean ==
  ASSUME FramesInv, NEW n \in Names, NEW v \in Plain \cup {Unset}, DeclareLocal(n, v),
         ~KeepsTemporaries
  PROVE  AllClean(control, scopes', sh')
<1> DEFINE k == Len(scopes)
           c == control
<1>1. /\ AllClean(c, scopes, sh) /\ Placed(c, scopes) /\ scopes \in Seq(ScopeRecords)
      /\ c \in Seq(Entries) /\ DOMAIN c = 1 .. Len(c) /\ Len(c) \in Nat
  BY DEF FramesInv, Sound
<1>2. ~Does("trap") /\ ~Does("local-in-eval")
  BY DEF KeepsTemporaries, DeclareLocal
<1>3. PICK i \in DOMAIN c :
        /\ c[i].kind = "function" /\ c[i].scope = k
        /\ \A m : \A j \in DOMAIN c :
             Hides(c, scopes', j, m) <=> Hides(c, scopes, j, m) \/ (m = n /\ j = i)
        /\ ~Given(c, n, i) => ~Given(c, n, Len(c) + 1)
  BY <1>2, DeclareLocalHides
<1>4. /\ Touches(sh, sh', n) /\ sh'.shadowed[n] \in {sh.shadowed[n], sh.env[n]}
      /\ ValuesClean(sh, n) => ValuesClean(sh', n)
  BY DeclareLocalTables
<1>5. /\ k \in DOMAIN scopes
      /\ \A j \in DOMAIN scopes : j # k => scopes'[j] = scopes[j]
  BY DeclareLocalScope
<1> DEFINE r == scopes[k]
           q == scopes'[k]
<1>6. /\ DOMAIN q.vars = DOMAIN r.vars \cup {n}
      /\ \A m \in DOMAIN r.vars : q.vars[m] = r.vars[m] /\ q.typed[m] = r.typed[m]
      /\ n \notin DOMAIN r.vars => q.vars[n].value = sh.env[n] /\ q.typed[n] = sh.typed[n]
  BY DeclareLocalSaved
<1> HIDE DEF k, c, r, q
<1>7. \A m : \A j \in 1 .. Len(c) + 1 : HidGiven(c, scopes, m, j) => HidGiven(c, scopes', m, j)
  <2>1. \A m : \A j \in 1 .. Len(c) : Hides(c, scopes, j, m) => Hides(c, scopes', j, m)
    BY <1>1, <1>3
  <2> QED BY <1>1, <2>1 DEF HidGiven
<1>8. ASSUME NEW m \in Names PROVE CleanTables(c, scopes', sh', m, Len(c) + 1)
  <2>1. CleanTables(c, scopes, sh, m, Len(c) + 1)
    BY <1>1 DEF AllClean
  <2>2. CASE m # n
    <3>1. SameAt(sh, sh', m)
      BY <1>4, <2>2 DEF Touches
    <3> QED BY <1>1, <1>7, <2>1, <3>1 DEF CleanTables, SameAt, ValuesClean
  <2>3. CASE m = n
    <3>1. ~HidGiven(c, scopes', n, Len(c) + 1) => ~Given(c, n, i)
      BY <1>1, <1>3 DEF HidGiven
    <3>2. ~HidGiven(c, scopes', n, Len(c) + 1) =>
            sh.env[n] \notin Temporary /\ sh.shadowed[n] \notin Temporary
      BY <1>1, <1>3, <1>7, <2>1, <2>3, <3>1 DEF CleanTables, ValuesClean
    <3>3. ~HidGiven(c, scopes', n, Len(c) + 1) => sh'.shadowed[n] \notin Temporary
      BY <1>4, <3>2
    <3> QED BY <1>4, <2>1, <2>3, <3>3 DEF CleanTables
  <2> QED BY <2>2, <2>3
<1>9. ASSUME NEW m \in Names, NEW j \in DOMAIN c PROVE CleanLevel(c, scopes', m, j)
  <2>1. CleanLevel(c, scopes, m, j)
    BY <1>1 DEF AllClean
  <2>2. c[j].kind = "subshell" => CleanTables(c, scopes', c[j].store, m, j)
    BY <1>1, <1>7, <2>1 DEF CleanLevel, CleanTables
  <2>3. ASSUME ~Given(c, m, j), Hides(c, scopes', j, m)
        PROVE  scopes'[c[j].scope].vars[m].value \notin Temporary
               /\ scopes'[c[j].scope].typed[m] \notin Temporary
    <3>1. CASE Hides(c, scopes, j, m)
      <4>1. /\ scopes[c[j].scope].vars[m].value \notin Temporary
            /\ scopes[c[j].scope].typed[m] \notin Temporary
        BY <2>1, <2>3, <3>1 DEF CleanLevel
      <4>2. c[j].scope \in DOMAIN scopes /\ m \in DOMAIN scopes[c[j].scope].vars
        BY <1>1, <3>1 DEF Placed, Functions, Hides
      <4> QED BY <1>5, <1>6, <4>1, <4>2 DEF r, q
    <3>2. CASE ~Hides(c, scopes, j, m)
      <4>1. m = n /\ j = i
        BY <1>3, <2>3, <3>2
      <4>2. n \notin DOMAIN r.vars
        BY <1>3, <3>2, <4>1 DEF Hides, r
      <4>3. ValuesClean(sh, n)
        BY <1>1, <1>3, <2>3, <4>1 DEF AllClean, CleanTables
      <4> QED BY <1>3, <1>6, <4>1, <4>2, <4>3 DEF ValuesClean, q
    <3> QED BY <3>1, <3>2
  <2> QED BY <2>1, <2>2, <2>3 DEF CleanLevel
<1>10. AllClean(c, scopes', sh')
  BY <1>8, <1>9 DEF AllClean
<1> QED BY <1>10 DEF c

LEMMA DeclareLocalEnvironment ==
  ASSUME FramesInv, NEW n \in Names, NEW v \in Plain \cup {Unset}, DeclareLocal(n, v),
         ~MisleadsChildren
  PROVE  InEnvironment(control, scopes', sh') /\ ExportsKept(control, scopes', sh')
<1> DEFINE k == Len(scopes)
           c == control
<1>1. /\ InEnvironment(c, scopes, sh) /\ ExportsKept(c, scopes, sh) /\ Placed(c, scopes)
      /\ c \in Seq(Entries) /\ DOMAIN c = 1 .. Len(c) /\ Len(c) \in Nat
      /\ sh \in Tables /\ scopes \in Seq(ScopeRecords)
  BY DEF FramesInv, Sound
<1>2. ~Does("trap")
  BY DEF MisleadsChildren, DeclareLocal
<1>3. PICK i \in DOMAIN c :
        /\ c[i].kind = "function" /\ c[i].scope = k
        /\ \A j \in Functions(c) : j <= i
        /\ \A m : \A j \in DOMAIN c :
             Hides(c, scopes', j, m) <=> Hides(c, scopes, j, m) \/ (m = n /\ j = i)
  BY <1>2, DeclareLocalHides
<1>4. Touches(sh, sh', n)
  BY DeclareLocalTables
<1>5. /\ k \in DOMAIN scopes
      /\ \A j \in DOMAIN scopes : j # k => scopes'[j] = scopes[j]
  BY DeclareLocalScope
<1> DEFINE r == scopes[k]
           q == scopes'[k]
<1>6. /\ \A m \in DOMAIN r.vars : q.vars[m] = r.vars[m]
      /\ n \notin DOMAIN r.vars => (q.vars[n].attrs.exported <=> n \in sh.exported)
  BY DeclareLocalSaved
<1> HIDE DEF k, c, r, q
<1>7. \A m : \A j \in 1 .. Len(c) + 1 : Hidden(c, scopes, m, j) => Hidden(c, scopes', m, j)
  BY <1>1, <1>3 DEF Hidden
<1>8. Hidden(c, scopes', n, Len(c) + 1)
  BY <1>1, <1>3 DEF Hidden
<1>9. \A m \in Names \ {n} : SameAt(sh, sh', m)
  BY <1>4 DEF Touches
<1>10. InEnvironment(c, scopes', sh')
  <2>1. \A m \in Names \ {n} : /\ Matches(sh, m) => Matches(sh', m)
                               /\ sh'.shadowed[m] = sh.shadowed[m]
    BY <1>9 DEF SameAt, Matches
  <2> QED BY <1>1, <1>7, <1>8, <2>1 DEF InEnvironment
<1>11. ASSUME NEW j \in DOMAIN c, c[j].kind = "prefix", NEW m \in c[j].exported
       PROVE  /\ ~Hidden(c, scopes', m, Len(c) + 1) => m \in sh'.exported
              /\ \A l \in DOMAIN c : j < l /\ ~Hidden(c, scopes', m, l) => ExportedAt(c, scopes', m, l)
  <2>1. /\ ~Hidden(c, scopes, m, Len(c) + 1) => m \in sh.exported
        /\ \A l \in DOMAIN c : j < l /\ ~Hidden(c, scopes, m, l) => ExportedAt(c, scopes, m, l)
    BY <1>1, <1>11 DEF ExportsKept
  <2>2. m \in Names
    <3>1. c[j] \in Entries
      BY <1>1
    <3> QED BY <1>11, <3>1, EntryCases DEF PrefixEntries
  <2>3. ~Hidden(c, scopes', m, Len(c) + 1) => m \in sh'.exported
    BY <1>1, <1>7, <1>8, <1>9, <2>1, <2>2 DEF SameAt
  <2>4. ASSUME NEW l \in DOMAIN c, j < l, ~Hidden(c, scopes', m, l)
        PROVE  ExportedAt(c, scopes', m, l)
    <3>1. ExportedAt(c, scopes, m, l)
      BY <1>1, <1>7, <2>1, <2>4
    <3>2. ASSUME Hides(c, scopes', l, m) PROVE scopes'[c[l].scope].vars[m].attrs.exported
      <4>1. CASE Hides(c, scopes, l, m)
        <5>1. scopes[c[l].scope].vars[m].attrs.exported
          BY <3>1, <4>1 DEF ExportedAt
        <5>2. c[l].scope \in DOMAIN scopes /\ m \in DOMAIN scopes[c[l].scope].vars
          BY <1>1, <4>1 DEF Placed, Functions, Hides
        <5> QED BY <1>5, <1>6, <5>1, <5>2 DEF r, q
      <4>2. CASE ~Hides(c, scopes, l, m)
        <5>1. m = n /\ l = i
          BY <1>3, <3>2, <4>2
        <5>2. n \notin DOMAIN r.vars
          BY <1>3, <4>2, <5>1 DEF Hides, r
        <5>3. \A x \in 1 .. Len(c) : ~Hides(c, scopes, x, n)
          <6> SUFFICES ASSUME NEW x \in 1 .. Len(c), Hides(c, scopes, x, n) PROVE FALSE
            OBVIOUS
          <6>1. x \in Functions(c)
            BY <1>1 DEF Hides, Functions
          <6>2. x <= i /\ x # i
            BY <1>3, <4>2, <5>1, <6>1
          <6>3. x \in 1 .. i - 1
            BY <1>1, <6>2
          <6>4. Hidden(c, scopes, n, i)
            BY <6>3 DEF Hidden
          <6> QED BY <1>1, <1>7, <2>4, <5>1, <6>4
        <5>4. n \in sh.exported
          BY <1>1, <2>1, <5>1, <5>3 DEF Hidden
        <5> QED BY <1>3, <1>6, <5>1, <5>2, <5>4 DEF q
      <4> QED BY <4>1, <4>2
    <3> QED BY <3>1, <3>2 DEF ExportedAt
  <2> QED BY <2>3, <2>4
<1>12. ExportsKept(c, scopes', sh')
  BY <1>11 DEF ExportsKept
<1> QED BY <1>10, <1>12 DEF c

LEMMA DeclareLocalSound ==
  ASSUME FramesInv, NEW n \in Names, NEW v \in Plain \cup {Unset}, DeclareLocal(n, v)
  PROVE  Sound(control', scopes', sh')
<1>1. Sound(control, scopes, sh) /\ control' = control /\ Does("local")
  BY DEF FramesInv, DeclareLocal
<1>2. Touches(sh, sh', n) /\ sh'.typed[n] \in {Unset, sh'.env[n]}
  BY DeclareLocalTables
<1>3. /\ Len(scopes) \in DOMAIN scopes
      /\ scopes' \in Seq(ScopeRecords) /\ DOMAIN scopes' = DOMAIN scopes
      /\ \A j \in DOMAIN scopes : j # Len(scopes) => scopes'[j] = scopes[j]
  BY DeclareLocalScope
<1>4. Placed(control, scopes') /\ (~Does("trap") => AllPlaced(control, scopes'))
  BY <1>1, <1>3 DEF Sound, Placed, AllPlaced
<1>5. ASSUME ~(Does("unset") /\ Does("local")) PROVE TypedKept(control, scopes', sh')
  <2>1. TypedKept(control, scopes, sh)
    BY <1>1, <1>5 DEF Sound
  <2>2. \A m \in Names : sh'.typed[m] \in {Unset, sh'.env[m]}
    BY <1>2, <2>1 DEF Touches, SameAt, TypedKept
  <2> DEFINE r == scopes[Len(scopes)]
             q == scopes'[Len(scopes)]
  <2>3. /\ DOMAIN q.vars = DOMAIN r.vars \cup {n}
        /\ \A m \in DOMAIN r.vars : q.vars[m] = r.vars[m] /\ q.typed[m] = r.typed[m]
        /\ DOMAIN r.typed = DOMAIN r.vars => DOMAIN q.typed = DOMAIN q.vars
        /\ n \notin DOMAIN r.vars => q.vars[n].value = sh.env[n] /\ q.typed[n] = sh.typed[n]
    BY DeclareLocalSaved
  <2>4. /\ DOMAIN r.typed = DOMAIN r.vars /\ sh.typed[n] \in {Unset, sh.env[n]}
        /\ \A m \in DOMAIN r.vars : r.typed[m] \in {Unset, r.vars[m].value}
    BY <1>3, <2>1 DEF TypedKept
  <2> HIDE DEF r, q
  <2>5. /\ DOMAIN q.typed = DOMAIN q.vars
        /\ \A m \in DOMAIN q.vars : q.typed[m] \in {Unset, q.vars[m].value}
    BY <2>3, <2>4
  <2>6. \A j \in DOMAIN scopes' :
          /\ DOMAIN scopes'[j].typed = DOMAIN scopes'[j].vars
          /\ \A m \in DOMAIN scopes'[j].vars : scopes'[j].typed[m] \in {Unset, scopes'[j].vars[m].value}
    BY <1>3, <2>1, <2>5 DEF TypedKept, q
  <2> QED BY <2>1, <2>2, <2>6 DEF TypedKept
<1>6. ~KeepsTemporaries => AllClean(control, scopes', sh')
  BY DeclareLocalClean
<1>7. ~MisleadsChildren => InEnvironment(control, scopes', sh') /\ ExportsKept(control, scopes', sh')
  BY DeclareLocalEnvironment
<1> QED BY <1>1, <1>2, <1>3, <1>4, <1>5, <1>6, <1>7 DEF Sound, Touches

-------------------------------------------------------------------------------
(* What begins: a level more, of what the tables have. *)

LEMMA PushLevels ==
  ASSUME NEW c \in Seq(Entries), NEW e \in Entries, NEW sc, NEW td,
         \A i \in Functions(c) : td[c[i].scope] = sc[c[i].scope], NEW n
  PROVE  LET d == Append(c, e)
             l == Len(c) + 1
         IN  /\ \A k \in 1 .. Len(c) : /\ CleanLevel(d, td, n, k) <=> CleanLevel(c, sc, n, k)
                                       /\ ExportedAt(d, td, n, k) <=> ExportedAt(c, sc, n, k)
             /\ \A k \in 1 .. l : /\ Hidden(d, td, n, k) <=> Hidden(c, sc, n, k)
                                  /\ Given(d, n, k) <=> Given(c, n, k)
                                  /\ HidGiven(d, td, n, k) <=> HidGiven(c, sc, n, k)
             /\ Given(d, n, l + 1) <=> (Given(c, n, l) \/ Gives(d, l, n))
             /\ Hidden(d, td, n, l + 1) <=> (Hidden(c, sc, n, l) \/ Hides(d, td, l, n))
             /\ HidGiven(d, td, n, l + 1) <=>
                  (HidGiven(c, sc, n, l) \/ (Hides(d, td, l, n) /\ Given(c, n, l)))
<1> DEFINE d == Append(c, e)
           l == Len(c) + 1
<1>1. /\ Len(c) \in Nat /\ DOMAIN c = 1 .. Len(c) /\ \A i \in 1 .. Len(c) : d[i] = c[i]
      /\ l \in Nat \ {0} /\ l \in 1 .. l
  BY PushIs
<1> HIDE DEF d
<1>2. Agree(c, sc, d, td, Len(c))
  BY <1>1 DEF Agree, SameEntry, Functions
<1>3. \A k \in 1 .. Len(c) : /\ CleanLevel(d, td, n, k) <=> CleanLevel(c, sc, n, k)
                             /\ ExportedAt(d, td, n, k) <=> ExportedAt(c, sc, n, k)
  BY <1>1, <1>2, AgreeLevels
<1>4. \A k \in 1 .. l : /\ Hidden(d, td, n, k) <=> Hidden(c, sc, n, k)
                        /\ Given(d, n, k) <=> Given(c, n, k)
                        /\ HidGiven(d, td, n, k) <=> HidGiven(c, sc, n, k)
  BY <1>1, <1>2, AgreeBelow
<1> HIDE DEF l
<1>5. /\ Given(d, n, l + 1) <=> (Given(c, n, l) \/ Gives(d, l, n))
      /\ Hidden(d, td, n, l + 1) <=> (Hidden(c, sc, n, l) \/ Hides(d, td, l, n))
      /\ HidGiven(d, td, n, l + 1) <=>
           (HidGiven(c, sc, n, l) \/ (Hides(d, td, l, n) /\ Given(c, n, l)))
  BY <1>1, <1>4, NextLevel
<1> QED BY <1>3, <1>4, <1>5 DEF d, l

\* A function with a scope that has no name yet.
LEMMA PushFunctionSound ==
  ASSUME NEW c, NEW sc, NEW s, Sound(c, sc, s)
  PROVE  Sound(Append(c, [kind |-> "function", scope |-> Len(sc) + 1]), Append(sc, EmptyScope), s)
<1> DEFINE e == [kind |-> "function", scope |-> Len(sc) + 1]
           d == Append(c, e)
           td == Append(sc, EmptyScope)
           l == Len(c) + 1
<1>1. c \in Seq(Entries) /\ sc \in Seq(ScopeRecords) /\ Placed(c, sc)
  BY DEF Sound
<1>2. e \in Entries /\ EmptyScope \in ScopeRecords /\ DOMAIN EmptyScope.vars = {}
  BY <1>1, NoScope DEF Entries, FunctionEntries
<1>3. /\ d \in Seq(Entries) /\ Len(d) = l /\ Len(c) \in Nat
      /\ DOMAIN c = 1 .. Len(c) /\ DOMAIN d = 1 .. l
      /\ d[l] = e /\ \A i \in 1 .. Len(c) : d[i] = c[i]
  BY <1>1, <1>2, PushIs
<1>4. /\ td \in Seq(ScopeRecords) /\ Len(td) = Len(sc) + 1 /\ Len(sc) \in Nat
      /\ DOMAIN sc = 1 .. Len(sc) /\ DOMAIN td = 1 .. Len(sc) + 1
      /\ td[Len(sc) + 1] = EmptyScope /\ \A i \in 1 .. Len(sc) : td[i] = sc[i]
  BY <1>1, <1>2, PushIs
<1>5. \A i \in Functions(c) : c[i].scope \in 1 .. Len(sc) /\ td[c[i].scope] = sc[c[i].scope]
  BY <1>1, <1>4 DEF Placed
<1>6. /\ \A n : \A k \in 1 .. Len(c) : /\ CleanLevel(d, td, n, k) <=> CleanLevel(c, sc, n, k)
                                       /\ ExportedAt(d, td, n, k) <=> ExportedAt(c, sc, n, k)
      /\ \A n : \A k \in 1 .. l : /\ Hidden(d, td, n, k) <=> Hidden(c, sc, n, k)
                                  /\ Given(d, n, k) <=> Given(c, n, k)
                                  /\ HidGiven(d, td, n, k) <=> HidGiven(c, sc, n, k)
      /\ \A n : /\ Given(d, n, l + 1) <=> (Given(c, n, l) \/ Gives(d, l, n))
                /\ Hidden(d, td, n, l + 1) <=> (Hidden(c, sc, n, l) \/ Hides(d, td, l, n))
                /\ HidGiven(d, td, n, l + 1) <=>
                     (HidGiven(c, sc, n, l) \/ (Hides(d, td, l, n) /\ Given(c, n, l)))
  BY <1>1, <1>2, <1>5, PushLevels
<1>7. /\ e.kind = "function" /\ e.scope = Len(sc) + 1
      /\ \A n : ~Gives(d, l, n) /\ ~Hides(d, td, l, n)
  BY <1>2, <1>3, <1>4 DEF Gives, Hides
<1> HIDE DEF e, d, td
<1>8. Functions(d) = Functions(c) \cup {l} /\ d[l].scope = Len(sc) + 1
      /\ \A i \in Functions(c) : i \in 1 .. Len(c) /\ d[i].scope = c[i].scope
  BY <1>3, <1>7 DEF Functions
<1>9. Placed(d, td)
  <2> SUFFICES ASSUME NEW i \in Functions(d)
               PROVE  /\ d[i].scope \in DOMAIN td
                      /\ \A j \in Functions(d) : i < j => d[i].scope < d[j].scope
    BY DEF Placed
  <2>1. CASE i = l
    BY <1>3, <1>4, <1>8, <2>1
  <2>2. CASE i \in Functions(c)
    <3>1. d[i].scope \in 1 .. Len(sc) /\ d[i].scope = c[i].scope
      BY <1>5, <1>8, <2>2
    <3>2. ASSUME NEW j \in Functions(d), i < j PROVE d[i].scope < d[j].scope
      <4>1. CASE j = l
        BY <1>4, <1>8, <3>1, <4>1
      <4>2. CASE j \in Functions(c)
        BY <1>1, <1>8, <2>2, <3>2, <4>2 DEF Placed
      <4> QED BY <1>8, <4>1, <4>2
    <3> QED BY <1>4, <3>1, <3>2
  <2> QED BY <1>8, <2>1, <2>2
<1>10. ASSUME ~Does("trap") PROVE AllPlaced(d, td)
  <2>1. AllPlaced(c, sc)
    BY <1>10 DEF Sound
  <2>2. ASSUME NEW k \in DOMAIN td PROVE \E i \in Functions(d) : d[i].scope = k
    <3>1. CASE k \in DOMAIN sc
      <4>1. PICK i \in Functions(c) : c[i].scope = k
        BY <2>1, <3>1 DEF AllPlaced
      <4> QED BY <1>8, <4>1
    <3>2. CASE k = Len(sc) + 1
      BY <1>8, <3>2
    <3> QED BY <1>4, <3>1, <3>2
  <2> QED BY <2>2 DEF AllPlaced
<1>11. ~Does("local") => NoLocals(td)
  BY <1>2, <1>4 DEF Sound, NoLocals
<1>12. ~(Does("prefix") \/ Does("eval")) => NoPrefixes(d)
  BY <1>3, <1>7 DEF Sound, NoPrefixes
<1>13. ASSUME ~(Does("unset") /\ Does("local")) PROVE TypedKept(d, td, s)
  <2>1. TypedKept(c, sc, s)
    BY <1>13 DEF Sound
  <2>2. DOMAIN EmptyScope.typed = {}
    BY DEF EmptyScope
  <2>3. \A k \in DOMAIN td :
          /\ DOMAIN td[k].typed = DOMAIN td[k].vars
          /\ \A n \in DOMAIN td[k].vars : td[k].typed[n] \in {Unset, td[k].vars[n].value}
    <3> SUFFICES ASSUME NEW k \in DOMAIN td
                 PROVE  /\ DOMAIN td[k].typed = DOMAIN td[k].vars
                        /\ \A n \in DOMAIN td[k].vars : td[k].typed[n] \in {Unset, td[k].vars[n].value}
      OBVIOUS
    <3>1. CASE k = Len(sc) + 1
      BY <1>2, <1>4, <2>2, <3>1
    <3>2. CASE k \in DOMAIN sc
      <4>1. td[k] = sc[k]
        BY <1>4, <3>2
      <4> QED BY <2>1, <3>2, <4>1 DEF TypedKept
    <3> QED BY <1>4, <3>1, <3>2
  <2> QED BY <1>3, <1>7, <2>1, <2>3 DEF TypedKept
<1>14. ASSUME ~KeepsTemporaries PROVE AllClean(d, td, s)
  <2>1. AllClean(c, sc, s)
    BY <1>14 DEF Sound
  <2>2. \A n \in Names : CleanTables(d, td, s, n, l + 1)
    BY <1>6, <1>7, <2>1 DEF AllClean, CleanTables
  <2>3. \A n \in Names : CleanLevel(d, td, n, l)
    BY <1>3, <1>7 DEF CleanLevel
  <2> QED BY <1>3, <1>6, <2>1, <2>2, <2>3 DEF AllClean
<1>15. ASSUME ~MisleadsChildren PROVE InEnvironment(d, td, s)
  <2>1. InEnvironment(c, sc, s)
    BY <1>15 DEF Sound
  <2> QED BY <1>3, <1>6, <1>7, <2>1 DEF InEnvironment
<1>16. ASSUME ~MisleadsChildren PROVE ExportsKept(d, td, s)
  <2>1. ExportsKept(c, sc, s)
    BY <1>16 DEF Sound
  <2>2. \A n : ExportedAt(d, td, n, l)
    BY <1>3, <1>7 DEF ExportedAt
  <2> QED BY <1>3, <1>6, <1>7, <2>1, <2>2 DEF ExportsKept
<1>17. Sound(d, td, s)
  BY <1>3, <1>4, <1>9, <1>10, <1>11, <1>12, <1>13, <1>14, <1>15, <1>16 DEF Sound
<1> QED BY <1>17 DEF d, e, td

\* Anything else leaves the scopes to the same functions.
LEMMA PushOther ==
  ASSUME NEW c \in Seq(Entries), NEW e \in Entries, e.kind # "function", NEW sc
  PROVE  /\ Placed(c, sc) => Placed(Append(c, e), sc)
         /\ AllPlaced(c, sc) => AllPlaced(Append(c, e), sc)
<1> DEFINE d == Append(c, e)
<1>1. /\ DOMAIN c = 1 .. Len(c) /\ DOMAIN d = 1 .. Len(c) + 1 /\ Len(c) \in Nat
      /\ d[Len(c) + 1] = e /\ \A i \in 1 .. Len(c) : d[i] = c[i]
  BY PushIs
<1> HIDE DEF d
<1>2. Functions(d) = Functions(c) /\ \A i \in Functions(c) : d[i] = c[i]
  BY <1>1 DEF Functions
<1>3. Placed(c, sc) => Placed(d, sc)
  BY <1>2 DEF Placed
<1>4. AllPlaced(c, sc) => AllPlaced(d, sc)
  BY <1>2 DEF AllPlaced
<1> QED BY <1>3, <1>4 DEF d

LEMMA PushSubshellSound ==
  ASSUME NEW c, NEW sc, NEW s, Sound(c, sc, s)
  PROVE  Sound(Append(c, [kind |-> "subshell", store |-> s]), sc, s)
<1> DEFINE e == [kind |-> "subshell", store |-> s]
           d == Append(c, e)
           l == Len(c) + 1
<1>1. c \in Seq(Entries) /\ sc \in Seq(ScopeRecords) /\ s \in Tables
  BY DEF Sound
<1>2. e \in Entries /\ e.kind = "subshell" /\ e.store = s
  BY <1>1 DEF Entries, SubshellEntries
<1>3. /\ d \in Seq(Entries) /\ Len(d) = l /\ Len(c) \in Nat
      /\ DOMAIN c = 1 .. Len(c) /\ DOMAIN d = 1 .. l
      /\ d[l] = e /\ \A i \in 1 .. Len(c) : d[i] = c[i]
  BY <1>1, <1>2, PushIs
<1>4. /\ \A n : \A k \in 1 .. Len(c) : /\ CleanLevel(d, sc, n, k) <=> CleanLevel(c, sc, n, k)
                                       /\ ExportedAt(d, sc, n, k) <=> ExportedAt(c, sc, n, k)
      /\ \A n : \A k \in 1 .. l : /\ Hidden(d, sc, n, k) <=> Hidden(c, sc, n, k)
                                  /\ Given(d, n, k) <=> Given(c, n, k)
                                  /\ HidGiven(d, sc, n, k) <=> HidGiven(c, sc, n, k)
      /\ \A n : /\ Given(d, n, l + 1) <=> (Given(c, n, l) \/ Gives(d, l, n))
                /\ Hidden(d, sc, n, l + 1) <=> (Hidden(c, sc, n, l) \/ Hides(d, sc, l, n))
                /\ HidGiven(d, sc, n, l + 1) <=>
                     (HidGiven(c, sc, n, l) \/ (Hides(d, sc, l, n) /\ Given(c, n, l)))
  BY <1>1, <1>2, PushLevels
<1>5. \A n : ~Gives(d, l, n) /\ ~Hides(d, sc, l, n)
  BY <1>2, <1>3 DEF Gives, Hides
<1>6. Placed(d, sc) /\ (~Does("trap") => AllPlaced(d, sc))
  BY <1>1, <1>2, PushOther DEF Sound
<1> HIDE DEF e, d
<1>7. ~(Does("prefix") \/ Does("eval")) => NoPrefixes(d)
  BY <1>2, <1>3 DEF Sound, NoPrefixes
<1>8. ASSUME ~(Does("unset") /\ Does("local")) PROVE TypedKept(d, sc, s)
  <2>1. TypedKept(c, sc, s)
    BY <1>8 DEF Sound
  <2> QED BY <1>2, <1>3, <2>1 DEF TypedKept
<1>9. ASSUME ~KeepsTemporaries PROVE AllClean(d, sc, s)
  <2>1. AllClean(c, sc, s)
    BY <1>9 DEF Sound
  <2>2. \A n \in Names : CleanTables(d, sc, s, n, l + 1) /\ CleanTables(d, sc, s, n, l)
    BY <1>3, <1>4, <1>5, <2>1 DEF AllClean, CleanTables
  <2>3. \A n \in Names : CleanLevel(d, sc, n, l)
    BY <1>2, <1>3, <1>5, <2>2 DEF CleanLevel
  <2> QED BY <1>3, <1>4, <2>1, <2>2, <2>3 DEF AllClean
<1>10. ASSUME ~MisleadsChildren PROVE InEnvironment(d, sc, s)
  <2>1. InEnvironment(c, sc, s)
    BY <1>10 DEF Sound
  <2> QED BY <1>2, <1>3, <1>4, <1>5, <2>1 DEF InEnvironment
<1>11. ASSUME ~MisleadsChildren PROVE ExportsKept(d, sc, s)
  <2>1. ExportsKept(c, sc, s)
    BY <1>11 DEF Sound
  <2>2. \A n : n \in s.exported => ExportedAt(d, sc, n, l)
    BY <1>2, <1>3, <1>5 DEF ExportedAt
  <2> QED BY <1>2, <1>3, <1>4, <1>5, <2>1, <2>2 DEF ExportsKept
<1>12. Sound(d, sc, s)
  BY <1>3, <1>6, <1>7, <1>8, <1>9, <1>10, <1>11 DEF Sound
<1> QED BY <1>12 DEF d, e

LEMMA PrefixSound ==
  ASSUME FramesInv, NEW n \in Names, NEW v \in Temporary, NEW for \in {"call", "eval"},
         Prefix(n, v, for)
  PROVE  Sound(control', scopes', sh')
<1> DEFINE e == [kind |-> "prefix", for |-> for, name |-> n, value |-> sh.env[n],
                 typed |-> sh.typed[n], exported |-> sh.exported]
           c == control
           d == Append(c, e)
           l == Len(c) + 1
<1>1. /\ c \in Seq(Entries) /\ scopes \in Seq(ScopeRecords) /\ sh \in Tables
      /\ Sound(c, scopes, sh)
  BY DEF FramesInv, Sound
<1>2. control' = d /\ scopes' = scopes /\ (Does("prefix") \/ Does("eval"))
  BY DEF Prefix
<1>3. e \in Entries /\ e.kind = "prefix" /\ e.name = n /\ e.value = sh.env[n]
      /\ e.typed = sh.typed[n] /\ e.exported = sh.exported
  BY <1>1 DEF Entries, PrefixEntries, Tables
<1>4. /\ d \in Seq(Entries) /\ Len(d) = l /\ Len(c) \in Nat
      /\ DOMAIN c = 1 .. Len(c) /\ DOMAIN d = 1 .. l
      /\ d[l] = e /\ \A i \in 1 .. Len(c) : d[i] = c[i]
  BY <1>1, <1>3, PushIs
<1>5. /\ \A m : \A k \in 1 .. Len(c) :
           /\ CleanLevel(d, scopes, m, k) <=> CleanLevel(c, scopes, m, k)
           /\ ExportedAt(d, scopes, m, k) <=> ExportedAt(c, scopes, m, k)
      /\ \A m : \A k \in 1 .. l : /\ Hidden(d, scopes, m, k) <=> Hidden(c, scopes, m, k)
                                  /\ Given(d, m, k) <=> Given(c, m, k)
                                  /\ HidGiven(d, scopes, m, k) <=> HidGiven(c, scopes, m, k)
      /\ \A m : /\ Given(d, m, l + 1) <=> (Given(c, m, l) \/ Gives(d, l, m))
                /\ Hidden(d, scopes, m, l + 1) <=> (Hidden(c, scopes, m, l) \/ Hides(d, scopes, l, m))
                /\ HidGiven(d, scopes, m, l + 1) <=>
                     (HidGiven(c, scopes, m, l) \/ (Hides(d, scopes, l, m) /\ Given(c, m, l)))
  BY <1>1, <1>3, PushLevels
<1>6. \A m : (Gives(d, l, m) <=> m = n) /\ ~Hides(d, scopes, l, m)
  BY <1>3, <1>4 DEF Gives, Hides
<1>7. Placed(d, scopes) /\ (~Does("trap") => AllPlaced(d, scopes))
  BY <1>1, <1>3, PushOther DEF Sound
<1> HIDE DEF e, d
<1>8. v \in Value /\ v # Unset
  BY TemporaryAssumption, UnsetIsNone DEF Value
<1> DEFINE u == AssignVar(sh, n, v)
<1>9. sh' = [u EXCEPT !.exported = @ \cup {n}]
  BY DEF Prefix
<1>10. /\ Touches(sh, u, n) /\ u.exported = sh.exported /\ u.shadowed[n] = sh.shadowed[n]
       /\ \/ SameAt(sh, u, n)
          \/ u.env[n] = v /\ u.typed[n] = v
  BY <1>1, <1>8, AssignTouches
<1> HIDE DEF u
<1>11. u \in Tables
  BY <1>10 DEF Touches
<1>12. /\ sh' \in Tables /\ sh'.env = u.env /\ sh'.typed = u.typed /\ sh'.penv = u.penv
       /\ sh'.shadowed = u.shadowed /\ sh'.exported = sh.exported \cup {n}
       /\ \A m \in Names \ {n} : SameAt(u, sh', m)
  BY <1>9, <1>10, <1>11 DEF Tables, SameAt
<1>13. /\ \A m \in Names \ {n} : SameAt(sh, sh', m)
       /\ \A m \in Names : sh'.shadowed[m] = sh.shadowed[m]
       /\ sh.typed[n] \in {Unset, sh.env[n]} => sh'.typed[n] \in {Unset, sh'.env[n]}
  BY <1>10, <1>12 DEF Touches, SameAt
<1>14. ASSUME ~(Does("unset") /\ Does("local")) PROVE TypedKept(d, scopes, sh')
  <2>1. TypedKept(c, scopes, sh)
    BY <1>1, <1>14 DEF Sound
  <2>2. \A m \in Names : sh'.typed[m] \in {Unset, sh'.env[m]}
    BY <1>13, <2>1 DEF TypedKept, SameAt
  <2> QED BY <1>3, <1>4, <2>1, <2>2 DEF TypedKept
<1>15. ASSUME ~KeepsTemporaries PROVE AllClean(d, scopes, sh')
  <2>1. AllClean(c, scopes, sh)
    BY <1>1, <1>15 DEF Sound
  <2>2. \A m \in Names : CleanTables(c, scopes, sh, m, l)
    BY <2>1 DEF AllClean
  <2>3. ASSUME NEW m \in Names PROVE CleanTables(d, scopes, sh', m, l + 1)
    <3>1. m # n => (ValuesClean(sh, m) => ValuesClean(sh', m))
      BY <1>13 DEF SameAt, ValuesClean
    <3> QED BY <1>5, <1>6, <1>13, <2>2, <3>1 DEF CleanTables
  <2>4. \A m \in Names : CleanLevel(d, scopes, m, l)
    BY <1>3, <1>4, <1>5, <1>6, <2>2 DEF CleanLevel, CleanTables, ValuesClean
  <2> QED BY <1>4, <1>5, <2>1, <2>3, <2>4 DEF AllClean
<1>16. ASSUME ~MisleadsChildren PROVE InEnvironment(d, scopes, sh')
  <2>1. InEnvironment(c, scopes, sh)
    BY <1>1, <1>16 DEF Sound
  <2>2. \A m \in Names : m # n => (Matches(sh, m) => Matches(sh', m))
    BY <1>13 DEF SameAt, Matches
  <2> QED BY <1>3, <1>4, <1>5, <1>6, <1>13, <2>1, <2>2 DEF InEnvironment
<1>17. ASSUME ~MisleadsChildren PROVE ExportsKept(d, scopes, sh')
  <2>1. ExportsKept(c, scopes, sh)
    BY <1>1, <1>17 DEF Sound
  <2>2. \A m : m \in sh.exported => ExportedAt(d, scopes, m, l)
    BY <1>3, <1>4, <1>6 DEF ExportedAt
  <2> QED BY <1>3, <1>4, <1>5, <1>6, <1>12, <2>1, <2>2 DEF ExportsKept
<1>18. Sound(d, scopes, sh')
  BY <1>1, <1>2, <1>4, <1>7, <1>12, <1>14, <1>15, <1>16, <1>17 DEF Sound
<1> QED BY <1>2, <1>18

-------------------------------------------------------------------------------
(* What ends: the tables have what the level saved. *)

LEMMA PopLevels ==
  ASSUME NEW c \in Seq(Entries), c # <<>>, NEW sc, NEW td,
         \A i \in Functions(c) : i < Len(c) => td[c[i].scope] = sc[c[i].scope], NEW n
  PROVE  LET d == Front(c)
             l == Len(c)
         IN  /\ \A k \in 1 .. l - 1 : /\ CleanLevel(d, td, n, k) <=> CleanLevel(c, sc, n, k)
                                      /\ ExportedAt(d, td, n, k) <=> ExportedAt(c, sc, n, k)
             /\ \A k \in 1 .. l : /\ Hidden(d, td, n, k) <=> Hidden(c, sc, n, k)
                                  /\ Given(d, n, k) <=> Given(c, n, k)
                                  /\ HidGiven(d, td, n, k) <=> HidGiven(c, sc, n, k)
             /\ Given(c, n, l + 1) <=> (Given(c, n, l) \/ Gives(c, l, n))
             /\ Hidden(c, sc, n, l + 1) <=> (Hidden(c, sc, n, l) \/ Hides(c, sc, l, n))
             /\ HidGiven(c, sc, n, l + 1) <=>
                  (HidGiven(c, sc, n, l) \/ (Hides(c, sc, l, n) /\ Given(c, n, l)))
<1> DEFINE d == Front(c)
           l == Len(c)
<1>1. /\ l \in Nat \ {0} /\ DOMAIN c = 1 .. l /\ \A i \in 1 .. l - 1 : d[i] = c[i]
      /\ l - 1 \in Nat /\ (l - 1) + 1 = l
  BY PopIs
<1> HIDE DEF d, l
<1>2. Agree(c, sc, d, td, l - 1)
  BY <1>1 DEF Agree, SameEntry, Functions, l
<1>3. \A k \in 1 .. l - 1 : /\ CleanLevel(d, td, n, k) <=> CleanLevel(c, sc, n, k)
                            /\ ExportedAt(d, td, n, k) <=> ExportedAt(c, sc, n, k)
  BY <1>1, <1>2, AgreeLevels
<1>4. \A k \in 1 .. l : /\ Hidden(d, td, n, k) <=> Hidden(c, sc, n, k)
                        /\ Given(d, n, k) <=> Given(c, n, k)
                        /\ HidGiven(d, td, n, k) <=> HidGiven(c, sc, n, k)
  BY <1>1, <1>2, AgreeBelow
<1>5. /\ Given(c, n, l + 1) <=> (Given(c, n, l) \/ Gives(c, l, n))
      /\ Hidden(c, sc, n, l + 1) <=> (Hidden(c, sc, n, l) \/ Hides(c, sc, l, n))
      /\ HidGiven(c, sc, n, l + 1) <=>
           (HidGiven(c, sc, n, l) \/ (Hides(c, sc, l, n) /\ Given(c, n, l)))
  BY <1>1, NextLevel
<1> QED BY <1>3, <1>4, <1>5 DEF d, l

LEMMA PopOther ==
  ASSUME NEW c \in Seq(Entries), c # <<>>, NEW sc, Last(c).kind # "function"
  PROVE  /\ Placed(c, sc) => Placed(Front(c), sc)
         /\ AllPlaced(c, sc) => AllPlaced(Front(c), sc)
         /\ NoPrefixes(c) => NoPrefixes(Front(c))
<1> DEFINE d == Front(c)
<1>1. /\ DOMAIN c = 1 .. Len(c) /\ DOMAIN d = 1 .. Len(c) - 1 /\ Len(c) \in Nat \ {0}
      /\ Last(c) = c[Len(c)] /\ \A i \in 1 .. Len(c) - 1 : d[i] = c[i]
  BY PopIs
<1> HIDE DEF d
<1>2. Functions(d) = Functions(c) /\ \A i \in Functions(c) : d[i] = c[i]
  BY <1>1 DEF Functions
<1>3. Placed(c, sc) => Placed(d, sc)
  BY <1>2 DEF Placed
<1>4. AllPlaced(c, sc) => AllPlaced(d, sc)
  BY <1>2 DEF AllPlaced
<1>5. NoPrefixes(c) => NoPrefixes(d)
  BY <1>1 DEF NoPrefixes
<1> QED BY <1>3, <1>4, <1>5 DEF d

LEMMA PopSubshellSound ==
  ASSUME NEW c, NEW sc, NEW s, Sound(c, sc, s), c # <<>>, Last(c).kind = "subshell"
  PROVE  Sound(Front(c), sc, RestoreShell(s, Last(c).store))
<1> DEFINE d == Front(c)
           l == Len(c)
           saved == c[l].store
           t == RestoreShell(s, saved)
<1>1. c \in Seq(Entries) /\ sc \in Seq(ScopeRecords) /\ s \in Tables
  BY DEF Sound
<1>2. /\ d \in Seq(Entries) /\ Len(d) = l - 1 /\ l \in Nat \ {0} /\ l \in 1 .. l
      /\ DOMAIN c = 1 .. l /\ DOMAIN d = 1 .. l - 1
      /\ Last(c) = c[l] /\ \A i \in 1 .. l - 1 : d[i] = c[i]
      /\ \A i \in 1 .. l : c[i] \in Entries
  BY <1>1, PopIs
<1>3. /\ \A n : \A k \in 1 .. l - 1 : /\ CleanLevel(d, sc, n, k) <=> CleanLevel(c, sc, n, k)
                                      /\ ExportedAt(d, sc, n, k) <=> ExportedAt(c, sc, n, k)
      /\ \A n : \A k \in 1 .. l : /\ Hidden(d, sc, n, k) <=> Hidden(c, sc, n, k)
                                  /\ Given(d, n, k) <=> Given(c, n, k)
                                  /\ HidGiven(d, sc, n, k) <=> HidGiven(c, sc, n, k)
      /\ \A n : /\ Given(c, n, l + 1) <=> (Given(c, n, l) \/ Gives(c, l, n))
                /\ Hidden(c, sc, n, l + 1) <=> (Hidden(c, sc, n, l) \/ Hides(c, sc, l, n))
                /\ HidGiven(c, sc, n, l + 1) <=>
                     (HidGiven(c, sc, n, l) \/ (Hides(c, sc, l, n) /\ Given(c, n, l)))
  BY <1>1, PopLevels
<1>4. c[l].kind = "subshell" /\ \A n : ~Gives(c, l, n) /\ ~Hides(c, sc, l, n)
  BY <1>2 DEF Gives, Hides
<1>5. saved \in Tables
  BY <1>2, <1>4, EntryCases DEF SubshellEntries
<1>6. /\ Placed(d, sc) /\ (~Does("trap") => AllPlaced(d, sc))
      /\ ~(Does("prefix") \/ Does("eval")) => NoPrefixes(d)
  BY <1>1, <1>2, <1>4, PopOther DEF Sound
<1>7. /\ t \in Tables /\ t.env = saved.env /\ t.typed = saved.typed
      /\ t.shadowed = saved.shadowed /\ t.exported = saved.exported
      /\ \A n \in Names : t.penv[n] = IF saved.env[n] # Unset THEN saved.env[n]
                                       ELSE IF s.env[n] # Unset THEN Unset ELSE s.penv[n]
  BY <1>1, <1>5, ShellRestored
<1> HIDE DEF t, d, l
<1>8. ASSUME ~(Does("unset") /\ Does("local")) PROVE TypedKept(d, sc, t)
  <2>1. TypedKept(c, sc, s)
    BY <1>8 DEF Sound
  <2>2. \A n \in Names : t.typed[n] \in {Unset, t.env[n]}
    BY <1>2, <1>4, <1>7, <2>1 DEF TypedKept
  <2> QED BY <1>2, <2>1, <2>2 DEF TypedKept
<1>9. ASSUME ~KeepsTemporaries PROVE AllClean(d, sc, t)
  <2>1. AllClean(c, sc, s)
    BY <1>9 DEF Sound
  <2>2. ASSUME NEW n \in Names PROVE CleanTables(d, sc, t, n, l)
    <3>1. CleanTables(c, sc, saved, n, l) /\ CleanTables(c, sc, s, n, l + 1)
      BY <1>2, <1>4, <2>1 DEF AllClean, CleanLevel, l
    <3>2. ~Given(c, n, l) => ValuesClean(saved, n) /\ ValuesClean(s, n)
      BY <1>3, <1>4, <3>1 DEF CleanTables
    <3>3. ~Given(c, n, l) => ValuesClean(t, n)
      BY <1>7, <3>2, UnsetIsNone DEF ValuesClean
    <3> QED BY <1>2, <1>3, <1>7, <3>1, <3>3 DEF CleanTables
  <2> QED BY <1>2, <1>3, <2>1, <2>2 DEF AllClean
<1>10. ASSUME ~MisleadsChildren PROVE InEnvironment(d, sc, t)
  <2>1. InEnvironment(c, sc, s)
    BY <1>10 DEF Sound
  <2>2. ASSUME NEW n \in Names, ~Given(d, n, l), ~Hidden(d, sc, n, l) PROVE Matches(t, n)
    <3>1. Matches(s, n)
      BY <1>2, <1>3, <1>4, <2>1, <2>2 DEF InEnvironment, l
    <3> QED BY <1>7, <3>1 DEF Matches
  <2>3. \A n \in Names : ~Hidden(d, sc, n, l) => t.shadowed[n] = Unset
    BY <1>2, <1>3, <1>4, <1>7, <2>1 DEF InEnvironment
  <2> QED BY <1>2, <1>3, <2>1, <2>2, <2>3 DEF InEnvironment
<1>11. ASSUME ~MisleadsChildren PROVE ExportsKept(d, sc, t)
  <2>1. ExportsKept(c, sc, s)
    BY <1>11 DEF Sound
  <2>2. \A n : ExportedAt(c, sc, n, l) => n \in t.exported
    BY <1>4, <1>7 DEF ExportedAt
  <2> QED BY <1>2, <1>3, <2>1, <2>2 DEF ExportsKept
<1>12. Sound(d, sc, t)
  BY <1>1, <1>2, <1>6, <1>7, <1>8, <1>9, <1>10, <1>11 DEF Sound
<1> QED BY <1>2, <1>12 DEF d, t, l

LEMMA EndPrefixSound ==
  ASSUME FramesInv, EndPrefix
  PROVE  Sound(control', scopes', sh')
<1> DEFINE c == control
           d == Front(c)
           l == Len(c)
           p == c[l]
<1>1. /\ c \in Seq(Entries) /\ scopes \in Seq(ScopeRecords) /\ sh \in Tables
      /\ Sound(c, scopes, sh) /\ c # <<>>
  BY DEF FramesInv, Sound, EndPrefix, OnTop
<1>2. /\ d \in Seq(Entries) /\ Len(d) = l - 1 /\ l \in Nat \ {0} /\ l \in 1 .. l
      /\ DOMAIN c = 1 .. l /\ DOMAIN d = 1 .. l - 1
      /\ Last(c) = c[l] /\ \A i \in 1 .. l - 1 : d[i] = c[i]
      /\ \A i \in 1 .. l : c[i] \in Entries
  BY <1>1, PopIs
<1>3. /\ \A n : \A k \in 1 .. l - 1 :
           /\ CleanLevel(d, scopes, n, k) <=> CleanLevel(c, scopes, n, k)
           /\ ExportedAt(d, scopes, n, k) <=> ExportedAt(c, scopes, n, k)
      /\ \A n : \A k \in 1 .. l : /\ Hidden(d, scopes, n, k) <=> Hidden(c, scopes, n, k)
                                  /\ Given(d, n, k) <=> Given(c, n, k)
                                  /\ HidGiven(d, scopes, n, k) <=> HidGiven(c, scopes, n, k)
      /\ \A n : /\ Given(c, n, l + 1) <=> (Given(c, n, l) \/ Gives(c, l, n))
                /\ Hidden(c, scopes, n, l + 1) <=> (Hidden(c, scopes, n, l) \/ Hides(c, scopes, l, n))
                /\ HidGiven(c, scopes, n, l + 1) <=>
                     (HidGiven(c, scopes, n, l) \/ (Hides(c, scopes, l, n) /\ Given(c, n, l)))
  BY <1>1, PopLevels
<1>4. /\ p.kind = "prefix" /\ control' = d /\ scopes' = scopes
      /\ sh' = [RestoreVar(sh, p.name, p.value) EXCEPT !.typed[p.name] = p.typed,
                                                      !.exported = p.exported]
  BY <1>2 DEF EndPrefix, OnTop
<1>5. p \in PrefixEntries
  BY <1>2, <1>4, EntryCases
<1>6. \A n : (Gives(c, l, n) <=> n = p.name) /\ ~Hides(c, scopes, l, n)
  BY <1>4 DEF Gives, Hides
<1>7. /\ Placed(d, scopes) /\ (~Does("trap") => AllPlaced(d, scopes))
      /\ ~(Does("prefix") \/ Does("eval")) => NoPrefixes(d)
  BY <1>1, <1>2, <1>4, PopOther DEF Sound
<1>8. /\ p.name \in Names /\ p.value \in Value /\ p.typed \in Value /\ p.exported \subseteq Names
  BY <1>5 DEF PrefixEntries
<1> DEFINE u == RestoreVar(sh, p.name, p.value)
<1>9. /\ Touches(sh, u, p.name) /\ u.shadowed = sh.shadowed /\ u.typed = sh.typed
      /\ u.env[p.name] = p.value /\ u.penv[p.name] = p.value
  BY <1>1, <1>8, RestoreTouches
<1> HIDE DEF u, d, l
<1>10. u \in Tables
  BY <1>9 DEF Touches
<1>11. /\ sh' \in Tables /\ sh'.env = u.env /\ sh'.penv = u.penv /\ sh'.shadowed = u.shadowed
       /\ sh'.typed = [u.typed EXCEPT ![p.name] = p.typed] /\ sh'.exported = p.exported
  BY <1>4, <1>8, <1>10 DEF Tables, u
<1>12. /\ \A n \in Names : sh'.shadowed[n] = sh.shadowed[n]
       /\ sh'.env[p.name] = p.value /\ sh'.penv[p.name] = p.value /\ sh'.typed[p.name] = p.typed
       /\ \A n \in Names : n # p.name =>
            /\ sh'.env[n] = sh.env[n] /\ sh'.penv[n] = sh.penv[n] /\ sh'.typed[n] = sh.typed[n]
  BY <1>8, <1>9, <1>10, <1>11 DEF Touches, SameAt, Tables
<1>13. ASSUME ~(Does("unset") /\ Does("local")) PROVE TypedKept(d, scopes, sh')
  <2>1. TypedKept(c, scopes, sh)
    BY <1>1, <1>13 DEF Sound
  <2>2. \A n \in Names : sh'.typed[n] \in {Unset, sh'.env[n]}
    BY <1>2, <1>4, <1>12, <2>1 DEF TypedKept
  <2> QED BY <1>2, <2>1, <2>2 DEF TypedKept
<1>14. ASSUME ~KeepsTemporaries PROVE AllClean(d, scopes, sh')
  <2>1. AllClean(c, scopes, sh)
    BY <1>1, <1>14 DEF Sound
  <2>2. ASSUME NEW n \in Names PROVE CleanTables(d, scopes, sh', n, l)
    <3>1. CleanTables(c, scopes, sh, n, l + 1) /\ CleanLevel(c, scopes, n, l)
      BY <1>2, <2>1 DEF AllClean, l
    <3>2. ~Given(c, n, l) => ValuesClean(sh', n)
      <4>1. CASE n = p.name
        BY <1>6, <1>12, <3>1, <4>1 DEF CleanLevel, ValuesClean
      <4>2. CASE n # p.name
        BY <1>3, <1>6, <1>12, <3>1, <4>2 DEF CleanTables, ValuesClean
      <4> QED BY <4>1, <4>2
    <3>3. ~HidGiven(c, scopes, n, l) => sh'.shadowed[n] \notin Temporary
      BY <1>3, <1>6, <1>12, <3>1 DEF CleanTables
    <3> QED BY <1>2, <1>3, <3>2, <3>3 DEF CleanTables
  <2> QED BY <1>2, <1>3, <2>1, <2>2 DEF AllClean
<1>15. ASSUME ~MisleadsChildren PROVE InEnvironment(d, scopes, sh') /\ ExportsKept(d, scopes, sh')
  <2>1. InEnvironment(c, scopes, sh) /\ ExportsKept(c, scopes, sh)
    BY <1>1, <1>15 DEF Sound
  <2>2. ASSUME NEW n \in Names, ~Given(d, n, l), ~Hidden(d, scopes, n, l) PROVE Matches(sh', n)
    <3>1. CASE n = p.name
      BY <1>12, <3>1 DEF Matches
    <3>2. CASE n # p.name
      <4>1. ~Given(c, n, l + 1) /\ ~Hidden(c, scopes, n, l + 1)
        BY <1>2, <1>3, <1>6, <2>2, <3>2
      <4>2. Matches(sh, n)
        BY <2>1, <4>1 DEF InEnvironment, l
      <4>3. n \in p.exported => n \in sh.exported
        BY <1>2, <1>4, <2>1, <4>1 DEF ExportsKept, l
      <4> QED BY <1>11, <1>12, <3>2, <4>2, <4>3 DEF Matches
    <3> QED BY <3>1, <3>2
  <2>3. \A n \in Names : ~Hidden(d, scopes, n, l) => sh'.shadowed[n] = Unset
    BY <1>2, <1>3, <1>6, <1>12, <2>1 DEF InEnvironment, l
  <2>4. InEnvironment(d, scopes, sh')
    BY <1>2, <1>3, <2>1, <2>2, <2>3 DEF InEnvironment
  <2>5. \A n : ExportedAt(c, scopes, n, l) => n \in sh'.exported
    BY <1>4, <1>11 DEF ExportedAt
  <2>6. ExportsKept(d, scopes, sh')
    BY <1>2, <1>3, <2>1, <2>5 DEF ExportsKept
  <2> QED BY <2>4, <2>6
<1>16. Sound(d, scopes, sh')
  BY <1>1, <1>2, <1>7, <1>11, <1>13, <1>14, <1>15 DEF Sound
<1> QED BY <1>4, <1>16

\* Where no frame was left behind, the innermost function hides what the last
\* scope saved.
LEMMA LastScopeIs ==
  ASSUME NEW c, NEW sc, NEW s, Sound(c, sc, s), c # <<>>, Last(c).kind = "function",
         ~Does("local") \/ (~Does("trap") /\ ~Does("unset"))
  PROVE  /\ DOMAIN Last(sc).typed = DOMAIN Last(sc).vars
         /\ \A n : Hides(c, sc, Len(c), n) <=> n \in DOMAIN Last(sc).vars
         /\ \A n : Hides(c, sc, Len(c), n) => sc[c[Len(c)].scope] = Last(sc)
<1> DEFINE l == Len(c)
<1>1. c \in Seq(Entries) /\ sc \in Seq(ScopeRecords) /\ Placed(c, sc)
  BY DEF Sound
<1>2. l \in Nat \ {0} /\ DOMAIN c = 1 .. l /\ c[l].kind = "function" /\ l \in Functions(c)
  <2>1. c \in Seq(Entries)
    BY <1>1
  <2>2. l \in Nat \ {0} /\ DOMAIN c = 1 .. l /\ Last(c) = c[l]
    BY <2>1, PopIs
  <2> QED BY <2>2 DEF Functions
<1>3. c[l].scope \in DOMAIN sc /\ DOMAIN sc = 1 .. Len(sc) /\ Len(sc) \in Nat
  BY <1>1, <1>2 DEF Placed
<1>4. sc # <<>> /\ Len(sc) > 0 /\ Last(sc) = sc[Len(sc)] /\ Len(sc) \in DOMAIN sc
  BY <1>3 DEF Last
<1>5. TypedKept(c, sc, s)
  BY DEF Sound
<1>6. DOMAIN Last(sc).typed = DOMAIN Last(sc).vars
  BY <1>4, <1>5 DEF TypedKept
<1>7. CASE ~Does("local")
  <2>1. \A k \in DOMAIN sc : DOMAIN sc[k].vars = {}
    BY <1>7 DEF Sound, NoLocals
  <2>2. \A n : ~Hides(c, sc, l, n) /\ n \notin DOMAIN Last(sc).vars
    BY <1>3, <1>4, <2>1 DEF Hides
  <2> QED BY <1>6, <2>2
<1>8. CASE ~Does("trap")
  <2>1. AllPlaced(c, sc)
    BY <1>8 DEF Sound
  <2>2. PICK i \in Functions(c) : c[i].scope = Len(sc) /\ \A j \in Functions(c) : j <= i
    BY <1>1, <1>4, <2>1, InnermostIs
  <2>3. i = l
    BY <1>2, <2>2 DEF Functions
  <2>4. sc[c[l].scope] = Last(sc)
    BY <1>4, <2>2, <2>3
  <2> QED BY <1>2, <1>6, <2>4 DEF Hides
<1> QED BY <1>7, <1>8

\* The end of a function takes its scope down and puts its locals back.
LEMMA PopFunctionSound ==
  ASSUME NEW c, NEW sc, NEW s, Sound(c, sc, s), c # <<>>, Last(c).kind = "function"
  PROVE  /\ Len(sc) > 0
         /\ Sound(Front(c), Front(sc), RestoreLocals(s, Last(sc)))
<1> DEFINE d == Front(c)
           td == Front(sc)
           l == Len(c)
           r == Last(sc)
           t == RestoreLocals(s, r)
<1>1. c \in Seq(Entries) /\ sc \in Seq(ScopeRecords) /\ s \in Tables /\ Placed(c, sc)
  BY DEF Sound
<1>2. /\ d \in Seq(Entries) /\ Len(d) = l - 1 /\ l \in Nat \ {0} /\ l \in 1 .. l
      /\ DOMAIN c = 1 .. l /\ DOMAIN d = 1 .. l - 1
      /\ Last(c) = c[l] /\ \A i \in 1 .. l - 1 : d[i] = c[i]
  <2>1. c \in Seq(Entries)
    BY <1>1
  <2> QED BY <2>1, PopIs
<1>3. l \in Functions(c) /\ c[l].kind = "function"
  BY <1>2 DEF Functions
<1>4. sc # <<>> /\ Len(sc) \in Nat \ {0} /\ c[l].scope \in 1 .. Len(sc)
  BY <1>1, <1>3 DEF Placed
<1>5. /\ td \in Seq(ScopeRecords) /\ Len(td) = Len(sc) - 1
      /\ DOMAIN sc = 1 .. Len(sc) /\ DOMAIN td = 1 .. Len(sc) - 1
      /\ r = sc[Len(sc)] /\ \A i \in 1 .. Len(sc) - 1 : td[i] = sc[i]
      /\ r \in ScopeRecords
  <2>1. sc \in Seq(ScopeRecords) /\ sc # <<>>
    BY <1>1, <1>4
  <2>2. /\ td \in Seq(ScopeRecords) /\ Len(td) = Len(sc) - 1 /\ Len(sc) \in Nat \ {0}
        /\ DOMAIN sc = 1 .. Len(sc) /\ DOMAIN td = 1 .. Len(sc) - 1
        /\ r = sc[Len(sc)] /\ \A i \in 1 .. Len(sc) - 1 : td[i] = sc[i]
        /\ \A i \in 1 .. Len(sc) : sc[i] \in ScopeRecords
    BY <2>1, PopIs
  <2>3. r \in ScopeRecords
    BY <2>2
  <2> QED BY <2>2, <2>3
<1>6. \A i \in Functions(c) : i < l =>
        c[i].scope \in 1 .. Len(sc) - 1 /\ td[c[i].scope] = sc[c[i].scope]
  <2> SUFFICES ASSUME NEW i \in Functions(c), i < l
               PROVE  c[i].scope \in 1 .. Len(sc) - 1 /\ td[c[i].scope] = sc[c[i].scope]
    OBVIOUS
  <2>1. c[i].scope \in 1 .. Len(sc) /\ c[i].scope < c[l].scope
    BY <1>1, <1>3, <1>5 DEF Placed
  <2>2. c[i].scope \in 1 .. Len(sc) - 1
    BY <1>4, <2>1
  <2> QED BY <1>5, <2>2
<1>7. /\ \A n : \A k \in 1 .. l - 1 : /\ CleanLevel(d, td, n, k) <=> CleanLevel(c, sc, n, k)
                                      /\ ExportedAt(d, td, n, k) <=> ExportedAt(c, sc, n, k)
      /\ \A n : \A k \in 1 .. l : /\ Hidden(d, td, n, k) <=> Hidden(c, sc, n, k)
                                  /\ Given(d, n, k) <=> Given(c, n, k)
                                  /\ HidGiven(d, td, n, k) <=> HidGiven(c, sc, n, k)
      /\ \A n : /\ Given(c, n, l + 1) <=> (Given(c, n, l) \/ Gives(c, l, n))
                /\ Hidden(c, sc, n, l + 1) <=> (Hidden(c, sc, n, l) \/ Hides(c, sc, l, n))
                /\ HidGiven(c, sc, n, l + 1) <=>
                     (HidGiven(c, sc, n, l) \/ (Hides(c, sc, l, n) /\ Given(c, n, l)))
  BY <1>1, <1>6, PopLevels
<1>8. \A n : ~Gives(c, l, n)
  BY <1>3 DEF Gives
<1> DEFINE D == DOMAIN r.vars
<1>9. /\ t \in Tables
      /\ \A n \in D : /\ t.env[n] = r.vars[n].value /\ t.penv[n] = r.vars[n].value
                      /\ t.typed[n] = r.typed[n] /\ t.shadowed[n] = Unset
                      /\ n \in t.exported <=> r.vars[n].attrs.exported
      /\ \A n \in Names \ DOMAIN r.typed : SameAt(s, t, n)
  <2>1. s \in Tables /\ r \in ScopeRecords
    BY <1>1, <1>5
  <2> HIDE DEF r
  <2> QED BY <2>1, LocalsRestored
<1>10. D \subseteq Names
  BY <1>5, ScopeHas
<1>11. ~Does("local") \/ (~Does("trap") /\ ~Does("unset")) =>
         /\ DOMAIN r.typed = D
         /\ \A n : Hides(c, sc, l, n) <=> n \in D
         /\ \A n : Hides(c, sc, l, n) => sc[c[l].scope] = r
  BY LastScopeIs
<1> HIDE DEF d, td, l, r, t, D
<1>12. Functions(d) = Functions(c) \ {l} /\ \A i \in Functions(d) : i < l /\ d[i] = c[i]
  BY <1>2 DEF Functions
<1>13. Placed(d, td)
  BY <1>1, <1>5, <1>6, <1>12 DEF Placed
<1>14. ASSUME ~Does("trap") PROVE AllPlaced(d, td)
  <2>1. AllPlaced(c, sc)
    BY <1>14 DEF Sound
  <2>2. PICK j \in Functions(c) : c[j].scope = Len(sc) /\ \A i \in Functions(c) : i <= j
    <3>1. Len(sc) > 0
      BY <1>4
    <3> QED BY <1>1, <2>1, <3>1, InnermostIs
  <2>3. j = l
    BY <1>2, <1>3, <2>2 DEF Functions
  <2>4. ASSUME NEW k \in DOMAIN td PROVE \E i \in Functions(d) : d[i].scope = k
    <3>1. k \in 1 .. Len(sc) /\ k # Len(sc)
      BY <1>4, <1>5
    <3>2. PICK i \in Functions(c) : c[i].scope = k
      BY <1>5, <2>1, <3>1 DEF AllPlaced
    <3>3. i # l
      BY <2>2, <2>3, <3>1, <3>2
    <3> QED BY <1>12, <3>2, <3>3
  <2> QED BY <2>4 DEF AllPlaced
<1>15. ~Does("local") => NoLocals(td)
  BY <1>4, <1>5 DEF Sound, NoLocals
<1>16. ~(Does("prefix") \/ Does("eval")) => NoPrefixes(d)
  BY <1>2 DEF Sound, NoPrefixes
<1>17. ASSUME ~(Does("unset") /\ Does("local")) PROVE TypedKept(d, td, t)
  <2>1. TypedKept(c, sc, s)
    BY <1>17 DEF Sound
  <2>2. DOMAIN r.typed = D /\ \A n \in D : r.typed[n] \in {Unset, r.vars[n].value}
    BY <1>4, <1>5, <2>1 DEF TypedKept, D
  <2>3. \A n \in Names : t.typed[n] \in {Unset, t.env[n]}
    <3> SUFFICES ASSUME NEW n \in Names PROVE t.typed[n] \in {Unset, t.env[n]}
      OBVIOUS
    <3>1. CASE n \in D
      BY <1>9, <2>2, <3>1
    <3>2. CASE n \notin D
      BY <1>9, <2>1, <2>2, <3>2 DEF SameAt, TypedKept
    <3> QED BY <3>1, <3>2
  <2>4. \A k \in DOMAIN td :
          /\ DOMAIN td[k].typed = DOMAIN td[k].vars
          /\ \A n \in DOMAIN td[k].vars : td[k].typed[n] \in {Unset, td[k].vars[n].value}
    BY <1>4, <1>5, <2>1 DEF TypedKept
  <2>5. \A i \in DOMAIN d :
          /\ d[i].kind = "prefix" => d[i].typed \in {Unset, d[i].value}
          /\ d[i].kind = "subshell" =>
               \A n \in Names : d[i].store.typed[n] \in {Unset, d[i].store.env[n]}
    BY <1>2, <2>1 DEF TypedKept
  <2> QED BY <2>3, <2>4, <2>5 DEF TypedKept
<1>18. ASSUME ~KeepsTemporaries PROVE AllClean(d, td, t)
  <2>1. AllClean(c, sc, s)
    BY <1>18 DEF Sound
  <2>2. /\ DOMAIN r.typed = D
        /\ \A n : Hides(c, sc, l, n) <=> n \in D
        /\ \A n : Hides(c, sc, l, n) => sc[c[l].scope] = r
    BY <1>11, <1>18 DEF KeepsTemporaries
  <2>3. ASSUME NEW n \in Names PROVE CleanTables(d, td, t, n, l)
    <3>1. CleanTables(c, sc, s, n, l + 1) /\ CleanLevel(c, sc, n, l)
      BY <1>2, <2>1 DEF AllClean, l
    <3>2. CASE n \in D
      <4>1. ~Given(c, n, l) => r.vars[n].value \notin Temporary /\ r.typed[n] \notin Temporary
        BY <2>2, <3>1, <3>2 DEF CleanLevel
      <4> QED BY <1>2, <1>7, <1>9, <3>2, <4>1, UnsetIsNone DEF CleanTables, ValuesClean
    <3>3. CASE n \notin D
      <4>1. SameAt(s, t, n) /\ ~Hides(c, sc, l, n)
        BY <1>9, <2>2, <3>3
      <4>2. /\ Given(d, n, l) <=> Given(c, n, l + 1)
            /\ HidGiven(d, td, n, l) <=> HidGiven(c, sc, n, l + 1)
        BY <1>2, <1>7, <1>8, <4>1
      <4> QED BY <3>1, <4>1, <4>2 DEF CleanTables, ValuesClean, SameAt
    <3> QED BY <3>2, <3>3
  <2> QED BY <1>2, <1>7, <2>1, <2>3 DEF AllClean
<1>19. ASSUME ~MisleadsChildren PROVE InEnvironment(d, td, t) /\ ExportsKept(d, td, t)
  <2>1. InEnvironment(c, sc, s) /\ ExportsKept(c, sc, s)
    BY <1>19 DEF Sound
  <2>2. /\ DOMAIN r.typed = D
        /\ \A n : Hides(c, sc, l, n) <=> n \in D
        /\ \A n : Hides(c, sc, l, n) => sc[c[l].scope] = r
    BY <1>11, <1>19 DEF MisleadsChildren
  <2>3. ASSUME NEW n \in Names, n \notin D
        PROVE  /\ SameAt(s, t, n)
               /\ Given(d, n, l) <=> Given(c, n, l + 1)
               /\ Hidden(d, td, n, l) <=> Hidden(c, sc, n, l + 1)
    BY <1>2, <1>7, <1>8, <1>9, <2>2, <2>3
  <2>4. ASSUME NEW n \in Names, ~Given(d, n, l), ~Hidden(d, td, n, l) PROVE Matches(t, n)
    <3>1. CASE n \in D
      BY <1>9, <3>1 DEF Matches
    <3>2. CASE n \notin D
      <4>1. Matches(s, n)
        BY <2>1, <2>3, <2>4, <3>2 DEF InEnvironment, l
      <4> QED BY <2>3, <3>2, <4>1 DEF Matches, SameAt
    <3> QED BY <3>1, <3>2
  <2>5. \A n \in Names : ~Hidden(d, td, n, l) => t.shadowed[n] = Unset
    <3> SUFFICES ASSUME NEW n \in Names, ~Hidden(d, td, n, l) PROVE t.shadowed[n] = Unset
      OBVIOUS
    <3>1. CASE n \in D
      BY <1>9, <3>1
    <3>2. CASE n \notin D
      <4>1. s.shadowed[n] = Unset
        BY <2>1, <2>3, <3>2 DEF InEnvironment, l
      <4> QED BY <2>3, <3>2, <4>1 DEF SameAt
    <3> QED BY <3>1, <3>2
  <2>6. InEnvironment(d, td, t)
    BY <1>2, <1>7, <2>1, <2>4, <2>5 DEF InEnvironment
  <2>7. ASSUME NEW i \in DOMAIN d, d[i].kind = "prefix", NEW n \in d[i].exported
        PROVE  /\ ~Hidden(d, td, n, Len(d) + 1) => n \in t.exported
               /\ \A k \in DOMAIN d : i < k /\ ~Hidden(d, td, n, k) => ExportedAt(d, td, n, k)
    <3>1. /\ i \in DOMAIN c /\ c[i].kind = "prefix" /\ n \in c[i].exported /\ i < l
          /\ Len(d) + 1 = l
      BY <1>2, <2>7
    <3>2. \A k \in DOMAIN c : i < k /\ ~Hidden(c, sc, n, k) => ExportedAt(c, sc, n, k)
      BY <2>1, <3>1 DEF ExportsKept
    <3>3. n \in Names
      <4>1. c[i] \in PrefixEntries
        BY <1>1, <1>2, <3>1, EntryCases
      <4> QED BY <3>1, <4>1 DEF PrefixEntries
    <3>4. ASSUME ~Hidden(d, td, n, l) PROVE n \in t.exported
      <4>1. CASE n \in D
        <5>1. ExportedAt(c, sc, n, l)
          BY <1>2, <1>7, <3>1, <3>2, <3>4
        <5>2. r.vars[n].attrs.exported
          BY <2>2, <4>1, <5>1 DEF ExportedAt
        <5> QED BY <1>9, <4>1, <5>2
      <4>2. CASE n \notin D
        <5>1. n \in s.exported
          BY <2>1, <2>3, <3>1, <3>3, <3>4, <4>2 DEF ExportsKept, l
        <5> QED BY <2>3, <3>3, <4>2, <5>1 DEF SameAt
      <4> QED BY <4>1, <4>2
    <3>5. ASSUME NEW k \in DOMAIN d, i < k, ~Hidden(d, td, n, k) PROVE ExportedAt(d, td, n, k)
      BY <1>2, <1>7, <3>2, <3>5
    <3> QED BY <3>1, <3>4, <3>5
  <2>8. ExportsKept(d, td, t)
    BY <2>7 DEF ExportsKept
  <2> QED BY <2>6, <2>8
<1>20. Sound(d, td, t)
  BY <1>2, <1>5, <1>9, <1>13, <1>14, <1>15, <1>16, <1>17, <1>18, <1>19 DEF Sound
<1> QED BY <1>4, <1>20 DEF d, td, t, r

-------------------------------------------------------------------------------
(* What a handler that fails leaves behind, and a call that was pending *)

\* The function is gone, its scope is not.
LEMMA DropSound ==
  ASSUME NEW c, NEW sc, NEW s, Sound(c, sc, s), c # <<>>, Last(c).kind = "function", Does("trap")
  PROVE  Sound(Front(c), sc, s)
<1> DEFINE d == Front(c)
           l == Len(c)
<1>1. c \in Seq(Entries) /\ sc \in Seq(ScopeRecords) /\ s \in Tables
  BY DEF Sound
<1>2. /\ d \in Seq(Entries) /\ Len(d) = l - 1 /\ l \in Nat \ {0} /\ l \in 1 .. l
      /\ DOMAIN c = 1 .. l /\ DOMAIN d = 1 .. l - 1
      /\ Last(c) = c[l] /\ \A i \in 1 .. l - 1 : d[i] = c[i]
  <2>1. c \in Seq(Entries)
    BY <1>1
  <2> QED BY <2>1, PopIs
<1>3. /\ \A n : \A k \in 1 .. l - 1 : /\ CleanLevel(d, sc, n, k) <=> CleanLevel(c, sc, n, k)
                                      /\ ExportedAt(d, sc, n, k) <=> ExportedAt(c, sc, n, k)
      /\ \A n : \A k \in 1 .. l : /\ Hidden(d, sc, n, k) <=> Hidden(c, sc, n, k)
                                  /\ Given(d, n, k) <=> Given(c, n, k)
                                  /\ HidGiven(d, sc, n, k) <=> HidGiven(c, sc, n, k)
      /\ \A n : /\ Given(c, n, l + 1) <=> (Given(c, n, l) \/ Gives(c, l, n))
                /\ Hidden(c, sc, n, l + 1) <=> (Hidden(c, sc, n, l) \/ Hides(c, sc, l, n))
                /\ HidGiven(c, sc, n, l + 1) <=>
                     (HidGiven(c, sc, n, l) \/ (Hides(c, sc, l, n) /\ Given(c, n, l)))
  BY <1>1, PopLevels
<1>4. c[l].kind = "function" /\ (\A n : ~Gives(c, l, n)) /\ l \in Functions(c)
  BY <1>2 DEF Gives, Functions
<1>5. ASSUME ~Does("local") PROVE \A n : ~Hides(c, sc, l, n)
  <2>1. Placed(c, sc) /\ NoLocals(sc)
    BY <1>5 DEF Sound
  <2> QED BY <1>4, <2>1 DEF Placed, NoLocals, Hides
<1> HIDE DEF d, l
<1>6. Functions(d) = Functions(c) \ {l} /\ \A i \in Functions(d) : d[i] = c[i]
  BY <1>2 DEF Functions
<1>7. Placed(d, sc)
  BY <1>6 DEF Sound, Placed
<1>8. ~(Does("prefix") \/ Does("eval")) => NoPrefixes(d)
  BY <1>2 DEF Sound, NoPrefixes
<1>9. ASSUME ~(Does("unset") /\ Does("local")) PROVE TypedKept(d, sc, s)
  <2>1. TypedKept(c, sc, s)
    BY <1>9 DEF Sound
  <2> QED BY <1>2, <2>1 DEF TypedKept
<1>10. ASSUME ~KeepsTemporaries PROVE AllClean(d, sc, s)
  <2>1. AllClean(c, sc, s)
    BY <1>10 DEF Sound
  <2>2. \A n : ~Hides(c, sc, l, n)
    BY <1>5, <1>10 DEF KeepsTemporaries
  <2>3. \A n \in Names : CleanTables(d, sc, s, n, l)
    BY <1>2, <1>3, <1>4, <2>1, <2>2 DEF AllClean, CleanTables, l
  <2> QED BY <1>2, <1>3, <2>1, <2>3 DEF AllClean
<1>11. ASSUME ~MisleadsChildren PROVE InEnvironment(d, sc, s) /\ ExportsKept(d, sc, s)
  <2>1. InEnvironment(c, sc, s) /\ ExportsKept(c, sc, s)
    BY <1>11 DEF Sound
  <2>2. \A n : ~Hides(c, sc, l, n)
    BY <1>5, <1>11 DEF MisleadsChildren
  <2>3. \A n : /\ Given(d, n, l) <=> Given(c, n, l + 1)
               /\ Hidden(d, sc, n, l) <=> Hidden(c, sc, n, l + 1)
    BY <1>2, <1>3, <1>4, <2>2
  <2>4. InEnvironment(d, sc, s)
    BY <1>2, <1>3, <2>1, <2>3 DEF InEnvironment, l
  <2>5. ExportsKept(d, sc, s)
    BY <1>2, <1>3, <2>1, <2>3 DEF ExportsKept, l
  <2> QED BY <2>4, <2>5
<1>12. Sound(d, sc, s)
  BY <1>1, <1>2, <1>7, <1>8, <1>9, <1>10, <1>11 DEF Sound
<1> QED BY <1>12 DEF d

\* The scope is there, its function never ran.
LEMMA LeftScopeSound ==
  ASSUME NEW c, NEW sc, NEW s, Sound(c, sc, s), Does("trap")
  PROVE  Sound(c, Append(sc, EmptyScope), s)
<1> DEFINE td == Append(sc, EmptyScope)
<1>1. c \in Seq(Entries) /\ sc \in Seq(ScopeRecords) /\ Placed(c, sc)
  BY DEF Sound
<1>2. EmptyScope \in ScopeRecords /\ DOMAIN EmptyScope.vars = {} /\ DOMAIN EmptyScope.typed = {}
  BY NoScope DEF EmptyScope
<1>3. /\ td \in Seq(ScopeRecords) /\ Len(sc) \in Nat
      /\ DOMAIN sc = 1 .. Len(sc) /\ DOMAIN td = 1 .. Len(sc) + 1
      /\ td[Len(sc) + 1] = EmptyScope /\ \A i \in 1 .. Len(sc) : td[i] = sc[i]
  BY <1>1, <1>2, PushIs
<1>4. DOMAIN c = 1 .. Len(c) /\ Len(c) \in Nat
  BY <1>1
<1> HIDE DEF td
<1>5. \A i \in Functions(c) : c[i].scope \in DOMAIN sc /\ td[c[i].scope] = sc[c[i].scope]
  BY <1>1, <1>3 DEF Placed
<1>6. Agree(c, sc, c, td, Len(c))
  BY <1>4, <1>5 DEF Agree, SameEntry, Functions
<1>7. /\ \A n : \A k \in 1 .. Len(c) + 1 : /\ Hidden(c, td, n, k) <=> Hidden(c, sc, n, k)
                                           /\ HidGiven(c, td, n, k) <=> HidGiven(c, sc, n, k)
      /\ \A n : \A k \in 1 .. Len(c) : /\ CleanLevel(c, td, n, k) <=> CleanLevel(c, sc, n, k)
                                       /\ ExportedAt(c, td, n, k) <=> ExportedAt(c, sc, n, k)
  BY <1>4, <1>6, AgreeBelow, AgreeLevels
<1>8. Placed(c, td)
  BY <1>1, <1>3 DEF Placed
<1>9. ~Does("local") => NoLocals(td)
  BY <1>2, <1>3 DEF Sound, NoLocals
<1>10. ASSUME ~(Does("unset") /\ Does("local")) PROVE TypedKept(c, td, s)
  <2>1. TypedKept(c, sc, s)
    BY <1>10 DEF Sound
  <2>2. ASSUME NEW k \in DOMAIN td
        PROVE  /\ DOMAIN td[k].typed = DOMAIN td[k].vars
               /\ \A n \in DOMAIN td[k].vars : td[k].typed[n] \in {Unset, td[k].vars[n].value}
    <3>1. CASE k = Len(sc) + 1
      BY <1>2, <1>3, <3>1
    <3>2. CASE k \in DOMAIN sc
      <4>1. td[k] = sc[k]
        BY <1>3, <3>2
      <4> QED BY <2>1, <3>2, <4>1 DEF TypedKept
    <3> QED BY <1>3, <3>1, <3>2
  <2> QED BY <2>1, <2>2 DEF TypedKept
<1>11. ASSUME ~KeepsTemporaries PROVE AllClean(c, td, s)
  <2>1. AllClean(c, sc, s)
    BY <1>11 DEF Sound
  <2> QED BY <1>4, <1>7, <2>1 DEF AllClean, CleanTables
<1>12. ASSUME ~MisleadsChildren PROVE InEnvironment(c, td, s) /\ ExportsKept(c, td, s)
  <2>1. InEnvironment(c, sc, s) /\ ExportsKept(c, sc, s)
    BY <1>12 DEF Sound
  <2>2. InEnvironment(c, td, s)
    BY <1>4, <1>7, <2>1 DEF InEnvironment
  <2>3. ExportsKept(c, td, s)
    BY <1>4, <1>7, <2>1 DEF ExportsKept
  <2> QED BY <2>2, <2>3
<1>13. Sound(c, td, s)
  BY <1>1, <1>3, <1>8, <1>9, <1>10, <1>11, <1>12 DEF Sound
<1> QED BY <1>13 DEF td

LEMMA CalledSound ==
  ASSUME FramesInv, Running \/ Pending
  PROVE  Sound(Called, scopes, sh)
<1>1. Sound(control, scopes, sh) /\ control \in Seq(Entries)
  BY DEF FramesInv, Sound
<1>2. CASE ~Pending
  BY <1>1, <1>2 DEF Called
<1>3. CASE Pending
  <2> DEFINE l == Len(control)
             e == [control[l] EXCEPT !.for = "called"]
             d == [control EXCEPT ![l] = e]
  <2>1. control # <<>> /\ l \in Nat \ {0} /\ l \in DOMAIN control /\ control[l].kind = "prefix"
    BY <1>1, <1>3 DEF Pending, OnTop, Last
  <2>2. control[l] \in PrefixEntries
    BY <1>1, <2>1, EntryCases
  <2>3. e \in PrefixEntries /\ SameEntry(control[l], e)
    BY <2>2 DEF PrefixEntries, SameEntry
  <2>4. Called = d
    BY <1>3 DEF Called
  <2> HIDE DEF e
  <2>5. e \in Entries
    BY <2>3 DEF Entries
  <2>6. d \in Seq(Entries) /\ Len(d) = l /\ \A i \in 1 .. l : SameEntry(control[i], d[i])
    BY <1>1, <2>1, <2>3, <2>5 DEF SameEntry
  <2> HIDE DEF d
  <2> QED BY <1>1, <2>4, <2>6, RelabelSound
<1> QED BY <1>2, <1>3

-------------------------------------------------------------------------------
(* The invariant holds *)

LEMMA InitSound ==
  ASSUME Init
  PROVE  FramesInv
<1>1. PICK ex \in SUBSET Names, val \in [Names -> Plain \cup {Unset}] :
        sh = [env |-> [n \in Names |-> IF n \in ex THEN val[n] ELSE Unset],
              typed |-> [n \in Names |-> Unset],
              penv |-> [n \in Names |-> IF n \in ex THEN val[n] ELSE Unset],
              shadowed |-> [n \in Names |-> Unset],
              exported |-> {n \in ex : val[n] # Unset}, readonly |-> {}]
  BY Zenon DEF Init
<1>2. scopes = <<>> /\ control = <<>> /\ error = "none"
  BY DEF Init
<1>3. /\ sh \in Tables
      /\ \A n \in Names : /\ sh.typed[n] = Unset /\ sh.shadowed[n] = Unset
                          /\ sh.penv[n] = sh.env[n] /\ sh.env[n] \notin Temporary
  BY <1>1, UnsetIsNone DEF Tables, Value, Plain
<1>4. /\ DOMAIN control = {} /\ DOMAIN scopes = {} /\ Len(control) = 0
      /\ scopes \in Seq(ScopeRecords) /\ control \in Seq(Entries)
  BY <1>2
<1>5. \A n : ~Given(control, n, 1) /\ ~Hidden(control, scopes, n, 1)
  BY DEF Given, Hidden
<1>6. /\ Placed(control, scopes) /\ AllPlaced(control, scopes) /\ NoLocals(scopes)
      /\ NoPrefixes(control) /\ TypedKept(control, scopes, sh) /\ ExportsKept(control, scopes, sh)
  BY <1>3, <1>4 DEF Placed, AllPlaced, NoLocals, NoPrefixes, TypedKept, ExportsKept, Functions
<1>7. AllClean(control, scopes, sh)
  BY <1>3, <1>4, UnsetIsNone DEF AllClean, CleanTables, ValuesClean
<1>8. InEnvironment(control, scopes, sh)
  BY <1>3, <1>4 DEF InEnvironment, Matches
<1> QED BY <1>2, <1>3, <1>4, <1>6, <1>7, <1>8 DEF FramesInv, Sound

LEMMA CallSound ==
  ASSUME FramesInv, Call
  PROVE  Sound(control', scopes', sh')
<1>1. Sound(Called, scopes, sh)
  BY CalledSound DEF Call
<1>2. Sound(Append(Called, [kind |-> "function", scope |-> Len(scopes) + 1]),
            Append(scopes, EmptyScope), sh)
  BY <1>1, PushFunctionSound
<1> QED BY <1>2 DEF Call

LEMMA CallTrapSound ==
  ASSUME FramesInv, NEW e, CallTrapFails(e)
  PROVE  Sound(control', scopes', sh')
<1>1. Sound(Called, scopes, sh) /\ Does("trap")
  BY CalledSound DEF CallTrapFails
<1>2. Sound(Called, Append(scopes, EmptyScope), sh)
  BY <1>1, LeftScopeSound
<1> QED BY <1>2 DEF CallTrapFails

LEMMA EndFunctionSound ==
  ASSUME FramesInv, EndFunction
  PROVE  Sound(control', scopes', sh')
<1>1. Sound(control, scopes, sh) /\ control # <<>> /\ Last(control).kind = "function"
  BY DEF FramesInv, EndFunction, OnTop
<1>2. Sound(Front(control), Front(scopes), RestoreLocals(sh, Last(scopes)))
  BY <1>1, PopFunctionSound
<1> QED BY <1>2 DEF EndFunction

LEMMA SubshellSound ==
  ASSUME FramesInv, Subshell
  PROVE  Sound(control', scopes', sh')
<1>1. Sound(control, scopes, sh)
  BY DEF FramesInv
<1>2. Sound(Append(control, [kind |-> "subshell", store |-> sh]), scopes, sh)
  BY <1>1, PushSubshellSound
<1> QED BY <1>2 DEF Subshell

LEMMA EndSubshellSound ==
  ASSUME FramesInv, EndSubshell
  PROVE  Sound(control', scopes', sh')
<1>1. Sound(control, scopes, sh) /\ control # <<>> /\ Last(control).kind = "subshell"
  BY DEF FramesInv, EndSubshell, OnTop
<1>2. Sound(Front(control), scopes, RestoreShell(sh, Last(control).store))
  BY <1>1, PopSubshellSound
<1> QED BY <1>2 DEF EndSubshell

LEMMA NestingSound ==
  ASSUME FramesInv, Nesting
  PROVE  Sound(control', scopes', sh')
<1>1. CASE \E n \in Names, v \in Temporary, for \in {"call", "eval"} : Prefix(n, v, for)
  BY <1>1, PrefixSound
<1>2. CASE EndPrefix
  BY <1>2, EndPrefixSound
<1>3. CASE Call
  BY <1>3, CallSound
<1>4. CASE CallRefused
  BY <1>4, CalledSound DEF CallRefused
<1>5. CASE EndFunction
  BY <1>5, EndFunctionSound
<1>6. CASE Subshell
  BY <1>6, SubshellSound
<1>7. CASE EndSubshell
  BY <1>7, EndSubshellSound
<1>8. ASSUME NEW e \in {"return", "exit"}, Raise(e) PROVE Sound(control', scopes', sh')
  BY <1>8 DEF FramesInv, Raise
<1>9. ASSUME NEW e \in {"return", "exit"}, CallTrapFails(e) PROVE Sound(control', scopes', sh')
  BY <1>9, CallTrapSound
<1>10. ASSUME NEW e \in {"return", "exit"}, EndFunctionTrapFails(e)
       PROVE  Sound(control', scopes', sh')
  <2>1. Sound(control, scopes, sh) /\ control # <<>> /\ Last(control).kind = "function"
        /\ Does("trap")
    BY <1>10 DEF FramesInv, EndFunctionTrapFails, OnTop
  <2>2. Sound(Front(control), scopes, sh)
    BY <2>1, DropSound
  <2> QED BY <1>10, <2>2 DEF EndFunctionTrapFails
<1> QED BY <1>1, <1>2, <1>3, <1>4, <1>5, <1>6, <1>7, <1>8, <1>9, <1>10, Zenon DEF Nesting

LEMMA VariableCommandSound ==
  ASSUME FramesInv, VariableCommand
  PROVE  Sound(control', scopes', sh')
<1>1. PICK n \in Names :
        \/ Unexport(n)
        \/ UnsetVar(n)
        \/ \E v \in Plain \cup {Unset} : Export(n, v) \/ Readonly(n, v) \/ DeclareLocal(n, v)
        \/ \E v \in Plain : Assign(n, v) \/ DeclareGlobal(n, v)
  BY Zenon DEF VariableCommand
<1>2. CASE Unexport(n)
  BY <1>2, UnexportSound
<1>3. CASE UnsetVar(n)
  BY <1>3, UnsetSound
<1>4. ASSUME NEW v \in Plain \cup {Unset}, Export(n, v) \/ Readonly(n, v)
      PROVE  Sound(control', scopes', sh')
  BY <1>4, AttributeSound
<1>5. ASSUME NEW v \in Plain \cup {Unset}, DeclareLocal(n, v)
      PROVE  Sound(control', scopes', sh')
  BY <1>5, DeclareLocalSound
<1>6. ASSUME NEW v \in Plain, Assign(n, v)
      PROVE  Sound(control', scopes', sh')
  BY <1>6, AssignSound
<1>7. ASSUME NEW v \in Plain, DeclareGlobal(n, v)
      PROVE  Sound(control', scopes', sh')
  BY <1>7, DeclareGlobalSound
<1> QED BY <1>1, <1>2, <1>3, <1>4, <1>5, <1>6, <1>7, Zenon

\* What an error on its way up is.
LEMMA ErrorsAre ==
  ASSUME error \in {"none", "return", "exit"}, Next
  PROVE  error' \in {"none", "return", "exit"}
<1>1. CASE VariableCommand
  BY <1>1 DEF VariableCommand, Unexport, UnsetVar, Export, Readonly, DeclareLocal, Assign,
              DeclareGlobal
<1>2. CASE Nesting
  BY <1>2 DEF Nesting, Prefix, EndPrefix, Call, CallRefused, EndFunction, Subshell, EndSubshell,
              Raise, CallTrapFails, EndFunctionTrapFails
<1> QED BY <1>1, <1>2 DEF Next

LEMMA StepSound ==
  ASSUME FramesInv, [Next]_vars
  PROVE  FramesInv'
<1>1. Sound(control', scopes', sh') /\ features' = features
  <2>1. CASE Next
    <3>1. features' = features
      BY <2>1 DEF Next
    <3>2. Sound(control', scopes', sh')
      BY <2>1, NestingSound, VariableCommandSound DEF Next
    <3> QED BY <3>1, <3>2
  <2>2. CASE UNCHANGED vars
    BY <2>2 DEF vars, FramesInv
  <2> QED BY <2>1, <2>2
<1>2. error' \in {"none", "return", "exit"}
  BY ErrorsAre DEF FramesInv, vars
<1>3. Sound(control, scopes, sh)'
  BY <1>1 DEF Sound, Does, KeepsTemporaries, MisleadsChildren
<1> QED BY <1>2, <1>3 DEF FramesInv

\* The invariant holds in every state.
THEOREM FramesInvariant == Spec => []FramesInv
<1>1. Init => FramesInv
  BY InitSound
<1>2. FramesInv /\ [Next]_vars => FramesInv'
  BY StepSound
<1> QED BY <1>1, <1>2, PTL DEF Spec

-------------------------------------------------------------------------------
(* What the invariant says of the properties *)

LEMMA TypesHold ==
  ASSUME FramesInv
  PROVE  TypeOK
<1>1. /\ sh \in Tables /\ scopes \in Seq(ScopeRecords) /\ control \in Seq(Entries)
      /\ error \in {"none", "return", "exit"}
  BY DEF FramesInv, Sound
<1>2. ASSUME NEW i \in DOMAIN scopes
      PROVE  /\ DOMAIN scopes[i].vars \subseteq DOMAIN scopes[i].typed
             /\ DOMAIN scopes[i].typed \subseteq Names
             /\ \A n \in DOMAIN scopes[i].typed : scopes[i].typed[n] \in Value
             /\ \A n \in DOMAIN scopes[i].vars :
                  scopes[i].vars[n] \in [value : Value, attrs : [exported : BOOLEAN, readonly : BOOLEAN]]
  <2>1. scopes[i] \in ScopeRecords
    BY <1>1
  <2> QED BY <2>1, ScopeHas DEF SavedVars, Marks
<1>3. ASSUME NEW i \in DOMAIN control
      PROVE  \/ control[i] \in [kind : {"function"}, scope : Nat]
             \/ control[i] \in [kind : {"prefix"}, for : {"call", "called", "eval"}, name : Names,
                                value : Value, typed : Value, exported : SUBSET Names]
             \/ control[i] \in [kind : {"subshell"}, store : Tables]
  <2>1. control[i] \in Entries
    BY <1>1
  <2> QED BY <2>1 DEF Entries, FunctionEntries, PrefixEntries, SubshellEntries
<1> QED BY <1>1, <1>2, <1>3, Zenon DEF TypeOK

LEMMA AgreementHolds ==
  ASSUME FramesInv
  PROVE  TablesAgree
<1>1. TypeOK
  BY TypesHold
<1>2. TypedAgrees
  BY DEF TypedAgrees, FramesInv, Sound, TypedKept
<1>3. ChildrenSeeTheTable
  <2> SUFFICES ASSUME control = <<>>, ~MisleadsChildren, NEW n \in sh.exported
               PROVE  ChildValue(sh, n) = sh.env[n] /\ sh.penv[n] = sh.env[n]
    BY DEF ChildrenSeeTheTable
  <2>1. InEnvironment(control, scopes, sh) /\ sh \in Tables /\ Len(control) = 0
    BY DEF FramesInv, Sound
  <2>2. n \in Names
    BY <2>1 DEF Tables
  <2>3. ~Given(control, n, 1) /\ ~Hidden(control, scopes, n, 1)
    BY DEF Given, Hidden
  <2>4. Matches(sh, n) /\ sh.shadowed[n] = Unset
    BY <2>1, <2>2, <2>3 DEF InEnvironment
  <2> QED BY <2>4 DEF Matches, ChildValue
<1> QED BY <1>1, <1>2, <1>3 DEF TablesAgree

\* As many scopes as functions running, where each scope has its function.
LEMMA ScopesCounted ==
  ASSUME NEW c \in Seq(Entries), NEW sc \in Seq(ScopeRecords), Placed(c, sc), AllPlaced(c, sc)
  PROVE  Cardinality(Functions(c)) = Len(sc)
<1> DEFINE f == [i \in Functions(c) |-> c[i].scope]
           N == 1 .. Len(sc)
<1>1. DOMAIN sc = N /\ Len(sc) \in Nat /\ DOMAIN c = 1 .. Len(c) /\ Len(c) \in Nat
  OBVIOUS
<1>2. /\ \A i \in Functions(c) : i \in Nat /\ c[i].scope \in N
      /\ \A i, j \in Functions(c) : i < j => c[i].scope < c[j].scope
  BY <1>1 DEF Placed, Functions
<1>3. \A i, j \in Functions(c) : c[i].scope = c[j].scope => i = j
  <2> SUFFICES ASSUME NEW i \in Functions(c), NEW j \in Functions(c), c[i].scope = c[j].scope
               PROVE  i = j
    OBVIOUS
  <2>1. i \in Nat /\ j \in Nat /\ c[i].scope \in Nat
    BY <1>2
  <2>2. ~(i < j) /\ ~(j < i)
    BY <1>2, <2>1
  <2> QED BY <2>1, <2>2
<1>4. f \in Bijection(Functions(c), N)
  <2>1. f \in Injection(Functions(c), N)
    BY <1>2, <1>3 DEF Injection, IsInjective
  <2>2. f \in Surjection(Functions(c), N)
    BY <1>1, <1>2 DEF Surjection, AllPlaced
  <2> QED BY <2>1, <2>2 DEF Bijection
<1>5. IsFiniteSet(N) /\ Cardinality(N) = Len(sc)
  <2> DEFINE m == Len(sc)
  <2>1. m \in Int /\ 1 \in Int /\ m = IF 1 > m THEN 0 ELSE m - 1 + 1
    BY <1>1
  <2> HIDE DEF m
  <2>2. IsFiniteSet(1 .. m) /\ Cardinality(1 .. m) = IF 1 > m THEN 0 ELSE m - 1 + 1
    BY <2>1, FS_Interval
  <2> QED BY <2>1, <2>2 DEF m
<1>6. Functions(c) \in SUBSET (1 .. Len(c)) /\ IsFiniteSet(1 .. Len(c))
  BY <1>1, FS_Interval DEF Functions
<1>7. IsFiniteSet(Functions(c))
  BY <1>6, FS_Subset
<1> HIDE DEF f, N
<1>8. ExistsBijection(Functions(c), N)
  BY <1>4 DEF ExistsBijection
<1>9. Cardinality(Functions(c)) = Cardinality(N)
  BY <1>5, <1>7, <1>8, FS_Bijection
<1> QED BY <1>5, <1>9

LEMMA TakenDownHolds ==
  ASSUME FramesInv
  PROVE  TakenDown
<1>1. Sound(control, scopes, sh) /\ control \in Seq(Entries) /\ scopes \in Seq(ScopeRecords)
      /\ sh \in Tables /\ Placed(control, scopes)
  BY DEF FramesInv, Sound
<1>2. BalancedWithoutTraps
  <2> SUFFICES ASSUME ~Does("trap")
               PROVE  FunctionDepth = Cardinality({i \in DOMAIN control : Kind(i) = "function"})
    BY DEF BalancedWithoutTraps, FramesBalanced
  <2>1. AllPlaced(control, scopes)
    BY <1>1 DEF Sound
  <2>2. Cardinality(Functions(control)) = Len(scopes)
    BY <1>1, <2>1, ScopesCounted
  <2> QED BY <2>2 DEF Functions, Kind, FunctionDepth
<1>3. TemporariesGone
  <2> SUFFICES ASSUME ~Under("prefix"), ~KeepsTemporaries, NEW n \in Names
               PROVE  /\ {sh.env[n], sh.typed[n], sh.penv[n]} \cap Temporary = {}
                      /\ ChildValue(sh, n) \notin Temporary
                      /\ \A i \in DOMAIN scopes : n \in DOMAIN scopes[i].vars =>
                           {scopes[i].vars[n].value, scopes[i].typed[n]} \cap Temporary = {}
    BY DEF TemporariesGone
  <2>1. AllClean(control, scopes, sh) /\ DOMAIN control = 1 .. Len(control) /\ Len(control) \in Nat
    BY <1>1 DEF Sound
  <2>2. \A k \in 1 .. Len(control) + 1 :
          ~Given(control, n, k) /\ ~HidGiven(control, scopes, n, k)
    <3>1. \A k \in 1 .. Len(control) : ~Gives(control, k, n)
      BY <2>1 DEF Under, Kind, Gives
    <3>2. \A k \in 1 .. Len(control) + 1 : ~Given(control, n, k)
      BY <2>1, <3>1 DEF Given
    <3> QED BY <2>1, <3>2 DEF HidGiven
  <2>3. CleanTables(control, scopes, sh, n, Len(control) + 1)
    BY <2>1 DEF AllClean
  <2>4. ValuesClean(sh, n) /\ sh.shadowed[n] \notin Temporary
    BY <2>1, <2>2, <2>3 DEF CleanTables
  <2>5. {sh.env[n], sh.typed[n], sh.penv[n]} \cap Temporary = {} /\ ChildValue(sh, n) \notin Temporary
    BY <2>4, UnsetIsNone DEF ValuesClean, ChildValue
  <2>6. ASSUME NEW i \in DOMAIN scopes, n \in DOMAIN scopes[i].vars
        PROVE  {scopes[i].vars[n].value, scopes[i].typed[n]} \cap Temporary = {}
    <3>1. Does("local")
      BY <1>1, <2>6 DEF Sound, NoLocals
    <3>2. AllPlaced(control, scopes)
      BY <1>1, <3>1 DEF Sound, KeepsTemporaries
    <3>3. PICK j \in Functions(control) : control[j].scope = i
      BY <3>2 DEF AllPlaced
    <3>4. j \in 1 .. Len(control) /\ Hides(control, scopes, j, n)
      BY <2>1, <2>6, <3>3 DEF Functions, Hides
    <3>5. CleanLevel(control, scopes, n, j) /\ ~Given(control, n, j)
      BY <2>1, <2>2, <3>4 DEF AllClean
    <3> QED BY <3>3, <3>4, <3>5 DEF CleanLevel
  <2> QED BY <2>5, <2>6
<1> QED BY <1>2, <1>3 DEF TakenDown

\* Whatever a script does with functions, temporary assignments, eval and
\* subshells, and on whatever way each of them ends, its frame is taken down
\* with it and no temporary value outlives its command, except where the script
\* does what BalancedWithoutTraps and KeepsTemporaries name.
THEOREM FramesTakenDown == Spec => []TakenDown
<1>1. FramesInv => TakenDown
  BY TakenDownHolds
<1> QED BY <1>1, FramesInvariant, PTL

\* Of every variable the flat table and the typed one say the same, what is saved
\* has the form its restoring takes for granted, and at the top level children get
\* the shell's values, except in the scripts TypedAgrees and MisleadsChildren name.
THEOREM TablesAlwaysAgree == Spec => []TablesAgree
<1>1. FramesInv => TablesAgree
  BY AgreementHolds
<1> QED BY <1>1, FramesInvariant, PTL

-------------------------------------------------------------------------------
(* The bindings as they follow from a stack c, scopes sc, values e and       *)
(* readonly names r: Bindings, of any state.                                 *)

BindsOf(c, sc, i) == IF i = 0 THEN Names
                     ELSE IF c[i].kind = "function" THEN DOMAIN sc[c[i].scope].vars
                     ELSE IF c[i].kind = "prefix" THEN {c[i].name}
                     ELSE Names
SavedEnv(c, sc, i, n) == IF c[i].kind = "function" THEN sc[c[i].scope].vars[n].value
                         ELSE IF c[i].kind = "prefix" THEN c[i].value
                         ELSE c[i].store.env[n]
SavedRo(c, sc, i, n) == IF c[i].kind = "function" THEN sc[c[i].scope].vars[n].attrs.readonly
                        ELSE n \in c[i].store.readonly
OverOf(c, sc, i, n) == {j \in i + 1 .. Len(c) : n \in BindsOf(c, sc, j)}
Owning(c, sc, i, n) == {j \in OverOf(c, sc, i, n) : c[j].kind # "prefix"}
EnvIn(c, sc, e, i, n) == IF OverOf(c, sc, i, n) = {} THEN e[n]
                         ELSE SavedEnv(c, sc, Min(OverOf(c, sc, i, n)), n)
RoIn(c, sc, r, i, n) == IF Owning(c, sc, i, n) = {} THEN n \in r
                        ELSE SavedRo(c, sc, Min(Owning(c, sc, i, n)), n)
KindOf(c, i) == IF i = 0 THEN "shell" ELSE c[i].kind
FrameOf(c, sc, e, r, i) ==
  [kind |-> KindOf(c, i),
   val |-> [n \in BindsOf(c, sc, i) |-> EnvIn(c, sc, e, i, n)],
   ro |-> {n \in BindsOf(c, sc, i) : KindOf(c, i) # "prefix" /\ RoIn(c, sc, r, i, n)}]
Chain(c, sc, e, r) == [k \in 1 .. Len(c) + 1 |-> FrameOf(c, sc, e, r, k - 1)]

LEMMA MinExists ==
  ASSUME NEW S \in SUBSET Nat, S # {}
  PROVE  Min(S) \in S /\ \A y \in S : Min(S) <= y
<1>1. \E x \in S : \A y \in S : x <= y
  BY LeastNumber
<1> QED BY <1>1, Zenon DEF Min

LEMMA BindingsAre == FramesInv => Bindings = Chain(control, scopes, sh.env, sh.readonly)
<1> SUFFICES ASSUME FramesInv PROVE Bindings = Chain(control, scopes, sh.env, sh.readonly)
  OBVIOUS
<1> DEFINE N == Len(control)
<1>1. N \in Nat /\ DOMAIN control = 1 .. N
      /\ \A i \in 1 .. N : control[i].kind \in {"function", "prefix", "subshell"}
  <2>1. control \in Seq(Entries)
    BY DEF FramesInv, Sound
  <2>2. N \in Nat /\ DOMAIN control = 1 .. N /\ \A i \in 1 .. N : control[i] \in Entries
    BY <2>1
  <2> QED BY <2>2, EntryCases
<1>2. \A i \in 0 .. N : Binds(i) = BindsOf(control, scopes, i)
  <2> SUFFICES ASSUME NEW i \in 0 .. N PROVE Binds(i) = BindsOf(control, scopes, i)
    OBVIOUS
  <2>1. CASE i = 0
    BY <2>1 DEF Binds, BindsOf
  <2>2. CASE i # 0
    <3>1. control[i].kind \in {"function", "prefix", "subshell"}
      BY <1>1, <2>2
    <3> QED BY <2>2, <3>1 DEF Binds, BindsOf, Kind, ScopeOf
  <2> QED BY <2>1, <2>2
<1>3. \A i \in 1 .. N : \A n : SavedValue(i, n) = SavedEnv(control, scopes, i, n)
  <2> SUFFICES ASSUME NEW i \in 1 .. N, NEW n
               PROVE  SavedValue(i, n) = SavedEnv(control, scopes, i, n)
    OBVIOUS
  <2>1. control[i].kind \in {"function", "prefix", "subshell"}
    BY <1>1
  <2> QED BY <2>1 DEF SavedValue, SavedEnv, Kind, ScopeOf
<1>4. \A i, n : SavedReadonly(i, n) = SavedRo(control, scopes, i, n)
  BY DEF SavedReadonly, SavedRo, Kind, ScopeOf
<1>5. \A i \in 0 .. N : \A n : Over(i, n) = OverOf(control, scopes, i, n)
  BY <1>1, <1>2 DEF Over, OverOf
<1>6. \A i \in 0 .. N : \A n : ValueIn(i, n) = EnvIn(control, scopes, sh.env, i, n)
  <2> SUFFICES ASSUME NEW i \in 0 .. N, NEW n
               PROVE  ValueIn(i, n) = EnvIn(control, scopes, sh.env, i, n)
    OBVIOUS
  <2> DEFINE over == OverOf(control, scopes, i, n)
  <2>1. Over(i, n) = over
    BY <1>5
  <2>2. CASE over = {}
    BY <2>1, <2>2 DEF ValueIn, EnvIn
  <2>3. CASE over # {}
    <3>1. Min(over) \in 1 .. N
      <4>1. over \in SUBSET Nat /\ over \subseteq 1 .. N
        BY <1>1 DEF OverOf
      <4> QED BY <4>1, <2>3, MinExists
    <3> QED BY <2>1, <2>3, <3>1, <1>3 DEF ValueIn, EnvIn
  <2> QED BY <2>2, <2>3
<1>7. \A i \in 0 .. N : \A n : ReadonlyIn(i, n) = RoIn(control, scopes, sh.readonly, i, n)
  <2> SUFFICES ASSUME NEW i \in 0 .. N, NEW n
               PROVE  ReadonlyIn(i, n) = RoIn(control, scopes, sh.readonly, i, n)
    OBVIOUS
  <2>1. {j \in Over(i, n) : Kind(j) # "prefix"} = Owning(control, scopes, i, n)
    BY <1>5 DEF Owning, Kind
  <2> QED BY <2>1, <1>4 DEF ReadonlyIn, RoIn
<1>8. \A k \in 1 .. N + 1 : (IF k = 1 THEN "shell" ELSE Kind(k - 1)) = KindOf(control, k - 1)
  BY <1>1 DEF Kind, KindOf
<1> DEFINE kind(k) == IF k = 1 THEN "shell" ELSE Kind(k - 1)
           frame(k) == [kind |-> kind(k), val |-> [n \in Binds(k - 1) |-> ValueIn(k - 1, n)],
                        ro |-> {n \in Binds(k - 1) : kind(k) # "prefix" /\ ReadonlyIn(k - 1, n)}]
<1>9. \A k \in 1 .. N + 1 : frame(k) = FrameOf(control, scopes, sh.env, sh.readonly, k - 1)
  <2> SUFFICES ASSUME NEW k \in 1 .. N + 1
               PROVE  frame(k) = FrameOf(control, scopes, sh.env, sh.readonly, k - 1)
    OBVIOUS
  <2>1. k - 1 \in 0 .. N /\ kind(k) = KindOf(control, k - 1)
    BY <1>1, <1>8
  <2>2. Binds(k - 1) = BindsOf(control, scopes, k - 1)
    BY <1>2, <2>1
  <2>3. \A n : ValueIn(k - 1, n) = EnvIn(control, scopes, sh.env, k - 1, n)
    BY <1>6, <2>1
  <2>4. \A n : ReadonlyIn(k - 1, n) = RoIn(control, scopes, sh.readonly, k - 1, n)
    BY <1>7, <2>1
  <2> HIDE DEF kind
  <2> QED BY <2>1, <2>2, <2>3, <2>4 DEF FrameOf
<1>10. Bindings = [k \in 1 .. N + 1 |-> frame(k)]
  BY DEF Bindings
<1> HIDE DEF frame
<1> QED BY <1>9, <1>10 DEF Chain

\* What is under a level is what is under the next one, but for that one.
LEMMA LeastIs ==
  ASSUME NEW S \in SUBSET Nat, NEW x \in S, \A y \in S : x <= y
  PROVE  Min(S) = x
<1> DEFINE m == Min(S)
<1>1. m \in S /\ \A y \in S : m <= y
  BY MinExists
<1> HIDE DEF m
<1>2. m = x
  BY <1>1
<1> QED BY <1>2 DEF m

LEMMA OverIs ==
  ASSUME NEW c \in Seq(Entries), NEW sc, NEW i \in 0 .. Len(c), NEW n
  PROVE  /\ OverOf(c, sc, i, n) \in SUBSET Nat /\ Owning(c, sc, i, n) \in SUBSET Nat
         /\ OverOf(c, sc, i, n) \subseteq i + 1 .. Len(c)
         /\ Owning(c, sc, i, n) \subseteq OverOf(c, sc, i, n)
BY DEF OverOf, Owning

LEMMA AppendIs ==
  ASSUME NEW N \in Nat, NEW s, s = [k \in 1 .. N |-> s[k]], NEW x
  PROVE  Append(s, x) = [k \in 1 .. N + 1 |-> IF k = N + 1 THEN x ELSE s[k]]
<1> DEFINE S == {s[k] : k \in 1 .. N} \cup {x}
<1>1. s \in Seq(S) /\ Len(s) = N /\ x \in S
  <2>1. s \in [1 .. N -> S] /\ x \in S
    OBVIOUS
  <2> HIDE DEF S
  <2>2. s \in Seq(S) /\ Len(s) = N
    BY <2>1
  <2> QED BY <2>1, <2>2
<1> HIDE DEF S
<1>2. /\ Append(s, x) \in Seq(S) /\ Len(Append(s, x)) = N + 1
      /\ \A k \in 1 .. N + 1 : Append(s, x)[k] = IF k = N + 1 THEN x ELSE s[k]
  BY <1>1
<1>3. Append(s, x) = [k \in 1 .. N + 1 |-> Append(s, x)[k]]
  BY <1>2
<1> QED BY <1>2, <1>3

\* With one entry more: what it saved is what the bindings below it go by.
LEMMA ChainPush ==
  ASSUME NEW c \in Seq(Entries), NEW en \in Entries, NEW sc, NEW e, NEW r, NEW e2, NEW r2,
         \A i \in 1 .. Len(c) : BindsOf(c, sc, i) \subseteq Names,
         LET d == Append(c, en)  l == Len(c) + 1
         IN  \A n \in Names :
               /\ e2[n] = IF n \in BindsOf(d, sc, l) THEN SavedEnv(d, sc, l, n) ELSE e[n]
               /\ n \in r2 <=> IF n \in BindsOf(d, sc, l) /\ en.kind # "prefix"
                               THEN SavedRo(d, sc, l, n) ELSE n \in r
  PROVE  LET d == Append(c, en)
         IN  Chain(d, sc, e, r) = Append(Chain(c, sc, e2, r2), FrameOf(d, sc, e, r, Len(c) + 1))
<1> DEFINE d == Append(c, en)
           N == Len(c)
           l == N + 1
<1>1. /\ N \in Nat /\ Len(d) = l /\ d[l] = en /\ \A i \in 1 .. N : d[i] = c[i]
      /\ d \in Seq(Entries)
  BY PushIs
<1>2. \A n \in Names :
        /\ e2[n] = IF n \in BindsOf(d, sc, l) THEN SavedEnv(d, sc, l, n) ELSE e[n]
        /\ n \in r2 <=> IF n \in BindsOf(d, sc, l) /\ en.kind # "prefix"
                        THEN SavedRo(d, sc, l, n) ELSE n \in r
  OBVIOUS
<1> HIDE DEF d
<1>3. \A i \in 0 .. N : BindsOf(d, sc, i) = BindsOf(c, sc, i) /\ KindOf(d, i) = KindOf(c, i)
  <2> SUFFICES ASSUME NEW i \in 0 .. N
               PROVE  BindsOf(d, sc, i) = BindsOf(c, sc, i) /\ KindOf(d, i) = KindOf(c, i)
    OBVIOUS
  <2>1. CASE i = 0
    BY <2>1 DEF BindsOf, KindOf
  <2>2. CASE i # 0
    <3>1. d[i] = c[i]
      BY <1>1, <2>2
    <3> QED BY <3>1 DEF BindsOf, KindOf
  <2> QED BY <2>1, <2>2
<1>4. \A i \in 1 .. N : \A n : /\ SavedEnv(d, sc, i, n) = SavedEnv(c, sc, i, n)
                          /\ SavedRo(d, sc, i, n) = SavedRo(c, sc, i, n)
  <2> SUFFICES ASSUME NEW i \in 1 .. N, NEW n
               PROVE  /\ SavedEnv(d, sc, i, n) = SavedEnv(c, sc, i, n)
                      /\ SavedRo(d, sc, i, n) = SavedRo(c, sc, i, n)
    OBVIOUS
  <2>1. d[i] = c[i]
    BY <1>1
  <2>2. SavedEnv(d, sc, i, n) = SavedEnv(c, sc, i, n)
    BY <2>1 DEF SavedEnv
  <2>3. SavedRo(d, sc, i, n) = SavedRo(c, sc, i, n)
    BY <2>1 DEF SavedRo
  <2> QED BY <2>2, <2>3
<1>5. ASSUME NEW i \in 0 .. N, NEW n \in Names
      PROVE  EnvIn(d, sc, e, i, n) = EnvIn(c, sc, e2, i, n)
  <2> DEFINE over == OverOf(c, sc, i, n)
             overD == OverOf(d, sc, i, n)
  <2>1. /\ over \in SUBSET Nat /\ over \subseteq 1 .. N
        /\ overD = over \cup (IF n \in BindsOf(d, sc, l) THEN {l} ELSE {})
    BY <1>1, <1>3 DEF OverOf
  <2>2. CASE over = {}
    <3>1. EnvIn(c, sc, e2, i, n) = e2[n]
      BY <2>2 DEF EnvIn
    <3>2. CASE n \in BindsOf(d, sc, l)
      <4>1. overD = {l}
        BY <2>1, <2>2, <3>2
      <4>2. Min(overD) = l
        <5>1. {l} \in SUBSET Nat /\ l \in {l} /\ \A y \in {l} : l <= y
          BY <1>1
        <5>2. Min({l}) = l
          BY <5>1, LeastIs
        <5> QED BY <4>1, <5>2
      <4> QED BY <1>2, <3>1, <3>2, <4>1, <4>2 DEF EnvIn
    <3>3. CASE n \notin BindsOf(d, sc, l)
      <4>1. overD = {}
        BY <2>1, <2>2, <3>3
      <4> QED BY <1>2, <3>1, <3>3, <4>1 DEF EnvIn
    <3> QED BY <3>2, <3>3
  <2>3. CASE over # {}
    <3> DEFINE m == Min(over)
    <3>1. m \in over /\ \A y \in over : m <= y
      BY <2>1, <2>3, MinExists
    <3>2. Min(overD) = m
      <4>1. overD \in SUBSET Nat /\ m \in overD
        BY <1>1, <2>1, <3>1
      <4>2. \A y \in overD : m <= y
        <5>1. m \in 1 .. N
          BY <2>1, <3>1
        <5> QED BY <1>1, <2>1, <3>1, <5>1
      <4> HIDE DEF m, overD
      <4> QED BY <4>1, <4>2, LeastIs
    <3>3. EnvIn(c, sc, e2, i, n) = SavedEnv(c, sc, m, n)
      BY <2>3 DEF EnvIn
    <3>4. EnvIn(d, sc, e, i, n) = SavedEnv(d, sc, m, n)
      BY <2>1, <2>3, <3>2 DEF EnvIn
    <3>5. m \in 1 .. N
      BY <2>1, <3>1
    <3> HIDE DEF m
    <3> QED BY <1>4, <3>3, <3>4, <3>5
  <2> QED BY <2>2, <2>3
<1>6. ASSUME NEW i \in 0 .. N, NEW n \in Names
      PROVE  RoIn(d, sc, r, i, n) <=> RoIn(c, sc, r2, i, n)
  <2> DEFINE over == Owning(c, sc, i, n)
             overD == Owning(d, sc, i, n)
  <2>1. /\ over \in SUBSET Nat /\ over \subseteq 1 .. N
        /\ overD = over \cup (IF n \in BindsOf(d, sc, l) /\ en.kind # "prefix" THEN {l} ELSE {})
    BY <1>1, <1>3 DEF OverOf, Owning
  <2>2. CASE over = {}
    <3>1. RoIn(c, sc, r2, i, n) <=> n \in r2
      BY <2>2 DEF RoIn
    <3>2. CASE n \in BindsOf(d, sc, l) /\ en.kind # "prefix"
      <4>1. overD = {l}
        BY <2>1, <2>2, <3>2
      <4>2. Min(overD) = l
        <5>1. {l} \in SUBSET Nat /\ l \in {l} /\ \A y \in {l} : l <= y
          BY <1>1
        <5>2. Min({l}) = l
          BY <5>1, LeastIs
        <5> QED BY <4>1, <5>2
      <4>3. RoIn(d, sc, r, i, n) <=> SavedRo(d, sc, l, n)
        BY <4>1, <4>2 DEF RoIn
      <4> QED BY <1>2, <3>1, <3>2, <4>3
    <3>3. CASE ~(n \in BindsOf(d, sc, l) /\ en.kind # "prefix")
      <4>1. overD = {}
        BY <2>1, <2>2, <3>3
      <4>2. RoIn(d, sc, r, i, n) <=> n \in r
        BY <4>1 DEF RoIn
      <4> QED BY <1>2, <3>1, <3>3, <4>2
    <3> QED BY <3>2, <3>3
  <2>3. CASE over # {}
    <3> DEFINE m == Min(over)
    <3>1. m \in over /\ \A y \in over : m <= y
      BY <2>1, <2>3, MinExists
    <3>2. Min(overD) = m
      <4>1. overD \in SUBSET Nat /\ m \in overD
        BY <1>1, <2>1, <3>1
      <4>2. \A y \in overD : m <= y
        <5>1. m \in 1 .. N
          BY <2>1, <3>1
        <5> QED BY <1>1, <2>1, <3>1, <5>1
      <4> HIDE DEF m, overD
      <4> QED BY <4>1, <4>2, LeastIs
    <3>3. RoIn(c, sc, r2, i, n) = SavedRo(c, sc, m, n)
      BY <2>3 DEF RoIn
    <3>4. RoIn(d, sc, r, i, n) = SavedRo(d, sc, m, n)
      BY <2>1, <2>3, <3>2 DEF RoIn
    <3>5. m \in 1 .. N
      BY <2>1, <3>1
    <3> HIDE DEF m
    <3> QED BY <1>4, <3>3, <3>4, <3>5
  <2> QED BY <2>2, <2>3
<1>7. \A i \in 0 .. N : BindsOf(c, sc, i) \subseteq Names
  BY <1>1 DEF BindsOf
<1>8. ASSUME NEW i \in 0 .. N
      PROVE  FrameOf(d, sc, e, r, i) = FrameOf(c, sc, e2, r2, i)
  <2>1. [n \in BindsOf(d, sc, i) |-> EnvIn(d, sc, e, i, n)] =
          [n \in BindsOf(c, sc, i) |-> EnvIn(c, sc, e2, i, n)]
    BY <1>3, <1>5, <1>7
  <2>2. {n \in BindsOf(d, sc, i) : KindOf(d, i) # "prefix" /\ RoIn(d, sc, r, i, n)} =
          {n \in BindsOf(c, sc, i) : KindOf(c, i) # "prefix" /\ RoIn(c, sc, r2, i, n)}
    BY <1>3, <1>6, <1>7
  <2> QED BY <1>3, <2>1, <2>2 DEF FrameOf
<1> DEFINE F == Chain(c, sc, e2, r2)
           top == FrameOf(d, sc, e, r, l)
<1>9. Chain(d, sc, e, r) = Append(F, top)
  <2>1. F = [k \in 1 .. N + 1 |-> FrameOf(c, sc, e2, r2, k - 1)]
    BY DEF Chain
  <2>2. Len(F) = N + 1 /\ \A k \in 1 .. N + 1 : F[k] = FrameOf(c, sc, e2, r2, k - 1)
    BY <1>1, <2>1
  <2>3. Append(F, top) = [k \in 1 .. N + 2 |-> IF k = N + 2 THEN top ELSE F[k]]
    <3>1. F = [k \in 1 .. N + 1 |-> F[k]]
      BY <2>1
    <3> HIDE DEF F, top
    <3>2. N + 1 \in Nat /\ (N + 1) + 1 = N + 2
      BY <1>1
    <3> QED BY <3>1, <3>2, AppendIs
  <2>4. Chain(d, sc, e, r) = [k \in 1 .. N + 2 |-> FrameOf(d, sc, e, r, k - 1)]
    BY <1>1 DEF Chain
  <2>5. \A k \in 1 .. N + 2 : FrameOf(d, sc, e, r, k - 1) = IF k = N + 2 THEN top ELSE F[k]
    <3> SUFFICES ASSUME NEW k \in 1 .. N + 2
                 PROVE  FrameOf(d, sc, e, r, k - 1) = IF k = N + 2 THEN top ELSE F[k]
      OBVIOUS
    <3>1. CASE k = N + 2
      <4>1. k - 1 = l
        BY <1>1, <3>1
      <4> QED BY <3>1, <4>1
    <3>2. CASE k # N + 2
      <4>1. k - 1 \in 0 .. N /\ k \in 1 .. N + 1
        BY <1>1, <3>2
      <4>2. FrameOf(d, sc, e, r, k - 1) = FrameOf(c, sc, e2, r2, k - 1)
        BY <1>8, <4>1
      <4> HIDE DEF F
      <4> QED BY <2>2, <3>2, <4>1, <4>2
    <3> QED BY <3>1, <3>2
  <2> HIDE DEF F, top
  <2> QED BY <2>3, <2>4, <2>5
<1> QED BY <1>9 DEF d

\* Stacks that agree bind the same.
LEMMA ChainSame ==
  ASSUME NEW c \in Seq(Entries), NEW sc, NEW d, NEW td, Len(d) = Len(c),
         Agree(c, sc, d, td, Len(c)), NEW e, NEW r
  PROVE  Chain(d, td, e, r) = Chain(c, sc, e, r)
<1> DEFINE N == Len(c)
<1>1. N \in Nat /\ \A i \in 1 .. N : c[i].kind \in {"function", "prefix", "subshell"}
  <2>1. \A i \in 1 .. N : c[i] \in Entries
    OBVIOUS
  <2> QED BY <2>1, EntryCases
<1>2. ASSUME NEW i \in 1 .. N
      PROVE  /\ d[i].kind = c[i].kind /\ d[i].name = c[i].name /\ d[i].value = c[i].value
             /\ c[i].kind # "prefix" => d[i] = c[i]
             /\ c[i].kind = "function" => td[c[i].scope] = sc[c[i].scope]
  BY DEF Agree, SameEntry
<1>3. ASSUME NEW i \in 0 .. N PROVE BindsOf(d, td, i) = BindsOf(c, sc, i) /\ KindOf(d, i) = KindOf(c, i)
  <2>1. CASE i = 0
    BY <2>1 DEF BindsOf, KindOf
  <2>2. CASE i # 0
    <3>1. i \in 1 .. N
      BY <1>1, <2>2
    <3> QED BY <1>2, <2>2, <3>1 DEF BindsOf, KindOf
  <2> QED BY <2>1, <2>2
<1>4. ASSUME NEW i \in 1 .. N, NEW n PROVE SavedEnv(d, td, i, n) = SavedEnv(c, sc, i, n)
  <2>1. CASE c[i].kind = "function"
    BY <1>2, <2>1 DEF SavedEnv
  <2>2. CASE c[i].kind = "prefix"
    BY <1>2, <2>2 DEF SavedEnv
  <2>3. CASE c[i].kind = "subshell"
    BY <1>2, <2>3 DEF SavedEnv
  <2> QED BY <1>1, <2>1, <2>2, <2>3
<1>5. ASSUME NEW i \in 1 .. N, NEW n, c[i].kind # "prefix"
      PROVE  SavedRo(d, td, i, n) = SavedRo(c, sc, i, n)
  <2>1. d[i] = c[i] /\ (c[i].kind = "function" => td[c[i].scope] = sc[c[i].scope])
    BY <1>2, <1>5
  <2> QED BY <2>1 DEF SavedRo
<1>6. ASSUME NEW i \in 0 .. N, NEW n
      PROVE  OverOf(d, td, i, n) = OverOf(c, sc, i, n) /\ Owning(d, td, i, n) = Owning(c, sc, i, n)
  <2>1. OverOf(d, td, i, n) = OverOf(c, sc, i, n)
    BY <1>1, <1>3 DEF OverOf
  <2>2. \A j \in OverOf(c, sc, i, n) : d[j].kind = c[j].kind
    BY <1>1, <1>2 DEF OverOf
  <2> QED BY <2>1, <2>2 DEF Owning
<1>7. ASSUME NEW i \in 0 .. N, NEW n PROVE EnvIn(d, td, e, i, n) = EnvIn(c, sc, e, i, n)
  <2> DEFINE over == OverOf(c, sc, i, n)
  <2>1. CASE over = {}
    BY <1>6, <2>1 DEF EnvIn
  <2>2. CASE over # {}
    <3>1. Min(over) \in 1 .. N
      <4>1. over \in SUBSET Nat /\ over \subseteq 1 .. N
        BY <1>1 DEF OverOf
      <4> QED BY <2>2, <4>1, MinExists
    <3>2. SavedEnv(d, td, Min(over), n) = SavedEnv(c, sc, Min(over), n)
      BY <1>4, <3>1
    <3> QED BY <1>6, <2>2, <3>2 DEF EnvIn
  <2> QED BY <2>1, <2>2
<1>8. ASSUME NEW i \in 0 .. N, NEW n PROVE RoIn(d, td, r, i, n) = RoIn(c, sc, r, i, n)
  <2> DEFINE over == Owning(c, sc, i, n)
  <2>1. CASE over = {}
    BY <1>6, <2>1 DEF RoIn
  <2>2. CASE over # {}
    <3>1. Min(over) \in 1 .. N /\ c[Min(over)].kind # "prefix"
      <4>1. over \in SUBSET Nat /\ over \subseteq 1 .. N /\ \A j \in over : c[j].kind # "prefix"
        BY <1>1 DEF OverOf, Owning
      <4> QED BY <2>2, <4>1, MinExists
    <3>2. SavedRo(d, td, Min(over), n) = SavedRo(c, sc, Min(over), n)
      BY <1>5, <3>1
    <3> QED BY <1>6, <2>2, <3>2 DEF RoIn
  <2> QED BY <2>1, <2>2
<1>9. ASSUME NEW i \in 0 .. N PROVE FrameOf(d, td, e, r, i) = FrameOf(c, sc, e, r, i)
  <2>1. [n \in BindsOf(d, td, i) |-> EnvIn(d, td, e, i, n)] =
          [n \in BindsOf(c, sc, i) |-> EnvIn(c, sc, e, i, n)]
    BY <1>3, <1>7
  <2>2. {n \in BindsOf(d, td, i) : KindOf(d, i) # "prefix" /\ RoIn(d, td, r, i, n)} =
          {n \in BindsOf(c, sc, i) : KindOf(c, i) # "prefix" /\ RoIn(c, sc, r, i, n)}
    BY <1>3, <1>8
  <2> QED BY <1>3, <2>1, <2>2 DEF FrameOf
<1>10. \A k \in 1 .. N + 1 : FrameOf(d, td, e, r, k - 1) = FrameOf(c, sc, e, r, k - 1)
  BY <1>1, <1>9
<1> QED BY <1>10 DEF Chain

\* The binding a name is in, and the one its attributes are in.
Inner(c, sc, n, i) ==
  i \in 0 .. Len(c) /\ n \in BindsOf(c, sc, i) /\ OverOf(c, sc, i, n) = {}
Owns(c, sc, n, o) == /\ o \in 0 .. Len(c) /\ n \in BindsOf(c, sc, o) /\ KindOf(c, o) # "prefix"
                     /\ Owning(c, sc, o, n) = {}

HoldersOf(F, n) == {i \in DOMAIN F : n \in DOMAIN F[i].val}
OwnersOf(F, n) == {i \in HoldersOf(F, n) : F[i].kind # "prefix"}

LEMMA ChainIs ==
  ASSUME NEW c \in Seq(Entries), NEW sc, NEW e, NEW r
  PROVE  LET F == Chain(c, sc, e, r)
         IN  /\ Len(F) = Len(c) + 1 /\ DOMAIN F = 1 .. Len(c) + 1
             /\ F = [k \in 1 .. Len(c) + 1 |-> F[k]]
             /\ \A k \in 1 .. Len(c) + 1 :
                  /\ F[k] = FrameOf(c, sc, e, r, k - 1)
                  /\ F[k].kind = KindOf(c, k - 1) /\ DOMAIN F[k].val = BindsOf(c, sc, k - 1)
<1> DEFINE F == Chain(c, sc, e, r)
<1>1. F = [k \in 1 .. Len(c) + 1 |-> FrameOf(c, sc, e, r, k - 1)] /\ Len(c) \in Nat
  BY DEF Chain
<1>2. \A k : /\ FrameOf(c, sc, e, r, k - 1).kind = KindOf(c, k - 1)
             /\ DOMAIN FrameOf(c, sc, e, r, k - 1).val = BindsOf(c, sc, k - 1)
  BY DEF FrameOf
<1> HIDE DEF F
<1>3. /\ Len(F) = Len(c) + 1 /\ DOMAIN F = 1 .. Len(c) + 1
      /\ \A k \in 1 .. Len(c) + 1 : F[k] = FrameOf(c, sc, e, r, k - 1)
  BY <1>1
<1>4. F = [k \in 1 .. Len(c) + 1 |-> F[k]]
  BY <1>1, <1>3
<1> QED BY <1>2, <1>3, <1>4 DEF F

LEMMA InnerExists ==
  ASSUME NEW c \in Seq(Entries), NEW sc, NEW n \in Names
  PROVE  \E i : Inner(c, sc, n, i)
<1> DEFINE S == {i \in 0 .. Len(c) : n \in BindsOf(c, sc, i)}
<1>1. 0 \in S /\ S \in SUBSET Nat /\ Len(c) \in Nat /\ \A y \in S : y <= Len(c)
  BY DEF BindsOf
<1> HIDE DEF S
<1>2. PICK i \in S : \A y \in S : i >= y
  BY <1>1, MaxExists
<1>3. Inner(c, sc, n, i)
  BY <1>1, <1>2 DEF S, Inner, OverOf
<1> QED BY <1>3

LEMMA OwnerExists ==
  ASSUME NEW c \in Seq(Entries), NEW sc, NEW n \in Names
  PROVE  \E i : Owns(c, sc, n, i)
<1> DEFINE S == {i \in 0 .. Len(c) : n \in BindsOf(c, sc, i) /\ KindOf(c, i) # "prefix"}
<1>1. 0 \in S /\ S \in SUBSET Nat /\ Len(c) \in Nat /\ \A y \in S : y <= Len(c)
  BY DEF BindsOf, KindOf
<1> HIDE DEF S
<1>2. PICK i \in S : \A y \in S : i >= y
  BY <1>1, MaxExists
<1>3. i \in 0 .. Len(c) /\ n \in BindsOf(c, sc, i) /\ KindOf(c, i) # "prefix"
  BY <1>2 DEF S
<1>4. \A j \in i + 1 .. Len(c) : ~(n \in BindsOf(c, sc, j) /\ c[j].kind # "prefix")
  <2> SUFFICES ASSUME NEW j \in i + 1 .. Len(c), n \in BindsOf(c, sc, j), c[j].kind # "prefix"
               PROVE  FALSE
    OBVIOUS
  <2>1. j \in 0 .. Len(c) /\ j > i /\ j # 0
    BY <1>1, <1>3
  <2>2. j \in S
    BY <2>1 DEF S, KindOf
  <2> QED BY <1>2, <1>3, <2>1, <2>2
<1>5. Owning(c, sc, i, n) = {}
  BY <1>4 DEF Owning, OverOf
<1> QED BY <1>3, <1>5 DEF Owns

LEMMA InnerIs ==
  ASSUME NEW c \in Seq(Entries), NEW sc, NEW e, NEW r, NEW n, NEW i, Inner(c, sc, n, i)
  PROVE  LET F == Chain(c, sc, e, r)
         IN  Max(HoldersOf(F, n)) = i + 1 /\ i + 1 \in DOMAIN F /\ F[i + 1].val[n] = e[n]
<1> DEFINE F == Chain(c, sc, e, r)
           H == HoldersOf(F, n)
<1>1. /\ DOMAIN F = 1 .. Len(c) + 1 /\ Len(c) \in Nat
      /\ \A k \in 1 .. Len(c) + 1 : DOMAIN F[k].val = BindsOf(c, sc, k - 1)
      /\ \A k \in 1 .. Len(c) + 1 : F[k] = FrameOf(c, sc, e, r, k - 1)
  BY ChainIs
<1>2. i \in 0 .. Len(c) /\ n \in BindsOf(c, sc, i) /\ OverOf(c, sc, i, n) = {}
  BY DEF Inner
<1>3. i + 1 \in 1 .. Len(c) + 1 /\ (i + 1) - 1 = i
  BY <1>1, <1>2
<1> HIDE DEF F
<1>4. H \in SUBSET Nat /\ i + 1 \in H
  BY <1>1, <1>2, <1>3 DEF HoldersOf
<1>5. ASSUME NEW y \in H PROVE i + 1 >= y
  <2>1. y \in 1 .. Len(c) + 1 /\ n \in BindsOf(c, sc, y - 1)
    BY <1>1 DEF HoldersOf
  <2>2. y - 1 \notin i + 1 .. Len(c)
    BY <1>2, <2>1 DEF OverOf
  <2> QED BY <1>1, <1>2, <2>1, <2>2
<1>6. Max(H) = i + 1
  <2> HIDE DEF H
  <2> QED BY <1>4, <1>5, MaxIs
<1>7. F[i + 1].val[n] = e[n]
  <2>1. F[i + 1] = FrameOf(c, sc, e, r, i)
    BY <1>1, <1>3
  <2>2. FrameOf(c, sc, e, r, i).val[n] = EnvIn(c, sc, e, i, n)
    BY <1>2 DEF FrameOf
  <2> QED BY <1>2, <2>1, <2>2 DEF EnvIn
<1> QED BY <1>1, <1>3, <1>6, <1>7 DEF F

LEMMA OwnsIs ==
  ASSUME NEW c \in Seq(Entries), NEW sc, NEW e, NEW r, NEW n, NEW i, Owns(c, sc, n, i)
  PROVE  LET F == Chain(c, sc, e, r)
         IN  Max(OwnersOf(F, n)) = i + 1 /\ i + 1 \in DOMAIN F /\ (n \in F[i + 1].ro <=> n \in r)
<1> DEFINE F == Chain(c, sc, e, r)
           H == OwnersOf(F, n)
<1>1. /\ DOMAIN F = 1 .. Len(c) + 1 /\ Len(c) \in Nat
      /\ \A k \in 1 .. Len(c) + 1 : DOMAIN F[k].val = BindsOf(c, sc, k - 1) /\ F[k].kind = KindOf(c, k - 1)
      /\ \A k \in 1 .. Len(c) + 1 : F[k] = FrameOf(c, sc, e, r, k - 1)
  BY ChainIs
<1>2. i \in 0 .. Len(c) /\ n \in BindsOf(c, sc, i) /\ KindOf(c, i) # "prefix" /\ Owning(c, sc, i, n) = {}
  BY DEF Owns
<1>3. i + 1 \in 1 .. Len(c) + 1 /\ (i + 1) - 1 = i
  BY <1>1, <1>2
<1> HIDE DEF F
<1>4. H \in SUBSET Nat /\ i + 1 \in H
  BY <1>1, <1>2, <1>3 DEF HoldersOf, OwnersOf
<1>5. ASSUME NEW y \in H PROVE i + 1 >= y
  <2>1. y \in 1 .. Len(c) + 1 /\ n \in BindsOf(c, sc, y - 1) /\ KindOf(c, y - 1) # "prefix"
    BY <1>1 DEF HoldersOf, OwnersOf
  <2>2. y - 1 \notin i + 1 .. Len(c)
    <3> SUFFICES ASSUME y - 1 \in i + 1 .. Len(c) PROVE FALSE
      OBVIOUS
    <3>1. y - 1 # 0 /\ c[y - 1].kind # "prefix"
      BY <1>2, <2>1 DEF KindOf
    <3> QED BY <1>2, <2>1, <3>1 DEF OverOf, Owning
  <2> QED BY <1>1, <1>2, <2>1, <2>2
<1>6. Max(H) = i + 1
  <2> HIDE DEF H
  <2> QED BY <1>4, <1>5, MaxIs
<1>7. n \in F[i + 1].ro <=> n \in r
  <2>1. F[i + 1] = FrameOf(c, sc, e, r, i)
    BY <1>1, <1>3
  <2>2. n \in FrameOf(c, sc, e, r, i).ro <=> RoIn(c, sc, r, i, n)
    BY <1>2 DEF FrameOf
  <2> QED BY <1>2, <2>1, <2>2 DEF RoIn
<1> QED BY <1>1, <1>3, <1>6, <1>7 DEF F

\* A chain with one frame changed.
LEMMA PutFrame ==
  ASSUME NEW N, NEW F, NEW G, F = [k \in 1 .. N |-> F[k]], G = [k \in 1 .. N |-> G[k]],
         NEW i, \A k \in 1 .. N : k # i => G[k] = F[k], NEW x, i \in 1 .. N => G[i] = x
  PROVE  G = [F EXCEPT ![i] = x]
<1>1. [F EXCEPT ![i] = x] = [k \in 1 .. N |-> IF k = i THEN x ELSE F[k]]
  OBVIOUS
<1>2. \A k \in 1 .. N : G[k] = IF k = i THEN x ELSE F[k]
  OBVIOUS
<1> QED BY <1>1, <1>2

\* A new value for a name is one for its innermost binding.
LEMMA SetValue ==
  ASSUME NEW c \in Seq(Entries), NEW sc, NEW n, NEW i, Inner(c, sc, n, i),
         NEW e, NEW e2, NEW r, NEW v, e2[n] = v, \A m \in Names : m # n => e2[m] = e[m],
         \A j \in 1 .. Len(c) : BindsOf(c, sc, j) \subseteq Names
  PROVE  Chain(c, sc, e2, r) = [Chain(c, sc, e, r) EXCEPT ![i + 1].val = With(@, n, v)]
<1> DEFINE F == Chain(c, sc, e, r)
           G == Chain(c, sc, e2, r)
           N == Len(c) + 1
<1>1. /\ F = [k \in 1 .. N |-> F[k]]
      /\ \A k \in 1 .. N : F[k] = FrameOf(c, sc, e, r, k - 1)
  BY ChainIs
<1>2. /\ G = [k \in 1 .. N |-> G[k]]
      /\ \A k \in 1 .. N : G[k] = FrameOf(c, sc, e2, r, k - 1)
  BY ChainIs
<1>3. Len(c) \in Nat /\ i \in 0 .. Len(c) /\ n \in BindsOf(c, sc, i) /\ OverOf(c, sc, i, n) = {}
  BY DEF Inner
<1>0. \A j \in 0 .. Len(c) : BindsOf(c, sc, j) \subseteq Names
  BY <1>3 DEF BindsOf
<1>4. ASSUME NEW j \in 0 .. Len(c), NEW m \in BindsOf(c, sc, j), ~(m = n /\ j = i)
      PROVE  EnvIn(c, sc, e2, j, m) = EnvIn(c, sc, e, j, m)
  <2>1. CASE m # n
    BY <1>0, <2>1 DEF EnvIn
  <2>2. CASE m = n /\ j # i
    <3>1. j < i
      <4>1. j \notin i + 1 .. Len(c)
        BY <1>3, <2>2 DEF OverOf
      <4> QED BY <1>3, <2>2, <4>1
    <3>2. i \in OverOf(c, sc, j, n)
      BY <1>3, <3>1 DEF OverOf
    <3> QED BY <2>2, <3>2 DEF EnvIn
  <2> QED BY <1>4, <2>1, <2>2
<1>5. ASSUME NEW k \in 1 .. N, k # i + 1
      PROVE  G[k] = F[k]
  <2>1. k - 1 \in 0 .. Len(c) /\ k - 1 # i
    BY <1>3, <1>5
  <2>2. [m \in BindsOf(c, sc, k - 1) |-> EnvIn(c, sc, e2, k - 1, m)] =
          [m \in BindsOf(c, sc, k - 1) |-> EnvIn(c, sc, e, k - 1, m)]
    BY <1>4, <2>1
  <2>3. FrameOf(c, sc, e2, r, k - 1) = FrameOf(c, sc, e, r, k - 1)
    BY <2>2 DEF FrameOf
  <2> QED BY <1>1, <1>2, <2>3
<1>6. G[i + 1] = [F[i + 1] EXCEPT !.val = With(@, n, v)]
  <2>1. i + 1 \in 1 .. N /\ (i + 1) - 1 = i
    BY <1>3
  <2>2. F[i + 1] = FrameOf(c, sc, e, r, i) /\ G[i + 1] = FrameOf(c, sc, e2, r, i)
    BY <1>1, <1>2, <2>1
  <2> DEFINE old == [m \in BindsOf(c, sc, i) |-> EnvIn(c, sc, e, i, m)]
             new == [m \in BindsOf(c, sc, i) |-> EnvIn(c, sc, e2, i, m)]
             ro == {m \in BindsOf(c, sc, i) : KindOf(c, i) # "prefix" /\ RoIn(c, sc, r, i, m)}
  <2>3. FrameOf(c, sc, e, r, i) = [kind |-> KindOf(c, i), val |-> old, ro |-> ro]
        /\ FrameOf(c, sc, e2, r, i) = [kind |-> KindOf(c, i), val |-> new, ro |-> ro]
    BY DEF FrameOf
  <2>4. new = With(old, n, v)
    <3>1. EnvIn(c, sc, e2, i, n) = v
      BY <1>3 DEF EnvIn
    <3>2. \A m \in BindsOf(c, sc, i) : m # n => EnvIn(c, sc, e2, i, m) = EnvIn(c, sc, e, i, m)
      BY <1>3, <1>4
    <3>3. DOMAIN old \cup {n} = BindsOf(c, sc, i)
      BY <1>3
    <3> QED BY <3>1, <3>2, <3>3 DEF With
  <2> HIDE DEF old, new, ro
  <2> QED BY <2>2, <2>3, <2>4
<1> HIDE DEF F, G
<1>7. G = [F EXCEPT ![i + 1] = [F[i + 1] EXCEPT !.val = With(@, n, v)]]
  BY <1>1, <1>2, <1>5, <1>6, PutFrame
<1>8. G = [F EXCEPT ![i + 1].val = With(@, n, v)]
  BY <1>7
<1> QED BY <1>8 DEF F, G

\* A change of the readonly names is one in the frame that owns the name.
LEMMA SetOwner ==
  ASSUME NEW c \in Seq(Entries), NEW sc, NEW n, NEW o, Owns(c, sc, n, o),
         NEW e, NEW r, NEW b \in BOOLEAN
  PROVE  Chain(c, sc, e, Mark(r, n, b)) = [Chain(c, sc, e, r) EXCEPT ![o + 1].ro = Mark(@, n, b)]
<1> DEFINE r2 == Mark(r, n, b)
           F == Chain(c, sc, e, r)
           G == Chain(c, sc, e, r2)
           N == Len(c) + 1
<1>1. /\ F = [k \in 1 .. N |-> F[k]]
      /\ \A k \in 1 .. N : F[k] = FrameOf(c, sc, e, r, k - 1)
  BY ChainIs
<1>2. /\ G = [k \in 1 .. N |-> G[k]]
      /\ \A k \in 1 .. N : G[k] = FrameOf(c, sc, e, r2, k - 1)
  BY ChainIs
<1>3. /\ Len(c) \in Nat /\ o \in 0 .. Len(c) /\ n \in BindsOf(c, sc, o)
      /\ KindOf(c, o) # "prefix" /\ Owning(c, sc, o, n) = {}
  BY DEF Owns
<1>0. /\ n \in r2 <=> b
      /\ \A m : m # n => (m \in r2 <=> m \in r)
  BY DEF Mark
<1> HIDE DEF r2
<1>4. ASSUME NEW j \in 0 .. Len(c), NEW m \in BindsOf(c, sc, j), ~(m = n /\ j = o), KindOf(c, j) # "prefix"
      PROVE  RoIn(c, sc, r2, j, m) <=> RoIn(c, sc, r, j, m)
  <2>1. CASE m # n
    BY <2>1, <1>0 DEF RoIn
  <2>2. CASE m = n /\ j # o
    <3>1. j < o
      <4>1. j \notin o + 1 .. Len(c)
        <5> SUFFICES ASSUME j \in o + 1 .. Len(c) PROVE FALSE
          OBVIOUS
        <5>1. j # 0 /\ c[j].kind # "prefix"
          BY <1>3, <1>4 DEF KindOf
        <5> QED BY <1>3, <2>2, <5>1 DEF OverOf, Owning
      <4> QED BY <1>3, <2>2, <4>1
    <3>2. o # 0 /\ c[o].kind # "prefix"
      BY <1>3, <3>1 DEF KindOf
    <3>3. o \in Owning(c, sc, j, n)
      BY <1>3, <3>1, <3>2 DEF OverOf, Owning
    <3> QED BY <2>2, <3>3 DEF RoIn
  <2> QED BY <1>4, <2>1, <2>2
<1>5. ASSUME NEW k \in 1 .. N, k # o + 1
      PROVE  G[k] = F[k]
  <2>1. k - 1 \in 0 .. Len(c) /\ k - 1 # o
    BY <1>3, <1>5
  <2>2. {m \in BindsOf(c, sc, k - 1) : KindOf(c, k - 1) # "prefix" /\ RoIn(c, sc, r2, k - 1, m)} =
          {m \in BindsOf(c, sc, k - 1) : KindOf(c, k - 1) # "prefix" /\ RoIn(c, sc, r, k - 1, m)}
    BY <1>4, <2>1
  <2>3. FrameOf(c, sc, e, r2, k - 1) = FrameOf(c, sc, e, r, k - 1)
    BY <2>2 DEF FrameOf
  <2> QED BY <1>1, <1>2, <2>3
<1>6. G[o + 1] = [F[o + 1] EXCEPT !.ro = Mark(@, n, b)]
  <2>1. o + 1 \in 1 .. N /\ (o + 1) - 1 = o
    BY <1>3
  <2>2. F[o + 1] = FrameOf(c, sc, e, r, o) /\ G[o + 1] = FrameOf(c, sc, e, r2, o)
    BY <1>1, <1>2, <2>1
  <2> DEFINE val == [m \in BindsOf(c, sc, o) |-> EnvIn(c, sc, e, o, m)]
             old == {m \in BindsOf(c, sc, o) : KindOf(c, o) # "prefix" /\ RoIn(c, sc, r, o, m)}
             new == {m \in BindsOf(c, sc, o) : KindOf(c, o) # "prefix" /\ RoIn(c, sc, r2, o, m)}
  <2>3. FrameOf(c, sc, e, r, o) = [kind |-> KindOf(c, o), val |-> val, ro |-> old]
        /\ FrameOf(c, sc, e, r2, o) = [kind |-> KindOf(c, o), val |-> val, ro |-> new]
    BY DEF FrameOf
  <2>4. new = Mark(old, n, b)
    <3>1. RoIn(c, sc, r2, o, n) <=> b
      BY <1>3, <1>0 DEF RoIn
    <3>2. \A m \in BindsOf(c, sc, o) : m # n => (RoIn(c, sc, r2, o, m) <=> RoIn(c, sc, r, o, m))
      BY <1>3, <1>4
    <3>3. \A m : m \in new <=> m \in Mark(old, n, b)
      BY <1>3, <3>1, <3>2 DEF Mark
    <3> HIDE DEF new, old
    <3> QED BY <3>3
  <2> HIDE DEF old, new, val
  <2> QED BY <2>2, <2>3, <2>4
<1> HIDE DEF F, G
<1>7. G = [F EXCEPT ![o + 1] = [F[o + 1] EXCEPT !.ro = Mark(@, n, b)]]
  BY <1>1, <1>2, <1>5, <1>6, PutFrame
<1>8. G = [F EXCEPT ![o + 1].ro = Mark(@, n, b)]
  BY <1>7
<1> QED BY <1>8 DEF F, G, r2

\* The functions other than f have the same locals.
OthersSame(c, sc, td, f) ==
  \A j \in 1 .. Len(c) : c[j].kind = "function" /\ j # f => td[c[j].scope].vars = sc[c[j].scope].vars

\* Where the locals are the same the bindings and what they save are.
LEMMA OthersBind ==
  ASSUME NEW c \in Seq(Entries), NEW sc, NEW td, NEW f, OthersSame(c, sc, td, f)
  PROVE  /\ \A j \in 0 .. Len(c) : j # f => BindsOf(c, td, j) = BindsOf(c, sc, j)
         /\ \A j \in 1 .. Len(c) : \A m : j # f => SavedEnv(c, td, j, m) = SavedEnv(c, sc, j, m)
         /\ \A j \in 1 .. Len(c) : \A m : j # f => SavedRo(c, td, j, m) = SavedRo(c, sc, j, m)
<1>1. ASSUME NEW j \in 0 .. Len(c), j # f PROVE BindsOf(c, td, j) = BindsOf(c, sc, j)
  <2>1. CASE j = 0
    BY <2>1 DEF BindsOf
  <2>2. CASE j # 0
    <3>1. j \in 1 .. Len(c)
      BY <2>2
    <3> QED BY <1>1, <2>2, <3>1 DEF BindsOf, OthersSame
  <2> QED BY <2>1, <2>2
<1>2. ASSUME NEW j \in 1 .. Len(c), NEW m, j # f PROVE SavedEnv(c, td, j, m) = SavedEnv(c, sc, j, m)
  BY <1>2 DEF SavedEnv, OthersSame
<1>3. ASSUME NEW j \in 1 .. Len(c), NEW m, j # f PROVE SavedRo(c, td, j, m) = SavedRo(c, sc, j, m)
  <2>1. CASE c[j].kind = "function"
    <3>1. td[c[j].scope].vars = sc[c[j].scope].vars
      BY <1>3, <2>1 DEF OthersSame
    <3> QED BY <2>1, <3>1 DEF SavedRo
  <2>2. CASE c[j].kind # "function"
    BY <2>2 DEF SavedRo
  <2> QED BY <2>1, <2>2
<1> QED BY <1>1, <1>2, <1>3

\* The bindings with another value in one frame.
Rebound(F, k, n, v) == [F EXCEPT ![k].val = With(@, n, v)]

\* The scopes td have a local more than sc, of a name nothing above it binds.
AddsLocal(c, sc, td, f, n, e, e2, r, r2, a) ==
  /\ f \in 1 .. Len(c) /\ c[f].kind = "function" /\ OthersSame(c, sc, td, f)
  /\ n \notin DOMAIN sc[c[f].scope].vars /\ OverOf(c, sc, f, n) = {}
  /\ td[c[f].scope].vars = With(sc[c[f].scope].vars, n, [value |-> e[n], attrs |-> a])
  /\ (a.readonly <=> n \in r) /\ n \notin r2
  /\ \A m \in Names : m # n => e2[m] = e[m] /\ (m \in r2 <=> m \in r)
  /\ \A j \in 1 .. Len(c) : BindsOf(c, sc, j) \subseteq Names

\* A local of a name that nothing from its function on binds: what it saves is
\* what the name meant, and the name means the local.
LEMMA NewLocal ==
  ASSUME NEW c \in Seq(Entries), NEW sc, NEW td, NEW f, NEW n, NEW e, NEW e2, NEW r, NEW r2,
         NEW a, AddsLocal(c, sc, td, f, n, e, e2, r, r2, a)
  PROVE  Chain(c, td, e2, r2) = Rebound(Chain(c, sc, e, r), f + 1, n, e2[n])
         /\ n \notin DOMAIN Chain(c, sc, e, r)[f + 1].val /\ n \notin Chain(c, sc, e, r)[f + 1].ro
<1> DEFINE F == Chain(c, sc, e, r)
           G == Chain(c, td, e2, r2)
           N == Len(c) + 1
           old == sc[c[f].scope].vars
           new == td[c[f].scope].vars
<1>1. /\ F = [k \in 1 .. N |-> F[k]]
      /\ \A k \in 1 .. N : F[k] = FrameOf(c, sc, e, r, k - 1)
  BY ChainIs
<1>2. /\ G = [k \in 1 .. N |-> G[k]]
      /\ \A k \in 1 .. N : G[k] = FrameOf(c, td, e2, r2, k - 1)
  BY ChainIs
<1>3. Len(c) \in Nat /\ f \in 1 .. Len(c) /\ f # 0 /\ c[f].kind = "function"
  BY DEF AddsLocal
<1>30. /\ OthersSame(c, sc, td, f) /\ n \notin DOMAIN old /\ OverOf(c, sc, f, n) = {}
       /\ new = With(old, n, [value |-> e[n], attrs |-> a])
       /\ n \notin r2
       /\ \A m \in Names : m # n => e2[m] = e[m] /\ (m \in r2 <=> m \in r)
       /\ \A j \in 1 .. Len(c) : BindsOf(c, sc, j) \subseteq Names
  BY DEF AddsLocal
<1>31. a.readonly <=> n \in r
  BY Zenon DEF AddsLocal
<1>4. /\ BindsOf(c, sc, f) = DOMAIN old /\ BindsOf(c, td, f) = DOMAIN new
      /\ \A m : SavedEnv(c, sc, f, m) = old[m].value /\ SavedEnv(c, td, f, m) = new[m].value
      /\ \A m : SavedRo(c, sc, f, m) = old[m].attrs.readonly /\ SavedRo(c, td, f, m) = new[m].attrs.readonly
  BY <1>3 DEF BindsOf, SavedEnv, SavedRo
<1>5. /\ DOMAIN new = DOMAIN old \cup {n} /\ n \notin DOMAIN old
      /\ new[n] = [value |-> e[n], attrs |-> a] /\ \A m \in DOMAIN old : new[m] = old[m]
  BY <1>30 DEF With
<1> HIDE DEF old, new
<1>6. /\ \A j \in 0 .. Len(c) : j # f => BindsOf(c, td, j) = BindsOf(c, sc, j)
      /\ \A j \in 1 .. Len(c) : \A m : j # f => SavedEnv(c, td, j, m) = SavedEnv(c, sc, j, m)
      /\ \A j \in 1 .. Len(c) : \A m : j # f => SavedRo(c, td, j, m) = SavedRo(c, sc, j, m)
  BY <1>30, OthersBind
<1>0. \A j \in 0 .. Len(c) : BindsOf(c, sc, j) \subseteq Names
  BY <1>3, <1>30 DEF BindsOf
<1>7. \A j \in 0 .. Len(c) : \A m : m # n => (m \in BindsOf(c, td, j) <=> m \in BindsOf(c, sc, j))
  BY <1>4, <1>5, <1>6
<1>8. ASSUME NEW j \in 0 .. Len(c), NEW m \in Names, m # n
      PROVE  EnvIn(c, td, e2, j, m) = EnvIn(c, sc, e, j, m)
  <2> DEFINE over == OverOf(c, sc, j, m)
  <2>1. OverOf(c, td, j, m) = over
    BY <1>3, <1>7, <1>8 DEF OverOf
  <2>2. CASE over = {}
    BY <1>8, <1>30, <2>1, <2>2 DEF EnvIn
  <2>3. CASE over # {}
    <3> DEFINE p == Min(over)
    <3>1. p \in over
      <4>1. over \in SUBSET Nat
        BY DEF OverOf
      <4> QED BY <2>3, <4>1, MinExists
    <3>2. p \in 1 .. Len(c) /\ m \in BindsOf(c, sc, p)
      BY <1>3, <3>1 DEF OverOf
    <3>3. SavedEnv(c, td, p, m) = SavedEnv(c, sc, p, m)
      <4> HIDE DEF p
      <4> QED BY <1>4, <1>5, <1>6, <3>2
    <3> QED BY <2>1, <2>3, <3>3 DEF EnvIn
  <2> QED BY <2>2, <2>3
<1>9. ASSUME NEW j \in 0 .. Len(c), NEW m \in Names, m # n
      PROVE  RoIn(c, td, r2, j, m) <=> RoIn(c, sc, r, j, m)
  <2> DEFINE over == Owning(c, sc, j, m)
  <2>1. Owning(c, td, j, m) = over
    BY <1>3, <1>7, <1>9 DEF OverOf, Owning
  <2>2. CASE over = {}
    BY <1>9, <1>30, <2>1, <2>2 DEF RoIn
  <2>3. CASE over # {}
    <3> DEFINE p == Min(over)
    <3>1. p \in over
      <4>1. over \in SUBSET Nat
        BY DEF OverOf, Owning
      <4> QED BY <2>3, <4>1, MinExists
    <3>2. p \in 1 .. Len(c) /\ m \in BindsOf(c, sc, p)
      BY <1>3, <3>1 DEF OverOf, Owning
    <3>3. SavedRo(c, td, p, m) = SavedRo(c, sc, p, m)
      <4> HIDE DEF p
      <4> QED BY <1>4, <1>5, <1>6, <3>2
    <3> QED BY <2>1, <2>3, <3>3 DEF RoIn
  <2> QED BY <2>2, <2>3
<1>10. \A j \in f + 1 .. Len(c) : n \notin BindsOf(c, sc, j) /\ n \notin BindsOf(c, td, j)
  <2> SUFFICES ASSUME NEW j \in f + 1 .. Len(c)
               PROVE  n \notin BindsOf(c, sc, j) /\ n \notin BindsOf(c, td, j)
    OBVIOUS
  <2>1. n \notin BindsOf(c, sc, j)
    BY <1>30 DEF OverOf
  <2>2. j \in 0 .. Len(c) /\ j # f
    BY <1>3
  <2> QED BY <1>6, <2>1, <2>2
<1>11. ASSUME NEW j \in 0 .. Len(c), j < f, n \in BindsOf(c, sc, j)
       PROVE  EnvIn(c, td, e2, j, n) = EnvIn(c, sc, e, j, n)
  <2> DEFINE over == OverOf(c, sc, j, n)
             overT == OverOf(c, td, j, n)
  <2>1. over \in SUBSET Nat /\ overT = over \cup {f} /\ \A p \in over : p < f
    <3>1. \A p \in j + 1 .. Len(c) : p # f => (n \in BindsOf(c, td, p) <=> n \in BindsOf(c, sc, p))
      BY <1>3, <1>6
    <3>2. f \in j + 1 .. Len(c) /\ n \in BindsOf(c, td, f) /\ n \notin BindsOf(c, sc, f)
      BY <1>3, <1>4, <1>5, <1>11
    <3>3. \A p \in over : p < f
      BY <1>3, <1>10, <3>2 DEF OverOf
    <3> QED BY <3>1, <3>2, <3>3 DEF OverOf
  <2>2. CASE over = {}
    <3>1. overT = {f}
      BY <2>1, <2>2
    <3>2. Min({f}) = f
      <4>1. {f} \in SUBSET Nat /\ f \in {f} /\ \A y \in {f} : f <= y
        BY <1>3
      <4> QED BY <4>1, LeastIs
    <3>3. EnvIn(c, td, e2, j, n) = SavedEnv(c, td, f, n)
      BY <3>1, <3>2 DEF EnvIn
    <3>4. EnvIn(c, sc, e, j, n) = e[n]
      BY <2>2 DEF EnvIn
    <3> QED BY <1>4, <1>5, <3>3, <3>4
  <2>3. CASE over # {}
    <3> DEFINE p == Min(over)
    <3>1. p \in over /\ \A y \in over : p <= y
      BY <2>1, <2>3, MinExists
    <3>2. p \in 1 .. Len(c) /\ p # f /\ p < f
      BY <1>3, <2>1, <3>1 DEF OverOf
    <3>3. Min(overT) = p
      <4>1. overT \in SUBSET Nat /\ p \in overT
        BY <1>3, <2>1, <3>1
      <4>2. \A y \in overT : p <= y
        BY <1>3, <2>1, <3>1, <3>2
      <4> HIDE DEF p, overT
      <4> QED BY <4>1, <4>2, LeastIs
    <3>4. SavedEnv(c, td, p, n) = SavedEnv(c, sc, p, n)
      BY <1>6, <3>2
    <3> QED BY <2>1, <2>3, <3>3, <3>4 DEF EnvIn
  <2> QED BY <2>2, <2>3
<1>12. ASSUME NEW j \in 0 .. Len(c), j < f, n \in BindsOf(c, sc, j)
       PROVE  RoIn(c, td, r2, j, n) <=> RoIn(c, sc, r, j, n)
  <2> DEFINE over == Owning(c, sc, j, n)
             overT == Owning(c, td, j, n)
  <2>1. over \in SUBSET Nat /\ overT = over \cup {f} /\ \A p \in over : p < f
    <3>1. \A p \in j + 1 .. Len(c) : p # f => (n \in BindsOf(c, td, p) <=> n \in BindsOf(c, sc, p))
      BY <1>3, <1>6
    <3>2. f \in j + 1 .. Len(c) /\ n \in BindsOf(c, td, f) /\ n \notin BindsOf(c, sc, f)
      BY <1>3, <1>4, <1>5, <1>12
    <3>3. \A p \in over : p < f
      BY <1>3, <1>10, <3>2 DEF OverOf, Owning
    <3> QED BY <1>3, <3>1, <3>2, <3>3 DEF OverOf, Owning
  <2>2. CASE over = {}
    <3>1. overT = {f}
      BY <2>1, <2>2
    <3>2. Min({f}) = f
      <4>1. {f} \in SUBSET Nat /\ f \in {f} /\ \A y \in {f} : f <= y
        BY <1>3
      <4> QED BY <4>1, LeastIs
    <3>3. RoIn(c, td, r2, j, n) <=> SavedRo(c, td, f, n)
      BY <3>1, <3>2 DEF RoIn
    <3>4. RoIn(c, sc, r, j, n) <=> n \in r
      BY <2>2 DEF RoIn
    <3>5. SavedRo(c, td, f, n) = a.readonly
      BY <1>4, <1>5
    <3>6. a.readonly <=> n \in r
      BY <1>31
    <3> QED BY <3>3, <3>4, <3>5, <3>6, Zenon
  <2>3. CASE over # {}
    <3> DEFINE p == Min(over)
    <3>1. p \in over /\ \A y \in over : p <= y
      BY <2>1, <2>3, MinExists
    <3>2. p \in 1 .. Len(c) /\ p # f /\ p < f
      BY <1>3, <2>1, <3>1 DEF OverOf, Owning
    <3>3. Min(overT) = p
      <4>1. overT \in SUBSET Nat /\ p \in overT
        BY <1>3, <2>1, <3>1
      <4>2. \A y \in overT : p <= y
        BY <1>3, <2>1, <3>1, <3>2
      <4> HIDE DEF p, overT
      <4> QED BY <4>1, <4>2, LeastIs
    <3>4. SavedRo(c, td, p, n) = SavedRo(c, sc, p, n)
      BY <1>6, <3>2
    <3> QED BY <2>1, <2>3, <3>3, <3>4 DEF RoIn
  <2> QED BY <2>2, <2>3
<1>13. ASSUME NEW k \in 1 .. N, k # f + 1
       PROVE  G[k] = F[k]
  <2> DEFINE j == k - 1
  <2>1. j \in 0 .. Len(c) /\ j # f
    BY <1>3, <1>13
  <2> HIDE DEF j
  <2>2. BindsOf(c, td, j) = BindsOf(c, sc, j)
    BY <1>6, <2>1
  <2>3. n \in BindsOf(c, sc, j) => j < f
    BY <1>3, <1>10, <2>1
  <2>4. [m \in BindsOf(c, td, j) |-> EnvIn(c, td, e2, j, m)] =
          [m \in BindsOf(c, sc, j) |-> EnvIn(c, sc, e, j, m)]
    BY <1>0, <1>8, <1>11, <2>1, <2>2, <2>3
  <2>5. {m \in BindsOf(c, td, j) : KindOf(c, j) # "prefix" /\ RoIn(c, td, r2, j, m)} =
          {m \in BindsOf(c, sc, j) : KindOf(c, j) # "prefix" /\ RoIn(c, sc, r, j, m)}
    BY <1>0, <1>9, <1>12, <2>1, <2>2, <2>3
  <2>6. FrameOf(c, td, e2, r2, j) = FrameOf(c, sc, e, r, j)
    BY <2>4, <2>5 DEF FrameOf
  <2> QED BY <1>1, <1>2, <2>6 DEF j
<1>14. /\ G[f + 1] = [F[f + 1] EXCEPT !.val = With(@, n, e2[n])]
       /\ n \notin DOMAIN F[f + 1].val /\ n \notin F[f + 1].ro
  <2>1. f + 1 \in 1 .. N /\ (f + 1) - 1 = f
    BY <1>3
  <2>2. F[f + 1] = FrameOf(c, sc, e, r, f) /\ G[f + 1] = FrameOf(c, td, e2, r2, f)
    BY <1>1, <1>2, <2>1
  <2> DEFINE val == [m \in BindsOf(c, sc, f) |-> EnvIn(c, sc, e, f, m)]
             val2 == [m \in BindsOf(c, td, f) |-> EnvIn(c, td, e2, f, m)]
             ro == {m \in BindsOf(c, sc, f) : KindOf(c, f) # "prefix" /\ RoIn(c, sc, r, f, m)}
             ro2 == {m \in BindsOf(c, td, f) : KindOf(c, f) # "prefix" /\ RoIn(c, td, r2, f, m)}
  <2>3. FrameOf(c, sc, e, r, f) = [kind |-> KindOf(c, f), val |-> val, ro |-> ro]
        /\ FrameOf(c, td, e2, r2, f) = [kind |-> KindOf(c, f), val |-> val2, ro |-> ro2]
    BY DEF FrameOf
  <2>4. OverOf(c, td, f, n) = {} /\ Owning(c, td, f, n) = {}
    BY <1>10 DEF OverOf, Owning
  <2>5. EnvIn(c, td, e2, f, n) = e2[n] /\ ~RoIn(c, td, r2, f, n)
    BY <1>30, <2>4 DEF EnvIn, RoIn
  <2>6. BindsOf(c, td, f) = BindsOf(c, sc, f) \cup {n} /\ n \notin BindsOf(c, sc, f)
    BY <1>4, <1>5
  <2>7. val2 = With(val, n, e2[n])
    <3>1. \A m \in BindsOf(c, sc, f) : m # n => EnvIn(c, td, e2, f, m) = EnvIn(c, sc, e, f, m)
      BY <1>0, <1>3, <1>8
    <3>2. DOMAIN val = BindsOf(c, sc, f) /\ \A m \in BindsOf(c, sc, f) : val[m] = EnvIn(c, sc, e, f, m)
      OBVIOUS
    <3> HIDE DEF val
    <3> QED BY <2>5, <2>6, <3>1, <3>2 DEF With
  <2>8. ro2 = ro /\ n \notin ro
    <3>1. \A m \in BindsOf(c, sc, f) : m # n => (RoIn(c, td, r2, f, m) <=> RoIn(c, sc, r, f, m))
      BY <1>0, <1>3, <1>9
    <3> QED BY <2>5, <2>6, <3>1
  <2>9. n \notin DOMAIN val
    BY <2>6
  <2> HIDE DEF val, val2, ro, ro2
  <2> QED BY <2>2, <2>3, <2>7, <2>8, <2>9
<1> HIDE DEF F, G
<1>15. G = [F EXCEPT ![f + 1] = [F[f + 1] EXCEPT !.val = With(@, n, e2[n])]]
  BY <1>1, <1>2, <1>13, <1>14, PutFrame
<1>16. G = [F EXCEPT ![f + 1].val = With(@, n, e2[n])]
  BY <1>15
<1> QED BY <1>14, <1>16 DEF F, G, Rebound

\* The scopes td have another value behind the only local of n, that of c[f].
SetsBehind(c, sc, td, f, n, v) ==
  /\ f \in 1 .. Len(c) /\ c[f].kind = "function" /\ OthersSame(c, sc, td, f)
  /\ n \in DOMAIN sc[c[f].scope].vars
  /\ \A j \in 1 .. Len(c) : j # f => n \notin BindsOf(c, sc, j)
  /\ td[c[f].scope].vars =
       With(sc[c[f].scope].vars, n, [value |-> v, attrs |-> sc[c[f].scope].vars[n].attrs])

\* Another value behind the only local of a name is one for the shell's own binding.
LEMMA SetShellValue ==
  ASSUME NEW c \in Seq(Entries), NEW sc, NEW td, NEW f, NEW n \in Names, NEW e,
         NEW r, NEW v, SetsBehind(c, sc, td, f, n, v)
  PROVE  /\ Chain(c, td, e, r) = Rebound(Chain(c, sc, e, r), 1, n, v)
         /\ n \in Chain(c, sc, e, r)[1].ro <=> sc[c[f].scope].vars[n].attrs.readonly
<1> DEFINE F == Chain(c, sc, e, r)
           G == Chain(c, td, e, r)
           N == Len(c) + 1
           old == sc[c[f].scope].vars
           new == td[c[f].scope].vars
<1>1. /\ F = [k \in 1 .. N |-> F[k]]
      /\ \A k \in 1 .. N : F[k] = FrameOf(c, sc, e, r, k - 1)
  BY ChainIs
<1>2. /\ G = [k \in 1 .. N |-> G[k]]
      /\ \A k \in 1 .. N : G[k] = FrameOf(c, td, e, r, k - 1)
  BY ChainIs
<1>3. Len(c) \in Nat /\ f \in 1 .. Len(c) /\ f # 0 /\ c[f].kind = "function"
  BY DEF SetsBehind
<1>30. /\ OthersSame(c, sc, td, f) /\ n \in DOMAIN old
       /\ new = With(old, n, [value |-> v, attrs |-> old[n].attrs])
       /\ \A j \in 1 .. Len(c) : j # f => n \notin BindsOf(c, sc, j)
  BY DEF SetsBehind
<1>4. /\ BindsOf(c, sc, f) = DOMAIN old /\ BindsOf(c, td, f) = DOMAIN new
      /\ \A m : SavedEnv(c, sc, f, m) = old[m].value /\ SavedEnv(c, td, f, m) = new[m].value
      /\ \A m : SavedRo(c, sc, f, m) = old[m].attrs.readonly /\ SavedRo(c, td, f, m) = new[m].attrs.readonly
  BY <1>3 DEF BindsOf, SavedEnv, SavedRo
<1>5. /\ DOMAIN new = DOMAIN old /\ n \in DOMAIN old
      /\ new[n].value = v /\ new[n].attrs = old[n].attrs
      /\ \A m \in DOMAIN old : m # n => new[m] = old[m]
  <2> DEFINE put == [value |-> v, attrs |-> old[n].attrs]
  <2>1. put.value = v /\ put.attrs = old[n].attrs
    OBVIOUS
  <2>2. new = With(old, n, put) /\ n \in DOMAIN old
    BY <1>30
  <2> HIDE DEF old, new, put
  <2> QED BY <2>1, <2>2 DEF With
<1> HIDE DEF old, new
<1>6. /\ \A j \in 0 .. Len(c) : j # f => BindsOf(c, td, j) = BindsOf(c, sc, j)
      /\ \A j \in 1 .. Len(c) : \A m : j # f => SavedEnv(c, td, j, m) = SavedEnv(c, sc, j, m)
      /\ \A j \in 1 .. Len(c) : \A m : j # f => SavedRo(c, td, j, m) = SavedRo(c, sc, j, m)
  BY <1>30, OthersBind
<1>7. \A j \in 0 .. Len(c) : BindsOf(c, td, j) = BindsOf(c, sc, j)
  BY <1>4, <1>5, <1>6
<1>8. \A j \in 0 .. Len(c) : \A m : /\ OverOf(c, td, j, m) = OverOf(c, sc, j, m)
                                /\ Owning(c, td, j, m) = Owning(c, sc, j, m)
  BY <1>3, <1>7 DEF OverOf, Owning
<1>9. ASSUME NEW j \in 0 .. Len(c), NEW m, m # n
      PROVE  EnvIn(c, td, e, j, m) = EnvIn(c, sc, e, j, m)
  <2> DEFINE over == OverOf(c, sc, j, m)
  <2>1. CASE over = {}
    BY <1>8, <2>1 DEF EnvIn
  <2>2. CASE over # {}
    <3> DEFINE p == Min(over)
    <3>1. p \in over
      <4>1. over \in SUBSET Nat
        BY DEF OverOf
      <4> QED BY <2>2, <4>1, MinExists
    <3>2. p \in 1 .. Len(c) /\ m \in BindsOf(c, sc, p)
      BY <1>3, <3>1 DEF OverOf
    <3>3. SavedEnv(c, td, p, m) = SavedEnv(c, sc, p, m)
      <4> HIDE DEF p
      <4> QED BY <1>4, <1>5, <1>6, <1>9, <3>2
    <3> QED BY <1>8, <2>2, <3>3 DEF EnvIn
  <2> QED BY <2>1, <2>2
<1>10. ASSUME NEW j \in 0 .. Len(c), NEW m
      PROVE  RoIn(c, td, r, j, m) <=> RoIn(c, sc, r, j, m)
  <2> DEFINE over == Owning(c, sc, j, m)
  <2>1. CASE over = {}
    BY <1>8, <2>1 DEF RoIn
  <2>2. CASE over # {}
    <3> DEFINE p == Min(over)
    <3>1. p \in over
      <4>1. over \in SUBSET Nat
        BY DEF OverOf, Owning
      <4> QED BY <2>2, <4>1, MinExists
    <3>2. p \in 1 .. Len(c) /\ m \in BindsOf(c, sc, p)
      BY <1>3, <3>1 DEF OverOf, Owning
    <3>3. SavedRo(c, td, p, m) = SavedRo(c, sc, p, m)
      <4> HIDE DEF p
      <4>1. CASE p = f /\ m = n
        BY <1>4, <1>5, <4>1
      <4>2. CASE p = f /\ m # n
        BY <1>4, <1>5, <3>2, <4>2
      <4>3. CASE p # f
        BY <1>6, <3>2, <4>3
      <4> QED BY <4>1, <4>2, <4>3
    <3> QED BY <1>8, <2>2, <3>3 DEF RoIn
  <2> QED BY <2>1, <2>2
<1>11. ASSUME NEW k \in 1 .. N, k # 1
       PROVE  G[k] = F[k]
  <2> DEFINE j == k - 1
  <2>1. j \in 0 .. Len(c) /\ j # 0 /\ j \in 1 .. Len(c)
    BY <1>3, <1>11
  <2> HIDE DEF j
  <2>2. BindsOf(c, td, j) = BindsOf(c, sc, j)
    BY <1>7, <2>1
  <2>3. n \in BindsOf(c, sc, j) => EnvIn(c, td, e, j, n) = EnvIn(c, sc, e, j, n)
    <3> SUFFICES ASSUME n \in BindsOf(c, sc, j)
                 PROVE  EnvIn(c, td, e, j, n) = EnvIn(c, sc, e, j, n)
      OBVIOUS
    <3>1. j = f
      BY <1>30, <2>1
    <3>2. OverOf(c, sc, j, n) = {}
      BY <1>3, <1>30, <3>1 DEF OverOf
    <3> QED BY <1>8, <2>1, <3>2 DEF EnvIn
  <2>4. [m \in BindsOf(c, td, j) |-> EnvIn(c, td, e, j, m)] =
          [m \in BindsOf(c, sc, j) |-> EnvIn(c, sc, e, j, m)]
    BY <1>9, <2>1, <2>2, <2>3
  <2>5. {m \in BindsOf(c, td, j) : KindOf(c, j) # "prefix" /\ RoIn(c, td, r, j, m)} =
          {m \in BindsOf(c, sc, j) : KindOf(c, j) # "prefix" /\ RoIn(c, sc, r, j, m)}
    BY <1>10, <2>1, <2>2
  <2>6. FrameOf(c, td, e, r, j) = FrameOf(c, sc, e, r, j)
    BY <2>4, <2>5 DEF FrameOf
  <2> QED BY <1>1, <1>2, <2>6 DEF j
<1>12. /\ OverOf(c, sc, 0, n) = {f} /\ Owning(c, sc, 0, n) = {f} /\ Min({f}) = f
  <2>1. OverOf(c, sc, 0, n) = {f}
    BY <1>3, <1>4, <1>5, <1>30 DEF OverOf
  <2>2. Owning(c, sc, 0, n) = {f}
    BY <1>3, <2>1 DEF Owning
  <2>3. Min({f}) = f
    <3>1. {f} \in SUBSET Nat /\ f \in {f} /\ \A y \in {f} : f <= y
      BY <1>3
    <3> QED BY <3>1, LeastIs
  <2> QED BY <2>1, <2>2, <2>3
<1>13. /\ G[1] = [F[1] EXCEPT !.val = With(@, n, v)]
       /\ n \in F[1].ro <=> old[n].attrs.readonly
  <2>1. 1 \in 1 .. N /\ 1 - 1 = 0 /\ 0 \in 0 .. Len(c)
    BY <1>3
  <2>2. F[1] = FrameOf(c, sc, e, r, 0) /\ G[1] = FrameOf(c, td, e, r, 0)
    BY <1>1, <1>2, <2>1
  <2> DEFINE val == [m \in Names |-> EnvIn(c, sc, e, 0, m)]
             val2 == [m \in Names |-> EnvIn(c, td, e, 0, m)]
             ro == {m \in Names : RoIn(c, sc, r, 0, m)}
             ro2 == {m \in Names : RoIn(c, td, r, 0, m)}
  <2>3. FrameOf(c, sc, e, r, 0) = [kind |-> "shell", val |-> val, ro |-> ro]
        /\ FrameOf(c, td, e, r, 0) = [kind |-> "shell", val |-> val2, ro |-> ro2]
    BY DEF FrameOf, BindsOf, KindOf
  <2>4. EnvIn(c, td, e, 0, n) = v
    <3>1. EnvIn(c, td, e, 0, n) = SavedEnv(c, td, f, n)
      BY <1>8, <1>12, <2>1 DEF EnvIn
    <3> QED BY <1>4, <1>5, <3>1
  <2>5. val2 = With(val, n, v)
    BY <1>9, <2>1, <2>4 DEF With
  <2>6. ro2 = ro
    BY <1>10, <2>1
  <2>7. n \in ro <=> old[n].attrs.readonly
    <3>1. RoIn(c, sc, r, 0, n) <=> SavedRo(c, sc, f, n)
      BY <1>12 DEF RoIn
    <3>2. SavedRo(c, sc, f, n) = old[n].attrs.readonly
      BY <1>4
    <3>3. n \in ro <=> RoIn(c, sc, r, 0, n)
      OBVIOUS
    <3> QED BY <3>1, <3>2, <3>3, Zenon
  <2> HIDE DEF val, val2, ro, ro2
  <2> QED BY <2>2, <2>3, <2>5, <2>6, <2>7
<1> HIDE DEF F, G
<1>14. G = [F EXCEPT ![1] = [F[1] EXCEPT !.val = With(@, n, v)]]
  BY <1>1, <1>2, <1>11, <1>13, PutFrame
<1>15. G = [F EXCEPT ![1].val = With(@, n, v)]
  BY <1>14
<1> QED BY <1>13, <1>15 DEF F, G, old, Rebound

-------------------------------------------------------------------------------
(* Each command does to the bindings what DynamicScope says.                  *)

\* The scripts the refinement is about.  Not: handlers that leave a frame, a local
\* inside a subshell or of the name eval assigns, unset of a caller's local inside
\* a subshell or under temporary assignments, declare -g behind more than one
\* local, attributes of unset names.
Scoped ==
  /\ ~Does("attribute-of-unset") /\ ~Does("global-shadowed")
  /\ Does("local") => /\ ~Does("trap") /\ ~Does("local-in-eval") /\ ~Does("local-in-subshell")
                      /\ ~Does("unset-in-subshell")
  /\ Does("local") /\ Does("unset") => ~Does("prefix") /\ ~Does("eval")

\* The bindings of this state, and of the next.
Here == Chain(control, scopes, sh.env, sh.readonly)

LEMMA StateFacts ==
  ASSUME FramesInv
  PROVE  /\ control \in Seq(Entries) /\ scopes \in Seq(ScopeRecords) /\ sh \in Tables
         /\ Len(control) \in Nat /\ DOMAIN control = 1 .. Len(control)
         /\ Placed(control, scopes) /\ (~Does("trap") => AllPlaced(control, scopes))
         /\ (~Does("local") => NoLocals(scopes))
         /\ (~(Does("prefix") \/ Does("eval")) => NoPrefixes(control))
         /\ \A i \in 0 .. Len(control) : BindsOf(control, scopes, i) \subseteq Names
         /\ DOMAIN sh.env = Names /\ sh.readonly \subseteq Names
<1>1. /\ control \in Seq(Entries) /\ scopes \in Seq(ScopeRecords) /\ sh \in Tables
      /\ Placed(control, scopes) /\ (~Does("trap") => AllPlaced(control, scopes))
      /\ (~Does("local") => NoLocals(scopes))
      /\ (~(Does("prefix") \/ Does("eval")) => NoPrefixes(control))
  BY DEF FramesInv, Sound
<1>2. Len(control) \in Nat /\ DOMAIN control = 1 .. Len(control)
  BY <1>1
<1>3. DOMAIN sh.env = Names /\ sh.readonly \subseteq Names
  BY <1>1 DEF Tables
<1>4. ASSUME NEW i \in 0 .. Len(control)
      PROVE  BindsOf(control, scopes, i) \subseteq Names
  <2>1. CASE i = 0
    BY <2>1 DEF BindsOf
  <2>2. CASE i # 0
    <3>1. i \in 1 .. Len(control) /\ control[i] \in Entries
      BY <1>1, <1>2, <2>2
    <3>2. CASE control[i].kind = "function"
      <4>1. i \in Functions(control)
        BY <1>2, <3>1, <3>2 DEF Functions
      <4>2. control[i].scope \in DOMAIN scopes
        BY <1>1, <4>1 DEF Placed
      <4>3. scopes[control[i].scope] \in ScopeRecords
        BY <1>1, <4>2
      <4>4. DOMAIN scopes[control[i].scope].vars \subseteq Names
        BY <4>3, ScopeHas
      <4> QED BY <2>2, <3>2, <4>4 DEF BindsOf
    <3>3. CASE control[i].kind = "prefix"
      <4>1. control[i].name \in Names
        BY <3>1, <3>3, EntryCases DEF PrefixEntries
      <4> QED BY <2>2, <3>3, <4>1 DEF BindsOf
    <3>4. CASE control[i].kind = "subshell"
      BY <2>2, <3>4 DEF BindsOf
    <3> QED BY <3>1, <3>2, <3>3, <3>4, EntryCases
  <2> QED BY <2>1, <2>2
<1> QED BY <1>1, <1>2, <1>3, <1>4

\* What a name means is what the tables say.
LEMMA NamesMean ==
  ASSUME FramesInv, NEW n \in Names, NEW i, Inner(control, scopes, n, i),
         NEW o, Owns(control, scopes, n, o)
  PROVE  /\ Scope!Innermost(n) = i + 1 /\ Scope!Owner(n) = o + 1
         /\ Scope!Value(n) = sh.env[n] /\ (Scope!IsReadonly(n) <=> n \in sh.readonly)
<1>1. Bindings = Here /\ control \in Seq(Entries)
  BY BindingsAre, StateFacts DEF Here
<1>2. /\ Max(HoldersOf(Here, n)) = i + 1 /\ Here[i + 1].val[n] = sh.env[n]
  BY <1>1, InnerIs DEF Here
<1>3. Max(OwnersOf(Here, n)) = o + 1 /\ (n \in Here[o + 1].ro <=> n \in sh.readonly)
  BY <1>1, OwnsIs DEF Here
<1>4. Scope!Holders(n) = HoldersOf(Here, n)
  BY <1>1 DEF Scope!Holders, HoldersOf
<1>5. {k \in Scope!Holders(n) : Bindings[k].kind # "prefix"} = OwnersOf(Here, n)
  BY <1>1, <1>4 DEF OwnersOf
<1>6. Scope!Innermost(n) = i + 1
  BY <1>2, <1>4 DEF Scope!Innermost, Scope!Max, Max
<1>7. Scope!Owner(n) = o + 1
  BY <1>3, <1>5 DEF Scope!Owner, Scope!Max, Max
<1>8. Scope!Value(n) = sh.env[n]
  BY <1>1, <1>2, <1>6 DEF Scope!Value
<1>9. Scope!IsReadonly(n) <=> n \in sh.readonly
  BY <1>1, <1>3, <1>7 DEF Scope!IsReadonly
<1> QED BY <1>6, <1>7, <1>8, <1>9

\* Bindings of the next state.
LEMMA NextBindings == FramesInv' => Bindings' = Chain(control', scopes', sh'.env, sh'.readonly)
<1>1. (FramesInv => Bindings = Chain(control, scopes, sh.env, sh.readonly))'
  BY BindingsAre, PTL
<1> QED BY <1>1

\* The tables keep their values and readonly names: a stutter.
LEMMA Stutters ==
  ASSUME FramesInv, FramesInv', control' = control, scopes' = scopes,
         sh'.env = sh.env, sh'.readonly = sh.readonly
  PROVE  Bindings' = Bindings
BY BindingsAre, NextBindings

\* A value of a name that is not readonly.
LEMMA AssignRef ==
  ASSUME FramesInv, FramesInv', control' = control, scopes' = scopes, NEW n \in Names, NEW v,
         sh'.env = [sh.env EXCEPT ![n] = v], sh'.readonly = sh.readonly, n \notin sh.readonly
  PROVE  /\ ~Scope!IsReadonly(n)
         /\ Bindings' = Scope!Bind(Scope!Innermost(n), n, v)
<1>1. /\ Bindings = Here /\ control \in Seq(Entries) /\ DOMAIN sh.env = Names
      /\ Bindings' = Chain(control, scopes, sh'.env, sh.readonly)
      /\ \A j \in 1 .. Len(control) : BindsOf(control, scopes, j) \subseteq Names
  BY BindingsAre, NextBindings, StateFacts DEF Here
<1>2. PICK i : Inner(control, scopes, n, i)
  BY <1>1, InnerExists
<1>3. PICK o : Owns(control, scopes, n, o)
  BY <1>1, OwnerExists
<1>4. Scope!Innermost(n) = i + 1 /\ ~Scope!IsReadonly(n)
  BY <1>2, <1>3, NamesMean
<1>5. sh'.env[n] = v /\ \A m \in Names : m # n => sh'.env[m] = sh.env[m]
  BY <1>1
<1> DEFINE e2 == sh'.env
<1>6. e2[n] = v /\ \A m \in Names : m # n => e2[m] = sh.env[m]
  BY <1>5
<1> HIDE DEF e2
<1>7. Chain(control, scopes, e2, sh.readonly) = [Here EXCEPT ![i + 1].val = With(@, n, v)]
  BY <1>1, <1>2, <1>6, SetValue DEF Here
<1>8. Bindings' = [Here EXCEPT ![i + 1].val = With(@, n, v)]
  BY <1>1, <1>7 DEF e2
<1> QED BY <1>1, <1>4, <1>8 DEF Scope!Bind, Scope!With, With

\* readonly n, of a set n.
LEMMA ProtectRef ==
  ASSUME FramesInv, FramesInv', control' = control, scopes' = scopes, NEW n \in Names,
         sh'.env = sh.env, sh'.readonly = sh.readonly \cup {n}
  PROVE  Scope!Protect(n)
<1> DEFINE r2 == Mark(sh.readonly, n, TRUE)
           C == Chain(control, scopes, sh.env, sh.readonly)
<1>1. /\ Bindings = C /\ control \in Seq(Entries)
      /\ Bindings' = Chain(control, scopes, sh.env, r2)
  BY BindingsAre, NextBindings, StateFacts DEF Mark
<1>2. PICK i : Inner(control, scopes, n, i)
  BY <1>1, InnerExists
<1>3. PICK o : Owns(control, scopes, n, o)
  BY <1>1, OwnerExists
<1>4. Scope!Owner(n) = o + 1
  BY <1>2, <1>3, NamesMean
<1>5. TRUE \in BOOLEAN
  OBVIOUS
<1>6. Chain(control, scopes, sh.env, r2) = [C EXCEPT ![o + 1].ro = Mark(@, n, TRUE)]
  <2>1. \A b \in BOOLEAN : Chain(control, scopes, sh.env, Mark(sh.readonly, n, b)) =
                              [C EXCEPT ![o + 1].ro = Mark(@, n, b)]
    BY <1>1, <1>3, SetOwner
  <2> HIDE DEF C
  <2> QED BY <1>5, <2>1, Zenon
<1> HIDE DEF C, r2
<1>7. Bindings' = [Bindings EXCEPT ![o + 1].ro = Mark(@, n, TRUE)]
  BY <1>1, <1>6
<1> QED BY <1>4, <1>7 DEF Scope!Protect, Mark

\* A value and an attribute at once.
LEMMA AssignMarkRef ==
  ASSUME FramesInv, FramesInv', control' = control, scopes' = scopes, NEW n \in Names, NEW v,
         NEW b \in BOOLEAN, sh'.env = [sh.env EXCEPT ![n] = v], sh'.readonly = Mark(sh.readonly, n, b),
         NEW i, Inner(control, scopes, n, i), NEW o, Owns(control, scopes, n, o)
  PROVE  Bindings' = [Scope!Bind(i + 1, n, v) EXCEPT ![o + 1].ro = Mark(@, n, b)]
<1>1. /\ Bindings = Here /\ control \in Seq(Entries) /\ DOMAIN sh.env = Names
      /\ Bindings' = Chain(control, scopes, sh'.env, Mark(sh.readonly, n, b))
      /\ \A j \in 1 .. Len(control) : BindsOf(control, scopes, j) \subseteq Names
  BY BindingsAre, NextBindings, StateFacts DEF Here
<1> DEFINE e2 == sh'.env
           C == Chain(control, scopes, e2, sh.readonly)
<1>2. e2[n] = v /\ \A m \in Names : m # n => e2[m] = sh.env[m]
  BY <1>1
<1> HIDE DEF e2
<1>3. C = [Here EXCEPT ![i + 1].val = With(@, n, v)]
  BY <1>1, <1>2, SetValue DEF Here
<1>4. C = Scope!Bind(i + 1, n, v)
  BY <1>1, <1>3 DEF Scope!Bind, Scope!With, With
<1>5. Chain(control, scopes, e2, Mark(sh.readonly, n, b)) = [C EXCEPT ![o + 1].ro = Mark(@, n, b)]
  BY <1>1, SetOwner
<1> HIDE DEF C
<1> QED BY <1>1, <1>4, <1>5 DEF e2

LEMMA AssignAndProtectRef ==
  ASSUME FramesInv, FramesInv', control' = control, scopes' = scopes, NEW n \in Names, NEW v,
         sh'.env = [sh.env EXCEPT ![n] = v], sh'.readonly = sh.readonly \cup {n}, n \notin sh.readonly
  PROVE  Scope!AssignAndProtect(n, v)
<1>1. control \in Seq(Entries)
  BY StateFacts
<1>2. PICK i : Inner(control, scopes, n, i)
  BY <1>1, InnerExists
<1>3. PICK o : Owns(control, scopes, n, o)
  BY <1>1, OwnerExists
<1>4. Scope!Innermost(n) = i + 1 /\ Scope!Owner(n) = o + 1 /\ ~Scope!IsReadonly(n)
  BY <1>2, <1>3, NamesMean
<1>5. TRUE \in BOOLEAN /\ sh'.readonly = Mark(sh.readonly, n, TRUE)
  BY DEF Mark
<1>6. Bindings' = [Scope!Bind(i + 1, n, v) EXCEPT ![o + 1].ro = Mark(@, n, TRUE)]
  <2>1. \A b \in BOOLEAN : sh'.readonly = Mark(sh.readonly, n, b) =>
          Bindings' = [Scope!Bind(i + 1, n, v) EXCEPT ![o + 1].ro = Mark(@, n, b)]
    BY <1>2, <1>3, AssignMarkRef
  <2> QED BY <1>5, <2>1, Zenon
<1> DEFINE B == Scope!Bind(i + 1, n, v)
<1>7. B = Scope!Bind(Scope!Innermost(n), n, v)
  BY <1>4
<1> HIDE DEF B
<1>8. Bindings' = [B EXCEPT ![Scope!Owner(n)].ro = @ \cup {n}]
  BY <1>4, <1>6 DEF Mark, B
<1> QED BY <1>4, <1>7, <1>8 DEF Scope!AssignAndProtect

-------------------------------------------------------------------------------
(* What begins and ends.                                                      *)

\* What an entry binds, what it saved of it, and the frame it is while on top.
EntryBinds(en, sc) == IF en.kind = "function" THEN DOMAIN sc[en.scope].vars
                      ELSE IF en.kind = "prefix" THEN {en.name} ELSE Names
EntryEnv(en, sc, n) == IF en.kind = "function" THEN sc[en.scope].vars[n].value
                       ELSE IF en.kind = "prefix" THEN en.value ELSE en.store.env[n]
EntryRo(en, sc, n) == IF en.kind = "function" THEN sc[en.scope].vars[n].attrs.readonly
                      ELSE n \in en.store.readonly
EntryFrame(en, sc, e, r) ==
  [kind |-> en.kind, val |-> [n \in EntryBinds(en, sc) |-> e[n]],
   ro |-> {n \in EntryBinds(en, sc) : en.kind # "prefix" /\ n \in r}]

\* With the entry on top of the values e and readonly names r there were e2 and r2.
Saves(en, sc, e, r, e2, r2) ==
  /\ \A n \in Names : e2[n] = IF n \in EntryBinds(en, sc) THEN EntryEnv(en, sc, n) ELSE e[n]
  /\ \A n \in Names : n \in r2 <=> IF n \in EntryBinds(en, sc) /\ en.kind # "prefix"
                                   THEN EntryRo(en, sc, n) ELSE n \in r
BindsNames(c, sc) == \A i \in 1 .. Len(c) : BindsOf(c, sc, i) \subseteq Names

LEMMA Push ==
  ASSUME NEW c \in Seq(Entries), NEW en \in Entries, NEW sc, NEW e, NEW r, NEW e2, NEW r2,
         BindsNames(c, sc), Saves(en, sc, e, r, e2, r2)
  PROVE  Chain(Append(c, en), sc, e, r) = Append(Chain(c, sc, e2, r2), EntryFrame(en, sc, e, r))
<1> DEFINE d == Append(c, en)
           l == Len(c) + 1
<1>1. d \in Seq(Entries) /\ Len(d) = l /\ d[l] = en /\ l \in Nat /\ l # 0
  BY PushIs
<1> HIDE DEF d
<1>2. BindsOf(d, sc, l) = EntryBinds(en, sc)
  BY <1>1 DEF BindsOf, EntryBinds
<1>3. \A n : SavedEnv(d, sc, l, n) = EntryEnv(en, sc, n)
  BY <1>1 DEF SavedEnv, EntryEnv
<1>4. \A n : SavedRo(d, sc, l, n) = EntryRo(en, sc, n)
  BY <1>1 DEF SavedRo, EntryRo
<1>5. \A n \in Names :
        /\ e2[n] = IF n \in BindsOf(d, sc, l) THEN SavedEnv(d, sc, l, n) ELSE e[n]
        /\ n \in r2 <=> IF n \in BindsOf(d, sc, l) /\ en.kind # "prefix"
                        THEN SavedRo(d, sc, l, n) ELSE n \in r
  BY <1>2, <1>3, <1>4 DEF Saves
<1>6. Chain(d, sc, e, r) = Append(Chain(c, sc, e2, r2), FrameOf(d, sc, e, r, l))
  BY <1>5, ChainPush DEF d, BindsNames
<1>7. \A n : EnvIn(d, sc, e, l, n) = e[n] /\ (RoIn(d, sc, r, l, n) <=> n \in r)
  BY <1>1 DEF EnvIn, RoIn, OverOf, Owning
<1>8. KindOf(d, l) = en.kind
  BY <1>1 DEF KindOf
<1>9. FrameOf(d, sc, e, r, l) = EntryFrame(en, sc, e, r)
  BY <1>2, <1>7, <1>8 DEF FrameOf, EntryFrame
<1> QED BY <1>6, <1>9 DEF d

LEMMA PrefixRef ==
  ASSUME FramesInv, FramesInv', NEW n \in Names, NEW v \in Temporary, NEW for \in {"call", "eval"},
         Prefix(n, v, for)
  PROVE  Scope!Prefix(n, v)
<1> DEFINE en == [kind |-> "prefix", for |-> for, name |-> n, value |-> sh.env[n],
                  typed |-> sh.typed[n], exported |-> sh.exported]
           d == Append(control, en)
           e2 == sh'.env
           top == EntryFrame(en, scopes, e2, sh.readonly)
<1>1. /\ control \in Seq(Entries) /\ sh \in Tables
      /\ \A i \in 1 .. Len(control) : BindsOf(control, scopes, i) \subseteq Names
      /\ DOMAIN sh.env = Names
  BY StateFacts
<1>2. /\ control' = d /\ scopes' = scopes
      /\ sh' = [AssignVar(sh, n, v) EXCEPT !.exported = @ \cup {n}]
  BY DEF Prefix
<1>3. /\ sh'.readonly = sh.readonly
      /\ e2 = IF n \in sh.readonly THEN sh.env ELSE [sh.env EXCEPT ![n] = v]
  BY <1>1, <1>2 DEF AssignVar, Tables
<1>4. en \in Entries
  BY <1>1 DEF Entries, PrefixEntries, Tables
<1>5. en.kind = "prefix" /\ EntryBinds(en, scopes) = {n} /\ \A m : EntryEnv(en, scopes, m) = sh.env[n]
  BY DEF EntryBinds, EntryEnv
<1>6. Bindings' = Chain(d, scopes, e2, sh.readonly)
  BY <1>2, <1>3, NextBindings
<1>7. Bindings = Chain(control, scopes, sh.env, sh.readonly)
  BY BindingsAre
<1> HIDE DEF en, e2
<1>8. \A m \in Names : sh.env[m] = IF m \in EntryBinds(en, scopes) THEN EntryEnv(en, scopes, m) ELSE e2[m]
  BY <1>1, <1>3, <1>5
<1>9. \A m \in Names : m \in sh.readonly <=> IF m \in EntryBinds(en, scopes) /\ en.kind # "prefix"
                                            THEN EntryRo(en, scopes, m) ELSE m \in sh.readonly
  BY <1>5
<1>10. Chain(d, scopes, e2, sh.readonly) = Append(Chain(control, scopes, sh.env, sh.readonly), top)
  <2>1. Saves(en, scopes, e2, sh.readonly, sh.env, sh.readonly) /\ BindsNames(control, scopes)
    BY <1>1, <1>8, <1>9 DEF Saves, BindsNames
  <2> QED BY <1>1, <1>4, <2>1, Push
<1>11. Bindings' = Append(Bindings, top)
  BY <1>6, <1>7, <1>10
<1>12. e2[n] = IF Scope!IsReadonly(n) THEN Scope!Value(n) ELSE v
  <2>1. PICK i : Inner(control, scopes, n, i)
    BY <1>1, InnerExists
  <2>2. PICK o : Owns(control, scopes, n, o)
    BY <1>1, OwnerExists
  <2>3. Scope!Value(n) = sh.env[n] /\ (Scope!IsReadonly(n) <=> n \in sh.readonly)
    BY <2>1, <2>2, NamesMean
  <2> QED BY <1>1, <1>3, <2>3
<1>13. top = [kind |-> "prefix", val |-> [m \in {n} |-> e2[m]], ro |-> {}]
  <2>1. {m \in EntryBinds(en, scopes) : en.kind # "prefix" /\ m \in sh.readonly} = {}
    BY <1>5
  <2> QED BY <1>5, <2>1 DEF EntryFrame
<1>14. [m \in {n} |-> e2[m]] = Scope!Only(n, e2[n])
  BY DEF Scope!Only
<1> HIDE DEF top
<1>15. top = Scope!Frame("prefix", Scope!Only(n, IF Scope!IsReadonly(n) THEN Scope!Value(n) ELSE v), {})
  BY <1>12, <1>13, <1>14 DEF Scope!Frame
<1> QED BY <1>11, <1>15 DEF Scope!Prefix

LEMMA SubshellRef ==
  ASSUME FramesInv, FramesInv', Subshell
  PROVE  Scope!Subshell
<1> DEFINE en == [kind |-> "subshell", store |-> sh]
           d == Append(control, en)
           top == EntryFrame(en, scopes, sh.env, sh.readonly)
<1>1. /\ control \in Seq(Entries) /\ sh \in Tables
      /\ \A i \in 1 .. Len(control) : BindsOf(control, scopes, i) \subseteq Names
      /\ DOMAIN sh.env = Names /\ sh.readonly \subseteq Names
  BY StateFacts
<1>2. control' = d /\ scopes' = scopes /\ sh' = sh
  BY DEF Subshell
<1>3. en \in Entries
  BY <1>1 DEF Entries, SubshellEntries
<1>4. /\ en.kind = "subshell" /\ EntryBinds(en, scopes) = Names
      /\ \A m : EntryEnv(en, scopes, m) = sh.env[m]
      /\ \A m : EntryRo(en, scopes, m) = (m \in sh.readonly)
  BY DEF EntryBinds, EntryEnv, EntryRo
<1>5. Bindings' = Chain(d, scopes, sh.env, sh.readonly)
  BY <1>2, NextBindings
<1>6. Bindings = Chain(control, scopes, sh.env, sh.readonly)
  BY BindingsAre
<1> HIDE DEF en
<1>7. \A m \in Names : sh.env[m] = IF m \in EntryBinds(en, scopes) THEN EntryEnv(en, scopes, m) ELSE sh.env[m]
  BY <1>4
<1>8. \A m \in Names : m \in sh.readonly <=> IF m \in EntryBinds(en, scopes) /\ en.kind # "prefix"
                                            THEN EntryRo(en, scopes, m) ELSE m \in sh.readonly
  BY <1>4
<1>9. Chain(d, scopes, sh.env, sh.readonly) = Append(Chain(control, scopes, sh.env, sh.readonly), top)
  <2>1. Saves(en, scopes, sh.env, sh.readonly, sh.env, sh.readonly) /\ BindsNames(control, scopes)
    BY <1>1, <1>7, <1>8 DEF Saves, BindsNames
  <2> QED BY <1>1, <1>3, <2>1, Push
<1>10. Bindings' = Append(Bindings, top)
  BY <1>5, <1>6, <1>9
<1>11. ASSUME NEW m \in Names
       PROVE  Scope!Value(m) = sh.env[m] /\ (Scope!IsReadonly(m) <=> m \in sh.readonly)
  <2>1. PICK i : Inner(control, scopes, m, i)
    BY <1>1, InnerExists
  <2>2. PICK o : Owns(control, scopes, m, o)
    BY <1>1, OwnerExists
  <2> QED BY <2>1, <2>2, NamesMean
<1>12. top = [kind |-> "subshell", val |-> [m \in Names |-> sh.env[m]],
              ro |-> {m \in Names : Scope!IsReadonly(m)}]
  <2>1. {m \in EntryBinds(en, scopes) : en.kind # "prefix" /\ m \in sh.readonly} =
          {m \in Names : Scope!IsReadonly(m)}
    BY <1>4, <1>11
  <2> QED BY <1>4, <2>1 DEF EntryFrame
<1>13. [m \in Names |-> sh.env[m]] = [m \in Names |-> Scope!Value(m)]
  BY <1>11
<1> HIDE DEF top
<1>14. top = Scope!Frame("subshell", [m \in Names |-> Scope!Value(m)], {m \in Names : Scope!IsReadonly(m)})
  BY <1>12, <1>13 DEF Scope!Frame
<1> QED BY <1>10, <1>14 DEF Scope!Subshell

\* A call that was pending is the same entry.
LEMMA CalledIs ==
  ASSUME FramesInv
  PROVE  Called \in Seq(Entries) /\ Len(Called) = Len(control)
         /\ \A i \in 1 .. Len(control) : SameEntry(control[i], Called[i])
<1>1. control \in Seq(Entries)
  BY StateFacts
<1>2. CASE ~Pending
  BY <1>1, <1>2 DEF Called, SameEntry
<1>3. CASE Pending
  <2> DEFINE l == Len(control)
             e == [control[l] EXCEPT !.for = "called"]
             d == [control EXCEPT ![l] = e]
  <2>1. control # <<>> /\ l \in Nat \ {0} /\ l \in DOMAIN control /\ control[l].kind = "prefix"
    BY <1>1, <1>3 DEF Pending, OnTop, Last
  <2>2. control[l] \in PrefixEntries
    BY <1>1, <2>1, EntryCases
  <2>3. e \in PrefixEntries /\ SameEntry(control[l], e)
    BY <2>2 DEF PrefixEntries, SameEntry
  <2>4. Called = d
    BY <1>3 DEF Called
  <2> HIDE DEF e
  <2>5. e \in Entries
    BY <2>3 DEF Entries
  <2>6. d \in Seq(Entries) /\ Len(d) = l /\ \A i \in 1 .. l : SameEntry(control[i], d[i])
    BY <1>1, <2>1, <2>3, <2>5 DEF SameEntry
  <2> HIDE DEF d
  <2> QED BY <2>4, <2>6
<1> QED BY <1>2, <1>3

\* Scopes that start with those there are: the bindings are the same.
LEMMA CalledSame ==
  ASSUME FramesInv, NEW td, \A k \in DOMAIN scopes : td[k] = scopes[k], NEW e, NEW r
  PROVE  Chain(Called, td, e, r) = Chain(control, scopes, e, r)
<1>1. control \in Seq(Entries) /\ DOMAIN control = 1 .. Len(control) /\ Placed(control, scopes)
  BY StateFacts
<1>2. /\ Len(Called) = Len(control)
      /\ \A i \in 1 .. Len(control) : SameEntry(control[i], Called[i])
  BY CalledIs
<1>3. \A i \in 1 .. Len(control) : control[i].kind = "function" => control[i].scope \in DOMAIN scopes
  BY <1>1 DEF Placed, Functions
<1>4. Agree(control, scopes, Called, td, Len(control))
  BY <1>2, <1>3 DEF Agree
<1> QED BY <1>1, <1>2, <1>4, ChainSame

LEMMA CallRef ==
  ASSUME FramesInv, FramesInv', Call
  PROVE  Scope!Call
<1> DEFINE en == [kind |-> "function", scope |-> Len(scopes) + 1]
           d == Append(Called, en)
           td == Append(scopes, EmptyScope)
           top == EntryFrame(en, td, sh.env, sh.readonly)
<1>1. /\ control \in Seq(Entries) /\ scopes \in Seq(ScopeRecords)
      /\ Len(control) \in Nat /\ DOMAIN control = 1 .. Len(control) /\ Placed(control, scopes)
  BY StateFacts
<1>2. control' = d /\ scopes' = td /\ sh' = sh
  BY DEF Call
<1>3. en \in Entries /\ Called \in Seq(Entries) /\ Len(Called) = Len(control)
  <2>1. Len(scopes) + 1 \in Nat
    BY <1>1
  <2>2. en \in FunctionEntries
    BY <2>1 DEF FunctionEntries
  <2> QED BY <2>2, CalledIs DEF Entries
<1>4. td[Len(scopes) + 1] = EmptyScope /\ \A k \in DOMAIN scopes : td[k] = scopes[k]
  BY <1>1, NoScope, PushIs
<1>5. en.kind = "function" /\ EntryBinds(en, td) = {}
  BY <1>4, NoScope DEF EntryBinds
<1>6. Bindings' = Chain(d, td, sh.env, sh.readonly)
  BY <1>2, NextBindings
<1>7. Bindings = Chain(control, scopes, sh.env, sh.readonly)
  BY BindingsAre
<1> HIDE DEF en, td
<1>8. \A i \in 1 .. Len(Called) : BindsOf(Called, td, i) \subseteq Names
  <2> SUFFICES ASSUME NEW i \in 1 .. Len(Called) PROVE BindsOf(Called, td, i) \subseteq Names
    OBVIOUS
  <2>1. BindsOf(control, scopes, i) \subseteq Names
    BY <1>3, StateFacts
  <2>2. SameEntry(control[i], Called[i]) /\ i \in DOMAIN control
    BY <1>1, <1>3, CalledIs
  <2>3. control[i].kind = "function" => td[control[i].scope] = scopes[control[i].scope]
    BY <1>1, <1>4, <2>2 DEF Placed, Functions
  <2>4. BindsOf(Called, td, i) = BindsOf(control, scopes, i)
    BY <2>2, <2>3 DEF BindsOf, SameEntry
  <2> QED BY <2>1, <2>4
<1>9. \A m \in Names : sh.env[m] = IF m \in EntryBinds(en, td) THEN EntryEnv(en, td, m) ELSE sh.env[m]
  BY <1>5
<1>10. \A m \in Names : m \in sh.readonly <=> IF m \in EntryBinds(en, td) /\ en.kind # "prefix"
                                             THEN EntryRo(en, td, m) ELSE m \in sh.readonly
  BY <1>5
<1>11. Chain(d, td, sh.env, sh.readonly) = Append(Chain(Called, td, sh.env, sh.readonly), top)
  <2>1. Saves(en, td, sh.env, sh.readonly, sh.env, sh.readonly) /\ BindsNames(Called, td)
    BY <1>8, <1>9, <1>10 DEF Saves, BindsNames
  <2> QED BY <1>3, <2>1, Push
<1>12. Chain(Called, td, sh.env, sh.readonly) = Chain(control, scopes, sh.env, sh.readonly)
  BY <1>4, CalledSame
<1>13. Bindings' = Append(Bindings, top)
  BY <1>6, <1>7, <1>11, <1>12
<1>14. top = [kind |-> "function", val |-> [m \in {} |-> sh.env[m]], ro |-> {}]
  <2>1. {m \in EntryBinds(en, td) : en.kind # "prefix" /\ m \in sh.readonly} = {}
    BY <1>5
  <2> QED BY <1>5, <2>1 DEF EntryFrame
<1>15. [m \in {} |-> sh.env[m]] = <<>>
  OBVIOUS
<1> HIDE DEF top
<1>16. top = Scope!Frame("function", <<>>, {})
  BY <1>14, <1>15 DEF Scope!Frame
<1> QED BY <1>13, <1>16 DEF Scope!Call

\* What is on top ends: the values and readonly names are what it saved.
LEMMA LeaveRef ==
  ASSUME FramesInv, FramesInv', control # <<>>, control' = Front(control),
         \A i \in 1 .. Len(control) - 1 :
           control[i].kind = "function" => scopes'[control[i].scope] = scopes[control[i].scope],
         Saves(Last(control), scopes, sh.env, sh.readonly, sh'.env, sh'.readonly)
  PROVE  Scope!Leave
<1> DEFINE c == Front(control)
           en == Last(control)
           e2 == sh'.env
           r2 == sh'.readonly
           top == EntryFrame(en, scopes, sh.env, sh.readonly)
           B == Chain(c, scopes, e2, r2)
<1>1. /\ control \in Seq(Entries) /\ Len(control) \in Nat
      /\ \A i \in 0 .. Len(control) : BindsOf(control, scopes, i) \subseteq Names
  BY StateFacts
<1>2. /\ c \in Seq(Entries) /\ Len(c) = Len(control) - 1 /\ Len(control) \in Nat \ {0}
      /\ en = control[Len(control)] /\ \A i \in 1 .. Len(c) : c[i] = control[i]
  BY <1>1, PopIs
<1>3. en \in Entries
  BY <1>1, <1>2
<1>4. control = Append(c, en)
  <2>1. Len(Append(c, en)) = Len(control) /\ Append(c, en) \in Seq(Entries)
        /\ \A i \in 1 .. Len(control) : Append(c, en)[i] = control[i]
    BY <1>2, <1>3
  <2> HIDE DEF c, en
  <2> QED BY <1>1, <2>1
<1>5. Saves(en, scopes, sh.env, sh.readonly, e2, r2)
  OBVIOUS
<1>7. control' = c /\ Bindings' = Chain(c, scopes', e2, r2)
  BY NextBindings
<1>8. Bindings = Chain(control, scopes, sh.env, sh.readonly)
  BY BindingsAre
<1> HIDE DEF c, en, e2, r2
<1>9. BindsNames(c, scopes)
  <2> SUFFICES ASSUME NEW i \in 1 .. Len(c) PROVE BindsOf(c, scopes, i) \subseteq Names
    BY DEF BindsNames
  <2>1. i \in 0 .. Len(control) /\ c[i] = control[i]
    BY <1>2
  <2>2. BindsOf(c, scopes, i) = BindsOf(control, scopes, i)
    BY <2>1 DEF BindsOf
  <2> QED BY <1>1, <2>1, <2>2
<1>10. Chain(Append(c, en), scopes, sh.env, sh.readonly) = Append(B, top)
  BY <1>2, <1>3, <1>5, <1>9, Push
<1>11. Bindings = Append(B, top)
  BY <1>4, <1>8, <1>10
<1>12. Agree(c, scopes, c, scopes', Len(c))
  BY <1>2 DEF Agree, SameEntry
<1>13. Bindings' = B
  <2> DEFINE td == scopes'
  <2>1. Agree(c, scopes, c, td, Len(c)) /\ Bindings' = Chain(c, td, e2, r2)
    BY <1>7, <1>12
  <2> HIDE DEF td
  <2>2. Chain(c, td, e2, r2) = Chain(c, scopes, e2, r2)
    BY <1>2, <2>1, ChainSame
  <2> QED BY <2>1, <2>2
<1>14. Len(B) = Len(c) + 1 /\ B = [k \in 1 .. Len(c) + 1 |-> B[k]] /\ Len(c) \in Nat
  BY <1>2, ChainIs
<1> HIDE DEF B, top
<1>15. Append(B, top) = [k \in 1 .. Len(c) + 2 |-> IF k = Len(c) + 2 THEN top ELSE B[k]]
  <2> DEFINE N == Len(c) + 1
  <2>1. N \in Nat /\ N + 1 = Len(c) + 2 /\ B = [k \in 1 .. N |-> B[k]]
    BY <1>14
  <2> HIDE DEF N
  <2>2. Append(B, top) = [k \in 1 .. N + 1 |-> IF k = N + 1 THEN top ELSE B[k]]
    BY <2>1, AppendIs
  <2> QED BY <2>1, <2>2
<1>16. /\ Len(Bindings) = Len(c) + 2
       /\ \A k \in 1 .. Len(c) + 1 : Bindings[k] = B[k]
  BY <1>11, <1>14, <1>15
<1>17. Scope!Front(Bindings) = [k \in 1 .. Len(c) + 1 |-> Bindings[k]]
  <2>1. Len(Bindings) - 1 = Len(c) + 1
    BY <1>14, <1>16
  <2> QED BY <2>1 DEF Scope!Front
<1>18. Scope!Front(Bindings) = B
  BY <1>14, <1>16, <1>17
<1> QED BY <1>13, <1>14, <1>16, <1>18 DEF Scope!Leave

LEMMA EndPrefixRef ==
  ASSUME FramesInv, FramesInv', EndPrefix
  PROVE  Scope!Leave
<1> DEFINE p == Last(control)
<1>1. control \in Seq(Entries) /\ sh \in Tables /\ DOMAIN sh.env = Names
  BY StateFacts
<1>2. /\ control # <<>> /\ p.kind = "prefix" /\ control' = Front(control) /\ scopes' = scopes
      /\ sh' = [RestoreVar(sh, p.name, p.value) EXCEPT !.typed[p.name] = p.typed,
                                                       !.exported = p.exported]
  BY DEF EndPrefix, OnTop
<1>3. p \in PrefixEntries
  <2>1. p \in Entries
    BY <1>1, <1>2, PopIs
  <2> QED BY <1>2, <2>1, EntryCases
<1>4. p.name \in Names
  BY <1>3 DEF PrefixEntries
<1> HIDE DEF p
<1>5. sh'.env = [sh.env EXCEPT ![p.name] = p.value] /\ sh'.readonly = sh.readonly
  BY <1>1, <1>2 DEF RestoreVar, Tables
<1>6. EntryBinds(p, scopes) = {p.name} /\ \A n : EntryEnv(p, scopes, n) = p.value
  BY <1>2 DEF EntryBinds, EntryEnv
<1>7. Saves(p, scopes, sh.env, sh.readonly, sh'.env, sh'.readonly)
  BY <1>1, <1>2, <1>4, <1>5, <1>6 DEF Saves
<1> QED BY <1>2, <1>7, LeaveRef DEF p

LEMMA EndSubshellRef ==
  ASSUME FramesInv, FramesInv', EndSubshell
  PROVE  Scope!Leave
<1> DEFINE p == Last(control)
<1>1. control \in Seq(Entries) /\ sh \in Tables
  BY StateFacts
<1>2. /\ control # <<>> /\ p.kind = "subshell" /\ control' = Front(control) /\ scopes' = scopes
      /\ sh' = RestoreShell(sh, p.store)
  BY DEF EndSubshell, OnTop
<1>3. p \in SubshellEntries
  <2>1. p \in Entries
    BY <1>1, <1>2, PopIs
  <2> QED BY <1>2, <2>1, EntryCases
<1>4. p.store \in Tables
  BY <1>3 DEF SubshellEntries
<1> HIDE DEF p
<1>5. sh'.env = p.store.env /\ sh'.readonly = p.store.readonly
  BY <1>1, <1>2, <1>4, ShellRestored
<1>6. /\ EntryBinds(p, scopes) = Names /\ \A n : EntryEnv(p, scopes, n) = p.store.env[n]
      /\ \A n : EntryRo(p, scopes, n) = (n \in p.store.readonly)
  BY <1>2 DEF EntryBinds, EntryEnv, EntryRo
<1>7. Saves(p, scopes, sh.env, sh.readonly, sh'.env, sh'.readonly)
  BY <1>2, <1>5, <1>6 DEF Saves
<1> QED BY <1>2, <1>7, LeaveRef DEF p

\* The function on top, and its scope in the scripts the refinement is about.
LEMMA TopFunction ==
  ASSUME FramesInv, OnTop("function")
  PROVE  LET l == Len(control)
         IN  /\ control # <<>> /\ l \in Functions(control) /\ Last(control) = control[l]
             /\ control[l].kind = "function" /\ scopes # <<>> /\ control[l].scope \in DOMAIN scopes
             /\ \A i \in 1 .. l - 1 : control[i].kind = "function" =>
                  control[i].scope \in 1 .. Len(scopes) - 1
<1> DEFINE l == Len(control)
<1>1. control \in Seq(Entries) /\ scopes \in Seq(ScopeRecords) /\ Placed(control, scopes)
      /\ DOMAIN control = 1 .. l
  BY StateFacts
<1>2. control # <<>> /\ Last(control).kind = "function"
  BY DEF OnTop
<1>3. l \in Nat \ {0} /\ Last(control) = control[l]
  BY <1>1, <1>2, PopIs
<1>4. l \in Functions(control) /\ control[l].kind = "function"
  BY <1>1, <1>2, <1>3 DEF Functions
<1>5. control[l].scope \in DOMAIN scopes /\ DOMAIN scopes = 1 .. Len(scopes) /\ Len(scopes) \in Nat
  BY <1>1, <1>4 DEF Placed
<1>6. ASSUME NEW i \in 1 .. l - 1, control[i].kind = "function"
      PROVE  control[i].scope \in 1 .. Len(scopes) - 1
  <2>1. i \in Functions(control) /\ i < l
    BY <1>1, <1>3, <1>6 DEF Functions
  <2>2. control[i].scope \in DOMAIN scopes /\ control[i].scope < control[l].scope
    BY <1>1, <1>4, <2>1 DEF Placed
  <2> QED BY <1>5, <2>2
<1>7. scopes # <<>>
  BY <1>5
<1> QED BY <1>2, <1>3, <1>4, <1>5, <1>6, <1>7

LEMMA EndFunctionRef ==
  ASSUME FramesInv, FramesInv', Scoped, EndFunction
  PROVE  Scope!Leave
<1> DEFINE l == Len(control)
           p == Last(control)
           r == Last(scopes)
<1>1. /\ scopes \in Seq(ScopeRecords) /\ control \in Seq(Entries) /\ sh \in Tables
      /\ Placed(control, scopes) /\ (~Does("trap") => AllPlaced(control, scopes))
      /\ (~Does("local") => NoLocals(scopes))
  BY StateFacts
<1>2. /\ OnTop("function") /\ control' = Front(control) /\ scopes' = Front(scopes)
      /\ sh' = RestoreLocals(sh, r)
  BY DEF EndFunction
<1>3. /\ control # <<>> /\ l \in Functions(control) /\ p = control[l]
      /\ p.kind = "function" /\ scopes # <<>> /\ p.scope \in DOMAIN scopes
      /\ \A i \in 1 .. l - 1 : control[i].kind = "function" =>
           control[i].scope \in 1 .. Len(scopes) - 1
  BY <1>2, TopFunction
<1>4. /\ r = scopes[Len(scopes)] /\ r \in ScopeRecords /\ Len(scopes) \in DOMAIN scopes
      /\ \A k \in 1 .. Len(scopes) - 1 : Front(scopes)[k] = scopes[k]
  <2>1. /\ Len(scopes) \in Nat \ {0} /\ DOMAIN scopes = 1 .. Len(scopes)
        /\ r = scopes[Len(scopes)]
        /\ \A k \in 1 .. Len(scopes) - 1 : Front(scopes)[k] = scopes[k]
        /\ \A k \in 1 .. Len(scopes) : scopes[k] \in ScopeRecords
    BY <1>1, <1>3, PopIs
  <2>2. Len(scopes) \in 1 .. Len(scopes)
    BY <2>1
  <2> QED BY <2>1, <2>2
<1>5. \A i \in 1 .. l - 1 : control[i].kind = "function" =>
        scopes'[control[i].scope] = scopes[control[i].scope]
  BY <1>2, <1>3, <1>4
<1>6. scopes[p.scope].vars = r.vars \/ (DOMAIN scopes[p.scope].vars = {} /\ DOMAIN r.vars = {})
  <2>1. CASE ~Does("local")
    BY <1>1, <1>3, <1>4, <2>1 DEF NoLocals
  <2>2. CASE Does("local")
    <3>1. AllPlaced(control, scopes) /\ Len(scopes) > 0
      BY <1>1, <1>3, <2>2 DEF Scoped
    <3>2. PICK i \in Functions(control) :
            control[i].scope = Len(scopes) /\ \A j \in Functions(control) : j <= i
      BY <1>1, <3>1, InnermostIs
    <3>3. i = l
      <4>1. i \in 1 .. l /\ l \in Nat
        BY <1>1 DEF Functions
      <4>2. l <= i
        BY <1>3, <3>2
      <4> QED BY <4>1, <4>2
    <3> QED BY <1>3, <1>4, <3>2, <3>3
  <2> QED BY <2>1, <2>2
<1>7. /\ \A n \in DOMAIN r.vars : /\ sh'.env[n] = r.vars[n].value
                                  /\ n \in sh'.readonly <=> r.vars[n].attrs.readonly
      /\ \A n \in Names \ DOMAIN r.vars :
           sh'.env[n] = sh.env[n] /\ (n \in sh'.readonly <=> n \in sh.readonly)
  <2> HIDE DEF r
  <2> QED BY <1>1, <1>2, <1>4, LocalsRestored
<1> HIDE DEF p, r
<1>8. /\ EntryBinds(p, scopes) = DOMAIN scopes[p.scope].vars
      /\ \A n : EntryEnv(p, scopes, n) = scopes[p.scope].vars[n].value
      /\ \A n : EntryRo(p, scopes, n) = scopes[p.scope].vars[n].attrs.readonly
  BY <1>3 DEF EntryBinds, EntryEnv, EntryRo
<1>9. Saves(p, scopes, sh.env, sh.readonly, sh'.env, sh'.readonly)
  <2>1. EntryBinds(p, scopes) = DOMAIN r.vars
    BY <1>6, <1>8
  <2>2. \A n \in DOMAIN r.vars : scopes[p.scope].vars[n] = r.vars[n]
    BY <1>6
  <2>3. \A n \in Names : sh'.env[n] = IF n \in EntryBinds(p, scopes) THEN EntryEnv(p, scopes, n) ELSE sh.env[n]
    BY <1>7, <1>8, <2>1, <2>2
  <2>4. ASSUME NEW n \in Names
        PROVE  n \in sh'.readonly <=> IF n \in EntryBinds(p, scopes) /\ p.kind # "prefix"
                                      THEN EntryRo(p, scopes, n) ELSE n \in sh.readonly
    <3>1. CASE n \in DOMAIN r.vars
      <4>1. n \in sh'.readonly <=> r.vars[n].attrs.readonly
        BY <1>7, <3>1
      <4>2. EntryRo(p, scopes, n) = r.vars[n].attrs.readonly
        BY <1>8, <2>2, <3>1
      <4>3. n \in EntryBinds(p, scopes) /\ p.kind # "prefix"
        BY <1>3, <2>1, <3>1
      <4> QED BY <4>1, <4>2, <4>3, Zenon
    <3>2. CASE n \notin DOMAIN r.vars
      BY <1>7, <2>1, <3>2
    <3> QED BY <3>1, <3>2
  <2> QED BY <2>3, <2>4 DEF Saves
<1> QED BY <1>2, <1>3, <1>5, <1>9, LeaveRef DEF p

\* A RETURN trap that leaves its frame leaves one without locals.
LEMMA EndFunctionTrapFailsRef ==
  ASSUME FramesInv, FramesInv', Scoped, NEW e, EndFunctionTrapFails(e)
  PROVE  Scope!Leave
<1> DEFINE p == Last(control)
<1>1. /\ OnTop("function") /\ control' = Front(control) /\ scopes' = scopes /\ sh' = sh /\ Does("trap")
  BY DEF EndFunctionTrapFails
<1>2. control # <<>> /\ p.kind = "function" /\ p.scope \in DOMAIN scopes
  BY <1>1, TopFunction
<1>3. NoLocals(scopes)
  BY <1>1, StateFacts DEF Scoped
<1> HIDE DEF p
<1>4. EntryBinds(p, scopes) = {}
  BY <1>2, <1>3 DEF EntryBinds, NoLocals
<1>5. Saves(p, scopes, sh.env, sh.readonly, sh'.env, sh'.readonly)
  BY <1>1, <1>4 DEF Saves
<1> QED BY <1>1, <1>2, <1>5, LeaveRef DEF p

\* A call that does nothing, or whose trap fails: the bindings are the same.
LEMMA NoCallRef ==
  ASSUME FramesInv, FramesInv', CallRefused \/ \E e \in {"return", "exit"} : CallTrapFails(e)
  PROVE  Bindings' = Bindings
<1>1. control' = Called /\ sh' = sh
  BY DEF CallRefused, CallTrapFails
<1>2. \A k \in DOMAIN scopes : scopes'[k] = scopes[k]
  <2>1. CASE CallRefused
    BY <2>1 DEF CallRefused
  <2>2. CASE \E e \in {"return", "exit"} : CallTrapFails(e)
    <3>1. scopes' = Append(scopes, EmptyScope)
      BY <2>2 DEF CallTrapFails
    <3>2. scopes \in Seq(ScopeRecords) /\ EmptyScope \in ScopeRecords
      BY StateFacts, NoScope
    <3> QED BY <3>1, <3>2, PushIs
  <2> QED BY <2>1, <2>2
<1> DEFINE td == scopes'
<1>3. Bindings' = Chain(Called, td, sh.env, sh.readonly)
  BY <1>1, NextBindings
<1>4. \A k \in DOMAIN scopes : td[k] = scopes[k]
  BY <1>2
<1> HIDE DEF td
<1>5. Chain(Called, td, sh.env, sh.readonly) = Chain(control, scopes, sh.env, sh.readonly)
  BY <1>4, CalledSame
<1> QED BY <1>3, <1>5, BindingsAre

LEMMA AssignCommandRef ==
  ASSUME FramesInv, FramesInv', NEW n \in Names, NEW v \in Plain, Assign(n, v)
  PROVE  Scope!Next \/ Bindings' = Bindings
<1>1. sh \in Tables /\ v \in Values
  BY StateFacts DEF Plain
<1>2. control' = control /\ scopes' = scopes /\ sh' = AssignVar(sh, n, v)
  BY DEF Assign
<1>3. CASE n \in sh.readonly
  <2>1. sh' = sh
    BY <1>2, <1>3 DEF AssignVar
  <2> QED BY <1>2, <2>1, Stutters
<1>4. CASE n \notin sh.readonly
  <2>1. sh'.env = [sh.env EXCEPT ![n] = v] /\ sh'.readonly = sh.readonly
    BY <1>1, <1>2, <1>4 DEF AssignVar, Tables
  <2>2. Scope!Assign(n, v)
    BY <1>2, <1>4, <2>1, AssignRef DEF Scope!Assign
  <2> QED BY <1>1, <2>2 DEF Scope!Next
<1> QED BY <1>3, <1>4

\* What export and readonly do to the table in a script that gives attributes to
\* set names alone.
LEMMA AttributeIs ==
  ASSUME NEW s \in Tables, NEW n \in Names, NEW v, v # Unset \/ s.env[n] # Unset
  PROVE  LET t == GiveAttributeValue(s, n, v)
         IN  /\ t.env = IF v = Unset THEN s.env ELSE [s.env EXCEPT ![n] = v]
             /\ t.readonly = s.readonly /\ t \in [DOMAIN s -> {t[a] : a \in DOMAIN s}]
             /\ DOMAIN t = {"env", "typed", "penv", "shadowed", "exported", "readonly"}
<1> DEFINE w == AttributeValue(s, n, v)
<1>1. w # Unset /\ w = IF v # Unset THEN v ELSE s.env[n]
  BY DEF AttributeValue
<1> HIDE DEF w
<1> DEFINE t == [s EXCEPT !.env[n] = w, !.penv[n] = w, !.typed[n] = IF v = Unset THEN @ ELSE w]
<1>2. GiveAttributeValue(s, n, v) = t
  BY <1>1 DEF GiveAttributeValue, w
<1>3. t.env = [s.env EXCEPT ![n] = w] /\ t.readonly = s.readonly
      /\ DOMAIN t = {"env", "typed", "penv", "shadowed", "exported", "readonly"} /\ DOMAIN s = DOMAIN t
      /\ t = [a \in DOMAIN t |-> t[a]]
  BY DEF Tables
<1> HIDE DEF t
<1>4. v = Unset => [s.env EXCEPT ![n] = w] = s.env
  BY <1>1 DEF Tables
<1>5. v # Unset => w = v
  BY <1>1
<1> QED BY <1>2, <1>3, <1>4, <1>5

LEMMA ExportRef ==
  ASSUME FramesInv, FramesInv', Scoped, NEW n \in Names, NEW v \in Plain \cup {Unset}, Export(n, v)
  PROVE  Scope!Next \/ Bindings' = Bindings
<1> DEFINE t == GiveAttributeValue(sh, n, v)
<1>1. sh \in Tables /\ v \in Values \cup {Unset}
  BY StateFacts DEF Plain
<1>2. control' = control /\ scopes' = scopes /\ sh' = [t EXCEPT !.exported = @ \cup {n}]
      /\ (v # Unset => n \notin sh.readonly) /\ (v # Unset \/ sh.env[n] # Unset)
  BY DEF Export, AttributeAllowed, Scoped
<1>3. /\ t.env = IF v = Unset THEN sh.env ELSE [sh.env EXCEPT ![n] = v]
      /\ t.readonly = sh.readonly
      /\ DOMAIN t = {"env", "typed", "penv", "shadowed", "exported", "readonly"}
  BY <1>1, <1>2, AttributeIs
<1> HIDE DEF t
<1>4. sh'.env = t.env /\ sh'.readonly = t.readonly
  BY <1>2, <1>3
<1>5. CASE v = Unset
  BY <1>2, <1>3, <1>4, <1>5, Stutters
<1>6. CASE v # Unset
  <2>1. Scope!Assign(n, v)
    BY <1>2, <1>3, <1>4, <1>6, AssignRef DEF Scope!Assign
  <2> QED BY <1>1, <1>6, <2>1 DEF Scope!Next
<1> QED BY <1>5, <1>6

LEMMA ReadonlyRef ==
  ASSUME FramesInv, FramesInv', Scoped, NEW n \in Names, NEW v \in Plain \cup {Unset}, Readonly(n, v)
  PROVE  Scope!Next
<1> DEFINE t == GiveAttributeValue(sh, n, v)
<1>1. sh \in Tables /\ v \in Values \cup {Unset}
  BY StateFacts DEF Plain
<1>2. control' = control /\ scopes' = scopes /\ sh' = [t EXCEPT !.readonly = @ \cup {n}]
      /\ (v # Unset => n \notin sh.readonly) /\ (v # Unset \/ sh.env[n] # Unset)
  BY DEF Readonly, AttributeAllowed, Scoped
<1>3. /\ t.env = IF v = Unset THEN sh.env ELSE [sh.env EXCEPT ![n] = v]
      /\ t.readonly = sh.readonly
      /\ DOMAIN t = {"env", "typed", "penv", "shadowed", "exported", "readonly"}
  BY <1>1, <1>2, AttributeIs
<1> HIDE DEF t
<1>4. sh'.env = t.env /\ sh'.readonly = sh.readonly \cup {n}
  BY <1>2, <1>3
<1>5. CASE v = Unset
  <2>1. Scope!Protect(n)
    BY <1>2, <1>3, <1>4, <1>5, ProtectRef
  <2> QED BY <2>1 DEF Scope!Next
<1>6. CASE v # Unset
  <2>1. Scope!AssignAndProtect(n, v)
    BY <1>2, <1>3, <1>4, <1>6, AssignAndProtectRef
  <2> QED BY <1>1, <1>6, <2>1 DEF Scope!Next
<1> QED BY <1>5, <1>6

LEMMA UnexportRef ==
  ASSUME FramesInv, FramesInv', NEW n \in Names, Unexport(n)
  PROVE  Bindings' = Bindings
<1>1. sh \in Tables
  BY StateFacts
<1>2. control' = control /\ scopes' = scopes /\ sh'.env = sh.env /\ sh'.readonly = sh.readonly
  BY <1>1 DEF Unexport, Tables
<1> QED BY <1>2, Stutters

\* The frames that are functions, and the innermost.
LEMMA FunctionsAre ==
  ASSUME FramesInv
  PROVE  /\ \A k : k \in Scope!Function <=>
              k \in 2 .. Len(control) + 1 /\ control[k - 1].kind = "function"
         /\ \A f \in Functions(control) : (\A j \in Functions(control) : j <= f) =>
              Max(Scope!Function) = f + 1
<1>1. /\ control \in Seq(Entries) /\ Len(control) \in Nat /\ DOMAIN control = 1 .. Len(control)
      /\ Bindings = Here
  BY StateFacts, BindingsAre DEF Here
<1>2. /\ DOMAIN Here = 1 .. Len(control) + 1
      /\ \A k \in 1 .. Len(control) + 1 : Here[k].kind = KindOf(control, k - 1)
  BY <1>1, ChainIs DEF Here
<1>3. ASSUME NEW k
      PROVE  k \in Scope!Function <=> k \in 2 .. Len(control) + 1 /\ control[k - 1].kind = "function"
  <2>1. k \in Scope!Function <=> k \in 1 .. Len(control) + 1 /\ KindOf(control, k - 1) = "function"
    BY <1>1, <1>2 DEF Scope!Function
  <2>2. CASE k = 1
    BY <2>1, <2>2 DEF KindOf
  <2>3. CASE k # 1
    BY <1>1, <2>1, <2>3 DEF KindOf
  <2> QED BY <2>2, <2>3
<1>4. ASSUME NEW f \in Functions(control), \A j \in Functions(control) : j <= f
      PROVE  Max(Scope!Function) = f + 1
  <2> DEFINE S == Scope!Function
  <2>1. f \in 1 .. Len(control) /\ control[f].kind = "function" /\ (f + 1) - 1 = f
    BY <1>1 DEF Functions
  <2>2. S \in SUBSET Nat /\ f + 1 \in S
    BY <1>1, <1>3, <2>1
  <2>3. ASSUME NEW y \in S PROVE f + 1 >= y
    <3>1. y \in 2 .. Len(control) + 1 /\ control[y - 1].kind = "function"
      BY <1>3
    <3>2. y - 1 \in Functions(control)
      BY <1>1, <3>1 DEF Functions
    <3>3. y - 1 <= f
      BY <1>4, <3>2
    <3> QED BY <2>1, <3>1, <3>3
  <2> HIDE DEF S
  <2> QED BY <2>2, <2>3, MaxIs DEF S
<1> QED BY <1>3, <1>4

\* In a script with locals whose traps do not leave frames: the running function
\* is that of the last scope.
LEMMA RunningFunction ==
  ASSUME FramesInv, ~Does("trap"), Len(scopes) > 0
  PROVE  \E f \in Functions(control) :
           /\ control[f].scope = Len(scopes) /\ \A j \in Functions(control) : j <= f
           /\ \A j \in Functions(control) : control[j].scope = Len(scopes) => j = f
           /\ InnermostFunction = f /\ Max(Scope!Function) = f + 1
<1>1. control \in Seq(Entries) /\ scopes \in Seq(ScopeRecords)
      /\ Placed(control, scopes) /\ AllPlaced(control, scopes)
  BY StateFacts
<1>2. PICK f \in Functions(control) :
        /\ control[f].scope = Len(scopes) /\ \A j \in Functions(control) : j <= f
        /\ \A j \in Functions(control) : control[j].scope = Len(scopes) => j = f
        /\ Max({0} \cup {j \in DOMAIN control : control[j].kind = "function"}) = f
  BY <1>1, InnermostIs
<1>3. InnermostFunction = f
  BY <1>2 DEF InnermostFunction, Kind
<1>4. Max(Scope!Function) = f + 1
  BY <1>2, FunctionsAre
<1> QED BY <1>2, <1>3, <1>4

\* A function of a scope of its own: no other function has it.
LEMMA OwnScope ==
  ASSUME FramesInv, NEW f \in Functions(control), NEW j \in Functions(control),
         control[j].scope = control[f].scope
  PROVE  j = f
<1>1. /\ control \in Seq(Entries) /\ scopes \in Seq(ScopeRecords) /\ Placed(control, scopes)
      /\ DOMAIN control = 1 .. Len(control) /\ Len(control) \in Nat
  BY StateFacts
<1>2. f \in Nat /\ j \in Nat /\ control[f].scope \in DOMAIN scopes
  BY <1>1 DEF Functions, Placed
<1>3. control[f].scope \in Nat
  BY <1>1, <1>2
<1>4. (f < j => control[f].scope < control[j].scope) /\ (j < f => control[j].scope < control[f].scope)
  BY <1>1 DEF Placed
<1> QED BY <1>2, <1>3, <1>4

\* Nothing above the running function binds a name that a local may be declared of.
LEMMA NothingOver ==
  ASSUME FramesInv, Scoped, NEW n \in Names, NEW v, DeclareLocal(n, v)
  PROVE  OverOf(control, scopes, InnermostFunction, n) = {}
<1>1. /\ control \in Seq(Entries) /\ DOMAIN control = 1 .. Len(control) /\ Len(control) \in Nat
      /\ scopes \in Seq(ScopeRecords) /\ Len(scopes) > 0
      /\ ~Does("trap") /\ ~Does("local-in-eval") /\ ~Does("local-in-subshell")
  BY StateFacts DEF DeclareLocal, Scoped, FunctionDepth
<1>2. PICK f \in Functions(control) : InnermostFunction = f /\ \A j \in Functions(control) : j <= f
  BY <1>1, RunningFunction
<1>3. ASSUME NEW j \in InnermostFunction + 1 .. Len(control), n \in BindsOf(control, scopes, j)
      PROVE  FALSE
  <2>1. f \in 1 .. Len(control) /\ j \in 1 .. Len(control) /\ j > f /\ j # 0
    BY <1>1, <1>2, <1>3 DEF Functions
  <2>2. control[j].kind # "function"
    <3>1. control[j].kind = "function" => j \in Functions(control)
      BY <1>1, <2>1 DEF Functions
    <3> QED BY <1>2, <2>1, <3>1
  <2>3. control[j].kind # "subshell" /\ ~(control[j].kind = "prefix" /\ control[j].name = n)
    BY <1>1, <1>3 DEF DeclareLocal, Kind
  <2>4. control[j].kind \in {"function", "prefix", "subshell"}
    BY <1>1, <2>1, EntryCases
  <2> QED BY <1>3, <2>1, <2>2, <2>3, <2>4 DEF BindsOf
<1> QED BY <1>3 DEF OverOf

LEMMA LocalRef ==
  ASSUME FramesInv, FramesInv', Scoped, NEW n \in Names, NEW v \in Plain \cup {Unset}, DeclareLocal(n, v)
  PROVE  Scope!Local(n, v)
<1> DEFINE m == Len(scopes)
           e2 == sh'.env
           r2 == sh'.readonly
           td == scopes'
<1>1. /\ control \in Seq(Entries) /\ DOMAIN control = 1 .. Len(control) /\ Len(control) \in Nat
      /\ scopes \in Seq(ScopeRecords) /\ m > 0 /\ sh \in Tables /\ Placed(control, scopes)
      /\ ~Does("trap") /\ control' = control
  BY StateFacts DEF DeclareLocal, Scoped, FunctionDepth
<1>2. PICK f \in Functions(control) :
        /\ control[f].scope = m /\ \A j \in Functions(control) : j <= f
        /\ InnermostFunction = f /\ Max(Scope!Function) = f + 1
  BY <1>1, RunningFunction
<1>3. f \in 1 .. Len(control) /\ control[f].kind = "function" /\ f # 0
  BY <1>1, <1>2 DEF Functions
<1>4. OverOf(control, scopes, f, n) = {}
  BY <1>2, NothingOver
<1>5. Scope!Function # {}
  <2>1. f + 1 \in 2 .. Len(control) + 1 /\ (f + 1) - 1 = f
    BY <1>1, <1>3
  <2>2. f + 1 \in Scope!Function
    BY <1>3, <2>1, FunctionsAre
  <2> QED BY <2>2
<1>6. /\ m \in DOMAIN scopes /\ scopes[m] \in ScopeRecords /\ DOMAIN scopes' = DOMAIN scopes
      /\ scopes' \in Seq(ScopeRecords)
      /\ \A j \in DOMAIN scopes :
           scopes'[j] = IF j = m THEN SaveLocal(scopes[m], sh, n) ELSE scopes[j]
  BY DeclareLocalScope
<1>7. /\ e2[n] = v /\ n \notin r2 /\ \A k \in Names : k # n => e2[k] = sh.env[k] /\ (k \in r2 <=> k \in sh.readonly)
      /\ DOMAIN e2 = Names /\ r2 \subseteq Names /\ e2 = [k \in Names |-> e2[k]]
  <2> DEFINE fresh == FreshLocal(sh, n)
  <2>1. sh' = IF v = Unset THEN fresh ELSE [fresh EXCEPT !.env[n] = v, !.typed[n] = v]
    BY DEF DeclareLocal
  <2>2. /\ Touches(sh, fresh, n) /\ fresh.env[n] = Unset /\ n \notin fresh.readonly
    BY <1>1, FreshTouches
  <2> HIDE DEF fresh
  <2>3. fresh \in Tables /\ \A k \in Names : k # n => fresh.env[k] = sh.env[k] /\ (k \in fresh.readonly <=> k \in sh.readonly)
    BY <2>2 DEF Touches, SameAt
  <2>4. CASE v = Unset
    BY <2>1, <2>2, <2>3, <2>4 DEF Tables
  <2>5. CASE v # Unset
    <3>1. sh'.env = [fresh.env EXCEPT ![n] = v] /\ sh'.readonly = fresh.readonly
      BY <2>1, <2>3, <2>5 DEF Tables
    <3> QED BY <2>2, <2>3, <3>1 DEF Tables
  <2> QED BY <2>4, <2>5
<1>8. DOMAIN sh.env = Names /\ sh.readonly \subseteq Names /\ sh.env = [k \in Names |-> sh.env[k]]
  BY <1>1 DEF Tables
<1>9. ASSUME n \in DOMAIN scopes[m].vars
      PROVE  Bindings' = [Scope!Bind(f + 1, n, v) EXCEPT ![f + 1].ro = @ \ {n}]
  <2>1. scopes' = scopes
    <3>1. SaveLocal(scopes[m], sh, n) = scopes[m]
      BY <1>9 DEF SaveLocal
    <3>2. \A j \in DOMAIN scopes : scopes'[j] = scopes[j]
      BY <1>6, <3>1
    <3>3. Len(scopes') = Len(scopes)
      BY <1>1, <1>6
    <3> QED BY <1>1, <1>6, <3>2, <3>3
  <2>2. n \in BindsOf(control, scopes, f) /\ KindOf(control, f) # "prefix"
    BY <1>2, <1>3, <1>9 DEF BindsOf, KindOf
  <2>3. Owning(control, scopes, f, n) = {}
    BY <1>4 DEF Owning
  <2>4. Inner(control, scopes, n, f) /\ Owns(control, scopes, n, f)
    BY <1>1, <1>3, <1>4, <2>2, <2>3 DEF Inner, Owns
  <2>5. sh'.env = [sh.env EXCEPT ![n] = v]
    BY <1>7, <1>8
  <2>6. sh'.readonly = Mark(sh.readonly, n, FALSE)
    BY <1>7, <1>8 DEF Mark
  <2>7. \A b \in BOOLEAN : sh'.readonly = Mark(sh.readonly, n, b) =>
          Bindings' = [Scope!Bind(f + 1, n, v) EXCEPT ![f + 1].ro = Mark(@, n, b)]
    <3>1. control' = control
      BY <1>1
    <3> QED BY <2>1, <2>4, <2>5, <3>1, AssignMarkRef
  <2>8. FALSE \in BOOLEAN
    OBVIOUS
  <2>9. Bindings' = [Scope!Bind(f + 1, n, v) EXCEPT ![f + 1].ro = Mark(@, n, FALSE)]
    BY <2>6, <2>7, <2>8, Zenon
  <2> DEFINE B == Scope!Bind(f + 1, n, v)
  <2>10. Bindings' = [B EXCEPT ![f + 1].ro = Mark(@, n, FALSE)]
    BY <2>9
  <2> HIDE DEF B
  <2>11. Bindings' = [B EXCEPT ![f + 1].ro = @ \ {n}]
    BY <2>10 DEF Mark
  <2> QED BY <2>11 DEF B
<1>10. ASSUME n \notin DOMAIN scopes[m].vars
       PROVE  Bindings' = [Scope!Bind(f + 1, n, v) EXCEPT ![f + 1].ro = @ \ {n}]
  <2> DEFINE a == Attrs(sh, n)
             C == Chain(control, scopes, sh.env, sh.readonly)
  <2>1. OthersSame(control, scopes, td, f)
    <3> SUFFICES ASSUME NEW j \in 1 .. Len(control), control[j].kind = "function", j # f
                 PROVE  td[control[j].scope].vars = scopes[control[j].scope].vars
      BY DEF OthersSame
    <3>1. j \in Functions(control)
      BY <1>1 DEF Functions
    <3>2. control[j].scope # m /\ control[j].scope \in DOMAIN scopes
      BY <1>1, <1>2, <3>1, OwnScope DEF Placed
    <3> QED BY <1>6, <3>2
  <2>2. td[control[f].scope].vars =
          With(scopes[control[f].scope].vars, n, [value |-> sh.env[n], attrs |-> a])
    BY <1>2, <1>6, <1>10 DEF SaveLocal
  <2>3. a.readonly <=> n \in sh.readonly
    BY DEF Attrs
  <2>4. \A k \in Names : k # n => e2[k] = sh.env[k] /\ (k \in r2 <=> k \in sh.readonly)
    BY <1>7
  <2>5. Bindings' = Chain(control, td, e2, r2) /\ Bindings = C
    BY <1>1, BindingsAre, NextBindings
  <2>6. n \notin DOMAIN scopes[control[f].scope].vars
    BY <1>2, <1>10
  <2> HIDE DEF a, td, e2, r2
  <2> HIDE DEF m
  <2>7. /\ Chain(control, td, e2, r2) = [C EXCEPT ![f + 1].val = With(@, n, e2[n])]
        /\ n \notin C[f + 1].ro
    <3>1. \A j \in 1 .. Len(control) : BindsOf(control, scopes, j) \subseteq Names
      BY <1>1, StateFacts
    <3>2. control \in Seq(Entries) /\ f \in 1 .. Len(control) /\ control[f].kind = "function"
      BY <1>1, <1>3
    <3>3. n \notin r2
      BY <1>7
    <3>4. AddsLocal(control, scopes, td, f, n, sh.env, e2, sh.readonly, r2, a)
      BY <1>4, <2>1, <2>2, <2>3, <2>4, <2>6, <3>1, <3>2, <3>3 DEF AddsLocal
    <3>5. Chain(control, td, e2, r2) =
            Rebound(Chain(control, scopes, sh.env, sh.readonly), f + 1, n, e2[n])
      BY <3>2, <3>4, NewLocal, SMTT(30)
    <3>6. n \notin Chain(control, scopes, sh.env, sh.readonly)[f + 1].ro
      BY <3>2, <3>4, NewLocal, Zenon
    <3> QED BY <3>5, <3>6 DEF Rebound
  <2>8. C = [k \in 1 .. Len(control) + 1 |-> C[k]] /\ C[f + 1] = FrameOf(control, scopes, sh.env, sh.readonly, f)
        /\ f + 1 \in 1 .. Len(control) + 1
    <3>1. f + 1 \in 1 .. Len(control) + 1 /\ (f + 1) - 1 = f
      BY <1>1, <1>3
    <3> QED BY <1>1, <3>1, ChainIs
  <2>9. \E kind, val, ro : C[f + 1] = [kind |-> kind, val |-> val, ro |-> ro]
    BY <2>8 DEF FrameOf
  <2> HIDE DEF C
  <2>10. [C EXCEPT ![f + 1].val = With(@, n, v)] =
           [[C EXCEPT ![f + 1].val = With(@, n, v)] EXCEPT ![f + 1].ro = @ \ {n}]
    <3> DEFINE D == [C EXCEPT ![f + 1].val = With(@, n, v)]
               x == [C[f + 1] EXCEPT !.val = With(@, n, v)]
    <3>1. PICK kind, val, ro : C[f + 1] = [kind |-> kind, val |-> val, ro |-> ro]
      BY <2>9
    <3>2. x = [kind |-> kind, val |-> With(val, n, v), ro |-> ro] /\ n \notin ro
      BY <2>7, <3>1
    <3>3. [x EXCEPT !.ro = @ \ {n}] = x
      <4> DEFINE w == With(val, n, v)
      <4>1. ro \ {n} = ro
        BY <3>2
      <4>2. x = [kind |-> kind, val |-> w, ro |-> ro]
        BY <3>2
      <4> HIDE DEF w, x
      <4>3. [x EXCEPT !.ro = @ \ {n}] = [kind |-> kind, val |-> w, ro |-> ro \ {n}]
        BY <4>2
      <4> QED BY <4>1, <4>2, <4>3
    <3>4. D = [C EXCEPT ![f + 1] = x]
      OBVIOUS
    <3> HIDE DEF x
    <3>5. D = [k \in 1 .. Len(control) + 1 |-> IF k = f + 1 THEN x ELSE C[k]]
      BY <2>8, <3>4
    <3> HIDE DEF D
    <3>6. D[f + 1] = x /\ D = [k \in 1 .. Len(control) + 1 |-> D[k]]
      BY <2>8, <3>5
    <3>7. [D EXCEPT ![f + 1].ro = @ \ {n}] = [D EXCEPT ![f + 1] = [x EXCEPT !.ro = @ \ {n}]]
      BY <3>6
    <3>8. [D EXCEPT ![f + 1] = x] = D
      BY <3>6
    <3>9. [D EXCEPT ![f + 1].ro = @ \ {n}] = D
      BY <3>3, <3>7, <3>8
    <3> QED BY <3>9 DEF D
  <2>11. Scope!Bind(f + 1, n, v) = [C EXCEPT ![f + 1].val = With(@, n, v)]
    BY <2>5 DEF Scope!Bind, Scope!With, With
  <2>12. Bindings' = [C EXCEPT ![f + 1].val = With(@, n, v)]
    BY <1>7, <2>5, <2>7 DEF e2
  <2> QED BY <2>10, <2>11, <2>12
<1>11. Bindings' = [Scope!Bind(f + 1, n, v) EXCEPT ![f + 1].ro = @ \ {n}]
  BY <1>9, <1>10
<1>12. Scope!Max(Scope!Function) = f + 1
  BY <1>2 DEF Scope!Max, Max
<1> QED BY <1>5, <1>11, <1>12 DEF Scope!Local

\* unset of a name whose innermost binding is no local of a caller.
LEMMA UnsetHereRef ==
  ASSUME FramesInv, FramesInv', Scoped, NEW n \in Names, n \notin sh.readonly,
         control' = control, scopes' = scopes,
         sh'.env = [sh.env EXCEPT ![n] = Unset], sh'.readonly = sh.readonly,
         VisibleScopes(n) = {} \/ Max(VisibleScopes(n)) = Len(scopes)
  PROVE  Scope!UnsetName(n)
<1> DEFINE outer == {i \in Scope!Holders(n) \cap Scope!Function : i # Scope!Max(Scope!Function)}
           hidden == \E i \in outer : \A j \in Scope!Holders(n) : j <= i
<1>1. /\ control \in Seq(Entries) /\ scopes \in Seq(ScopeRecords) /\ Len(control) \in Nat
      /\ Placed(control, scopes) /\ DOMAIN control = 1 .. Len(control)
      /\ (~Does("local") => NoLocals(scopes)) /\ Bindings = Here
  BY StateFacts, BindingsAre DEF Here
<1>2. ~Scope!IsReadonly(n) /\ Bindings' = Scope!Bind(Scope!Innermost(n), n, Unset)
  BY AssignRef
<1>3. ASSUME hidden PROVE FALSE
  <2>1. PICK i \in outer : \A j \in Scope!Holders(n) : j <= i
    BY <1>3
  <2>2. /\ i \in 2 .. Len(control) + 1 /\ control[i - 1].kind = "function"
        /\ i \in Scope!Holders(n) /\ i # Scope!Max(Scope!Function)
    BY <2>1, FunctionsAre
  <2> HIDE DEF outer
  <2> DEFINE g == i - 1
  <2>3. g \in Functions(control) /\ g \in 1 .. Len(control) /\ g + 1 = i /\ g # 0
    BY <1>1, <2>2 DEF Functions
  <2> HIDE DEF g
  <2>4. n \in DOMAIN scopes[control[g].scope].vars /\ control[g].scope \in DOMAIN scopes
    <3>1. DOMAIN Here[i].val = BindsOf(control, scopes, g)
      <4>1. i \in 1 .. Len(control) + 1
        BY <1>1, <2>2
      <4> QED BY <1>1, <4>1, ChainIs DEF Here, g
    <3>2. n \in DOMAIN Here[i].val
      BY <1>1, <2>2 DEF Scope!Holders
    <3> QED BY <1>1, <2>2, <2>3, <3>1, <3>2 DEF BindsOf, Functions, Placed, g
  <2>5. VisibleScopes(n) # {}
    BY <2>4 DEF VisibleScopes
  <2>6. Len(scopes) \in DOMAIN scopes /\ n \in DOMAIN scopes[Len(scopes)].vars /\ Len(scopes) > 0
    <3>1. Max(VisibleScopes(n)) = Len(scopes)
      BY <2>5
    <3>2. Len(scopes) \in DOMAIN scopes /\ n \in DOMAIN scopes[Len(scopes)].vars
      BY <1>1, <2>5, <3>1, InnermostVisible
    <3> QED BY <1>1, <3>2
  <2>7. ~Does("trap")
    BY <1>1, <2>4 DEF NoLocals, Scoped
  <2>8. PICK f \in Functions(control) :
          /\ control[f].scope = Len(scopes) /\ \A j \in Functions(control) : j <= f
          /\ Max(Scope!Function) = f + 1
    BY <2>6, <2>7, RunningFunction
  <2>9. f \in 1 .. Len(control) /\ control[f].kind = "function"
    BY <1>1, <2>8 DEF Functions
  <2>10. n \in BindsOf(control, scopes, f)
    BY <2>6, <2>8, <2>9 DEF BindsOf
  <2>11. f + 1 \in Scope!Holders(n)
    <3>1. f + 1 \in 1 .. Len(control) + 1 /\ (f + 1) - 1 = f
      BY <1>1, <2>9
    <3>2. DOMAIN Here = 1 .. Len(control) + 1 /\ DOMAIN Here[f + 1].val = BindsOf(control, scopes, (f + 1) - 1)
      BY <1>1, <3>1, ChainIs DEF Here
    <3> QED BY <1>1, <2>10, <3>1, <3>2 DEF Scope!Holders
  <2>12. f + 1 <= i
    BY <2>1, <2>11
  <2>13. g <= f
    BY <2>3, <2>8
  <2>14. Scope!Max(Scope!Function) = f + 1
    BY <2>8 DEF Scope!Max, Max
  <2> QED BY <2>2, <2>3, <2>9, <2>12, <2>13, <2>14
<1> QED BY <1>2, <1>3 DEF Scope!UnsetName

\* The bindings without one, and a frame that does not have the binding.
Unbound(F, k, n) == [F EXCEPT ![k].val = [m \in (DOMAIN @) \ {n} |-> @[m]], ![k].ro = @ \ {n}]
IsFrame(x) == /\ x = [kind |-> x.kind, val |-> x.val, ro |-> x.ro]
              /\ x.val = [m \in DOMAIN x.val |-> x.val[m]]
Lacks(F, N, k, n) == /\ F = [j \in 1 .. N |-> F[j]] /\ k \in 1 .. N /\ IsFrame(F[k])
                     /\ n \notin DOMAIN F[k].val /\ n \notin F[k].ro

\* Without a binding that is new it was as before.
LEMMA WithoutBinding ==
  ASSUME NEW F, NEW N, NEW k, NEW n, NEW v, Lacks(F, N, k, n)
  PROVE  F = Unbound(Rebound(F, k, n, v), k, n)
<1> DEFINE G == Rebound(F, k, n, v)
<1> DEFINE kind == F[k].kind
           val == F[k].val
           ro == F[k].ro
           D == DOMAIN val
<1>1. F[k] = [kind |-> kind, val |-> val, ro |-> ro] /\ val = [m \in D |-> val[m]]
  BY DEF Lacks, IsFrame
<1>2. F = [j \in 1 .. N |-> F[j]] /\ k \in 1 .. N /\ n \notin DOMAIN val /\ n \notin ro
  BY <1>1 DEF Lacks
<1> HIDE DEF kind, val, ro, D
<1> DEFINE w == With(val, n, v)
           x == [kind |-> kind, val |-> w, ro |-> ro]
<1>3. G = [F EXCEPT ![k] = x]
  <2>1. [F[k] EXCEPT !.val = With(@, n, v)] = x
    <3>1. F[k].val = val
      BY DEF val
    <3> HIDE DEF w
    <3> QED BY <1>1, <3>1 DEF w
  <2>2. G = [F EXCEPT ![k] = [F[k] EXCEPT !.val = With(@, n, v)]]
    BY DEF Rebound
  <2> QED BY <2>1, <2>2
<1>4. [m \in (DOMAIN w) \ {n} |-> w[m]] = val
  <2>1. DOMAIN val = D
    BY DEF D
  <2>2. (DOMAIN w) \ {n} = D /\ \A m \in D : w[m] = val[m]
    BY <1>2, <2>1 DEF With
  <2> HIDE DEF w
  <2> QED BY <1>1, <2>2
<1>5. ro \ {n} = ro
  BY <1>2
<1>6. x = [kind |-> kind, val |-> w, ro |-> ro]
  OBVIOUS
<1> HIDE DEF w, x, G
<1>7. [x EXCEPT !.val = [m \in (DOMAIN @) \ {n} |-> @[m]], !.ro = @ \ {n}] = F[k]
  <2> DEFINE A == [m \in (DOMAIN x.val) \ {n} |-> x.val[m]]
             B == x.ro \ {n}
  <2>1. x.val = w /\ x.ro = ro
    BY <1>6
  <2>2. A = val /\ B = ro
    BY <1>4, <1>5, <2>1
  <2>3. [x EXCEPT !.val = [m \in (DOMAIN @) \ {n} |-> @[m]], !.ro = @ \ {n}] =
          [x EXCEPT !.val = A, !.ro = B]
    OBVIOUS
  <2> HIDE DEF A, B
  <2>4. [x EXCEPT !.val = A, !.ro = B] = [kind |-> kind, val |-> A, ro |-> B]
    <3> DEFINE y == [x EXCEPT !.val = A]
    <3>1. y = [kind |-> kind, val |-> A, ro |-> ro]
      BY <1>6
    <3>2. [x EXCEPT !.val = A, !.ro = B] = [y EXCEPT !.ro = B]
      OBVIOUS
    <3> HIDE DEF y
    <3>3. [y EXCEPT !.ro = B] = [kind |-> kind, val |-> A, ro |-> B]
      BY <3>1
    <3> QED BY <3>2, <3>3
  <2> QED BY <1>1, <2>2, <2>3, <2>4
<1>8. G = [j \in 1 .. N |-> IF j = k THEN x ELSE F[j]]
  BY <1>2, <1>3
<1>9. G[k] = x /\ DOMAIN G = 1 .. N /\ \A j \in 1 .. N : j # k => G[j] = F[j]
  BY <1>2, <1>8
<1> DEFINE y == [x EXCEPT !.val = [m \in (DOMAIN @) \ {n} |-> @[m]], !.ro = @ \ {n}]
<1>10. Unbound(G, k, n) = [G EXCEPT ![k] = y]
  BY <1>9 DEF Unbound
<1>11. y = F[k]
  BY <1>1, <1>7
<1> HIDE DEF y
<1>12. Unbound(G, k, n) = [j \in 1 .. N |-> F[j]]
  BY <1>8, <1>9, <1>10, <1>11
<1> QED BY <1>2, <1>12 DEF G

\* unset of a local of a caller: the local goes and what it saved is the name's.
LEMMA UnsetOuterRef ==
  ASSUME FramesInv, FramesInv', Scoped, NEW n \in Names, UnsetVar(n), n \notin sh.readonly,
         VisibleScopes(n) # {}, Max(VisibleScopes(n)) < FunctionDepth
  PROVE  Scope!UnsetName(n)
<1> DEFINE m == Max(VisibleScopes(n))
           saved == scopes[m].vars[n]
           td == scopes'
           C == Bindings
           F == Bindings'
<1>1. /\ control \in Seq(Entries) /\ DOMAIN control = 1 .. Len(control) /\ Len(control) \in Nat
      /\ scopes \in Seq(ScopeRecords) /\ DOMAIN scopes = 1 .. Len(scopes) /\ Len(scopes) \in Nat
      /\ sh \in Tables /\ Placed(control, scopes) /\ control' = control
      /\ \A j \in 1 .. Len(control) : BindsOf(control, scopes, j) \subseteq Names
  BY StateFacts DEF UnsetVar
<1>2. /\ sh' = SetAttrs(RestoreVar(sh, n, saved.value), n, saved.attrs)
      /\ td = [scopes EXCEPT ![m].vars = Without(@, n)]
      /\ Does("unset") /\ (Under("subshell") => Does("unset-in-subshell"))
  BY DEF UnsetVar
<1>3. /\ m \in DOMAIN scopes /\ n \in DOMAIN scopes[m].vars /\ m < Len(scopes)
      /\ \A y \in VisibleScopes(n) : y <= m
  <2>1. m \in DOMAIN scopes /\ n \in DOMAIN scopes[m].vars
    BY <1>1, InnermostVisible
  <2>2. VisibleScopes(n) \in SUBSET Nat /\ \A y \in VisibleScopes(n) : y <= Len(scopes)
    BY <1>1 DEF VisibleScopes
  <2>3. \A y \in VisibleScopes(n) : m >= y
    BY <1>1, <2>2, MaxExists
  <2>4. \A y \in VisibleScopes(n) : y \in Nat
    BY <2>2
  <2> HIDE DEF m
  <2>5. m \in Nat
    BY <1>1, <2>1
  <2> QED BY <2>1, <2>3, <2>4, <2>5 DEF FunctionDepth, m
<1> HIDE DEF m
<1>4. Does("local") /\ ~Does("trap") /\ ~Does("unset-in-subshell") /\ ~Does("prefix") /\ ~Does("eval")
  <2>1. Does("local")
    BY <1>3, StateFacts DEF NoLocals
  <2> QED BY <1>2, <2>1 DEF Scoped
<1>5. \A j \in 1 .. Len(control) : control[j].kind = "function"
  <2>1. NoPrefixes(control) /\ ~Under("subshell")
    BY <1>2, <1>4, StateFacts
  <2>2. \A j \in 1 .. Len(control) : control[j].kind \in {"function", "prefix", "subshell"}
    <3>1. \A j \in 1 .. Len(control) : control[j] \in Entries
      BY <1>1
    <3> QED BY <3>1, EntryCases
  <2> QED BY <1>1, <2>1, <2>2 DEF NoPrefixes, Under, Kind
<1>6. PICK g \in Functions(control) : control[g].scope = m
  BY <1>3, <1>4, StateFacts DEF AllPlaced
<1>7. PICK f \in Functions(control) : control[f].scope = Len(scopes) /\ Max(Scope!Function) = f + 1
  BY <1>1, <1>3, <1>4, RunningFunction
<1>8. /\ g \in 1 .. Len(control) /\ control[g].kind = "function" /\ g # 0 /\ f # g /\ f \in Nat
  BY <1>1, <1>3, <1>6, <1>7 DEF Functions
<1>9. OverOf(control, scopes, g, n) = {}
  <2> SUFFICES ASSUME NEW j \in g + 1 .. Len(control), n \in BindsOf(control, scopes, j)
               PROVE  FALSE
    BY DEF OverOf
  <2>1. j \in 1 .. Len(control) /\ j > g /\ j # 0
    BY <1>1, <1>8
  <2>2. j \in Functions(control) /\ control[j].kind = "function"
    BY <1>1, <1>5, <2>1 DEF Functions
  <2>3. control[j].scope \in DOMAIN scopes /\ m < control[j].scope
    BY <1>1, <1>6, <1>8, <2>1, <2>2 DEF Placed
  <2>4. n \in DOMAIN scopes[control[j].scope].vars
    BY <2>1, <2>2 DEF BindsOf
  <2>5. control[j].scope \in VisibleScopes(n)
    BY <2>3, <2>4 DEF VisibleScopes
  <2> QED BY <1>1, <1>3, <2>3, <2>5
<1>10. /\ td[m].vars = Without(scopes[m].vars, n)
       /\ \A k \in DOMAIN scopes : k # m => td[k] = scopes[k]
  <2>1. scopes[m] \in ScopeRecords
    BY <1>1, <1>3
  <2>2. scopes[m] \in [vars : SomeNames(SavedVars), typed : SomeNames(Value)]
    BY <2>1 DEF ScopeRecords
  <2>3. \A k \in DOMAIN scopes :
          td[k] = IF k = m THEN [scopes[m] EXCEPT !.vars = Without(@, n)] ELSE scopes[k]
    BY <1>2
  <2>4. [scopes[m] EXCEPT !.vars = Without(@, n)].vars = Without(scopes[m].vars, n)
    BY <2>2
  <2> HIDE DEF td
  <2> QED BY <1>3, <2>3, <2>4
<1>11. /\ OthersSame(control, td, scopes, g) /\ OthersSame(control, scopes, td, g)
  <2> SUFFICES ASSUME NEW j \in 1 .. Len(control), control[j].kind = "function", j # g
               PROVE  scopes[control[j].scope].vars = td[control[j].scope].vars
    BY DEF OthersSame
  <2>1. j \in Functions(control)
    BY <1>1 DEF Functions
  <2>2. control[j].scope # m /\ control[j].scope \in DOMAIN scopes
    BY <1>1, <1>6, <2>1, OwnScope DEF Placed
  <2> HIDE DEF td
  <2> QED BY <1>10, <2>2
<1>12. saved \in SavedVars /\ saved = [value |-> saved.value, attrs |-> saved.attrs]
       /\ saved.value \in Value /\ saved.attrs \in Marks
  <2>1. scopes[m] \in ScopeRecords
    BY <1>1, <1>3
  <2>2. saved \in SavedVars
    BY <1>3, <2>1, ScopeHas
  <2> HIDE DEF saved
  <2> QED BY <2>2 DEF SavedVars
<1> DEFINE a == saved.attrs
<1>13. /\ sh'.env[n] = saved.value /\ (a.readonly <=> n \in sh'.readonly)
       /\ \A k \in Names : k # n => sh.env[k] = sh'.env[k] /\ (k \in sh.readonly <=> k \in sh'.readonly)
  <2> DEFINE s == RestoreVar(sh, n, saved.value)
  <2>1. s.env = [sh.env EXCEPT ![n] = saved.value] /\ s.readonly = sh.readonly /\ s \in Tables
    <3>1. s.env = [sh.env EXCEPT ![n] = saved.value] /\ s.readonly = sh.readonly
      BY <1>1 DEF RestoreVar, Tables
    <3>2. s \in Tables
      BY <1>1, <1>12, RestoreTouches DEF Touches
    <3> QED BY <3>1, <3>2
  <2>2. sh' = SetAttrs(s, n, a)
    BY <1>2
  <2> HIDE DEF s, saved, a
  <2>3. sh'.env = s.env /\ sh'.readonly = Mark(s.readonly, n, a.readonly)
    BY <2>1, <2>2 DEF SetAttrs, Tables
  <2>4. a.readonly \in BOOLEAN
    BY <1>12 DEF Marks, a
  <2>5. n \in sh'.readonly <=> a.readonly
    BY <2>3, <2>4 DEF Mark
  <2>6. \A k \in Names : k # n => (k \in sh.readonly <=> k \in sh'.readonly)
    BY <2>1, <2>3 DEF Mark
  <2> QED BY <1>1, <2>1, <2>3, <2>5, <2>6 DEF Tables
<1>14. AddsLocal(control, td, scopes, g, n, sh'.env, sh.env, sh'.readonly, sh.readonly, a)
  <2>1. n \notin DOMAIN td[control[g].scope].vars
    BY <1>6, <1>10 DEF Without
  <2>2. OverOf(control, td, g, n) = {}
    <3>1. \A j \in 0 .. Len(control) : j # g => BindsOf(control, td, j) = BindsOf(control, scopes, j)
      BY <1>1, <1>11, OthersBind
    <3>2. \A j \in g + 1 .. Len(control) : j \in 0 .. Len(control) /\ j # g
      BY <1>1, <1>8
    <3>3. \A j \in g + 1 .. Len(control) : n \notin BindsOf(control, scopes, j)
      BY <1>9 DEF OverOf
    <3>4. \A j \in g + 1 .. Len(control) : n \notin BindsOf(control, td, j)
      BY <3>1, <3>2, <3>3
    <3> QED BY <3>4 DEF OverOf
  <2>3. scopes[control[g].scope].vars =
          With(td[control[g].scope].vars, n, [value |-> sh'.env[n], attrs |-> a])
    <3> DEFINE v == scopes[m].vars
               put == [value |-> sh'.env[n], attrs |-> a]
    <3>1. put = v[n] /\ n \in DOMAIN v
      BY <1>3, <1>12, <1>13
    <3>2. \E D, R : v \in [D -> R]
      <4>1. scopes[m] \in ScopeRecords
        BY <1>1, <1>3
      <4> QED BY <4>1 DEF ScopeRecords, SomeNames
    <3> HIDE DEF v, put
    <3>3. With(Without(v, n), n, put) = v
      BY <3>1, <3>2 DEF With, Without
    <3> QED BY <1>6, <1>10, <3>3 DEF v, put
  <2>4. \A j \in 1 .. Len(control) : BindsOf(control, td, j) \subseteq Names
    <3> SUFFICES ASSUME NEW j \in 1 .. Len(control) PROVE BindsOf(control, td, j) \subseteq Names
      OBVIOUS
    <3>1. CASE j = g
      <4>1. BindsOf(control, td, g) = DOMAIN td[m].vars /\ BindsOf(control, scopes, g) = DOMAIN scopes[m].vars
        BY <1>6, <1>8 DEF BindsOf
      <4>2. DOMAIN td[m].vars \subseteq DOMAIN scopes[m].vars
        BY <1>10 DEF Without
      <4> QED BY <1>1, <1>8, <3>1, <4>1, <4>2
    <3>2. CASE j # g
      <4>1. j \in 0 .. Len(control)
        BY <1>1
      <4>2. BindsOf(control, td, j) = BindsOf(control, scopes, j)
        BY <1>1, <1>11, <3>2, <4>1, OthersBind
      <4> QED BY <1>1, <4>2
    <3> QED BY <3>1, <3>2
  <2>5. a.readonly <=> n \in sh'.readonly
    BY <1>13
  <2>6. \A k \in Names : k # n => sh.env[k] = sh'.env[k] /\ (k \in sh.readonly <=> k \in sh'.readonly)
    BY <1>13
  <2> HIDE DEF a, td, saved
  <2> QED BY <1>8, <1>11, <2>1, <2>2, <2>3, <2>4, <2>5, <2>6 DEF AddsLocal
<1>15. /\ C = Chain(control, scopes, sh.env, sh.readonly)
       /\ F = Chain(control, td, sh'.env, sh'.readonly)
  BY <1>1, BindingsAre, NextBindings
<1> DEFINE e == sh'.env
           r == sh'.readonly
           e2 == sh.env
           r2 == sh.readonly
<1>16. AddsLocal(control, td, scopes, g, n, e, e2, r, r2, a) /\ F = Chain(control, td, e, r)
       /\ C = Chain(control, scopes, e2, r2)
  BY <1>14, <1>15
<1> HIDE DEF e, r, e2, r2, a, td, saved, C, F
<1>17. Chain(control, scopes, e2, r2) = Rebound(Chain(control, td, e, r), g + 1, n, e2[n])
       /\ n \notin DOMAIN Chain(control, td, e, r)[g + 1].val /\ n \notin Chain(control, td, e, r)[g + 1].ro
  BY <1>1, <1>16, NewLocal, SMTT(30)
<1>18. C = Rebound(F, g + 1, n, e2[n]) /\ n \notin DOMAIN F[g + 1].val /\ n \notin F[g + 1].ro
  BY <1>16, <1>17
<1>19. g + 1 \in 1 .. Len(control) + 1 /\ (g + 1) - 1 = g
  BY <1>1, <1>8
<1>20. F = [j \in 1 .. Len(control) + 1 |-> F[j]] /\ F[g + 1] = FrameOf(control, td, e, r, g)
  BY <1>1, <1>16, <1>19, ChainIs
<1>21. Lacks(F, Len(control) + 1, g + 1, n)
  <2>1. IsFrame(F[g + 1])
    <3> DEFINE kind == KindOf(control, g)
               D == BindsOf(control, td, g)
               val == [k \in D |-> EnvIn(control, td, e, g, k)]
               ro == {k \in D : kind # "prefix" /\ RoIn(control, td, r, g, k)}
    <3>1. F[g + 1] = [kind |-> kind, val |-> val, ro |-> ro]
      BY <1>20 DEF FrameOf
    <3>2. val = [k \in D |-> val[k]]
      OBVIOUS
    <3> HIDE DEF kind, D, val, ro
    <3> QED BY <3>1, <3>2 DEF IsFrame
  <2> QED BY <1>18, <1>19, <1>20, <2>1 DEF Lacks
<1>22. Bindings' = Scope!Unbind(g + 1, n)
  <2>1. F = Unbound(Rebound(F, g + 1, n, e2[n]), g + 1, n)
    BY <1>21, WithoutBinding
  <2>2. F = Unbound(C, g + 1, n)
    BY <1>18, <2>1
  <2> QED BY <2>2 DEF Scope!Unbind, Unbound, C, F
<1>23. Inner(control, scopes, n, g) /\ Owns(control, scopes, n, g)
  <2>1. g \in 0 .. Len(control) /\ n \in BindsOf(control, scopes, g) /\ KindOf(control, g) # "prefix"
    BY <1>1, <1>3, <1>6, <1>8 DEF BindsOf, KindOf
  <2>2. Owning(control, scopes, g, n) = {}
    BY <1>9 DEF Owning
  <2> QED BY <1>9, <2>1, <2>2 DEF Inner, Owns
<1>24. Scope!Innermost(n) = g + 1 /\ ~Scope!IsReadonly(n)
  BY <1>23, NamesMean
<1>25. /\ g + 1 \in Scope!Holders(n) /\ g + 1 \in Scope!Function
       /\ \A j \in Scope!Holders(n) : j <= g + 1
  <2>1. /\ DOMAIN C = 1 .. Len(control) + 1
        /\ \A k \in 1 .. Len(control) + 1 : DOMAIN C[k].val = BindsOf(control, scopes, k - 1)
    BY <1>1, <1>16, ChainIs
  <2>2. \A j : j \in Scope!Holders(n) <=>
                 j \in 1 .. Len(control) + 1 /\ n \in BindsOf(control, scopes, j - 1)
    BY <2>1 DEF Scope!Holders, C
  <2>3. g + 1 \in Scope!Holders(n)
    BY <1>19, <1>23, <2>2 DEF Inner
  <2>4. g + 1 \in Scope!Function
    <3>1. g + 1 \in 2 .. Len(control) + 1
      BY <1>1, <1>8
    <3> QED BY <1>8, <1>19, <3>1, FunctionsAre
  <2>5. ASSUME NEW j \in Scope!Holders(n) PROVE j <= g + 1
    <3>1. j \in 1 .. Len(control) + 1 /\ n \in BindsOf(control, scopes, j - 1)
      BY <2>2
    <3>2. j - 1 \notin g + 1 .. Len(control)
      BY <1>9, <3>1 DEF OverOf
    <3> QED BY <1>1, <1>8, <3>1, <3>2
  <2> QED BY <2>3, <2>4, <2>5
<1>26. g + 1 # Scope!Max(Scope!Function)
  <2>1. Scope!Max(Scope!Function) = f + 1
    BY <1>7 DEF Scope!Max, Max
  <2> QED BY <1>8, <2>1
<1>27. \E i \in {k \in Scope!Holders(n) \cap Scope!Function : k # Scope!Max(Scope!Function)} :
         \A j \in Scope!Holders(n) : j <= i
  BY <1>25, <1>26
<1> QED BY <1>22, <1>24, <1>27 DEF Scope!UnsetName

LEMMA UnsetRef ==
  ASSUME FramesInv, FramesInv', Scoped, NEW n \in Names, UnsetVar(n)
  PROVE  Scope!Next \/ Bindings' = Bindings
<1>1. sh \in Tables /\ control' = control
      /\ scopes \in Seq(ScopeRecords) /\ DOMAIN scopes = 1 .. Len(scopes) /\ Len(scopes) \in Nat
  BY StateFacts DEF UnsetVar
<1> DEFINE m == Max(VisibleScopes(n))
<1>2. CASE n \in sh.readonly
  <2>1. scopes' = scopes /\ sh' = [sh EXCEPT !.typed[n] = Unset]
    BY <1>2 DEF UnsetVar
  <2>2. sh'.env = sh.env /\ sh'.readonly = sh.readonly
    BY <1>1, <2>1 DEF Tables
  <2> QED BY <1>1, <2>1, <2>2, Stutters
<1>3. CASE n \notin sh.readonly /\ VisibleScopes(n) # {} /\ m < FunctionDepth
  <2>1. Scope!UnsetName(n)
    BY <1>3, UnsetOuterRef
  <2> QED BY <2>1 DEF Scope!Next
<1>4. CASE n \notin sh.readonly /\ (VisibleScopes(n) = {} \/ ~(m < FunctionDepth))
  <2>1. /\ scopes' = scopes
        /\ sh' = [RestoreVar(sh, n, Unset) EXCEPT !.typed[n] = Unset, !.exported = @ \ {n}]
    BY <1>4 DEF UnsetVar
  <2>2. sh'.env = [sh.env EXCEPT ![n] = Unset] /\ sh'.readonly = sh.readonly
    BY <1>1, <2>1 DEF RestoreVar, Tables
  <2>3. VisibleScopes(n) = {} \/ Max(VisibleScopes(n)) = Len(scopes)
    <3> SUFFICES ASSUME VisibleScopes(n) # {} PROVE m = Len(scopes)
      OBVIOUS
    <3>1. m \in DOMAIN scopes
      BY <1>1, InnermostVisible
    <3> HIDE DEF m
    <3> QED BY <1>1, <1>4, <3>1 DEF FunctionDepth
  <2>4. Scope!UnsetName(n)
    BY <1>1, <1>4, <2>1, <2>2, <2>3, UnsetHereRef
  <2> QED BY <2>4 DEF Scope!Next
<1> QED BY <1>2, <1>3, <1>4

\* declare -g where no function has a local of that name: the shell's binding is
\* the only one.
LEMMA GlobalHereRef ==
  ASSUME FramesInv, FramesInv', Scoped, NEW n \in Names, NEW v \in Plain, DeclareGlobal(n, v),
         VisibleScopes(n) = {}
  PROVE  Scope!Next \/ Bindings' = Bindings
<1>1. /\ control \in Seq(Entries) /\ DOMAIN control = 1 .. Len(control) /\ Len(control) \in Nat
      /\ sh \in Tables /\ Placed(control, scopes) /\ v \in Values
  BY StateFacts DEF Plain
<1>2. /\ control' = control /\ scopes' = scopes
      /\ sh' = IF n \in sh.readonly THEN sh ELSE [sh EXCEPT !.env[n] = v, !.typed[n] = v]
  BY DEF DeclareGlobal
<1>3. \A j \in DOMAIN control : /\ control[j].kind # "subshell"
                                /\ control[j].kind = "prefix" => control[j].name # n
  BY DEF DeclareGlobal, Scoped, Kind
<1>4. OverOf(control, scopes, 0, n) = {}
  <2> SUFFICES ASSUME NEW j \in 0 + 1 .. Len(control), n \in BindsOf(control, scopes, j)
               PROVE  FALSE
    BY DEF OverOf
  <2>1. j \in 1 .. Len(control) /\ j # 0
    BY <1>1
  <2>2. control[j].kind = "function"
    <3>1. control[j].kind \in {"function", "prefix", "subshell"}
      BY <1>1, <2>1, EntryCases
    <3> QED BY <1>1, <1>3, <2>1, <3>1 DEF BindsOf
  <2>3. j \in Functions(control)
    BY <1>1, <2>1, <2>2 DEF Functions
  <2>4. control[j].scope \in DOMAIN scopes /\ n \in DOMAIN scopes[control[j].scope].vars
    BY <1>1, <2>1, <2>2, <2>3 DEF BindsOf, Placed
  <2> QED BY <2>4 DEF VisibleScopes
<1>5. Inner(control, scopes, n, 0) /\ Owns(control, scopes, n, 0)
  <2>1. 0 \in 0 .. Len(control) /\ n \in BindsOf(control, scopes, 0) /\ KindOf(control, 0) # "prefix"
    BY <1>1 DEF BindsOf, KindOf
  <2>2. Owning(control, scopes, 0, n) = {}
    BY <1>4 DEF Owning
  <2> QED BY <1>4, <2>1, <2>2 DEF Inner, Owns
<1>6. Scope!Innermost(n) = 1 /\ Scope!Owner(n) = 1
  BY <1>5, NamesMean
<1>7. CASE n \in sh.readonly
  BY <1>2, <1>7, Stutters
<1>8. CASE n \notin sh.readonly
  <2>1. sh'.env = [sh.env EXCEPT ![n] = v] /\ sh'.readonly = sh.readonly
    BY <1>1, <1>2, <1>8 DEF Tables
  <2>2. ~Scope!IsReadonly(n) /\ Bindings' = Scope!Bind(1, n, v)
    BY <1>2, <1>6, <1>8, <2>1, AssignRef
  <2>3. n \notin Bindings[1].ro
    BY <1>6, <2>2 DEF Scope!IsReadonly
  <2>4. Scope!DeclareGlobal(n, v)
    BY <2>2, <2>3 DEF Scope!DeclareGlobal
  <2> QED BY <1>1, <2>4 DEF Scope!Next
<1> QED BY <1>7, <1>8

\* declare -g behind the only local of that name: what it saved is the shell's.
LEMMA GlobalBehindRef ==
  ASSUME FramesInv, FramesInv', Scoped, NEW n \in Names, NEW v \in Plain, DeclareGlobal(n, v),
         VisibleScopes(n) # {}
  PROVE  Scope!Next \/ Bindings' = Bindings
<1> DEFINE m == Max(VisibleScopes(n))
           saved == scopes[m].vars[n]
           td == scopes'
<1>1. /\ control \in Seq(Entries) /\ DOMAIN control = 1 .. Len(control) /\ Len(control) \in Nat
      /\ scopes \in Seq(ScopeRecords) /\ DOMAIN scopes = 1 .. Len(scopes) /\ Len(scopes) \in Nat
      /\ sh \in Tables /\ Placed(control, scopes) /\ control' = control /\ v \in Values
  BY StateFacts DEF DeclareGlobal, Plain
<1>2. /\ td = IF saved.attrs.readonly THEN scopes ELSE [scopes EXCEPT ![m] = SetSaved(@, n, v)]
      /\ sh' = [sh EXCEPT !.penv[n] = sh.env[n]]
      /\ Cardinality(VisibleScopes(n)) < 2
  BY DEF DeclareGlobal, Scoped
<1>3. \A j \in DOMAIN control : /\ control[j].kind # "subshell"
                                /\ control[j].kind = "prefix" => control[j].name # n
  BY DEF DeclareGlobal, Scoped, Kind
<1>4. sh'.env = sh.env /\ sh'.readonly = sh.readonly
  BY <1>1, <1>2 DEF Tables
<1>5. m \in DOMAIN scopes /\ n \in DOMAIN scopes[m].vars
  BY <1>1, InnermostVisible
<1>6. \A y \in VisibleScopes(n) : y = m
  <2> DEFINE S == VisibleScopes(n)
  <2> SUFFICES ASSUME NEW y \in S, y # m PROVE FALSE
    OBVIOUS
  <2>1. m \in S
    BY <1>5 DEF VisibleScopes
  <2>2. IsFiniteSet(S)
    <3>1. IsFiniteSet(1 .. Len(scopes))
      BY <1>1, FS_Interval
    <3>2. S \in SUBSET (1 .. Len(scopes))
      BY <1>1 DEF VisibleScopes
    <3> QED BY <3>1, <3>2, FS_Subset
  <2> HIDE DEF m, S
  <2>3. Cardinality({m} \cup {y}) = 2
    <3>1. IsFiniteSet({m}) /\ Cardinality({m}) = 1
      BY FS_Singleton
    <3>2. Cardinality({m} \cup {y}) = IF y \in {m} THEN Cardinality({m}) ELSE Cardinality({m}) + 1
      BY <3>1, FS_AddElement, Zenon
    <3>3. y \notin {m}
      OBVIOUS
    <3> QED BY <3>1, <3>2, <3>3
  <2>4. Cardinality({m} \cup {y}) <= Cardinality(S)
    <3>1. {m} \cup {y} \in SUBSET S
      BY <2>1
    <3> QED BY <2>2, <3>1, FS_Subset
  <2>5. Cardinality(S) \in Nat
    BY <2>2, FS_CardinalityType
  <2> QED BY <1>2, <2>3, <2>4, <2>5 DEF S
<1> HIDE DEF m
<1>7. Does("local") /\ ~Does("trap")
  <2>1. Does("local")
    BY <1>5, StateFacts DEF NoLocals
  <2> QED BY <2>1 DEF Scoped
<1>8. PICK f \in Functions(control) : control[f].scope = m
  BY <1>5, <1>7, StateFacts DEF AllPlaced
<1>9. f \in 1 .. Len(control) /\ control[f].kind = "function"
  BY <1>1 DEF Functions
<1>10. saved \in SavedVars /\ scopes[m] \in ScopeRecords
  <2>1. scopes[m] \in ScopeRecords
    BY <1>1, <1>5
  <2> QED BY <1>5, <2>1, ScopeHas
<1>11. CASE saved.attrs.readonly
  <2>1. scopes' = scopes
    BY <1>2, <1>11
  <2> QED BY <1>1, <1>4, <2>1, Stutters
<1>12. CASE ~saved.attrs.readonly
  <2>1. td = [scopes EXCEPT ![m] = SetSaved(scopes[m], n, v)]
    BY <1>2, <1>12
  <2> HIDE DEF saved, td
  <2>2. /\ td[m].vars = With(scopes[m].vars, n, [value |-> v, attrs |-> saved.attrs])
        /\ \A k \in DOMAIN scopes : k # m => td[k] = scopes[k]
    <3>1. [saved EXCEPT !.value = v] = [value |-> v, attrs |-> saved.attrs]
      BY <1>10 DEF SavedVars
    <3>2. SetSaved(scopes[m], n, v).vars = With(scopes[m].vars, n, [saved EXCEPT !.value = v])
      BY DEF SetSaved, saved
    <3>3. td[m] = SetSaved(scopes[m], n, v) /\ \A k \in DOMAIN scopes : k # m => td[k] = scopes[k]
      BY <1>5, <2>1
    <3> QED BY <3>1, <3>2, <3>3
  <2>3. ASSUME NEW j \in 1 .. Len(control), control[j].kind = "function", j # f
        PROVE  control[j].scope \in DOMAIN scopes /\ control[j].scope # m
    <3>1. j \in Functions(control)
      BY <1>1, <2>3 DEF Functions
    <3> QED BY <1>1, <1>8, <2>3, <3>1, OwnScope DEF Placed
  <2>4. OthersSame(control, scopes, td, f)
    BY <2>2, <2>3 DEF OthersSame
  <2>5. ASSUME NEW j \in 1 .. Len(control), j # f PROVE n \notin BindsOf(control, scopes, j)
    <3>1. CASE control[j].kind = "function"
      <4>1. control[j].scope \in DOMAIN scopes /\ control[j].scope # m
        BY <2>3, <2>5, <3>1
      <4>2. n \notin DOMAIN scopes[control[j].scope].vars
        BY <1>6, <4>1 DEF VisibleScopes
      <4> QED BY <3>1, <4>2 DEF BindsOf
    <3>2. CASE control[j].kind = "prefix"
      BY <1>1, <1>3, <3>2 DEF BindsOf
    <3>3. control[j].kind \in {"function", "prefix"}
      <4>1. control[j] \in Entries
        BY <1>1
      <4> QED BY <1>1, <1>3, <4>1, EntryCases
    <3> QED BY <3>1, <3>2, <3>3
  <2>6. SetsBehind(control, scopes, td, f, n, v)
    <3>1. td[control[f].scope].vars =
            With(scopes[control[f].scope].vars, n,
                 [value |-> v, attrs |-> scopes[control[f].scope].vars[n].attrs])
      BY <1>8, <2>2 DEF saved
    <3>2. n \in DOMAIN scopes[control[f].scope].vars
      BY <1>5, <1>8
    <3> QED BY <1>9, <2>4, <2>5, <3>1, <3>2 DEF SetsBehind
  <2> DEFINE e == sh.env
             r == sh.readonly
  <2>7. /\ Bindings = Chain(control, scopes, e, r)
        /\ Bindings' = Chain(control, td, e, r)
    BY <1>1, <1>4, BindingsAre, NextBindings DEF td
  <2> HIDE DEF e, r
  <2>8. Chain(control, td, e, r) = Rebound(Chain(control, scopes, e, r), 1, n, v)
    BY <1>1, <2>6, SetShellValue, SMTT(30)
  <2>9. n \in Chain(control, scopes, e, r)[1].ro <=> scopes[control[f].scope].vars[n].attrs.readonly
    <3>1. control \in Seq(Entries)
      BY <1>1
    <3> QED BY <2>6, <3>1, SetShellValue, Zenon
  <2>10. n \notin Bindings[1].ro
    <3>1. ~scopes[control[f].scope].vars[n].attrs.readonly
      BY <1>8, <1>12 DEF saved
    <3> QED BY <2>7, <2>9, <3>1, Zenon
  <2>11. Bindings' = Scope!Bind(1, n, v)
    BY <2>7, <2>8 DEF Rebound, Scope!Bind, Scope!With, With
  <2>12. Scope!DeclareGlobal(n, v)
    BY <2>10, <2>11 DEF Scope!DeclareGlobal
  <2> QED BY <1>1, <2>12 DEF Scope!Next
<1> QED BY <1>11, <1>12

LEMMA GlobalRef ==
  ASSUME FramesInv, FramesInv', Scoped, NEW n \in Names, NEW v \in Plain, DeclareGlobal(n, v)
  PROVE  Scope!Next \/ Bindings' = Bindings
BY GlobalHereRef, GlobalBehindRef

-------------------------------------------------------------------------------
(* The whole *)

LEMMA InitRef ==
  ASSUME Init
  PROVE  Scope!Init
<1>1. PICK ex \in SUBSET Names, val \in [Names -> Plain \cup {Unset}] :
        LET penv == [n \in Names |-> IF n \in ex THEN val[n] ELSE Unset]
        IN  sh = [env |-> penv, typed |-> [n \in Names |-> Unset], penv |-> penv,
                  shadowed |-> [n \in Names |-> Unset],
                  exported |-> {n \in ex : val[n] # Unset}, readonly |-> {}]
  BY DEF Init
<1> DEFINE w == [n \in Names |-> IF n \in ex THEN val[n] ELSE Unset]
<1>2. sh.env = w /\ sh.readonly = {}
  BY <1>1
<1>3. w \in [Names -> Values \cup {Unset}]
  BY DEF Plain
<1> HIDE DEF w
<1>4. FramesInv
  BY InitSound
<1>5. control = <<>> /\ Len(control) = 0
  BY DEF Init
<1>6. Bindings = Here /\ control \in Seq(Entries)
  BY <1>4, BindingsAre, StateFacts DEF Here
<1>7. Here = <<FrameOf(control, scopes, w, {}, 0)>>
  <2>1. Here = [k \in 1 .. 1 |-> FrameOf(control, scopes, w, {}, k - 1)]
    BY <1>2, <1>5 DEF Here, Chain
  <2> DEFINE x == FrameOf(control, scopes, w, {}, 0)
  <2>2. \A k \in 1 .. 1 : k = 1 /\ FrameOf(control, scopes, w, {}, k - 1) = x
    OBVIOUS
  <2> HIDE DEF x
  <2>3. Here = [k \in 1 .. 1 |-> x]
    BY <2>1, <2>2
  <2>4. [k \in 1 .. 1 |-> x] = <<x>>
    OBVIOUS
  <2> QED BY <2>3, <2>4 DEF x
<1>8. FrameOf(control, scopes, w, {}, 0) = Scope!Frame("shell", w, {})
  <2>1. \A n : OverOf(control, scopes, 0, n) = {} /\ Owning(control, scopes, 0, n) = {}
    BY <1>5 DEF OverOf, Owning
  <2>2. [n \in Names |-> EnvIn(control, scopes, w, 0, n)] = w
    BY <1>3, <2>1 DEF EnvIn
  <2>3. {n \in Names : RoIn(control, scopes, {}, 0, n)} = {}
    BY <2>1 DEF RoIn
  <2> QED BY <2>2, <2>3 DEF FrameOf, BindsOf, KindOf, Scope!Frame
<1> QED BY <1>3, <1>6, <1>7, <1>8 DEF Scope!Init

LEMMA CommandRef ==
  ASSUME FramesInv, FramesInv', Scoped, VariableCommand
  PROVE  Scope!Next \/ Bindings' = Bindings
<1>1. PICK n \in Names :
        \/ Unexport(n)
        \/ UnsetVar(n)
        \/ \E v \in Plain \cup {Unset} : Export(n, v) \/ Readonly(n, v) \/ DeclareLocal(n, v)
        \/ \E v \in Plain : Assign(n, v) \/ DeclareGlobal(n, v)
  BY DEF VariableCommand
<1>2. CASE Unexport(n)
  BY <1>2, UnexportRef
<1>3. CASE UnsetVar(n)
  BY <1>3, UnsetRef
<1>4. ASSUME NEW v \in Plain \cup {Unset}, Export(n, v)
      PROVE  Scope!Next \/ Bindings' = Bindings
  BY <1>4, ExportRef
<1>5. ASSUME NEW v \in Plain \cup {Unset}, Readonly(n, v)
      PROVE  Scope!Next \/ Bindings' = Bindings
  BY <1>5, ReadonlyRef
<1>6. ASSUME NEW v \in Plain \cup {Unset}, DeclareLocal(n, v)
      PROVE  Scope!Next \/ Bindings' = Bindings
  <2>1. Scope!Local(n, v)
    BY <1>6, LocalRef
  <2> QED BY <2>1 DEF Scope!Next, Plain
<1>7. ASSUME NEW v \in Plain, Assign(n, v)
      PROVE  Scope!Next \/ Bindings' = Bindings
  BY <1>7, AssignCommandRef
<1>8. ASSUME NEW v \in Plain, DeclareGlobal(n, v)
      PROVE  Scope!Next \/ Bindings' = Bindings
  BY <1>8, GlobalRef
<1> QED BY <1>1, <1>2, <1>3, <1>4, <1>5, <1>6, <1>7, <1>8

LEMMA NestingRef ==
  ASSUME FramesInv, FramesInv', Scoped, Nesting
  PROVE  Scope!Next \/ Bindings' = Bindings
<1>1. ASSUME NEW n \in Names, NEW v \in Temporary, NEW for \in {"call", "eval"}, Prefix(n, v, for)
      PROVE  Scope!Next
  <2>1. Scope!Prefix(n, v) /\ v \in Values
    BY <1>1, PrefixRef, TemporaryAssumption
  <2> QED BY <2>1 DEF Scope!Next
<1>2. CASE EndPrefix
  BY <1>2, EndPrefixRef DEF Scope!Next
<1>3. CASE Call
  BY <1>3, CallRef DEF Scope!Next
<1>4. CASE CallRefused
  BY <1>4, NoCallRef
<1>5. CASE EndFunction
  BY <1>5, EndFunctionRef DEF Scope!Next
<1>6. CASE Subshell
  BY <1>6, SubshellRef DEF Scope!Next
<1>7. CASE EndSubshell
  BY <1>7, EndSubshellRef DEF Scope!Next
<1>8. ASSUME NEW e \in {"return", "exit"}, Raise(e)
      PROVE  Bindings' = Bindings
  BY <1>8, Stutters DEF Raise
<1>9. ASSUME NEW e \in {"return", "exit"}, CallTrapFails(e)
      PROVE  Bindings' = Bindings
  BY <1>9, NoCallRef
<1>10. ASSUME NEW e \in {"return", "exit"}, EndFunctionTrapFails(e)
       PROVE  Scope!Next
  BY <1>10, EndFunctionTrapFailsRef DEF Scope!Next
<1> QED BY <1>1, <1>2, <1>3, <1>4, <1>5, <1>6, <1>7, <1>8, <1>9, <1>10 DEF Nesting

LEMMA StepRef ==
  ASSUME FramesInv, FramesInv', Scoped, [Next]_vars
  PROVE  [Scope!Next]_Bindings
<1>1. CASE Next
  BY <1>1, CommandRef, NestingRef DEF Next
<1>2. CASE UNCHANGED vars
  BY <1>2, Stutters DEF vars
<1> QED BY <1>1, <1>2

\* Every script of this kind gives its variables the meaning that dynamic scoping
\* says, whatever the flat table goes through and however functions end.
THEOREM ScopeImplemented == Spec /\ Scoped => ImplementsDynamicScope
<1>1. Init => Scope!Init
  BY InitRef
<1>2. FramesInv /\ FramesInv' /\ Scoped /\ [Next]_vars => [Scope!Next]_Bindings
  BY StepRef
<1>3. Scoped /\ [Next]_vars => Scoped'
  BY DEF Next, vars, Scoped, Does
<1>4. Spec => []FramesInv
  BY FramesInvariant
<1> QED BY <1>1, <1>2, <1>3, <1>4, PTL DEF Spec, ImplementsDynamicScope, Scope!Spec

-------------------------------------------------------------------------------
(* What DynamicScope promises of a readonly variable of the shell             *)

Fixed(F, G) == \A n \in F[1].ro : n \in G[1].ro /\ G[1].val[n] = F[1].val[n]

LEMMA BindingsShape ==
  ASSUME FramesInv
  PROVE  /\ Bindings = [j \in 1 .. Len(control) + 1 |-> Bindings[j]]
         /\ Len(control) \in Nat /\ IsFrame(Bindings[1])
         /\ DOMAIN Bindings[1].val = Names /\ Bindings[1].ro \subseteq Names
<1>1. control \in Seq(Entries) /\ Len(control) \in Nat /\ Bindings = Here
  BY StateFacts, BindingsAre DEF Here
<1>2. /\ Here = [j \in 1 .. Len(control) + 1 |-> Here[j]]
      /\ Here[1] = FrameOf(control, scopes, sh.env, sh.readonly, 0)
  <2>1. 1 \in 1 .. Len(control) + 1 /\ 1 - 1 = 0
    BY <1>1
  <2>2. Here = [j \in 1 .. Len(control) + 1 |-> Here[j]]
    BY <1>1, ChainIs DEF Here
  <2>3. \A k \in 1 .. Len(control) + 1 : Here[k] = FrameOf(control, scopes, sh.env, sh.readonly, k - 1)
    BY <1>1, ChainIs DEF Here
  <2> QED BY <2>1, <2>2, <2>3
<1> DEFINE val == [n \in Names |-> EnvIn(control, scopes, sh.env, 0, n)]
           ro == {n \in Names : RoIn(control, scopes, sh.readonly, 0, n)}
<1>3. Here[1] = [kind |-> "shell", val |-> val, ro |-> ro]
  BY <1>2 DEF FrameOf, BindsOf, KindOf
<1>4. val = [n \in DOMAIN val |-> val[n]] /\ DOMAIN val = Names /\ ro \subseteq Names
  OBVIOUS
<1> HIDE DEF val, ro
<1>5. IsFrame(Here[1]) /\ Here[1].val = val /\ Here[1].ro = ro
  BY <1>3, <1>4 DEF IsFrame
<1> QED BY <1>1, <1>2, <1>4, <1>5

\* A change of one frame, and what it has to keep of the first.
LEMMA ChangeFixes ==
  ASSUME NEW N \in Nat, NEW F, F = [j \in 1 .. N + 1 |-> F[j]], NEW k, NEW x, NEW G, G = [F EXCEPT ![k] = x],
         k = 1 => \A n \in F[1].ro : n \in x.ro /\ x.val[n] = F[1].val[n]
  PROVE  Fixed(F, G)
<1>1. G = [j \in 1 .. N + 1 |-> IF j = k THEN x ELSE F[j]]
  OBVIOUS
<1>2. G[1] = IF k = 1 THEN x ELSE F[1]
  BY <1>1
<1> QED BY <1>2 DEF Fixed

\* A name whose innermost binding is the shell's is readonly if that is.
LEMMA ShellOwns ==
  ASSUME FramesInv, NEW n \in Names, Scope!Innermost(n) = 1, n \in Bindings[1].ro
  PROVE  Scope!IsReadonly(n)
<1>1. control \in Seq(Entries) /\ Len(control) \in Nat
  BY StateFacts
<1>2. PICK i : Inner(control, scopes, n, i)
  BY <1>1, InnerExists
<1>3. PICK o : Owns(control, scopes, n, o)
  BY <1>1, OwnerExists
<1>4. Scope!Innermost(n) = i + 1 /\ Scope!Owner(n) = o + 1
  BY <1>2, <1>3, NamesMean
<1>5. i \in 0 .. Len(control) /\ OverOf(control, scopes, i, n) = {}
  BY <1>2 DEF Inner
<1>6. i = 0
  BY <1>1, <1>4, <1>5
<1>7. o \in 0 .. Len(control) /\ n \in BindsOf(control, scopes, o)
  BY <1>3 DEF Owns
<1>8. o = 0
  <2>1. o \notin 0 + 1 .. Len(control)
    BY <1>5, <1>6, <1>7 DEF OverOf
  <2> QED BY <1>1, <1>7, <2>1
<1> QED BY <1>4, <1>8 DEF Scope!IsReadonly

\* A value of a name that is not readonly.
LEMMA BindFixes ==
  ASSUME FramesInv, NEW n \in Names, NEW v, ~Scope!IsReadonly(n)
  PROVE  Fixed(Bindings, Scope!Bind(Scope!Innermost(n), n, v))
<1> DEFINE F == Bindings
           N == Len(control)
           k == Scope!Innermost(n)
           x == [F[k] EXCEPT !.val = Scope!With(@, n, v)]
           G == Scope!Bind(k, n, v)
<1>1. F = [j \in 1 .. N + 1 |-> F[j]] /\ N \in Nat /\ IsFrame(F[1]) /\ DOMAIN F[1].val = Names
      /\ F[1].ro \subseteq Names
  BY BindingsShape
<1>2. k = 1 => n \notin F[1].ro
  BY ShellOwns
<1> HIDE DEF F, k, N
<1>3. G = [F EXCEPT ![k] = x]
  BY DEF Scope!Bind, F
<1>4. k = 1 => \A m \in F[1].ro : m \in x.ro /\ x.val[m] = F[1].val[m]
  <2> SUFFICES ASSUME k = 1, NEW m \in F[1].ro PROVE m \in x.ro /\ x.val[m] = F[1].val[m]
    OBVIOUS
  <2> DEFINE w == Scope!With(F[1].val, n, v)
  <2>1. m \in Names /\ m # n /\ w[m] = F[1].val[m]
    BY <1>1, <1>2 DEF Scope!With
  <2>2. x = [F[1] EXCEPT !.val = w]
    OBVIOUS
  <2> HIDE DEF w, x
  <2>3. x.val = w /\ x.ro = F[1].ro
    BY <1>1, <2>2 DEF IsFrame
  <2> QED BY <2>1, <2>3
<1> HIDE DEF G, x
<1>5. Fixed(F, G)
  BY <1>1, <1>3, <1>4, ChangeFixes
<1> QED BY <1>5 DEF F, G, k

LEMMA UnbindFixes ==
  ASSUME FramesInv, NEW n \in Names, ~Scope!IsReadonly(n)
  PROVE  Fixed(Bindings, Scope!Unbind(Scope!Innermost(n), n))
<1> DEFINE F == Bindings
           N == Len(control)
           k == Scope!Innermost(n)
           G == Scope!Unbind(k, n)
<1>1. F = [j \in 1 .. N + 1 |-> F[j]] /\ N \in Nat /\ IsFrame(F[1]) /\ DOMAIN F[1].val = Names
      /\ F[1].ro \subseteq Names
  BY BindingsShape
<1>2. k = 1 => n \notin F[1].ro
  BY ShellOwns
<1> HIDE DEF F, k, N
<1> DEFINE A == [m \in (DOMAIN F[k].val) \ {n} |-> F[k].val[m]]
           B == F[k].ro \ {n}
           x == [F[k] EXCEPT !.val = A, !.ro = B]
<1>3. CASE k \in 1 .. N + 1
  <2>1. G = [F EXCEPT ![k].val = A, ![k].ro = B]
    BY <1>1, <1>3 DEF Scope!Unbind, F
  <2> HIDE DEF A, B
  <2>2. [F EXCEPT ![k].val = A, ![k].ro = B] = [F EXCEPT ![k] = x]
    <3> DEFINE y == [F[k] EXCEPT !.val = A]
               H == [F EXCEPT ![k] = y]
    <3>1. [F EXCEPT ![k].val = A, ![k].ro = B] = [H EXCEPT ![k] = [H[k] EXCEPT !.ro = B]]
      OBVIOUS
    <3>2. H[k] = y
      BY <1>1, <1>3
    <3>3. x = [y EXCEPT !.ro = B]
      OBVIOUS
    <3> HIDE DEF x, y
    <3>4. H = [j \in 1 .. N + 1 |-> IF j = k THEN y ELSE F[j]]
      BY <1>1
    <3> HIDE DEF H
    <3>5. [H EXCEPT ![k] = x] = [j \in 1 .. N + 1 |-> IF j = k THEN x ELSE F[j]]
      BY <3>4
    <3>6. [F EXCEPT ![k] = x] = [j \in 1 .. N + 1 |-> IF j = k THEN x ELSE F[j]]
      BY <1>1
    <3> QED BY <3>1, <3>2, <3>3, <3>5, <3>6
  <2>3. k = 1 => \A m \in F[1].ro : m \in x.ro /\ x.val[m] = F[1].val[m]
    <3> SUFFICES ASSUME k = 1, NEW m \in F[1].ro PROVE m \in x.ro /\ x.val[m] = F[1].val[m]
      OBVIOUS
    <3>1. m \in Names /\ m # n /\ A[m] = F[1].val[m] /\ m \in B
      BY <1>1, <1>2 DEF A, B
    <3>2. x.val = A /\ x.ro = B
      BY <1>1 DEF IsFrame
    <3> QED BY <3>1, <3>2
  <2> HIDE DEF G, x
  <2>4. Fixed(F, G)
    <3>1. G = [F EXCEPT ![k] = x]
      BY <2>1, <2>2
    <3> QED BY <1>1, <2>3, <3>1, ChangeFixes
  <2> QED BY <2>4 DEF F, G, k
<1>4. CASE k \notin 1 .. N + 1
  <2>1. G = F
    BY <1>1, <1>4 DEF Scope!Unbind, F
  <2> QED BY <2>1 DEF F, G, k, Fixed
<1> QED BY <1>3, <1>4

\* More readonly names.
LEMMA ProtectFixes ==
  ASSUME NEW N \in Nat, NEW F, NEW G, G = [j \in 1 .. N + 1 |-> G[j]], Fixed(F, G),
         G[1] = [kind |-> G[1].kind, val |-> G[1].val, ro |-> G[1].ro], NEW k, NEW n
  PROVE  Fixed(F, [G EXCEPT ![k].ro = @ \cup {n}])
<1> DEFINE y == [G[k] EXCEPT !.ro = @ \cup {n}]
           H == [G EXCEPT ![k] = y]
<1>1. [G EXCEPT ![k].ro = @ \cup {n}] = H
  OBVIOUS
<1>2. k = 1 => y.val = G[1].val /\ y.ro = G[1].ro \cup {n}
  OBVIOUS
<1> HIDE DEF y
<1>3. H = [j \in 1 .. N + 1 |-> IF j = k THEN y ELSE G[j]]
  OBVIOUS
<1>4. H[1] = IF k = 1 THEN y ELSE G[1]
  BY <1>3
<1> HIDE DEF H
<1> QED BY <1>1, <1>2, <1>4 DEF Fixed

LEMMA AssignAndProtectFixes ==
  ASSUME FramesInv, NEW n \in Names, NEW v, ~Scope!IsReadonly(n)
  PROVE  Fixed(Bindings, [Scope!Bind(Scope!Innermost(n), n, v) EXCEPT ![Scope!Owner(n)].ro = @ \cup {n}])
<1> DEFINE F == Bindings
           N == Len(control)
           k == Scope!Innermost(n)
           o == Scope!Owner(n)
           G == Scope!Bind(k, n, v)
<1>1. F = [j \in 1 .. N + 1 |-> F[j]] /\ N \in Nat /\ IsFrame(F[1])
  BY BindingsShape
<1>2. Fixed(F, G)
  BY BindFixes
<1> DEFINE x == [F[k] EXCEPT !.val = Scope!With(@, n, v)]
<1> HIDE DEF F, k, N, o
<1>3. G = [F EXCEPT ![k] = x]
  BY DEF Scope!Bind, F
<1>4. k = 1 => x = [kind |-> x.kind, val |-> x.val, ro |-> x.ro]
  <2> DEFINE w == Scope!With(F[1].val, n, v)
  <2>1. k = 1 => x = [F[1] EXCEPT !.val = w]
    OBVIOUS
  <2> HIDE DEF w, x
  <2> QED BY <1>1, <2>1 DEF IsFrame
<1> HIDE DEF x, G
<1>5. G = [j \in 1 .. N + 1 |-> IF j = k THEN x ELSE F[j]]
  BY <1>1, <1>3
<1>6. /\ G = [j \in 1 .. N + 1 |-> G[j]]
      /\ G[1] = [kind |-> G[1].kind, val |-> G[1].val, ro |-> G[1].ro]
  <2>1. G = [j \in 1 .. N + 1 |-> G[j]] /\ G[1] = IF k = 1 THEN x ELSE F[1]
    BY <1>1, <1>5
  <2> QED BY <1>1, <1>4, <2>1 DEF IsFrame
<1>7. Fixed(F, [G EXCEPT ![o].ro = @ \cup {n}])
  BY <1>1, <1>2, <1>6, ProtectFixes
<1> QED BY <1>7 DEF F, G, k, o

\* A local is never in the shell's frame.
LEMMA LocalFixes ==
  ASSUME FramesInv, NEW n \in Names, NEW v, Scope!Local(n, v)
  PROVE  Fixed(Bindings, Bindings')
<1> DEFINE F == Bindings
           N == Len(control)
           k == Scope!Max(Scope!Function)
           G == Scope!Bind(k, n, v)
<1>1. F = [j \in 1 .. N + 1 |-> F[j]] /\ N \in Nat
  BY BindingsShape
<1>2. Bindings' = [G EXCEPT ![k].ro = @ \ {n}] /\ Scope!Function # {}
  BY DEF Scope!Local
<1>3. k # 1
  <2> DEFINE S == Scope!Function
  <2>1. \A y \in S : y \in 2 .. N + 1
    BY FunctionsAre
  <2> HIDE DEF S
  <2>2. S \in SUBSET Nat /\ N + 1 \in Nat /\ \A y \in S : y <= N + 1
    BY <1>1, <2>1
  <2>3. S # {}
    BY <1>2 DEF S
  <2>4. Max(S) \in S
    BY <2>2, <2>3, MaxExists
  <2>5. k = Max(S)
    BY DEF Scope!Max, Max, S
  <2> HIDE DEF k
  <2> QED BY <2>1, <2>4, <2>5
<1> HIDE DEF F, N, k
<1>4. G = [F EXCEPT ![k] = [F[k] EXCEPT !.val = Scope!With(@, n, v)]]
  BY DEF Scope!Bind, F
<1>5. G = [j \in 1 .. N + 1 |-> G[j]] /\ G[1] = F[1]
  <2> DEFINE y == [F[k] EXCEPT !.val = Scope!With(@, n, v)]
  <2>1. G = [F EXCEPT ![k] = y]
    BY <1>4
  <2> HIDE DEF G, y
  <2>2. G = [j \in 1 .. N + 1 |-> IF j = k THEN y ELSE F[j]]
    BY <1>1, <2>1
  <2> QED BY <1>1, <1>3, <2>2
<1> HIDE DEF G
<1>6. [G EXCEPT ![k].ro = @ \ {n}][1] = G[1]
  BY <1>3, <1>5
<1>7. Bindings'[1] = F[1]
  BY <1>2, <1>5, <1>6
<1> QED BY <1>7 DEF Fixed, F

LEMMA DeclareGlobalFixes ==
  ASSUME FramesInv, NEW n \in Names, NEW v, Scope!DeclareGlobal(n, v)
  PROVE  Fixed(Bindings, Bindings')
<1> DEFINE F == Bindings
           N == Len(control)
           w == Scope!With(F[1].val, n, v)
           x == [F[1] EXCEPT !.val = w]
<1>1. F = [j \in 1 .. N + 1 |-> F[j]] /\ N \in Nat /\ IsFrame(F[1]) /\ DOMAIN F[1].val = Names
      /\ F[1].ro \subseteq Names
  BY BindingsShape
<1>2. n \notin F[1].ro /\ Bindings' = [F EXCEPT ![1] = x]
  BY DEF Scope!DeclareGlobal, Scope!Bind
<1>3. \A m \in F[1].ro : m \in x.ro /\ x.val[m] = F[1].val[m]
  <2> SUFFICES ASSUME NEW m \in F[1].ro PROVE m \in x.ro /\ x.val[m] = F[1].val[m]
    OBVIOUS
  <2> HIDE DEF F
  <2>1. m \in Names /\ m # n /\ w[m] = F[1].val[m]
    BY <1>1, <1>2 DEF Scope!With
  <2> HIDE DEF w
  <2>2. x.val = w /\ x.ro = F[1].ro
    BY <1>1 DEF IsFrame
  <2> QED BY <2>1, <2>2
<1> HIDE DEF F, x, N
<1>4. Fixed(F, Bindings')
  BY <1>1, <1>2, <1>3, ChangeFixes
<1> QED BY <1>4 DEF F

LEMMA ScopeStepFixes ==
  ASSUME FramesInv, Scope!Next
  PROVE  Fixed(Bindings, Bindings')
<1> DEFINE F == Bindings
           N == Len(control)
<1>1. F = [j \in 1 .. N + 1 |-> F[j]] /\ N \in Nat /\ IsFrame(F[1])
  BY BindingsShape
<1>2. ASSUME NEW n \in Names, Scope!Protect(n) PROVE Fixed(F, F')
  <2> DEFINE o == Scope!Owner(n)
  <2>1. F' = [F EXCEPT ![o].ro = @ \cup {n}]
    BY <1>2 DEF Scope!Protect
  <2>2. Fixed(F, F) /\ F[1] = [kind |-> F[1].kind, val |-> F[1].val, ro |-> F[1].ro]
    BY <1>1 DEF Fixed, IsFrame
  <2>3. Fixed(F, [F EXCEPT ![o].ro = @ \cup {n}])
    <3> HIDE DEF F, N, o
    <3> QED BY <1>1, <2>2, ProtectFixes
  <2> HIDE DEF F, o
  <2> QED BY <2>1, <2>3
<1>3. ASSUME NEW n \in Names, Scope!UnsetName(n) PROVE Fixed(F, F')
  <2>1. ~Scope!IsReadonly(n)
        /\ (F' = Scope!Unbind(Scope!Innermost(n), n) \/ F' = Scope!Bind(Scope!Innermost(n), n, Unset))
    BY <1>3 DEF Scope!UnsetName
  <2> QED BY <2>1, BindFixes, UnbindFixes
<1>4. ASSUME NEW n \in Names, NEW v, Scope!Local(n, v) PROVE Fixed(F, F')
  BY <1>4, LocalFixes
<1>5. ASSUME NEW n \in Names, NEW v, Scope!Assign(n, v) PROVE Fixed(F, F')
  BY <1>5, BindFixes DEF Scope!Assign
<1>6. ASSUME NEW n \in Names, NEW v, Scope!AssignAndProtect(n, v) PROVE Fixed(F, F')
  BY <1>6, AssignAndProtectFixes DEF Scope!AssignAndProtect
<1>7. ASSUME NEW n \in Names, NEW v, Scope!DeclareGlobal(n, v) PROVE Fixed(F, F')
  BY <1>7, DeclareGlobalFixes
<1>8. ASSUME NEW x, F' = Append(F, x) PROVE Fixed(F, F')
  <2> HIDE DEF F, N
  <2>1. Append(F, x) = [j \in 1 .. N + 2 |-> IF j = N + 2 THEN x ELSE F[j]]
    <3>1. N + 1 \in Nat /\ (N + 1) + 1 = N + 2
      BY <1>1
    <3> QED BY <1>1, <3>1, AppendIs
  <2>2. F'[1] = F[1]
    BY <1>1, <1>8, <2>1
  <2> QED BY <2>2 DEF Fixed
<1>9. ASSUME NEW n \in Names, NEW v, Scope!Prefix(n, v) PROVE Fixed(F, F')
  BY <1>8, <1>9 DEF Scope!Prefix
<1>10. CASE Scope!Call
  BY <1>8, <1>10 DEF Scope!Call
<1>11. CASE Scope!Subshell
  BY <1>8, <1>11 DEF Scope!Subshell
<1>12. CASE Scope!Leave
  <2>1. Len(F) > 1 /\ F' = Scope!Front(F)
    BY <1>12 DEF Scope!Leave
  <2> HIDE DEF F, N
  <2>2. Len(F) = N + 1
    BY <1>1
  <2>3. F' = SubSeq(F, 1, Len(F) - 1)
    BY <2>1, <2>2 DEF Scope!Front
  <2>4. F'[1] = F[1]
    BY <1>1, <2>1, <2>2, <2>3
  <2> QED BY <2>4 DEF Fixed, F
<1> QED BY <1>2, <1>3, <1>4, <1>5, <1>6, <1>7, <1>9, <1>10, <1>11, <1>12 DEF Scope!Next

\* In every script of this kind a readonly variable of the shell stays readonly
\* and keeps its value, through calls, locals, temporary assignments, unwinding.
THEOREM ReadonlyGlobalsFixed == Spec /\ Scoped => ReadonlyGlobalFixed
<1>1. FramesInv /\ FramesInv' /\ Scoped /\ [Next]_vars => [KeepsReadonly]_vars
  <2> SUFFICES ASSUME FramesInv, FramesInv', Scoped, [Next]_vars PROVE KeepsReadonly
    OBVIOUS
  <2>1. CASE Scope!Next
    BY <2>1, ScopeStepFixes DEF Fixed, KeepsReadonly
  <2>2. CASE UNCHANGED Bindings
    BY <2>2 DEF KeepsReadonly
  <2> QED BY <2>1, <2>2, StepRef
<1>2. Scoped /\ [Next]_vars => Scoped'
  BY DEF Next, vars, Scoped, Does
<1>3. Spec => []FramesInv
  BY FramesInvariant
<1> QED BY <1>1, <1>2, <1>3, PTL DEF Spec, ReadonlyGlobalFixed
===============================================================================
