---------------------------- MODULE FunctionFrames ----------------------------
(***************************************************************************)
(* How the executor gives shell functions their local variables.  There is *)
(* one flat table of variables (env_vars), a second one that expansion     *)
(* reads first (shell_state.variables, here typed) and the process's own   *)
(* environment (penv); a function frame, a temporary assignment and a      *)
(* subshell each save what they change and put it back when they end, also *)
(* when an error (return, exit) unwinds them.  Scalars only: arrays,       *)
(* namerefs and the integer and case attributes are left out.              *)
(***************************************************************************)
EXTENDS Naturals, SequencesExt

CONSTANTS Names,       \* variables
          Values,      \* their values
          Temporary,   \* the values only temporary assignments give
          Unset,       \* what an unset variable has for a value
          Scripts,     \* the sets of things a script does, see Does
          MaxDepth,    \* FUNCNEST
          MaxNest      \* bound: frames, assignments and subshells at once

ASSUME TemporaryAssumption == Temporary \subseteq Values
ASSUME UnsetAssumption == Unset \notin Values

VARIABLES sh,       \* the variable tables: [env, typed, penv, shadowed: name ->
                    \* value, exported, readonly: names]
          scopes,   \* local_var_scopes, local_attr_scopes, local_typed_scopes
          control,  \* what is running, innermost last, with what it saved
          error,    \* the ExecuteError on its way up: none, return, exit
          features  \* what this script does (no state of the code)

vars == <<sh, scopes, control, error, features>>

(***************************************************************************)
(* A script does only what its features allow, so that a run can ask what  *)
(* holds for scripts without the commands that break it:                   *)
(*   local, prefix (x=1 f), eval (x=1 eval ...), unset, export, export-n,  *)
(*   readonly, global (declare -g), subshell, trap (handlers that return   *)
(*   or exit); local-in-eval: local of the name eval assigns;              *)
(*   local-in-subshell; unset-in-subshell; global-shadowed: declare -g of  *)
(*   a name bound more than once; attribute-of-unset: export n or          *)
(*   readonly n of an unset n.                                             *)
(***************************************************************************)
Does(f) == f \in features

Plain == Values \ Temporary
Value == Values \cup {Unset}
With(f, n, v) == [m \in (DOMAIN f) \cup {n} |-> IF m = n THEN v ELSE f[m]]
Without(f, n) == [m \in (DOMAIN f) \ {n} |-> f[m]]

-------------------------------------------------------------------------------
(* The tables *)

AssignVar(s, n, v) ==
  IF n \in s.readonly THEN s
  ELSE [s EXCEPT !.env[n] = v, !.typed[n] = v,
                 !.penv[n] = IF n \in s.exported THEN v ELSE @]

RestoreVar(s, n, v) == [s EXCEPT !.env[n] = v, !.penv[n] = v]

Attrs(s, n) == [exported |-> n \in s.exported, readonly |-> n \in s.readonly]
Mark(set, n, marked) == IF marked THEN set \cup {n} ELSE set \ {n}
SetAttrs(s, n, a) == [s EXCEPT !.exported = Mark(@, n, a.exported),
                               !.readonly = Mark(@, n, a.readonly)]
NoAttrs == [exported |-> FALSE, readonly |-> FALSE]

\* What export n[=v] and readonly n[=v] do to the value.  Without a value the
\* table's is used, and then the one the process environment still has.
AttributeValue(s, n, v) ==
  IF v # Unset THEN v ELSE IF s.env[n] # Unset THEN s.env[n] ELSE s.penv[n]
GiveAttributeValue(s, n, v) ==
  LET w == AttributeValue(s, n, v)
  IN  IF w = Unset THEN s
      ELSE [s EXCEPT !.env[n] = w, !.penv[n] = w, !.typed[n] = IF v = Unset THEN @ ELSE w]

\* What a child process finds in its environment.
ChildValue(s, n) == IF s.shadowed[n] # Unset THEN s.shadowed[n]
                    ELSE IF n \in s.exported THEN s.env[n] ELSE Unset

(* The frames *)

EmptyScope == [vars |-> [n \in {} |-> Unset], typed |-> [n \in {} |-> Unset]]
FunctionDepth == Len(scopes)
CurrentScope == FunctionDepth        \* local_var_scopes.last_mut()
VisibleScopes(n) == {i \in DOMAIN scopes : n \in DOMAIN scopes[i].vars}

SaveLocal_OnlySet(scope, s, n) ==    \* faulty: no typed value, nothing saved
  IF n \in DOMAIN scope.vars THEN scope
  ELSE [vars |-> With(scope.vars, n, [value |-> s.env[n], attrs |-> Attrs(s, n)]),
        typed |-> IF s.typed[n] = Unset THEN scope.typed ELSE With(scope.typed, n, s.typed[n])]
SaveLocal(scope, s, n) ==
  IF n \in DOMAIN scope.vars THEN scope
  ELSE [vars |-> With(scope.vars, n, [value |-> s.env[n], attrs |-> Attrs(s, n)]),
        typed |-> With(scope.typed, n, s.typed[n])]

\* finish_global_declare_for_local_names
SetSaved(scope, n, v) ==
  [vars |-> With(scope.vars, n, [scope.vars[n] EXCEPT !.value = v]),
   typed |-> With(scope.typed, n, v)]

\* initialize_non_inherited_locals
FreshLocal_KeepsTyped(s, n) ==       \* faulty: the typed table still has the outer value
  SetAttrs([s EXCEPT !.env[n] = Unset], n, NoAttrs)
FreshLocal(s, n) ==
  SetAttrs([s EXCEPT !.shadowed[n] = IF n \in s.exported /\ s.env[n] # Unset
                                     THEN s.env[n] ELSE @,
                     !.env[n] = Unset, !.typed[n] = Unset], n, NoAttrs)

RestoreValues(s, scope) ==
  LET back(f) == [n \in Names |-> IF n \in DOMAIN scope.vars THEN scope.vars[n].value ELSE f[n]]
  IN  [s EXCEPT !.env = back(@), !.penv = back(@),
                !.typed = [n \in Names |-> IF n \in DOMAIN scope.typed THEN scope.typed[n] ELSE @[n]]]
RestoreAttrs(s, scope) ==
  LET D == DOMAIN scope.vars
      marks(set, a) == (set \ D) \cup {n \in D : scope.vars[n].attrs[a]}
  IN  [s EXCEPT !.exported = marks(@, "exported"), !.readonly = marks(@, "readonly")]

\* restore_function_locals
RestoreLocals_KeepsShadowed(s, scope) == RestoreAttrs(RestoreValues(s, scope), scope)
RestoreLocals_NoAttrs(s, scope) ==
  [RestoreValues(s, scope) EXCEPT
     !.shadowed = [n \in Names |-> IF n \in DOMAIN scope.vars THEN Unset ELSE @[n]]]
RestoreLocals(s, scope) ==
  [RestoreAttrs(RestoreValues(s, scope), scope) EXCEPT
     !.shadowed = [n \in Names |-> IF n \in DOMAIN scope.vars THEN Unset ELSE @[n]]]

\* restore_shell_env, and the typed table put back whole.
RestoreShell(s, saved) ==
  [saved EXCEPT !.penv = [n \in Names |-> IF saved.env[n] # Unset THEN saved.env[n]
                                          ELSE IF s.env[n] # Unset THEN Unset ELSE s.penv[n]]]

-------------------------------------------------------------------------------
(* What is running *)

Kind(i) == control[i].kind
InnermostFunction == Max({0} \cup {i \in DOMAIN control : Kind(i) = "function"})
Under(kind) == \E i \in DOMAIN control : Kind(i) = kind
OnTop(kind) == control # <<>> /\ Last(control).kind = kind

\* Commands run at the top level, in a function or subshell, or under eval;
\* a function call with temporary assignments is the only thing they are for.
Running == error = "none" /\ (OnTop("prefix") => Last(control).for = "eval")
Pending == error = "none" /\ OnTop("prefix") /\ Last(control).for = "call"

Init ==
  /\ \E ex \in SUBSET Names, val \in [Names -> Plain \cup {Unset}] :
       LET penv == [n \in Names |-> IF n \in ex THEN val[n] ELSE Unset]
       IN  sh = [env |-> penv, typed |-> [n \in Names |-> Unset], penv |-> penv,
                 shadowed |-> [n \in Names |-> Unset],
                 exported |-> {n \in ex : val[n] # Unset}, readonly |-> {}]
  /\ scopes = <<>>
  /\ control = <<>>
  /\ error = "none"
  /\ features \in Scripts

(* Commands on variables *)

Assign(n, v) ==
  /\ Running
  /\ sh' = AssignVar(sh, n, v)
  /\ UNCHANGED <<scopes, control, error>>

AttributeAllowed(n, v) ==
  v # Unset \/ sh.env[n] # Unset \/ Does("attribute-of-unset")

Export(n, v) ==
  /\ Running /\ Does("export") /\ AttributeAllowed(n, v)
  /\ v # Unset => n \notin sh.readonly
  /\ sh' = [GiveAttributeValue(sh, n, v) EXCEPT !.exported = @ \cup {n}]
  /\ UNCHANGED <<scopes, control, error>>

Unexport(n) ==
  /\ Running /\ Does("export-n")
  /\ sh' = [sh EXCEPT !.penv[n] = Unset, !.exported = @ \ {n}]
  /\ UNCHANGED <<scopes, control, error>>

Readonly(n, v) ==
  /\ Running /\ Does("readonly") /\ AttributeAllowed(n, v)
  /\ v # Unset => n \notin sh.readonly
  /\ sh' = [GiveAttributeValue(sh, n, v) EXCEPT !.readonly = @ \cup {n}]
  /\ UNCHANGED <<scopes, control, error>>

UnsetVar_Flat(n) ==                  \* faulty: a caller's local is unset like any name
  /\ Running /\ Does("unset")
  /\ sh' = IF n \in sh.readonly THEN [sh EXCEPT !.typed[n] = Unset]
           ELSE [RestoreVar(sh, n, Unset) EXCEPT !.typed[n] = Unset, !.exported = @ \ {n}]
  /\ UNCHANGED <<scopes, control, error>>

\* unset n: unset_outer_local_variable when n is a caller's local, else the
\* unset builtin; the typed value goes even when a readonly n stays.
UnsetVar(n) ==
  /\ Running /\ Does("unset")
  /\ (Under("subshell") /\ VisibleScopes(n) # {}) => Does("unset-in-subshell")
  /\ LET outer == n \notin sh.readonly /\ VisibleScopes(n) # {}
                    /\ Max(VisibleScopes(n)) < FunctionDepth
         i == Max(VisibleScopes(n))
         saved == scopes[i].vars[n]
     IN  \/ /\ outer
            /\ sh' = SetAttrs(RestoreVar(sh, n, saved.value), n, saved.attrs)
            /\ scopes' = [scopes EXCEPT ![i].vars = Without(@, n)]
         \/ /\ ~outer
            /\ sh' = IF n \in sh.readonly THEN [sh EXCEPT !.typed[n] = Unset]
                     ELSE [RestoreVar(sh, n, Unset) EXCEPT !.typed[n] = Unset,
                                                           !.exported = @ \ {n}]
            /\ UNCHANGED scopes
  /\ UNCHANGED <<control, error>>

DeclareLocal(n, v) ==
  /\ Running /\ Does("local") /\ FunctionDepth > 0
  /\ \A i \in InnermostFunction + 1 .. Len(control) :
       /\ Kind(i) = "subshell" => Does("local-in-subshell")
       /\ (Kind(i) = "prefix" /\ control[i].name = n) => Does("local-in-eval")
  /\ scopes' = [scopes EXCEPT ![CurrentScope] = SaveLocal(@, sh, n)]
  /\ LET fresh == FreshLocal(sh, n)
     IN  sh' = IF v = Unset THEN fresh ELSE [fresh EXCEPT !.env[n] = v, !.typed[n] = v]
  /\ UNCHANGED <<control, error>>

\* declare -g n=v in a function: behind a local of that name, the value saved
\* in the innermost frame that has one is the one assigned.
DeclareGlobal(n, v) ==
  /\ Running /\ Does("global") /\ FunctionDepth > 0
  /\ \/ Does("global-shadowed")
     \/ /\ Cardinality(VisibleScopes(n)) < 2
        /\ \A i \in DOMAIN control : /\ Kind(i) # "subshell"
                                     /\ Kind(i) = "prefix" => control[i].name # n
  /\ LET i == Max(VisibleScopes(n))
     IN  \/ /\ VisibleScopes(n) = {}
            /\ sh' = IF n \in sh.readonly THEN sh
                     ELSE [sh EXCEPT !.env[n] = v, !.typed[n] = v]
            /\ UNCHANGED scopes
         \/ /\ VisibleScopes(n) # {}
            /\ scopes' = IF scopes[i].vars[n].attrs.readonly THEN scopes
                         ELSE [scopes EXCEPT ![i] = SetSaved(@, n, v)]
            /\ sh' = [sh EXCEPT !.penv[n] = sh.env[n]]
  /\ UNCHANGED <<control, error>>

-------------------------------------------------------------------------------
(* What nests *)

\* n=v f ... and n=v eval ...: apply_temporary_assignments.
Prefix(n, v, for) ==
  /\ Running /\ Len(control) < MaxNest
  /\ Does(IF for = "call" THEN "prefix" ELSE "eval")
  /\ control' = Append(control, [kind |-> "prefix", for |-> for, name |-> n,
                                 value |-> sh.env[n], typed |-> sh.typed[n],
                                 exported |-> sh.exported])
  /\ sh' = [AssignVar(sh, n, v) EXCEPT !.exported = @ \cup {n}]
  /\ UNCHANGED <<scopes, error>>

\* restore_temporary_assignments, whatever the command ended with: the value,
\* then the whole list of exported names.
EndPrefix_KeepsProcessEnv ==         \* faulty: set_process_env is forgotten
  /\ OnTop("prefix") /\ ~Pending
  /\ LET p == Last(control)
     IN  sh' = [sh EXCEPT !.env[p.name] = p.value, !.typed[p.name] = p.typed,
                          !.exported = p.exported]
  /\ control' = Front(control)
  /\ UNCHANGED <<scopes, error>>
EndPrefix ==
  /\ OnTop("prefix") /\ ~Pending
  /\ LET p == Last(control)
     IN  sh' = [RestoreVar(sh, p.name, p.value) EXCEPT !.typed[p.name] = p.typed,
                                                       !.exported = p.exported]
  /\ control' = Front(control)
  /\ UNCHANGED <<scopes, error>>

\* The control stack once a pending call has been made.
Called == IF Pending THEN [control EXCEPT ![Len(control)].for = "called"] ELSE control

Call ==
  /\ (Running \/ Pending) /\ Len(control) < MaxNest
  /\ FunctionDepth < MaxDepth
  /\ control' = Append(Called, [kind |-> "function", scope |-> Len(scopes) + 1])
  /\ scopes' = Append(scopes, EmptyScope)
  /\ UNCHANGED <<sh, error>>

\* Too deep for FUNCNEST: the call does nothing.
CallRefused ==
  /\ Pending
  /\ FunctionDepth >= MaxDepth
  /\ control' = Called
  /\ UNCHANGED <<sh, scopes, error>>

\* An error a handler may raise: one that something still running catches.
Catches(c, e) ==
  \E i \in DOMAIN c : c[i].kind = IF e = "return" THEN "function" ELSE "subshell"

\* The DEBUG trap run at the start of a traced function ends in an error:
\* execute_function leaves with its frame pushed.
CallTrapFails(e) ==
  /\ (Running \/ Pending) /\ Does("trap")
  /\ FunctionDepth < MaxDepth /\ Catches(control, e)
  /\ control' = Called
  /\ scopes' = Append(scopes, EmptyScope)
  /\ error' = e
  /\ UNCHANGED sh

EndFunction_NotOnError ==            \* faulty: the error is passed on first
  /\ OnTop("function")
  /\ sh' = IF error = "none" THEN RestoreLocals(sh, Last(scopes)) ELSE sh
  /\ scopes' = IF error = "none" THEN Front(scopes) ELSE scopes
  /\ control' = Front(control)
  /\ error' = IF error = "return" THEN "none" ELSE error
EndFunction ==
  /\ OnTop("function")
  /\ sh' = RestoreLocals(sh, Last(scopes))
  /\ scopes' = Front(scopes)
  /\ control' = Front(control)
  /\ error' = IF error = "return" THEN "none" ELSE error

\* The RETURN trap ends in an error: the frame is not taken down.
EndFunctionTrapFails(e) ==
  /\ OnTop("function") /\ Does("trap")
  /\ Catches(Front(control), e)
  /\ control' = Front(control)
  /\ error' = e
  /\ UNCHANGED <<sh, scopes>>

Subshell ==
  /\ Running /\ Does("subshell") /\ Len(control) < MaxNest
  /\ control' = Append(control, [kind |-> "subshell", store |-> sh])
  /\ UNCHANGED <<sh, scopes, error>>

EndSubshell ==
  /\ OnTop("subshell")
  /\ sh' = RestoreShell(sh, Last(control).store)
  /\ control' = Front(control)
  /\ error' = IF error = "exit" THEN "none" ELSE error
  /\ UNCHANGED scopes

\* return in a function (a subshell does not stop it), exit in a subshell.
Raise(e) ==
  /\ Running /\ Catches(control, e)
  /\ error' = e
  /\ UNCHANGED <<sh, scopes, control>>

VariableCommand ==
  \E n \in Names :
    \/ Unexport(n)
    \/ UnsetVar(n)
    \/ \E v \in Plain \cup {Unset} : Export(n, v) \/ Readonly(n, v) \/ DeclareLocal(n, v)
    \/ \E v \in Plain : Assign(n, v) \/ DeclareGlobal(n, v)

Nesting ==
  \/ \E n \in Names, v \in Temporary, for \in {"call", "eval"} : Prefix(n, v, for)
  \/ EndPrefix
  \/ Call
  \/ CallRefused
  \/ EndFunction
  \/ Subshell
  \/ EndSubshell
  \/ \E e \in {"return", "exit"} :
       Raise(e) \/ CallTrapFails(e) \/ EndFunctionTrapFails(e)

Next == (VariableCommand \/ Nesting) /\ UNCHANGED features
Spec == Init /\ [][Next]_vars

-------------------------------------------------------------------------------
(* What the tables and the frames stand for: the stack of bindings of        *)
(* DynamicScope.  Frame 0 is the shell's, frame i the i-th thing running; the *)
(* value of a binding is what the next one over it saved, or the table's.    *)

ScopeOf(i) == scopes[control[i].scope]
Binds(i) == IF i = 0 THEN Names
            ELSE CASE Kind(i) = "function" -> DOMAIN ScopeOf(i).vars
                   [] Kind(i) = "prefix" -> {control[i].name}
                   [] Kind(i) = "subshell" -> Names
SavedValue(i, n) == CASE Kind(i) = "function" -> ScopeOf(i).vars[n].value
                      [] Kind(i) = "prefix" -> control[i].value
                      [] Kind(i) = "subshell" -> control[i].store.env[n]
SavedReadonly(i, n) == IF Kind(i) = "function" THEN ScopeOf(i).vars[n].attrs.readonly
                       ELSE n \in control[i].store.readonly
Over(i, n) == {j \in i + 1 .. Len(control) : n \in Binds(j)}
ValueIn(i, n) == IF Over(i, n) = {} THEN sh.env[n] ELSE SavedValue(Min(Over(i, n)), n)
ReadonlyIn(i, n) ==
  LET over == {j \in Over(i, n) : Kind(j) # "prefix"}
  IN  IF over = {} THEN n \in sh.readonly ELSE SavedReadonly(Min(over), n)

Bindings ==
  [k \in 1 .. Len(control) + 1 |->
     LET kind == IF k = 1 THEN "shell" ELSE Kind(k - 1)
     IN  [kind |-> kind,
          val |-> [n \in Binds(k - 1) |-> ValueIn(k - 1, n)],
          ro |-> {n \in Binds(k - 1) : kind # "prefix" /\ ReadonlyIn(k - 1, n)}]]

Scope == INSTANCE DynamicScope WITH frames <- Bindings

-------------------------------------------------------------------------------
(* Properties *)

Tables == [env : [Names -> Value], typed : [Names -> Value], penv : [Names -> Value],
           shadowed : [Names -> Value], exported : SUBSET Names, readonly : SUBSET Names]

\* The tables are total, the frames' three maps (two here) start out with the
\* same names, and what is running saved what it must put back.
TypeOK ==
  /\ sh \in Tables
  /\ \A i \in DOMAIN scopes :
       /\ DOMAIN scopes[i].vars \subseteq DOMAIN scopes[i].typed
       /\ DOMAIN scopes[i].typed \subseteq Names
       /\ \A n \in DOMAIN scopes[i].typed : scopes[i].typed[n] \in Value
       /\ \A n \in DOMAIN scopes[i].vars :
            scopes[i].vars[n] \in [value : Value, attrs : [exported : BOOLEAN, readonly : BOOLEAN]]
  /\ \A i \in DOMAIN control :
       \/ control[i] \in [kind : {"function"}, scope : Nat]
       \/ control[i] \in [kind : {"prefix"}, for : {"call", "called", "eval"}, name : Names,
                          value : Value, typed : Value, exported : SUBSET Names]
       \/ control[i] \in [kind : {"subshell"}, store : Tables]
  /\ error \in {"none", "return", "exit"}

\* A variable means what dynamic scoping says, whatever saves and restores the
\* flat table went through, and however a function or a subshell ended.
ImplementsDynamicScope == Scope!Spec

\* Expansion reads the typed table first, every command writes the flat one: they
\* agree, and $x shows no value nobody gave x in this scope, unless unset took
\* away half of a local.
TypedAgrees ==
  (Does("unset") /\ Does("local")) \/ \A n \in Names : sh.typed[n] \in {Unset, sh.env[n]}

\* Every frame belongs to a function that is running: whatever way a function
\* ended, once its error has been caught the frame is gone and the names it saved
\* have their outer values ("the frame restore in restore_function_locals puts
\* the saved outer value back", declare_local.rs).
FramesBalanced ==
  error = "none" => FunctionDepth = Cardinality({i \in DOMAIN control : Kind(i) = "function"})

\* Frames are balanced in every script whose DEBUG and RETURN traps do not end
\* in an error: return, exit, nested subshells and eval take down what they pass.
BalancedWithoutTraps == Does("trap") \/ FramesBalanced

\* Scripts whose frames may keep a temporary value: a trap leaves a frame, unset
\* takes away half of a local, local under eval saves what eval assigned.
KeepsTemporaries == Does("local") /\ (Does("trap") \/ Does("unset") \/ Does("local-in-eval"))

\* "Temporary assignment words must not outlive the command, even in the typed
\* owner": with none in force, no table and no frame holds such a value.
TemporariesGone ==
  ~Under("prefix") /\ ~KeepsTemporaries =>
    \A n \in Names : /\ {sh.env[n], sh.typed[n], sh.penv[n]} \cap Temporary = {}
                     /\ ChildValue(sh, n) \notin Temporary
                     /\ \A i \in DOMAIN scopes : n \in DOMAIN scopes[i].vars =>
                          {scopes[i].vars[n].value, scopes[i].typed[n]} \cap Temporary = {}

\* What a function or a command put in place is taken down when it ends, on
\* whatever way: no frame stays and no temporary value does.
TakenDown == BalancedWithoutTraps /\ TemporariesGone

\* Scripts that may leave the tables and the environment apart: declare -g does
\* not reach the environment, a trap or an unset leaves a local's hiding in force,
\* and what a temporary assignment puts back is the whole list of exported names,
\* but no value for those that export -n or unset took off it.
MisleadsChildren ==
  \/ Does("global")
  \/ (Does("local") /\ (Does("trap") \/ Does("unset")))
  \/ ((Does("export-n") \/ Does("unset")) /\ (Does("prefix") \/ Does("eval")))

\* At the top level children get the values the shell has: nothing a function
\* hid is left in force, and the process environment is that of the table.
ChildrenSeeTheTable ==
  control = <<>> /\ ~MisleadsChildren =>
    \A n \in sh.exported : ChildValue(sh, n) = sh.env[n] /\ sh.penv[n] = sh.env[n]

\* The four places a variable is kept in - the flat table, the typed one, the
\* process environment and what a function hid - agree whatever ends a frame.
TablesAgree == TypeOK /\ TypedAgrees /\ ChildrenSeeTheTable

\* A readonly variable of the shell stays so and keeps its value through every
\* call, local of its name, temporary assignment and unwinding.
KeepsReadonly == \A n \in Bindings[1].ro : /\ n \in Bindings'[1].ro
                                           /\ Bindings'[1].val[n] = Bindings[1].val[n]
ReadonlyGlobalFixed == [][KeepsReadonly]_vars
===============================================================================
