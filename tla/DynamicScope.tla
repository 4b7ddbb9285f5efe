----------------------------- MODULE DynamicScope -----------------------------
(***************************************************************************)
(* What the shell promises about the value of a variable: dynamic scope.   *)
(* Bindings live on a stack of frames: the shell's own frame, a frame per  *)
(* running function, one per temporary assignment (x=1 command) and one    *)
(* per subshell, which starts as a copy of everything it can see.  A name  *)
(* means its innermost binding; ending a frame reveals what it hid.        *)
(* FunctionFrames keeps one flat table and saved values instead, and is    *)
(* shown to implement this module.                                         *)
(***************************************************************************)
EXTENDS Naturals, SequencesExt

CONSTANTS Names,    \* variables
          Values,   \* their values
          Unset     \* what an unset variable has for a value

VARIABLE frames     \* [kind, val: some of Names -> value, ro: readonly names]

Kinds == {"shell", "function", "prefix", "subshell"}
Frame(kind, val, ro) == [kind |-> kind, val |-> val, ro |-> ro]
Only(n, v) == [m \in {n} |-> v]
With(f, n, v) == [m \in (DOMAIN f) \cup {n} |-> IF m = n THEN v ELSE f[m]]

\* The frame a name's value is in, and the one its attributes are in: a
\* temporary assignment gives a value and no attributes.
Holders(n) == {i \in DOMAIN frames : n \in DOMAIN frames[i].val}
Innermost(n) == Max(Holders(n))
Owner(n) == Max({i \in Holders(n) : frames[i].kind # "prefix"})
Value(n) == frames[Innermost(n)].val[n]
IsReadonly(n) == n \in frames[Owner(n)].ro
Function == {i \in DOMAIN frames : frames[i].kind = "function"}

Bind(i, n, v) == [frames EXCEPT ![i].val = With(@, n, v)]
Unbind(i, n) ==
  [frames EXCEPT ![i].val = [m \in (DOMAIN @) \ {n} |-> @[m]], ![i].ro = @ \ {n}]

Init == \E val \in [Names -> Values \cup {Unset}] :
          frames = <<Frame("shell", val, {})>>

Assign(n, v) == /\ ~IsReadonly(n)
                /\ frames' = Bind(Innermost(n), n, v)

\* readonly n, and readonly n=v.
Protect(n) == frames' = [frames EXCEPT ![Owner(n)].ro = @ \cup {n}]
AssignAndProtect(n, v) ==
  /\ ~IsReadonly(n)
  /\ frames' = [Bind(Innermost(n), n, v) EXCEPT ![Owner(n)].ro = @ \cup {n}]

\* unset: a binding of an outer function goes away and reveals what it hid;
\* a binding of the running function, or of no function, stays and is unset.
UnsetName(n) ==
  /\ ~IsReadonly(n)
  /\ LET outer == {i \in Holders(n) \cap Function : i # Max(Function)}
         hidden == \E i \in outer : \A j \in Holders(n) : j <= i
     IN  frames' = IF hidden THEN Unbind(Innermost(n), n)
                              ELSE Bind(Innermost(n), n, Unset)

\* local n, local n=v: a new binding in the running function.
Local(n, v) ==
  /\ Function # {}
  /\ frames' = [Bind(Max(Function), n, v) EXCEPT ![Max(Function)].ro = @ \ {n}]

\* declare -g n=v: the shell's own binding.
DeclareGlobal(n, v) == /\ n \notin frames[1].ro
                       /\ frames' = Bind(1, n, v)

Call == frames' = Append(frames, Frame("function", <<>>, {}))
Prefix(n, v) ==
  frames' = Append(frames, Frame("prefix", Only(n, IF IsReadonly(n) THEN Value(n) ELSE v), {}))
Subshell ==
  frames' = Append(frames, Frame("subshell", [n \in Names |-> Value(n)],
                                 {n \in Names : IsReadonly(n)}))
Leave == /\ Len(frames) > 1
         /\ frames' = Front(frames)

Next == \/ \E n \in Names : \/ Protect(n)
                            \/ UnsetName(n)
                            \/ Local(n, Unset)
                            \/ \E v \in Values : \/ Assign(n, v)
                                                 \/ AssignAndProtect(n, v)
                                                 \/ Local(n, v)
                                                 \/ DeclareGlobal(n, v)
                                                 \/ Prefix(n, v)
        \/ Call
        \/ Subshell
        \/ Leave

Spec == Init /\ [][Next]_frames
===============================================================================
