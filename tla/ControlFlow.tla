------------------------------ MODULE ControlFlow ------------------------------
(***************************************************************************)
(* How the executor leaves the constructs of a script: exit, return, break *)
(* and continue are errors (ExecuteError) that unwind the Rust stack, with *)
(* counters in the Executor that every construct on the way must put back; *)
(* each kind of command has an arm in the loop over a list that decides    *)
(* which of them end there.  The scripts are nondeterministic: any nesting *)
(* of constructs, any command next, any status.  Word-expansion failures,  *)
(* sourced files and the DEBUG and RETURN traps are left out.              *)
(***************************************************************************)
EXTENDS Integers, SequencesExt

CONSTANTS Scripts,    \* the sets of things a script does, see Does
          MaxDepth,   \* bound: constructs running at once
          MaxLevel,   \* bound: the argument of break and continue
          UsizeMax    \* what 0 - 1 is in a usize counter (a panic in a debug build)

ASSUME BoundAssumption == MaxDepth \in Nat \ {0} /\ MaxLevel \in Nat \ {0}
ASSUME UsizeAssumption == UsizeMax \in Nat /\ UsizeMax > MaxDepth

VARIABLES stack,     \* the constructs running, innermost last, with their locals
          ex,        \* the fields of the Executor
          result,    \* the Result on its way out of the last command, if any
          leaving,   \* the shells in stack that were told to exit (not in the code)
          features   \* what this script does (no state of the code)

vars == <<stack, ex, result, leaving, features>>

(***************************************************************************)
(* A script does only what its features allow: the kinds of constructs,    *)
(* break, return, exit, errexit, errtrace, ERR and EXIT (traps),           *)
(* handler-jumps (break and return in a handler), redirect-fails.          *)
(***************************************************************************)
Does(f) == f \in features

-------------------------------------------------------------------------------
(* Results, constructs and counters *)

Running == [kind |-> "running"]                     \* a list goes on
Ok(checked) == [kind |-> "ok", errexit |-> checked] \* Ok(()), errexit to be looked at or not
ExitCode(s) == [kind |-> "exit", status |-> s]
Return(s) == [kind |-> "return", status |-> s]
Jump(kind, n) == [kind |-> kind, level |-> n]       \* Break, Continue

Element(kind, phase) == [kind |-> kind, phase |-> phase]
Loop(phase, last) == [kind |-> "loop", phase |-> phase, last |-> last]
Handler(trap, s, for) == [kind |-> trap, phase |-> "commands", status |-> s, for |-> for]
Shell(phase, was) == [kind |-> "shell", phase |-> phase, was |-> was]

Top == Last(stack)
Below == Front(stack)

Plus1(n) == n + 1
Minus1(n) == IF n = 0 THEN UsizeMax ELSE n - 1

\* with_errexit_suppressed is around conditions, the members of an and-or list
\* but the last, and inverted commands.
Suppresses(el) == \/ el.kind \in {"if", "loop"} /\ el.phase = "condition"
                  \/ el.kind = "and-or" /\ el.phase = "member"
                  \/ el.kind = "invert"
IsLoopBody(el) == el.kind \in {"loop", "for"} /\ el.phase = "commands"

Counted(e, el) ==
  [e EXCEPT !.suppress_errexit = IF Suppresses(el) THEN Plus1(@) ELSE @,
            !.loop_depth = IF IsLoopBody(el) THEN Plus1(@) ELSE @,
            !.function_depth = IF el.kind = "function" THEN Plus1(@) ELSE @]
Uncounted_OnlyIfOk(e, el) ==         \* faulty: ? before the counter is put back
  [e EXCEPT !.suppress_errexit = IF Suppresses(el) /\ result = Running THEN Minus1(@) ELSE @,
            !.loop_depth = IF IsLoopBody(el) THEN Minus1(@) ELSE @,
            !.function_depth = IF el.kind = "function" THEN Minus1(@) ELSE @]
Uncounted(e, el) ==
  [e EXCEPT !.suppress_errexit = IF Suppresses(el) THEN Minus1(@) ELSE @,
            !.loop_depth = IF IsLoopBody(el) THEN Minus1(@) ELSE @,
            !.function_depth = IF el.kind = "function" THEN Minus1(@) ELSE @]

\* What a subshell starts with, and what its end puts back: the options and
\* traps are in env_vars; suppress_errexit and function_depth are nobody's.
Saved(e) == [subshell_depth |-> e.subshell_depth, loop_depth |-> e.loop_depth,
             traps |-> e.traps, errexit |-> e.errexit]
InSubshell(e) == [e EXCEPT !.subshell_depth = Plus1(@), !.loop_depth = 0, !.traps = {}]
Restored(e, was) ==
  [e EXCEPT !.subshell_depth = was.subshell_depth, !.loop_depth = was.loop_depth,
            !.traps = was.traps, !.errexit = was.errexit]

ErrexitActs(e) == e.errexit /\ e.suppress_errexit = 0 /\ e.exit_code # 0
ErrTrapActs(e) == /\ "ERR" \in e.traps /\ e.exit_code # 0 /\ e.suppress_errexit = 0
                  /\ e.function_depth = 0 \/ Does("errtrace")

-------------------------------------------------------------------------------
(* Steps *)

Goes(stk, e, r) == stack' = stk /\ ex' = e /\ result' = r

\* A simple command gives r; execute_materialized_command looks at errexit first.
Gives(stk, e, r) == Goes(stk, e, IF ErrexitActs(e) THEN ExitCode(e.exit_code) ELSE r)

\* An arm of the list hands an error on, unless it is a break with no loop.
HandsOn(stk, e, r, arm) ==
  IF r.kind \in {"break", "continue"} /\ e.loop_depth = 0 /\ arm # "invert"
  THEN Goes(stk, [e EXCEPT !.exit_code = 0], Ok(FALSE))
  ELSE Goes(stk, e, r)

InCommands == result = Running /\ stack # <<>> /\ Top.phase \notin {"exit", "done"}
Unwinding == stack # <<>> /\ result.kind \in {"exit", "return", "break", "continue"}
JumpsAllowed == Does("handler-jumps") \/ \A i \in DOMAIN stack : stack[i].kind \notin {"ERR", "EXIT"}

Init ==
  /\ features \in Scripts
  /\ ex = [exit_code |-> 0, loop_depth |-> 0, function_depth |-> 0, subshell_depth |-> 0,
           suppress_errexit |-> 0, errexit |-> FALSE, traps |-> {}]
  /\ stack = <<Shell("commands", Saved(ex))>>
  /\ result = Running
  /\ leaving = {}

-------------------------------------------------------------------------------
(* Simple commands *)

Simple(s) == /\ InCommands
             /\ Goes(stack, [ex EXCEPT !.exit_code = s], Ok(TRUE))

SetErrexit(on) == /\ InCommands /\ Does("errexit")
                  /\ Goes(stack, [ex EXCEPT !.exit_code = 0, !.errexit = on], Ok(TRUE))

SetTrap(trap) == /\ InCommands /\ Does(trap)
                 /\ Goes(stack, [ex EXCEPT !.exit_code = 0, !.traps = @ \cup {trap}], Ok(TRUE))

\* execute_loop_control: the status is not set before the error is given.
BreakLevel_FromZero(n) == n - 1      \* faulty: the index of the loop, not how many
BreakLevel(n) == IF n < ex.loop_depth THEN n ELSE ex.loop_depth
LoopControl(kind, n) ==
  /\ InCommands /\ Does("break") /\ JumpsAllowed
  /\ IF ex.loop_depth = 0 THEN Goes(stack, [ex EXCEPT !.exit_code = 0], Ok(TRUE))
                          ELSE Gives(stack, ex, Jump(kind, BreakLevel(n)))

ReturnFrom(s) ==
  /\ InCommands /\ Does("return") /\ JumpsAllowed
  /\ ex.function_depth > 0
  /\ Gives(stack, ex, Return(s))

\* exit runs the EXIT handler, once, and then gives the error.
ExitShell(s) ==
  /\ InCommands /\ Does("exit")
  /\ LET e == [ex EXCEPT !.exit_code = s, !.traps = @ \ {"EXIT"}]
     IN  IF "EXIT" \in ex.traps
         THEN Goes(Append(stack, Handler("EXIT", s, "exit")), e, Running)
         ELSE Gives(stack, e, ExitCode(s))

\* The end of a command in its list: errexit, then the ERR handler.
Settle ==
  /\ stack # <<>> /\ result.kind = "ok"
  /\ IF result.errexit /\ ErrexitActs(ex) THEN Goes(stack, ex, ExitCode(ex.exit_code))
     ELSE IF ErrTrapActs(ex)
          THEN Goes(Append(stack, Handler("ERR", ex.exit_code, "list")), ex, Running)
     ELSE Goes(stack, ex, Running)

-------------------------------------------------------------------------------
(* Constructs: their start and the end of their lists *)

Enter(el) == /\ InCommands /\ Does(el.kind)
             /\ Goes(Append(stack, el), Counted(ex, el), Running)

EnterSubshell == /\ InCommands /\ Does("shell")
                 /\ Goes(Append(stack, Shell("commands", Saved(ex))), InSubshell(ex), Running)

\* apply_command_output_redirects fails and its ? leaves the subshell's entry;
\* the list reports the error as status 1.
SubshellRedirectFails ==
  /\ InCommands /\ Does("redirect-fails") /\ ex.subshell_depth < MaxDepth
  /\ Goes(stack, [InSubshell(ex) EXCEPT !.exit_code = 1], Ok(TRUE))

OnTop(kind, phase) == InCommands /\ Top.kind = kind /\ Top.phase = phase
AtStatus(s) == [Uncounted(ex, Top) EXCEPT !.exit_code = s]
Phase(el) == Goes(Append(Below, el), Counted(Uncounted(ex, Top), el), Running)

ConditionEnds ==
  \/ /\ OnTop("if", "condition")
     /\ \/ Phase(Element("if", "commands"))                       \* then, or else
        \/ ex.exit_code # 0 /\ Goes(Below, AtStatus(0), Ok(FALSE)) \* no else
  \/ /\ OnTop("loop", "condition")
     /\ \/ Phase(Loop("commands", Top.last))
        \/ Goes(Below, AtStatus(IF ex.exit_code # 0 THEN Top.last ELSE 0), Ok(FALSE))

BodyEnds ==
  \/ OnTop("loop", "commands") /\ Phase(Loop("condition", ex.exit_code))
  \/ OnTop("for", "commands") /\ Phase(Top)
  \/ OnTop("for", "commands") /\ Goes(Below, AtStatus(ex.exit_code), Ok(FALSE))
  \/ OnTop("if", "commands") /\ Goes(Below, ex, Ok(FALSE))
  \/ OnTop("function", "commands") /\ Goes(Below, AtStatus(ex.exit_code), Ok(TRUE))

\* The arms of these kinds of command go to the next without looking at errexit.
ListEnds ==
  \/ OnTop("and-or", "member") /\ \E phase \in {"member", "last"} : Phase(Element("and-or", phase))
  \/ OnTop("and-or", "member") /\ Goes(Below, AtStatus(ex.exit_code), Running)
  \/ OnTop("and-or", "last") /\ Goes(Below, ex, Running)
  \/ OnTop("invert", "commands") /\ Goes(Below, AtStatus(1 - ex.exit_code), Running)
  \/ \E kind \in {"time", "group"} : OnTop(kind, "commands") /\ Goes(Below, ex, Running)

HandlerEnds ==
  \/ OnTop("ERR", "commands") /\ Goes(Below, AtStatus(Top.status), Running)
  \/ /\ OnTop("EXIT", "commands")
     /\ IF Top.for = "exit" THEN Gives(Below, AtStatus(Top.status), ExitCode(Top.status))
                            ELSE Goes(Below, AtStatus(Top.status), Running)

ShellEnds == /\ OnTop("shell", "commands")
             /\ Goes(Append(Below, Shell("exit", Top.was)), ex, Running)

\* run_exit_trap_for_status, for a subshell and from finish_shell.
RunExitTrap ==
  /\ stack # <<>> /\ Top.kind = "shell" /\ Top.phase = "exit" /\ "EXIT" \in ex.traps
  /\ Goes(Append(Below, Shell("done", Top.was)) \o <<Handler("EXIT", ex.exit_code, "shell")>>,
          [ex EXCEPT !.traps = @ \ {"EXIT"}], Running)

LeaveShell ==
  /\ result = Running /\ stack # <<>> /\ Top.kind = "shell"
  /\ Top.phase = "done" \/ (Top.phase = "exit" /\ "EXIT" \notin ex.traps)
  /\ IF Len(stack) = 1 THEN Goes(<<>>, ex, Running)
                       ELSE Goes(Below, Restored(ex, Top.was), Ok(TRUE))

-------------------------------------------------------------------------------
(* Errors on their way out *)

CaughtByLoop ==
  /\ Unwinding /\ IsLoopBody(Top) /\ result.kind \in {"break", "continue"} /\ result.level <= 1
  /\ IF result.kind = "break" THEN Goes(Below, AtStatus(0), Ok(FALSE))
     ELSE \/ /\ Top.kind = "loop"
             /\ Goes(Append(Below, Loop("condition", Top.last)),
                     Counted(AtStatus(0), Loop("condition", Top.last)), Running)
          \/ Top.kind = "for" /\ Goes(stack, [ex EXCEPT !.exit_code = 0], Running)
          \/ Top.kind = "for" /\ Goes(Below, AtStatus(0), Ok(FALSE))

CaughtByFunction == /\ Unwinding /\ Top.kind = "function" /\ result.kind = "return"
                    /\ Goes(Below, AtStatus(result.status), Ok(TRUE))

\* The arms that take an exit for the status of the command; the arm of { }
\* then executes the command once more, as one without words.
TakesExit_FunctionsToo(el) == el.kind \in {"and-or", "invert", "time", "group", "function"}  \* faulty
TakesExit(el) == el.kind \in {"and-or", "invert", "time", "group"}
ExitTaken == /\ Unwinding /\ TakesExit(Top) /\ result.kind = "exit"
             /\ Goes(Below, AtStatus(IF Top.kind = "group" THEN 0 ELSE result.status), Running)

\* let _ = self.execute_ast(..): nothing gets out of an ERR handler.
ErrHandlerAbandoned == /\ Unwinding /\ Top.kind = "ERR"
                       /\ Goes(Below, AtStatus(Top.status), Running)

ExitHandlerExits ==
  /\ Unwinding /\ Top.kind = "EXIT" /\ result.kind = "exit"
  /\ LET e == AtStatus(result.status)
     IN  IF Top.for = "exit" THEN Gives(Below, e, result) ELSE Goes(Below, e, Running)

ShellExits == /\ Unwinding /\ Top.kind = "shell" /\ Top.phase = "commands" /\ result.kind = "exit"
              /\ Goes(Append(Below, Shell("exit", Top.was)), [ex EXCEPT !.exit_code = result.status], Running)

\* Any other error leaves a subshell, which is put back, and goes on.
SubshellAbandoned ==
  /\ Unwinding /\ Top.kind = "shell" /\ Len(stack) > 1 /\ result.kind # "exit"
  /\ HandsOn(Below, Restored(ex, Top.was), result, "shell")

\* One loop fewer to leave.
Outwards_SameLevel(el, r) == r       \* faulty
Outwards(el, r) == IF IsLoopBody(el) /\ r.kind \in {"break", "continue"}
                   THEN [r EXCEPT !.level = @ - 1] ELSE r
PassesOn ==
  /\ Unwinding /\ Top.kind \notin {"shell", "ERR"}
  /\ ~(TakesExit(Top) /\ result.kind = "exit") /\ ~(Top.kind = "EXIT" /\ result.kind = "exit")
  /\ ~(Top.kind = "function" /\ result.kind = "return")
  /\ IsLoopBody(Top) /\ result.kind \in {"break", "continue"} => result.level > 1
  /\ LET r == Outwards(Top, result)
         e == Uncounted(ex, Top)
     IN  IF Top.kind = "function" \/ (Top.kind = "EXIT" /\ Top.for = "exit")
         THEN Gives(Below, e, r)
         ELSE HandsOn(Below, e, r, Top.kind)

-------------------------------------------------------------------------------

Shells(stk) == {i \in DOMAIN stk : stk[i].kind = "shell"}
OnTheWayOut(stk, r) == r.kind = "exit" \/ (stk # <<>> /\ Last(stk).kind = "EXIT")

Steps ==
  \/ \E s \in 0..1 : Simple(s) \/ ReturnFrom(s) \/ ExitShell(s)
  \/ \E on \in BOOLEAN : SetErrexit(on)
  \/ \E trap \in {"ERR", "EXIT"} : SetTrap(trap)
  \/ \E kind \in {"break", "continue"}, n \in 1..MaxLevel : LoopControl(kind, n)
  \/ Settle
  \/ \E kind \in {"for", "function", "invert", "time", "group"} : Enter(Element(kind, "commands"))
  \/ Enter(Element("if", "condition"))
  \/ Enter(Loop("condition", 0))
  \/ Enter(Element("and-or", "member"))
  \/ EnterSubshell
  \/ SubshellRedirectFails
  \/ ConditionEnds \/ BodyEnds \/ ListEnds \/ HandlerEnds
  \/ ShellEnds \/ RunExitTrap \/ LeaveShell
  \/ CaughtByLoop \/ CaughtByFunction \/ ExitTaken \/ ErrHandlerAbandoned
  \/ ExitHandlerExits \/ ShellExits \/ SubshellAbandoned \/ PassesOn

InnermostShell(stk) == {i \in Shells(stk) : \A j \in Shells(stk) : j <= i}

Next == /\ Steps
        /\ Len(stack') <= MaxDepth
        /\ UNCHANGED features
        /\ leaving' = (leaving \cap Shells(stack'))
                      \cup (IF OnTheWayOut(stack', result') THEN InnermostShell(stack') ELSE {})

Spec == Init /\ [][Next]_vars

-------------------------------------------------------------------------------
(* Properties *)

Status == 0..1
Elements ==
  {Element("if", p) : p \in {"condition", "commands"}}
  \cup {Element("and-or", p) : p \in {"member", "last"}}
  \cup {Element(k, "commands") : k \in {"for", "function", "invert", "time", "group"}}
  \cup {Loop(p, s) : p \in {"condition", "commands"}, s \in Status}
  \cup {Handler("ERR", 1, "list")}
  \cup {Handler("EXIT", s, for) : s \in Status, for \in {"exit", "shell"}}
Executor == [exit_code : Status, loop_depth : Nat, function_depth : Nat, subshell_depth : Nat,
             suppress_errexit : Nat, errexit : BOOLEAN, traps : SUBSET {"ERR", "EXIT"}]
Locals == [subshell_depth : Nat, loop_depth : Nat, traps : SUBSET {"ERR", "EXIT"}, errexit : BOOLEAN]
Results == {Running} \cup {Ok(c) : c \in BOOLEAN} \cup {ExitCode(s) : s \in Status}
           \cup {Return(s) : s \in Status}
           \cup {Jump(k, n) : k \in {"break", "continue"}, n \in 1..MaxLevel}

\* The fields have their types.
TypeOK ==
  /\ ex \in Executor /\ result \in Results /\ features \in Scripts
  /\ \A i \in DOMAIN stack :
       IF stack[i].kind = "shell"
       THEN stack[i].phase \in {"commands", "exit", "done"} /\ stack[i].was \in Locals
       ELSE stack[i] \in Elements
  /\ stack # <<>> => stack[1].kind = "shell"
  /\ leaving \subseteq Shells(stack)

\* What the counters count: the loop bodies of the shell that runs, all functions,
\* and all that suppresses errexit.
LoopBodies(stk) == {i \in DOMAIN stk : IsLoopBody(stk[i]) /\ \A j \in Shells(stk) : j < i}
Functions(stk) == {i \in DOMAIN stk : stk[i].kind = "function"}
Suppressors(stk) == {i \in DOMAIN stk : Suppresses(stk[i])}

\* Whatever unwinds (execute_ast's errors leave at every ?), loop_depth,
\* function_depth, subshell_depth and suppress_errexit count what is running:
\* errexit acts where it should, and break leaves as many loops as there are.
CountersMatchStack ==
  /\ ex.loop_depth = Cardinality(LoopBodies(stack))
  /\ ex.function_depth = Cardinality(Functions(stack))
  /\ ex.suppress_errexit = Cardinality(Suppressors(stack))
  /\ stack # <<>> => ex.subshell_depth + 1 = Cardinality(Shells(stack))

\* The list the shell itself runs is given nothing but exit: the break, continue
\* or return that would end the script with "Error" is always caught before.
JumpsLand == Len(stack) <= 1 => result.kind \in {"running", "ok", "exit"}

\* Every jump on its way has a place to go to, and the counters that decide
\* whether a break or an errexit acts are those of what is running, in every
\* script none of whose subshells has a redirection that fails: only there does
\* a ? leave between a counter's two assignments.
UnwindingSound == TypeOK /\ (Does("redirect-fails") \/ (CountersMatchStack /\ JumpsLand))

\* A shell told to exit runs nothing more but its EXIT handler.
ExitIsFinal == \A i \in leaving : \/ result.kind = "exit"
                                  \/ stack[i].phase \in {"exit", "done"}
                                  \/ \E j \in DOMAIN stack : j > i /\ stack[j].kind = "EXIT"

\* It holds of every script without the constructs whose arm in
\* execute_ast_inner takes an exit for a status, ERR handlers, and EXIT handlers
\* that break or return: no loop, function, condition, subshell or handler in
\* any nesting holds up an exit.
ExitIsFinalOtherwise ==
  ExitIsFinal \/ features \cap {"and-or", "invert", "time", "group", "ERR", "handler-jumps"} # {}

\* Each jump of the script is one step to the place its constructs determine;
\* the unwinding that takes it there is not seen.
AbstractKind(el) ==
  CASE el.kind = "shell" -> IF el.phase = "commands" THEN "shell" ELSE "leaving"
    [] el.kind = "loop" -> IF el.phase = "condition" THEN "loop" ELSE "body"
    [] el.kind = "if" -> "block"
    [] el.kind = "EXIT" -> IF el.for = "exit" THEN "block" ELSE "last"
    [] el.kind = "ERR" -> "trap"
    [] TakesExit(el) -> "list"
    [] OTHER -> el.kind
Kinds == [i \in DOMAIN stack |-> AbstractKind(stack[i])]
S == INSTANCE StructuredControl WITH running <- <<>>
Landing == CASE result.kind = "break" -> S!BreakTo(Kinds, result.level)
             [] result.kind = "continue" -> S!ContinueTo(Kinds, result.level)
             [] result.kind = "return" -> S!ReturnTo(Kinds)
             [] result.kind = "exit" -> S!ExitTo(Kinds)
             [] OTHER -> Kinds
Structured == INSTANCE StructuredControl WITH running <- Landing
ImplementsStructuredControl == Structured!Spec
===============================================================================
