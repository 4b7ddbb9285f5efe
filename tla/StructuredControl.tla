-------------------------- MODULE StructuredControl ---------------------------
(***************************************************************************)
(* What a script may count on when it leaves a construct: break, continue, *)
(* return and exit each take it, in one step, to one place that the        *)
(* nesting of the running constructs determines.  ControlFlow unwinds the  *)
(* executor's stack call by call, with counters, and is shown to implement *)
(* this module.                                                            *)
(***************************************************************************)
EXTENDS Naturals, SequencesExt

VARIABLE running    \* the constructs running, innermost last

Constructs == {"function", "loop",  \* a while or until loop in its condition
               "for",               \* a for loop, in its body
               "block",             \* one that takes no part in this
               "list",              \* one that makes a status of an exit
               "trap",              \* an ERR handler: nothing gets out of it
               "shell"}             \* a subshell, or the shell itself
Kinds == Constructs \cup {"body",      \* a while or until loop in its body
                          "leaving",   \* a shell that runs no more commands
                          "last"}      \* its EXIT handler

Where(r, kinds) == {i \in DOMAIN r : r[i] \in kinds}
Innermost(r, kinds) == Max({0} \cup Where(r, kinds))
Upto(r, i) == SubSeq(r, 1, i)

\* The loops a break can leave: those of this shell, and of this ERR handler.
Wall(r) == Innermost(r, {"shell", "leaving", "trap"})
Loops(r) == {i \in Where(r, {"body", "for"}) : i > Wall(r)}
LoopOut(r, n) == CHOOSE i \in Loops(r) : Cardinality({j \in Loops(r) : j >= i}) = n

BreakTo(r, n) == IF n <= Cardinality(Loops(r)) THEN Upto(r, LoopOut(r, n) - 1)
                                               ELSE Upto(r, Wall(r) - 1)
ContinueTo(r, n) ==
  IF n > Cardinality(Loops(r)) THEN Upto(r, Wall(r) - 1)
  ELSE LET i == LoopOut(r, n)
       IN  IF r[i] = "for" THEN Upto(r, i) ELSE Append(Upto(r, i - 1), "loop")
ReturnTo(r) == Upto(r, Innermost(r, {"function", "trap"}) - 1)
ExitTo(r) ==
  LET i == Innermost(r, {"list", "trap", "shell", "last"})
  IN  IF i > 0 /\ r[i] = "shell" THEN Append(Upto(r, i - 1), "leaving") ELSE Upto(r, i - 1)

\* A shell on its way out runs nothing but its EXIT handler.
RunsCommands == running # <<>> /\ Last(running) # "leaving"

Init == running = <<"shell">>
Start(k) == RunsCommands /\ running' = Append(running, k)
Iterate == RunsCommands /\ \/ Last(running) = "loop" /\ running' = Append(Front(running), "body")
                           \/ Last(running) = "body" /\ running' = Append(Front(running), "loop")
Leave == /\ running # <<>>
         /\ Last(running) \notin {"shell", "body"}
         /\ running' = Front(running)
Finish == /\ RunsCommands /\ Last(running) = "shell"
          /\ running' = Append(Front(running), "leaving")
StartLast == /\ running # <<>> /\ Last(running) = "leaving"
             /\ running' = Append(running, "last")

Break(n) == RunsCommands /\ running' = BreakTo(running, n)
Continue(n) == RunsCommands /\ running' = ContinueTo(running, n)
\* A break for more loops than the ERR handler has ends the handler.
Abandon == /\ RunsCommands
           /\ Wall(running) > 0 /\ running[Wall(running)] = "trap"
           /\ running' = Upto(running, Wall(running) - 1)
Return == /\ RunsCommands
          /\ Where(running, {"function"}) # {}
          /\ running' = ReturnTo(running)
Exit == RunsCommands /\ running' = ExitTo(running)

Next == \/ \E k \in Constructs : Start(k)
        \/ Iterate
        \/ Leave
        \/ Finish
        \/ StartLast
        \/ \E n \in 1..Cardinality(Loops(running)) : Break(n) \/ Continue(n)
        \/ Abandon
        \/ Return
        \/ Exit

Spec == Init /\ [][Next]_running
===============================================================================
