------------------------------ MODULE Pipelines ------------------------------
(* Pipelines that are not all of host programs (pipeline_exec.rs,            *)
(* pipeline_stages.rs). The stages run one after the other, the whole output *)
(* of one being the input of the next. Some run on a copy of the executor,   *)
(* some in the shell itself; words are expanded in either. Two shortcuts come *)
(* first: a timed read after an echo is computed without running anything, and *)
(* host programs alone run at the same time (PipeProcesses).                 *)
(*                                                                           *)
(* A text is a sequence of tokens: the value of $x that an echo printed, what *)
(* a body printed, a count of words, a diagnostic, an empty line. The shell's *)
(* state is x, which $((x++)) in a word counts up, and y, which a body or a  *)
(* read assigns.                                                             *)
EXTENDS Naturals, Sequences, SequencesExt, FiniteSets

CONSTANTS
  Lines      \* for each line of the script, the pipelines it may be:
             \* [stages, lastpipe, pipefail, noclobber]

\* A stage: its kind, whether a word of it has $((x++)), what its command does,
\* whether |& follows it, and where > sends its output.
Kinds == {"echo", "cat", "builtin", "function", "group", "reader", "host", "missing", "wc -w"}
Deeds == {"ok", "fail", "set", "return", "exit", "nounset"}
Targets == {"none", "file", "bad path", "bad fd"}

\* The stages whose redirections are opened by the pipeline; those of the others
\* are opened by the command itself and left out.
Simple == {"echo", "cat", "host"}

CanDo(kind) ==
  CASE kind = "echo" -> {"ok", "nounset"}
    [] kind = "host" -> {"ok", "fail"}
    [] kind \in {"cat", "missing"} -> {"ok"}
    [] OTHER -> Deeds

Stages == {s \in [kind : Kinds, does : Deeds, bump : BOOLEAN, both : BOOLEAN, target : Targets] :
             s.does \in CanDo(s.kind) /\ (s.target # "none" => s.kind \in Simple)}

\* |& is between two stages; a redirection of the stage that lastpipe runs is
\* left out.
PipelineLines ==
  {l \in [stages : Seq(Stages), lastpipe : BOOLEAN, pipefail : BOOLEAN, noclobber : BOOLEAN] :
     /\ l.stages # << >> /\ ~Last(l.stages).both
     /\ l.lastpipe => Last(l.stages).target = "none"}

ASSUME LinesAssumption == Lines \in Seq(SUBSET PipelineLines)

VARIABLES
  line,         \* the pipeline running
  phase,        \* "idle", "timed", "hosts", "stages"
  k,            \* the stage to run
  text,         \* what the next stage reads
  statuses,     \* of the stages that have run
  shell,        \* the shell's [x, y]
  file,         \* the text of the file that > names, or NoFile
  shown,        \* what this pipeline wrote to the shell's output
  sink,         \* STDOUT_CAPTURE: where the shell's own output goes
  latch,        \* arithmetic_expansion_error
  pipestatus, code,   \* PIPESTATUS and $?
  outcome,      \* how the pipeline ended
  before,       \* the shell, file, sink and latch at its start
  causes,       \* what in it is not as in a shell with real pipes
  count         \* the pipelines run

pVars == <<line, phase, k, text, statuses, shell, file, shown, sink, latch,
           pipestatus, code, outcome, before, causes, count>>

\* The file: no text or one.
NoFile == << >>

Value(n) == <<"value", n>>
Words(n) == <<"words", n>>
Blank == <<"blank", 0>>
Did == <<"did", 0>>
Diag == <<"diagnostic", 0>>

-----------------------------------------------------------------------------
(* The reference: every stage in a shell of its own, the last one in the     *)
(* shell itself under lastpipe.                                              *)

Status(s) ==
  CASE s.kind = "missing" -> 127
    [] s.does = "nounset" -> 127
    [] s.does = "fail" -> 1
    [] s.does \in {"return", "exit"} -> 3
    [] OTHER -> 0

\* What a stage writes when it reads input and its $x has value n.
Written(s, n, input) ==
  IF s.does \notin {"ok", "set"} THEN << >>
  ELSE CASE s.kind = "echo" -> <<Value(n)>>
         [] s.kind \in {"cat", "host"} -> input
         [] s.kind = "wc -w" -> <<Words(Len(input))>>
         [] s.kind \in {"function", "group"} -> IF s.does = "ok" THEN <<Did>> ELSE << >>
         [] s.kind = "reader" -> IF input = << >> THEN <<Blank>> ELSE <<Head(input)>>
         [] OTHER -> << >>

Diagnostics(s) == IF s.kind = "missing" THEN <<Diag>> ELSE << >>

\* The state after the stage, for the shell that runs it.
After(s, sh) ==
  [x |-> IF s.bump THEN sh.x + 1 ELSE sh.x,
   y |-> IF s.does = "set" \/ s.kind = "reader" THEN 1 ELSE sh.y]

Refused(s, f, noclobber) ==
  \/ s.target \in {"bad path", "bad fd"}
  \/ s.target = "file" /\ noclobber /\ f # NoFile

\* One stage: acc has the text, file and statuses so far and the shell.
RefStage(l, acc, s) ==
  LET inShell == l.lastpipe /\ Len(acc.statuses) + 1 = Len(l.stages)
      out == Written(s, acc.shell.x, acc.text)
  IN  IF Refused(s, acc.file, l.noclobber)
      THEN [acc EXCEPT !.text = << >>, !.statuses = Append(@, 1)]
      ELSE [text |-> (IF s.target = "file" THEN << >> ELSE out)
                       \o (IF s.both THEN Diagnostics(s) ELSE << >>),
            file |-> IF s.target = "file" THEN <<out>> ELSE acc.file,
            statuses |-> Append(acc.statuses, Status(s)),
            shell |-> IF inShell THEN After(s, acc.shell) ELSE acc.shell]

\* After so many of the stages, and after all.
References(l, sh, f) ==
  LET after[i \in 0 .. Len(l.stages)] ==
        IF i = 0 THEN [text |-> << >>, file |-> f, statuses |-> << >>, shell |-> sh]
                 ELSE RefStage(l, after[i - 1], l.stages[i])
  IN  after
Reference(l, sh, f) == References(l, sh, f)[Len(l.stages)]

\* pipefail: the last status that is not 0.
PipelineExitStatus(sts, pipefail) ==
  LET failed == {i \in DOMAIN sts : sts[i] # 0}
  IN  IF ~pipefail THEN Last(sts)
      ELSE IF failed = {} THEN 0
      ELSE sts[CHOOSE i \in failed : \A j \in failed : j <= i]

-----------------------------------------------------------------------------
NoLine == [stages |-> << >>, lastpipe |-> FALSE, pipefail |-> FALSE, noclobber |-> FALSE]

PipelinesInit ==
  /\ line = NoLine /\ phase = "idle" /\ k = 1 /\ text = << >> /\ statuses = << >>
  /\ shell = [x |-> 0, y |-> 0] /\ file = NoFile /\ shown = << >>
  /\ sink = "output" /\ latch = FALSE /\ pipestatus = <<0>> /\ code = 0
  /\ outcome = "none" /\ causes = {} /\ count = 0
  /\ before = [shell |-> shell, file |-> file, sink |-> sink, latch |-> latch]

\* execute_pipeline_command: a pipeline of two stages tries the timed read.
Start ==
  /\ phase = "idle" /\ count < Len(Lines)
  /\ line' \in Lines[count + 1]
  /\ phase' = "timed" /\ k' = 1 /\ text' = << >> /\ statuses' = << >> /\ shown' = << >>
  /\ outcome' = "none" /\ causes' = {} /\ count' = count + 1
  /\ before' = [shell |-> shell, file |-> file, sink |-> sink, latch |-> latch]
  /\ UNCHANGED <<shell, file, sink, latch, pipestatus, code>>

Stage == line.stages[k]
Final == Last(line.stages)
IsLast == k = Len(line.stages)
InShell == IsLast /\ line.lastpipe

End(result, why) ==
  /\ phase' = "idle" /\ outcome' = result /\ causes' = causes \cup why

\* write_pipeline_output to the shell's own output, which a capture may hold.
Show(t) ==
  IF sink = "output" THEN shown' = t /\ UNCHANGED causes
  ELSE shown' = << >> /\ causes' = causes \cup {"swallowed"}

-----------------------------------------------------------------------------
(* execute_timed_read_pipeline.                                              *)

\* The echo whose words the shortcut expands, in the shell: the first stage, or
\* the body of it.
TimedSource(s) ==
  \/ s.kind = "echo" /\ s.target = "none"
  \/ s.kind = "group" /\ s.does = "nounset"

TimedTried == Len(line.stages) = 2 /\ TimedSource(line.stages[1])

\* What follows the read is simple enough: an assignment is not.
TimedTaken == TimedTried /\ line.stages[2].kind = "reader" /\ line.stages[2].does # "set"

TimedShell == After([line.stages[1] EXCEPT !.does = "ok"], shell)

NotTimed ==
  /\ phase = "timed" /\ ~TimedTried
  /\ phase' = "hosts"
  /\ UNCHANGED <<line, k, text, statuses, shell, file, shown, sink, latch,
                 pipestatus, code, outcome, before, causes, count>>

\* The words have been expanded when the second stage turns out not to do.
TimedGivenUp ==
  /\ phase = "timed" /\ TimedTried /\ ~TimedTaken
  /\ phase' = "hosts"
  /\ shell' = TimedShell
  /\ latch' = (latch \/ line.stages[1].does = "nounset")
  /\ causes' = IF shell' = shell THEN causes ELSE causes \cup {"words"}
  /\ UNCHANGED <<line, k, text, statuses, file, shown, sink, pipestatus, code,
                 outcome, before, count>>

\* Both stages are computed: no status but that of an unbound name is looked at.
TimedRead ==
  /\ phase = "timed" /\ TimedTaken
  /\ LET dead == line.stages[1].does = "nounset"
         token == <<IF dead THEN Blank ELSE Value(shell.x)>>
         out == IF line.stages[2].does = "ok" THEN token ELSE << >>
     IN  /\ shown' = IF sink = "output" THEN out ELSE << >>
         /\ pipestatus' = <<IF dead THEN 127 ELSE 0, 0>>
         /\ End("done", {"timed"} \cup (IF line.stages[1].bump THEN {"words"} ELSE {})
                                  \cup (IF sink = "output" THEN {} ELSE {"swallowed"}))
  /\ shell' = TimedShell /\ code' = 0
  /\ UNCHANGED <<line, k, text, statuses, file, sink, latch, before, count>>

(* execute_external_pipeline_concurrently, for programs that take what they  *)
(* read and all run to their end.                                            *)

AllHosts ==
  \A i \in DOMAIN line.stages :
    LET s == line.stages[i]
    IN  s.kind = "host" /\ ~s.both /\ s.target \in {"none", "file", "bad path"}
        /\ (s.target # "none" => i = Len(line.stages))

NotHosts ==
  /\ phase = "hosts" /\ ~AllHosts
  /\ phase' = "stages"
  /\ UNCHANGED <<line, k, text, statuses, shell, file, shown, sink, latch,
                 pipestatus, code, outcome, before, causes, count>>

\* The words are expanded by expand_word, which leaves the shell alone, those of
\* the last stage under lastpipe too.
HostsTogether ==
  /\ phase = "hosts" /\ AllHosts
  /\ phase' = "stages" /\ k' = Len(line.stages) + 1
  /\ statuses' = [i \in DOMAIN line.stages |-> Status(line.stages[i])]
  /\ causes' = IF line.lastpipe /\ Final.bump THEN {"words"} ELSE {}
  /\ UNCHANGED <<line, text, shell, file, shown, sink, latch, pipestatus, code,
                 outcome, before, count>>

-----------------------------------------------------------------------------
(* The loop of execute_simple_pipeline: one stage.                           *)

\* |& is taken for |.
Passed_OutputOnly(s, out) == out

\* The stage ran: its standard error goes on only after |&.
Passed(s, out) == out \o (IF s.both THEN Diagnostics(s) ELSE << >>)

\* The status of the command is kept.
Dead_Unnoticed(s, status) == status

\* restore_arithmetic_error_flags: an unbound name in the words is status 127.
Dead(s, status) == IF s.does = "nounset" THEN 127 ELSE status

Goes(out, status) ==
  /\ text' = Passed(Stage, out)
  /\ statuses' = Append(statuses, status)
  /\ k' = k + 1
  /\ UNCHANGED <<line, phase, shown, pipestatus, code, outcome, before, count>>

\* The stage runs in the shell itself.
StageShell_Shared(s) == After(s, shell)

\* What the copy of the executor keeps to itself.
StageShell(s) == shell

\* The redirections of a stage that is not compound are opened before it runs,
\* into nothing: only the output of the pipeline is written to its file.
Opens(s) == ~Refused(s, file, line.noclobber)

Opened(s) == IF s.target = "file" THEN << << >> >> ELSE file

Ready == phase = "stages" /\ k <= Len(line.stages) /\ ~InShell
ReadyFor(kinds) == Ready /\ Stage.kind \in kinds /\ (Stage.kind \in Simple => Opens(Stage))

\* The capture is not put back.
BadDescriptor_KeepsCapture ==
  /\ Ready /\ Stage.kind \in Simple /\ Stage.target = "bad fd"
  /\ Goes(<< >>, 1)
  /\ sink' = "stage"
  /\ UNCHANGED <<shell, file, latch, causes>>

\* command_output_redirect_fails says so: a bad descriptor.
BadDescriptor ==
  /\ Ready /\ Stage.kind \in Simple /\ Stage.target = "bad fd"
  /\ Goes(<< >>, 1)
  /\ UNCHANGED <<shell, file, sink, latch, causes>>

\* ... or returns the error, with the capture still in place.
BadPath ==
  /\ Ready /\ Stage.kind \in Simple
  /\ Stage.target # "bad fd" /\ ~Opens(Stage)
  /\ sink' = "stage" /\ code' = 1
  /\ End("failed", {"unopened"})
  /\ UNCHANGED <<line, k, text, statuses, shell, file, shown, latch, pipestatus, before, count>>

IgnoresTarget == IF Stage.target = "file" /\ ~IsLast THEN {"kept"} ELSE {}

\* echo and printf: computed here, the words expanded in the shell; what a word
\* that failed leaves is still written.
EchoStage ==
  /\ ReadyFor({"echo"})
  /\ LET dead == Stage.does = "nounset"
     IN  /\ Goes(<<IF dead THEN Blank ELSE Value(shell.x)>>, Dead(Stage, 0))
         /\ latch' = (latch /\ ~dead)
         /\ causes' = causes \cup IgnoresTarget
              \cup (IF dead THEN {"blank"} ELSE {})
              \cup (IF Stage.bump THEN {"words"} ELSE {})
  /\ shell' = After(Stage, shell) /\ file' = Opened(Stage)
  /\ UNCHANGED sink

\* cat, head, grep, tr, sed: computed here, by expand_word.
FilterStage ==
  /\ ReadyFor({"cat"})
  /\ Goes(text, 0)
  /\ file' = Opened(Stage) /\ causes' = causes \cup IgnoresTarget
  /\ UNCHANGED <<shell, sink, latch>>

\* execute_external_pipeline_stage: the arguments are expanded in the shell.
HostStage ==
  /\ ReadyFor({"host"})
  /\ Goes(Written(Stage, shell.x, text), Status(Stage))
  /\ shell' = After([Stage EXCEPT !.does = "ok"], shell) /\ file' = Opened(Stage)
  /\ causes' = causes \cup IgnoresTarget \cup (IF Stage.bump THEN {"words"} ELSE {})
  /\ UNCHANGED <<sink, latch>>

MissingStage ==
  /\ ReadyFor({"missing"})
  /\ Goes(<< >>, 127)
  /\ UNCHANGED <<shell, file, sink, latch, causes>>

\* wc knows -c and -l: another option is no stage at all.
UnknownOption ==
  /\ ReadyFor({"wc -w"})
  /\ code' = 1
  /\ End("failed", {"unknown"})
  /\ UNCHANGED <<line, k, text, statuses, shell, file, shown, sink, latch,
                 pipestatus, before, count>>

\* execute_builtin_pipeline_stage, execute_function_pipeline_stage and
\* execute_compound_pipeline_stage: a copy of the executor; exit ends the copy.
OnCopy == {"builtin", "function", "group", "reader"}

CopiedStage ==
  /\ ReadyFor(OnCopy)
  /\ Stage.does # "return" \/ Stage.kind = "function"
  /\ Goes(Written(Stage, shell.x, text), Status(Stage))
  /\ shell' = StageShell(Stage)
  /\ UNCHANGED <<file, sink, latch, causes>>

\* return in a copy is an error like any other: the function around it ends.
ReturnOutOfStage ==
  /\ ReadyFor(OnCopy \ {"function"}) /\ Stage.does = "return"
  /\ code' = 3
  /\ End("returned", {"returned"})
  /\ UNCHANGED <<line, k, text, statuses, shell, file, shown, sink, latch,
                 pipestatus, before, count>>

\* execute_lastpipe_stage: in the shell, with its output captured.
LastpipeStage ==
  /\ phase = "stages" /\ k <= Len(line.stages) /\ InShell
  /\ shell' = After(Stage, shell)
  /\ IF Stage.does \in {"exit", "return", "nounset"} /\ Stage.kind # "function"
     THEN /\ code' = Status(Stage)
          /\ End(IF Stage.does = "return" THEN "returned" ELSE "exited", {})
          /\ UNCHANGED <<line, k, text, statuses, shown, pipestatus, before, count>>
     ELSE /\ Goes(Written(Stage, shell.x, text), Status(Stage))
          /\ UNCHANGED causes
  /\ UNCHANGED <<file, sink, latch>>

-----------------------------------------------------------------------------
(* After the last stage: the output is written, the statuses recorded.       *)

\* The list is emptied for the next pipeline.
Recorded_Cleared ==
  /\ code' = PipelineExitStatus(statuses, line.pipefail)
  /\ pipestatus' = << >>

Done == phase = "stages" /\ k > Len(line.stages)

Recorded ==
  /\ code' = PipelineExitStatus(statuses, line.pipefail)
  /\ pipestatus' = statuses

WriteOutput ==
  /\ Done /\ Final.target \notin {"file", "bad path"}
  /\ Show(text) /\ Recorded
  /\ phase' = "idle" /\ outcome' = "done"
  /\ UNCHANGED <<line, k, text, statuses, shell, file, sink, latch, before, count>>

WriteFile ==
  /\ Done /\ Final.target = "file" /\ Opens(Final)
  /\ file' = <<text>>
  /\ Recorded
  /\ End("done", {})
  /\ UNCHANGED <<line, k, text, statuses, shell, shown, sink, latch, before, count>>

\* The file cannot be created, or noclobber finds the one the stage itself made.
WriteFails ==
  /\ Done
  /\ Final.target \in {"file", "bad path"} /\ ~Opens(Final)
  /\ code' = 1
  /\ End("failed", {"unwritten"})
  /\ UNCHANGED <<line, k, text, statuses, shell, file, shown, sink, latch,
                 pipestatus, before, count>>

PipelinesNext ==
  \/ Start \/ NotTimed \/ TimedGivenUp \/ TimedRead \/ NotHosts \/ HostsTogether
  \/ BadDescriptor \/ BadPath \/ EchoStage \/ FilterStage \/ HostStage
  \/ MissingStage \/ UnknownOption \/ CopiedStage \/ ReturnOutOfStage
  \/ LastpipeStage \/ WriteOutput \/ WriteFile \/ WriteFails

PipelinesSpec == PipelinesInit /\ [][PipelinesNext]_pVars

-----------------------------------------------------------------------------
(* Properties.                                                               *)

\* Every variable has its type (the type invariant).
PipelinesTypeOK ==
  /\ phase \in {"idle", "timed", "hosts", "stages"} /\ k \in 1 .. Len(line.stages) + 1
  /\ shell.x \in Nat /\ shell.y \in {0, 1}
  /\ sink \in {"output", "stage"} /\ latch \in BOOLEAN
  /\ \A i \in DOMAIN statuses : statuses[i] \in {0, 1, 3, 127}
  /\ outcome \in {"none", "done", "failed", "returned", "exited"}
  /\ (outcome # "none") <=> (phase = "idle" /\ count > 0)
  /\ pipestatus # << >>

AtEnd == phase = "idle" /\ count > 0
Promised == Reference(line, before.shell, before.file)

\* A pipeline changes a variable of the shell only where the last stage runs in
\* it: a body never leaks, and the words leak only where the code expands them in
\* the shell (and the timed read, which leaves out what lastpipe keeps).
ShellIsolated ==
  AtEnd /\ shell # Promised.shell =>
    \/ "words" \in causes
    \/ line.lastpipe /\ ("timed" \in causes \/ outcome \in {"failed", "returned"})

\* PIPESTATUS and $? are those of the stages, one each, however they were run:
\* but for a timed read, and a pipeline that ended before its stages did.
StatusesTheirOwn ==
  AtEnd /\ outcome # "exited" =>
    \/ /\ pipestatus = Promised.statuses
       /\ code = PipelineExitStatus(pipestatus, line.pipefail)
    \/ "timed" \in causes
    \/ outcome = "failed" /\ causes \cap {"unopened", "unknown", "unwritten"} # {}
    \/ outcome = "returned"

\* What comes out at the end, on the output or in the file, is what the stages
\* make of it in order: but for words expanded twice, the empty line of an echo
\* that died, a redirection inside the pipeline, and an output still captured.
TextPiped ==
  AtEnd /\ outcome = "done" =>
    \/ shown = Promised.text /\ file = Promised.file
    \/ causes \cap {"words", "blank", "kept", "swallowed"} # {}

\* After a pipeline the shell's output goes where it went before, unless a
\* stage's redirection could not be opened; and an unbound name in the words is
\* over with the pipeline, unless it was met in a body the timed read looked at.
ShellPutBack ==
  AtEnd =>
    /\ (sink # before.sink => "unopened" \in causes)
    /\ \/ latch => before.latch
       \/ TimedTried /\ line.stages[1].kind = "group"

\* A pipeline does to its output, its statuses and the shell what one of real
\* pipes would, but for the departures named: the five invariants above.
PipelineAsPromised ==
  PipelinesTypeOK /\ ShellIsolated /\ StatusesTheirOwn /\ TextPiped /\ ShellPutBack
=============================================================================
