---------------------------- MODULE PipeProcesses ----------------------------
(* Host programs joined by pipes, and the shell at both ends                 *)
(* (execute_external_pipeline_concurrently; with one member, a stage that is a *)
(* host program, execute_external_pipeline_stage_inner). The shell starts the *)
(* members in order, writes a here-document into the first, reads the last to *)
(* its end, then takes the others' statuses from the right, and kills those  *)
(* that have not ended by then. Pipe 0 goes from the shell to member 1, pipe *)
(* i from member i to the next, or back to the shell.                        *)
EXTENDS Naturals, Sequences

CONSTANTS
  Programs,    \* what the members may do
  MaxMembers,  \* how many there are at most
  MaxInput,    \* how much the shell has to write at most
  Capacity,    \* what a pipe holds
  Effort       \* what a program that writes on its own writes

ASSUME ProgramsAssumption ==
  Programs \subseteq {"filter", "sink", "source", "eager", "first", "endless", "waiting", "closer"}
ASSUME SizesAssumption ==
  Capacity \in Nat \ {0} /\ MaxMembers \in Nat \ {0} /\ MaxInput \in Nat /\ Effort \in Nat

VARIABLES
  program,    \* the members' programs
  input,      \* what the shell has still to write
  spot,       \* where the shell is
  next,       \* the member it starts, or whose status it takes
  reports,    \* the statuses taken, from the right
  recorded,   \* PIPESTATUS
  member,     \* per member: "unborn", "running", "ended", "reaped"
  ending,       \* per member: how it ends, an exit code or BySignal
  killed,     \* the members the shell killed
  held,       \* per member: what it has read and not written
  made,       \* per member: what it has written on its own
  closed,     \* the members that closed their standard output
  pipe        \* per pipe: what is in it

shellVars == <<input, spot, next, reports, recorded, killed>>
memberVars == <<held, made, closed>>
ppVars == <<program, shellVars, member, ending, memberVars, pipe>>

Members == DOMAIN program
N == Len(program)

PipeInit ==
  /\ \E n \in 1 .. MaxMembers : program \in [1 .. n -> Programs]
  /\ input \in 0 .. MaxInput
  /\ spot = "starting" /\ next = 1 /\ reports = << >> /\ recorded = << >>
  /\ member = [i \in Members |-> "unborn"] /\ ending = [i \in Members |-> 0]
  /\ killed = {} /\ closed = {}
  /\ held = [i \in Members |-> 0] /\ made = [i \in Members |-> 0]
  /\ pipe = [i \in 0 .. N |-> 0]

-----------------------------------------------------------------------------
(* The two ends of a pipe. The shell keeps no end of the pipes in between.   *)

\* The shell keeps its end of the first pipe while it reads the last.
HasWriter_ShellKeepsIt(i) ==
  IF i = 0 THEN spot \in {"starting", "writing", "reading"}
  ELSE \/ member[i] = "running" /\ i \notin closed
       \/ member[i] = "unborn" /\ spot = "starting"

\* Somebody may still write into pipe i.
HasWriter(i) ==
  IF i = 0 THEN spot \in {"starting", "writing"}
  ELSE \/ member[i] = "running" /\ i \notin closed
       \/ member[i] = "unborn" /\ spot = "starting"

\* Somebody may still read from it; the shell gives both ends up with an error.
HasReader(i) ==
  IF i = N THEN spot # "failed"
  ELSE \/ member[i + 1] = "running"
       \/ member[i + 1] = "unborn" /\ spot = "starting"

AtEOF(i) == pipe[i] = 0 /\ ~HasWriter(i)

(* The members. What an action waits for is an operator of its own.           *)

Running(i) == i \in Members /\ member[i] = "running"

BySignal == 256   \* a signal ended it: ExitStatus::code gives None

Ends(i, status) ==
  /\ member' = [member EXCEPT ![i] = "ended"]
  /\ ending' = [ending EXCEPT ![i] = status]

Reads(i) == program[i] \in {"filter", "sink", "first", "eager", "closer"}

\* It keeps at most one token back before it passes it on.
CanRead(i) ==
  /\ Running(i) /\ Reads(i) /\ pipe[i - 1] > 0
  /\ (program[i] \in {"filter", "first"} => held[i] = 0)
  /\ (program[i] = "eager" => made[i] = Effort)

MemberReads(i) ==
  /\ CanRead(i)
  /\ pipe' = [pipe EXCEPT ![i - 1] = @ - 1]
  /\ held' = [held EXCEPT ![i] = IF program[i] \in {"filter", "first"} THEN 1 ELSE 0]
  /\ UNCHANGED <<program, shellVars, member, ending, made, closed>>

Writes(i) ==
  \/ program[i] \in {"filter", "first"} /\ held[i] > 0
  \/ program[i] \in {"source", "eager"} /\ made[i] < Effort
  \/ program[i] = "endless"

CanWrite(i) == Running(i) /\ Writes(i) /\ HasReader(i) /\ pipe[i] < Capacity

MemberWrites(i) ==
  /\ CanWrite(i)
  /\ pipe' = [pipe EXCEPT ![i] = @ + 1]
  /\ held' = [held EXCEPT ![i] = 0]
  /\ made' = [made EXCEPT ![i] = IF program[i] \in {"source", "eager"} THEN @ + 1 ELSE @]
  \* The program that wants one token has had it.
  /\ IF program[i] = "first" THEN Ends(i, 0) ELSE UNCHANGED <<member, ending>>
  /\ UNCHANGED <<program, shellVars, closed>>

\* Nobody reads what it writes: SIGPIPE ends it, or it gives up by itself.
CanBreak(i) == Running(i) /\ Writes(i) /\ ~HasReader(i)

MemberBroken(i) ==
  /\ CanBreak(i)
  /\ \E status \in {BySignal, 2} : Ends(i, status)
  /\ UNCHANGED <<program, shellVars, memberVars, pipe>>

\* A daemon that detaches itself from the pipeline and works on.
CanClose(i) == Running(i) /\ program[i] = "closer" /\ i \notin closed /\ AtEOF(i - 1)

MemberCloses(i) ==
  /\ CanClose(i)
  /\ closed' = closed \cup {i}
  /\ UNCHANGED <<program, shellVars, member, ending, held, made, pipe>>

\* Its input is at an end, or it has written what it had to.
CanEnd(i) ==
  /\ Running(i)
  /\ CASE program[i] \in {"filter", "sink", "first"} -> AtEOF(i - 1) /\ held[i] = 0
       [] program[i] = "source" -> made[i] = Effort
       [] program[i] = "eager" -> AtEOF(i - 1) /\ made[i] = Effort
       [] program[i] = "closer" -> i \in closed
       [] OTHER -> FALSE

MemberEnds(i) ==
  /\ CanEnd(i)
  /\ \E status \in {0, 2} : Ends(i, status)
  /\ UNCHANGED <<program, shellVars, memberVars, pipe>>

-----------------------------------------------------------------------------
(* The shell.                                                                *)

Spawn ==
  /\ spot = "starting" /\ next <= N
  /\ member' = [member EXCEPT ![next] = "running"]
  /\ next' = next + 1
  /\ spot' = IF next = N THEN "writing" ELSE "starting"
  /\ UNCHANGED <<program, input, reports, recorded, killed, ending, memberVars, pipe>>

\* The program is gone: the error leaves the members already started behind.
SpawnFails ==
  /\ spot = "starting" /\ next <= N
  /\ spot' = "failed"
  /\ UNCHANGED <<program, input, next, reports, recorded, killed, member, ending, memberVars, pipe>>

\* write_all: it waits for room.
ShellWrites ==
  /\ spot = "writing" /\ input > 0 /\ HasReader(0) /\ pipe[0] < Capacity
  /\ pipe' = [pipe EXCEPT ![0] = @ + 1]
  /\ input' = input - 1
  /\ UNCHANGED <<program, spot, next, reports, recorded, killed, member, ending, memberVars>>

\* The first member ended without having read all of it: write_all fails.
ShellBroken ==
  /\ spot = "writing" /\ input > 0 /\ ~HasReader(0)
  /\ spot' = "failed"
  /\ UNCHANGED <<program, input, next, reports, recorded, killed, member, ending, memberVars, pipe>>

ShellCloses ==
  /\ spot = "writing" /\ input = 0
  /\ spot' = "reading"
  /\ UNCHANGED <<program, input, next, reports, recorded, killed, member, ending, memberVars, pipe>>

\* wait_with_output reads the last member's output ...
ShellReads ==
  /\ spot = "reading" /\ pipe[N] > 0
  /\ pipe' = [pipe EXCEPT ![N] = @ - 1]
  /\ UNCHANGED <<program, shellVars, member, ending, memberVars>>

\* status.code().unwrap_or(1)
StatusOf(end) == IF end = BySignal THEN 1 ELSE end

\* A member is passed over.
Take_PassesOneOver(i) ==
  /\ reports' = Append(reports, StatusOf(ending[i]))
  /\ member' = [member EXCEPT ![i] = "reaped"]
  /\ next' = i - 2

Take(i) ==
  /\ reports' = Append(reports, StatusOf(ending[i]))
  /\ member' = [member EXCEPT ![i] = "reaped"]
  /\ next' = i - 1

\* The pipeline is over with its last member.
LastTaken_IsAll ==
  /\ spot = "reading" /\ AtEOF(N) /\ member[N] = "ended"
  /\ Take(N)
  /\ spot' = "done"
  /\ UNCHANGED <<program, input, recorded, killed, ending, memberVars, pipe>>

\* ... to its end, and waits for the member.
LastTaken ==
  /\ spot = "reading" /\ AtEOF(N) /\ member[N] = "ended"
  /\ Take(N)
  /\ spot' = "taking"
  /\ UNCHANGED <<program, input, recorded, killed, ending, memberVars, pipe>>

\* A member that has ended, in time where there is a window to do so ...
MemberTaken ==
  /\ spot = "taking" /\ next >= 1 /\ member[next] = "ended"
  /\ Take(next)
  /\ UNCHANGED <<program, input, spot, recorded, killed, ending, memberVars, pipe>>

\* It is waited for, however long that takes.
MemberKilled_WaitedFor ==
  /\ spot = "taking" /\ next >= 1 /\ member[next] = "ended"
  /\ Take(next)
  /\ UNCHANGED <<program, input, spot, recorded, killed, ending, memberVars, pipe>>

\* ... or has not: it is killed.
MemberKilled ==
  /\ spot = "taking" /\ next >= 1 /\ member[next] = "running"
  /\ killed' = killed \cup {next}
  /\ reports' = Append(reports, StatusOf(BySignal))
  /\ ending' = [ending EXCEPT ![next] = BySignal]
  /\ member' = [member EXCEPT ![next] = "reaped"]
  /\ next' = next - 1
  /\ UNCHANGED <<program, input, spot, recorded, memberVars, pipe>>

\* PIPESTATUS in the order the statuses were taken.
Record_FromTheRight ==
  /\ spot = "taking" /\ next = 0
  /\ recorded' = reports
  /\ spot' = "done"
  /\ UNCHANGED <<program, input, next, reports, killed, member, ending, memberVars, pipe>>

\* results.reverse(): PIPESTATUS is in the order of the members.
Record ==
  /\ spot = "taking" /\ next = 0
  /\ recorded' = [i \in DOMAIN reports |-> reports[N + 1 - i]]
  /\ spot' = "done"
  /\ UNCHANGED <<program, input, next, reports, killed, member, ending, memberVars, pipe>>

ShellNext ==
  Spawn \/ ShellWrites \/ ShellBroken \/ ShellCloses \/ ShellReads
    \/ LastTaken \/ MemberTaken \/ MemberKilled \/ Record

MemberNext(i) ==
  MemberReads(i) \/ MemberWrites(i) \/ MemberBroken(i) \/ MemberCloses(i) \/ MemberEnds(i)

Moves == ShellNext \/ \E i \in 1 .. MaxMembers : MemberNext(i)

PipeNext == Moves \/ SpawnFails

\* Somebody can go on: the guards of Moves, one by one.
MemberAble(i) == CanRead(i) \/ CanWrite(i) \/ CanBreak(i) \/ CanClose(i) \/ CanEnd(i)

ShellAble ==
  \/ spot = "starting" /\ next <= N
  \/ spot = "writing" /\ (input > 0 /\ HasReader(0) => pipe[0] < Capacity)
  \/ spot = "reading" /\ (pipe[N] > 0 \/ (AtEOF(N) /\ member[N] = "ended"))
  \/ spot = "taking" /\ (next >= 1 => member[next] \in {"running", "ended"})

Able == ShellAble \/ \E i \in Members : MemberAble(i)

\* The shell goes on whenever nothing blocks it, and so does every program; one
\* that waits for something else may do so for ever.
PipeFairness ==
  /\ WF_ppVars(ShellNext)
  /\ \A i \in 1 .. MaxMembers : WF_ppVars(MemberNext(i))

-----------------------------------------------------------------------------
(* Properties.                                                               *)

\* Every variable has its type (the type invariant).
PipeTypeOK ==
  /\ spot \in {"starting", "writing", "reading", "taking", "done", "failed"}
  /\ next \in 0 .. N + 1 /\ input \in 0 .. MaxInput
  /\ \A i \in Members : member[i] \in {"unborn", "running", "ended", "reaped"}
  /\ \A i \in 0 .. N : pipe[i] \in 0 .. Capacity
  /\ killed \subseteq Members /\ closed \subseteq Members

\* PIPESTATUS has one status per member, at its place: the code it ended with,
\* or 1 for a member that the shell killed or that died writing to nobody. The
\* last, which is the pipeline's own status, is always the member's own code.
EachStatusRecorded ==
  spot = "done" =>
    /\ Len(recorded) = N
    /\ \A i \in Members :
         /\ ending[i] # BySignal => recorded[i] = ending[i] /\ i \notin killed
         /\ ending[i] = BySignal => recorded[i] = 1 /\ i < N

\* Nothing that was started is left behind, but for a pipeline that failed half
\* way: when a member could not be started, or the first ended with input unread.
NoneLeftBehind ==
  \A i \in Members : member[i] \in {"running", "ended"} =>
    \/ spot \in {"starting", "writing", "reading", "taking"}
    \/ spot = "failed" /\ (input > 0 \/ \E j \in Members : member[j] = "unborn")

\* Every member is accounted for: its status at its place, its process reaped.
MembersAccountedFor == PipeTypeOK /\ NoneLeftBehind /\ EachStatusRecorded

\* Where every program works until it ends, the pipeline and its shell come to a
\* standstill only while the shell writes a here-document, every pipe being full:
\* the shell, which does not read yet, is the one they all wait for.
StandstillOnlyOnFullPipes ==
  "waiting" \notin {program[i] : i \in Members} /\ ~Able =>
    \/ spot \in {"done", "failed"}
    \/ spot = "writing" /\ \A i \in 0 .. N : pipe[i] = Capacity

\* When the last member has ended the pipeline ends, whatever the others do, once
\* the here-document has been written.
LastEndsItAll ==
  \A n \in 1 .. MaxMembers :
    (N = n /\ member[n] = "ended" /\ spot \in {"reading", "taking"}) ~> spot = "done"

PipeSpec == PipeInit /\ [][PipeNext]_ppVars
PipeFairSpec == PipeSpec /\ PipeFairness
=============================================================================
