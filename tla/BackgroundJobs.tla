--------------------------- MODULE BackgroundJobs ---------------------------
(***************************************************************************)
(* Background jobs of one shell: the executor's side of `&`, coproc,       *)
(* process substitution, jobs, wait, fg, bg, disown and kill               *)
(* (src/src/executor/job_builtins.rs, limit_builtins.rs, compound_exec.rs) *)
(* over the job table, with the host processes running beside it.          *)
(*                                                                         *)
(* The shell is one thread.  Between two commands it refreshes: it polls   *)
(* every Child it holds and records the finished ones (ast_exec.rs, the    *)
(* head of the command loop).  It then dispatches one command; wait and fg *)
(* may block in Child::wait, and nothing is refreshed while they do.       *)
(*                                                                         *)
(* A coproc may have a thread of the shell that forwards its stderr.  The   *)
(* thread is joined between taking the Child of a finished coproc out and  *)
(* recording its status, and the error it ended with keeps the status from *)
(* being recorded.  A refresh is one step that is put off until the        *)
(* threads it joins have ended: it polls first, and what ends while it     *)
(* blocks in a join is left for the next.                                  *)
(***************************************************************************)
EXTENDS JobTable, Orders

CONSTANTS
  OSPids,       \* pids of host processes
  ShellPid,     \* the shell's own pid
  NoPid,        \* Option::None for a pid
  KillStatus,   \* 128 + signal, the status of a process a signal terminated
  PidReuse,     \* may the host give out a pid whose handle the shell closed?
  Forwarding,   \* bound: the pids under which the stderr of a coproc may be forwarded
  MaxOperands   \* bound: operands of one wait

ASSUME PidsAssumption ==
  /\ OSPids \subseteq Pids /\ ShellPid \in Pids \ OSPids /\ NoPid \notin Pids
  /\ Pids \cap (JobSpecs \cup {-2}) = {}
ASSUME KillStatusAssumption == KillStatus \in Statuses
ASSUME ForwardingAssumption == Forwarding \subseteq OSPids
ASSUME PidReuseAssumption == PidReuse \in BOOLEAN
ASSUME MaxOperandsAssumption == MaxOperands \in Nat \ {0}

\* The synthetic pids of inline process substitutions.
ProcSubPids == Pids \ (OSPids \cup {ShellPid})

VARIABLES
  job_table,            \* Executor::job_table
  background_children,  \* pids whose std::process::Child the shell holds
  background_jobs,      \* the keys of Executor::background_jobs
  last_background_pid,  \* $!
  phase,                \* where the shell's thread is
  todo,                 \* the pids a wait or fg in progress has still to wait for
  os,                   \* host: what each process is doing
  exit,                 \* host: the exit status of each terminated process
  forwarder,            \* the thread that forwards the stderr of each coproc
  released              \* history: pids the user gave up with disown or fg

shell_vars == <<job_table, background_children, background_jobs, last_background_pid>>
control_vars == <<phase, todo>>
os_vars == <<os, exit>>
vars == <<shell_vars, control_vars, os_vars, forwarder, released>>

Phases == {"boundary", "dispatch", "wait", "wait all", "wait -n", "fg", "over"}
OSStates == {"unborn", "running", "stopped", "exited"}

\* "failed" is the error a join will bring, "error" one it brought.  To join a thread
\* that ended without one changes nothing: it counts as none.
ForwarderStates == {"none", "running", "failed", "error"}

Init ==
  /\ job_table = EmptyTable
  /\ background_children = {} /\ background_jobs = {}
  /\ last_background_pid = NoPid
  /\ phase = "boundary" /\ todo = << >>
  /\ os = [p \in OSPids |-> "unborn"]
  /\ exit = [p \in OSPids |-> NoStatus]
  /\ forwarder = [p \in OSPids |-> "none"]
  /\ released = {}

----------------------------------------------------------------------------
(* The host.                                                               *)

Alive(p) == os[p] \in {"running", "stopped"}

\* A background process ends by itself with a status of its own.
ProcessExit(p) ==
  /\ os[p] = "running"
  /\ os' = [os EXCEPT ![p] = "exited"]
  /\ \E s \in Statuses : exit' = [exit EXCEPT ![p] = s]
  /\ UNCHANGED <<shell_vars, control_vars, forwarder, released>>

\* forward_coproc_stderr ends at the end of the coproc's stderr, or with the error
\* of a read or of a write to where stderr goes.
ForwarderEnds(p) ==
  /\ forwarder[p] = "running"
  /\ \E result \in {"none", "failed"} : forwarder' = [forwarder EXCEPT ![p] = result]
  /\ UNCHANGED <<shell_vars, control_vars, os_vars, released>>

\* A pid the host may give a new process: never used, or, with PidReuse, one
\* whose process ended and whose last handle is closed.
Available(p) ==
  \/ os[p] = "unborn"
  \/ PidReuse /\ os[p] = "exited" /\ p \notin background_children

----------------------------------------------------------------------------
(* refresh_background_jobs and the helpers of the builtins.                *)

\* Faulty variant: only processes that still have a job are polled.
Finished_WithJob ==
  {p \in background_children : os[p] = "exited" /\ p \in DOMAIN job_table.pid_to_job}

Finished == {p \in background_children : os[p] = "exited"}

\* join_coproc_stderr_forwarder(p) neither blocks nor fails.
JoinsWell(p) == p \in OSPids => forwarder[p] \notin {"running", "failed"}

\* What the loop over the finished children does with those in S.
Reaped(S) == ReapFinished(job_table, [p \in S |-> exit[p]])

RefreshedTable == Reaped(Finished)

Refresh ==
  /\ \A p \in Finished : JoinsWell(p)
  /\ job_table' = RefreshedTable
  /\ background_children' = background_children \ Finished
  /\ UNCHANGED forwarder

\* The command, or the list it is in, fails with an I/O error: the enclosing list
\* goes on, unless there is none, or its output is closed or errexit is on.
Fail == phase' \in {"boundary", "over"} /\ todo' = << >>

\* The error of a forwarder leaves the loop, at the head of a command or in jobs or
\* wait: its coproc's Child is dropped and its completion not recorded, and of the
\* others that finished some are reaped, in the order of a HashMap, and some not.
RefreshFails ==
  /\ phase \in {"boundary", "dispatch"}
  /\ \E failed \in Finished, reaped \in SUBSET Finished :
       /\ forwarder[failed] = "failed" /\ \A p \in reaped : JoinsWell(p)
       /\ job_table' = Reaped(reaped)
       /\ background_children' = background_children \ (reaped \cup {failed})
       /\ forwarder' = [forwarder EXCEPT ![failed] = "error"]
  /\ Fail
  /\ UNCHANGED <<background_jobs, last_background_pid, os_vars, released>>

\* The head of the command loop: reap, then dispatch the next command.
CommandBoundary ==
  /\ phase = "boundary"
  /\ Refresh
  /\ phase' = "dispatch"
  /\ UNCHANGED <<background_jobs, last_background_pid, todo, os_vars, released>>

\* The command is over; the next one starts at the boundary.
Done == phase' = "boundary" /\ UNCHANGED todo

LastPid(job) == job.pids[Len(job.pids)]

JobPid(t, id) == IF id \in DOMAIN t.jobs THEN LastPid(t.jobs[id]) ELSE NoPid

\* resolve_background_job: a job spec or a pid given as operand.
ResolveOperand(t, operand) ==
  IF operand \in JobSpecs THEN JobPid(t, ResolveJobspec(t, operand))
  ELSE IF operand \in DOMAIN t.pid_to_job \cup DOMAIN t.completed_statuses THEN operand
  ELSE NoPid

\* resolve_requested_background_job: without operand, the current job and
\* nothing else (current_background_pid does not fall back on the newest).
NoOperand == -2
ResolveRequested(t, operand) ==
  IF operand = NoOperand THEN JobPid(t, t.current_job) ELSE ResolveOperand(t, operand)

Operands == JobSpecs \cup Pids

----------------------------------------------------------------------------
(* Launching.                                                              *)

Spawn(p) ==
  /\ phase = "dispatch"
  /\ Available(p) /\ IdsLeft(job_table)
  /\ os' = [os EXCEPT ![p] = "running"]
  /\ exit' = [exit EXCEPT ![p] = NoStatus]
  /\ background_children' = background_children \cup {p}
  /\ background_jobs' = background_jobs \cup {p}
  /\ job_table' = RegisterProcess(job_table, p)
  /\ released' = released \ {p}
  /\ Done

\* A forwarder that was not joined stays in the map, under its pid.
Leftover(p) == IF forwarder[p] = "error" THEN "none" ELSE forwarder[p]

\* execute_background_ast_command: `command &`.
LaunchBackground(p) ==
  /\ Spawn(p)
  /\ last_background_pid' = p
  /\ forwarder' = [forwarder EXCEPT ![p] = Leftover(p)]

\* execute_coproc_command, as far as jobs go: $! is left alone.  Where the shell's
\* stderr goes elsewhere, a thread forwards the coproc's there.
LaunchCoproc(p) ==
  /\ Spawn(p)
  /\ \E f \in {Leftover(p)} \cup (IF p \in Forwarding THEN {"running"} ELSE {}) :
       forwarder' = [forwarder EXCEPT ![p] = f]
  /\ UNCHANGED last_background_pid

\* register_process_substitution_status: <(...) already ran inline; its status
\* goes on record under the next synthetic pid.
ProcessSubstitution(p) ==
  /\ phase = "dispatch"
  /\ p \in ProcSubPids \ DOMAIN job_table.completed_statuses
  /\ p \notin released
  /\ \E s \in Statuses : job_table' =
       [job_table EXCEPT !.completed_statuses =
          [q \in DOMAIN @ \cup {p} |-> IF q = p THEN s ELSE @[q]]]
  /\ last_background_pid' = p
  /\ Done
  /\ UNCHANGED <<background_children, background_jobs, os_vars, forwarder, released>>

\* execute_materialized_command with `&` on a form that is not handed to a child
\* shell (an inverted or timed command, say): it runs inline and $! is the shell.
InlineBackground ==
  /\ phase = "dispatch"
  /\ last_background_pid' = ShellPid
  /\ Done
  /\ UNCHANGED <<job_table, background_children, background_jobs, os_vars, forwarder, released>>

----------------------------------------------------------------------------
(* jobs and wait.                                                          *)

\* execute_jobs: a second refresh, then the listing.
Jobs ==
  /\ phase = "dispatch"
  /\ Refresh
  /\ Done
  /\ UNCHANGED <<background_jobs, last_background_pid, os_vars, released>>

\* execute_wait refreshes once more and settles which pids to wait for.
StartWait(kind, pids) ==
  /\ phase = "dispatch"
  /\ Refresh
  /\ IF pids = << >> THEN Done ELSE phase' = kind /\ todo' = pids
  /\ UNCHANGED <<background_jobs, last_background_pid, os_vars, released>>

\* Places in the pid lists of the jobs, <<job, position>>, in their order.
PlacesInOrder(places) ==
  CHOOSE s \in [1 .. Cardinality(places) -> places] : \A i, k \in DOMAIN s : i < k =>
    s[i][1] < s[k][1] \/ (s[i][1] = s[k][1] /\ s[i][2] < s[k][2])

\* Faulty variant: only the jobs that are running.
JobPidsInOrder_Running(t) ==
  LET running == {j \in DOMAIN t.jobs : t.jobs[j].state = "Running"}
      order == PlacesInOrder(UNION {{j} \X DOMAIN t.jobs[j].pids : j \in running})
  IN  [i \in DOMAIN order |-> t.jobs[order[i][1]].pids[order[i][2]]]

\* wait: every pid of every job, by job id (jobs.values() of a BTreeMap).
JobPidsInOrder(t) ==
  LET order == PlacesInOrder(UNION {{j} \X DOMAIN t.jobs[j].pids : j \in DOMAIN t.jobs})
  IN  [i \in DOMAIN order |-> t.jobs[order[i][1]].pids[order[i][2]]]

WaitAllJobs == StartWait("wait all", JobPidsInOrder(RefreshedTable))

\* wait operand...: all operands are resolved before the first wait.  If none
\* resolves, a lone pid is still tried: the shell may hold its Child although
\* the table has forgotten it (after kill %job).
WaitOperands(operands) ==
  LET pids == [i \in DOMAIN operands |-> ResolveOperand(RefreshedTable, operands[i])]
      found == InOrder({i \in DOMAIN pids : pids[i] # NoPid})
      known == [i \in DOMAIN found |-> pids[found[i]]]
  IN  StartWait("wait",
        IF known # << >> THEN known
        ELSE IF Len(operands) = 1 /\ operands[1] \in Pids THEN operands ELSE << >>)

\* wait_any_background_request: the operand, or any status on record (the first
\* key of a HashMap), or else the job with the lowest id that is not Completed.
WaitNextTargets(t, operand) ==
  LET unfinished == {j \in DOMAIN t.jobs : t.jobs[j].state # "Completed"}
  IN  IF operand # NoOperand THEN {ResolveOperand(t, operand)} \ {NoPid}
      ELSE IF DOMAIN t.completed_statuses # {} THEN DOMAIN t.completed_statuses
      ELSE {LastPid(t.jobs[j]) : j \in {j \in unfinished : \A k \in unfinished : j <= k}}

\* With an operand it waits for that job, as a plain wait would.
WaitNext(operand) ==
  LET targets == WaitNextTargets(RefreshedTable, operand)
      kind == IF operand = NoOperand THEN "wait -n" ELSE "wait"
  IN  \/ \E p \in targets : StartWait(kind, <<p>>)
      \/ targets = {} /\ StartWait(kind, << >>)

\* forget_background_runtime, as far as jobs go.
Forget(p) ==
  /\ background_children' = background_children \ {p}
  /\ background_jobs' = background_jobs \ {p}

AdvanceWait ==
  /\ todo' = Tail(todo)
  /\ phase' = IF Tail(todo) = << >> THEN "boundary" ELSE phase

Waiting == phase \in {"wait", "wait all", "wait -n"}

\* Faulty variant: only the child is asked, not the recorded statuses.
AnswerWait_ChildOnly ==
  LET p == Head(todo)
  IN  /\ Waiting
      /\ p \in background_children /\ os[p] = "exited" /\ JoinsWell(p)
      /\ job_table' = RemoveJobByPidPreserveStatus(MarkCompleted(job_table, p, exit[p]), p)
      /\ Forget(p)
      /\ AdvanceWait
      /\ UNCHANGED <<last_background_pid, os_vars, forwarder, released>>

\* wait_for_background_pid, once it does not block: the recorded status, or the
\* one Child::wait brings.  The job goes, the status stays on record.
AnswerWait ==
  LET p == Head(todo)
      recorded == p \in DOMAIN job_table.completed_statuses
      table == IF recorded THEN job_table ELSE MarkCompleted(job_table, p, exit[p])
  IN  /\ Waiting
      /\ recorded \/ (p \in background_children /\ os[p] = "exited")
      /\ JoinsWell(p)
      /\ job_table' = RemoveJobByPidPreserveStatus(table, p)
      /\ Forget(p)
      /\ AdvanceWait
      /\ UNCHANGED <<last_background_pid, os_vars, forwarder, released>>

\* Its forwarder fails: the job stays, and what was not on record is not recorded
\* though the Child is gone.
AnswerWaitFails ==
  LET p == Head(todo)
      recorded == p \in DOMAIN job_table.completed_statuses
  IN  /\ Waiting
      /\ recorded \/ (p \in background_children /\ os[p] = "exited")
      /\ p \in OSPids /\ forwarder[p] = "failed"
      /\ forwarder' = [forwarder EXCEPT ![p] = "error"]
      /\ background_children' = IF recorded THEN background_children ELSE background_children \ {p}
      /\ Fail
      /\ UNCHANGED <<job_table, background_jobs, last_background_pid, os_vars, released>>

\* The shell neither holds the child nor knows its status: 127, go on.
WaitUnknown ==
  /\ Waiting
  /\ Head(todo) \notin background_children \cup DOMAIN job_table.completed_statuses
  /\ AdvanceWait
  /\ UNCHANGED <<shell_vars, os_vars, forwarder, released>>

----------------------------------------------------------------------------
(* fg and bg.  Both report "no job control" when the table has no job.     *)

HasJobControl == DOMAIN job_table.jobs # {}

\* execute_fg_jobs takes the Child out of the executor and blocks on it.  A job
\* whose child is gone is reported missing, but stays in the table.
Foreground(operand) ==
  LET p == ResolveRequested(job_table, operand)
  IN  /\ phase = "dispatch"
      /\ HasJobControl /\ p # NoPid
      /\ Forget(p)
      /\ IF p \in background_children THEN phase' = "fg" /\ todo' = <<p>> ELSE Done
      /\ UNCHANGED <<job_table, last_background_pid, os_vars, forwarder, released>>

ForegroundExit ==
  LET p == Head(todo)
  IN  /\ phase = "fg"
      /\ os[p] = "exited"
      /\ job_table' = RemoveJobByPid(WaitPid(MarkCompleted(job_table, p, exit[p]), p), p)
      /\ released' = released \cup {p}
      /\ phase' = "boundary" /\ todo' = << >>
      /\ UNCHANGED <<background_children, background_jobs, last_background_pid, os_vars, forwarder>>

\* execute_bg_jobs changes the table only: the process is not resumed.
Background(operand) ==
  LET p == ResolveRequested(job_table, operand)
  IN  /\ phase = "dispatch"
      /\ HasJobControl /\ p # NoPid
      /\ job_table' = MarkRunning(job_table, p)
      /\ Done
      /\ UNCHANGED <<background_children, background_jobs, last_background_pid, os_vars, forwarder,
                     released>>

----------------------------------------------------------------------------
(* disown.                                                                 *)

\* Faulty variant: the child goes, its job stays.
DisownPid_KeepsJob(p) ==
  /\ Forget(p)
  /\ released' = released \cup {p}
  /\ Done
  /\ UNCHANGED <<job_table, last_background_pid, os_vars, forwarder>>

\* Forget the process and its job.
DisownPid(p) ==
  /\ Forget(p)
  /\ job_table' = RemoveJobByPid(job_table, p)
  /\ released' = released \cup {p}
  /\ Done
  /\ UNCHANGED <<last_background_pid, os_vars, forwarder>>

\* disown_current_job works on $!, not on the table's current job.
DisownCurrent ==
  /\ phase = "dispatch"
  /\ last_background_pid \in background_children \cup background_jobs
  /\ DisownPid(last_background_pid)

DisownJob(operand) ==
  LET p == ResolveOperand(job_table, operand)
  IN  phase = "dispatch" /\ p # NoPid /\ DisownPid(p)

\* disown -a and disown -r alike.
DisownAll ==
  /\ phase = "dispatch"
  /\ job_table' = ClearJobs(job_table)
  /\ background_children' = {} /\ background_jobs' = {}
  /\ released' = released \cup background_children \cup DOMAIN job_table.completed_statuses
  /\ Done
  /\ UNCHANGED <<last_background_pid, os_vars, forwarder>>

----------------------------------------------------------------------------
(* kill.                                                                   *)

Signals == {"STOP", "CONT", "TERM"}   \* TERM stands for every other signal

\* The host accepts the signal for p.  STOP and CONT suspend and resume; any
\* other signal may end the process at once, or be trapped or ignored through
\* its mailbox.  A process that ended but is still held may accept it too.
Signalled(p, sig) ==
  \/ /\ Alive(p) /\ sig # "TERM"
     /\ os' = [os EXCEPT ![p] = IF sig = "STOP" THEN "stopped" ELSE "running"]
     /\ UNCHANGED exit
  \/ /\ Alive(p) /\ sig = "TERM"
     /\ os' = [os EXCEPT ![p] = "exited"]
     /\ exit' = [exit EXCEPT ![p] = KillStatus]
  \/ /\ (Alive(p) /\ sig = "TERM") \/ (os[p] = "exited" /\ p \in background_children)
     /\ UNCHANGED os_vars

\* The loop of execute_tracked_background_kill for one operand.  A job spec
\* that is terminated leaves the table at once, with 128 + signal on record
\* only until remove_job_by_pid; the Child stays, so the next refresh records
\* what the process really did.
KillTracked(operand, sig) ==
  LET p == ResolveOperand(job_table, operand)
  IN  /\ phase = "dispatch"
      /\ operand \in JobSpecs \/ operand \in DOMAIN job_table.pid_to_job
      /\ p # NoPid
      /\ Signalled(p, sig)
      /\ \/ /\ sig = "CONT"
            /\ job_table' = MarkRunning(job_table, p)
            /\ UNCHANGED background_jobs
         \/ /\ sig = "STOP"
            /\ job_table' = MarkStopped(job_table, p)
            /\ UNCHANGED background_jobs
         \/ /\ sig = "TERM" /\ operand \in JobSpecs
            /\ job_table' = RemoveJobByPid(MarkCompleted(job_table, p, KillStatus), p)
            /\ background_jobs' = background_jobs \ {p}
         \/ /\ sig = "TERM" /\ operand \notin JobSpecs
            /\ UNCHANGED <<job_table, background_jobs>>
      /\ Done
      /\ UNCHANGED <<background_children, last_background_pid, forwarder, released>>

\* A pid the table does not own goes straight to the host.
KillUntracked(p, sig) ==
  /\ phase = "dispatch"
  /\ p \in OSPids \ DOMAIN job_table.pid_to_job
  /\ Signalled(p, sig)
  /\ Done
  /\ UNCHANGED <<shell_vars, forwarder, released>>

----------------------------------------------------------------------------

OperandLists == UNION {[1 .. n -> Operands] : n \in 1 .. MaxOperands}

Launch == \E p \in OSPids : LaunchBackground(p) \/ LaunchCoproc(p)

Substitute == InlineBackground \/ \E p \in ProcSubPids : ProcessSubstitution(p)

WaitCommand ==
  \/ WaitAllJobs
  \/ \E operands \in OperandLists : WaitOperands(operands)
  \/ \E operand \in Operands \cup {NoOperand} : WaitNext(operand)

ForegroundBackground ==
  \E operand \in Operands \cup {NoOperand} : Foreground(operand) \/ Background(operand)

Disown == DisownCurrent \/ DisownAll \/ \E operand \in Operands : DisownJob(operand)

Kill == \E sig \in Signals :
  \/ \E operand \in Operands : KillTracked(operand, sig)
  \/ \E p \in OSPids : KillUntracked(p, sig)

Command ==
  Launch \/ Substitute \/ Jobs \/ WaitCommand \/ ForegroundBackground \/ Disown \/ Kill

Next ==
  \/ \E p \in OSPids : ProcessExit(p) \/ ForwarderEnds(p)
  \/ CommandBoundary \/ RefreshFails \/ Command
  \/ AnswerWait \/ AnswerWaitFails \/ WaitUnknown \/ ForegroundExit

Spec == Init /\ [][Next]_vars

\* The shell's thread keeps running whenever it is not blocked in Child::wait or in
\* a join, its forwarders end once their coprocs have, and background processes
\* that are not suspended come to an end.  Fairness of Jobs stands for fairness of
\* Command: it is enabled just when a command is due and its refresh will not
\* fail, and any command disables it.
ShellFairness ==
  /\ WF_vars(CommandBoundary) /\ WF_vars(Jobs) /\ WF_vars(RefreshFails)
  /\ WF_vars(AnswerWait) /\ WF_vars(AnswerWaitFails)
  /\ WF_vars(WaitUnknown) /\ WF_vars(ForegroundExit)
  /\ \A p \in OSPids : WF_vars(os[p] = "exited" /\ ForwarderEnds(p))

FairSpec == Spec /\ ShellFairness /\ \A p \in OSPids : WF_vars(ProcessExit(p))

----------------------------------------------------------------------------
(* Properties.                                                             *)

\* Every variable has its type (the type invariant).
TypeOK ==
  /\ WellFormedTable(job_table)
  /\ background_children \subseteq OSPids /\ background_jobs \subseteq OSPids
  /\ last_background_pid \in Pids \cup {NoPid}
  /\ phase \in Phases /\ todo \in Seq(Pids)
  /\ os \in [OSPids -> OSStates] /\ exit \in [OSPids -> Statuses \cup {NoStatus}]
  /\ forwarder \in [OSPids -> ForwarderStates] /\ released \subseteq Pids

\* The children whose Child the shell holds, the one fg took out included.
Held == background_children \cup IF phase = "fg" THEN Range(todo) ELSE {}

\* The coprocs whose forwarder's error was reported in place of their status.
Unrecorded == {p \in OSPids : forwarder[p] = "error"}

\* The index of the job table, its summaries and its ids stay sound through
\* every command (see IndexMatchesJobs, SummaryMatchesProcesses, IdsGivenOut).
TableSound ==
  /\ IndexMatchesJobs(job_table)
  /\ \A j \in DOMAIN job_table.jobs : SummaryMatchesProcesses(job_table.jobs[j])
  /\ IdsGivenOut(job_table)

\* A status on record is the one its process ended with: no refresh, wait, kill
\* or fg ever leaves 128 + signal, or anything else, on record for a process
\* that is alive or that ended otherwise.
StatusesTrue ==
  \A p \in OSPids \cap DOMAIN job_table.completed_statuses :
    os[p] = "exited" /\ job_table.completed_statuses[p] = exit[p]

\* No child is lost: until the user gives it up with disown or fg, the shell
\* holds the Child of every process it started or has its status on record, so
\* `wait PID` can always answer, also for the second time and after kill %job; but
\* for a coproc whose forwarder failed.
NothingLost ==
  \A p \in OSPids : os[p] # "unborn" /\ p \notin released =>
    p \in Held \cup DOMAIN job_table.completed_statuses \cup Unrecorded

\* Every job in the table can be waited for, and none was given up.
JobsAnswerable ==
  DOMAIN job_table.pid_to_job \subseteq
    (Held \cup DOMAIN job_table.completed_statuses \cup Unrecorded) \ released

\* The table, its index and its summaries are sound, and each of its jobs can be
\* waited for, whatever order the commands, the children and kill come in.
JobsSound == TypeOK /\ TableSound /\ JobsAnswerable

\* `wait $!` answers: the process or inline substitution $! names is held or has
\* its status on record, unless the user gave it up.
LastBackgroundAnswerable ==
  last_background_pid \in Pids \ (released \cup {ShellPid}) =>
    last_background_pid \in Held \cup DOMAIN job_table.completed_statuses \cup Unrecorded

\* wait without operands leaves no job behind: when it returns, the table is
\* empty, whatever was stopped, finished or re-marked while it was blocked, but for
\* coprocs whose forwarder failed, and unless it is just then that one does.
WaitAllLeavesNoJob ==
  [][phase = "wait all" /\ phase' = "boundary" =>
       Unrecorded' # Unrecorded \/ DOMAIN job_table'.pid_to_job \subseteq Unrecorded]_vars

\* A shell blocked in wait or fg goes on once the processes it waits for are
\* not suspended, whatever the other processes do.
WaitReturns ==
  (phase \in Phases \ {"boundary", "dispatch"} /\ \A p \in OSPids \cap Range(todo) : os[p] # "stopped")
    ~> phase \in {"boundary", "over"}

\* No zombies: the Child of a process that ended is reaped and dropped, unless
\* the shell is blocked on a suspended process, or ends.
ZombiesReaped ==
  \A p \in OSPids :
    (os[p] = "exited" /\ p \in background_children)
      ~> \/ p \notin background_children \/ phase = "over"
         \/ \E q \in OSPids \cap Range(todo) : os[q] = "stopped"

----------------------------------------------------------------------------
(* BackgroundJobs implements ChildLedger: a Child is the obligation, a      *)
(* status in completed_statuses is its settlement.                         *)

LedgerFate(p) ==
  IF os[p] = "unborn" THEN "unused"
  ELSE IF p \in released THEN "released"
  ELSE IF p \in Held THEN "held"
  ELSE IF p \in DOMAIN job_table.completed_statuses THEN "settled"
  ELSE IF p \in Unrecorded THEN "lost" ELSE "forgotten"

Ledger == INSTANCE ChildLedger WITH
  fate <- [p \in OSPids |-> LedgerFate(p)],
  ending <- exit,
  forwarded <- {p \in OSPids : forwarder[p] # "none"},
  record <- [p \in OSPids |-> IF LedgerFate(p) = "settled"
                              THEN job_table.completed_statuses[p] ELSE NoStatus]

\* Every command keeps the ledger: only processes with a forwarder are ever lost,
\* settled statuses are true and final, and only disown and fg release a process.
ImplementsLedger == Ledger!Spec

----------------------------------------------------------------------------
(* What the repository's tests say and the code does not do.               *)

\* wait -n returns once some child has ended, also while the job with the lowest
\* id runs on (third_party/oil/spec/background.test.sh: "waits for next").
WaitNextReturns ==
  \A p \in OSPids :
    (phase = "wait -n" /\ p \in background_children /\ os[p] = "exited")
      ~> phase # "wait -n"

\* The shell's own steps are fair, but background processes may run for ever.
ShellFairSpec == Spec /\ ShellFairness
=============================================================================
