------------------------------ MODULE JobTable ------------------------------
(***************************************************************************)
(* The table of background jobs, src/src/jobs/table.rs: which job owns     *)
(* which process, what state each process and each job is in, which exit   *)
(* statuses are on record, and which jobs `%+` and `%-` name.              *)
(*                                                                         *)
(* The table is a plain value of the executor, so its methods are written  *)
(* here as operators from a table to a table: BackgroundJobs composes them *)
(* the way the builtins call them, JobTableClient lets any method run at   *)
(* any time.                                                               *)
(*                                                                         *)
(* Left out of JobEntry: command, background (TRUE at both call sites),    *)
(* foreground, notified and coproc_endpoints (written, never read).        *)
(***************************************************************************)
EXTENDS Integers, Sequences, FiniteSets, Functions

CONSTANTS
  Pids,        \* process ids the host can hand out (u32)
  Statuses,    \* exit statuses (i32)
  NoStatus,    \* Option::None for an exit status
  JobIdMax     \* u32::MAX, where next_job_id saturates

ASSUME NoStatusAssumption == NoStatus \notin Statuses
ASSUME JobIdMaxAssumption == JobIdMax \in Nat \ {0}

JobIds == 1..JobIdMax
NoJob == 0     \* Option::None for current_job and previous_job
ProcessStates == {"Running", "Stopped", "Completed"}

ProcessEntry == [state: ProcessStates, exit_status: Statuses \cup {NoStatus}]

----------------------------------------------------------------------------
(* The methods, as operators on a table t.                                 *)

EmptyTable ==
  [jobs |-> [j \in {} |-> {}],
   pid_to_job |-> [p \in {} |-> NoJob],
   completed_statuses |-> [p \in {} |-> NoStatus],
   current_job |-> NoJob, previous_job |-> NoJob, next_job_id |-> 0]

Without(f, S) == Restrict(f, DOMAIN f \ S)

\* Faulty variant: a stopped process outranks a running one.
JobStateOf_StoppedFirst(processes) ==
  LET Some(st) == \E p \in DOMAIN processes : processes[p].state = st
  IN  IF Some("Stopped") THEN "Stopped"
      ELSE IF Some("Running") THEN "Running" ELSE "Completed"

\* The state of a job as a function of the states of its processes.
JobStateOf(processes) ==
  LET Some(st) == \E p \in DOMAIN processes : processes[p].state = st
  IN  IF Some("Running") THEN "Running"
      ELSE IF Some("Stopped") THEN "Stopped" ELSE "Completed"

\* recompute_job: a job with these processes, its state and status derived.
Recomputed(pids, processes) ==
  [pids |-> pids, processes |-> processes,
   state |-> JobStateOf(processes),
   exit_status |-> processes[pids[Len(pids)]].exit_status]

SetCurrentJob(t, id) ==
  IF t.current_job = id THEN t
  ELSE [t EXCEPT !.previous_job = t.current_job, !.current_job = id]

\* Faulty variant: the first job is numbered 0 (the max(1) is missing).
NextId_FromZero(t) == t.next_job_id

NextId(t) == IF t.next_job_id = 0 THEN 1 ELSE t.next_job_id

SaturatingSucc(id) == IF id = JobIdMax THEN JobIdMax ELSE id + 1

\* Bound: ids stay below the saturation point, so registering never reuses one.
IdsLeft(t) == NextId(t) < JobIdMax

NewJob(pids) ==
  [pids |-> pids,
   processes |-> [p \in Range(pids) |-> [state |-> "Running", exit_status |-> NoStatus]],
   state |-> "Running", exit_status |-> NoStatus]

RegisterPipeline(t, pids) ==
  LET id == NextId(t)
  IN  SetCurrentJob(
        [t EXCEPT
           !.next_job_id = SaturatingSucc(id),
           !.jobs = [j \in DOMAIN t.jobs \cup {id} |->
                       IF j = id THEN NewJob(pids) ELSE t.jobs[j]],
           !.pid_to_job = [p \in DOMAIN t.pid_to_job \cup Range(pids) |->
                       IF p \in Range(pids) THEN id ELSE t.pid_to_job[p]]],
        id)

\* A live process has one job: the host does not give its pid out again.
Unowned(t, pids) == Range(pids) \cap DOMAIN t.pid_to_job = {}

RegisterProcess(t, pid) == RegisterPipeline(t, <<pid>>)

\* The jobs once the processes in DOMAIN new have the entries new[p]: the index
\* says which job to change, and the summary of a job that changed is recomputed.
MarkedJobs(t, new) ==
  [j \in DOMAIN t.jobs |->
     LET reached == {p \in DOMAIN new : p \in DOMAIN t.pid_to_job /\ t.pid_to_job[p] = j}
         old == t.jobs[j].processes
     IN  IF reached = {} THEN t.jobs[j]
         ELSE Recomputed(t.jobs[j].pids,
                [p \in DOMAIN old |-> IF p \in reached THEN new[p] ELSE old[p]])]

\* reap_finished: mark_completed for every (pid, status) of the function
\* finished.  The calls touch distinct processes, so their order is immaterial.
ReapFinished(t, finished) ==
  [t EXCEPT
     !.completed_statuses =
        [p \in DOMAIN t.completed_statuses \cup DOMAIN finished |->
           IF p \in DOMAIN finished THEN finished[p] ELSE t.completed_statuses[p]],
     !.jobs = MarkedJobs(t, [p \in DOMAIN finished |->
                               [state |-> "Completed", exit_status |-> finished[p]]])]

MarkCompleted(t, pid, status) == ReapFinished(t, [p \in {pid} |-> status])

\* The process entry of pid, which has a job, with another state.
InState(t, pid, state) ==
  [p \in {pid} |-> [t.jobs[t.pid_to_job[pid]].processes[pid] EXCEPT !.state = state]]

MarkStopped(t, pid) ==
  IF pid \notin DOMAIN t.pid_to_job THEN t
  ELSE [t EXCEPT !.jobs = MarkedJobs(t, InState(t, pid, "Stopped"))]

MarkRunning(t, pid) ==
  IF pid \notin DOMAIN t.pid_to_job THEN t
  ELSE SetCurrentJob([t EXCEPT !.jobs = MarkedJobs(t, InState(t, pid, "Running"))],
                     t.pid_to_job[pid])

\* Faulty variant: only the first pid of the pipeline leaves the index.
DropJob_FirstPidOnly(t, id) ==
  [t EXCEPT
     !.jobs = Without(t.jobs, {id}),
     !.pid_to_job = Without(t.pid_to_job, {t.jobs[id].pids[1]}),
     !.current_job = IF @ = id THEN t.previous_job ELSE @,
     !.previous_job = IF @ = id THEN NoJob ELSE @]

\* Faulty variant: numbering starts over once the table is empty.
DropJob_RestartIds(t, id) ==
  [t EXCEPT
     !.jobs = Without(t.jobs, {id}),
     !.pid_to_job = Without(t.pid_to_job, Range(t.jobs[id].pids)),
     !.current_job = IF @ = id THEN t.previous_job ELSE @,
     !.previous_job = IF @ = id THEN NoJob ELSE @,
     !.next_job_id = IF DOMAIN t.jobs = {id} THEN 0 ELSE @]

\* remove_job and the preserve-status variant share all but the statuses.
DropJob(t, id) ==
  [jobs |-> Without(t.jobs, {id}),
   pid_to_job |-> Without(t.pid_to_job, Range(t.jobs[id].pids)),
   completed_statuses |-> t.completed_statuses,
   current_job |-> IF t.current_job = id THEN t.previous_job ELSE t.current_job,
   previous_job |-> IF t.previous_job = id THEN NoJob ELSE t.previous_job,
   next_job_id |-> t.next_job_id]

\* Faulty variant: the statuses of the job's processes stay on record.
RemoveJob_KeepsStatuses(t, id) == IF id \in DOMAIN t.jobs THEN DropJob(t, id) ELSE t

RemoveJob(t, id) ==
  IF id \notin DOMAIN t.jobs THEN t
  ELSE [DropJob(t, id) EXCEPT
          !.completed_statuses = Without(t.completed_statuses, Range(t.jobs[id].pids))]

RemoveJobByPid(t, pid) ==
  IF pid \in DOMAIN t.pid_to_job THEN RemoveJob(t, t.pid_to_job[pid]) ELSE t

\* Faulty variant: the status goes with the job.
RemoveJobByPidPreserveStatus_Forgets(t, pid) ==
  [RemoveJobByPid(t, pid) EXCEPT !.completed_statuses = Without(@, {pid})]

RemoveJobByPidPreserveStatus(t, pid) ==
  IF pid \in DOMAIN t.pid_to_job /\ t.pid_to_job[pid] \in DOMAIN t.jobs
  THEN DropJob(t, t.pid_to_job[pid])
  ELSE t

ForgetStatus(t, pid) ==
  [t EXCEPT !.completed_statuses = Without(t.completed_statuses, {pid})]

\* wait_pid consumes a recorded status; without one it only looks at the job.
WaitPid(t, pid) == ForgetStatus(t, pid)

WaitAll(t) == [t EXCEPT !.completed_statuses = Without(@, DOMAIN @)]

ClearJobs(t) == [EmptyTable EXCEPT !.next_job_id = t.next_job_id]

LargestId(S) == CHOOSE j \in S : \A k \in S : k <= j

\* resolve_jobspec.  A spec is "%+" (also %, %%), "%-", or a job number; a
\* command prefix or ?substring names the newest job whose text matches, hence
\* some job of the table, as a number does.
CurrentSpec == 0
PreviousSpec == -1
JobSpecs == {CurrentSpec, PreviousSpec} \cup JobIds

ResolveJobspec(t, spec) ==
  CASE spec = CurrentSpec ->
         IF t.current_job # NoJob THEN t.current_job
         ELSE IF DOMAIN t.jobs # {} THEN LargestId(DOMAIN t.jobs) ELSE NoJob
    [] spec = PreviousSpec -> t.previous_job
    [] OTHER -> IF spec \in DOMAIN t.jobs THEN spec ELSE NoJob

----------------------------------------------------------------------------
(* What a table must satisfy.                                              *)

WellFormedJob(job) ==
  /\ job.pids \in Seq(Pids) /\ job.pids # << >>
  /\ DOMAIN job.processes = Range(job.pids)
  /\ \A p \in Range(job.pids) : job.processes[p] \in ProcessEntry
  /\ job.state \in ProcessStates
  /\ job.exit_status \in Statuses \cup {NoStatus}

WellFormedTable(t) ==
  /\ DOMAIN t.jobs \subseteq JobIds
  /\ \A j \in DOMAIN t.jobs : WellFormedJob(t.jobs[j])
  /\ DOMAIN t.pid_to_job \subseteq Pids
  /\ \A p \in DOMAIN t.pid_to_job : t.pid_to_job[p] \in JobIds
  /\ DOMAIN t.completed_statuses \subseteq Pids
  /\ \A p \in DOMAIN t.completed_statuses : t.completed_statuses[p] \in Statuses
  /\ t.current_job \in JobIds \cup {NoJob}
  /\ t.previous_job \in JobIds \cup {NoJob}
  /\ t.next_job_id \in JobIds \cup {0}

\* pid_to_job is the inverse of the jobs' pid lists: every pid of a job in the
\* table leads to that job and no pid leads to a job that is gone, whatever
\* mix of remove_job, remove_job_by_pid and the preserving variant ran.
IndexMatchesJobs(t) ==
  /\ \A p \in DOMAIN t.pid_to_job :
        /\ t.pid_to_job[p] \in DOMAIN t.jobs
        /\ p \in Range(t.jobs[t.pid_to_job[p]].pids)
  /\ \A j \in DOMAIN t.jobs : \A p \in Range(t.jobs[j].pids) :
        p \in DOMAIN t.pid_to_job /\ t.pid_to_job[p] = j

\* A job's summary is never behind its processes: state and exit_status are the
\* ones its processes have now, and a Completed job has the exit status of its
\* last process, so `jobs` never falls back on the "Exit 1" it prints when the
\* status is missing (job_builtins.rs, exit_status.unwrap_or(1)).
SummaryMatchesProcesses(job) ==
  LET states == {job.processes[p].state : p \in DOMAIN job.processes}
  IN  /\ job.state = "Running" <=> "Running" \in states
      /\ job.state = "Completed" <=> states = {"Completed"}
      /\ job.exit_status = job.processes[job.pids[Len(job.pids)]].exit_status
      /\ \A p \in DOMAIN job.processes :
           job.processes[p].state = "Completed" => job.processes[p].exit_status # NoStatus

\* Every id the table holds, in jobs, %+ or %-, was given out before: a later
\* registration can neither overwrite a job nor bring a stale %+ or %- back to
\* life as a job the user never named.
IdsGivenOut(t) ==
  DOMAIN t.jobs \cup ({t.current_job, t.previous_job} \ {NoJob}) \subseteq 1..(NextId(t) - 1)
=============================================================================
