------------------------ MODULE BackgroundJobsProofs ------------------------
(***************************************************************************)
(* Proofs about the job table, under any client, and about background jobs, *)
(* for any processes, statuses and bound on job ids.  On a host that does   *)
(* not give a pid out twice the table stays sound, every status on record   *)
(* is the true one, no child is lost, every job can be waited for, and wait *)
(* leaves none.                                                             *)
(*                                                                         *)
(* None of the latter is inductive.  A job of two processes would lose the  *)
(* status of the one when the other is disowned: each job has one pid.  A   *)
(* status on record and a Child for one process would make disown lose      *)
(* one of the two: nothing is held that is settled.  fg holds the Child it  *)
(* took out of the executor, and waits for nothing else.  A status is put   *)
(* on record once its forwarder is joined: none that failed would lose it.  *)
(***************************************************************************)
EXTENDS BackgroundJobs, JobTableClient, OrderProofs, SequenceTheorems, TLAPS

----------------------------------------------------------------------------
(* The job table: every method of src/src/jobs/table.rs keeps a table sound,  *)
(* for any set of pids and statuses and any bound on ids.                     *)
(*                                                                            *)
(* The inductive invariant is Sound: the type invariant, the index, the       *)
(* summaries and the ids together.  The index alone is not inductive: a       *)
(* registration would break it by overwriting a job whose id is not below     *)
(* next_job_id.                                                               *)

\* t is a record with the fields of JobTable.
IsTable(t) ==
  t = [jobs |-> t.jobs, pid_to_job |-> t.pid_to_job,
       completed_statuses |-> t.completed_statuses, current_job |-> t.current_job,
       previous_job |-> t.previous_job, next_job_id |-> t.next_job_id]

\* The inductive invariant of the table.
Sound(t) ==
  /\ IsTable(t)
  /\ WellFormedTable(t)
  /\ IndexMatchesJobs(t)
  /\ \A j \in DOMAIN t.jobs : SummaryMatchesProcesses(t.jobs[j])
  /\ IdsGivenOut(t)

----------------------------------------------------------------------------

\* EXCEPT on one field of a table, as a record.  (SMT takes one field at a time.)
LEMMA ExceptField ==
  ASSUME NEW t, IsTable(t), NEW x
  PROVE
    /\ [t EXCEPT !.jobs = x] =
           [jobs |-> x, pid_to_job |-> t.pid_to_job, completed_statuses |-> t.completed_statuses,
            current_job |-> t.current_job, previous_job |-> t.previous_job, next_job_id |-> t.next_job_id]
    /\ [t EXCEPT !.pid_to_job = x] =
           [jobs |-> t.jobs, pid_to_job |-> x, completed_statuses |-> t.completed_statuses,
            current_job |-> t.current_job, previous_job |-> t.previous_job, next_job_id |-> t.next_job_id]
    /\ [t EXCEPT !.completed_statuses = x] =
           [jobs |-> t.jobs, pid_to_job |-> t.pid_to_job, completed_statuses |-> x,
            current_job |-> t.current_job, previous_job |-> t.previous_job, next_job_id |-> t.next_job_id]
    /\ [t EXCEPT !.current_job = x] =
           [jobs |-> t.jobs, pid_to_job |-> t.pid_to_job, completed_statuses |-> t.completed_statuses,
            current_job |-> x, previous_job |-> t.previous_job, next_job_id |-> t.next_job_id]
    /\ [t EXCEPT !.previous_job = x] =
           [jobs |-> t.jobs, pid_to_job |-> t.pid_to_job, completed_statuses |-> t.completed_statuses,
            current_job |-> t.current_job, previous_job |-> x, next_job_id |-> t.next_job_id]
    /\ [t EXCEPT !.next_job_id = x] =
           [jobs |-> t.jobs, pid_to_job |-> t.pid_to_job, completed_statuses |-> t.completed_statuses,
            current_job |-> t.current_job, previous_job |-> t.previous_job, next_job_id |-> x]
  BY DEF IsTable

\* A record with the fields of a table is one.
LEMMA RecordIsTable ==
  ASSUME NEW a, NEW b, NEW c, NEW d, NEW e, NEW f
  PROVE  IsTable([jobs |-> a, pid_to_job |-> b, completed_statuses |-> c,
                  current_job |-> d, previous_job |-> e, next_job_id |-> f])
  BY DEF IsTable

\* The empty table is sound.
LEMMA EmptyTableSound == Sound(EmptyTable)
  BY JobIdMaxAssumption
  DEF EmptyTable, Sound, IsTable, WellFormedTable, IndexMatchesJobs, IdsGivenOut,
      NextId, NoJob, JobIds

\* A job whose summary has just been recomputed is well formed and current.
LEMMA RecomputedSound ==
  ASSUME NEW pids \in Seq(Pids), pids # << >>,
         NEW processes, DOMAIN processes = Range(pids),
         \A p \in Range(pids) : processes[p] \in ProcessEntry,
         \A p \in Range(pids) :
            processes[p].state = "Completed" => processes[p].exit_status # NoStatus
  PROVE  /\ WellFormedJob(Recomputed(pids, processes))
         /\ SummaryMatchesProcesses(Recomputed(pids, processes))
<1>1. pids[Len(pids)] \in Range(pids)
  BY DEF Range
<1>2. JobStateOf(processes) \in ProcessStates
  BY DEF JobStateOf, ProcessStates
<1>3. WellFormedJob(Recomputed(pids, processes))
  BY <1>1, <1>2 DEF WellFormedJob, Recomputed, ProcessEntry
<1>4. SummaryMatchesProcesses(Recomputed(pids, processes))
  <2> DEFINE states == {processes[p].state : p \in DOMAIN processes}
  <2>1. states \subseteq ProcessStates
    BY DEF ProcessEntry
  <2>2. states # {}
    BY <1>1
  <2>3. \A st : (\E p \in DOMAIN processes : processes[p].state = st) <=> st \in states
    OBVIOUS
  <2>4. /\ JobStateOf(processes) = "Running" <=> "Running" \in states
        /\ JobStateOf(processes) = "Completed" <=> states = {"Completed"}
    BY <2>1, <2>2, <2>3 DEF JobStateOf, ProcessStates
  <2> QED
    BY <2>4 DEF SummaryMatchesProcesses, Recomputed
<1> QED BY <1>3, <1>4

\* A new job is well formed and its summary is current.
LEMMA NewJobSound ==
  ASSUME NEW pids \in Seq(Pids), pids # << >>
  PROVE  WellFormedJob(NewJob(pids)) /\ SummaryMatchesProcesses(NewJob(pids))
<1>1. pids[Len(pids)] \in Range(pids)
  BY DEF Range
<1> QED
  BY <1>1 DEF WellFormedJob, SummaryMatchesProcesses, NewJob, ProcessEntry, ProcessStates

\* An entry as mark_* writes it: well typed, with a status if it is Completed.
GoodEntry(e) == e \in ProcessEntry /\ (e.state = "Completed" => e.exit_status # NoStatus)

\* The entries of a sound job are good.
LEMMA EntriesGood ==
  ASSUME NEW job, WellFormedJob(job), SummaryMatchesProcesses(job)
  PROVE  \A p \in Range(job.pids) : GoodEntry(job.processes[p])
  BY DEF WellFormedJob, SummaryMatchesProcesses, GoodEntry

\* Changing process entries to good ones keeps every job of a sound table: its
\* pids, its form and its summary.
LEMMA MarkedJobsSound ==
  ASSUME NEW t, Sound(t), NEW new, \A p \in DOMAIN new : GoodEntry(new[p])
  PROVE  /\ DOMAIN MarkedJobs(t, new) = DOMAIN t.jobs
         /\ \A j \in DOMAIN t.jobs :
              /\ MarkedJobs(t, new)[j].pids = t.jobs[j].pids
              /\ WellFormedJob(MarkedJobs(t, new)[j])
              /\ SummaryMatchesProcesses(MarkedJobs(t, new)[j])
<1>1. DOMAIN MarkedJobs(t, new) = DOMAIN t.jobs
  BY DEF MarkedJobs
<1>2. ASSUME NEW j \in DOMAIN t.jobs
      PROVE  /\ MarkedJobs(t, new)[j].pids = t.jobs[j].pids
             /\ WellFormedJob(MarkedJobs(t, new)[j])
             /\ SummaryMatchesProcesses(MarkedJobs(t, new)[j])
  <2> DEFINE reached == {p \in DOMAIN new : p \in DOMAIN t.pid_to_job /\ t.pid_to_job[p] = j}
             old == t.jobs[j].processes
             processes == [p \in DOMAIN old |-> IF p \in reached THEN new[p] ELSE old[p]]
  <2>1. WellFormedJob(t.jobs[j]) /\ SummaryMatchesProcesses(t.jobs[j])
    BY DEF Sound, WellFormedTable
  <2>2. MarkedJobs(t, new)[j] =
          IF reached = {} THEN t.jobs[j] ELSE Recomputed(t.jobs[j].pids, processes)
    BY DEF MarkedJobs
  <2>3. CASE reached = {}
    BY <2>1, <2>2, <2>3
  <2>4. CASE reached # {}
    <3>1. \A p \in Range(t.jobs[j].pids) : GoodEntry(old[p])
      BY <2>1, EntriesGood
    <3>2. t.jobs[j].pids \in Seq(Pids) /\ t.jobs[j].pids # << >>
          /\ DOMAIN processes = Range(t.jobs[j].pids)
      BY <2>1 DEF WellFormedJob
    <3>3. \A p \in Range(t.jobs[j].pids) : GoodEntry(processes[p])
      BY <3>1, <3>2
    <3>4. MarkedJobs(t, new)[j] = Recomputed(t.jobs[j].pids, processes)
      BY <2>2, <2>4
    <3> HIDE DEF processes
    <3>5. /\ WellFormedJob(Recomputed(t.jobs[j].pids, processes))
          /\ SummaryMatchesProcesses(Recomputed(t.jobs[j].pids, processes))
      BY <3>2, <3>3, RecomputedSound DEF GoodEntry
    <3>6. Recomputed(t.jobs[j].pids, processes).pids = t.jobs[j].pids
      BY DEF Recomputed
    <3> QED BY <3>4, <3>5, <3>6
  <2> QED BY <2>3, <2>4
<1> QED BY <1>1, <1>2

\* A table that differs from a sound one in its jobs and statuses alone is sound
\* if its jobs are and have the pids they had.
LEMMA SameIndexSound ==
  ASSUME NEW t, Sound(t), NEW u, IsTable(u),
         u.pid_to_job = t.pid_to_job, u.current_job = t.current_job,
         u.previous_job = t.previous_job, u.next_job_id = t.next_job_id,
         DOMAIN u.jobs = DOMAIN t.jobs,
         \A j \in DOMAIN t.jobs :
            /\ u.jobs[j].pids = t.jobs[j].pids
            /\ WellFormedJob(u.jobs[j])
            /\ SummaryMatchesProcesses(u.jobs[j]),
         DOMAIN u.completed_statuses \subseteq Pids,
         \A p \in DOMAIN u.completed_statuses : u.completed_statuses[p] \in Statuses
  PROVE  Sound(u)
  BY DEF Sound, WellFormedTable, IndexMatchesJobs, IdsGivenOut, NextId

----------------------------------------------------------------------------
(* One lemma per method.                                                   *)

\* set_current_job to a job of the table.
LEMMA SetCurrentJobSound ==
  ASSUME NEW t, Sound(t), NEW id \in DOMAIN t.jobs
  PROVE  Sound(SetCurrentJob(t, id))
<1> DEFINE t1 == [t EXCEPT !.previous_job = t.current_job]
           u == [t1 EXCEPT !.current_job = id]
<1>1. t1 = [jobs |-> t.jobs, pid_to_job |-> t.pid_to_job,
            completed_statuses |-> t.completed_statuses, current_job |-> t.current_job,
            previous_job |-> t.current_job, next_job_id |-> t.next_job_id]
  BY ExceptField DEF Sound
<1> HIDE DEF t1
<1>2. u = [jobs |-> t.jobs, pid_to_job |-> t.pid_to_job,
           completed_statuses |-> t.completed_statuses, current_job |-> id,
           previous_job |-> t.current_job, next_job_id |-> t.next_job_id]
  <2>1. IsTable(t1)
    BY <1>1, RecordIsTable
  <2>2. u = [jobs |-> t1.jobs, pid_to_job |-> t1.pid_to_job,
             completed_statuses |-> t1.completed_statuses, current_job |-> id,
             previous_job |-> t1.previous_job, next_job_id |-> t1.next_job_id]
    BY <2>1, ExceptField
  <2> QED BY <1>1, <2>2
<1> HIDE DEF u
<1>3. Sound(u)
  BY <1>2, RecordIsTable DEF Sound, WellFormedTable, IndexMatchesJobs, IdsGivenOut, NextId
<1> QED BY <1>3 DEF SetCurrentJob, u, t1

\* register_pipeline of pids no job has, while ids are left.
LEMMA RegisterPipelineSound ==
  ASSUME NEW t, Sound(t), NEW pids \in Seq(Pids), pids # << >>,
         IdsLeft(t), Unowned(t, pids)
  PROVE  Sound(RegisterPipeline(t, pids))
<1> DEFINE id == NextId(t)
           jobs == [j \in DOMAIN t.jobs \cup {id} |->
                      IF j = id THEN NewJob(pids) ELSE t.jobs[j]]
           index == [p \in DOMAIN t.pid_to_job \cup Range(pids) |->
                       IF p \in Range(pids) THEN id ELSE t.pid_to_job[p]]
           t1 == [t EXCEPT !.next_job_id = SaturatingSucc(id)]
           t2 == [t1 EXCEPT !.jobs = jobs]
           u == [t2 EXCEPT !.pid_to_job = index]
<1>1. id \in JobIds /\ id < JobIdMax /\ SaturatingSucc(id) = id + 1 /\ id + 1 \in JobIds
  BY JobIdMaxAssumption DEF Sound, WellFormedTable, NextId, IdsLeft, SaturatingSucc, JobIds
<1>2. id \notin DOMAIN t.jobs
  BY <1>1 DEF Sound, IdsGivenOut, JobIds
<1>3. Range(pids) \subseteq Pids
  BY DEF Range
<1>4. WellFormedJob(NewJob(pids)) /\ SummaryMatchesProcesses(NewJob(pids)) /\ NewJob(pids).pids = pids
  BY NewJobSound DEF NewJob
<1>5. /\ DOMAIN jobs = DOMAIN t.jobs \cup {id}
      /\ jobs[id] = NewJob(pids)
      /\ \A j \in DOMAIN t.jobs : jobs[j] = t.jobs[j]
      /\ DOMAIN index = DOMAIN t.pid_to_job \cup Range(pids)
      /\ \A p \in Range(pids) : index[p] = id
      /\ \A p \in DOMAIN t.pid_to_job \ Range(pids) : index[p] = t.pid_to_job[p]
  BY <1>2
<1> HIDE DEF jobs, index
<1>11. u = [jobs |-> jobs, pid_to_job |-> index, completed_statuses |-> t.completed_statuses,
           current_job |-> t.current_job, previous_job |-> t.previous_job,
           next_job_id |-> id + 1]
  <2>1. t1 = [jobs |-> t.jobs, pid_to_job |-> t.pid_to_job,
              completed_statuses |-> t.completed_statuses, current_job |-> t.current_job,
              previous_job |-> t.previous_job, next_job_id |-> id + 1]
    BY <1>1, ExceptField DEF Sound
  <2> HIDE DEF t1
  <2>2. t2 = [jobs |-> jobs, pid_to_job |-> t.pid_to_job,
              completed_statuses |-> t.completed_statuses, current_job |-> t.current_job,
              previous_job |-> t.previous_job, next_job_id |-> id + 1]
    <3>1. IsTable(t1)
      BY <2>1, RecordIsTable
    <3>2. t2 = [jobs |-> jobs, pid_to_job |-> t1.pid_to_job,
                completed_statuses |-> t1.completed_statuses, current_job |-> t1.current_job,
                previous_job |-> t1.previous_job, next_job_id |-> t1.next_job_id]
      BY <3>1, ExceptField
    <3> QED BY <2>1, <3>2
  <2> HIDE DEF t2
  <2>3. IsTable(t2)
    BY <2>2, RecordIsTable
  <2>4. u = [jobs |-> t2.jobs, pid_to_job |-> index,
             completed_statuses |-> t2.completed_statuses, current_job |-> t2.current_job,
             previous_job |-> t2.previous_job, next_job_id |-> t2.next_job_id]
    BY <2>3, ExceptField
  <2> QED BY <2>2, <2>4
<1>12. IsTable(u)
  BY <1>11, RecordIsTable
<1> HIDE DEF u
<1>6. WellFormedTable(u)
  BY <1>1, <1>3, <1>4, <1>5, <1>11 DEF Sound, WellFormedTable
<1>7. IndexMatchesJobs(u)
  BY <1>2, <1>4, <1>5, <1>11 DEF Sound, IndexMatchesJobs, Unowned
<1>8. IdsGivenOut(u)
  BY <1>1, <1>5, <1>11 DEF Sound, IdsGivenOut, NextId, JobIds
<1>9. Sound(u)
  BY <1>4, <1>5, <1>6, <1>7, <1>8, <1>11, <1>12 DEF Sound
<1>10. id \in DOMAIN u.jobs
  BY <1>5, <1>11
<1> QED BY <1>9, <1>10, SetCurrentJobSound DEF RegisterPipeline, u, t1, t2, jobs, index

\* reap_finished of statuses of processes.
LEMMA ReapFinishedSound ==
  ASSUME NEW t, Sound(t), NEW finished, DOMAIN finished \subseteq Pids,
         \A p \in DOMAIN finished : finished[p] \in Statuses
  PROVE  Sound(ReapFinished(t, finished))
<1> DEFINE new == [p \in DOMAIN finished |-> [state |-> "Completed", exit_status |-> finished[p]]]
           statuses == [p \in DOMAIN t.completed_statuses \cup DOMAIN finished |->
                          IF p \in DOMAIN finished THEN finished[p] ELSE t.completed_statuses[p]]
           jobs == MarkedJobs(t, new)
           t1 == [t EXCEPT !.completed_statuses = statuses]
           u == [t1 EXCEPT !.jobs = jobs]
<1>1. \A p \in DOMAIN new : GoodEntry(new[p])
  BY NoStatusAssumption DEF GoodEntry, ProcessEntry, ProcessStates
<1> HIDE DEF new
<1>2. /\ DOMAIN MarkedJobs(t, new) = DOMAIN t.jobs
      /\ \A j \in DOMAIN t.jobs :
           /\ MarkedJobs(t, new)[j].pids = t.jobs[j].pids
           /\ WellFormedJob(MarkedJobs(t, new)[j])
           /\ SummaryMatchesProcesses(MarkedJobs(t, new)[j])
  BY <1>1, MarkedJobsSound
<1>3. /\ DOMAIN statuses \subseteq Pids
      /\ \A p \in DOMAIN statuses : statuses[p] \in Statuses
  BY DEF Sound, WellFormedTable
<1> HIDE DEF statuses, jobs
<1>4. u = [jobs |-> jobs, pid_to_job |-> t.pid_to_job, completed_statuses |-> statuses,
           current_job |-> t.current_job, previous_job |-> t.previous_job,
           next_job_id |-> t.next_job_id]
  <2>1. t1 = [jobs |-> t.jobs, pid_to_job |-> t.pid_to_job, completed_statuses |-> statuses,
              current_job |-> t.current_job, previous_job |-> t.previous_job,
              next_job_id |-> t.next_job_id]
    BY ExceptField DEF Sound
  <2> HIDE DEF t1
  <2>2. IsTable(t1)
    BY <2>1, RecordIsTable
  <2>3. u = [jobs |-> jobs, pid_to_job |-> t1.pid_to_job,
             completed_statuses |-> t1.completed_statuses, current_job |-> t1.current_job,
             previous_job |-> t1.previous_job, next_job_id |-> t1.next_job_id]
    BY <2>2, ExceptField
  <2> QED BY <2>1, <2>3
<1> HIDE DEF u
<1>5. Sound(u)
  BY <1>2, <1>3, <1>4, RecordIsTable, SameIndexSound DEF jobs
<1> QED BY <1>5 DEF ReapFinished, u, t1, statuses, jobs, new

\* mark_completed.
LEMMA MarkCompletedSound ==
  ASSUME NEW t, Sound(t), NEW p \in Pids, NEW s \in Statuses
  PROVE  Sound(MarkCompleted(t, p, s))
  BY ReapFinishedSound DEF MarkCompleted

\* What mark_stopped and mark_running share.
LEMMA InStateSound ==
  ASSUME NEW t, Sound(t), NEW p \in DOMAIN t.pid_to_job, NEW st \in {"Running", "Stopped"}
  PROVE  Sound([t EXCEPT !.jobs = MarkedJobs(t, InState(t, p, st))])
<1> DEFINE job == t.jobs[t.pid_to_job[p]]
           new == InState(t, p, st)
           u == [t EXCEPT !.jobs = MarkedJobs(t, new)]
<1>1. WellFormedJob(job) /\ SummaryMatchesProcesses(job) /\ p \in Range(job.pids)
  BY DEF Sound, WellFormedTable, IndexMatchesJobs
<1>2. job.processes[p] \in ProcessEntry
  BY <1>1 DEF WellFormedJob
<1>3. \A q \in DOMAIN new : GoodEntry(new[q])
  BY <1>2 DEF InState, GoodEntry, ProcessEntry, ProcessStates
<1> HIDE DEF new
<1>4. /\ DOMAIN MarkedJobs(t, new) = DOMAIN t.jobs
      /\ \A j \in DOMAIN t.jobs :
           /\ MarkedJobs(t, new)[j].pids = t.jobs[j].pids
           /\ WellFormedJob(MarkedJobs(t, new)[j])
           /\ SummaryMatchesProcesses(MarkedJobs(t, new)[j])
  BY <1>3, MarkedJobsSound
<1>5. /\ IsTable(u) /\ u.jobs = MarkedJobs(t, new)
      /\ u.pid_to_job = t.pid_to_job /\ u.current_job = t.current_job
      /\ u.previous_job = t.previous_job /\ u.next_job_id = t.next_job_id
      /\ u.completed_statuses = t.completed_statuses
  BY DEF Sound, IsTable
<1> HIDE DEF u
<1>6. Sound(u)
  BY <1>4, <1>5, SameIndexSound DEF Sound, WellFormedTable
<1> QED BY <1>6 DEF u, new

\* mark_stopped.
LEMMA MarkStoppedSound ==
  ASSUME NEW t, Sound(t), NEW p
  PROVE  Sound(MarkStopped(t, p))
  BY InStateSound DEF MarkStopped

\* mark_running, which also makes the job the current one.
LEMMA MarkRunningSound ==
  ASSUME NEW t, Sound(t), NEW p
  PROVE  Sound(MarkRunning(t, p))
<1> SUFFICES ASSUME p \in DOMAIN t.pid_to_job PROVE Sound(MarkRunning(t, p))
  BY DEF MarkRunning
<1> DEFINE u == [t EXCEPT !.jobs = MarkedJobs(t, InState(t, p, "Running"))]
<1>1. Sound(u)
  BY InStateSound
<1>2. t.pid_to_job[p] \in DOMAIN u.jobs
  BY DEF Sound, IsTable, IndexMatchesJobs, MarkedJobs
<1> HIDE DEF u
<1>3. Sound(SetCurrentJob(u, t.pid_to_job[p]))
  BY <1>1, <1>2, SetCurrentJobSound
<1> QED BY <1>3 DEF MarkRunning, u

\* What both removals share: the job, its pids and its name as %+ or %- go.
LEMMA DropJobSound ==
  ASSUME NEW t, Sound(t), NEW id \in DOMAIN t.jobs
  PROVE  Sound(DropJob(t, id))
<1> DEFINE u == DropJob(t, id)
           gone == Range(t.jobs[id].pids)
<1>1. /\ IsTable(u)
      /\ u.completed_statuses = t.completed_statuses
      /\ u.current_job \in {t.current_job, t.previous_job}
      /\ u.previous_job \in {t.previous_job, NoJob}
      /\ u.next_job_id = t.next_job_id
  BY RecordIsTable DEF DropJob
<1>2. /\ DOMAIN u.jobs = DOMAIN t.jobs \ {id}
      /\ \A j \in DOMAIN u.jobs : u.jobs[j] = t.jobs[j]
      /\ DOMAIN u.pid_to_job = DOMAIN t.pid_to_job \ gone
      /\ \A p \in DOMAIN u.pid_to_job : u.pid_to_job[p] = t.pid_to_job[p]
  BY DEF DropJob, Without, Restrict
<1> HIDE DEF u
<1>3. WellFormedTable(u)
  BY <1>1, <1>2 DEF Sound, WellFormedTable
<1>4. IndexMatchesJobs(u)
  <2>1. \A p \in DOMAIN u.pid_to_job : u.pid_to_job[p] # id
    BY <1>2 DEF Sound, IndexMatchesJobs
  <2>2. \A j \in DOMAIN u.jobs : \A p \in Range(u.jobs[j].pids) : p \notin gone
    BY <1>2 DEF Sound, IndexMatchesJobs
  <2> QED BY <1>2, <2>1, <2>2 DEF Sound, IndexMatchesJobs
<1>5. IdsGivenOut(u)
  BY <1>1, <1>2 DEF Sound, IdsGivenOut, NextId
<1> QED BY <1>1, <1>2, <1>3, <1>4, <1>5 DEF Sound, u

\* Statuses may leave a sound table.
LEMMA FewerStatusesSound ==
  ASSUME NEW t, Sound(t), NEW S
  PROVE  Sound([t EXCEPT !.completed_statuses = Without(t.completed_statuses, S)])
<1> DEFINE statuses == Without(t.completed_statuses, S)
           u == [t EXCEPT !.completed_statuses = statuses]
<1>1. /\ DOMAIN statuses \subseteq DOMAIN t.completed_statuses
      /\ \A p \in DOMAIN statuses : statuses[p] = t.completed_statuses[p]
  BY DEF Without, Restrict
<1> HIDE DEF statuses
<1>2. u = [jobs |-> t.jobs, pid_to_job |-> t.pid_to_job, completed_statuses |-> statuses,
           current_job |-> t.current_job, previous_job |-> t.previous_job,
           next_job_id |-> t.next_job_id]
  BY ExceptField DEF Sound
<1> HIDE DEF u
<1>3. Sound(u)
  BY <1>1, <1>2, RecordIsTable, SameIndexSound DEF Sound, WellFormedTable
<1> QED BY <1>3 DEF u, statuses

\* remove_job, of a job that may not exist.
LEMMA RemoveJobSound ==
  ASSUME NEW t, Sound(t), NEW id
  PROVE  Sound(RemoveJob(t, id))
<1> SUFFICES ASSUME id \in DOMAIN t.jobs PROVE Sound(RemoveJob(t, id))
  BY DEF RemoveJob
<1>1. Sound(DropJob(t, id))
  BY DropJobSound
<1>2. DropJob(t, id).completed_statuses = t.completed_statuses
  BY DEF DropJob
<1> HIDE DEF DropJob
<1>3. Sound([DropJob(t, id) EXCEPT !.completed_statuses =
               Without(DropJob(t, id).completed_statuses, Range(t.jobs[id].pids))])
  BY <1>1, FewerStatusesSound
<1> QED BY <1>2, <1>3 DEF RemoveJob

\* remove_job_by_pid.
LEMMA RemoveJobByPidSound ==
  ASSUME NEW t, Sound(t), NEW p
  PROVE  Sound(RemoveJobByPid(t, p))
  BY RemoveJobSound DEF RemoveJobByPid

\* remove_job_by_pid_preserve_status.
LEMMA RemoveJobByPidPreserveStatusSound ==
  ASSUME NEW t, Sound(t), NEW p
  PROVE  Sound(RemoveJobByPidPreserveStatus(t, p))
  BY DropJobSound DEF RemoveJobByPidPreserveStatus

\* wait_pid, wait_any and wait_all consume statuses and nothing else.
LEMMA WaitSound ==
  ASSUME NEW t, Sound(t), NEW p
  PROVE  /\ Sound(ForgetStatus(t, p))
         /\ Sound(WaitPid(t, p))
         /\ Sound(WaitAll(t))
  BY FewerStatusesSound DEF ForgetStatus, WaitPid, WaitAll

\* clear_jobs keeps next_job_id and nothing else.
LEMMA ClearJobsSound ==
  ASSUME NEW t, Sound(t)
  PROVE  Sound(ClearJobs(t))
<1>1. ClearJobs(t) =
        [jobs |-> [j \in {} |-> {}], pid_to_job |-> [p \in {} |-> NoJob],
         completed_statuses |-> [p \in {} |-> NoStatus], current_job |-> NoJob,
         previous_job |-> NoJob, next_job_id |-> t.next_job_id]
  BY DEF ClearJobs, EmptyTable
<1> QED
  BY <1>1, RecordIsTable, JobIdMaxAssumption
  DEF Sound, WellFormedTable, IndexMatchesJobs, IdsGivenOut, NextId, NoJob, JobIds

----------------------------------------------------------------------------
(* The theorems: any client that calls the methods in any order.           *)

\* Sound is an invariant of every client of the table.
THEOREM TableAlwaysSound == TableSpec => []Sound(client_table)
<1>1. TableInit => Sound(client_table)
  BY EmptyTableSound DEF TableInit
<1>2. Sound(client_table) /\ [TableNext]_client_table => Sound(client_table)'
  <2> SUFFICES ASSUME Sound(client_table), [TableNext]_client_table PROVE Sound(client_table')
    OBVIOUS
  <2>1. CASE Register
    BY <2>1, RegisterPipelineSound, PipelinesAssumption DEF Register
  <2>2. CASE Complete
    BY <2>2, MarkCompletedSound DEF Complete
  <2>3. CASE Stop
    BY <2>3, MarkStoppedSound DEF Stop
  <2>4. CASE Continue
    BY <2>4, MarkRunningSound DEF Continue
  <2>5. CASE Wait \/ WaitAny \/ WaitEvery
    BY <2>5, WaitSound DEF Wait, WaitAny, WaitEvery
  <2>6. CASE Remove \/ RemoveByPid \/ RemovePreserving
    BY <2>6, RemoveJobSound, RemoveJobByPidSound, RemoveJobByPidPreserveStatusSound
    DEF Remove, RemoveByPid, RemovePreserving
  <2>7. CASE Clear
    BY <2>7, ClearJobsSound DEF Clear
  <2>8. CASE UNCHANGED client_table
    BY <2>8
  <2> QED BY <2>1, <2>2, <2>3, <2>4, <2>5, <2>6, <2>7, <2>8 DEF TableNext
<1> QED BY <1>1, <1>2, PTL DEF TableSpec

\* The type invariant of the table.
THEOREM TableTypeCorrect == TableSpec => []TableTypeOK
<1>1. Sound(client_table) => TableTypeOK
  BY DEF Sound, TableTypeOK
<1> QED BY <1>1, TableAlwaysSound, PTL

\* pid_to_job and the jobs' pid lists agree, whatever a client calls.
THEOREM TableIndexConsistent == TableSpec => []IndexConsistent
<1>1. Sound(client_table) => IndexConsistent
  BY DEF Sound, IndexConsistent
<1> QED BY <1>1, TableAlwaysSound, PTL

\* No job's summary is behind its processes.
THEOREM TableSummariesCurrent == TableSpec => []SummariesCurrent
<1>1. Sound(client_table) => SummariesCurrent
  BY DEF Sound, SummariesCurrent
<1> QED BY <1>1, TableAlwaysSound, PTL

\* No id is given out twice, and none in %+ or %- is still to come.
THEOREM TableNoIdReused == TableSpec => []NoIdReused
<1>1. Sound(client_table) => NoIdReused
  BY DEF Sound, NoIdReused
<1> QED BY <1>1, TableAlwaysSound, PTL

----------------------------------------------------------------------------
(* The inductive invariant.                                                *)

\* The types of the shell's variables and of the host's.
ShellTyped ==
  /\ background_children \subseteq OSPids /\ background_jobs \subseteq OSPids
  /\ last_background_pid \in Pids \cup {NoPid}
  /\ phase \in Phases /\ todo \in Seq(Pids)
  /\ os \in [OSPids -> OSStates] /\ exit \in [OSPids -> Statuses \cup {NoStatus}]
  /\ forwarder \in [OSPids -> ForwarderStates] /\ released \subseteq Pids

\* A job has one process, one the shell started.
OnePidEach(t) ==
  /\ DOMAIN t.pid_to_job \subseteq OSPids
  /\ \A p, q \in DOMAIN t.pid_to_job : t.pid_to_job[p] = t.pid_to_job[q] => p = q
  /\ \A j \in DOMAIN t.jobs : Len(t.jobs[j].pids) = 1

\* Nothing is known of a process before it starts, and its status is there once
\* it has ended.
Born ==
  \A p \in OSPids :
    /\ os[p] = "unborn" =>
         p \notin background_children \cup background_jobs \cup DOMAIN job_table.pid_to_job
                  \cup DOMAIN job_table.completed_statuses \cup released
    /\ os[p] = "exited" <=> exit[p] # NoStatus

\* What a shell that waits is waiting for.
Blocked ==
  /\ phase \in {"boundary", "dispatch", "over"} <=> todo = << >>
  /\ phase = "fg" => \E p \in OSPids \ background_children : todo = <<p>> /\ os[p] # "unborn"
  /\ phase = "wait all" => DOMAIN job_table.pid_to_job \subseteq Range(todo) \cup Unrecorded

\* A process is held, settled or given up.
HeldApart == Held \cap (DOMAIN job_table.completed_statuses \cup released) = {}

\* A process has no forwarder before it starts; one whose forwarder's error was
\* reported has ended and is not held, and a status on record has none to wait for.
Forwarders ==
  \A p \in OSPids :
    /\ os[p] = "unborn" => forwarder[p] = "none"
    /\ forwarder[p] = "error" => os[p] = "exited" /\ p \notin Held
    /\ p \in DOMAIN job_table.completed_statuses => forwarder[p] = "none"

\* $! is the shell, a process that was started, or a substitution on record.
LastKnown ==
  last_background_pid \in Pids \ {ShellPid} =>
    \/ last_background_pid \in OSPids /\ os[last_background_pid] # "unborn"
    \/ last_background_pid \in DOMAIN job_table.completed_statuses \cup released

JobsInv ==
  /\ Sound(job_table) /\ OnePidEach(job_table)
  /\ ShellTyped /\ Born /\ Blocked /\ HeldApart /\ Forwarders
  /\ StatusesTrue /\ NothingLost /\ JobsAnswerable /\ LastKnown

----------------------------------------------------------------------------
(* What the methods of the table do to its index and its statuses.         *)

\* u has the jobs and the index of t: only summaries, statuses on record and the
\* jobs %+ and %- name may differ.
SameJobs(t, u) ==
  /\ u.pid_to_job = t.pid_to_job /\ DOMAIN u.jobs = DOMAIN t.jobs
  /\ \A j \in DOMAIN t.jobs : u.jobs[j].pids = t.jobs[j].pids

\* A table with the same jobs has one pid in each if the other has.
LEMMA OnePidSame ==
  ASSUME NEW t, NEW u, SameJobs(t, u), OnePidEach(t)
  PROVE  OnePidEach(u)
BY DEF SameJobs, OnePidEach

\* Recording statuses changes no job.
LEMMA TableReaped ==
  ASSUME NEW t, Sound(t), OnePidEach(t), NEW finished, DOMAIN finished \subseteq Pids,
         \A p \in DOMAIN finished : finished[p] \in Statuses
  PROVE  LET u == ReapFinished(t, finished)
         IN  /\ Sound(u) /\ OnePidEach(u) /\ SameJobs(t, u)
             /\ DOMAIN u.completed_statuses = DOMAIN t.completed_statuses \cup DOMAIN finished
             /\ \A p \in DOMAIN u.completed_statuses : u.completed_statuses[p] =
                  IF p \in DOMAIN finished THEN finished[p] ELSE t.completed_statuses[p]
<1> DEFINE new == [p \in DOMAIN finished |-> [state |-> "Completed", exit_status |-> finished[p]]]
           statuses == [p \in DOMAIN t.completed_statuses \cup DOMAIN finished |->
                          IF p \in DOMAIN finished THEN finished[p] ELSE t.completed_statuses[p]]
           jobs == MarkedJobs(t, new)
           t1 == [t EXCEPT !.completed_statuses = statuses]
           u == [t1 EXCEPT !.jobs = jobs]
<1>1. \A p \in DOMAIN new : GoodEntry(new[p])
  BY NoStatusAssumption DEF GoodEntry, ProcessEntry, ProcessStates
<1>2. u = ReapFinished(t, finished)
  BY DEF ReapFinished
<1>3. /\ DOMAIN statuses = DOMAIN t.completed_statuses \cup DOMAIN finished
      /\ \A p \in DOMAIN statuses : statuses[p] =
           IF p \in DOMAIN finished THEN finished[p] ELSE t.completed_statuses[p]
  OBVIOUS
<1> HIDE DEF new, statuses
<1>4. DOMAIN jobs = DOMAIN t.jobs /\ \A j \in DOMAIN t.jobs : jobs[j].pids = t.jobs[j].pids
  BY <1>1, MarkedJobsSound
<1> HIDE DEF jobs
<1>5. IsTable(t) /\ IsTable(t1) /\ t1.pid_to_job = t.pid_to_job /\ t1.completed_statuses = statuses
  BY DEF IsTable, Sound
<1> HIDE DEF t1
<1>6. u.jobs = jobs /\ u.pid_to_job = t1.pid_to_job /\ u.completed_statuses = t1.completed_statuses
  BY <1>5 DEF IsTable
<1> HIDE DEF u
<1>7. SameJobs(t, u)
  BY <1>4, <1>5, <1>6 DEF SameJobs
<1>8. Sound(u)
  BY <1>2, ReapFinishedSound
<1> QED BY <1>2, <1>3, <1>5, <1>6, <1>7, <1>8, OnePidSame

\* mark_completed, of one process.
LEMMA TableCompleted ==
  ASSUME NEW t, Sound(t), OnePidEach(t), NEW p \in Pids, NEW s \in Statuses
  PROVE  LET u == MarkCompleted(t, p, s)
         IN  /\ Sound(u) /\ OnePidEach(u) /\ SameJobs(t, u)
             /\ DOMAIN u.completed_statuses = DOMAIN t.completed_statuses \cup {p}
             /\ u.completed_statuses[p] = s
             /\ \A q \in DOMAIN t.completed_statuses \ {p} :
                  u.completed_statuses[q] = t.completed_statuses[q]
<1> DEFINE finished == [q \in {p} |-> s]
<1>1. DOMAIN finished = {p} /\ finished[p] = s
  OBVIOUS
<1> HIDE DEF finished
<1>2. LET u == ReapFinished(t, finished)
      IN  /\ Sound(u) /\ OnePidEach(u) /\ SameJobs(t, u)
          /\ DOMAIN u.completed_statuses = DOMAIN t.completed_statuses \cup DOMAIN finished
          /\ \A q \in DOMAIN u.completed_statuses : u.completed_statuses[q] =
               IF q \in DOMAIN finished THEN finished[q] ELSE t.completed_statuses[q]
  BY <1>1, TableReaped
<1>3. MarkCompleted(t, p, s) = ReapFinished(t, finished)
  BY DEF MarkCompleted, finished
<1> QED BY <1>1, <1>2, <1>3

\* set_current_job changes neither jobs nor index nor statuses.
LEMMA CurrentSet ==
  ASSUME NEW u, IsTable(u), NEW id
  PROVE  /\ SetCurrentJob(u, id).pid_to_job = u.pid_to_job /\ SetCurrentJob(u, id).jobs = u.jobs
         /\ SetCurrentJob(u, id).completed_statuses = u.completed_statuses
<1> DEFINE v == [u EXCEPT !.previous_job = u.current_job]
           w == [v EXCEPT !.current_job = id]
<1>1. IsTable(v) /\ v.pid_to_job = u.pid_to_job /\ v.jobs = u.jobs
      /\ v.completed_statuses = u.completed_statuses
  BY DEF IsTable
<1> HIDE DEF v
<1>2. w.pid_to_job = v.pid_to_job /\ w.jobs = v.jobs /\ w.completed_statuses = v.completed_statuses
  BY <1>1 DEF IsTable
<1>3. SetCurrentJob(u, id) = u \/ SetCurrentJob(u, id) = w
  BY DEF SetCurrentJob, v
<1> HIDE DEF w
<1> QED BY <1>1, <1>2, <1>3

\* mark_running and mark_stopped change no status on record.
LEMMA TableMarked ==
  ASSUME NEW t, Sound(t), OnePidEach(t), NEW p
  PROVE  /\ Sound(MarkRunning(t, p)) /\ OnePidEach(MarkRunning(t, p))
         /\ SameJobs(t, MarkRunning(t, p))
         /\ MarkRunning(t, p).completed_statuses = t.completed_statuses
         /\ Sound(MarkStopped(t, p)) /\ OnePidEach(MarkStopped(t, p))
         /\ SameJobs(t, MarkStopped(t, p))
         /\ MarkStopped(t, p).completed_statuses = t.completed_statuses
<1>1. CASE p \notin DOMAIN t.pid_to_job
  BY <1>1, MarkRunningSound, MarkStoppedSound DEF MarkRunning, MarkStopped, SameJobs
<1>2. ASSUME p \in DOMAIN t.pid_to_job, NEW st \in {"Running", "Stopped"}
      PROVE  LET u == [t EXCEPT !.jobs = MarkedJobs(t, InState(t, p, st))]
             IN  IsTable(u) /\ SameJobs(t, u) /\ u.completed_statuses = t.completed_statuses
  <2> DEFINE new == InState(t, p, st)
             u == [t EXCEPT !.jobs = MarkedJobs(t, new)]
             job == t.jobs[t.pid_to_job[p]]
  <2>1. WellFormedJob(job) /\ SummaryMatchesProcesses(job) /\ p \in Range(job.pids)
    BY <1>2 DEF Sound, WellFormedTable, IndexMatchesJobs
  <2>2. job.processes[p] \in ProcessEntry
    BY <2>1 DEF WellFormedJob
  <2>3. \A q \in DOMAIN new : GoodEntry(new[q])
    BY <2>2 DEF InState, GoodEntry, ProcessEntry, ProcessStates
  <2> HIDE DEF new
  <2>4. /\ DOMAIN MarkedJobs(t, new) = DOMAIN t.jobs
        /\ \A j \in DOMAIN t.jobs : MarkedJobs(t, new)[j].pids = t.jobs[j].pids
    BY <2>3, MarkedJobsSound
  <2>5. /\ IsTable(u) /\ u.jobs = MarkedJobs(t, new) /\ u.pid_to_job = t.pid_to_job
        /\ u.completed_statuses = t.completed_statuses
    BY DEF IsTable, Sound
  <2> HIDE DEF u
  <2>6. SameJobs(t, u)
    BY <2>4, <2>5 DEF SameJobs
  <2> QED BY <2>5, <2>6 DEF u, new
<1>3. CASE p \in DOMAIN t.pid_to_job
  <2>1. /\ SameJobs(t, MarkRunning(t, p))
        /\ MarkRunning(t, p).completed_statuses = t.completed_statuses
    <3> DEFINE u == [t EXCEPT !.jobs = MarkedJobs(t, InState(t, p, "Running"))]
    <3>1. IsTable(u) /\ SameJobs(t, u) /\ u.completed_statuses = t.completed_statuses
      BY <1>2, <1>3
    <3>2. MarkRunning(t, p) = SetCurrentJob(u, t.pid_to_job[p])
      BY <1>3 DEF MarkRunning
    <3> HIDE DEF u
    <3> QED BY <3>1, <3>2, CurrentSet DEF SameJobs
  <2>2. /\ SameJobs(t, MarkStopped(t, p))
        /\ MarkStopped(t, p).completed_statuses = t.completed_statuses
    BY <1>2, <1>3 DEF MarkStopped
  <2> QED BY <2>1, <2>2, MarkRunningSound, MarkStoppedSound, OnePidSame
<1> QED BY <1>1, <1>3

\* register_process gives the process a job of its own.
LEMMA TableRegistered ==
  ASSUME NEW t, Sound(t), OnePidEach(t), NEW p \in OSPids, p \notin DOMAIN t.pid_to_job, IdsLeft(t)
  PROVE  LET u == RegisterProcess(t, p)
         IN  /\ Sound(u) /\ OnePidEach(u)
             /\ DOMAIN u.pid_to_job = DOMAIN t.pid_to_job \cup {p}
             /\ u.completed_statuses = t.completed_statuses
<1> DEFINE pids == <<p>>
           id == NextId(t)
           jobs == [j \in DOMAIN t.jobs \cup {id} |->
                      IF j = id THEN NewJob(pids) ELSE t.jobs[j]]
           index == [q \in DOMAIN t.pid_to_job \cup Range(pids) |->
                       IF q \in Range(pids) THEN id ELSE t.pid_to_job[q]]
           t1 == [t EXCEPT !.next_job_id = SaturatingSucc(id)]
           t2 == [t1 EXCEPT !.jobs = jobs]
           t3 == [t2 EXCEPT !.pid_to_job = index]
           u == SetCurrentJob(t3, id)
<1>1. u = RegisterProcess(t, p)
  BY DEF RegisterProcess, RegisterPipeline
<1>2. pids \in Seq(Pids) /\ pids # << >> /\ Range(pids) = {p} /\ Len(pids) = 1
  BY PidsAssumption DEF Range
<1>3. id \notin DOMAIN t.jobs /\ id \in Nat
  BY JobIdMaxAssumption DEF Sound, IdsGivenOut, WellFormedTable, NextId, JobIds
<1>4. /\ DOMAIN jobs = DOMAIN t.jobs \cup {id} /\ jobs[id] = NewJob(pids)
      /\ \A j \in DOMAIN t.jobs : jobs[j] = t.jobs[j]
  BY <1>3
<1>5. /\ DOMAIN index = DOMAIN t.pid_to_job \cup {p} /\ index[p] = id
      /\ \A q \in DOMAIN t.pid_to_job : index[q] = t.pid_to_job[q]
  BY <1>2
<1>6. NewJob(pids).pids = pids
  BY DEF NewJob
<1>7. Sound(u)
  BY <1>1, <1>2, RegisterPipelineSound DEF RegisterProcess, Unowned
<1> HIDE DEF jobs, index, id
<1>8. IsTable(t1) /\ t1.completed_statuses = t.completed_statuses
  BY DEF IsTable, Sound
<1> HIDE DEF t1
<1>9. IsTable(t2) /\ t2.jobs = jobs /\ t2.completed_statuses = t.completed_statuses
  BY <1>8 DEF IsTable
<1> HIDE DEF t2
<1>10. IsTable(t3) /\ t3.jobs = jobs /\ t3.completed_statuses = t.completed_statuses
       /\ t3.pid_to_job = index
  BY <1>9 DEF IsTable
<1> HIDE DEF t3
<1>11. u.jobs = jobs /\ u.pid_to_job = index /\ u.completed_statuses = t.completed_statuses
  BY <1>10, CurrentSet
<1> HIDE DEF u
<1>12. \A q \in DOMAIN t.pid_to_job : t.pid_to_job[q] # id
  BY <1>3 DEF Sound, IndexMatchesJobs
<1>13. OnePidEach(u)
  <2>1. DOMAIN u.pid_to_job \subseteq OSPids
    BY <1>5, <1>11 DEF OnePidEach
  <2>2. \A q, r \in DOMAIN u.pid_to_job : u.pid_to_job[q] = u.pid_to_job[r] => q = r
    BY <1>5, <1>11, <1>12 DEF OnePidEach
  <2>3. \A j \in DOMAIN u.jobs : Len(u.jobs[j].pids) = 1
    BY <1>2, <1>4, <1>6, <1>11 DEF OnePidEach
  <2> QED BY <2>1, <2>2, <2>3 DEF OnePidEach
<1> QED BY <1>1, <1>5, <1>7, <1>11, <1>13

\* A job of one pid that goes takes this pid from the index and nothing else.
LEMMA TableDropped ==
  ASSUME NEW t, Sound(t), OnePidEach(t), NEW p \in DOMAIN t.pid_to_job
  PROVE  LET u == DropJob(t, t.pid_to_job[p])
         IN  /\ t.pid_to_job[p] \in DOMAIN t.jobs
             /\ Range(t.jobs[t.pid_to_job[p]].pids) = {p}
             /\ IsTable(u) /\ Sound(u) /\ OnePidEach(u)
             /\ DOMAIN u.pid_to_job = DOMAIN t.pid_to_job \ {p}
             /\ u.completed_statuses = t.completed_statuses
<1> DEFINE id == t.pid_to_job[p]
           u == DropJob(t, id)
<1>1. id \in DOMAIN t.jobs /\ p \in Range(t.jobs[id].pids)
  BY DEF Sound, IndexMatchesJobs
<1>2. \A q \in Range(t.jobs[id].pids) : q \in DOMAIN t.pid_to_job /\ t.pid_to_job[q] = id
  BY <1>1 DEF Sound, IndexMatchesJobs
<1>3. Range(t.jobs[id].pids) = {p}
  BY <1>1, <1>2 DEF OnePidEach
<1> HIDE DEF id
<1>4. /\ IsTable(u) /\ DOMAIN u.jobs = DOMAIN t.jobs \ {id}
      /\ \A j \in DOMAIN u.jobs : u.jobs[j] = t.jobs[j]
      /\ DOMAIN u.pid_to_job = DOMAIN t.pid_to_job \ Range(t.jobs[id].pids)
      /\ \A q \in DOMAIN u.pid_to_job : u.pid_to_job[q] = t.pid_to_job[q]
      /\ u.completed_statuses = t.completed_statuses
  BY RecordIsTable DEF DropJob, Without, Restrict
<1>5. Sound(u)
  BY <1>1, DropJobSound
<1> HIDE DEF u
<1>6. OnePidEach(u)
  BY <1>4 DEF OnePidEach
<1> QED BY <1>1, <1>3, <1>4, <1>5, <1>6 DEF u, id

\* remove_job_by_pid also takes the status.
LEMMA TableRemoved ==
  ASSUME NEW t, Sound(t), OnePidEach(t), NEW p
  PROVE  LET u == RemoveJobByPid(t, p)
         IN  /\ Sound(u) /\ OnePidEach(u)
             /\ DOMAIN u.pid_to_job = DOMAIN t.pid_to_job \ {p}
             /\ DOMAIN u.completed_statuses =
                  DOMAIN t.completed_statuses \ (IF p \in DOMAIN t.pid_to_job THEN {p} ELSE {})
             /\ \A q \in DOMAIN u.completed_statuses :
                  u.completed_statuses[q] = t.completed_statuses[q]
<1>1. CASE p \notin DOMAIN t.pid_to_job
  BY <1>1 DEF RemoveJobByPid
<1>2. CASE p \in DOMAIN t.pid_to_job
  <2> DEFINE d == DropJob(t, t.pid_to_job[p])
             statuses == Without(t.completed_statuses, {p})
             u == [d EXCEPT !.completed_statuses = statuses]
  <2>1. /\ t.pid_to_job[p] \in DOMAIN t.jobs /\ Range(t.jobs[t.pid_to_job[p]].pids) = {p}
        /\ IsTable(d) /\ OnePidEach(d) /\ DOMAIN d.pid_to_job = DOMAIN t.pid_to_job \ {p}
    BY <1>2, TableDropped
  <2>2. DOMAIN statuses = DOMAIN t.completed_statuses \ {p}
        /\ \A q \in DOMAIN statuses : statuses[q] = t.completed_statuses[q]
    BY DEF Without, Restrict
  <2>3. u = RemoveJobByPid(t, p)
    BY <1>2, <2>1 DEF RemoveJobByPid, RemoveJob
  <2> HIDE DEF d, statuses
  <2>4. u.jobs = d.jobs /\ u.pid_to_job = d.pid_to_job /\ u.completed_statuses = statuses
    BY <2>1 DEF IsTable
  <2> HIDE DEF u
  <2>5. Sound(u) /\ OnePidEach(u)
    BY <2>1, <2>3, <2>4, RemoveJobByPidSound DEF OnePidEach
  <2> QED BY <1>2, <2>1, <2>2, <2>3, <2>4, <2>5
<1> QED BY <1>1, <1>2

\* remove_job_by_pid_preserve_status leaves the statuses.
LEMMA TablePreserved ==
  ASSUME NEW t, Sound(t), OnePidEach(t), NEW p
  PROVE  LET u == RemoveJobByPidPreserveStatus(t, p)
         IN  /\ Sound(u) /\ OnePidEach(u)
             /\ DOMAIN u.pid_to_job = DOMAIN t.pid_to_job \ {p}
             /\ u.completed_statuses = t.completed_statuses
<1>1. CASE p \notin DOMAIN t.pid_to_job
  BY <1>1 DEF RemoveJobByPidPreserveStatus
<1>2. CASE p \in DOMAIN t.pid_to_job
  BY <1>2, TableDropped DEF RemoveJobByPidPreserveStatus
<1> QED BY <1>1, <1>2

\* wait_pid takes a status and leaves the jobs.
LEMMA TableWaited ==
  ASSUME NEW t, Sound(t), OnePidEach(t), NEW p
  PROVE  LET u == WaitPid(t, p)
         IN  /\ Sound(u) /\ OnePidEach(u) /\ u.pid_to_job = t.pid_to_job
             /\ DOMAIN u.completed_statuses = DOMAIN t.completed_statuses \ {p}
             /\ \A q \in DOMAIN u.completed_statuses :
                  u.completed_statuses[q] = t.completed_statuses[q]
<1> DEFINE statuses == Without(t.completed_statuses, {p})
           u == [t EXCEPT !.completed_statuses = statuses]
<1>1. u = WaitPid(t, p)
  BY DEF WaitPid, ForgetStatus
<1>2. DOMAIN statuses = DOMAIN t.completed_statuses \ {p}
      /\ \A q \in DOMAIN statuses : statuses[q] = t.completed_statuses[q]
  BY DEF Without, Restrict
<1> HIDE DEF statuses
<1>3. u.jobs = t.jobs /\ u.pid_to_job = t.pid_to_job /\ u.completed_statuses = statuses
  BY DEF Sound, IsTable
<1> HIDE DEF u
<1>4. Sound(u)
  BY <1>1, WaitSound
<1> QED BY <1>1, <1>2, <1>3, <1>4 DEF OnePidEach

\* clear_jobs leaves neither jobs nor statuses.
LEMMA TableCleared ==
  ASSUME NEW t, Sound(t)
  PROVE  LET u == ClearJobs(t)
         IN  /\ Sound(u) /\ OnePidEach(u) /\ DOMAIN u.pid_to_job = {} /\ DOMAIN u.completed_statuses = {}
<1>1. /\ ClearJobs(t).jobs = [j \in {} |-> {}] /\ ClearJobs(t).pid_to_job = [p \in {} |-> NoJob]
      /\ ClearJobs(t).completed_statuses = [p \in {} |-> NoStatus]
  BY DEF ClearJobs, EmptyTable
<1>2. Sound(ClearJobs(t))
  BY ClearJobsSound
<1> HIDE DEF ClearJobs
<1> QED BY <1>1, <1>2 DEF OnePidEach

----------------------------------------------------------------------------
(* The steps.                                                              *)

\* The initial state satisfies the invariant.
LEMMA JobsInit ==
  ASSUME Init
  PROVE  JobsInv
<1> USE DEF Init
<1>1. Sound(job_table)
  BY EmptyTableSound
<1>2. /\ DOMAIN job_table.jobs = {} /\ DOMAIN job_table.pid_to_job = {}
      /\ DOMAIN job_table.completed_statuses = {}
  BY DEF EmptyTable
<1>3. OnePidEach(job_table)
  BY <1>2 DEF OnePidEach
<1>4. ShellTyped
  BY DEF ShellTyped, Phases, OSStates, ForwarderStates
<1>5. Born
  BY <1>2 DEF Born
<1>6. Blocked
  BY DEF Blocked
<1>7. HeldApart /\ Forwarders
  BY <1>2 DEF HeldApart, Held, Forwarders
<1>8. StatusesTrue /\ NothingLost /\ JobsAnswerable
  BY <1>2 DEF StatusesTrue, NothingLost, JobsAnswerable
<1>9. LastKnown
  BY PidsAssumption DEF LastKnown
<1> QED BY <1>1, <1>3, <1>4, <1>5, <1>6, <1>7, <1>8, <1>9 DEF JobsInv

\* A step that leaves the forwarders alone leaves unrecorded what was, when it starts
\* no process, takes none in and records those only that have no forwarder.
LEMMA ForwardersKept ==
  ASSUME JobsInv, UNCHANGED forwarder,
         \A p \in OSPids :
           /\ os'[p] = "unborn" => os[p] = "unborn"
           /\ os[p] = "exited" => os'[p] = "exited"
           /\ p \in Held' => p \in Held
           /\ p \in DOMAIN job_table'.completed_statuses =>
                p \in DOMAIN job_table.completed_statuses \/ forwarder[p] = "none"
  PROVE  Forwarders' /\ Unrecorded' = Unrecorded
<1>1. Unrecorded' = Unrecorded
  BY DEF Unrecorded
<1>2. Forwarders'
  BY DEF JobsInv, Forwarders
<1> QED BY <1>1, <1>2

\* The table a refresh leaves that gets to some of the children that ended: they are
\* on record.
LEMMA ReapedTable ==
  ASSUME JobsInv, NEW S \in SUBSET Finished
  PROVE  /\ Sound(Reaped(S)) /\ OnePidEach(Reaped(S))
         /\ Reaped(S).pid_to_job = job_table.pid_to_job
         /\ DOMAIN Reaped(S).completed_statuses = DOMAIN job_table.completed_statuses \cup S
         /\ \A p \in DOMAIN Reaped(S).completed_statuses :
              Reaped(S).completed_statuses[p] =
                IF p \in S THEN exit[p] ELSE job_table.completed_statuses[p]
<1> DEFINE finished == [p \in S |-> exit[p]]
<1>1. DOMAIN finished \subseteq Pids /\ \A p \in DOMAIN finished : finished[p] \in Statuses
  BY PidsAssumption DEF JobsInv, ShellTyped, Born, Finished
<1>2. DOMAIN finished = S /\ \A p \in S : finished[p] = exit[p]
  OBVIOUS
<1>3. Reaped(S) = ReapFinished(job_table, finished)
  BY DEF Reaped
<1> HIDE DEF finished
<1>4. LET u == ReapFinished(job_table, finished)
      IN  /\ Sound(u) /\ OnePidEach(u) /\ SameJobs(job_table, u)
          /\ DOMAIN u.completed_statuses = DOMAIN job_table.completed_statuses \cup DOMAIN finished
          /\ \A p \in DOMAIN u.completed_statuses : u.completed_statuses[p] =
               IF p \in DOMAIN finished THEN finished[p] ELSE job_table.completed_statuses[p]
  BY <1>1, TableReaped DEF JobsInv
<1> QED BY <1>2, <1>3, <1>4 DEF SameJobs

\* The table of a refresh that gets to all of them.
LEMMA Refreshed ==
  ASSUME JobsInv
  PROVE  /\ Sound(RefreshedTable) /\ OnePidEach(RefreshedTable)
         /\ RefreshedTable.pid_to_job = job_table.pid_to_job
BY ReapedTable DEF RefreshedTable

\* A refresh keeps the invariant, whatever the shell goes on to wait for, also when it
\* loses some of the children to a forwarder's error.
LEMMA ReapStep ==
  ASSUME JobsInv, phase \in {"boundary", "dispatch"},
         NEW S \in SUBSET Finished, \A p \in S : JoinsWell(p),
         NEW lost \in SUBSET Finished, S \cap lost = {},
         job_table' = Reaped(S), background_children' = background_children \ (S \cup lost),
         forwarder' = [p \in OSPids |-> IF p \in lost THEN "error" ELSE forwarder[p]],
         UNCHANGED <<background_jobs, last_background_pid, os_vars, released>>,
         phase' \in Phases \ {"fg"}, todo' \in Seq(Pids), Blocked'
  PROVE  JobsInv'
<1> USE DEF os_vars
<1>1. /\ Sound(job_table') /\ OnePidEach(job_table')
      /\ job_table'.pid_to_job = job_table.pid_to_job
      /\ DOMAIN job_table'.completed_statuses = DOMAIN job_table.completed_statuses \cup S
      /\ \A p \in DOMAIN job_table'.completed_statuses : job_table'.completed_statuses[p] =
           IF p \in S THEN exit[p] ELSE job_table.completed_statuses[p]
  BY ReapedTable
<1>2. Held = background_children /\ Held' = background_children \ (S \cup lost)
  BY DEF Held
<1>3. \A p \in S \cup lost : p \in OSPids /\ p \in Held /\ os[p] = "exited"
  BY <1>2 DEF Finished, JobsInv, ShellTyped
<1>4. Unrecorded' = Unrecorded \cup lost
  BY <1>3 DEF Unrecorded
<1>5. ShellTyped'
  BY DEF JobsInv, ShellTyped, ForwarderStates
<1>6. Born'
  BY <1>1, <1>3 DEF JobsInv, Born
<1>7. HeldApart'
  BY <1>1, <1>2 DEF JobsInv, HeldApart
<1>8. Forwarders'
  <2>1. \A p \in S : forwarder[p] = "none"
    BY <1>3 DEF JoinsWell, JobsInv, Forwarders, ShellTyped, ForwarderStates
  <2>2. \A p \in lost : p \notin DOMAIN job_table'.completed_statuses
    BY <1>1, <1>3 DEF JobsInv, HeldApart
  <2> QED BY <1>1, <1>2, <1>3, <2>1, <2>2 DEF JobsInv, Forwarders
<1>9. StatusesTrue'
  BY <1>1, <1>3 DEF JobsInv, StatusesTrue
<1>10. NothingLost'
  BY <1>1, <1>2, <1>4 DEF JobsInv, NothingLost
<1>11. JobsAnswerable'
  BY <1>1, <1>2, <1>4 DEF JobsInv, JobsAnswerable
<1>12. LastKnown'
  BY <1>1 DEF JobsInv, LastKnown
<1> QED BY <1>1, <1>5, <1>6, <1>7, <1>8, <1>9, <1>10, <1>11, <1>12 DEF JobsInv

\* A refresh that joins every thread without error.
LEMMA RefreshStep ==
  ASSUME JobsInv, phase \in {"boundary", "dispatch"}, Refresh,
         UNCHANGED <<background_jobs, last_background_pid, os_vars, released>>,
         phase' \in Phases \ {"fg"}, todo' \in Seq(Pids), Blocked'
  PROVE  JobsInv'
<1>1. /\ \A p \in Finished : JoinsWell(p)
      /\ job_table' = Reaped(Finished) /\ forwarder' = forwarder
      /\ background_children' = background_children \ Finished
  BY DEF Refresh, RefreshedTable
<1>2. forwarder' = [p \in OSPids |-> IF p \in {} THEN "error" ELSE forwarder[p]]
  BY <1>1 DEF JobsInv, ShellTyped
<1>3. PICK S \in SUBSET Finished, lost \in SUBSET Finished : S = Finished /\ lost = {}
  OBVIOUS
<1>4. background_children' = background_children \ (S \cup lost) /\ S \cap lost = {}
  BY <1>1, <1>3
<1>5. /\ job_table' = Reaped(S) /\ \A p \in S : JoinsWell(p)
      /\ forwarder' = [p \in OSPids |-> IF p \in lost THEN "error" ELSE forwarder[p]]
  BY <1>1, <1>2, <1>3
<1> QED BY <1>4, <1>5, ReapStep

\* A refresh that a forwarder's error ends.
LEMMA RefreshFailsStep ==
  ASSUME JobsInv, RefreshFails
  PROVE  JobsInv'
<1>1. PICK failed \in Finished, S \in SUBSET Finished :
        /\ forwarder[failed] = "failed" /\ \A p \in S : JoinsWell(p)
        /\ job_table' = Reaped(S)
        /\ background_children' = background_children \ (S \cup {failed})
        /\ forwarder' = [forwarder EXCEPT ![failed] = "error"]
  BY DEF RefreshFails
<1>2. /\ phase \in {"boundary", "dispatch"} /\ phase' \in {"boundary", "over"} /\ todo' = << >>
      /\ UNCHANGED <<background_jobs, last_background_pid, os_vars, released>>
  BY DEF RefreshFails, Fail
<1>3. failed \in OSPids /\ failed \notin S
  BY <1>1 DEF Finished, JobsInv, ShellTyped, JoinsWell
<1>4. forwarder' = [p \in OSPids |-> IF p \in {failed} THEN "error" ELSE forwarder[p]]
  BY <1>1, <1>3 DEF JobsInv, ShellTyped
<1>5. phase' \in Phases \ {"fg"} /\ todo' \in Seq(Pids) /\ Blocked'
  <2>1. << >> \in Seq(Pids)
    OBVIOUS
  <2>2. Blocked'
    BY <1>2 DEF Blocked
  <2> QED BY <1>2, <2>1, <2>2 DEF Phases
<1>6. PICK lost \in SUBSET Finished : lost = {failed}
  BY <1>1
<1>7. S \cap lost = {} /\ background_children' = background_children \ (S \cup lost)
      /\ forwarder' = [p \in OSPids |-> IF p \in lost THEN "error" ELSE forwarder[p]]
  BY <1>1, <1>3, <1>4, <1>6
<1> QED BY <1>1, <1>2, <1>5, <1>7, ReapStep

\* A process that ends by itself.
LEMMA ProcessExitStep ==
  ASSUME JobsInv, NEW p \in OSPids, ProcessExit(p)
  PROVE  JobsInv'
<1>1. UNCHANGED <<shell_vars, control_vars, forwarder, released>>
  BY DEF ProcessExit
<1> USE <1>1 DEF shell_vars, control_vars
<1>2. /\ os[p] = "running" /\ os' = [os EXCEPT ![p] = "exited"]
      /\ \E s \in Statuses : exit' = [exit EXCEPT ![p] = s]
  BY DEF ProcessExit
<1>3. /\ os' \in [OSPids -> OSStates] /\ exit' \in [OSPids -> Statuses \cup {NoStatus}]
      /\ os'[p] = "exited" /\ exit'[p] # NoStatus
      /\ \A q \in OSPids \ {p} : os'[q] = os[q] /\ exit'[q] = exit[q]
  BY <1>2, NoStatusAssumption DEF JobsInv, ShellTyped, OSStates
<1>4. ShellTyped'
  BY <1>3 DEF JobsInv, ShellTyped
<1>5. Born'
  BY <1>3 DEF JobsInv, Born
<1>6. Blocked'
  BY <1>3 DEF JobsInv, Blocked, Unrecorded
<1>7. HeldApart' /\ Held' = Held
  BY DEF JobsInv, HeldApart, Held
<1>kept. Forwarders' /\ Unrecorded' = Unrecorded
  BY <1>3, <1>7, ForwardersKept
<1>8. StatusesTrue'
  BY <1>2, <1>3 DEF JobsInv, StatusesTrue
<1>9. NothingLost'
  BY <1>2, <1>3, <1>7, <1>kept DEF JobsInv, NothingLost
<1>10. JobsAnswerable'
  BY <1>7, <1>kept DEF JobsInv, JobsAnswerable
<1>11. LastKnown'
  BY <1>3 DEF JobsInv, LastKnown
<1> QED BY <1>kept, <1>4, <1>5, <1>6, <1>7, <1>8, <1>9, <1>10, <1>11 DEF JobsInv

\* A thread that ends leaves what the shell knows of its coproc.
LEMMA ForwarderEndsStep ==
  ASSUME JobsInv, NEW p \in OSPids, ForwarderEnds(p)
  PROVE  JobsInv'
<1>1. /\ forwarder[p] = "running"
      /\ \E result \in {"none", "failed"} : forwarder' = [forwarder EXCEPT ![p] = result]
      /\ UNCHANGED <<shell_vars, control_vars, os_vars, released>>
  BY DEF ForwarderEnds
<1> USE <1>1 DEF shell_vars, control_vars, os_vars
<1>2. /\ forwarder' \in [OSPids -> ForwarderStates] /\ forwarder'[p] \in {"none", "failed"}
      /\ \A q \in OSPids \ {p} : forwarder'[q] = forwarder[q]
  BY DEF JobsInv, ShellTyped, ForwarderStates
<1>3. Held' = Held /\ Unrecorded' = Unrecorded
  BY <1>2 DEF Held, Unrecorded
<1>4. ShellTyped' /\ Born' /\ Blocked' /\ HeldApart'
  BY <1>2, <1>3 DEF JobsInv, ShellTyped, Born, Blocked, HeldApart
<1>5. Forwarders'
  BY <1>2, <1>3 DEF JobsInv, Forwarders
<1>6. StatusesTrue' /\ NothingLost' /\ JobsAnswerable'
  BY <1>3 DEF JobsInv, StatusesTrue, NothingLost, JobsAnswerable
<1>7. LastKnown'
  BY DEF JobsInv, LastKnown
<1> QED BY <1>4, <1>5, <1>6, <1>7 DEF JobsInv

\* A shell that dispatches has its Childs and waits for nothing.
LEMMA HeldWhenDispatching ==
  ASSUME JobsInv, phase \in {"boundary", "dispatch"}
  PROVE  Held = background_children /\ todo = << >>
BY DEF JobsInv, Blocked, Held

\* A command that launches a process: `command &` or coproc.
LEMMA SpawnStep ==
  ASSUME JobsInv, ~PidReuse, NEW p \in OSPids, Spawn(p),
         NEW f \in {"running", Leftover(p)}, forwarder' = [forwarder EXCEPT ![p] = f],
         last_background_pid' \in {last_background_pid, p}
  PROVE  JobsInv'
<1>1. /\ os[p] = "unborn" /\ phase = "dispatch" /\ IdsLeft(job_table)
      /\ os' = [os EXCEPT ![p] = "running"] /\ exit' = [exit EXCEPT ![p] = NoStatus]
      /\ background_children' = background_children \cup {p}
      /\ background_jobs' = background_jobs \cup {p}
      /\ job_table' = RegisterProcess(job_table, p)
      /\ released' = released \ {p} /\ phase' = "boundary" /\ todo' = todo
  BY DEF Spawn, Available, Done
<1>2. p \notin background_children \cup background_jobs \cup DOMAIN job_table.pid_to_job
                \cup DOMAIN job_table.completed_statuses \cup released
  BY <1>1 DEF JobsInv, Born
<1>3. /\ Sound(job_table') /\ OnePidEach(job_table')
      /\ DOMAIN job_table'.pid_to_job = DOMAIN job_table.pid_to_job \cup {p}
      /\ job_table'.completed_statuses = job_table.completed_statuses
  BY <1>1, <1>2, TableRegistered DEF JobsInv
<1>4. /\ os' \in [OSPids -> OSStates] /\ exit' \in [OSPids -> Statuses \cup {NoStatus}]
      /\ os'[p] = "running" /\ exit'[p] = NoStatus
      /\ \A q \in OSPids \ {p} : os'[q] = os[q] /\ exit'[q] = exit[q]
  BY <1>1 DEF JobsInv, ShellTyped, OSStates
<1>5. released' = released /\ todo = << >> /\ Held = background_children
      /\ Held' = background_children \cup {p}
  BY <1>1, <1>2, HeldWhenDispatching DEF Held
<1>kept. Unrecorded' = Unrecorded /\ forwarder' \in [OSPids -> ForwarderStates] /\ Forwarders'
  <2>1. forwarder[p] = "none" /\ f \in {"none", "running"}
    BY <1>1 DEF JobsInv, Forwarders, Leftover
  <2>2. /\ forwarder' \in [OSPids -> ForwarderStates] /\ forwarder'[p] = f
        /\ \A q \in OSPids \ {p} : forwarder'[q] = forwarder[q]
    BY <2>1 DEF JobsInv, ShellTyped, ForwarderStates
  <2>3. Unrecorded' = Unrecorded
    BY <2>1, <2>2 DEF Unrecorded
  <2>4. Forwarders'
    BY <1>2, <1>3, <1>4, <1>5, <2>1, <2>2 DEF JobsInv, Forwarders
  <2> QED BY <2>2, <2>3, <2>4
<1>6. ShellTyped'
  BY <1>1, <1>4, <1>5, <1>kept, PidsAssumption DEF JobsInv, ShellTyped, Phases
<1>7. Born'
  BY <1>1, <1>2, <1>3, <1>4, <1>5 DEF JobsInv, Born
<1>8. Blocked'
  BY <1>1, <1>5 DEF Blocked
<1>9. HeldApart'
  BY <1>2, <1>3, <1>5 DEF JobsInv, HeldApart
<1>10. StatusesTrue'
  BY <1>2, <1>3, <1>4 DEF JobsInv, StatusesTrue
<1>11. NothingLost'
  BY <1>3, <1>4, <1>5, <1>kept DEF JobsInv, NothingLost
<1>12. JobsAnswerable'
  BY <1>2, <1>3, <1>5, <1>kept DEF JobsInv, JobsAnswerable
<1>13. LastKnown'
  BY <1>1, <1>3, <1>4, <1>5 DEF JobsInv, LastKnown
<1> QED BY <1>kept, <1>3, <1>6, <1>7, <1>8, <1>9, <1>10, <1>11, <1>12, <1>13 DEF JobsInv

\* A process substitution that ran inline puts a status on record.
LEMMA ProcessSubstitutionStep ==
  ASSUME JobsInv, NEW p \in ProcSubPids, ProcessSubstitution(p)
  PROVE  JobsInv'
<1>1. PICK s \in Statuses : job_table' = [job_table EXCEPT !.completed_statuses =
          [q \in DOMAIN @ \cup {p} |-> IF q = p THEN s ELSE @[q]]]
  BY DEF ProcessSubstitution
<1> DEFINE statuses == [q \in DOMAIN job_table.completed_statuses \cup {p} |->
                          IF q = p THEN s ELSE job_table.completed_statuses[q]]
<1>2. /\ phase = "dispatch" /\ last_background_pid' = p /\ phase' = "boundary" /\ todo' = todo
      /\ UNCHANGED <<background_children, background_jobs, os, exit, forwarder, released>>
      /\ p \notin released
  BY DEF ProcessSubstitution, Done, os_vars
<1>3. DOMAIN statuses = DOMAIN job_table.completed_statuses \cup {p}
      /\ \A q \in DOMAIN statuses :
           statuses[q] = IF q = p THEN s ELSE job_table.completed_statuses[q]
  OBVIOUS
<1>4. job_table' = [job_table EXCEPT !.completed_statuses = statuses]
  BY <1>1
<1> HIDE DEF statuses
<1>5. /\ IsTable(job_table') /\ job_table'.jobs = job_table.jobs
      /\ job_table'.pid_to_job = job_table.pid_to_job
      /\ job_table'.completed_statuses = statuses
      /\ job_table'.current_job = job_table.current_job
      /\ job_table'.previous_job = job_table.previous_job
      /\ job_table'.next_job_id = job_table.next_job_id
  BY <1>4 DEF IsTable, JobsInv, Sound
<1>6. p \in Pids \ OSPids
  BY DEF ProcSubPids
<1>7. Sound(job_table')
  BY <1>3, <1>5, <1>6
     DEF JobsInv, Sound, WellFormedTable, IndexMatchesJobs, IdsGivenOut, NextId
<1>8. OnePidEach(job_table')
  BY <1>5 DEF JobsInv, OnePidEach
<1>9. Held' = background_children /\ Held = background_children /\ todo = << >>
  BY <1>2, HeldWhenDispatching DEF Held
<1>kept. Forwarders' /\ Unrecorded' = Unrecorded
  BY <1>2, <1>3, <1>5, <1>6, <1>9, ForwardersKept
<1>10. ShellTyped'
  BY <1>2, <1>6 DEF JobsInv, ShellTyped, Phases
<1>11. Born'
  BY <1>2, <1>3, <1>5, <1>6 DEF JobsInv, Born
<1>12. Blocked'
  BY <1>2, <1>9 DEF Blocked
<1>13. HeldApart'
  BY <1>2, <1>3, <1>5, <1>6, <1>9 DEF JobsInv, HeldApart, ShellTyped
<1>14. StatusesTrue'
  BY <1>2, <1>3, <1>5, <1>6 DEF JobsInv, StatusesTrue
<1>15. NothingLost'
  BY <1>2, <1>3, <1>5, <1>9, <1>kept DEF JobsInv, NothingLost
<1>16. JobsAnswerable'
  BY <1>2, <1>3, <1>5, <1>9, <1>kept DEF JobsInv, JobsAnswerable
<1>17. LastKnown'
  BY <1>2, <1>3, <1>5 DEF LastKnown
<1> QED BY <1>kept, <1>7, <1>8, <1>10, <1>11, <1>12, <1>13, <1>14, <1>15, <1>16, <1>17 DEF JobsInv

\* A command that runs inline under `&` makes the shell itself $!.
LEMMA InlineBackgroundStep ==
  ASSUME JobsInv, InlineBackground
  PROVE  JobsInv'
<1>1. /\ phase = "dispatch" /\ phase' = "boundary"
      /\ last_background_pid' = ShellPid /\ ShellPid \in Pids
      /\ UNCHANGED <<job_table, background_children, background_jobs, os, exit, forwarder, released, todo>>
  BY PidsAssumption DEF InlineBackground, Done, os_vars
<1>2. Held' = Held /\ todo = << >>
  BY <1>1, HeldWhenDispatching DEF Held
<1>kept. Forwarders' /\ Unrecorded' = Unrecorded
  BY <1>1, <1>2, ForwardersKept
<1>3. ShellTyped' /\ Born' /\ Blocked' /\ HeldApart'
  BY <1>1, <1>2 DEF JobsInv, ShellTyped, Born, Blocked, HeldApart, Phases
<1>4. StatusesTrue' /\ NothingLost' /\ JobsAnswerable'
  BY <1>1, <1>2, <1>kept DEF JobsInv, StatusesTrue, NothingLost, JobsAnswerable
<1>5. LastKnown'
  BY <1>1 DEF LastKnown
<1> QED BY <1>kept, <1>1, <1>3, <1>4, <1>5 DEF JobsInv

----------------------------------------------------------------------------
(* The steps of wait.                                                      *)

\* Places s in their order.
InPlaces(s, places) ==
  /\ s \in [1 .. Cardinality(places) -> places]
  /\ \A i, k \in DOMAIN s : i < k =>
       s[i][1] < s[k][1] \/ (s[i][1] = s[k][1] /\ s[i][2] < s[k][2])

\* PlacesInOrder puts places in order if they can be.
LEMMA PlacesOrdered ==
  ASSUME NEW places, NEW s, InPlaces(s, places)
  PROVE  InPlaces(PlacesInOrder(places), places)
<1> DEFINE Sorted(x) == \A i, k \in DOMAIN x : i < k =>
             x[i][1] < x[k][1] \/ (x[i][1] = x[k][1] /\ x[i][2] < x[k][2])
           S == [1 .. Cardinality(places) -> places]
<1>1. s \in S /\ Sorted(s)
  BY DEF InPlaces
<1>2. PlacesInOrder(places) = CHOOSE x \in S : Sorted(x)
  BY DEF PlacesInOrder
<1>3. PlacesInOrder(places) \in S /\ Sorted(PlacesInOrder(places))
  <2> HIDE DEF S, Sorted
  <2> QED BY <1>1, <1>2
<1> QED BY <1>3 DEF InPlaces

\* The processes wait without operands waits for: those of all jobs.
LEMMA JobPidsOrdered ==
  ASSUME NEW t, Sound(t), OnePidEach(t)
  PROVE  /\ JobPidsInOrder(t) \in Seq(OSPids)
         /\ Range(JobPidsInOrder(t)) = DOMAIN t.pid_to_job
<1> DEFINE J == DOMAIN t.jobs
           places == UNION {{j} \X DOMAIN t.jobs[j].pids : j \in J}
<1>1. /\ J \subseteq 1 .. JobIdMax /\ JobIdMax \in Nat
      /\ \A j \in J : t.jobs[j].pids \in Seq(Pids) /\ Len(t.jobs[j].pids) = 1
  BY JobIdMaxAssumption DEF Sound, WellFormedTable, WellFormedJob, JobIds, OnePidEach
<1>2. \A j \in J : DOMAIN t.jobs[j].pids = {1} /\ Range(t.jobs[j].pids) = {t.jobs[j].pids[1]}
  BY <1>1 DEF Range
<1>3. places = {<<j, 1>> : j \in J}
  BY <1>2
<1>4. /\ \A j \in J : t.jobs[j].pids[1] \in DOMAIN t.pid_to_job
      /\ \A p \in DOMAIN t.pid_to_job : \E j \in J : p = t.jobs[j].pids[1]
  <2>1. ASSUME NEW j \in J PROVE t.jobs[j].pids[1] \in DOMAIN t.pid_to_job
    BY <1>2 DEF Sound, IndexMatchesJobs
  <2>2. ASSUME NEW p \in DOMAIN t.pid_to_job PROVE \E j \in J : p = t.jobs[j].pids[1]
    <3>1. t.pid_to_job[p] \in J /\ p \in Range(t.jobs[t.pid_to_job[p]].pids)
      BY DEF Sound, IndexMatchesJobs
    <3> QED BY <3>1, <1>2
  <2> QED BY <2>1, <2>2
<1> DEFINE c == Cardinality(J)
<1>5. IsFiniteSet(J) /\ c \in Nat
  <2>1. IsFiniteSet(1 .. JobIdMax)
    BY <1>1, FS_Interval
  <2> QED BY <1>1, <2>1, FS_Subset, FS_CardinalityType
<1>6. IsFiniteSet(places) /\ Cardinality(places) = c
  <2> DEFINE f == [j \in J |-> <<j, 1>>]
  <2>1. f \in Bijection(J, places)
    BY <1>3 DEF Bijection, Injection, Surjection, IsInjective
  <2>2. ExistsBijection(J, places)
    BY <2>1 DEF ExistsBijection
  <2> HIDE DEF J, places
  <2> QED BY <1>5, <2>2, FS_Bijection
<1>7. \E s : InPlaces(s, places)
  <2>1. PICK ids : Orders(ids, J)
    BY <1>1, OrderExists
  <2> DEFINE s == [i \in 1 .. c |-> <<ids[i], 1>>]
  <2>2. ids \in [1 .. c -> J] /\ \A i, k \in 1 .. c : i < k => ids[i] < ids[k]
    BY <2>1 DEF Orders, Increasing
  <2>3. InPlaces(s, places)
    BY <2>2, <1>3, <1>6 DEF InPlaces
  <2> QED BY <2>3
<1> DEFINE order == PlacesInOrder(places)
<1>8. InPlaces(order, places)
  BY <1>7, PlacesOrdered
<1>9. order \in [1 .. c -> places]
  BY <1>6, <1>8 DEF InPlaces
<1>10. order \in Injection(1 .. c, places)
  <2>1. ASSUME NEW i \in 1 .. c, NEW k \in 1 .. c, order[i] = order[k], i < k
        PROVE  FALSE
    <3>1. order[i] \in places /\ DOMAIN order = 1 .. c
      BY <1>9
    <3>2. order[i][1] \in Int /\ order[i][2] \in Int
      BY <1>1, <1>3, <3>1
    <3>3. order[i][1] < order[k][1] \/ (order[i][1] = order[k][1] /\ order[i][2] < order[k][2])
      BY <1>8, <2>1, <3>1 DEF InPlaces
    <3> HIDE DEF order
    <3> QED BY <2>1, <3>2, <3>3
  <2> HIDE DEF order
  <2>2. ASSUME NEW i \in 1 .. c, NEW k \in 1 .. c, order[i] = order[k]
        PROVE  i = k
    <3>1. i < k \/ k < i \/ i = k
      BY <1>5
    <3> QED BY <2>1, <2>2, <3>1
  <2> QED BY <1>9, <2>2 DEF Injection, IsInjective
<1>11. order \in Surjection(1 .. c, places)
  <2>1. IsFiniteSet(1 .. c) /\ Cardinality(1 .. c) = c
    BY <1>5, FS_Interval
  <2> HIDE DEF order, places, c
  <2> QED BY <1>6, <1>10, <2>1, FS_Injection
<1> DEFINE r == [i \in DOMAIN order |-> t.jobs[order[i][1]].pids[order[i][2]]]
<1>12. JobPidsInOrder(t) = r
  BY DEF JobPidsInOrder
<1>13. DOMAIN order = 1 .. c /\ \A i \in 1 .. c : \E j \in J : order[i] = <<j, 1>>
  BY <1>3, <1>9
<1>14. \A j \in J : \E i \in 1 .. c : order[i] = <<j, 1>>
  BY <1>3, <1>11 DEF Surjection
<1> HIDE DEF order, c
<1>15. /\ DOMAIN r = 1 .. c
       /\ \A i \in 1 .. c : r[i] \in DOMAIN t.pid_to_job
       /\ \A p \in DOMAIN t.pid_to_job : \E i \in 1 .. c : r[i] = p
  <2>1. DOMAIN r = 1 .. c /\ \A i \in 1 .. c : r[i] = t.jobs[order[i][1]].pids[order[i][2]]
    BY <1>13
  <2> HIDE DEF r
  <2>2. ASSUME NEW i \in 1 .. c PROVE r[i] \in DOMAIN t.pid_to_job
    BY <2>1, <1>4, <1>13
  <2>3. ASSUME NEW p \in DOMAIN t.pid_to_job PROVE \E i \in 1 .. c : r[i] = p
    <3>1. PICK j \in J : p = t.jobs[j].pids[1]
      BY <1>4
    <3>2. PICK i \in 1 .. c : order[i] = <<j, 1>>
      BY <1>14
    <3> QED BY <3>1, <3>2, <2>1
  <2> QED BY <2>1, <2>2, <2>3
<1>16. \A i \in 1 .. c : r[i] = r[i] /\ r[i] \in OSPids
  BY <1>15 DEF OnePidEach
<1>17. r \in Seq(OSPids)
  BY <1>5, <1>15, <1>16
<1>18. Range(r) = DOMAIN t.pid_to_job
  <2> HIDE DEF r
  <2> QED BY <1>15 DEF Range
<1> QED BY <1>12, <1>17, <1>18

\* What an operand names: a job's process, or one whose status is on record.
LEMMA Resolved ==
  ASSUME NEW t, Sound(t), OnePidEach(t), NEW operand
  PROVE  /\ ResolveOperand(t, operand) \in
              DOMAIN t.pid_to_job \cup DOMAIN t.completed_statuses \cup {NoPid}
         /\ ResolveRequested(t, operand) \in
              DOMAIN t.pid_to_job \cup DOMAIN t.completed_statuses \cup {NoPid}
         /\ operand \in JobSpecs => ResolveOperand(t, operand) \in DOMAIN t.pid_to_job \cup {NoPid}
         /\ operand \in DOMAIN t.pid_to_job => ResolveOperand(t, operand) = operand
<1>1. ASSUME NEW id \in DOMAIN t.jobs PROVE LastPid(t.jobs[id]) \in DOMAIN t.pid_to_job
  <2>1. t.jobs[id].pids \in Seq(Pids) /\ t.jobs[id].pids # << >>
    BY DEF Sound, WellFormedTable, WellFormedJob
  <2>2. LastPid(t.jobs[id]) \in Range(t.jobs[id].pids)
    BY <2>1 DEF LastPid, Range
  <2> QED BY <2>2 DEF Sound, IndexMatchesJobs
<1>2. ASSUME NEW id PROVE JobPid(t, id) \in DOMAIN t.pid_to_job \cup {NoPid}
  BY <1>1 DEF JobPid
<1>3. DOMAIN t.pid_to_job \cap JobSpecs = {}
  BY PidsAssumption DEF Sound, WellFormedTable
<1> QED BY <1>2, <1>3 DEF ResolveOperand, ResolveRequested

\* A shell that starts to wait: the processes are settled, then the table is reaped.
LEMMA StartWaitStep ==
  ASSUME JobsInv, NEW kind \in {"wait", "wait all", "wait -n"}, NEW pids \in Seq(Pids),
         kind = "wait all" => DOMAIN job_table.pid_to_job \subseteq Range(pids),
         StartWait(kind, pids)
  PROVE  JobsInv'
<1>1. /\ phase = "dispatch" /\ Refresh /\ job_table' = RefreshedTable
      /\ UNCHANGED <<background_jobs, last_background_pid, os_vars, released>>
      /\ IF pids = << >> THEN phase' = "boundary" /\ todo' = todo ELSE phase' = kind /\ todo' = pids
  BY DEF StartWait, Done, Refresh
<1>2. todo = << >> /\ todo \in Seq(Pids)
  BY <1>1, HeldWhenDispatching DEF JobsInv, ShellTyped
<1>3. phase' \in Phases \ {"fg"} /\ todo' \in Seq(Pids)
  BY <1>1, <1>2 DEF Phases
<1>4. job_table'.pid_to_job = job_table.pid_to_job
  BY <1>1, Refreshed
<1>5. Blocked'
  BY <1>1, <1>2, <1>4 DEF Blocked
<1> QED BY <1>1, <1>3, <1>5, RefreshStep

\* wait without operands.
LEMMA WaitAllJobsStep ==
  ASSUME JobsInv, WaitAllJobs
  PROVE  JobsInv'
<1> DEFINE pids == JobPidsInOrder(RefreshedTable)
<1>1. /\ Sound(RefreshedTable) /\ OnePidEach(RefreshedTable)
      /\ RefreshedTable.pid_to_job = job_table.pid_to_job
  BY Refreshed
<1>2. pids \in Seq(OSPids) /\ Range(pids) = DOMAIN job_table.pid_to_job
  BY <1>1, JobPidsOrdered
<1>3. StartWait("wait all", pids)
  BY DEF WaitAllJobs
<1> HIDE DEF pids
<1>4. pids \in Seq(Pids)
  BY <1>2, PidsAssumption
<1> QED BY <1>2, <1>3, <1>4, StartWaitStep

\* What an operand of wait names is a pid.
LEMMA ResolvedPid ==
  ASSUME JobsInv, NEW operand
  PROVE  ResolveOperand(RefreshedTable, operand) \in Pids \cup {NoPid}
<1>1. Sound(RefreshedTable) /\ OnePidEach(RefreshedTable)
  BY Refreshed
<1>2. ResolveOperand(RefreshedTable, operand) \in
        DOMAIN RefreshedTable.pid_to_job \cup DOMAIN RefreshedTable.completed_statuses \cup {NoPid}
  BY <1>1, Resolved
<1> QED BY <1>1, <1>2 DEF Sound, WellFormedTable

\* wait with operands.
LEMMA WaitOperandsStep ==
  ASSUME JobsInv, NEW operands \in OperandLists, WaitOperands(operands)
  PROVE  JobsInv'
<1> DEFINE pids == [i \in DOMAIN operands |-> ResolveOperand(RefreshedTable, operands[i])]
           places == {i \in DOMAIN pids : pids[i] # NoPid}
           found == InOrder(places)
           known == [i \in DOMAIN found |-> pids[found[i]]]
           chosen == IF known # << >> THEN known
                     ELSE IF Len(operands) = 1 /\ operands[1] \in Pids THEN operands ELSE << >>
<1>1. StartWait("wait", chosen)
  BY DEF WaitOperands
<1>2. PICK n \in Nat : operands \in [1 .. n -> Operands]
  BY MaxOperandsAssumption DEF OperandLists
<1>3. DOMAIN pids = DOMAIN operands /\ \A i \in DOMAIN pids : pids[i] \in Pids \cup {NoPid}
  BY ResolvedPid
<1> HIDE DEF pids
<1>4. places \in SUBSET (1 .. n) /\ \A i \in places : pids[i] \in Pids
  BY <1>2, <1>3
<1> HIDE DEF places
<1>5. found \in Seq(places)
  BY <1>4, InOrderOrders
<1> HIDE DEF found
<1>6. known \in Seq(Pids)
  <2>1. Len(found) \in Nat /\ DOMAIN found = 1 .. Len(found)
        /\ \A i \in 1 .. Len(found) : found[i] \in places
    BY <1>5
  <2>2. \A i \in 1 .. Len(found) : pids[found[i]] \in Pids
    BY <1>4, <2>1
  <2>3. known = [i \in 1 .. Len(found) |-> pids[found[i]]]
    BY <2>1
  <2> QED BY <2>1, <2>2, <2>3
<1> HIDE DEF known
<1>7. Len(operands) = 1 /\ operands[1] \in Pids => operands \in Seq(Pids)
  <2>1. operands \in Seq(Operands)
    BY <1>2
  <2> QED BY <2>1
<1>8. chosen \in Seq(Pids)
  BY <1>6, <1>7
<1> HIDE DEF chosen
<1> QED BY <1>1, <1>8, StartWaitStep

\* wait -n.
LEMMA WaitNextStep ==
  ASSUME JobsInv, NEW operand, WaitNext(operand)
  PROVE  JobsInv'
<1> DEFINE kind == IF operand = NoOperand THEN "wait -n" ELSE "wait"
           targets == WaitNextTargets(RefreshedTable, operand)
<1>1. (\E p \in targets : StartWait(kind, <<p>>)) \/ StartWait(kind, << >>)
  BY DEF WaitNext
<1>2. ASSUME NEW j \in DOMAIN RefreshedTable.jobs PROVE LastPid(RefreshedTable.jobs[j]) \in Pids
  <2>1. RefreshedTable.jobs[j].pids \in Seq(Pids) /\ RefreshedTable.jobs[j].pids # << >>
    BY Refreshed DEF Sound, WellFormedTable, WellFormedJob
  <2> QED BY <2>1 DEF LastPid
<1>3. DOMAIN RefreshedTable.completed_statuses \subseteq Pids
  BY Refreshed DEF Sound, WellFormedTable
<1>4. targets \subseteq Pids
  <2>1. CASE operand # NoOperand
    BY <2>1, ResolvedPid DEF WaitNextTargets
  <2>2. CASE operand = NoOperand
    BY <2>2, <1>2, <1>3 DEF WaitNextTargets
  <2> QED BY <2>1, <2>2
<1>5. kind \in {"wait", "wait all", "wait -n"} /\ kind # "wait all" /\ << >> \in Seq(Pids)
  OBVIOUS
<1> HIDE DEF kind, targets
<1>6. CASE StartWait(kind, << >>)
  BY <1>5, <1>6, StartWaitStep
<1>7. ASSUME NEW p \in targets, StartWait(kind, <<p>>) PROVE JobsInv'
  <2>1. <<p>> \in Seq(Pids)
    BY <1>4
  <2> QED BY <1>5, <1>7, <2>1, StartWaitStep
<1> QED BY <1>1, <1>6, <1>7

\* The first process of those still to wait for, and the others.
LEMMA HeadOfTodo ==
  ASSUME JobsInv, todo # << >>
  PROVE  /\ Head(todo) \in Pids /\ Tail(todo) \in Seq(Pids)
         /\ Range(todo) = {Head(todo)} \cup Range(Tail(todo))
<1>1. todo \in Seq(Pids)
  BY DEF JobsInv, ShellTyped
<1>2. /\ Head(todo) \in Pids /\ Tail(todo) \in Seq(Pids) /\ Len(Tail(todo)) = Len(todo) - 1
      /\ \A i \in 1 .. Len(Tail(todo)) : Tail(todo)[i] = todo[i + 1]
  BY <1>1, HeadTailProperties
<1>3. Len(todo) \in Nat \ {0} /\ Head(todo) = todo[1]
  BY <1>1
<1> DEFINE n == Len(todo)
           tail == Tail(todo)
<1>4. DOMAIN todo = 1 .. n /\ DOMAIN tail = 1 .. n - 1
  BY <1>1, <1>2
<1>5. ASSUME NEW i \in 1 .. n PROVE todo[i] \in {todo[1]} \cup Range(tail)
  <2>1. CASE i = 1
    BY <2>1
  <2>2. CASE i # 1
    <3>1. i - 1 \in 1 .. n - 1 /\ (i - 1) + 1 = i
      BY <1>3, <2>2
    <3>2. tail[i - 1] = todo[i]
      BY <1>2, <3>1
    <3> QED BY <1>4, <3>1, <3>2 DEF Range
  <2> QED BY <2>1, <2>2
<1>6. ASSUME NEW i \in 1 .. n - 1 PROVE tail[i] \in Range(todo)
  <2>1. tail[i] = todo[i + 1] /\ i + 1 \in 1 .. n
    BY <1>2, <1>3
  <2> QED BY <1>4, <2>1 DEF Range
<1>7. todo[1] \in Range(todo)
  BY <1>3, <1>4 DEF Range
<1>8. Range(todo) \subseteq {todo[1]} \cup Range(tail)
  BY <1>4, <1>5 DEF Range
<1>9. Range(tail) \subseteq Range(todo)
  BY <1>4, <1>6 DEF Range
<1> QED BY <1>2, <1>3, <1>7, <1>8, <1>9

\* A shell that waits waits for something, and fg's Child is not in its hands.
LEMMA WaitingFor ==
  ASSUME JobsInv, Waiting
  PROVE  todo # << >> /\ Held = background_children
BY DEF JobsInv, Blocked, Waiting, Held

\* The shell goes on to the next process it waits for.
LEMMA AdvanceWaitTyped ==
  ASSUME JobsInv, Waiting, AdvanceWait
  PROVE  /\ phase' \in Phases \ {"fg"} /\ todo' \in Seq(Pids) /\ todo' = Tail(todo)
         /\ phase' \in {"boundary", "dispatch", "over"} <=> todo' = << >>
         /\ phase' = "wait all" => phase = "wait all"
BY WaitingFor, HeadOfTodo DEF AdvanceWait, Waiting, Phases

\* The status of the process waited for is on record, or its Child brings it.
LEMMA AnswerWaitStep ==
  ASSUME JobsInv, AnswerWait
  PROVE  JobsInv'
<1> DEFINE recorded == Head(todo) \in DOMAIN job_table.completed_statuses
           table == IF recorded THEN job_table
                    ELSE MarkCompleted(job_table, Head(todo), exit[Head(todo)])
<1>1. /\ Waiting /\ AdvanceWait
      /\ recorded \/ (Head(todo) \in background_children /\ os[Head(todo)] = "exited")
      /\ job_table' = RemoveJobByPidPreserveStatus(table, Head(todo))
      /\ background_children' = background_children \ {Head(todo)}
      /\ background_jobs' = background_jobs \ {Head(todo)}
      /\ JoinsWell(Head(todo)) /\ UNCHANGED <<last_background_pid, os, exit, forwarder, released>>
  BY DEF AnswerWait, Forget, os_vars
<1>2. /\ todo # << >> /\ Held = background_children /\ Held' = background_children'
      /\ phase' \in Phases \ {"fg"} /\ todo' \in Seq(Pids) /\ todo' = Tail(todo)
      /\ phase' \in {"boundary", "dispatch", "over"} <=> todo' = << >>
      /\ phase' = "wait all" => phase = "wait all"
  BY <1>1, WaitingFor, AdvanceWaitTyped DEF Held
<1> HIDE DEF table
<1>3. PICK p \in Pids : p = Head(todo)
  BY <1>2, HeadOfTodo
<1>4. ~recorded => p \in OSPids /\ exit[p] \in Statuses /\ p \notin released /\ os[p] = "exited"
  BY <1>1, <1>2, <1>3 DEF JobsInv, ShellTyped, Born, HeldApart
<1>5. /\ Sound(table) /\ OnePidEach(table) /\ table.pid_to_job = job_table.pid_to_job
      /\ DOMAIN table.completed_statuses = DOMAIN job_table.completed_statuses \cup {p}
      /\ ~recorded => table.completed_statuses[p] = exit[p]
      /\ \A q \in DOMAIN job_table.completed_statuses :
           table.completed_statuses[q] = job_table.completed_statuses[q]
  <2>1. CASE recorded
    BY <2>1, <1>3 DEF table, JobsInv
  <2>2. CASE ~recorded
    <3>1. table = MarkCompleted(job_table, p, exit[p])
      BY <2>2, <1>3 DEF table
    <3>2. LET u == MarkCompleted(job_table, p, exit[p])
          IN  /\ Sound(u) /\ OnePidEach(u) /\ SameJobs(job_table, u)
              /\ DOMAIN u.completed_statuses = DOMAIN job_table.completed_statuses \cup {p}
              /\ u.completed_statuses[p] = exit[p]
              /\ \A q \in DOMAIN job_table.completed_statuses \ {p} :
                   u.completed_statuses[q] = job_table.completed_statuses[q]
      BY <2>2, <1>4, TableCompleted DEF JobsInv
    <3> QED BY <2>2, <1>3, <3>1, <3>2 DEF SameJobs
  <2> QED BY <2>1, <2>2
<1>6. /\ Sound(job_table') /\ OnePidEach(job_table')
      /\ DOMAIN job_table'.pid_to_job = DOMAIN job_table.pid_to_job \ {p}
      /\ DOMAIN job_table'.completed_statuses = DOMAIN job_table.completed_statuses \cup {p}
      /\ job_table'.completed_statuses = table.completed_statuses
  <2>1. LET u == RemoveJobByPidPreserveStatus(table, p)
        IN  /\ Sound(u) /\ OnePidEach(u)
            /\ DOMAIN u.pid_to_job = DOMAIN table.pid_to_job \ {p}
            /\ u.completed_statuses = table.completed_statuses
    BY <1>5, TablePreserved
  <2> QED BY <2>1, <1>1, <1>3, <1>5
<1>7. /\ background_children' = background_children \ {p}
      /\ background_jobs' = background_jobs \ {p}
  BY <1>1, <1>3
<1>8. ShellTyped'
  BY <1>1, <1>2, <1>7 DEF JobsInv, ShellTyped
<1>9. Born'
  BY <1>1, <1>3, <1>4, <1>6, <1>7 DEF JobsInv, Born
<1>kept. Forwarders' /\ Unrecorded' = Unrecorded
  <2>1. ~recorded => forwarder[p] = "none"
    BY <1>1, <1>2, <1>3, <1>4 DEF JoinsWell, JobsInv, Forwarders, ShellTyped, ForwarderStates
  <2>2. \A q \in OSPids : q \in DOMAIN job_table'.completed_statuses =>
          q \in DOMAIN job_table.completed_statuses \/ forwarder[q] = "none"
    BY <1>3, <1>6, <2>1
  <2> QED BY <1>1, <1>2, <1>7, <2>2, ForwardersKept
<1>10. Blocked'
  <2>1. Range(todo) = {p} \cup Range(todo')
    BY <1>2, <1>3, HeadOfTodo
  <2>2. phase = "wait all" => DOMAIN job_table.pid_to_job \subseteq Range(todo) \cup Unrecorded
    BY DEF JobsInv, Blocked
  <2>3. phase' = "wait all" =>
          DOMAIN job_table'.pid_to_job \subseteq Range(todo') \cup Unrecorded'
    BY <1>2, <1>6, <1>kept, <2>1, <2>2
  <2> QED BY <1>2, <2>3 DEF Blocked
<1>11. HeldApart'
  BY <1>1, <1>2, <1>6, <1>7 DEF JobsInv, HeldApart
<1>12. StatusesTrue'
  BY <1>1, <1>3, <1>4, <1>5, <1>6 DEF JobsInv, StatusesTrue
<1>13. NothingLost'
  BY <1>1, <1>2, <1>6, <1>7, <1>kept DEF JobsInv, NothingLost
<1>14. JobsAnswerable'
  BY <1>1, <1>2, <1>6, <1>7, <1>kept DEF JobsInv, JobsAnswerable
<1>15. LastKnown'
  BY <1>1, <1>6 DEF JobsInv, LastKnown
<1> QED BY <1>kept, <1>6, <1>8, <1>9, <1>10, <1>11, <1>12, <1>13, <1>14, <1>15 DEF JobsInv

\* The status of a process whose forwarder fails is not on record: its Child was asked.
LEMMA FailedWait ==
  ASSUME JobsInv, AnswerWaitFails
  PROVE  /\ Head(todo) \in OSPids \cap background_children /\ os[Head(todo)] = "exited"
         /\ Head(todo) \notin Unrecorded /\ Held = background_children
         /\ background_children' = background_children \ {Head(todo)}
         /\ forwarder' = [forwarder EXCEPT ![Head(todo)] = "error"]
         /\ phase' \in {"boundary", "over"} /\ todo' = << >>
         /\ UNCHANGED <<job_table, background_jobs, last_background_pid, os, exit, released>>
<1>1. /\ Head(todo) \in OSPids /\ forwarder[Head(todo)] = "failed" /\ Waiting
      /\ Head(todo) \in DOMAIN job_table.completed_statuses
           \/ (Head(todo) \in background_children /\ os[Head(todo)] = "exited")
      /\ background_children' = IF Head(todo) \in DOMAIN job_table.completed_statuses
                                THEN background_children ELSE background_children \ {Head(todo)}
      /\ forwarder' = [forwarder EXCEPT ![Head(todo)] = "error"]
      /\ phase' \in {"boundary", "over"} /\ todo' = << >>
      /\ UNCHANGED <<job_table, background_jobs, last_background_pid, os, exit, released>>
  BY DEF AnswerWaitFails, Fail, os_vars
<1>2. Head(todo) \notin DOMAIN job_table.completed_statuses
  BY <1>1 DEF JobsInv, Forwarders
<1>3. Head(todo) \notin Unrecorded
  BY <1>1 DEF Unrecorded
<1> QED BY <1>1, <1>2, <1>3, WaitingFor

\* A wait that a forwarder's error ends.
LEMMA AnswerWaitFailsStep ==
  ASSUME JobsInv, AnswerWaitFails
  PROVE  JobsInv'
<1>1. PICK p \in OSPids : p = Head(todo)
  BY FailedWait
<1>2. /\ p \in background_children /\ os[p] = "exited" /\ p \notin Unrecorded
      /\ Held = background_children
      /\ background_children' = background_children \ {p}
      /\ forwarder' = [forwarder EXCEPT ![p] = "error"]
      /\ phase' \in {"boundary", "over"} /\ todo' = << >>
      /\ UNCHANGED <<job_table, background_jobs, last_background_pid, os, exit, released>>
  BY <1>1, FailedWait
<1>3. /\ forwarder' \in [OSPids -> ForwarderStates] /\ forwarder'[p] = "error"
      /\ \A q \in OSPids \ {p} : forwarder'[q] = forwarder[q]
  BY <1>2 DEF JobsInv, ShellTyped, ForwarderStates
<1>4. Held' = background_children \ {p}
  BY <1>2 DEF Held
<1>5. Unrecorded' = Unrecorded \cup {p}
  BY <1>3 DEF Unrecorded
<1>6. p \notin DOMAIN job_table.completed_statuses
  BY <1>2 DEF JobsInv, HeldApart
<1>7. ShellTyped'
  <2>1. << >> \in Seq(Pids)
    OBVIOUS
  <2>2. phase' \in Phases /\ todo' \in Seq(Pids)
    BY <1>2, <2>1 DEF Phases
  <2> QED BY <1>2, <1>3, <2>2 DEF JobsInv, ShellTyped
<1>8. Born' /\ Blocked' /\ HeldApart'
  BY <1>2, <1>4 DEF JobsInv, Born, Blocked, HeldApart
<1>9. Forwarders'
  BY <1>2, <1>3, <1>4, <1>6 DEF JobsInv, Forwarders
<1>10. StatusesTrue' /\ NothingLost' /\ JobsAnswerable'
  BY <1>2, <1>4, <1>5 DEF JobsInv, StatusesTrue, NothingLost, JobsAnswerable
<1>11. LastKnown'
  BY <1>2 DEF JobsInv, LastKnown
<1> QED BY <1>2, <1>7, <1>8, <1>9, <1>10, <1>11 DEF JobsInv

\* A process the shell knows nothing of.
LEMMA WaitUnknownStep ==
  ASSUME JobsInv, WaitUnknown
  PROVE  JobsInv'
<1>1. /\ Waiting /\ AdvanceWait
      /\ Head(todo) \notin background_children \cup DOMAIN job_table.completed_statuses
      /\ UNCHANGED <<shell_vars, os, exit, forwarder, released>>
  BY DEF WaitUnknown, os_vars
<1> USE DEF shell_vars
<1>2. /\ todo # << >> /\ Held = background_children /\ Held' = background_children
      /\ phase' \in Phases \ {"fg"} /\ todo' \in Seq(Pids) /\ todo' = Tail(todo)
      /\ phase' \in {"boundary", "dispatch", "over"} <=> todo' = << >>
      /\ phase' = "wait all" => phase = "wait all"
  BY <1>1, WaitingFor, AdvanceWaitTyped DEF Held
<1>3. ShellTyped' /\ Born' /\ HeldApart'
  BY <1>1, <1>2 DEF JobsInv, ShellTyped, Born, HeldApart
<1>kept. Forwarders' /\ Unrecorded' = Unrecorded
  BY <1>1, <1>2, ForwardersKept
<1>4. Head(todo) \notin DOMAIN job_table.pid_to_job \ Unrecorded
  BY <1>1, <1>2 DEF JobsInv, JobsAnswerable
<1>5. Blocked'
  <2>1. Range(todo) = {Head(todo)} \cup Range(todo')
    BY <1>2, HeadOfTodo
  <2>2. phase = "wait all" => DOMAIN job_table.pid_to_job \subseteq Range(todo) \cup Unrecorded
    BY DEF JobsInv, Blocked
  <2> QED BY <1>1, <1>2, <1>4, <1>kept, <2>1, <2>2 DEF Blocked
<1>6. StatusesTrue' /\ NothingLost' /\ JobsAnswerable'
  BY <1>1, <1>2, <1>kept DEF JobsInv, StatusesTrue, NothingLost, JobsAnswerable
<1>7. LastKnown'
  BY <1>1 DEF JobsInv, LastKnown
<1> QED BY <1>kept, <1>1, <1>3, <1>5, <1>6, <1>7 DEF JobsInv

----------------------------------------------------------------------------
(* The steps of fg, bg, disown and kill.                                   *)

\* What is known of a process is known of one that was started.
LEMMA KnownStarted ==
  ASSUME JobsInv, NEW p, p \in background_children \cup background_jobs
           \cup DOMAIN job_table.pid_to_job \cup DOMAIN job_table.completed_statuses
  PROVE  p \in Pids /\ (p \in OSPids => os[p] # "unborn")
BY PidsAssumption DEF JobsInv, Sound, WellFormedTable, ShellTyped, Born

\* fg takes a Child and blocks on it.
LEMMA ForegroundStep ==
  ASSUME JobsInv, NEW operand, Foreground(operand)
  PROVE  JobsInv'
<1> DEFINE resolved == ResolveRequested(job_table, operand)
<1>1. /\ phase = "dispatch" /\ resolved # NoPid
      /\ background_children' = background_children \ {resolved}
      /\ background_jobs' = background_jobs \ {resolved}
      /\ IF resolved \in background_children
         THEN phase' = "fg" /\ todo' = <<resolved>>
         ELSE phase' = "boundary" /\ todo' = todo
      /\ UNCHANGED <<job_table, last_background_pid, os, exit, forwarder, released>>
  BY DEF Foreground, Forget, Done, os_vars
<1>2. resolved \in Pids
  BY <1>1, Resolved, KnownStarted DEF JobsInv
<1> HIDE DEF resolved
<1>3. PICK p \in Pids : p = resolved
  BY <1>2
<1>4. Held = background_children /\ todo = << >>
  BY <1>1, HeldWhenDispatching
<1>5. p \in background_children => p \in OSPids /\ os[p] # "unborn"
  BY KnownStarted DEF JobsInv, ShellTyped
<1>6. CASE p \in background_children
  <2>1. phase' = "fg" /\ todo' = <<p>> /\ Range(todo') = {p}
    BY <1>1, <1>3, <1>6 DEF Range
  <2>2. Held' = Held
    BY <1>1, <1>3, <1>4, <1>6, <2>1 DEF Held
  <2>3. ShellTyped'
    BY <1>1, <1>3, <2>1 DEF JobsInv, ShellTyped, Phases
  <2>4. Blocked'
    BY <1>1, <1>3, <1>5, <1>6, <2>1 DEF Blocked
  <2>5. Born' /\ HeldApart'
    BY <1>1, <2>2 DEF JobsInv, Born, HeldApart
  <2>kept. Forwarders' /\ Unrecorded' = Unrecorded
    BY <1>1, <2>2, ForwardersKept
  <2>6. StatusesTrue' /\ NothingLost' /\ JobsAnswerable'
    BY <1>1, <2>2, <2>kept DEF JobsInv, StatusesTrue, NothingLost, JobsAnswerable
  <2>7. LastKnown'
    BY <1>1 DEF JobsInv, LastKnown
  <2> QED BY <2>kept, <1>1, <2>3, <2>4, <2>5, <2>6, <2>7 DEF JobsInv
<1>7. CASE p \notin background_children
  <2>1. phase' = "boundary" /\ todo' = << >>
    BY <1>1, <1>3, <1>4, <1>7
  <2>2. Held' = Held
    BY <1>1, <1>3, <1>4, <1>7, <2>1 DEF Held
  <2>3. ShellTyped'
    BY <1>1, <1>3, <2>1 DEF JobsInv, ShellTyped, Phases
  <2>4. Blocked'
    BY <2>1 DEF Blocked
  <2>5. Born' /\ HeldApart'
    BY <1>1, <2>2 DEF JobsInv, Born, HeldApart
  <2>kept. Forwarders' /\ Unrecorded' = Unrecorded
    BY <1>1, <2>2, ForwardersKept
  <2>6. StatusesTrue' /\ NothingLost' /\ JobsAnswerable'
    BY <1>1, <2>2, <2>kept DEF JobsInv, StatusesTrue, NothingLost, JobsAnswerable
  <2>7. LastKnown'
    BY <1>1 DEF JobsInv, LastKnown
  <2> QED BY <2>kept, <1>1, <2>3, <2>4, <2>5, <2>6, <2>7 DEF JobsInv
<1> QED BY <1>6, <1>7

\* The process fg waits for ends: the shell gives it up.
LEMMA ForegroundExitStep ==
  ASSUME JobsInv, ForegroundExit
  PROVE  JobsInv'
<1> DEFINE p0 == Head(todo)
           marked == MarkCompleted(job_table, p0, exit[p0])
           waited == WaitPid(marked, p0)
<1>1. /\ phase = "fg" /\ os[p0] = "exited" /\ job_table' = RemoveJobByPid(waited, p0)
      /\ released' = released \cup {p0} /\ phase' = "boundary" /\ todo' = << >>
      /\ UNCHANGED <<background_children, background_jobs, last_background_pid, os, exit, forwarder>>
  BY DEF ForegroundExit, os_vars
<1>2. PICK p \in OSPids \ background_children : todo = <<p>>
  BY <1>1 DEF JobsInv, Blocked
<1>3. p0 = p /\ p \in Pids /\ Held = background_children \cup {p} /\ Held' = background_children
  BY <1>1, <1>2, PidsAssumption DEF Held, Range
<1>4. /\ p \notin released /\ p \notin DOMAIN job_table.completed_statuses
      /\ exit[p] \in Statuses
  BY <1>1, <1>3 DEF JobsInv, HeldApart, ShellTyped, Born
<1> HIDE DEF marked, waited
<1>5. /\ Sound(marked) /\ OnePidEach(marked) /\ marked.pid_to_job = job_table.pid_to_job
      /\ DOMAIN marked.completed_statuses = DOMAIN job_table.completed_statuses \cup {p}
      /\ \A q \in DOMAIN job_table.completed_statuses :
           marked.completed_statuses[q] = job_table.completed_statuses[q]
  <2>1. LET u == MarkCompleted(job_table, p, exit[p])
        IN  /\ Sound(u) /\ OnePidEach(u) /\ SameJobs(job_table, u)
            /\ DOMAIN u.completed_statuses = DOMAIN job_table.completed_statuses \cup {p}
            /\ u.completed_statuses[p] = exit[p]
            /\ \A q \in DOMAIN job_table.completed_statuses \ {p} :
                 u.completed_statuses[q] = job_table.completed_statuses[q]
    BY <1>3, <1>4, TableCompleted DEF JobsInv
  <2>2. marked = MarkCompleted(job_table, p, exit[p])
    BY <1>3 DEF marked
  <2> QED BY <1>4, <2>1, <2>2 DEF SameJobs
<1>6. /\ Sound(waited) /\ OnePidEach(waited) /\ waited.pid_to_job = job_table.pid_to_job
      /\ DOMAIN waited.completed_statuses = DOMAIN job_table.completed_statuses
      /\ \A q \in DOMAIN job_table.completed_statuses :
           waited.completed_statuses[q] = job_table.completed_statuses[q]
  <2>1. LET u == WaitPid(marked, p)
        IN  /\ Sound(u) /\ OnePidEach(u) /\ u.pid_to_job = marked.pid_to_job
            /\ DOMAIN u.completed_statuses = DOMAIN marked.completed_statuses \ {p}
            /\ \A q \in DOMAIN u.completed_statuses :
                 u.completed_statuses[q] = marked.completed_statuses[q]
    BY <1>5, TableWaited
  <2>2. waited = WaitPid(marked, p)
    BY <1>3 DEF waited
  <2> QED BY <1>4, <1>5, <2>1, <2>2
<1>7. /\ Sound(job_table') /\ OnePidEach(job_table')
      /\ DOMAIN job_table'.pid_to_job = DOMAIN job_table.pid_to_job \ {p}
      /\ DOMAIN job_table'.completed_statuses = DOMAIN job_table.completed_statuses
      /\ \A q \in DOMAIN job_table.completed_statuses :
           job_table'.completed_statuses[q] = job_table.completed_statuses[q]
  <2>1. LET u == RemoveJobByPid(waited, p)
        IN  /\ Sound(u) /\ OnePidEach(u)
            /\ DOMAIN u.pid_to_job = DOMAIN waited.pid_to_job \ {p}
            /\ DOMAIN u.completed_statuses =
                 DOMAIN waited.completed_statuses \ (IF p \in DOMAIN waited.pid_to_job THEN {p} ELSE {})
            /\ \A q \in DOMAIN u.completed_statuses :
                 u.completed_statuses[q] = waited.completed_statuses[q]
    BY <1>6, TableRemoved
  <2>2. job_table' = RemoveJobByPid(waited, p)
    BY <1>1, <1>3
  <2>3. DOMAIN job_table'.completed_statuses = DOMAIN job_table.completed_statuses
    BY <1>4, <1>6, <2>1, <2>2
  <2> QED BY <1>6, <2>1, <2>2, <2>3
<1>8. released' = released \cup {p}
  BY <1>1, <1>3
<1>9. ShellTyped'
  BY <1>1, <1>3, <1>8 DEF JobsInv, ShellTyped, Phases
<1>10. Born'
  BY <1>1, <1>2, <1>3, <1>7, <1>8 DEF JobsInv, Born
<1>11. Blocked'
  BY <1>1 DEF Blocked
<1>12. HeldApart'
  BY <1>2, <1>3, <1>7, <1>8 DEF JobsInv, HeldApart
<1>kept. Forwarders' /\ Unrecorded' = Unrecorded
  BY <1>1, <1>3, <1>7, ForwardersKept
<1>13. StatusesTrue'
  BY <1>1, <1>7 DEF JobsInv, StatusesTrue
<1>14. NothingLost'
  BY <1>1, <1>3, <1>7, <1>8, <1>kept DEF JobsInv, NothingLost
<1>15. JobsAnswerable'
  BY <1>3, <1>7, <1>8, <1>kept DEF JobsInv, JobsAnswerable
<1>16. LastKnown'
  BY <1>1, <1>7, <1>8 DEF JobsInv, LastKnown
<1> QED BY <1>kept, <1>7, <1>9, <1>10, <1>11, <1>12, <1>13, <1>14, <1>15, <1>16 DEF JobsInv

\* A command that leaves the processes and their statuses as they are.
LEMMA MarkedStep ==
  ASSUME JobsInv, phase = "dispatch", Sound(job_table'), OnePidEach(job_table'),
         SameJobs(job_table, job_table'),
         job_table'.completed_statuses = job_table.completed_statuses, Done,
         UNCHANGED <<background_children, background_jobs, last_background_pid, os_vars, forwarder,
                     released>>
  PROVE  JobsInv'
<1> USE DEF os_vars, SameJobs
<1>1. phase' = "boundary" /\ todo = << >> /\ todo' = << >> /\ Held = background_children
      /\ Held' = Held
  BY HeldWhenDispatching DEF Held, Done
<1>2. ShellTyped' /\ Born' /\ Blocked' /\ HeldApart'
  BY <1>1 DEF JobsInv, ShellTyped, Born, Blocked, HeldApart, Phases
<1>kept. Forwarders' /\ Unrecorded' = Unrecorded
  BY <1>1, ForwardersKept
<1>3. StatusesTrue' /\ NothingLost' /\ JobsAnswerable'
  BY <1>1, <1>kept DEF JobsInv, StatusesTrue, NothingLost, JobsAnswerable
<1>4. LastKnown'
  BY <1>1 DEF JobsInv, LastKnown
<1> QED BY <1>kept, <1>2, <1>3, <1>4 DEF JobsInv

\* bg.
LEMMA BackgroundStep ==
  ASSUME JobsInv, NEW operand, Background(operand)
  PROVE  JobsInv'
<1>1. /\ phase = "dispatch" /\ Done
      /\ job_table' = MarkRunning(job_table, ResolveRequested(job_table, operand))
      /\ UNCHANGED <<background_children, background_jobs, last_background_pid, os_vars, forwarder,
                     released>>
  BY DEF Background
<1>2. /\ Sound(job_table') /\ OnePidEach(job_table') /\ SameJobs(job_table, job_table')
      /\ job_table'.completed_statuses = job_table.completed_statuses
  BY <1>1, TableMarked DEF JobsInv
<1> QED BY <1>1, <1>2, MarkedStep

\* disown, of one process.
LEMMA DisownPidStep ==
  ASSUME JobsInv, phase = "dispatch", NEW p, DisownPid(p),
         p \in background_children \cup background_jobs
                \cup DOMAIN job_table.pid_to_job \cup DOMAIN job_table.completed_statuses
  PROVE  JobsInv'
<1>1. /\ background_children' = background_children \ {p}
      /\ background_jobs' = background_jobs \ {p}
      /\ released' = released \cup {p} /\ phase' = "boundary" /\ todo' = todo
      /\ UNCHANGED <<last_background_pid, os, exit, forwarder>>
  BY DEF DisownPid, Forget, Done, os_vars
<1>2. LET u == RemoveJobByPid(job_table, p)
      IN  /\ Sound(u) /\ OnePidEach(u)
          /\ DOMAIN u.pid_to_job = DOMAIN job_table.pid_to_job \ {p}
          /\ DOMAIN u.completed_statuses =
               DOMAIN job_table.completed_statuses \ (IF p \in DOMAIN job_table.pid_to_job THEN {p} ELSE {})
          /\ \A q \in DOMAIN u.completed_statuses :
               u.completed_statuses[q] = job_table.completed_statuses[q]
  BY TableRemoved DEF JobsInv
<1>3. job_table' = RemoveJobByPid(job_table, p)
  BY DEF DisownPid
<1>4. /\ Sound(job_table') /\ OnePidEach(job_table')
      /\ DOMAIN job_table'.pid_to_job = DOMAIN job_table.pid_to_job \ {p}
      /\ DOMAIN job_table'.completed_statuses \subseteq DOMAIN job_table.completed_statuses
      /\ \A q \in DOMAIN job_table.completed_statuses \ {p} :
           /\ q \in DOMAIN job_table'.completed_statuses
           /\ job_table'.completed_statuses[q] = job_table.completed_statuses[q]
      /\ \A q \in DOMAIN job_table'.completed_statuses :
           job_table'.completed_statuses[q] = job_table.completed_statuses[q]
  BY <1>2, <1>3
<1>5. Held = background_children /\ todo = << >> /\ Held' = background_children \ {p}
  BY <1>1, HeldWhenDispatching DEF Held
<1>6. p \in Pids /\ (p \in OSPids => os[p] # "unborn")
  BY KnownStarted
<1>7. ShellTyped'
  BY <1>1, <1>6 DEF JobsInv, ShellTyped, Phases
<1>8. Born'
  BY <1>1, <1>4, <1>6 DEF JobsInv, Born
<1>9. Blocked'
  BY <1>1, <1>5 DEF Blocked
<1>10. HeldApart'
  BY <1>1, <1>4, <1>5 DEF JobsInv, HeldApart
<1>kept. Forwarders' /\ Unrecorded' = Unrecorded
  BY <1>1, <1>4, <1>5, ForwardersKept
<1>11. StatusesTrue'
  BY <1>1, <1>4 DEF JobsInv, StatusesTrue
<1>12. NothingLost'
  BY <1>1, <1>4, <1>5, <1>kept DEF JobsInv, NothingLost
<1>13. JobsAnswerable'
  BY <1>1, <1>4, <1>5, <1>kept DEF JobsInv, JobsAnswerable
<1>14. LastKnown'
  BY <1>1, <1>4 DEF JobsInv, LastKnown
<1> QED BY <1>kept, <1>4, <1>7, <1>8, <1>9, <1>10, <1>11, <1>12, <1>13, <1>14 DEF JobsInv

\* disown, of $!, of an operand or of all.
LEMMA DisownStep ==
  ASSUME JobsInv, Disown
  PROVE  JobsInv'
<1>1. CASE DisownCurrent
  BY <1>1, DisownPidStep DEF DisownCurrent
<1>2. ASSUME NEW operand, DisownJob(operand) PROVE JobsInv'
  <2> DEFINE p == ResolveOperand(job_table, operand)
  <2>1. phase = "dispatch" /\ p # NoPid /\ DisownPid(p)
    BY <1>2 DEF DisownJob
  <2>2. p \in DOMAIN job_table.pid_to_job \cup DOMAIN job_table.completed_statuses
    BY <2>1, Resolved DEF JobsInv
  <2> HIDE DEF p
  <2> QED BY <2>1, <2>2, DisownPidStep
<1>3. CASE DisownAll
  <2>1. /\ phase = "dispatch" /\ job_table' = ClearJobs(job_table)
        /\ background_children' = {} /\ background_jobs' = {}
        /\ released' = released \cup background_children \cup DOMAIN job_table.completed_statuses
        /\ phase' = "boundary" /\ todo' = todo
        /\ UNCHANGED <<last_background_pid, os, exit, forwarder>>
    BY <1>3 DEF DisownAll, Done, os_vars
  <2>2. /\ Sound(job_table') /\ OnePidEach(job_table') /\ DOMAIN job_table'.pid_to_job = {}
        /\ DOMAIN job_table'.completed_statuses = {}
    BY <2>1, TableCleared DEF JobsInv
  <2>3. Held = background_children /\ todo = << >> /\ Held' = {}
    BY <2>1, HeldWhenDispatching DEF Held
  <2>4. \A p \in background_children \cup DOMAIN job_table.completed_statuses :
          p \in Pids /\ (p \in OSPids => os[p] # "unborn")
    BY KnownStarted
  <2>5. ShellTyped'
    BY <2>1, <2>4 DEF JobsInv, ShellTyped, Phases
  <2>6. Born'
    BY <2>1, <2>2, <2>4 DEF JobsInv, Born
  <2>7. Blocked' /\ HeldApart'
    BY <2>1, <2>3 DEF Blocked, HeldApart
  <2>kept. Forwarders' /\ Unrecorded' = Unrecorded
    BY <2>1, <2>2, <2>3, ForwardersKept
  <2>8. StatusesTrue' /\ JobsAnswerable'
    BY <2>2 DEF StatusesTrue, JobsAnswerable
  <2>9. NothingLost'
    BY <2>1, <2>3, <2>kept DEF JobsInv, NothingLost
  <2>10. LastKnown'
    BY <2>1 DEF JobsInv, LastKnown
  <2> QED BY <2>kept, <2>2, <2>5, <2>6, <2>7, <2>8, <2>9, <2>10 DEF JobsInv
<1> QED BY <1>1, <1>2, <1>3 DEF Disown

\* What a signal can do: suspend, resume or end a process that is alive.
LEMMA SignalledHost ==
  ASSUME JobsInv, phase = "dispatch", NEW p \in OSPids, NEW sig \in Signals, Signalled(p, sig)
  PROVE  /\ os' \in [OSPids -> OSStates] /\ exit' \in [OSPids -> Statuses \cup {NoStatus}]
         /\ \A q \in OSPids : (os'[q] = "unborn" <=> os[q] = "unborn")
                           /\ (os'[q] = "exited" <=> exit'[q] # NoStatus)
                           /\ (os[q] = "exited" => os'[q] = "exited" /\ exit'[q] = exit[q])
         /\ p \notin DOMAIN job_table.completed_statuses
         /\ \/ exit' = exit
            \/ Alive(p) /\ exit' = [exit EXCEPT ![p] = KillStatus]
<1>1. os \in [OSPids -> OSStates] /\ exit \in [OSPids -> Statuses \cup {NoStatus}]
      /\ \A q \in OSPids : os[q] = "exited" <=> exit[q] # NoStatus
  BY DEF JobsInv, ShellTyped, Born
<1>2. Held = background_children
  BY HeldWhenDispatching
<1>3. \A q \in background_children : q \notin DOMAIN job_table.completed_statuses
  BY <1>2 DEF JobsInv, HeldApart
<1>4. CASE Alive(p) /\ sig # "TERM" /\ UNCHANGED exit
           /\ os' = [os EXCEPT ![p] = IF sig = "STOP" THEN "stopped" ELSE "running"]
  BY <1>1, <1>4 DEF Alive, OSStates, JobsInv, StatusesTrue
<1>5. CASE Alive(p) /\ os' = [os EXCEPT ![p] = "exited"] /\ exit' = [exit EXCEPT ![p] = KillStatus]
  <2>1. KillStatus \in Statuses /\ KillStatus # NoStatus
    BY KillStatusAssumption, NoStatusAssumption
  <2> QED BY <1>1, <1>5, <2>1 DEF Alive, OSStates, JobsInv, StatusesTrue
<1>6. CASE UNCHANGED os_vars /\ (Alive(p) \/ p \in background_children)
  BY <1>1, <1>3, <1>6 DEF Alive, os_vars, JobsInv, StatusesTrue
<1> QED BY <1>4, <1>5, <1>6 DEF Signalled

\* kill of a process of a job.
LEMMA KillTrackedStep ==
  ASSUME JobsInv, NEW operand, NEW sig \in Signals, KillTracked(operand, sig)
  PROVE  JobsInv'
<1> DEFINE p0 == ResolveOperand(job_table, operand)
           ended == RemoveJobByPid(MarkCompleted(job_table, p0, KillStatus), p0)
<1>1. /\ phase = "dispatch" /\ p0 # NoPid /\ Signalled(p0, sig)
      /\ operand \in JobSpecs \/ operand \in DOMAIN job_table.pid_to_job
      /\ \/ job_table' = MarkRunning(job_table, p0) /\ UNCHANGED background_jobs
         \/ job_table' = MarkStopped(job_table, p0) /\ UNCHANGED background_jobs
         \/ job_table' = ended /\ background_jobs' = background_jobs \ {p0}
         \/ UNCHANGED <<job_table, background_jobs>>
      /\ phase' = "boundary" /\ todo' = todo
      /\ UNCHANGED <<background_children, last_background_pid, forwarder, released>>
  BY DEF KillTracked, Done
<1>2. p0 \in DOMAIN job_table.pid_to_job
  BY <1>1, Resolved DEF JobsInv
<1> HIDE DEF p0
<1>3. PICK p \in OSPids : p = p0
  BY <1>2 DEF JobsInv, OnePidEach
<1>5. /\ os' \in [OSPids -> OSStates] /\ exit' \in [OSPids -> Statuses \cup {NoStatus}]
      /\ \A q \in OSPids : (os'[q] = "unborn" <=> os[q] = "unborn")
                        /\ (os'[q] = "exited" <=> exit'[q] # NoStatus)
                        /\ (os[q] = "exited" => os'[q] = "exited" /\ exit'[q] = exit[q])
      /\ p \notin DOMAIN job_table.completed_statuses
  BY <1>1, <1>3, SignalledHost
<1>6. ASSUME job_table' = ended
      PROVE  /\ Sound(job_table') /\ OnePidEach(job_table')
             /\ DOMAIN job_table'.pid_to_job \subseteq DOMAIN job_table.pid_to_job
             /\ DOMAIN job_table'.completed_statuses = DOMAIN job_table.completed_statuses
             /\ \A q \in DOMAIN job_table.completed_statuses :
                  job_table'.completed_statuses[q] = job_table.completed_statuses[q]
  <2> DEFINE marked == MarkCompleted(job_table, p, KillStatus)
  <2>1. LET u == MarkCompleted(job_table, p, KillStatus)
        IN  /\ Sound(u) /\ OnePidEach(u) /\ SameJobs(job_table, u)
            /\ DOMAIN u.completed_statuses = DOMAIN job_table.completed_statuses \cup {p}
            /\ u.completed_statuses[p] = KillStatus
            /\ \A q \in DOMAIN job_table.completed_statuses \ {p} :
                 u.completed_statuses[q] = job_table.completed_statuses[q]
    BY <1>3, TableCompleted, KillStatusAssumption, PidsAssumption DEF JobsInv
  <2>2. job_table' = RemoveJobByPid(marked, p)
    BY <1>3, <1>6
  <2>3. /\ Sound(marked) /\ OnePidEach(marked) /\ marked.pid_to_job = job_table.pid_to_job
        /\ DOMAIN marked.completed_statuses = DOMAIN job_table.completed_statuses \cup {p}
        /\ \A q \in DOMAIN job_table.completed_statuses \ {p} :
             marked.completed_statuses[q] = job_table.completed_statuses[q]
    BY <2>1 DEF SameJobs
  <2> HIDE DEF marked
  <2>4. LET u == RemoveJobByPid(marked, p)
        IN  /\ Sound(u) /\ OnePidEach(u)
            /\ DOMAIN u.pid_to_job = DOMAIN marked.pid_to_job \ {p}
            /\ DOMAIN u.completed_statuses =
                 DOMAIN marked.completed_statuses \ (IF p \in DOMAIN marked.pid_to_job THEN {p} ELSE {})
            /\ \A q \in DOMAIN u.completed_statuses :
                 u.completed_statuses[q] = marked.completed_statuses[q]
    BY <2>3, TableRemoved
  <2>5. DOMAIN job_table'.completed_statuses = DOMAIN job_table.completed_statuses
    BY <1>2, <1>3, <1>5, <2>2, <2>3, <2>4
  <2> QED BY <1>5, <2>2, <2>3, <2>4, <2>5
<1>7. /\ Sound(job_table') /\ OnePidEach(job_table')
      /\ DOMAIN job_table'.pid_to_job \subseteq DOMAIN job_table.pid_to_job
      /\ DOMAIN job_table'.completed_statuses = DOMAIN job_table.completed_statuses
      /\ \A q \in DOMAIN job_table.completed_statuses :
           job_table'.completed_statuses[q] = job_table.completed_statuses[q]
  <2>1. CASE job_table' = MarkRunning(job_table, p0) \/ job_table' = MarkStopped(job_table, p0)
    BY <2>1, TableMarked DEF JobsInv, SameJobs
  <2>2. CASE UNCHANGED job_table
    BY <2>2 DEF JobsInv
  <2> QED BY <1>1, <1>6, <2>1, <2>2
<1>8. Held = background_children /\ Held' = background_children /\ todo = << >>
  BY <1>1, HeldWhenDispatching DEF Held
<1>9. ShellTyped'
  BY <1>1, <1>5 DEF JobsInv, ShellTyped, Phases
<1>10. Born'
  BY <1>1, <1>5, <1>7 DEF JobsInv, Born
<1>11. Blocked'
  BY <1>1, <1>8 DEF Blocked
<1>12. HeldApart'
  BY <1>1, <1>7, <1>8 DEF JobsInv, HeldApart
<1>kept. Forwarders' /\ Unrecorded' = Unrecorded
  BY <1>1, <1>5, <1>7, <1>8, ForwardersKept
<1>13. StatusesTrue'
  BY <1>5, <1>7 DEF JobsInv, StatusesTrue
<1>14. NothingLost'
  BY <1>1, <1>5, <1>7, <1>8, <1>kept DEF JobsInv, NothingLost
<1>15. JobsAnswerable'
  BY <1>1, <1>7, <1>8, <1>kept DEF JobsInv, JobsAnswerable
<1>16. LastKnown'
  BY <1>1, <1>5, <1>7 DEF JobsInv, LastKnown
<1> QED BY <1>kept, <1>7, <1>9, <1>10, <1>11, <1>12, <1>13, <1>14, <1>15, <1>16 DEF JobsInv

\* kill of any other process.
LEMMA KillUntrackedStep ==
  ASSUME JobsInv, NEW p \in OSPids, NEW sig \in Signals, KillUntracked(p, sig)
  PROVE  JobsInv'
<1>1. /\ phase = "dispatch" /\ Signalled(p, sig) /\ phase' = "boundary" /\ todo' = todo
      /\ UNCHANGED <<shell_vars, forwarder, released>>
  BY DEF KillUntracked, Done
<1> USE DEF shell_vars
<1>2. /\ os' \in [OSPids -> OSStates] /\ exit' \in [OSPids -> Statuses \cup {NoStatus}]
      /\ \A q \in OSPids : (os'[q] = "unborn" <=> os[q] = "unborn")
                        /\ (os'[q] = "exited" <=> exit'[q] # NoStatus)
                        /\ (os[q] = "exited" => os'[q] = "exited" /\ exit'[q] = exit[q])
  BY <1>1, SignalledHost
<1>3. Held' = Held /\ todo = << >>
  BY <1>1, HeldWhenDispatching DEF Held
<1>4. ShellTyped'
  BY <1>1, <1>2 DEF JobsInv, ShellTyped, Phases
<1>5. Born' /\ Blocked' /\ HeldApart'
  BY <1>1, <1>2, <1>3 DEF JobsInv, Born, Blocked, HeldApart
<1>kept. Forwarders' /\ Unrecorded' = Unrecorded
  BY <1>1, <1>2, <1>3, ForwardersKept
<1>6. StatusesTrue' /\ NothingLost' /\ JobsAnswerable'
  BY <1>1, <1>2, <1>3, <1>kept DEF JobsInv, StatusesTrue, NothingLost, JobsAnswerable
<1>7. LastKnown'
  BY <1>1, <1>2 DEF JobsInv, LastKnown
<1> QED BY <1>kept, <1>1, <1>4, <1>5, <1>6, <1>7 DEF JobsInv

----------------------------------------------------------------------------
(* The theorems: on a host that gives no pid out twice.                    *)

\* Every step keeps the invariant.
LEMMA JobsStep ==
  ASSUME ~PidReuse, JobsInv, [Next]_vars
  PROVE  JobsInv'
<1>1. ASSUME NEW p \in OSPids, ProcessExit(p) PROVE JobsInv'
  BY <1>1, ProcessExitStep
<1>ends. ASSUME NEW p \in OSPids, ForwarderEnds(p) PROVE JobsInv'
  BY <1>ends, ForwarderEndsStep
<1>fails. CASE RefreshFails
  BY <1>fails, RefreshFailsStep
<1>2. CASE CommandBoundary
  <2>1. /\ phase = "boundary" /\ phase' = "dispatch" /\ Refresh
        /\ UNCHANGED <<background_jobs, last_background_pid, todo, os_vars, released>>
    BY <1>2 DEF CommandBoundary
  <2>2. phase' \in Phases \ {"fg"} /\ todo' \in Seq(Pids) /\ Blocked'
    BY <2>1, HeldWhenDispatching DEF Phases, Blocked, JobsInv, ShellTyped
  <2> QED BY <2>1, <2>2, RefreshStep
<1>3. CASE Launch
  <2>1. ASSUME NEW p \in OSPids, LaunchBackground(p) \/ LaunchCoproc(p) PROVE JobsInv'
    <3>1. PICK f \in {"running", Leftover(p)} : forwarder' = [forwarder EXCEPT ![p] = f]
      BY <2>1 DEF LaunchBackground, LaunchCoproc
    <3>2. Spawn(p) /\ last_background_pid' \in {last_background_pid, p}
      BY <2>1 DEF LaunchBackground, LaunchCoproc
    <3> QED BY <3>1, <3>2, SpawnStep
  <2> QED BY <1>3, <2>1 DEF Launch
<1>4. CASE Substitute
  BY <1>4, InlineBackgroundStep, ProcessSubstitutionStep DEF Substitute
<1>5. CASE Jobs
  <2>1. /\ phase = "dispatch" /\ phase' = "boundary" /\ todo' = todo /\ Refresh
        /\ UNCHANGED <<background_jobs, last_background_pid, os_vars, released>>
    BY <1>5 DEF Jobs, Done
  <2>2. phase' \in Phases \ {"fg"} /\ todo' \in Seq(Pids) /\ Blocked'
    BY <2>1, HeldWhenDispatching DEF Phases, Blocked, JobsInv, ShellTyped
  <2> QED BY <2>1, <2>2, RefreshStep
<1>6. CASE WaitCommand
  BY <1>6, WaitAllJobsStep, WaitOperandsStep, WaitNextStep DEF WaitCommand
<1>7. CASE ForegroundBackground
  BY <1>7, ForegroundStep, BackgroundStep DEF ForegroundBackground
<1>8. CASE Disown
  BY <1>8, DisownStep
<1>9. CASE Kill
  BY <1>9, KillTrackedStep, KillUntrackedStep DEF Kill
<1>10. CASE AnswerWait \/ AnswerWaitFails \/ WaitUnknown \/ ForegroundExit
  BY <1>10, AnswerWaitStep, AnswerWaitFailsStep, WaitUnknownStep, ForegroundExitStep
<1>11. CASE UNCHANGED vars
  BY <1>11 DEF vars, shell_vars, control_vars, os_vars, JobsInv, ShellTyped, Born, Blocked,
               HeldApart, Held, StatusesTrue, NothingLost, JobsAnswerable, LastKnown,
               Forwarders, Unrecorded
<1> QED BY <1>ends, <1>fails, <1>1, <1>2, <1>3, <1>4, <1>5, <1>6, <1>7, <1>8, <1>9, <1>10, <1>11 DEF Next, Command

\* The inductive invariant holds always.
THEOREM JobsAlwaysKept ==
  ASSUME ~PidReuse
  PROVE  Spec => []JobsInv
<1>1. Init => JobsInv
  BY JobsInit
<1>2. JobsInv /\ [Next]_vars => JobsInv'
  BY JobsStep
<1> QED BY <1>1, <1>2, PTL DEF Spec

\* The job table, its index and its summaries stay sound, and every job in it can be
\* waited for, whatever the commands of the shell and the ends of its processes, but for
\* coprocs whose forwarder failed.
THEOREM JobsAlwaysSound ==
  ASSUME ~PidReuse
  PROVE  Spec => []JobsSound
<1>1. JobsInv => JobsSound
  BY DEF JobsInv, Sound, ShellTyped, JobsSound, TypeOK, TableSound
<1> QED BY <1>1, JobsAlwaysKept, PTL

\* A status on record is the one the process ended with.
THEOREM StatusesAlwaysTrue ==
  ASSUME ~PidReuse
  PROVE  Spec => []StatusesTrue
<1>1. JobsInv => StatusesTrue
  BY DEF JobsInv
<1> QED BY <1>1, JobsAlwaysKept, PTL

\* Until the user gives a process up, the shell holds its Child or its status, unless
\* the error of its forwarder was reported instead.
THEOREM NothingEverLost ==
  ASSUME ~PidReuse
  PROVE  Spec => []NothingLost
<1>1. JobsInv => NothingLost
  BY DEF JobsInv
<1> QED BY <1>1, JobsAlwaysKept, PTL

\* `wait $!` can answer, unless the user gave $! up or its forwarder failed.
THEOREM LastBackgroundAlwaysAnswerable ==
  ASSUME ~PidReuse
  PROVE  Spec => []LastBackgroundAnswerable
<1>1. JobsInv => LastBackgroundAnswerable
  BY DEF JobsInv, LastKnown, NothingLost, LastBackgroundAnswerable
<1> QED BY <1>1, JobsAlwaysKept, PTL

\* A sequence of one member.
LEMMA OneLeft ==
  ASSUME NEW s \in Seq(Pids), s # << >>, Tail(s) = << >>
  PROVE  Range(s) = {Head(s)}
<1>1. PICK n \in Nat : n = Len(Tail(s)) /\ n = Len(s) - 1
  BY HeadTailProperties
<1>2. n = 0
  BY <1>1
<1>3. Len(s) = 1
  BY <1>1, <1>2
<1>4. DOMAIN s = {1} /\ Head(s) = s[1]
  BY <1>3
<1> QED BY <1>4 DEF Range

\* wait without operands comes back to no job, whatever was stopped, finished or marked
\* while it was blocked, but for coprocs whose forwarder failed.
THEOREM WaitAllAlwaysLeavesNoJob ==
  ASSUME ~PidReuse
  PROVE  Spec => WaitAllLeavesNoJob
<1> DEFINE Left == Unrecorded' # Unrecorded \/ DOMAIN job_table'.pid_to_job \subseteq Unrecorded
<1>1. JobsInv /\ [Next]_vars => [phase = "wait all" /\ phase' = "boundary" => Left]_vars
  <2> SUFFICES ASSUME JobsInv, Next, phase = "wait all", phase' = "boundary"
               PROVE  Left
    OBVIOUS
  <2>1. AnswerWait \/ WaitUnknown \/ AnswerWaitFails
    BY DEF Next, Command, ProcessExit, ForwarderEnds, CommandBoundary, RefreshFails, ForegroundExit,
           Launch, LaunchBackground, LaunchCoproc, Spawn, Substitute, InlineBackground,
           ProcessSubstitution, Jobs, WaitCommand, WaitAllJobs, WaitOperands, WaitNext, StartWait,
           ForegroundBackground, Foreground, Background, Disown, DisownCurrent, DisownAll,
           DisownJob, Kill, KillTracked, KillUntracked, control_vars
  <2>2. CASE AnswerWaitFails
    <3>1. Head(todo) \in OSPids /\ Head(todo) \notin Unrecorded
          /\ forwarder' = [forwarder EXCEPT ![Head(todo)] = "error"]
      BY <2>2, FailedWait
    <3>2. Head(todo) \in Unrecorded'
      BY <3>1 DEF Unrecorded, JobsInv, ShellTyped
    <3> QED BY <3>1, <3>2
  <2>3. ASSUME AnswerWait \/ WaitUnknown
        PROVE  DOMAIN job_table.pid_to_job \subseteq {Head(todo)} \cup Unrecorded
    <3>1. Waiting /\ AdvanceWait
      BY <2>3 DEF AnswerWait, WaitUnknown
    <3>2. todo # << >> /\ Tail(todo) = << >>
      BY <3>1, WaitingFor DEF AdvanceWait
    <3>3. Range(todo) = {Head(todo)}
      BY <3>2, OneLeft DEF JobsInv, ShellTyped
    <3> QED BY <3>3 DEF JobsInv, Blocked
  <2>4. CASE WaitUnknown
    <3>1. Head(todo) \notin DOMAIN job_table.pid_to_job \ Unrecorded
      BY <2>4, WaitingFor DEF WaitUnknown, JobsInv, JobsAnswerable
    <3>2. job_table' = job_table
      BY <2>4 DEF WaitUnknown, shell_vars
    <3> QED BY <2>3, <2>4, <3>1, <3>2
  <2>5. CASE AnswerWait
    <3> DEFINE p == Head(todo)
               recorded == p \in DOMAIN job_table.completed_statuses
               marked == MarkCompleted(job_table, p, exit[p])
    <3>1. job_table' = RemoveJobByPidPreserveStatus(IF recorded THEN job_table ELSE marked, p)
          /\ (recorded \/ (p \in background_children /\ os[p] = "exited"))
      BY <2>5 DEF AnswerWait
    <3>2. CASE recorded
      <4>1. LET u == RemoveJobByPidPreserveStatus(job_table, p)
            IN  DOMAIN u.pid_to_job = DOMAIN job_table.pid_to_job \ {p}
        BY TablePreserved DEF JobsInv
      <4>2. job_table' = RemoveJobByPidPreserveStatus(job_table, p)
        BY <3>1, <3>2
      <4> QED BY <2>3, <2>5, <4>1, <4>2
    <3>3. CASE ~recorded
      <4>1. p \in Pids /\ exit[p] \in Statuses
        BY <3>1, <3>3, PidsAssumption DEF JobsInv, ShellTyped, Born
      <4>2. Sound(marked) /\ OnePidEach(marked) /\ SameJobs(job_table, marked)
        BY <4>1, TableCompleted DEF JobsInv
      <4> HIDE DEF marked
      <4>3. LET u == RemoveJobByPidPreserveStatus(marked, p)
            IN  DOMAIN u.pid_to_job = DOMAIN marked.pid_to_job \ {p}
        BY <4>2, TablePreserved
      <4>4. job_table' = RemoveJobByPidPreserveStatus(marked, p)
        BY <3>1, <3>3
      <4> QED BY <2>3, <2>5, <4>2, <4>3, <4>4 DEF SameJobs
    <3> QED BY <3>2, <3>3
  <2> QED BY <2>1, <2>2, <2>4, <2>5
<1> QED BY <1>1, JobsAlwaysKept, PTL DEF Spec, WaitAllLeavesNoJob

----------------------------------------------------------------------------
(* The refinement: what the shell owes its processes is a function of which *)
(* were started, given up, held and left unrecorded, and of how they ended. *)

\* What the shell owes process p, without the job table.
Owed(p) ==
  IF os[p] = "unborn" THEN "unused"
  ELSE IF p \in released THEN "released" ELSE IF p \in Held THEN "held"
  ELSE IF p \in Unrecorded THEN "lost" ELSE "settled"

\* The ledger is what is owed, and the status reported is the true one.
LEMMA LedgerView ==
  /\ JobsInv => \A p \in OSPids :
       /\ LedgerFate(p) = Owed(p)
       /\ Owed(p) = "settled" => job_table.completed_statuses[p] = exit[p]
  /\ JobsInv' => \A p \in OSPids :
       /\ LedgerFate(p)' = Owed(p)'
       /\ Owed(p)' = "settled" => job_table'.completed_statuses[p] = exit'[p]
<1>1. ASSUME JobsInv, NEW p \in OSPids
      PROVE  /\ LedgerFate(p) = Owed(p)
             /\ Owed(p) = "settled" => job_table.completed_statuses[p] = exit[p]
  <2>1. Owed(p) = "settled" => p \in DOMAIN job_table.completed_statuses
    BY <1>1 DEF Owed, JobsInv, NothingLost
  <2>2. p \in Unrecorded => p \notin DOMAIN job_table.completed_statuses
    BY <1>1 DEF Unrecorded, JobsInv, Forwarders
  <2>3. LedgerFate(p) = Owed(p)
    BY <2>1, <2>2 DEF LedgerFate, Owed
  <2> QED BY <1>1, <2>1, <2>3 DEF JobsInv, StatusesTrue
<1>2. ASSUME JobsInv', NEW p \in OSPids
      PROVE  /\ LedgerFate(p)' = Owed(p)'
             /\ Owed(p)' = "settled" => job_table'.completed_statuses[p] = exit'[p]
  <2>1. Owed(p)' = "settled" => p \in DOMAIN job_table'.completed_statuses
    BY <1>2 DEF Owed, JobsInv, NothingLost
  <2>2. p \in Unrecorded' => p \notin DOMAIN job_table'.completed_statuses
    BY <1>2 DEF Unrecorded, JobsInv, Forwarders
  <2>3. LedgerFate(p)' = Owed(p)'
    BY <2>1, <2>2 DEF LedgerFate, Owed
  <2> QED BY <1>2, <2>1, <2>3 DEF JobsInv, StatusesTrue
<1> QED BY <1>1, <1>2

Owing == [p \in OSPids |-> Owed(p)]
Reported == [p \in OSPids |-> IF Owed(p) = "settled" THEN exit[p] ELSE NoStatus]

Forwarded == {p \in OSPids : forwarder[p] # "none"}

\* The ledger as the model states it.
LedgerOwing == [p \in OSPids |-> LedgerFate(p)]
LedgerReported == [p \in OSPids |-> IF LedgerFate(p) = "settled"
                                   THEN job_table.completed_statuses[p] ELSE NoStatus]

\* Under the invariant the two are the same.
LEMMA LedgerSame ==
  ASSUME JobsInv, JobsInv'
  PROVE  /\ LedgerOwing = Owing /\ LedgerReported = Reported
         /\ LedgerOwing' = Owing' /\ LedgerReported' = Reported'
<1>1. LedgerOwing = Owing /\ LedgerReported = Reported
  BY LedgerView DEF LedgerOwing, LedgerReported, Owing, Reported
<1>2. LedgerOwing' = Owing' /\ LedgerReported' = Reported'
  BY LedgerView DEF LedgerOwing, LedgerReported, Owing, Reported
<1> QED BY <1>1, <1>2

\* The shell settles processes it held and loses others to their forwarders' errors.
LEMMA SettleMaps ==
  ASSUME JobsInv, JobsInv', NEW S \in SUBSET OSPids, NEW L \in SUBSET (OSPids \ S),
         \A p \in S \cup L : p \in Held /\ exit[p] # NoStatus,
         \A p \in L : forwarder[p] # "none",
         \A p \in OSPids : /\ p \in Held' <=> p \in Held \ (S \cup L)
                           /\ os'[p] = "unborn" <=> os[p] = "unborn"
                           /\ forwarder'[p] # "none" => forwarder[p] # "none",
         Unrecorded' = Unrecorded \cup L, UNCHANGED <<exit, released>>
  PROVE  Ledger!Settle(S, L)
<1>1. \A p \in S \cup L : os[p] # "unborn" /\ p \notin released /\ p \notin Unrecorded
  BY DEF JobsInv, HeldApart, Born, Forwarders, Unrecorded
<1>2. \A p \in OSPids :
        Owed(p)' = IF p \in S THEN "settled" ELSE IF p \in L THEN "lost" ELSE Owed(p)
  BY <1>1 DEF Owed
<1>3. \A p \in S \cup L : Owed(p) = "held"
  BY <1>1 DEF Owed
<1>4. /\ \A p \in S \cup L : Owing[p] = "held"
      /\ Owing' = [p \in OSPids |->
                    IF p \in S THEN "settled" ELSE IF p \in L THEN "lost" ELSE Owing[p]]
      /\ Reported' = [p \in OSPids |-> IF p \in S THEN exit[p] ELSE Reported[p]]
  BY <1>2, <1>3 DEF Owing, Reported
<1>5. L \subseteq Forwarded \ S /\ Forwarded' \in SUBSET Forwarded
  BY DEF Forwarded
<1> QED BY <1>4, <1>5, LedgerSame DEF Ledger!Settle, LedgerOwing, LedgerReported, Forwarded

\* The user gives processes up.
LEMMA ReleaseMaps ==
  ASSUME JobsInv, JobsInv', NEW S \in SUBSET OSPids,
         \A p \in S : p \notin released /\ os[p] # "unborn",
         \A p \in OSPids : /\ p \in released' <=> p \in released \cup S
                           /\ p \in Held' \cup released' <=> p \in Held \cup released \cup S
                           /\ os'[p] = "unborn" <=> os[p] = "unborn",
         UNCHANGED <<exit, forwarder>>
  PROVE  Ledger!Release(S)
<1>kept. Unrecorded' = Unrecorded /\ Forwarded' = Forwarded
  BY DEF Unrecorded, Forwarded
<1>1. \A p \in OSPids : Owed(p)' = IF p \in S THEN "released" ELSE Owed(p)
  BY <1>kept DEF Owed
<1>2. \A p \in S : Owed(p) \in {"held", "settled", "lost"}
  BY DEF Owed
<1>3. /\ \A p \in S : Owing[p] \in {"held", "settled", "lost"}
      /\ Owing' = [p \in OSPids |-> IF p \in S THEN "released" ELSE Owing[p]]
      /\ Reported' = [p \in OSPids |-> IF p \in S THEN NoStatus ELSE Reported[p]]
  BY <1>1, <1>2 DEF Owing, Reported
<1> QED BY <1>kept, <1>3, LedgerSame
    DEF Ledger!Release, LedgerOwing, LedgerReported, Forwarded

\* A process ends, of itself or by a signal.
LEMMA EndMaps ==
  ASSUME JobsInv, JobsInv', NEW p \in OSPids, Alive(p), NEW s \in Statuses,
         exit' = [exit EXCEPT ![p] = s], UNCHANGED <<forwarder, released>>,
         \A q \in OSPids : /\ q \in Held' <=> q \in Held
                           /\ os'[q] = "unborn" <=> os[q] = "unborn"
  PROVE  Ledger!End(p)
<1>kept. Unrecorded' = Unrecorded /\ Forwarded' = Forwarded
  BY DEF Unrecorded, Forwarded
<1>1. \A q \in OSPids : Owed(q)' = Owed(q)
  BY <1>kept DEF Owed
<1>2. Owed(p) \in {"held", "released"} /\ exit[p] = NoStatus
  BY DEF Owed, Alive, JobsInv, Born, StatusesTrue, NothingLost, Forwarders, Unrecorded
<1>3. Owing[p] \in {"held", "released"} /\ Owing' = Owing
  BY <1>1, <1>2 DEF Owing
<1>4. Reported' = Reported
  <2>1. exit \in [OSPids -> Statuses \cup {NoStatus}]
    BY DEF JobsInv, ShellTyped
  <2>2. \A q \in OSPids : Owed(q) = "settled" => exit'[q] = exit[q]
    BY <1>2, <2>1
  <2> QED BY <1>1, <2>2 DEF Reported
<1> QED BY <1>kept, <1>2, <1>3, <1>4, LedgerSame
    DEF Ledger!End, LedgerOwing, LedgerReported, Forwarded

\* The shell starts a process.
LEMMA StartMaps ==
  ASSUME JobsInv, JobsInv', NEW p \in OSPids, os[p] = "unborn", os'[p] # "unborn",
         p \in Held', p \notin released',
         \A q \in OSPids \ {p} : /\ q \in Held' <=> q \in Held
                                 /\ q \in released' <=> q \in released
                                 /\ os'[q] = "unborn" <=> os[q] = "unborn",
         NEW f \in {"running", Leftover(p)}, forwarder' = [forwarder EXCEPT ![p] = f],
         UNCHANGED exit
  PROVE  Ledger!Start(p)
<1>kept. Unrecorded' = Unrecorded /\ Forwarded' \in {Forwarded, Forwarded \cup {p}}
  <2>1. forwarder[p] = "none" /\ f \in {"none", "running"}
    BY DEF JobsInv, Forwarders, Leftover
  <2>2. forwarder'[p] = f /\ \A q \in OSPids \ {p} : forwarder'[q] = forwarder[q]
    BY DEF JobsInv, ShellTyped
  <2>3. Unrecorded' = Unrecorded
    BY <2>1, <2>2 DEF Unrecorded
  <2>4. Forwarded' = IF f = "none" THEN Forwarded ELSE Forwarded \cup {p}
    BY <2>1, <2>2 DEF Forwarded
  <2> QED BY <2>3, <2>4
<1>1. \A q \in OSPids : Owed(q)' = IF q = p THEN "held" ELSE Owed(q)
  BY <1>kept DEF Owed
<1>2. Owed(p) = "unused"
  BY DEF Owed
<1>3. Owing[p] = "unused" /\ Owing' = [Owing EXCEPT ![p] = "held"] /\ Reported' = Reported
  BY <1>1, <1>2 DEF Owing, Reported
<1> QED BY <1>kept, <1>3, LedgerSame
    DEF Ledger!Start, LedgerOwing, LedgerReported, Forwarded

\* A step that settles nobody, starts nobody and gives nobody up.
LEMMA QuietMaps ==
  ASSUME JobsInv, JobsInv',
         \A p \in OSPids : /\ p \in Held' <=> p \in Held
                           /\ os'[p] = "unborn" <=> os[p] = "unborn"
                           /\ forwarder'[p] # "none" => forwarder[p] # "none",
         Unrecorded' = Unrecorded, UNCHANGED <<exit, released>>
  PROVE  Ledger!Next
<1>1. Ledger!Settle({}, {})
  BY SettleMaps
<1> QED BY <1>1 DEF Ledger!Next

\* A refresh settles the children that ended, or some of them when it is cut short.
LEMMA ReapMaps ==
  ASSUME JobsInv, JobsInv', phase \in {"boundary", "dispatch"}, phase' # "fg",
         NEW S \in SUBSET Finished, NEW L \in SUBSET (Finished \ S),
         background_children' = background_children \ (S \cup L),
         \A p \in L : forwarder[p] = "failed",
         forwarder' = [p \in OSPids |-> IF p \in L THEN "error" ELSE forwarder[p]],
         UNCHANGED <<os_vars, released>>
  PROVE  Ledger!Next
<1>1. Held = background_children /\ Held' = background_children \ (S \cup L)
  BY HeldWhenDispatching DEF Held
<1>2. \A p \in S \cup L : p \in OSPids /\ p \in Held /\ exit[p] # NoStatus
  BY <1>1 DEF Finished, JobsInv, ShellTyped, Born
<1>3. Unrecorded' = Unrecorded \cup L
  BY <1>2 DEF Unrecorded
<1>4. S \in SUBSET OSPids /\ L \in SUBSET (OSPids \ S)
  BY <1>2
<1>5. \A p \in OSPids : /\ p \in Held' <=> p \in Held \ (S \cup L)
                        /\ forwarder'[p] # "none" => forwarder[p] # "none"
  BY <1>1
<1>6. Ledger!Settle(S, L)
  BY <1>2, <1>3, <1>4, <1>5, SettleMaps DEF os_vars
<1> QED BY <1>4, <1>6 DEF Ledger!Next

\* A refresh that joins every thread without error loses nobody.
LEMMA RefreshMaps ==
  ASSUME JobsInv, JobsInv', phase \in {"boundary", "dispatch"}, phase' # "fg", Refresh,
         UNCHANGED <<os_vars, released>>
  PROVE  Ledger!Next
<1>all. PICK S \in SUBSET Finished : S = Finished
  OBVIOUS
<1>1. PICK L \in SUBSET (Finished \ S) : S = Finished /\ L = {}
  BY <1>all
<1>2. background_children' = background_children \ (S \cup L)
  BY <1>1 DEF Refresh
<1>3. forwarder' = [p \in OSPids |-> IF p \in L THEN "error" ELSE forwarder[p]]
  BY <1>1 DEF Refresh, JobsInv, ShellTyped
<1> QED BY <1>1, <1>2, <1>3, ReapMaps

\* A refresh that a forwarder's error ends loses its coproc.
LEMMA RefreshFailsMaps ==
  ASSUME JobsInv, JobsInv', RefreshFails
  PROVE  Ledger!Next
<1>1. PICK failed \in Finished, S \in SUBSET Finished :
        /\ forwarder[failed] = "failed" /\ \A p \in S : JoinsWell(p)
        /\ background_children' = background_children \ (S \cup {failed})
        /\ forwarder' = [forwarder EXCEPT ![failed] = "error"]
  BY DEF RefreshFails
<1>2. /\ phase \in {"boundary", "dispatch"} /\ phase' # "fg"
      /\ UNCHANGED <<os_vars, released>>
  BY DEF RefreshFails, Fail
<1>3. failed \in OSPids /\ failed \notin S
  BY <1>1 DEF Finished, JobsInv, ShellTyped, JoinsWell
<1>4. PICK L \in SUBSET (Finished \ S) : L = {failed}
  BY <1>3
<1>5. forwarder' = [p \in OSPids |-> IF p \in L THEN "error" ELSE forwarder[p]]
  BY <1>1, <1>3, <1>4 DEF JobsInv, ShellTyped
<1>6. background_children' = background_children \ (S \cup L) /\ \A p \in L : forwarder[p] = "failed"
  BY <1>1, <1>4
<1> QED BY <1>2, <1>5, <1>6, ReapMaps

\* wait settles the process it waited for, if it was held.
LEMMA AnswerWaitMaps ==
  ASSUME JobsInv, JobsInv', AnswerWait
  PROVE  Ledger!Next
<1>1. /\ Waiting /\ AdvanceWait
      /\ \/ Head(todo) \in DOMAIN job_table.completed_statuses
         \/ Head(todo) \in background_children /\ os[Head(todo)] = "exited"
      /\ background_children' = background_children \ {Head(todo)}
      /\ UNCHANGED <<os, exit, forwarder, released>>
  BY DEF AnswerWait, Forget, os_vars
<1>2. /\ todo # << >> /\ Held = background_children
      /\ Held' = background_children \ {Head(todo)}
  BY <1>1, WaitingFor, AdvanceWaitTyped DEF Held
<1>3. PICK p \in Pids : p = Head(todo)
  BY <1>2, HeadOfTodo
<1>kept. Unrecorded' = Unrecorded
  BY <1>1 DEF Unrecorded
<1>4. CASE p \in background_children
  <2>1. p \in OSPids /\ p \in Held /\ exit[p] # NoStatus
    BY <1>1, <1>2, <1>3, <1>4 DEF JobsInv, ShellTyped, Born, HeldApart
  <2>only. PICK S \in SUBSET OSPids : S = {p}
    BY <2>1
  <2>2. PICK L \in SUBSET (OSPids \ S) : S = {p} /\ L = {}
    BY <2>only
  <2>3. /\ \A q \in S \cup L : q \in Held /\ exit[q] # NoStatus
        /\ \A q \in L : forwarder[q] # "none"
        /\ \A q \in OSPids : /\ q \in Held' <=> q \in Held \ (S \cup L)
                             /\ os'[q] = "unborn" <=> os[q] = "unborn"
                             /\ forwarder'[q] # "none" => forwarder[q] # "none"
        /\ Unrecorded' = Unrecorded \cup L
    BY <1>1, <1>2, <1>3, <1>kept, <2>1, <2>2
  <2>4. Ledger!Settle(S, L)
    BY <1>1, <2>3, SettleMaps
  <2> QED BY <2>4 DEF Ledger!Next
<1>5. CASE p \notin background_children
  BY <1>1, <1>2, <1>3, <1>5, <1>kept, QuietMaps
<1> QED BY <1>4, <1>5

\* A wait that a forwarder's error ends loses the coproc.
LEMMA AnswerWaitFailsMaps ==
  ASSUME JobsInv, JobsInv', AnswerWaitFails
  PROVE  Ledger!Next
<1>1. PICK p \in OSPids : p = Head(todo)
  BY FailedWait
<1>2. /\ p \in background_children /\ os[p] = "exited" /\ Held = background_children
      /\ background_children' = background_children \ {p}
      /\ forwarder' = [forwarder EXCEPT ![p] = "error"]
      /\ phase' \in {"boundary", "over"} /\ UNCHANGED <<os, exit, released>>
  BY <1>1, FailedWait
<1>3. forwarder[p] = "failed"
  BY <1>1 DEF AnswerWaitFails
<1>4. forwarder'[p] = "error" /\ \A q \in OSPids \ {p} : forwarder'[q] = forwarder[q]
  BY <1>2 DEF JobsInv, ShellTyped
<1>5. Held' = Held \ {p} /\ exit[p] # NoStatus
  BY <1>2 DEF Held, JobsInv, Born
<1>6. Unrecorded' = Unrecorded \cup {p}
  BY <1>4 DEF Unrecorded
<1>none. PICK S \in SUBSET OSPids : S = {}
  OBVIOUS
<1>7. PICK L \in SUBSET (OSPids \ S) : S = {} /\ L = {p}
  BY <1>none
<1>8. /\ \A q \in S \cup L : q \in Held /\ exit[q] # NoStatus
      /\ \A q \in L : forwarder[q] # "none"
      /\ \A q \in OSPids : /\ q \in Held' <=> q \in Held \ (S \cup L)
                           /\ os'[q] = "unborn" <=> os[q] = "unborn"
                           /\ forwarder'[q] # "none" => forwarder[q] # "none"
      /\ Unrecorded' = Unrecorded \cup L
  BY <1>2, <1>3, <1>4, <1>5, <1>6, <1>7
<1>9. Ledger!Settle(S, L)
  BY <1>2, <1>8, SettleMaps
<1> QED BY <1>9 DEF Ledger!Next

\* fg and disown give processes up.
LEMMA GiveUpMaps ==
  ASSUME JobsInv, JobsInv', ForegroundExit \/ Disown
  PROVE  Ledger!Next
<1> DEFINE S == {p \in OSPids : p \in released' /\ p \notin released}
<1>1. UNCHANGED <<os, exit, forwarder>>
  BY DEF ForegroundExit, Disown, DisownCurrent, DisownJob, DisownAll, DisownPid, os_vars
<1>2. \A p \in S : p \notin released /\ os[p] # "unborn"
  BY <1>1 DEF JobsInv, Born
<1>3. /\ \A p \in OSPids : p \in released => p \in released'
      /\ \A p \in OSPids : p \in Held' \cup released' <=> p \in Held \cup released'
  <2>1. CASE ForegroundExit
    <3>1. /\ phase = "fg" /\ phase' = "boundary" /\ released' = released \cup {Head(todo)}
          /\ background_children' = background_children
      BY <2>1 DEF ForegroundExit
    <3>2. PICK p \in OSPids : todo = <<p>>
      BY <3>1 DEF JobsInv, Blocked
    <3>3. Head(todo) = p /\ Held = background_children \cup {p} /\ Held' = background_children
      BY <3>1, <3>2 DEF Held, Range
    <3> QED BY <3>1, <3>3
  <2>2. ASSUME NEW p, phase = "dispatch", DisownPid(p)
        PROVE  /\ \A q \in OSPids : q \in released => q \in released'
               /\ \A q \in OSPids : q \in Held' \cup released' <=> q \in Held \cup released'
    <3>1. /\ released' = released \cup {p} /\ background_children' = background_children \ {p}
          /\ phase' = "boundary"
      BY <2>2 DEF DisownPid, Forget, Done
    <3>2. Held = background_children /\ Held' = background_children'
      BY <2>2, <3>1, HeldWhenDispatching DEF Held
    <3> QED BY <3>1, <3>2
  <2>3. CASE DisownAll
    <3>1. /\ phase = "dispatch" /\ phase' = "boundary" /\ background_children' = {}
          /\ released' = released \cup background_children \cup DOMAIN job_table.completed_statuses
      BY <2>3 DEF DisownAll, Done
    <3>2. Held = background_children /\ Held' = {}
      BY <3>1, HeldWhenDispatching DEF Held
    <3> QED BY <3>1, <3>2
  <2> QED BY <2>1, <2>2, <2>3 DEF Disown, DisownCurrent, DisownJob
<1>4. PICK T \in SUBSET OSPids : T = S
  OBVIOUS
<1>5. \A p \in OSPids : /\ p \in released' <=> p \in released \cup T
                        /\ p \in Held' \cup released' <=> p \in Held \cup released \cup T
                        /\ os'[p] = "unborn" <=> os[p] = "unborn"
  BY <1>1, <1>3, <1>4
<1>6. \A p \in T : p \notin released /\ os[p] # "unborn"
  BY <1>2, <1>4
<1> HIDE DEF S
<1>7. Ledger!Release(T)
  BY <1>1, <1>5, <1>6, ReleaseMaps
<1> QED BY <1>7 DEF Ledger!Next

\* A signal ends a process or changes nothing that is owed.
LEMMA KillMaps ==
  ASSUME JobsInv, JobsInv', Kill
  PROVE  Ledger!Next
<1>1. PICK p \in OSPids, sig \in Signals : Signalled(p, sig) /\ phase = "dispatch"
                                        /\ phase' = "boundary"
                                        /\ UNCHANGED <<background_children, forwarder, released>>
  <2>1. ASSUME NEW operand, NEW sig \in Signals, KillTracked(operand, sig)
        PROVE  \E p \in OSPids : Signalled(p, sig) /\ phase = "dispatch" /\ phase' = "boundary"
                                /\ UNCHANGED <<background_children, forwarder, released>>
    <3>1. /\ phase = "dispatch" /\ phase' = "boundary" /\ UNCHANGED <<background_children, forwarder, released>>
          /\ Signalled(ResolveOperand(job_table, operand), sig)
          /\ operand \in JobSpecs \/ operand \in DOMAIN job_table.pid_to_job
          /\ ResolveOperand(job_table, operand) # NoPid
      BY <2>1 DEF KillTracked, Done
    <3>2. ResolveOperand(job_table, operand) \in OSPids
      BY <3>1, Resolved DEF JobsInv, OnePidEach
    <3> QED BY <3>1, <3>2
  <2>2. ASSUME NEW p \in OSPids, NEW sig \in Signals, KillUntracked(p, sig)
        PROVE  Signalled(p, sig) /\ phase = "dispatch" /\ phase' = "boundary"
               /\ UNCHANGED <<background_children, forwarder, released>>
    BY <2>2 DEF KillUntracked, Done, shell_vars
  <2> QED BY <2>1, <2>2 DEF Kill
<1>2. Held' = Held
  BY <1>1, HeldWhenDispatching DEF Held
<1>3. /\ \A q \in OSPids : os'[q] = "unborn" <=> os[q] = "unborn"
      /\ \/ exit' = exit
         \/ Alive(p) /\ exit' = [exit EXCEPT ![p] = KillStatus]
  BY <1>1, SignalledHost
<1>4. CASE exit' = exit
  <2>1. Unrecorded' = Unrecorded
    BY <1>1 DEF Unrecorded
  <2> QED BY <1>1, <1>2, <1>3, <1>4, <2>1, QuietMaps
<1>5. CASE Alive(p) /\ exit' = [exit EXCEPT ![p] = KillStatus]
  <2>1. Ledger!End(p)
    BY <1>1, <1>2, <1>3, <1>5, EndMaps, KillStatusAssumption
  <2> QED BY <2>1 DEF Ledger!Next
<1> QED BY <1>3, <1>4, <1>5

\* Every other command leaves what is owed as it is.
LEMMA OtherMaps ==
  ASSUME JobsInv, JobsInv',
         Substitute \/ WaitUnknown \/ ForegroundBackground \/ UNCHANGED vars
  PROVE  Ledger!Next
<1>quiet. ASSUME Held' = Held, UNCHANGED <<os, exit, forwarder, released>>
         PROVE  Ledger!Next
  <2>1. Unrecorded' = Unrecorded
    BY <1>quiet DEF Unrecorded
  <2> QED BY <1>quiet, <2>1, QuietMaps
<1>1. ASSUME NEW operand, Foreground(operand)
      PROVE  Ledger!Next
  <2> DEFINE resolved == ResolveRequested(job_table, operand)
  <2>1. /\ phase = "dispatch" /\ background_children' = background_children \ {resolved}
        /\ IF resolved \in background_children
           THEN phase' = "fg" /\ todo' = <<resolved>> ELSE phase' = "boundary"
        /\ UNCHANGED <<os, exit, forwarder, released>>
    BY <1>1 DEF Foreground, Forget, Done, os_vars
  <2> HIDE DEF resolved
  <2>2. Held = background_children
    BY <2>1, HeldWhenDispatching
  <2>3. Held' = Held
    BY <2>1, <2>2 DEF Held, Range
  <2> QED BY <2>1, <2>3, <1>quiet
<1>2. ASSUME NEW operand, Background(operand)
      PROVE  Ledger!Next
  <2>1. Held' = Held /\ UNCHANGED <<os, exit, forwarder, released>>
    BY <1>2, HeldWhenDispatching DEF Background, Done, Held, os_vars
  <2> QED BY <2>1, <1>quiet
<1>3. CASE Substitute
  <2>1. Held' = Held /\ UNCHANGED <<os, exit, forwarder, released>>
    BY <1>3, HeldWhenDispatching
       DEF Substitute, InlineBackground, ProcessSubstitution, Done, Held, os_vars
  <2> QED BY <2>1, <1>quiet
<1>4. CASE WaitUnknown
  <2>1. Held' = Held /\ UNCHANGED <<os, exit, forwarder, released>>
    BY <1>4, WaitingFor, AdvanceWaitTyped DEF WaitUnknown, Held, os_vars, shell_vars
  <2> QED BY <2>1, <1>quiet
<1>5. CASE UNCHANGED vars
  <2>1. Held' = Held /\ UNCHANGED <<os, exit, forwarder, released>>
    BY <1>5 DEF vars, shell_vars, control_vars, os_vars, Held
  <2> QED BY <2>1, <1>quiet
<1> QED BY <1>1, <1>2, <1>3, <1>4, <1>5 DEF ForegroundBackground

\* Every step is a step of the ledger.
LEMMA LedgerStep ==
  ASSUME ~PidReuse, JobsInv, JobsInv', [Next]_vars
  PROVE  Ledger!Next
<1>1. ASSUME NEW p \in OSPids, ProcessExit(p) PROVE Ledger!Next
  <2>1. /\ os[p] = "running" /\ os' = [os EXCEPT ![p] = "exited"]
        /\ UNCHANGED <<background_children, phase, todo, forwarder, released>>
    BY <1>1 DEF ProcessExit, shell_vars, control_vars
  <2>2. PICK s \in Statuses : exit' = [exit EXCEPT ![p] = s]
    BY <1>1 DEF ProcessExit
  <2>3. Held' = Held
    BY <2>1 DEF Held
  <2>4. \A q \in OSPids : os'[q] = "unborn" <=> os[q] = "unborn"
    BY <2>1 DEF JobsInv, ShellTyped
  <2>5. Ledger!End(p)
    BY <2>1, <2>2, <2>3, <2>4, EndMaps DEF Alive
  <2> QED BY <2>5 DEF Ledger!Next
<1>ends. ASSUME NEW p \in OSPids, ForwarderEnds(p) PROVE Ledger!Next
  <2>1. /\ forwarder[p] = "running"
        /\ \E result \in {"none", "failed"} : forwarder' = [forwarder EXCEPT ![p] = result]
        /\ UNCHANGED <<background_children, phase, todo, os, exit, released>>
    BY <1>ends DEF ForwarderEnds, shell_vars, control_vars, os_vars
  <2>2. /\ forwarder'[p] \in {"none", "failed"}
        /\ \A q \in OSPids \ {p} : forwarder'[q] = forwarder[q]
    BY <2>1 DEF JobsInv, ShellTyped
  <2>3. Held' = Held /\ Unrecorded' = Unrecorded
    BY <2>1, <2>2 DEF Held, Unrecorded
  <2> QED BY <2>1, <2>2, <2>3, QuietMaps
<1>fails. CASE RefreshFails
  BY <1>fails, RefreshFailsMaps
<1>2. CASE CommandBoundary
  BY <1>2, RefreshMaps DEF CommandBoundary
<1>3. ASSUME NEW p \in OSPids, Spawn(p),
             NEW f \in {"running", Leftover(p)}, forwarder' = [forwarder EXCEPT ![p] = f]
      PROVE  Ledger!Next
  <2>1. /\ os[p] = "unborn" /\ os' = [os EXCEPT ![p] = "running"] /\ exit' = [exit EXCEPT ![p] = NoStatus]
        /\ background_children' = background_children \cup {p} /\ released' = released \ {p}
        /\ phase = "dispatch" /\ phase' = "boundary"
    BY <1>3 DEF Spawn, Available, Done
  <2>2. Held = background_children /\ Held' = background_children \cup {p}
    BY <2>1, HeldWhenDispatching DEF Held
  <2>3. exit' = exit
    BY <2>1 DEF JobsInv, ShellTyped, Born
  <2>4. os'[p] # "unborn" /\ \A q \in OSPids \ {p} : os'[q] = os[q]
    BY <2>1 DEF JobsInv, ShellTyped
  <2>5. Ledger!Start(p)
    BY <1>3, <2>1, <2>2, <2>3, <2>4, StartMaps
  <2> QED BY <2>5 DEF Ledger!Next
<1>4. CASE Launch
  <2>1. PICK p \in OSPids : LaunchBackground(p) \/ LaunchCoproc(p)
    BY <1>4 DEF Launch
  <2>2. PICK f \in {"running", Leftover(p)} : forwarder' = [forwarder EXCEPT ![p] = f]
    BY <2>1 DEF LaunchBackground, LaunchCoproc
  <2>3. Spawn(p)
    BY <2>1 DEF LaunchBackground, LaunchCoproc
  <2> QED BY <1>3, <2>2, <2>3
<1>5. CASE Jobs
  BY <1>5, RefreshMaps DEF Jobs, Done
<1>6. CASE WaitCommand
  <2>1. ASSUME NEW kind \in {"wait", "wait all", "wait -n"}, NEW pids, StartWait(kind, pids)
        PROVE  Ledger!Next
    <3>1. /\ phase = "dispatch" /\ phase' # "fg" /\ Refresh
          /\ UNCHANGED <<os_vars, released>>
      BY <2>1 DEF StartWait, Done
    <3> QED BY <3>1, RefreshMaps
  <2>2. CASE WaitAllJobs
    <3>1. StartWait("wait all", JobPidsInOrder(RefreshedTable))
      BY <2>2 DEF WaitAllJobs
    <3>2. PICK pids : pids = JobPidsInOrder(RefreshedTable)
      OBVIOUS
    <3> QED BY <2>1, <3>1, <3>2
  <2>3. ASSUME NEW operands, WaitOperands(operands) PROVE Ledger!Next
    <3>1. \E pids : StartWait("wait", pids)
      BY <2>3 DEF WaitOperands
    <3> QED BY <2>1, <3>1
  <2>4. ASSUME NEW operand, WaitNext(operand) PROVE Ledger!Next
    <3>1. \E kind \in {"wait", "wait -n"} : \E pids : StartWait(kind, pids)
      BY <2>4 DEF WaitNext
    <3> QED BY <2>1, <3>1
  <2> QED BY <1>6, <2>2, <2>3, <2>4 DEF WaitCommand
<1>7. CASE AnswerWait
  BY <1>7, AnswerWaitMaps
<1>waits. CASE AnswerWaitFails
  BY <1>waits, AnswerWaitFailsMaps
<1>8. CASE ForegroundExit \/ Disown
  BY <1>8, GiveUpMaps
<1>9. CASE Kill
  BY <1>9, KillMaps
<1>10. CASE Substitute \/ WaitUnknown \/ ForegroundBackground \/ UNCHANGED vars
  BY <1>10, OtherMaps
<1> QED BY <1>ends, <1>fails, <1>waits, <1>1, <1>2, <1>4, <1>5, <1>6, <1>7, <1>8, <1>9, <1>10 DEF Next, Command

\* The shell keeps the ledger of its processes: only coprocs with a forwarder are ever
\* lost, a settled status is the true one and is final, and only disown and fg release a
\* process.
THEOREM LedgerImplemented ==
  ASSUME ~PidReuse
  PROVE  Spec => ImplementsLedger
<1>1. Init => Ledger!Init
  <2> SUFFICES ASSUME Init PROVE Ledger!Init
    OBVIOUS
  <2>1. \A p \in OSPids : LedgerFate(p) = "unused"
    BY DEF Init, LedgerFate
  <2> QED BY <2>1 DEF Init, Ledger!Init
<1>2. JobsInv /\ JobsInv' /\ [Next]_vars => [Ledger!Next]_(Ledger!vars)
  BY LedgerStep
<1> QED BY <1>1, <1>2, JobsAlwaysKept, PTL DEF Spec, ImplementsLedger, Ledger!Spec
=============================================================================
