--------------------------- MODULE JobTableClient ---------------------------
(***************************************************************************)
(* The job table under a client that calls any method at any time: what    *)
(* the methods of src/src/jobs/table.rs guarantee on their own.            *)
(***************************************************************************)
EXTENDS JobTable

VARIABLE client_table

CONSTANT Pipelines    \* the pid lists a client registers: distinct, not empty

ASSUME PipelinesAssumption ==
  \A ps \in Pipelines : /\ ps \in Seq(Pids) /\ ps # << >>
                        /\ \A i, k \in 1..Len(ps) : ps[i] = ps[k] => i = k

TableInit == client_table = EmptyTable

Register == \E ps \in Pipelines :
  /\ IdsLeft(client_table)
  /\ Unowned(client_table, ps)
  /\ client_table' = RegisterPipeline(client_table, ps)

Complete == \E p \in Pids, s \in Statuses : client_table' = MarkCompleted(client_table, p, s)

Stop == \E p \in Pids : client_table' = MarkStopped(client_table, p)

Continue == \E p \in Pids : client_table' = MarkRunning(client_table, p)

Wait == \E p \in Pids : client_table' = WaitPid(client_table, p)

\* wait_any takes the first key of a HashMap, which may be any of them.
WaitAny == \E p \in DOMAIN client_table.completed_statuses :
  client_table' = ForgetStatus(client_table, p)

WaitEvery == client_table' = WaitAll(client_table)

Remove == \E j \in JobIds : client_table' = RemoveJob(client_table, j)

RemoveByPid == \E p \in Pids : client_table' = RemoveJobByPid(client_table, p)

RemovePreserving == \E p \in Pids : client_table' = RemoveJobByPidPreserveStatus(client_table, p)

Clear == client_table' = ClearJobs(client_table)

TableNext ==
  \/ Register \/ Complete \/ Stop \/ Continue
  \/ Wait \/ WaitAny \/ WaitEvery
  \/ Remove \/ RemoveByPid \/ RemovePreserving \/ Clear

TableSpec == TableInit /\ [][TableNext]_client_table

----------------------------------------------------------------------------
(* Properties.                                                             *)

\* Every value the methods store has its declared type (the type invariant).
TableTypeOK == WellFormedTable(client_table)

\* IndexMatchesJobs holds of the table at all times.
IndexConsistent == IndexMatchesJobs(client_table)

\* SummaryMatchesProcesses holds of every job in the table.
SummariesCurrent ==
  \A j \in DOMAIN client_table.jobs : SummaryMatchesProcesses(client_table.jobs[j])

\* IdsGivenOut holds of the table at all times.
NoIdReused == IdsGivenOut(client_table)
=============================================================================
