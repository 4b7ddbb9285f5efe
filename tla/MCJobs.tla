------------------------------- MODULE MCJobs -------------------------------
(* The job table under any client and under the shell: a behaviour is one or *)
(* the other.                                                                *)
EXTENDS BackgroundJobs, JobTableClient, TLC

CONSTANTS p1, p2, sh

\* The host's choice of pids is arbitrary, and no property tells them apart.
PidSymmetry == Permutations(OSPids)

MCPipelines == {<<p1>>, <<p2>>, <<p1, p2>>}

VARIABLE client   \* "any", "shell"

JobsInit ==
  \/ client = "any" /\ TableInit /\ Init
  \/ client = "shell" /\ client_table = EmptyTable /\ Init

JobsNext ==
  /\ UNCHANGED client
  /\ \/ client = "any" /\ TableNext /\ UNCHANGED vars
     \/ client = "shell" /\ Next /\ UNCHANGED client_table

JobsSpec == JobsInit /\ [][JobsNext]_<<vars, client_table, client>>
=============================================================================
