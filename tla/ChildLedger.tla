----------------------------- MODULE ChildLedger -----------------------------
(***************************************************************************)
(* What a shell owes its background processes, without job tables, Child   *)
(* handles or builtins: every process it started is held until its exit    *)
(* status is settled, a settled status is the true one and never changes,  *)
(* only the user's own command releases a process before or after, and     *)
(* only a process whose stderr the shell forwards is ever lost, when the   *)
(* forwarding failed.                                                      *)
(* BackgroundJobs implements this module.                                  *)
(***************************************************************************)
CONSTANTS OSPids, Statuses, NoStatus

VARIABLES
  fate,       \* what the shell owes each process
  ending,     \* the exit status each process ended with
  forwarded,  \* the processes whose stderr the shell forwards
  record      \* the exit status the shell would report for it

vars == <<fate, ending, forwarded, record>>

Fates == {"unused", "held", "settled", "released", "lost"}

Init ==
  /\ fate = [p \in OSPids |-> "unused"]
  /\ ending = [p \in OSPids |-> NoStatus]
  /\ forwarded = {}
  /\ record = [p \in OSPids |-> NoStatus]

Start(p) ==
  /\ fate[p] = "unused"
  /\ fate' = [fate EXCEPT ![p] = "held"]
  /\ forwarded' \in {forwarded, forwarded \cup {p}}
  /\ UNCHANGED <<ending, record>>

\* The process ends once, whether the shell still holds it or not.
End(p) ==
  /\ fate[p] \in {"held", "released"} /\ ending[p] = NoStatus
  /\ \E s \in Statuses : ending' = [ending EXCEPT ![p] = s]
  /\ UNCHANGED <<fate, forwarded, record>>

\* The shell settles the processes S with the statuses they ended with, and loses
\* the processes L; a forwarding may be over.
Settle(S, L) ==
  /\ \A p \in S \cup L : fate[p] = "held" /\ ending[p] # NoStatus
  /\ L \subseteq forwarded \ S
  /\ fate' = [p \in OSPids |-> IF p \in S THEN "settled" ELSE IF p \in L THEN "lost" ELSE fate[p]]
  /\ record' = [p \in OSPids |-> IF p \in S THEN ending[p] ELSE record[p]]
  /\ forwarded' \in SUBSET forwarded
  /\ UNCHANGED ending

\* The user gives the processes S up; nothing is reported for them again.
Release(S) ==
  /\ \A p \in S : fate[p] \in {"held", "settled", "lost"}
  /\ fate' = [p \in OSPids |-> IF p \in S THEN "released" ELSE fate[p]]
  /\ record' = [p \in OSPids |-> IF p \in S THEN NoStatus ELSE record[p]]
  /\ UNCHANGED <<ending, forwarded>>

Next ==
  \/ \E p \in OSPids : Start(p) \/ End(p)
  \/ \E S, L \in SUBSET OSPids : Settle(S, L)
  \/ \E S \in SUBSET OSPids : Release(S)

Spec == Init /\ [][Next]_vars
=============================================================================
