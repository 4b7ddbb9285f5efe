----------------------------- MODULE SignalRaces -----------------------------
(* SignalMailbox with one more history variable: the sends that met a race.  *)
EXTENDS SignalMailbox, TLC

VARIABLE raced

Writing(p) == pc[p] \in {"digits", "newline"}

\* A number whose newline has not followed: another send is at it, or died at it.
HalfLine(p) ==
  \E k \in DOMAIN queue[target[p]] :
    LET content == queue[target[p]]
    IN  /\ content[k] \in Sends \ {Current(p)}
        /\ k = Len(content) \/ content[k + 1] # Newline

\* A kill that found q dead is about to remove its queue, which is by now that of
\* another process of the same pid.
Disowned(q) ==
  \E r \in Procs : pc[r] = "clean queue" /\ target[r] = q /\ sent[Current(r)].life # starts[q]

\* The sends whose target is removing its queue or gone, those whose line meets the
\* line of another, and those that lie in a queue, or are on the way to one, that
\* is removed as the queue of a process long dead.
Racing ==
  {Current(p) : p \in {p \in Procs : Writing(p) /\
    (pc[target[p]] \in {"remove", "unlink", "ended"} \/ HalfLine(p) \/ Disowned(target[p]))}}
  \cup {i \in DOMAIN sent : InMailbox(i) /\ Disowned(sent[i].to)}

RacedInit == Init /\ raced = {}

RacedNext == Next /\ raced' = raced \cup Racing'

RacedSpec == RacedInit /\ [][RacedNext]_<<vars, raced>>

\* A signal is lost only when its send overlaps a removal of the same queue or
\* half a line of another send to it, or when its queue is removed by a kill to
\* an earlier process of the same pid: those races aside, what kill delivered is
\* pending until it is dispatched or its batch is given up.
LostOnlyInRace == \A i \in DOMAIN sent : Lost(i) => i \in raced

\* For model checking: processes are alike.
ProcSymmetry == Permutations(Owners)
=============================================================================
