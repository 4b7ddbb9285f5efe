----------------------------- MODULE MCPipelines -----------------------------
(* Pipelines of stages and pipelines of host programs: a behaviour is one or *)
(* the other.                                                                *)
EXTENDS Pipelines, PipeProcesses

Does(kind, does) ==
  [kind |-> kind, does |-> does, bump |-> FALSE, both |-> FALSE, target |-> "none"]
Bump(s) == [s EXCEPT !.bump = TRUE]
To(s, t) == [s EXCEPT !.target = t]

Echo == Does("echo", "ok")
Cat == Does("cat", "ok")
Host == Does("host", "ok")
Missing == Does("missing", "ok")
MissingBoth == [Missing EXCEPT !.both = TRUE]

\* A stage of every kind, with what can become of it.
Outer ==
  {Echo, Bump(Echo), Does("echo", "nounset"), To(Echo, "file"),
   To(Bump(Echo), "bad path"), To(Echo, "bad fd"),
   Cat, To(Cat, "file"), To(Cat, "bad path"),
   Host, Bump(Host), Does("host", "fail"), To(Host, "file"), To(Host, "bad path"),
   Missing, Does("wc -w", "ok"),
   Does("builtin", "set"), Does("builtin", "return"), Does("builtin", "exit"),
   Does("function", "ok"), Does("function", "return"),
   Does("group", "set"), Does("group", "nounset"), Does("group", "return"), Does("group", "fail"),
   Does("reader", "ok"), Does("reader", "fail"), Does("reader", "set")}

Inner == {Cat, MissingBoth, Does("function", "ok"), Does("group", "set"),
          Does("host", "fail"), Bump(Echo)}

Pairs == {<<a, b>> : a \in Outer \cup {MissingBoth}, b \in Outer}
Triples == {<<a, m, b>> : a \in Outer, m \in Inner, b \in Outer}

Of(s, l, p, n) == [stages |-> s, lastpipe |-> l, pipefail |-> p, noclobber |-> n]

\* A redirection of the stage that lastpipe runs is left out.
First == {l \in {Of(s, l, p, n) : s \in Pairs \cup Triples, l \in BOOLEAN, p \in BOOLEAN, n \in BOOLEAN} :
            l.lastpipe => Last(l.stages).target = "none"}

Second == {Of(s, FALSE, FALSE, n) :
            s \in {<<Echo, Cat>>, <<Echo, To(Cat, "file")>>, <<Does("echo", "nounset"), Cat, Cat>>},
            n \in BOOLEAN}

MCLines == <<First, Second>>

VARIABLE pipes   \* which of the two

ProcessesIdle ==
  /\ program = << >> /\ input = 0 /\ spot = "done" /\ next = 0
  /\ reports = << >> /\ recorded = << >> /\ member = << >> /\ ending = << >>
  /\ killed = {} /\ closed = {} /\ held = << >> /\ made = << >>
  /\ pipe = [i \in {0} |-> 0]

MCPInit ==
  \/ pipes = "stages" /\ PipelinesInit /\ ProcessesIdle
  \/ pipes = "processes" /\ PipelinesInit /\ PipeInit

MCPNext ==
  \/ pipes = "stages" /\ PipelinesNext /\ UNCHANGED <<ppVars, pipes>>
  \/ pipes = "processes" /\ PipeNext /\ UNCHANGED <<pVars, pipes>>

MCPSpec == MCPInit /\ [][MCPNext]_<<pVars, ppVars, pipes>> /\ PipeFairness
=============================================================================
