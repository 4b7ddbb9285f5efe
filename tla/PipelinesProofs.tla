-------------------------- MODULE PipelinesProofs --------------------------
(***************************************************************************)
(* Proofs about pipelines.                                                  *)
(*                                                                         *)
(* Stages that run one after the other (Pipelines): for every script, the  *)
(* pipelines keep the promise that the model checker looks at on a few of  *)
(* them. The reference is a recursive function of the stages, so a fact     *)
(* about it at one stage comes from the one before, and what holds at all  *)
(* of them from there being no least stage at which it fails. The invariant *)
(* says where the loop has got to in those terms: what it has is what the  *)
(* reference has after as many stages, but for the causes it has noted.     *)
(*                                                                         *)
(* Host programs joined by pipes (PipeProcesses): for any number of         *)
(* members, any programs and any capacity of the pipes, every member's      *)
(* status is recorded at its place and every process that was started is    *)
(* reaped; all that can stop it is a row of full pipes. PipeInv adds to     *)
(* MembersAccountedFor how far the shell has come (Progress) and that the   *)
(* statuses it has taken are those of the members to the right of next     *)
(* (TakenFromTheRight).                                                     *)
(***************************************************************************)
EXTENDS Pipelines, PipeProcesses, OrderProofs, SequenceTheorems, TLAPS

-------------------------------------------------------------------------------
(* Stages one after the other *)


Start0(sh, f) == [text |-> << >>, file |-> f, statuses |-> << >>, shell |-> sh]

\* References is what its recursion says.
LEMMA ReferencesAre ==
  ASSUME NEW l, Len(l.stages) \in Nat, NEW sh, NEW f
  PROVE  References(l, sh, f) =
           [i \in 0 .. Len(l.stages) |->
              IF i = 0 THEN Start0(sh, f)
              ELSE RefStage(l, References(l, sh, f)[i - 1], l.stages[i])]
<1> DEFINE Size == Len(l.stages)
           Follows(g, m) == g = [i \in 0 .. m |->
                                   IF i = 0 THEN Start0(sh, f)
                                   ELSE RefStage(l, g[i - 1], l.stages[i])]
           Fails == {m \in 0 .. Size : ~ \E g : Follows(g, m)}
<1>1. Fails = {}
  <2> SUFFICES ASSUME Fails # {} PROVE FALSE
    OBVIOUS
  <2>1. Fails \in SUBSET Nat
    OBVIOUS
  <2>2. PICK m \in Fails : \A j \in Fails : m <= j
    BY <2>1, LeastNumber
  <2>3. CASE m = 0
    <3> DEFINE g == [i \in 0 .. 0 |-> Start0(sh, f)]
    <3>1. Follows(g, 0)
      OBVIOUS
    <3> QED BY <2>2, <2>3, <3>1
  <2>4. CASE m # 0
    <3>1. m - 1 \in 0 .. Size /\ m - 1 \notin Fails /\ m \in Nat
      BY <2>2, <2>4
    <3>2. PICK g : Follows(g, m - 1)
      BY <3>1
    <3> DEFINE h == [i \in 0 .. m |-> IF i = m THEN RefStage(l, g[m - 1], l.stages[m]) ELSE g[i]]
    <3>3. \A i \in 0 .. m - 1 : h[i] = g[i]
      BY <3>1
    <3>4. h[m] = RefStage(l, h[m - 1], l.stages[m]) /\ m - 1 \in 0 .. m - 1
      BY <3>1, <3>3, <2>4
    <3>5. ASSUME NEW i \in 0 .. m
          PROVE  h[i] = IF i = 0 THEN Start0(sh, f) ELSE RefStage(l, h[i - 1], l.stages[i])
      <4>1. CASE i = m
        BY <4>1, <3>4, <2>4
      <4>2. CASE i # m
        <5>1. i \in 0 .. m - 1 /\ (i # 0 => i - 1 \in 0 .. m - 1)
          BY <4>2, <3>1
        <5> HIDE DEF h
        <5> QED BY <5>1, <3>2, <3>3
      <4> QED BY <4>1, <4>2
    <3>6. DOMAIN h = 0 .. m /\ h = [i \in 0 .. m |-> h[i]]
      OBVIOUS
    <3> HIDE DEF h
    <3>7. Follows(h, m)
      BY <3>5, <3>6
    <3> QED BY <3>7, <2>2
  <2> QED BY <2>3, <2>4
<1>2. \E g : Follows(g, Size)
  BY <1>1
<1>3. References(l, sh, f) = CHOOSE g : Follows(g, Size)
  BY DEF References, Start0
<1> QED BY <1>2, <1>3

-------------------------------------------------------------------------------
(* The reference, stage by stage *)

Codes == {0, 1, 3, 127}
Tokens == {"value", "words", "blank", "did", "diagnostic"} \X Nat
Shells == [x : Nat, y : {0, 1}]

\* What the reference has after i stages of line l, from what was before it.
RefAt(l, b, i) == References(l, b.shell, b.file)[i]

LEMMA LineIs ==
  ASSUME NEW l \in PipelineLines
  PROVE  /\ l.stages \in Seq(Stages) /\ Len(l.stages) \in Nat \ {0}
         /\ DOMAIN l.stages = 1 .. Len(l.stages)
         /\ \A i \in 1 .. Len(l.stages) : l.stages[i] \in Stages
         /\ l.lastpipe \in BOOLEAN /\ l.noclobber \in BOOLEAN /\ l.pipefail \in BOOLEAN
         /\ Last(l.stages) = l.stages[Len(l.stages)]
         /\ ~l.stages[Len(l.stages)].both
         /\ l.lastpipe => l.stages[Len(l.stages)].target = "none"
<1>1. l.stages \in Seq(Stages) /\ l.stages # << >>
      /\ l.lastpipe \in BOOLEAN /\ l.noclobber \in BOOLEAN /\ l.pipefail \in BOOLEAN
      /\ ~Last(l.stages).both /\ (l.lastpipe => Last(l.stages).target = "none")
  BY DEF PipelineLines
<1>2. Last(l.stages) = l.stages[Len(l.stages)]
  BY DEF Last
<1> QED BY <1>1, <1>2

LEMMA StageHas ==
  ASSUME NEW s \in Stages
  PROVE  /\ s.kind \in Kinds /\ s.does \in Deeds /\ s.bump \in BOOLEAN /\ s.both \in BOOLEAN
         /\ s.target \in Targets
         /\ s.target # "none" => s.kind \in Simple
         /\ s.kind = "echo" => s.does \in {"ok", "nounset"}
         /\ s.kind = "host" => s.does \in {"ok", "fail"}
         /\ s.kind \in {"cat", "missing"} => s.does = "ok"
         /\ Status(s) \in Codes
         /\ s = [kind |-> s.kind, does |-> s.does, bump |-> s.bump, both |-> s.both,
                 target |-> s.target]
<1>1. s \in [kind : Kinds, does : Deeds, bump : BOOLEAN, both : BOOLEAN, target : Targets]
      /\ s.does \in CanDo(s.kind) /\ (s.target # "none" => s.kind \in Simple)
  BY DEF Stages
<1>2. /\ s.kind = "echo" => s.does \in {"ok", "nounset"}
      /\ s.kind = "host" => s.does \in {"ok", "fail"}
      /\ s.kind \in {"cat", "missing"} => s.does = "ok"
  BY <1>1 DEF CanDo
<1>3. Status(s) \in Codes
  BY DEF Status, Codes
<1> QED BY <1>1, <1>2, <1>3

LEMMA WrittenIs ==
  ASSUME NEW s \in Stages, NEW n \in Nat, NEW t \in Seq(Tokens)
  PROVE  Written(s, n, t) \in Seq(Tokens)
<1>1. <<Value(n)>> \in Seq(Tokens) /\ <<Words(Len(t))>> \in Seq(Tokens)
      /\ <<Did>> \in Seq(Tokens) /\ <<Blank>> \in Seq(Tokens) /\ << >> \in Seq(Tokens)
  <2>1. Value(n) \in Tokens /\ Words(Len(t)) \in Tokens /\ Did \in Tokens /\ Blank \in Tokens
    BY DEF Value, Words, Did, Blank, Tokens
  <2> QED BY <2>1
<1>2. t # << >> => <<Head(t)>> \in Seq(Tokens)
  <2> SUFFICES ASSUME t # << >> PROVE <<Head(t)>> \in Seq(Tokens)
    OBVIOUS
  <2>1. Head(t) \in Tokens
    BY HeadTailProperties
  <2> HIDE DEF Tokens
  <2> QED BY <2>1
<1> DEFINE w == Written(s, n, t)
<1>3. CASE s.does \notin {"ok", "set"}
  <2>1. w = << >>
    BY <1>3 DEF Written
  <2> QED BY <1>1, <2>1
<1>4. CASE s.does \in {"ok", "set"}
  <2>1. CASE s.kind = "echo"
    BY <1>1, <1>4, <2>1 DEF Written
  <2>2. CASE s.kind \in {"cat", "host"}
    BY <1>1, <1>4, <2>2 DEF Written
  <2>3. CASE s.kind = "wc -w"
    <3>1. Written(s, n, t) = <<Words(Len(t))>>
      BY <1>4, <2>3 DEF Written
    <3> QED BY <1>1, <3>1
  <2>4. CASE s.kind \in {"function", "group"}
    BY <1>1, <1>4, <2>4 DEF Written
  <2>5. CASE s.kind = "reader"
    BY <1>1, <1>2, <1>4, <2>5 DEF Written
  <2>6. CASE s.kind \in {"builtin", "missing"}
    BY <1>1, <1>4, <2>6 DEF Written
  <2> QED BY <2>1, <2>2, <2>3, <2>4, <2>5, <2>6, <1>4, StageHas DEF Kinds
<1> QED BY <1>3, <1>4

LEMMA PassedIs ==
  ASSUME NEW s \in Stages, NEW out \in Seq(Tokens)
  PROVE  Passed(s, out) \in Seq(Tokens) /\ (~s.both \/ s.kind # "missing" => Passed(s, out) = out)
<1>1. Diagnostics(s) \in Seq(Tokens) /\ << >> \in Seq(Tokens)
  <2>1. Diag \in Tokens
    BY DEF Diag, Tokens
  <2> QED BY <2>1 DEF Diagnostics
<1>2. s.kind # "missing" => Diagnostics(s) = << >>
  BY DEF Diagnostics
<1>3. out \o << >> = out
  OBVIOUS
<1> QED BY <1>1, <1>2, <1>3 DEF Passed

LEMMA AfterIs ==
  ASSUME NEW s \in Stages, NEW sh \in Shells
  PROVE  /\ After(s, sh) \in Shells
         /\ ~s.bump /\ s.does # "set" /\ s.kind # "reader" => After(s, sh) = sh
<1>1. sh = [x |-> sh.x, y |-> sh.y] /\ sh.x \in Nat /\ sh.y \in {0, 1}
  BY DEF Shells
<1> QED BY <1>1 DEF After, Shells

\* One stage of the reference.
Shaped(acc) ==
  acc = [text |-> acc.text, file |-> acc.file, statuses |-> acc.statuses, shell |-> acc.shell]

\* What one stage of the reference makes of the text, the file and the shell.
RefOut(acc, s) == Written(s, acc.shell.x, acc.text)
RefText(acc, s) == (IF s.target = "file" THEN << >> ELSE RefOut(acc, s))
                     \o (IF s.both THEN Diagnostics(s) ELSE << >>)
RefFile(acc, s) == IF s.target = "file" THEN <<RefOut(acc, s)>> ELSE acc.file
RefShell(l, acc, s) ==
  IF l.lastpipe /\ Len(acc.statuses) + 1 = Len(l.stages) THEN After(s, acc.shell) ELSE acc.shell
RefRefuses(l, acc, s) == Refused(s, acc.file, l.noclobber)

LEMMA RefusedStage ==
  ASSUME NEW l, NEW acc, Shaped(acc), NEW s, RefRefuses(l, acc, s)
  PROVE  RefStage(l, acc, s) = [text |-> << >>, file |-> acc.file,
                                statuses |-> Append(acc.statuses, 1), shell |-> acc.shell]
<1>1. RefStage(l, acc, s) = [acc EXCEPT !.text = << >>, !.statuses = Append(@, 1)]
  BY DEF RefStage, RefRefuses
<1> QED BY <1>1 DEF Shaped

LEMMA RanStage ==
  ASSUME NEW l, NEW acc, NEW s, ~RefRefuses(l, acc, s)
  PROVE  RefStage(l, acc, s) = [text |-> RefText(acc, s), file |-> RefFile(acc, s),
                                statuses |-> Append(acc.statuses, Status(s)),
                                shell |-> RefShell(l, acc, s)]
BY DEF RefStage, RefRefuses, RefText, RefFile, RefShell, RefOut

LEMMA RefStageKeeps ==
  ASSUME NEW l, NEW acc, NEW s, NEW n, Shaped(acc), n = RefStage(l, acc, s)
  PROVE  /\ Shaped(n)
         /\ n.statuses \in {Append(acc.statuses, 1), Append(acc.statuses, Status(s))}
         /\ \/ n.shell = acc.shell
            \/ l.lastpipe /\ Len(acc.statuses) + 1 = Len(l.stages)
<1>1. CASE RefRefuses(l, acc, s)
  <2>1. n = [text |-> << >>, file |-> acc.file, statuses |-> Append(acc.statuses, 1),
             shell |-> acc.shell]
    BY <1>1, RefusedStage
  <2> QED BY <2>1 DEF Shaped
<1>2. CASE ~RefRefuses(l, acc, s)
  <2>1. n = [text |-> RefText(acc, s), file |-> RefFile(acc, s),
             statuses |-> Append(acc.statuses, Status(s)), shell |-> RefShell(l, acc, s)]
    BY <1>2, RanStage
  <2> QED BY <2>1 DEF Shaped, RefShell
<1> QED BY <1>1, <1>2

LEMMA RefSteps ==
  ASSUME NEW l \in PipelineLines, NEW b
  PROVE  /\ RefAt(l, b, 0) = Start0(b.shell, b.file)
         /\ \A i \in 1 .. Len(l.stages) : RefAt(l, b, i) = RefStage(l, RefAt(l, b, i - 1), l.stages[i])
<1>1. Len(l.stages) \in Nat
  BY LineIs
<1>2. \A sh, f : /\ References(l, sh, f)[0] = Start0(sh, f)
                 /\ \A i \in 1 .. Len(l.stages) :
                      References(l, sh, f)[i] = RefStage(l, References(l, sh, f)[i - 1], l.stages[i])
  <2> SUFFICES ASSUME NEW sh, NEW f
               PROVE  /\ References(l, sh, f)[0] = Start0(sh, f)
                      /\ \A i \in 1 .. Len(l.stages) :
                           References(l, sh, f)[i] =
                             RefStage(l, References(l, sh, f)[i - 1], l.stages[i])
    OBVIOUS
  <2> DEFINE R == References(l, sh, f)
  <2>1. R = [i \in 0 .. Len(l.stages) |-> IF i = 0 THEN Start0(sh, f)
                                          ELSE RefStage(l, R[i - 1], l.stages[i])]
    BY <1>1, ReferencesAre
  <2> HIDE DEF R
  <2>2. R[0] = Start0(sh, f)
        /\ \A i \in 1 .. Len(l.stages) : R[i] = RefStage(l, R[i - 1], l.stages[i])
    BY <1>1, <2>1
  <2> QED BY <2>2 DEF R
<1> QED BY <1>2 DEF RefAt

\* A status for each stage; the shell's own state is only the last stage's to
\* change, under lastpipe.
LEMMA RefKeeps ==
  ASSUME NEW l \in PipelineLines, NEW b, NEW i \in 0 .. Len(l.stages)
  PROVE  /\ Shaped(RefAt(l, b, i))
         /\ RefAt(l, b, i).statuses \in Seq(Codes) /\ Len(RefAt(l, b, i).statuses) = i
         /\ i < Len(l.stages) \/ ~l.lastpipe => RefAt(l, b, i).shell = b.shell
<1> DEFINE Size == Len(l.stages)
           Holds(j) == /\ Shaped(RefAt(l, b, j))
                       /\ RefAt(l, b, j).statuses \in Seq(Codes) /\ Len(RefAt(l, b, j).statuses) = j
                       /\ j < Size \/ ~l.lastpipe => RefAt(l, b, j).shell = b.shell
           Fails == {j \in 0 .. Size : ~Holds(j)}
<1>1. Size \in Nat \ {0}
  BY LineIs
<1>2. Fails = {}
  <2> SUFFICES ASSUME Fails # {} PROVE FALSE
    OBVIOUS
  <2>1. Fails \in SUBSET Nat
    BY <1>1
  <2>2. PICK j \in Fails : \A m \in Fails : j <= m
    BY <2>1, LeastNumber
  <2>3. CASE j = 0
    <3>1. RefAt(l, b, 0) = Start0(b.shell, b.file)
      BY RefSteps
    <3>2. << >> \in Seq(Codes) /\ Len(<< >>) = 0
      OBVIOUS
    <3>3. /\ Shaped(RefAt(l, b, 0)) /\ RefAt(l, b, 0).statuses = << >>
          /\ RefAt(l, b, 0).shell = b.shell
      BY <3>1 DEF Start0, Shaped
    <3>4. Holds(0)
      BY <3>2, <3>3
    <3> QED BY <2>2, <2>3, <3>4
  <2>4. CASE j # 0
    <3>1. j - 1 \in 0 .. Size /\ j \in 1 .. Size /\ j - 1 \notin Fails
      BY <2>2, <2>4, <1>1
    <3>2. Holds(j - 1)
      BY <3>1
    <3>3. RefAt(l, b, j) = RefStage(l, RefAt(l, b, j - 1), l.stages[j])
      BY <3>1, RefSteps
    <3>4. Status(l.stages[j]) \in Codes /\ 1 \in Codes
      BY <3>1, LineIs, StageHas DEF Codes
    <3> DEFINE acc == RefAt(l, b, j - 1)
               n == RefAt(l, b, j)
    <3>5. /\ Shaped(acc) /\ acc.statuses \in Seq(Codes) /\ Len(acc.statuses) = j - 1
          /\ j - 1 < Size \/ ~l.lastpipe => acc.shell = b.shell
      BY <3>2
    <3>6. n = RefStage(l, acc, l.stages[j])
      BY <3>3
    <3> HIDE DEF acc, n, Size
    <3>7. /\ Shaped(n) /\ n.statuses \in {Append(acc.statuses, 1), Append(acc.statuses, Status(l.stages[j]))}
          /\ n.shell = acc.shell \/ (l.lastpipe /\ Len(acc.statuses) + 1 = Size)
      <4> DEFINE s == l.stages[j]
      <4> HIDE DEF s
      <4>1. n = RefStage(l, acc, s)
        BY <3>6 DEF s
      <4>2. Shaped(acc)
        BY <3>5
      <4>3. Shaped(n)
        BY <4>1, <4>2, RefStageKeeps
      <4>4. n.statuses \in {Append(acc.statuses, 1), Append(acc.statuses, Status(s))}
        BY <4>1, <4>2, RefStageKeeps
      <4>5. n.shell = acc.shell \/ (l.lastpipe /\ Len(acc.statuses) + 1 = Len(l.stages))
        BY <4>1, <4>2, RefStageKeeps
      <4> QED BY <4>3, <4>4, <4>5 DEF Size, s
    <3>8. n.statuses \in Seq(Codes) /\ Len(n.statuses) = j
      <4>1. PICK v \in Codes : n.statuses = Append(acc.statuses, v)
        BY <3>4, <3>7
      <4> HIDE DEF Codes
      <4> QED BY <4>1, <3>1, <3>5
    <3>9. j < Size \/ ~l.lastpipe => n.shell = b.shell
      BY <3>1, <3>5, <3>7, <1>1
    <3>10. Holds(j)
      BY <3>7, <3>8, <3>9 DEF n
    <3> QED BY <3>10, <2>2
  <2> QED BY <2>3, <2>4
<1> QED BY <1>1, <1>2

-------------------------------------------------------------------------------
(* The invariant: the stages that have run have made of the text, the file,   *)
(* the statuses and the shell what the reference makes of them, but for what  *)
(* the causes say.                                                            *)

\* The reference after as many stages as have run.
Ref == RefAt(line, before, k - 1)

Types ==
  /\ phase \in {"idle", "timed", "hosts", "stages"}
  /\ line \in PipelineLines \cup {NoLine}
  /\ k \in 1 .. Len(line.stages) + 1
  /\ text \in Seq(Tokens) /\ statuses \in Seq(Codes)
  /\ pipestatus \in Seq(Codes) /\ pipestatus # << >>
  /\ shell \in Shells /\ before.shell \in Shells
  /\ sink \in {"output", "stage"} /\ latch \in BOOLEAN
  /\ outcome \in {"none", "done", "failed", "returned", "exited"}
  /\ count \in Nat
  /\ (outcome # "none") <=> (phase = "idle" /\ count > 0)
  /\ phase # "idle" \/ count > 0 => line \in PipelineLines
  /\ phase # "idle" => count > 0 /\ shown = << >>

Unstarted == /\ k = 1 /\ text = << >> /\ statuses = << >>
             /\ file = before.file /\ sink = before.sink

\* An unbound name that the timed read met goes with the echo it met it in.
LatchKept ==
  latch => \/ before.latch
           \/ /\ TimedTried
              /\ \/ line.stages[1].kind = "group"
                 \/ k = 1 /\ line.stages[1].does = "nounset"

InTimed == phase = "timed" => /\ Unstarted /\ causes = {}
                              /\ shell = before.shell /\ latch = before.latch

InHosts == phase = "hosts" => /\ Unstarted /\ LatchKept
                              /\ "words" \in causes \/ shell = before.shell
                              /\ ~TimedTried => shell = before.shell

Together ==
  /\ k = Len(line.stages) + 1 /\ text = << >> /\ file = before.file
  /\ statuses = [i \in DOMAIN line.stages |-> Status(line.stages[i])]
  /\ shell = before.shell
  /\ line.lastpipe /\ Final.bump => "words" \in causes

StepByStep ==
  /\ statuses = Ref.statuses
  /\ file = NoFile <=> Ref.file = NoFile
  /\ "words" \in causes \/ shell = Ref.shell
  /\ causes \cap {"words", "blank", "kept"} = {} =>
       /\ k <= Len(line.stages) \/ Final.target # "file" => text = Ref.text /\ file = Ref.file
       /\ k > Len(line.stages) /\ Final.target = "file" => Ref.text = << >> /\ Ref.file = <<text>>

InStages == phase = "stages" => /\ sink = before.sink /\ LatchKept
                                /\ AllHosts => Together
                                /\ ~AllHosts => StepByStep

PipelineInv ==
  Types /\ InTimed /\ InHosts /\ InStages
    /\ ShellIsolated /\ StatusesTheirOwn /\ TextPiped /\ ShellPutBack

LEMMA InvPromises ==
  ASSUME PipelineInv
  PROVE  PipelineAsPromised
<1>1. shell.x \in Nat /\ shell.y \in {0, 1}
  BY DEF PipelineInv, Types, Shells
<1>2. \A i \in DOMAIN statuses : statuses[i] \in {0, 1, 3, 127}
  BY DEF PipelineInv, Types, Codes
<1>3. PipelinesTypeOK
  BY <1>1, <1>2 DEF PipelineInv, Types, PipelinesTypeOK
<1> QED BY <1>3 DEF PipelineInv, PipelineAsPromised

\* Where the reference has got to when the stage that is next has run.
LEMMA RefNext ==
  ASSUME line \in PipelineLines, k \in 1 .. Len(line.stages),
         k' = k + 1, line' = line, before' = before
  PROVE  /\ Shaped(Ref) /\ Len(Ref.statuses) = k - 1
         /\ Ref' = RefStage(line, Ref, Stage)
<1>1. k - 1 \in 0 .. Len(line.stages) /\ k' - 1 = k /\ Len(line.stages) \in Nat
  BY LineIs
<1>2. Ref' = RefAt(line, before, k)
  BY <1>1 DEF Ref, RefAt
<1>3. Shaped(RefAt(line, before, k - 1))
  BY <1>1, RefKeeps
<1>4. Len(RefAt(line, before, k - 1).statuses) = k - 1
  BY <1>1, RefKeeps
<1>5. RefAt(line, before, k) = RefStage(line, RefAt(line, before, k - 1), line.stages[k])
  BY RefSteps
<1> QED BY <1>2, <1>3, <1>4, <1>5 DEF Ref, Stage

LEMMA SameLine ==
  ASSUME line' = line
  PROVE  /\ AllHosts' = AllHosts /\ TimedTried' = TimedTried /\ Final' = Final
BY DEF AllHosts, TimedTried, Final

\* The parts of the invariant that a stage in the middle leaves alone.
LEMMA StageKeeps ==
  ASSUME PipelineInv, phase = "stages", k \in 1 .. Len(line.stages),
         NEW out \in Seq(Tokens), NEW status \in Codes, Goes(out, status),
         shell' \in Shells, latch' \in BOOLEAN, sink' = sink, latch' => latch,
         TimedTried /\ k = 1 /\ Stage.kind = "echo" /\ Stage.does = "nounset" => ~latch',
         StepByStep => StepByStep'
  PROVE  PipelineInv'
<1>1. Types /\ InStages /\ line \in PipelineLines
  BY DEF PipelineInv, Types
<1>2. /\ text' = Passed(Stage, out) /\ statuses' = Append(statuses, status) /\ k' = k + 1
      /\ line' = line /\ phase' = phase /\ shown' = shown /\ pipestatus' = pipestatus
      /\ code' = code /\ outcome' = outcome /\ before' = before /\ count' = count
  BY DEF Goes
<1>3. Len(line.stages) \in Nat \ {0} /\ Stage \in Stages /\ line.stages[1] \in Stages
  BY <1>1, LineIs DEF Stage
<1>4. Passed(Stage, out) \in Seq(Tokens)
  BY <1>3, PassedIs
<1>5. statuses' \in Seq(Codes)
  <2> HIDE DEF Codes
  <2> QED BY <1>1, <1>2 DEF Types
<1>6. Types'
  <2>1. k' \in 1 .. Len(line'.stages) + 1
    BY <1>2, <1>3
  <2> QED BY <1>1, <1>2, <1>4, <1>5, <2>1 DEF Types
<1>7. ~AllHosts
  BY <1>1, <1>3 DEF InStages, Together
<1>8. LatchKept'
  <2> SUFFICES ASSUME latch', ~before.latch
               PROVE  TimedTried /\ line.stages[1].kind = "group"
    BY <1>2, SameLine DEF LatchKept
  <2>1. TimedTried /\ (line.stages[1].kind = "group" \/ (k = 1 /\ line.stages[1].does = "nounset"))
    BY <1>1 DEF InStages, LatchKept
  <2>2. line.stages[1].kind \in {"echo", "group"}
    BY <2>1 DEF TimedTried, TimedSource
  <2> QED BY <2>1, <2>2 DEF Stage
<1>9. StepByStep' /\ ~AllHosts' /\ sink' = before'.sink
  BY <1>1, <1>2, <1>7, SameLine DEF InStages
<1>10. InStages' /\ InTimed' /\ InHosts'
  BY <1>2, <1>8, <1>9 DEF InStages, InTimed, InHosts
<1>11. ~AtEnd'
  BY <1>2 DEF AtEnd
<1>12. ShellIsolated' /\ StatusesTheirOwn' /\ TextPiped' /\ ShellPutBack'
  BY <1>11 DEF ShellIsolated, StatusesTheirOwn, TextPiped, ShellPutBack
<1> QED BY <1>6, <1>10, <1>12 DEF PipelineInv

\* A stage that was not refused its redirection.
LEMMA StageRuns ==
  ASSUME PipelineInv, phase = "stages", k \in 1 .. Len(line.stages), StepByStep,
         NEW out \in Seq(Tokens), Goes(out, Status(Stage)),
         ~Refused(Stage, file, line.noclobber),
         \/ out = Written(Stage, shell.x, text)
         \/ causes' \cap {"words", "blank", "kept"} # {},
         file' = (IF Stage.target = "file" THEN << << >> >> ELSE file),
         causes \subseteq causes',
         Stage.target = "file" /\ ~IsLast => "kept" \in causes',
         \/ "words" \in causes'
         \/ shell' = IF InShell THEN After(Stage, shell) ELSE shell
  PROVE  StepByStep'
<1> DEFINE n == RefStage(line, Ref, Stage)
           X == {"words", "blank", "kept"}
<1>1. line \in PipelineLines /\ Len(line.stages) \in Nat \ {0} /\ Stage \in Stages
  BY LineIs DEF PipelineInv, Types, Stage
<1>2. /\ text' = Passed(Stage, out) /\ statuses' = Append(statuses, Status(Stage)) /\ k' = k + 1
      /\ line' = line /\ before' = before
  BY DEF Goes
<1>3. Shaped(Ref) /\ Len(Ref.statuses) = k - 1 /\ Ref' = n
  BY <1>1, <1>2, RefNext
<1>4. ~RefRefuses(line, Ref, Stage)
  BY DEF StepByStep, Refused, RefRefuses
<1>5. n = [text |-> RefText(Ref, Stage), file |-> RefFile(Ref, Stage),
           statuses |-> Append(Ref.statuses, Status(Stage)), shell |-> RefShell(line, Ref, Stage)]
  BY <1>4, RanStage
<1> HIDE DEF n
<1>6. /\ Ref'.text = RefText(Ref, Stage) /\ Ref'.file = RefFile(Ref, Stage)
      /\ Ref'.statuses = Append(Ref.statuses, Status(Stage))
      /\ Ref'.shell = RefShell(line, Ref, Stage)
  BY <1>3, <1>5
<1>7. statuses' = Ref'.statuses
  BY <1>2, <1>6 DEF StepByStep
<1>8. file' = NoFile <=> Ref'.file = NoFile
  BY <1>6 DEF StepByStep, RefFile, NoFile
<1>9. "words" \in causes' \/ shell' = Ref'.shell
  <2> SUFFICES ASSUME "words" \notin causes' PROVE shell' = RefShell(line, Ref, Stage)
    BY <1>6
  <2>1. shell = Ref.shell /\ shell' = (IF InShell THEN After(Stage, shell) ELSE shell)
    BY DEF StepByStep
  <2>2. InShell <=> (line.lastpipe /\ Len(Ref.statuses) + 1 = Len(line.stages))
    BY <1>1, <1>3 DEF InShell, IsLast
  <2> QED BY <2>1, <2>2 DEF RefShell
<1>10. ASSUME causes' \cap X = {}
       PROVE  /\ k' <= Len(line'.stages) \/ Final'.target # "file" => text' = Ref'.text /\ file' = Ref'.file
              /\ k' > Len(line'.stages) /\ Final'.target = "file" => Ref'.text = << >> /\ Ref'.file = <<text'>>
  <2>1. causes \cap X = {} /\ "words" \notin causes /\ "kept" \notin causes'
    BY <1>10
  <2>2. text = Ref.text /\ file = Ref.file /\ shell = Ref.shell
    BY <1>1, <2>1 DEF StepByStep
  <2>3. out = RefOut(Ref, Stage)
    BY <1>10, <2>2 DEF RefOut
  <2>4. Final' = Final /\ line' = line /\ Final = line.stages[Len(line.stages)] /\ ~Final.both
    BY <1>1, <1>2, SameLine, LineIs DEF Final
  <2>5. CASE Stage.target # "file"
    <3>1. text' = Ref'.text /\ file' = Ref'.file
      BY <1>2, <1>6, <2>2, <2>3, <2>5 DEF RefText, RefFile, Passed
    <3>2. k' > Len(line.stages) => Final = Stage
      BY <1>1, <1>2, <2>4 DEF Stage
    <3> QED BY <2>4, <2>5, <3>1, <3>2
  <2>6. CASE Stage.target = "file"
    <3>1. k = Len(line.stages) /\ Final = Stage
      BY <2>1, <2>4, <2>6 DEF IsLast, Stage
    <3>2. text' = out
      BY <1>1, <1>2, <2>4, <3>1, PassedIs
    <3>3. Ref'.file = <<out>>
      BY <1>6, <2>3, <2>6 DEF RefFile
    <3>4. Ref'.text = << >> \o << >>
      BY <1>6, <2>4, <2>6, <3>1 DEF RefText
    <3>5. << >> \o << >> = << >>
      OBVIOUS
    <3>6. ~(k' <= Len(line.stages))
      BY <1>1, <1>2, <3>1
    <3> QED BY <2>4, <2>6, <3>1, <3>2, <3>3, <3>4, <3>5, <3>6
  <2> QED BY <2>5, <2>6
<1> QED BY <1>7, <1>8, <1>9, <1>10 DEF StepByStep

-------------------------------------------------------------------------------
(* The stages, one action each *)

LEMMA RunningIs ==
  ASSUME PipelineInv, phase = "stages", k <= Len(line.stages)
  PROVE  /\ k \in 1 .. Len(line.stages) /\ Stage \in Stages /\ StepByStep
         /\ line \in PipelineLines /\ shell \in Shells /\ shell.x \in Nat
         /\ text \in Seq(Tokens) /\ latch \in BOOLEAN
<1>1. Types /\ InStages /\ line \in PipelineLines
  BY DEF PipelineInv, Types
<1>2. Len(line.stages) \in Nat \ {0} /\ k \in 1 .. Len(line.stages)
  BY <1>1, LineIs DEF Types
<1>3. Stage \in Stages
  BY <1>1, <1>2, LineIs DEF Stage
<1>4. ~AllHosts
  BY <1>1, <1>2 DEF InStages, Together
<1> QED BY <1>1, <1>2, <1>3, <1>4 DEF InStages, Types, Shells

LEMMA ReadyIs ==
  ASSUME PipelineInv, Ready
  PROVE  /\ phase = "stages" /\ k \in 1 .. Len(line.stages) /\ Stage \in Stages /\ StepByStep
         /\ line \in PipelineLines /\ shell \in Shells /\ shell.x \in Nat /\ ~InShell
         /\ text \in Seq(Tokens) /\ latch \in BOOLEAN
BY RunningIs DEF Ready

\* A stage of a kind that opens its redirection itself, or has none.
LEMMA NotRefused ==
  ASSUME Stage \in Stages, Stage.kind \in Simple => Opens(Stage)
  PROVE  ~Refused(Stage, file, line.noclobber)
<1>1. Stage.target # "none" => Stage.kind \in Simple
  BY StageHas
<1> QED BY <1>1 DEF Opens, Refused

LEMMA EchoStep ==
  ASSUME PipelineInv, EchoStage
  PROVE  PipelineInv'
<1> DEFINE dead == Stage.does = "nounset"
           out == <<IF dead THEN Blank ELSE Value(shell.x)>>
<1>1. /\ Ready /\ Stage.kind = "echo" /\ Opens(Stage)
      /\ Goes(out, Dead(Stage, 0)) /\ latch' = (latch /\ ~dead)
      /\ causes' = causes \cup IgnoresTarget \cup (IF dead THEN {"blank"} ELSE {})
                     \cup (IF Stage.bump THEN {"words"} ELSE {})
      /\ shell' = After(Stage, shell) /\ file' = Opened(Stage) /\ sink' = sink
  BY DEF EchoStage, ReadyFor, Simple
<1>2. /\ phase = "stages" /\ k \in 1 .. Len(line.stages) /\ Stage \in Stages /\ StepByStep
      /\ shell \in Shells /\ shell.x \in Nat /\ latch \in BOOLEAN /\ ~InShell
  BY <1>1, ReadyIs
<1>3. Stage.does \in {"ok", "nounset"} /\ Stage.bump \in BOOLEAN
  BY <1>1, <1>2, StageHas
<1>4. out \in Seq(Tokens)
  <2>1. Blank \in Tokens /\ Value(shell.x) \in Tokens
    BY <1>2 DEF Blank, Value, Tokens
  <2> QED BY <2>1
<1>5. Dead(Stage, 0) = Status(Stage) /\ Status(Stage) \in Codes
  <2>1. Status(Stage) = IF dead THEN 127 ELSE 0
    BY <1>1, <1>3 DEF Status
  <2> QED BY <2>1, <1>2, StageHas DEF Dead
<1>6. shell' \in Shells /\ (~Stage.bump => shell' = shell)
  BY <1>1, <1>2, <1>3, AfterIs
<1>7. ~Refused(Stage, file, line.noclobber)
  BY <1>1, <1>2, NotRefused
<1>8. \/ out = Written(Stage, shell.x, text)
      \/ causes' \cap {"words", "blank", "kept"} # {}
  <2>1. CASE dead
    BY <1>1, <2>1
  <2>2. CASE ~dead
    <3>1. Written(Stage, shell.x, text) = <<Value(shell.x)>>
      BY <1>1, <1>3, <2>2 DEF Written
    <3> QED BY <2>2, <3>1
  <2> QED BY <2>1, <2>2
<1> HIDE DEF out
<1>9. /\ causes \subseteq causes' /\ (Stage.target = "file" /\ ~IsLast => "kept" \in causes')
      /\ "words" \in causes' \/ shell' = shell
  BY <1>1, <1>6 DEF IgnoresTarget
<1>10. StepByStep'
  BY <1>1, <1>2, <1>4, <1>5, <1>7, <1>8, <1>9, StageRuns DEF Opened
<1> QED BY <1>1, <1>2, <1>4, <1>5, <1>6, <1>10, StageKeeps

LEMMA FilterStep ==
  ASSUME PipelineInv, FilterStage
  PROVE  PipelineInv'
<1>1. /\ Ready /\ Stage.kind = "cat" /\ Opens(Stage)
      /\ Goes(text, 0) /\ causes' = causes \cup IgnoresTarget
      /\ file' = Opened(Stage) /\ shell' = shell /\ sink' = sink /\ latch' = latch
  BY DEF FilterStage, ReadyFor, Simple
<1>2. /\ phase = "stages" /\ k \in 1 .. Len(line.stages) /\ Stage \in Stages /\ StepByStep
      /\ shell \in Shells /\ text \in Seq(Tokens) /\ latch \in BOOLEAN /\ ~InShell
  BY <1>1, ReadyIs
<1>3. Stage.does = "ok"
  BY <1>1, <1>2, StageHas
<1>4. Status(Stage) = 0 /\ 0 \in Codes
  BY <1>1, <1>3 DEF Status, Codes
<1>5. text = Written(Stage, shell.x, text)
  BY <1>1, <1>3 DEF Written
<1>6. ~Refused(Stage, file, line.noclobber)
  BY <1>1, <1>2, NotRefused
<1>7. causes \subseteq causes' /\ (Stage.target = "file" /\ ~IsLast => "kept" \in causes')
  BY <1>1 DEF IgnoresTarget
<1>8. StepByStep'
  BY <1>1, <1>2, <1>4, <1>5, <1>6, <1>7, StageRuns DEF Opened
<1> QED BY <1>1, <1>2, <1>4, <1>8, StageKeeps

LEMMA HostStep ==
  ASSUME PipelineInv, HostStage
  PROVE  PipelineInv'
<1> DEFINE out == Written(Stage, shell.x, text)
           s == [Stage EXCEPT !.does = "ok"]
<1>1. /\ Ready /\ Stage.kind = "host" /\ Opens(Stage)
      /\ Goes(out, Status(Stage)) /\ shell' = After(s, shell)
      /\ causes' = causes \cup IgnoresTarget \cup (IF Stage.bump THEN {"words"} ELSE {})
      /\ file' = Opened(Stage) /\ sink' = sink /\ latch' = latch
  BY DEF HostStage, ReadyFor, Simple
<1>2. /\ phase = "stages" /\ k \in 1 .. Len(line.stages) /\ Stage \in Stages /\ StepByStep
      /\ shell \in Shells /\ shell.x \in Nat /\ text \in Seq(Tokens) /\ latch \in BOOLEAN
      /\ ~InShell
  BY <1>1, ReadyIs
<1>3. out \in Seq(Tokens) /\ Status(Stage) \in Codes /\ Stage.bump \in BOOLEAN
  BY <1>2, WrittenIs, StageHas
<1>4. shell' \in Shells /\ (~Stage.bump => shell' = shell)
  <2>1. /\ Stage = [kind |-> Stage.kind, does |-> Stage.does, bump |-> Stage.bump,
                    both |-> Stage.both, target |-> Stage.target]
        /\ Stage.both \in BOOLEAN /\ Stage.target \in Targets
        /\ Stage.target # "none" => Stage.kind \in Simple
    BY <1>2, StageHas
  <2>2. s = [kind |-> "host", does |-> "ok", bump |-> Stage.bump,
             both |-> Stage.both, target |-> Stage.target]
    BY <1>1, <2>1
  <2>3. s \in Stages
    BY <1>1, <1>3, <2>1, <2>2 DEF Stages, Kinds, Deeds, CanDo
  <2> QED BY <1>1, <1>2, <2>2, <2>3, AfterIs
<1>5. ~Refused(Stage, file, line.noclobber)
  BY <1>1, <1>2, NotRefused
<1> HIDE DEF s
<1>6. /\ causes \subseteq causes' /\ (Stage.target = "file" /\ ~IsLast => "kept" \in causes')
      /\ "words" \in causes' \/ shell' = shell
  BY <1>1, <1>4 DEF IgnoresTarget
<1>7. StepByStep'
  BY <1>1, <1>2, <1>3, <1>5, <1>6, StageRuns DEF Opened
<1> QED BY <1>1, <1>2, <1>3, <1>4, <1>7, StageKeeps

\* A stage with no redirection of the pipeline's to open.
LEMMA PlainStep ==
  ASSUME PipelineInv, phase = "stages", k \in 1 .. Len(line.stages),
         Stage.target = "none", Stage.kind # "echo" \/ InShell,
         NEW out \in Seq(Tokens), Goes(out, Status(Stage)), out = Written(Stage, shell.x, text),
         shell' = (IF InShell THEN After(Stage, shell) ELSE shell),
         file' = file, causes' = causes, sink' = sink, latch' = latch
  PROVE  PipelineInv'
<1>1. /\ Stage \in Stages /\ StepByStep /\ shell \in Shells /\ latch \in BOOLEAN
      /\ line \in PipelineLines
  BY RunningIs
<1>2. Status(Stage) \in Codes /\ shell' \in Shells
  BY <1>1, StageHas, AfterIs
<1>3. ~Refused(Stage, file, line.noclobber)
  BY DEF Refused
<1>4. StepByStep'
  BY <1>1, <1>3, StageRuns
<1>5. TimedTried /\ k = 1 => ~InShell
  BY DEF TimedTried, InShell, IsLast
<1> QED BY <1>1, <1>2, <1>4, <1>5, StageKeeps

LEMMA MissingStep ==
  ASSUME PipelineInv, MissingStage
  PROVE  PipelineInv'
<1>1. /\ Ready /\ Stage.kind = "missing" /\ Goes(<< >>, 127)
      /\ UNCHANGED <<shell, file, sink, latch, causes>>
  BY DEF MissingStage, ReadyFor
<1>2. /\ phase = "stages" /\ k \in 1 .. Len(line.stages) /\ Stage \in Stages
      /\ shell.x \in Nat /\ text \in Seq(Tokens) /\ ~InShell
  BY <1>1, ReadyIs
<1>3. Stage.does = "ok" /\ Stage.target = "none"
  BY <1>1, <1>2, StageHas DEF Simple
<1>4. Status(Stage) = 127
  BY <1>1, <1>3 DEF Status
<1>5. << >> = Written(Stage, shell.x, text) /\ << >> \in Seq(Tokens)
  BY <1>1, <1>3 DEF Written
<1> QED BY <1>1, <1>2, <1>3, <1>4, <1>5, PlainStep

LEMMA CopiedStep ==
  ASSUME PipelineInv, CopiedStage
  PROVE  PipelineInv'
<1>1. /\ Ready /\ Stage.kind \in OnCopy /\ Goes(Written(Stage, shell.x, text), Status(Stage))
      /\ shell' = shell /\ UNCHANGED <<file, sink, latch, causes>>
  BY DEF CopiedStage, ReadyFor, StageShell
<1>2. /\ phase = "stages" /\ k \in 1 .. Len(line.stages) /\ Stage \in Stages
      /\ shell.x \in Nat /\ text \in Seq(Tokens) /\ ~InShell
  BY <1>1, ReadyIs
<1>3. Stage.target = "none" /\ Stage.kind # "echo"
  BY <1>1, <1>2, StageHas DEF Simple, OnCopy
<1>4. Written(Stage, shell.x, text) \in Seq(Tokens)
  BY <1>2, WrittenIs
<1> QED BY <1>1, <1>2, <1>3, <1>4, PlainStep

LEMMA BadDescriptorStep ==
  ASSUME PipelineInv, BadDescriptor
  PROVE  PipelineInv'
<1>1. /\ Ready /\ Stage.target = "bad fd" /\ Stage.kind \in Simple
      /\ Goes(<< >>, 1) /\ UNCHANGED <<shell, file, sink, latch, causes>>
  BY DEF BadDescriptor
<1>2. /\ phase = "stages" /\ k \in 1 .. Len(line.stages) /\ Stage \in Stages /\ StepByStep
      /\ line \in PipelineLines /\ shell \in Shells /\ latch \in BOOLEAN /\ ~InShell
  BY <1>1, ReadyIs
<1>3. << >> \in Seq(Tokens) /\ 1 \in Codes
  BY DEF Codes
<1>4. ~(TimedTried /\ k = 1 /\ Stage.kind = "echo")
  BY <1>1 DEF TimedTried, TimedSource, Stage
<1>5. StepByStep'
  <2>1. /\ text' = Passed(Stage, << >>) /\ statuses' = Append(statuses, 1) /\ k' = k + 1
        /\ line' = line /\ before' = before
    BY <1>1 DEF Goes
  <2>2. Shaped(Ref) /\ Ref' = RefStage(line, Ref, Stage)
    BY <1>2, <2>1, RefNext
  <2>3. RefRefuses(line, Ref, Stage)
    BY <1>1 DEF RefRefuses, Refused
  <2>4. Ref' = [text |-> << >>, file |-> Ref.file,
                statuses |-> Append(Ref.statuses, 1), shell |-> Ref.shell]
    BY <2>2, <2>3, RefusedStage
  <2>5. /\ Ref'.text = << >> /\ Ref'.file = Ref.file
        /\ Ref'.statuses = Append(Ref.statuses, 1) /\ Ref'.shell = Ref.shell
    BY <2>4
  <2>6. text' = << >>
    <3>1. Stage.kind # "missing"
      BY <1>1 DEF Simple
    <3> QED BY <1>2, <1>3, <2>1, <3>1, PassedIs
  <2>7. Final' = Final /\ (k' > Len(line.stages) => Final = Stage) /\ k <= Len(line.stages)
    <3>1. Len(line.stages) \in Nat /\ Final = line.stages[Len(line.stages)]
      BY <1>2, LineIs DEF Final
    <3> QED BY <1>2, <2>1, <3>1, SameLine DEF Stage
  <2>8. ASSUME causes' \cap {"words", "blank", "kept"} = {}
        PROVE  file = Ref.file
    BY <1>1, <1>2, <2>7, <2>8 DEF StepByStep
  <2> QED BY <1>1, <1>2, <2>1, <2>5, <2>6, <2>7, <2>8 DEF StepByStep
<1> QED BY <1>1, <1>2, <1>3, <1>4, <1>5, StageKeeps

-------------------------------------------------------------------------------
(* How a pipeline ends *)

LEMMA PromisedIs ==
  ASSUME line \in PipelineLines
  PROVE  /\ Promised = RefAt(line, before, Len(line.stages))
         /\ ~line.lastpipe => Promised.shell = before.shell
<1>1. Len(line.stages) \in 0 .. Len(line.stages)
  BY LineIs
<1>2. Promised = RefAt(line, before, Len(line.stages))
  BY DEF Promised, Reference, RefAt
<1>3. ~line.lastpipe => RefAt(line, before, Len(line.stages)).shell = before.shell
  BY <1>1, RefKeeps
<1> QED BY <1>2, <1>3

LEMMA SamePromise ==
  ASSUME line' = line, before' = before
  PROVE  Promised' = Promised
BY DEF Promised

\* But for words expanded in it, the shell is what it was, unless under lastpipe.
LEMMA ShellKept ==
  ASSUME PipelineInv, phase = "stages", ~line.lastpipe
  PROVE  "words" \in causes \/ shell = Promised.shell
<1>1. Types /\ InStages /\ line \in PipelineLines
  BY DEF PipelineInv, Types
<1>2. Promised.shell = before.shell
  BY <1>1, PromisedIs
<1>3. CASE AllHosts
  BY <1>1, <1>2, <1>3 DEF InStages, Together
<1>4. CASE ~AllHosts
  <2>1. k - 1 \in 0 .. Len(line.stages)
    BY <1>1, LineIs DEF Types
  <2>2. Ref.shell = before.shell
    BY <1>1, <2>1, RefKeeps DEF Ref
  <2> QED BY <1>1, <1>2, <1>4, <2>2 DEF InStages, StepByStep
<1> QED BY <1>3, <1>4

LEMMA EndsEarly ==
  ASSUME PipelineInv, phase = "stages", phase' = "idle",
         outcome' \in {"failed", "returned", "exited"},
         UNCHANGED <<line, k, text, statuses, latch, pipestatus, before, count>>,
         shell' \in Shells, sink' \in {"output", "stage"},
         sink' = sink \/ "unopened" \in causes',
         outcome' = "failed" => causes' \cap {"unopened", "unknown", "unwritten"} # {},
         shell' # Promised.shell =>
           "words" \in causes' \/ (line.lastpipe /\ outcome' \in {"failed", "returned"}),
         TimedTried /\ k = 1 => line.stages[1].kind = "group"
  PROVE  PipelineInv'
<1>1. Types /\ InStages /\ line \in PipelineLines
  BY DEF PipelineInv, Types
<1>2. Promised' = Promised /\ TimedTried' = TimedTried
  BY SamePromise, SameLine
<1>3. Types'
  BY <1>1 DEF Types
<1>4. InTimed' /\ InHosts' /\ InStages'
  BY DEF InTimed, InHosts, InStages
<1>5. ShellIsolated'
  BY <1>2 DEF ShellIsolated
<1>6. StatusesTheirOwn'
  BY DEF StatusesTheirOwn
<1>7. TextPiped'
  BY DEF TextPiped
<1>8. ShellPutBack'
  <2>1. sink' # before'.sink => "unopened" \in causes'
    BY <1>1 DEF InStages
  <2>2. (latch' => before'.latch) \/ (TimedTried /\ line.stages[1].kind = "group")
    BY <1>1 DEF InStages, LatchKept
  <2> QED BY <1>2, <2>1, <2>2 DEF ShellPutBack
<1> QED BY <1>3, <1>4, <1>5, <1>6, <1>7, <1>8 DEF PipelineInv

\* A pipeline that ends early leaves the shell as it is.
LEMMA EndsAsItIs ==
  ASSUME PipelineInv, phase = "stages", phase' = "idle", outcome' \in {"failed", "returned"},
         UNCHANGED <<line, k, text, statuses, shell, latch, pipestatus, before, count>>,
         sink' \in {"output", "stage"}, sink' = sink \/ "unopened" \in causes',
         causes \subseteq causes',
         outcome' = "failed" => causes' \cap {"unopened", "unknown", "unwritten"} # {},
         TimedTried /\ k = 1 => line.stages[1].kind = "group"
  PROVE  PipelineInv'
<1>1. shell' \in Shells
  BY DEF PipelineInv, Types
<1>2. shell' # Promised.shell =>
        "words" \in causes' \/ (line.lastpipe /\ outcome' \in {"failed", "returned"})
  BY ShellKept
<1> QED BY <1>1, <1>2, EndsEarly

LEMMA BadPathStep ==
  ASSUME PipelineInv, BadPath
  PROVE  PipelineInv'
<1>1. /\ Ready /\ Stage.kind \in Simple /\ Stage.target # "bad fd" /\ ~Opens(Stage)
      /\ sink' = "stage" /\ phase' = "idle" /\ outcome' = "failed"
      /\ causes' = causes \cup {"unopened"}
      /\ UNCHANGED <<line, k, text, statuses, shell, latch, pipestatus, before, count>>
  BY DEF BadPath, End
<1>2. ~(TimedTried /\ k = 1 /\ Stage.kind = "echo")
  BY <1>1 DEF TimedTried, TimedSource, Stage, Opens, Refused
<1>3. TimedTried /\ k = 1 => line.stages[1].kind = "group"
  BY <1>2 DEF TimedTried, TimedSource, Stage
<1> QED BY <1>1, <1>3, EndsAsItIs DEF Ready

LEMMA UnknownOptionStep ==
  ASSUME PipelineInv, UnknownOption
  PROVE  PipelineInv'
<1>1. /\ Ready /\ Stage.kind = "wc -w" /\ phase' = "idle" /\ outcome' = "failed"
      /\ causes' = causes \cup {"unknown"} /\ sink' = sink
      /\ UNCHANGED <<line, k, text, statuses, shell, latch, pipestatus, before, count>>
  BY DEF UnknownOption, End, ReadyFor
<1>2. TimedTried /\ k = 1 => line.stages[1].kind = "group"
  BY <1>1 DEF TimedTried, TimedSource, Stage
<1> QED BY <1>1, <1>2, EndsAsItIs DEF Ready, PipelineInv, Types

LEMMA ReturnStep ==
  ASSUME PipelineInv, ReturnOutOfStage
  PROVE  PipelineInv'
<1>1. /\ Ready /\ Stage.kind \in OnCopy /\ Stage.does = "return"
      /\ phase' = "idle" /\ outcome' = "returned"
      /\ causes' = causes \cup {"returned"} /\ sink' = sink
      /\ UNCHANGED <<line, k, text, statuses, shell, latch, pipestatus, before, count>>
  BY DEF ReturnOutOfStage, End, ReadyFor
<1>2. TimedTried /\ k = 1 => line.stages[1].kind = "group"
  BY <1>1 DEF TimedTried, TimedSource, Stage, OnCopy
<1> QED BY <1>1, <1>2, EndsAsItIs DEF Ready, PipelineInv, Types

LEMMA LastpipeStep ==
  ASSUME PipelineInv, LastpipeStage
  PROVE  PipelineInv'
<1>1. /\ phase = "stages" /\ k <= Len(line.stages) /\ InShell /\ shell' = After(Stage, shell)
      /\ UNCHANGED <<file, sink, latch>>
  BY DEF LastpipeStage
<1>2. /\ k \in 1 .. Len(line.stages) /\ Stage \in Stages /\ StepByStep
      /\ line \in PipelineLines /\ shell \in Shells /\ shell.x \in Nat /\ text \in Seq(Tokens)
  BY <1>1, RunningIs
<1>3. Stage.target = "none" /\ k = Len(line.stages) /\ line.lastpipe
  BY <1>1, <1>2, LineIs DEF InShell, IsLast, Stage
<1>4. CASE Stage.does \in {"exit", "return", "nounset"} /\ Stage.kind # "function"
  <2>1. /\ phase' = "idle" /\ outcome' \in {"returned", "exited"} /\ causes' = causes
        /\ UNCHANGED <<line, k, text, statuses, shown, pipestatus, before, count>>
    BY <1>4 DEF LastpipeStage, End
  <2>2. Ref = RefAt(line, before, k - 1) /\ Shaped(Ref) /\ Len(Ref.statuses) = k - 1
    <3>1. k - 1 \in 0 .. Len(line.stages)
      BY <1>2
    <3>2. Shaped(RefAt(line, before, k - 1))
      BY <1>2, <3>1, RefKeeps
    <3>3. Len(RefAt(line, before, k - 1).statuses) = k - 1
      BY <1>2, <3>1, RefKeeps
    <3> QED BY <3>2, <3>3 DEF Ref
  <2>3. Promised = RefStage(line, Ref, Stage)
    <3>1. RefAt(line, before, k) = RefStage(line, RefAt(line, before, k - 1), line.stages[k])
      BY <1>2, RefSteps
    <3> QED BY <1>2, <1>3, <2>2, <3>1, PromisedIs DEF Stage
  <2>4. Promised.shell = After(Stage, Ref.shell)
    <3>1. ~RefRefuses(line, Ref, Stage)
      BY <1>3 DEF RefRefuses, Refused
    <3>2. Promised = [text |-> RefText(Ref, Stage), file |-> RefFile(Ref, Stage),
                      statuses |-> Append(Ref.statuses, Status(Stage)),
                      shell |-> RefShell(line, Ref, Stage)]
      BY <2>3, <3>1, RanStage
    <3>3. Promised.shell = RefShell(line, Ref, Stage)
      BY <3>2
    <3>4. Len(Ref.statuses) + 1 = Len(line.stages)
      BY <1>2, <1>3, <2>2
    <3> QED BY <1>3, <3>3, <3>4 DEF RefShell
  <2>5. "words" \in causes \/ shell' = Promised.shell
    BY <1>1, <1>2, <2>4 DEF StepByStep
  <2>6. shell' \in Shells
    BY <1>1, <1>2, AfterIs
  <2>7. ~(TimedTried /\ k = 1)
    <3>1. TimedTried => Len(line.stages) = 2
      BY DEF TimedTried
    <3>2. k = Len(line.stages) /\ 1 # 2
      BY <1>3
    <3> QED BY <3>1, <3>2, Zenon
  <2>8. sink \in {"output", "stage"}
    BY DEF PipelineInv, Types
  <2> QED BY <1>1, <2>1, <2>5, <2>6, <2>7, <2>8, EndsEarly
<1>5. CASE ~(Stage.does \in {"exit", "return", "nounset"} /\ Stage.kind # "function")
  <2>1. Goes(Written(Stage, shell.x, text), Status(Stage)) /\ causes' = causes
    BY <1>5 DEF LastpipeStage
  <2>2. Written(Stage, shell.x, text) \in Seq(Tokens)
    BY <1>2, WrittenIs
  <2> QED BY <1>1, <1>2, <1>3, <2>1, <2>2, PlainStep
<1> QED BY <1>4, <1>5

-------------------------------------------------------------------------------
(* Host programs alone, which run at the same time *)

HostsOnly(l) ==
  \A i \in 1 .. Len(l.stages) : /\ l.stages[i].kind = "host" /\ ~l.stages[i].both
                                /\ l.stages[i].target # "none" => i = Len(l.stages)

StatusesTo(l, i) == [j \in 1 .. i |-> Status(l.stages[j])]

HostsAt(l, b, i) ==
  [text |-> << >>, file |-> b.file, statuses |-> StatusesTo(l, i), shell |-> b.shell]

LEMMA StatusesGrow ==
  ASSUME NEW l, NEW i \in Nat
  PROVE  /\ StatusesTo(l, 0) = << >> /\ Len(StatusesTo(l, i)) = i
         /\ Append(StatusesTo(l, i), Status(l.stages[i + 1])) = StatusesTo(l, i + 1)
<1> DEFINE S(j) == Status(l.stages[j])
           a == [j \in 1 .. i |-> S(j)]
           b == [j \in 1 .. i + 1 |-> S(j)]
           V == {S(j) : j \in 1 .. i + 1}
<1>1. \A j \in 1 .. i + 1 : S(j) \in V
  OBVIOUS
<1> HIDE DEF S, V
<1>2. a \in Seq(V) /\ Len(a) = i
  BY <1>1
<1>3. b \in Seq(V) /\ Len(b) = i + 1
  BY <1>1
<1>4. S(i + 1) \in V /\ i + 1 \in 1 .. i + 1
  BY <1>1
<1>5. Append(a, S(i + 1)) = b
  <2> DEFINE c == Append(a, S(i + 1))
  <2>1. c \in Seq(V) /\ Len(c) = i + 1
    BY <1>2, <1>4
  <2>2. ASSUME NEW j \in 1 .. i + 1 PROVE c[j] = b[j]
    BY <1>2, <1>4
  <2> HIDE DEF c, b
  <2>3. c = b
    BY <1>3, <2>1, <2>2
  <2> QED BY <2>3 DEF c
<1>6. [j \in 1 .. 0 |-> S(j)] = << >>
  OBVIOUS
<1> QED BY <1>2, <1>5, <1>6 DEF StatusesTo, S

\* A host program that reads nothing writes nothing.
LEMMA HostWritesNothing ==
  ASSUME NEW l \in PipelineLines, NEW b, NEW i \in 1 .. Len(l.stages), HostsOnly(l),
         ~Refused(l.stages[i], b.file, l.noclobber)
  PROVE  RefStage(l, HostsAt(l, b, i - 1), l.stages[i]) =
           [text |-> << >>,
            file |-> IF l.stages[i].target = "file" THEN << << >> >> ELSE b.file,
            statuses |-> StatusesTo(l, i),
            shell |-> IF l.lastpipe /\ i = Len(l.stages) THEN After(l.stages[i], b.shell)
                                                         ELSE b.shell]
<1> DEFINE s == l.stages[i]
           acc == HostsAt(l, b, i - 1)
<1>1. Len(l.stages) \in Nat /\ s \in Stages /\ i - 1 \in Nat /\ (i - 1) + 1 = i
  BY LineIs
<1>2. s.kind = "host" /\ ~s.both
  BY DEF HostsOnly
<1>3. /\ acc.text = << >> /\ acc.file = b.file /\ acc.shell = b.shell
      /\ acc.statuses = StatusesTo(l, i - 1)
  BY DEF HostsAt
<1>4. Len(StatusesTo(l, i - 1)) = i - 1 /\ Append(StatusesTo(l, i - 1), Status(s)) = StatusesTo(l, i)
  BY <1>1, StatusesGrow
<1> HIDE DEF s, acc
<1>5. ~RefRefuses(l, acc, s)
  BY <1>3 DEF RefRefuses, s
<1>6. RefStage(l, acc, s) = [text |-> RefText(acc, s), file |-> RefFile(acc, s),
                             statuses |-> Append(acc.statuses, Status(s)),
                             shell |-> RefShell(l, acc, s)]
  BY <1>5, RanStage
<1>7. RefOut(acc, s) = << >>
  BY <1>2, <1>3 DEF RefOut, Written
<1>8. RefText(acc, s) = << >>
  <2>1. RefText(acc, s) = << >> \o << >>
    BY <1>2, <1>7 DEF RefText
  <2> QED BY <2>1
<1>9. RefFile(acc, s) = IF s.target = "file" THEN << << >> >> ELSE b.file
  BY <1>3, <1>7 DEF RefFile
<1>10. RefShell(l, acc, s) = IF l.lastpipe /\ i = Len(l.stages) THEN After(s, b.shell) ELSE b.shell
  BY <1>1, <1>3, <1>4 DEF RefShell
<1>11. Append(acc.statuses, Status(s)) = StatusesTo(l, i)
  BY <1>3, <1>4
<1>12. RefStage(l, acc, s) =
         [text |-> << >>, file |-> IF s.target = "file" THEN << << >> >> ELSE b.file,
          statuses |-> StatusesTo(l, i),
          shell |-> IF l.lastpipe /\ i = Len(l.stages) THEN After(s, b.shell) ELSE b.shell]
  BY <1>6, <1>8, <1>9, <1>10, <1>11
<1> QED BY <1>12 DEF s, acc

LEMMA HostsSoFar ==
  ASSUME NEW l \in PipelineLines, NEW b, HostsOnly(l), NEW i \in 0 .. Len(l.stages) - 1
  PROVE  RefAt(l, b, i) = HostsAt(l, b, i)
<1> DEFINE Size == Len(l.stages)
           Fails == {j \in 0 .. Size - 1 : RefAt(l, b, j) # HostsAt(l, b, j)}
<1>1. Size \in Nat \ {0}
  BY LineIs
<1>2. Fails = {}
  <2> SUFFICES ASSUME Fails # {} PROVE FALSE
    OBVIOUS
  <2>1. Fails \in SUBSET Nat
    BY <1>1
  <2>2. PICK j \in Fails : \A m \in Fails : j <= m
    BY <2>1, LeastNumber
  <2>3. CASE j = 0
    <3>1. RefAt(l, b, 0) = Start0(b.shell, b.file)
      BY RefSteps
    <3>2. StatusesTo(l, 0) = << >>
      BY StatusesGrow
    <3> QED BY <2>2, <2>3, <3>1, <3>2 DEF Start0, HostsAt
  <2>4. CASE j # 0
    <3>1. j - 1 \in 0 .. Size - 1 /\ j \in 1 .. Size /\ j # Size /\ j - 1 \notin Fails
      BY <2>2, <2>4, <1>1
    <3>2. RefAt(l, b, j - 1) = HostsAt(l, b, j - 1)
      BY <3>1
    <3>3. RefAt(l, b, j) = RefStage(l, RefAt(l, b, j - 1), l.stages[j])
      BY <3>1, RefSteps
    <3>4. l.stages[j].target = "none"
      <4>1. l.stages[j].target # "none" => j = Len(l.stages)
        BY <3>1 DEF HostsOnly
      <4> QED BY <3>1, <4>1
    <3>5. ~Refused(l.stages[j], b.file, l.noclobber)
      BY <3>4 DEF Refused
    <3>6. RefStage(l, HostsAt(l, b, j - 1), l.stages[j]) =
            [text |-> << >>,
             file |-> IF l.stages[j].target = "file" THEN << << >> >> ELSE b.file,
             statuses |-> StatusesTo(l, j),
             shell |-> IF l.lastpipe /\ j = Len(l.stages) THEN After(l.stages[j], b.shell)
                                                          ELSE b.shell]
      BY <3>1, <3>5, HostWritesNothing
    <3>7. RefStage(l, HostsAt(l, b, j - 1), l.stages[j]) = HostsAt(l, b, j)
      BY <3>1, <3>4, <3>6 DEF HostsAt
    <3> QED BY <2>2, <3>2, <3>3, <3>7
  <2> QED BY <2>3, <2>4
<1> QED BY <1>2

LEMMA HostsPromise ==
  ASSUME PipelineInv, line \in PipelineLines, AllHosts, ~Refused(Final, before.file, line.noclobber)
  PROVE  /\ Promised.text = << >>
         /\ Promised.file = IF Final.target = "file" THEN << << >> >> ELSE before.file
         /\ Promised.statuses = [i \in DOMAIN line.stages |-> Status(line.stages[i])]
         /\ Promised.shell = before.shell \/ (line.lastpipe /\ Final.bump)
<1> DEFINE Size == Len(line.stages)
<1>1. /\ Size \in Nat \ {0} /\ DOMAIN line.stages = 1 .. Size /\ Final = line.stages[Size]
      /\ Final \in Stages /\ Size \in 1 .. Size /\ Size - 1 \in 0 .. Size - 1
  BY LineIs DEF Final
<1>2. HostsOnly(line)
  BY <1>1 DEF AllHosts, HostsOnly
<1>3. Promised = RefAt(line, before, Size)
  BY PromisedIs
<1>4. RefAt(line, before, Size) = RefStage(line, RefAt(line, before, Size - 1), line.stages[Size])
  BY <1>1, RefSteps
<1>5. RefAt(line, before, Size - 1) = HostsAt(line, before, Size - 1)
  BY <1>1, <1>2, HostsSoFar
<1>6. ~Refused(line.stages[Size], before.file, line.noclobber)
  BY <1>1
<1>7. RefStage(line, HostsAt(line, before, Size - 1), line.stages[Size]) =
        [text |-> << >>,
         file |-> IF line.stages[Size].target = "file" THEN << << >> >> ELSE before.file,
         statuses |-> StatusesTo(line, Size),
         shell |-> IF line.lastpipe /\ Size = Len(line.stages) THEN After(line.stages[Size], before.shell)
                                                            ELSE before.shell]
  BY <1>1, <1>2, <1>6, HostWritesNothing
<1>8. Promised =
        [text |-> << >>,
         file |-> IF Final.target = "file" THEN << << >> >> ELSE before.file,
         statuses |-> StatusesTo(line, Size),
         shell |-> IF line.lastpipe THEN After(Final, before.shell) ELSE before.shell]
  BY <1>1, <1>3, <1>4, <1>5, <1>7
<1>9. Final.kind = "host" /\ Final.does \in {"ok", "fail"} /\ Final.bump \in BOOLEAN
  BY <1>1, <1>2, StageHas DEF HostsOnly
<1>10. before.shell \in Shells
  BY DEF PipelineInv, Types
<1>11. ~Final.bump => After(Final, before.shell) = before.shell
  BY <1>1, <1>9, <1>10, AfterIs
<1>12. Promised.shell = IF line.lastpipe THEN After(Final, before.shell) ELSE before.shell
  BY <1>8
<1>13. Promised.statuses = [i \in DOMAIN line.stages |-> Status(line.stages[i])]
  BY <1>1, <1>8 DEF StatusesTo
<1> QED BY <1>8, <1>9, <1>11, <1>12, <1>13

-------------------------------------------------------------------------------
(* The end of a pipeline whose stages have all run *)

\* What the stages have made of it by then, when the last redirection stands.
LEMMA DoneIs ==
  ASSUME PipelineInv, Done,
         AllHosts => ~Refused(Final, before.file, line.noclobber)
  PROVE  /\ line \in PipelineLines /\ k = Len(line.stages) + 1 /\ k # 1
         /\ Promised.statuses = statuses /\ statuses # << >>
         /\ "words" \in causes \/ shell = Promised.shell
         /\ causes \cap {"words", "blank", "kept"} = {} =>
              /\ Final.target # "file" => text = Promised.text /\ file = Promised.file
              /\ Final.target = "file" => Promised.text = << >> /\ Promised.file = <<text>>
<1>1. Types /\ InStages /\ line \in PipelineLines
  BY DEF PipelineInv, Types, Done
<1>2. Len(line.stages) \in Nat \ {0} /\ k = Len(line.stages) + 1 /\ k # 1
      /\ DOMAIN line.stages = 1 .. Len(line.stages)
  BY <1>1, LineIs DEF Types, Done
<1>3. CASE AllHosts
  <2>1. Together
    BY <1>1, <1>3 DEF InStages, Done
  <2>2. /\ Promised.text = << >>
        /\ Promised.file = IF Final.target = "file" THEN << << >> >> ELSE before.file
        /\ Promised.statuses = [i \in DOMAIN line.stages |-> Status(line.stages[i])]
        /\ Promised.shell = before.shell \/ (line.lastpipe /\ Final.bump)
    BY <1>1, <1>3, HostsPromise
  <2>3. statuses # << >>
    <3>1. DOMAIN statuses = 1 .. Len(line.stages) /\ DOMAIN << >> = {}
      BY <1>2, <2>1 DEF Together
    <3>2. 1 \in 1 .. Len(line.stages)
      BY <1>2
    <3> QED BY <3>1, <3>2
  <2> QED BY <1>1, <1>2, <2>1, <2>2, <2>3 DEF Together
<1>4. CASE ~AllHosts
  <2>1. StepByStep
    BY <1>1, <1>4 DEF InStages, Done
  <2>2. Ref = Promised
    <3>1. k - 1 = Len(line.stages)
      BY <1>2
    <3> QED BY <1>1, <3>1, PromisedIs DEF Ref
  <2>3. statuses # << >>
    <3>1. Len(line.stages) \in 0 .. Len(line.stages)
      BY <1>2
    <3>2. Len(RefAt(line, before, Len(line.stages)).statuses) = Len(line.stages)
      BY <1>1, <3>1, RefKeeps
    <3>3. Len(statuses) # 0
      BY <1>1, <1>2, <2>1, <2>2, <3>2, PromisedIs DEF StepByStep
    <3> QED BY <3>3
  <2> QED BY <1>1, <1>2, <2>1, <2>2, <2>3 DEF StepByStep
<1> QED BY <1>3, <1>4

LEMMA EndsWell ==
  ASSUME PipelineInv, Done,
         AllHosts => ~Refused(Final, before.file, line.noclobber),
         phase' = "idle", outcome' = "done", pipestatus' = statuses,
         code' = PipelineExitStatus(statuses, line.pipefail),
         UNCHANGED <<line, k, text, statuses, shell, sink, latch, before, count>>,
         causes \subseteq causes',
         causes' \cap {"words", "blank", "kept", "swallowed"} = {} =>
           IF Final.target = "file" THEN shown' = << >> /\ file' = <<text>>
                                    ELSE shown' = text /\ file' = file
  PROVE  PipelineInv'
<1>1. Types /\ InStages /\ line \in PipelineLines
  BY DEF PipelineInv, Types, Done
<1>2. /\ k # 1 /\ Promised.statuses = statuses /\ statuses # << >>
      /\ "words" \in causes \/ shell = Promised.shell
      /\ causes \cap {"words", "blank", "kept"} = {} =>
           /\ Final.target # "file" => text = Promised.text /\ file = Promised.file
           /\ Final.target = "file" => Promised.text = << >> /\ Promised.file = <<text>>
  BY DoneIs
<1>3. Promised' = Promised /\ TimedTried' = TimedTried
  BY SamePromise, SameLine
<1>4. Types'
  BY <1>1, <1>2 DEF Types, Done
<1>5. InTimed' /\ InHosts' /\ InStages'
  BY DEF InTimed, InHosts, InStages
<1>6. ShellIsolated'
  BY <1>2, <1>3 DEF ShellIsolated
<1>7. StatusesTheirOwn'
  BY <1>2, <1>3 DEF StatusesTheirOwn
<1>8. TextPiped'
  <2> SUFFICES ASSUME causes' \cap {"words", "blank", "kept", "swallowed"} = {}
               PROVE  shown' = Promised.text /\ file' = Promised.file
    BY <1>3 DEF TextPiped
  <2>1. causes \cap {"words", "blank", "kept"} = {}
    OBVIOUS
  <2> QED BY <1>2, <2>1
<1>9. ShellPutBack'
  <2>1. sink' = before'.sink
    BY <1>1 DEF InStages, Done
  <2>2. (latch' => before'.latch) \/ (TimedTried /\ line.stages[1].kind = "group")
    BY <1>1, <1>2 DEF InStages, LatchKept, Done
  <2> QED BY <1>3, <2>1, <2>2 DEF ShellPutBack
<1> QED BY <1>4, <1>5, <1>6, <1>7, <1>8, <1>9 DEF PipelineInv

LEMMA WriteOutputStep ==
  ASSUME PipelineInv, WriteOutput
  PROVE  PipelineInv'
<1>1. /\ Done /\ Final.target \notin {"file", "bad path"} /\ Show(text) /\ Recorded
      /\ phase' = "idle" /\ outcome' = "done"
      /\ UNCHANGED <<line, k, text, statuses, shell, file, sink, latch, before, count>>
  BY DEF WriteOutput
<1>2. AllHosts => ~Refused(Final, before.file, line.noclobber)
  <2>1. line \in PipelineLines
    BY <1>1 DEF PipelineInv, Types, Done
  <2>2. Len(line.stages) \in DOMAIN line.stages /\ Final = line.stages[Len(line.stages)]
    BY <2>1, LineIs DEF Final
  <2>3. AllHosts => Final.target = "none"
    BY <1>1, <2>2 DEF AllHosts
  <2> QED BY <2>3 DEF Refused
<1>3. causes \subseteq causes' /\ ("swallowed" \notin causes' => shown' = text)
  BY <1>1 DEF Show
<1> QED BY <1>1, <1>2, <1>3, EndsWell DEF Recorded

\* Until the stages are done nothing is shown.
LEMMA WriteFileStep ==
  ASSUME PipelineInv, WriteFile
  PROVE  PipelineInv'
<1>1. /\ Done /\ Final.target = "file" /\ Opens(Final) /\ file' = <<text>> /\ Recorded
      /\ phase' = "idle" /\ outcome' = "done" /\ causes' = causes \cup {}
      /\ UNCHANGED <<line, k, text, statuses, shell, shown, sink, latch, before, count>>
  BY DEF WriteFile, End
<1>2. AllHosts => ~Refused(Final, before.file, line.noclobber)
  BY <1>1 DEF PipelineInv, InStages, Together, Opens, Done
<1>3. shown = << >>
  BY <1>1 DEF PipelineInv, Types, Done
<1> QED BY <1>1, <1>2, <1>3, EndsWell DEF Recorded

LEMMA WriteFailsStep ==
  ASSUME PipelineInv, WriteFails
  PROVE  PipelineInv'
<1>1. /\ Done /\ phase' = "idle" /\ outcome' = "failed" /\ causes' = causes \cup {"unwritten"}
      /\ sink' = sink
      /\ UNCHANGED <<line, k, text, statuses, shell, latch, pipestatus, before, count>>
  BY DEF WriteFails, End
<1>2. k # 1
  <2>1. line \in PipelineLines /\ k > Len(line.stages)
    BY <1>1 DEF PipelineInv, Types, Done
  <2>2. Len(line.stages) \in Nat \ {0}
    BY <2>1, LineIs
  <2> QED BY <2>1, <2>2
<1> QED BY <1>1, <1>2, EndsAsItIs DEF Done, PipelineInv, Types

-------------------------------------------------------------------------------
(* The start of a pipeline, and the two shortcuts *)

LEMMA StartStep ==
  ASSUME PipelineInv, Start
  PROVE  PipelineInv'
<1>1. /\ phase = "idle" /\ count < Len(Lines) /\ line' \in Lines[count + 1]
      /\ phase' = "timed" /\ k' = 1 /\ text' = << >> /\ statuses' = << >> /\ shown' = << >>
      /\ outcome' = "none" /\ causes' = {} /\ count' = count + 1
      /\ before' = [shell |-> shell, file |-> file, sink |-> sink, latch |-> latch]
      /\ UNCHANGED <<shell, file, sink, latch, pipestatus, code>>
  BY DEF Start
<1>2. Types
  BY DEF PipelineInv
<1>3. line' \in PipelineLines
  <2>1. count + 1 \in 1 .. Len(Lines) /\ Lines \in Seq(SUBSET PipelineLines)
    <3>1. Len(Lines) \in Nat /\ count \in Nat
      BY <1>2, LinesAssumption DEF Types
    <3> QED BY <1>1, <3>1, LinesAssumption
  <2>2. Lines[count + 1] \in SUBSET PipelineLines
    <3> HIDE DEF PipelineLines
    <3> QED BY <2>1
  <2> QED BY <1>1, <2>2
<1>4. Len(line'.stages) \in Nat \ {0}
  BY <1>3, LineIs
<1>5. /\ before'.shell = shell /\ before'.file = file /\ before'.sink = sink
      /\ before'.latch = latch
  BY <1>1
<1>6. Types'
  <2>1. << >> \in Seq(Tokens) /\ << >> \in Seq(Codes)
    OBVIOUS
  <2>2. count' \in Nat /\ count' > 0 /\ k' \in 1 .. Len(line'.stages) + 1
    BY <1>1, <1>2, <1>4 DEF Types
  <2> QED BY <1>1, <1>2, <1>3, <1>5, <2>1, <2>2 DEF Types
<1>7. InTimed' /\ InHosts' /\ InStages'
  BY <1>1, <1>5 DEF InTimed, InHosts, InStages, Unstarted
<1>8. ~AtEnd'
  BY <1>1 DEF AtEnd
<1> QED BY <1>6, <1>7, <1>8
        DEF PipelineInv, ShellIsolated, StatusesTheirOwn, TextPiped, ShellPutBack

LEMMA NotTimedStep ==
  ASSUME PipelineInv, NotTimed
  PROVE  PipelineInv'
<1>1. /\ phase = "timed" /\ phase' = "hosts" /\ ~TimedTried
      /\ UNCHANGED <<line, k, text, statuses, shell, file, shown, sink, latch,
                     pipestatus, code, outcome, before, causes, count>>
  BY DEF NotTimed
<1>2. Types'
  BY <1>1 DEF PipelineInv, Types
<1>3. InHosts'
  BY <1>1, SameLine DEF PipelineInv, InTimed, InHosts, Unstarted, LatchKept
<1>4. InTimed' /\ InStages' /\ ~AtEnd'
  BY <1>1 DEF InTimed, InStages, AtEnd
<1> QED BY <1>2, <1>3, <1>4
        DEF PipelineInv, ShellIsolated, StatusesTheirOwn, TextPiped, ShellPutBack

\* The shell after the words of the shortcut.
LEMMA TimedShellIs ==
  ASSUME PipelineInv, TimedTried, phase = "timed"
  PROVE  /\ TimedShell \in Shells /\ line.stages[1] \in Stages /\ line \in PipelineLines
         /\ ~line.stages[1].bump => TimedShell = shell
<1> DEFINE s == line.stages[1]
           t == [s EXCEPT !.does = "ok"]
<1>1. line \in PipelineLines /\ shell \in Shells
  BY DEF PipelineInv, Types
<1>2. s \in Stages
  <2>1. 1 \in 1 .. Len(line.stages)
    BY DEF TimedTried
  <2> QED BY <1>1, <2>1, LineIs
<1>3. /\ s = [kind |-> s.kind, does |-> s.does, bump |-> s.bump, both |-> s.both,
              target |-> s.target]
      /\ s.kind \in {"echo", "group"} /\ s.bump \in BOOLEAN /\ s.both \in BOOLEAN
      /\ s.target = "none"
  <2>1. s.kind \in {"echo", "group"} /\ (s.kind = "echo" => s.target = "none")
    BY DEF TimedTried, TimedSource
  <2>2. s.target # "none" => s.kind \in Simple
    BY <1>2, StageHas
  <2> HIDE DEF s
  <2>3. s.target = "none"
    BY <2>1, <2>2 DEF Simple
  <2> QED BY <1>2, <2>1, <2>3, StageHas
<1> HIDE DEF s
<1>4. t = [kind |-> s.kind, does |-> "ok", bump |-> s.bump, both |-> s.both,
           target |-> s.target]
  BY <1>3
<1>5. t \in Stages /\ t.bump = s.bump /\ t.does = "ok" /\ t.kind # "reader"
  BY <1>3, <1>4 DEF Stages, Kinds, Deeds, Targets, CanDo
<1>6. TimedShell = After(t, shell)
  BY DEF TimedShell, s
<1> HIDE DEF t
<1>7. After(t, shell) \in Shells /\ (~t.bump => After(t, shell) = shell)
  BY <1>1, <1>5, AfterIs
<1> QED BY <1>1, <1>2, <1>5, <1>6, <1>7 DEF s

LEMMA TimedGivenUpStep ==
  ASSUME PipelineInv, TimedGivenUp
  PROVE  PipelineInv'
<1>1. /\ phase = "timed" /\ phase' = "hosts" /\ TimedTried /\ shell' = TimedShell
      /\ latch' = (latch \/ line.stages[1].does = "nounset")
      /\ causes' = IF shell' = shell THEN causes ELSE causes \cup {"words"}
      /\ UNCHANGED <<line, k, text, statuses, file, shown, sink, pipestatus, code,
                     outcome, before, count>>
  BY DEF TimedGivenUp
<1>2. shell' \in Shells
  BY <1>1, TimedShellIs
<1>3. Types'
  BY <1>1, <1>2 DEF PipelineInv, Types
<1>4. Unstarted' /\ shell = before.shell /\ latch = before.latch /\ k = 1
  BY <1>1 DEF PipelineInv, InTimed, Unstarted
<1>5. LatchKept'
  BY <1>1, <1>4, SameLine DEF LatchKept
<1>6. "words" \in causes' \/ shell' = before'.shell
  BY <1>1, <1>4
<1>7. InHosts'
  BY <1>1, <1>4, <1>5, <1>6, SameLine DEF InHosts
<1>8. InTimed' /\ InStages' /\ ~AtEnd'
  BY <1>1 DEF InTimed, InStages, AtEnd
<1> QED BY <1>3, <1>7, <1>8
        DEF PipelineInv, ShellIsolated, StatusesTheirOwn, TextPiped, ShellPutBack

\* What an echo or a dead body, and the read after it, write.
LEMMA TimedPromise ==
  ASSUME PipelineInv, phase = "timed", TimedTaken
  PROVE  LET s == line.stages[1]
             token == <<IF s.does = "nounset" THEN Blank ELSE Value(shell.x)>>
         IN  /\ Promised.text = IF line.stages[2].does = "ok" THEN token ELSE << >>
             /\ Promised.file = file
             /\ ~line.lastpipe => Promised.shell = shell
<1> DEFINE s == line.stages[1]
           r == line.stages[2]
           zero == RefAt(line, before, 0)
           one == RefAt(line, before, 1)
           token == <<IF s.does = "nounset" THEN Blank ELSE Value(shell.x)>>
<1>1. /\ line \in PipelineLines /\ file = before.file /\ shell = before.shell
      /\ shell.x \in Nat
  BY DEF PipelineInv, Types, InTimed, Unstarted, Shells
<1>2. Len(line.stages) = 2 /\ s \in Stages /\ r \in Stages /\ r.kind = "reader" /\ r.does # "set"
  <2>1. Len(line.stages) = 2 /\ r.kind = "reader" /\ r.does # "set"
    BY DEF TimedTaken, TimedTried
  <2>2. 1 \in 1 .. Len(line.stages) /\ 2 \in 1 .. Len(line.stages)
    BY <2>1
  <2> QED BY <1>1, <2>1, <2>2, LineIs
<1>3. ~r.both /\ r.target = "none" /\ s.target = "none"
      /\ (s.kind = "echo" \/ (s.kind = "group" /\ s.does = "nounset"))
      /\ s.does \in {"ok", "nounset"}
  <2>1. (s.kind = "echo" /\ s.target = "none") \/ (s.kind = "group" /\ s.does = "nounset")
    BY DEF TimedTaken, TimedTried, TimedSource
  <2>2. ~r.both
    BY <1>1, <1>2, LineIs
  <2> HIDE DEF s, r
  <2>3. (r.target # "none" => r.kind \in Simple) /\ (s.target # "none" => s.kind \in Simple)
        /\ (s.kind = "echo" => s.does \in {"ok", "nounset"})
    BY <1>2, StageHas
  <2> QED BY <1>2, <2>1, <2>2, <2>3 DEF Simple
<1>4. zero = Start0(before.shell, before.file)
  BY <1>1, RefSteps
<1>5. one = RefStage(line, zero, s) /\ Promised = RefStage(line, one, r)
  <2>1. \A i \in 1 .. Len(line.stages) :
          RefAt(line, before, i) = RefStage(line, RefAt(line, before, i - 1), line.stages[i])
    BY <1>1, RefSteps
  <2>2. RefAt(line, before, 1) = RefStage(line, RefAt(line, before, 0), line.stages[1])
        /\ RefAt(line, before, 2) = RefStage(line, RefAt(line, before, 1), line.stages[2])
    BY <1>2, <2>1
  <2> QED BY <1>1, <1>2, <2>2, PromisedIs
<1> HIDE DEF s, r, zero, one, token
<1>6. zero.text = << >> /\ zero.file = file /\ zero.shell = shell
  BY <1>1, <1>4 DEF Start0
<1>7. ~RefRefuses(line, zero, s) /\ ~RefRefuses(line, one, r)
  BY <1>3 DEF RefRefuses, Refused
<1>8. one.text = RefText(zero, s) /\ one.file = RefFile(zero, s) /\ one.shell = RefShell(line, zero, s)
      /\ one.statuses = Append(zero.statuses, Status(s))
  <2>1. one = [text |-> RefText(zero, s), file |-> RefFile(zero, s),
               statuses |-> Append(zero.statuses, Status(s)),
               shell |-> RefShell(line, zero, s)]
    BY <1>5, <1>7, RanStage
  <2> QED BY <2>1
<1>9. Promised.text = RefText(one, r) /\ Promised.file = RefFile(one, r)
  <2>1. Promised = [text |-> RefText(one, r), file |-> RefFile(one, r),
               statuses |-> Append(one.statuses, Status(r)),
               shell |-> RefShell(line, one, r)]
    BY <1>5, <1>7, RanStage
  <2> QED BY <2>1
<1>10. one.file = file /\ Promised.file = file
  BY <1>3, <1>6, <1>8, <1>9 DEF RefFile
<1>11. one.text = IF s.does = "ok" THEN <<Value(shell.x)>> ELSE << >>
  <2>1. RefOut(zero, s) = IF s.does = "ok" THEN <<Value(shell.x)>> ELSE << >>
    BY <1>3, <1>6 DEF RefOut, Written
  <2>2. Diagnostics(s) = << >>
    BY <1>3 DEF Diagnostics
  <2>3. RefText(zero, s) = RefOut(zero, s) \o << >>
    BY <1>3, <2>2 DEF RefText
  <2>4. CASE s.does = "ok"
    BY <1>8, <2>1, <2>3, <2>4
  <2>5. CASE s.does # "ok"
    BY <1>8, <2>1, <2>3, <2>5
  <2> QED BY <2>4, <2>5
<1>12. RefOut(one, r) = IF r.does = "ok" THEN token ELSE << >>
  <2>1. RefOut(one, r) = IF r.does = "ok"
                         THEN IF one.text = << >> THEN <<Blank>> ELSE <<Head(one.text)>>
                         ELSE << >>
    BY <1>2 DEF RefOut, Written
  <2>2. CASE s.does = "ok"
    <3>1. one.text = <<Value(shell.x)>> /\ one.text # << >> /\ Head(one.text) = Value(shell.x)
      BY <1>11, <2>2
    <3> QED BY <2>1, <2>2, <3>1 DEF token
  <2>3. CASE s.does = "nounset"
    BY <1>11, <2>1, <2>3 DEF token
  <2> QED BY <1>3, <2>2, <2>3
<1>13. Promised.text = IF r.does = "ok" THEN token ELSE << >>
  <2>1. RefText(one, r) = RefOut(one, r) \o << >>
    BY <1>3 DEF RefText
  <2>2. RefOut(one, r) \o << >> = RefOut(one, r)
    BY <1>12 DEF token
  <2> QED BY <1>9, <1>12, <2>1, <2>2
<1>14. ~line.lastpipe => Promised.shell = shell
  BY <1>1, PromisedIs
<1> QED BY <1>10, <1>13, <1>14 DEF s, r, token

LEMMA TimedReadStep ==
  ASSUME PipelineInv, TimedRead
  PROVE  PipelineInv'
<1> DEFINE s == line.stages[1]
           token == <<IF s.does = "nounset" THEN Blank ELSE Value(shell.x)>>
           out == IF line.stages[2].does = "ok" THEN token ELSE << >>
           why == {"timed"} \cup (IF s.bump THEN {"words"} ELSE {})
                            \cup (IF sink = "output" THEN {} ELSE {"swallowed"})
<1>1. /\ phase = "timed" /\ TimedTaken /\ TimedTried
      /\ shown' = (IF sink = "output" THEN out ELSE << >>)
      /\ pipestatus' = <<IF s.does = "nounset" THEN 127 ELSE 0, 0>>
      /\ phase' = "idle" /\ outcome' = "done" /\ causes' = causes \cup why
      /\ shell' = TimedShell
      /\ UNCHANGED <<line, k, text, statuses, file, sink, latch, before, count>>
  BY DEF TimedRead, End, TimedTaken
<1>2. /\ Promised.text = out /\ Promised.file = file
      /\ ~line.lastpipe => Promised.shell = shell
  BY <1>1, TimedPromise
<1>3. shell' \in Shells /\ s.bump \in BOOLEAN /\ (~s.bump => shell' = shell) /\ line \in PipelineLines
  <2>1. shell' \in Shells /\ s \in Stages /\ line \in PipelineLines /\ (~s.bump => shell' = shell)
    BY <1>1, TimedShellIs
  <2> HIDE DEF s
  <2>2. s.bump \in BOOLEAN
    BY <2>1, StageHas
  <2> QED BY <2>1, <2>2
<1> HIDE DEF s, token, out
<1>4. Promised' = Promised
  BY <1>1, SamePromise
<1>5. pipestatus' \in Seq(Codes) /\ pipestatus' # << >>
  <2>1. (IF s.does = "nounset" THEN 127 ELSE 0) \in Codes /\ 0 \in Codes
    BY DEF Codes
  <2> HIDE DEF Codes
  <2> QED BY <1>1, <2>1
<1>6. Types'
  BY <1>1, <1>3, <1>5 DEF PipelineInv, Types
<1>7. InTimed' /\ InHosts' /\ InStages'
  BY <1>1 DEF InTimed, InHosts, InStages
<1>8. "timed" \in causes' /\ (s.bump => "words" \in causes')
      /\ (sink # "output" => "swallowed" \in causes')
  BY <1>1
<1>9. ShellIsolated'
  BY <1>1, <1>2, <1>3, <1>4, <1>8 DEF ShellIsolated
<1>10. StatusesTheirOwn'
  BY <1>8 DEF StatusesTheirOwn
<1>11. TextPiped'
  BY <1>1, <1>2, <1>4, <1>8 DEF TextPiped
<1>12. ShellPutBack'
  BY <1>1 DEF PipelineInv, InTimed, Unstarted, ShellPutBack
<1> QED BY <1>6, <1>7, <1>9, <1>10, <1>11, <1>12 DEF PipelineInv

LEMMA NotHostsStep ==
  ASSUME PipelineInv, NotHosts
  PROVE  PipelineInv'
<1>1. /\ phase = "hosts" /\ phase' = "stages" /\ ~AllHosts
      /\ UNCHANGED <<line, k, text, statuses, shell, file, shown, sink, latch,
                     pipestatus, code, outcome, before, causes, count>>
  BY DEF NotHosts
<1>2. Types' /\ line \in PipelineLines
  BY <1>1 DEF PipelineInv, Types
<1>3. Unstarted /\ LatchKept /\ ("words" \in causes \/ shell = before.shell)
  BY <1>1 DEF PipelineInv, InHosts
<1>4. Ref' = Start0(before.shell, before.file)
  <2>1. Ref' = RefAt(line, before, 0)
    BY <1>1, <1>3 DEF Ref, RefAt, Unstarted
  <2>2. RefAt(line, before, 0) = Start0(before.shell, before.file)
    BY <1>2, RefSteps
  <2> QED BY <2>1, <2>2
<1>5. /\ Ref'.text = << >> /\ Ref'.file = before.file /\ Ref'.statuses = << >>
      /\ Ref'.shell = before.shell
  BY <1>4 DEF Start0
<1>6. ~(k' > Len(line'.stages))
  <2>1. Len(line.stages) \in Nat \ {0} /\ k = 1
    BY <1>2, <1>3, LineIs DEF Unstarted
  <2> QED BY <1>1, <2>1
<1>7. StepByStep'
  BY <1>1, <1>3, <1>5, <1>6 DEF StepByStep, Unstarted
<1>8. LatchKept' /\ ~AllHosts' /\ sink' = before'.sink
  BY <1>1, <1>3, SameLine DEF LatchKept, Unstarted
<1>9. InStages' /\ InTimed' /\ InHosts' /\ ~AtEnd'
  BY <1>1, <1>7, <1>8 DEF InStages, InTimed, InHosts, AtEnd
<1> QED BY <1>2, <1>9
        DEF PipelineInv, ShellIsolated, StatusesTheirOwn, TextPiped, ShellPutBack

LEMMA HostsTogetherStep ==
  ASSUME PipelineInv, HostsTogether
  PROVE  PipelineInv'
<1>1. /\ phase = "hosts" /\ phase' = "stages" /\ AllHosts
      /\ k' = Len(line.stages) + 1
      /\ statuses' = [i \in DOMAIN line.stages |-> Status(line.stages[i])]
      /\ causes' = (IF line.lastpipe /\ Final.bump THEN {"words"} ELSE {})
      /\ UNCHANGED <<line, text, shell, file, shown, sink, latch, pipestatus, code,
                     outcome, before, count>>
  BY DEF HostsTogether
<1>2. Types /\ line \in PipelineLines
  BY <1>1 DEF PipelineInv, Types
<1>3. /\ Len(line.stages) \in Nat \ {0} /\ DOMAIN line.stages = 1 .. Len(line.stages)
      /\ \A i \in 1 .. Len(line.stages) : line.stages[i] \in Stages
  BY <1>2, LineIs
<1>4. ~TimedTried
  <2>1. 1 \in DOMAIN line.stages
    BY <1>3
  <2>2. line.stages[1].kind = "host"
    BY <1>1, <2>1 DEF AllHosts
  <2> QED BY <2>2 DEF TimedTried, TimedSource
<1>5. Unstarted /\ LatchKept /\ shell = before.shell
  BY <1>1, <1>4 DEF PipelineInv, InHosts
<1>6. statuses' \in Seq(Codes)
  <2>1. \A i \in 1 .. Len(line.stages) : Status(line.stages[i]) \in Codes
    BY <1>3, StageHas
  <2> HIDE DEF Codes
  <2> QED BY <1>1, <1>3, <2>1
<1>7. Types'
  BY <1>1, <1>2, <1>3, <1>6 DEF Types
<1>8. LatchKept'
  BY <1>1, <1>4, <1>5, SameLine DEF LatchKept
<1>9. Together' /\ AllHosts' /\ sink' = before'.sink
  BY <1>1, <1>5, SameLine DEF Together, Unstarted
<1>10. InStages' /\ InTimed' /\ InHosts' /\ ~AtEnd'
  BY <1>1, <1>8, <1>9 DEF InStages, InTimed, InHosts, AtEnd
<1> QED BY <1>7, <1>10
        DEF PipelineInv, ShellIsolated, StatusesTheirOwn, TextPiped, ShellPutBack

-------------------------------------------------------------------------------

LEMMA PipelineInvInit == PipelinesInit => PipelineInv
<1> SUFFICES ASSUME PipelinesInit PROVE PipelineInv
  OBVIOUS
<1>1. /\ line = NoLine /\ phase = "idle" /\ k = 1 /\ text = << >> /\ statuses = << >>
      /\ shell = [x |-> 0, y |-> 0] /\ sink = "output" /\ latch = FALSE
      /\ pipestatus = <<0>> /\ outcome = "none" /\ count = 0
      /\ before = [shell |-> shell, file |-> file, sink |-> sink, latch |-> latch]
  BY DEF PipelinesInit
<1>2. k \in 1 .. Len(line.stages) + 1
  <2>1. line.stages = << >>
    BY <1>1 DEF NoLine
  <2>2. Len(<< >>) = 0
    OBVIOUS
  <2> QED BY <1>1, <2>1, <2>2
<1>3. pipestatus \in Seq(Codes) /\ pipestatus # << >>
  <2>1. 0 \in Codes
    BY DEF Codes
  <2> HIDE DEF Codes
  <2> QED BY <1>1, <2>1
<1>4. shell \in Shells /\ before.shell \in Shells
  BY <1>1 DEF Shells
<1>5. text \in Seq(Tokens) /\ statuses \in Seq(Codes)
  BY <1>1
<1>6. Types
  <2>1. line \in PipelineLines \cup {NoLine} /\ phase = "idle" /\ outcome = "none" /\ count = 0
        /\ sink = "output" /\ latch = FALSE
    BY <1>1
  <2>2. ~(count > 0) /\ count \in Nat
    BY <2>1
  <2> QED BY <1>2, <1>3, <1>4, <1>5, <2>1, <2>2 DEF Types
<1>7. ~AtEnd /\ InTimed /\ InHosts /\ InStages
  BY <1>1 DEF AtEnd, InTimed, InHosts, InStages
<1> QED BY <1>6, <1>7
        DEF PipelineInv, ShellIsolated, StatusesTheirOwn, TextPiped, ShellPutBack

LEMMA PipelineInvStutters ==
  ASSUME PipelineInv, UNCHANGED pVars
  PROVE  PipelineInv'
<1>1. Types'
  BY DEF pVars, PipelineInv, Types
<1>2. InTimed' /\ InHosts'
  BY DEF pVars, PipelineInv, InTimed, InHosts, Unstarted, LatchKept, TimedTried
<1>3. Ref' = Ref /\ AllHosts' = AllHosts /\ Final' = Final /\ TimedTried' = TimedTried
      /\ Promised' = Promised
  BY SameLine, SamePromise DEF pVars, Ref
<1>4. InStages'
  <2>1. Together' = Together
    BY <1>3 DEF pVars, Together
  <2>2. StepByStep' = StepByStep
    BY <1>3 DEF pVars, StepByStep
  <2>3. LatchKept' = LatchKept
    BY <1>3 DEF pVars, LatchKept
  <2> QED BY <1>3, <2>1, <2>2, <2>3 DEF pVars, PipelineInv, InStages
<1>5. ShellIsolated' /\ StatusesTheirOwn' /\ TextPiped' /\ ShellPutBack'
  BY <1>3 DEF pVars, PipelineInv, ShellIsolated, StatusesTheirOwn, TextPiped, ShellPutBack, AtEnd
<1> QED BY <1>1, <1>2, <1>4, <1>5 DEF PipelineInv

LEMMA PipelineInvSteps ==
  ASSUME PipelineInv, [PipelinesNext]_pVars
  PROVE  PipelineInv'
<1>1. CASE UNCHANGED pVars
  BY <1>1, PipelineInvStutters
<1>2. CASE PipelinesNext
  BY <1>2, StartStep, NotTimedStep, TimedGivenUpStep, TimedReadStep, NotHostsStep,
     HostsTogetherStep, BadDescriptorStep, BadPathStep, EchoStep, FilterStep, HostStep,
     MissingStep, UnknownOptionStep, CopiedStep, ReturnStep, LastpipeStep,
     WriteOutputStep, WriteFileStep, WriteFailsStep DEF PipelinesNext
<1> QED BY <1>1, <1>2

\* Whatever lines a script has: every pipeline leaves in the shell, in PIPESTATUS
\* and $?, on the output and in its file what the same stages in shells of their
\* own would, but for the departures PipelineAsPromised names, and the shell's
\* output and its latch are put back (execute_pipeline_command with all it calls).
THEOREM PipelinesKeepTheirPromise == PipelinesSpec => []PipelineAsPromised
<1>1. PipelinesInit => PipelineInv
  BY PipelineInvInit
<1>2. PipelineInv /\ [PipelinesNext]_pVars => PipelineInv'
  BY PipelineInvSteps
<1>3. PipelineInv => PipelineAsPromised
  BY InvPromises
<1> QED BY <1>1, <1>2, <1>3, PTL DEF PipelinesSpec

-------------------------------------------------------------------------------
-------------------------------------------------------------------------------
(* Host programs joined by pipes *)

Endings == {0, 2, BySignal}
Statuses == {0, 1, 2}

\* status.code().unwrap_or(1) is a status.
LEMMA StatusOfTyped ==
  ASSUME NEW end \in Endings
  PROVE  StatusOf(end) \in Statuses
  BY DEF StatusOf, Endings, Statuses

\* The full types of the variables.
PipeTyped ==
  /\ program \in Seq(Programs) /\ N \in 1 .. MaxMembers
  /\ spot \in {"starting", "writing", "reading", "taking", "done", "failed"}
  /\ next \in 0 .. N + 1 /\ input \in 0 .. MaxInput
  /\ member \in [Members -> {"unborn", "running", "ended", "reaped"}]
  /\ ending \in [Members -> Endings] /\ reports \in Seq(Statuses)
  /\ held \in [Members -> Nat] /\ made \in [Members -> Nat]
  /\ pipe \in [0 .. N -> 0 .. Capacity]
  /\ killed \subseteq Members /\ closed \subseteq Members

\* Which members are started and which are reaped, by where the shell is.
Progress ==
  /\ spot = "starting" =>
       next \in 1 .. N /\ \A i \in Members : member[i] = "unborn" <=> i >= next
  /\ spot \in {"starting", "writing", "reading"} =>
       reports = << >> /\ \A i \in Members : member[i] # "reaped"
  /\ spot \in {"writing", "reading"} => \A i \in Members : member[i] # "unborn"
  /\ spot = "taking" =>
       next < N /\ \A i \in Members : member[i] # "unborn" /\ (member[i] = "reaped" <=> i > next)
  /\ spot = "done" => \A i \in Members : member[i] = "reaped"
  /\ spot = "failed" => input > 0 \/ \E i \in Members : member[i] = "unborn"

\* The statuses taken so far, from the right.
TakenFromTheRight ==
  spot = "taking" =>
    Len(reports) = N - next /\ \A i \in Members : i > next => reports[N + 1 - i] = StatusOf(ending[i])

\* A member that was killed, or whose pipe broke, died of a signal; the last one,
\* which the shell reads, did neither unless the pipeline failed.
DeadOfSignal ==
  \A i \in Members :
    /\ i \in killed => ending[i] = BySignal /\ member[i] = "reaped"
    /\ i = N /\ ending[i] = BySignal => spot = "failed"

PipeInv == PipeTyped /\ Progress /\ TakenFromTheRight /\ DeadOfSignal /\ EachStatusRecorded

----------------------------------------------------------------------------

\* A function one of whose values is replaced keeps its type.
LEMMA OneValueReplaced ==
  ASSUME NEW S, NEW T, NEW f \in [S -> T], NEW x \in S, NEW v \in T
  PROVE  [f EXCEPT ![x] = v] \in [S -> T]
  OBVIOUS

\* Nothing has happened yet.
LEMMA PipeInitInv == PipeInit => PipeInv
<1> SUFFICES ASSUME PipeInit PROVE PipeInv
  OBVIOUS
<1>1. PICK n \in 1 .. MaxMembers : program \in [1 .. n -> Programs]
  BY DEF PipeInit
<1>2. program \in Seq(Programs) /\ N = n /\ Members = 1 .. n
  BY <1>1, SizesAssumption DEF N, Members
<1>3. PipeTyped
  BY <1>2, SizesAssumption DEF PipeInit, PipeTyped, Statuses, Endings, N
<1> QED
  BY <1>2, <1>3, SizesAssumption
  DEF PipeInit, PipeInv, Progress, TakenFromTheRight, DeadOfSignal, EachStatusRecorded, BySignal

\* A step of a member only ever ends the member, by a signal if nobody reads
\* what it writes.
LEMMA MemberStepInv ==
  ASSUME PipeInv, NEW i \in 1 .. MaxMembers, MemberNext(i)
  PROVE  PipeInv'
<1> USE SizesAssumption
<1>1. i \in Members /\ i \in 1 .. N /\ member[i] = "running"
  BY DEF MemberNext, MemberReads, MemberWrites, MemberBroken, MemberCloses, MemberEnds, CanRead, CanWrite, CanBreak,
     CanClose, CanEnd, Running, PipeInv, PipeTyped, N, Members
<1>2. program' = program /\ N' = N /\ Members' = Members /\ UNCHANGED shellVars
  BY DEF MemberNext, MemberReads, MemberWrites, MemberBroken, MemberCloses, MemberEnds,
     N, Members, shellVars
<1>3. \/ UNCHANGED <<member, ending>>
      \/ \E status \in {0, 2} : Ends(i, status)
      \/ ~HasReader(i) /\ Ends(i, BySignal)
  BY DEF MemberNext, MemberReads, MemberWrites, MemberBroken, MemberCloses, MemberEnds, CanBreak
<1>4. /\ pipe' \in [0 .. N -> 0 .. Capacity] /\ held' \in [Members -> Nat]
      /\ made' \in [Members -> Nat] /\ closed' \subseteq Members
  <2>0. Members = 1 .. N
    BY DEF PipeInv, PipeTyped, N, Members
  <2> USE <1>1, <2>0
  <2>5. /\ N \in Nat /\ Capacity \in Nat /\ i - 1 \in 0 .. N /\ i \in 0 .. N
        /\ pipe \in [0 .. N -> 0 .. Capacity] /\ held \in [Members -> Nat]
        /\ made \in [Members -> Nat] /\ closed \subseteq Members
    <3> HIDE DEF N, Members
    <3>1. PipeTyped
      BY DEF PipeInv
    <3>2. N \in Nat
      BY <3>1 DEF PipeTyped
    <3>3. Capacity \in Nat /\ i - 1 \in 0 .. N /\ i \in 0 .. N
      BY <3>2
    <3>4. /\ pipe \in [0 .. N -> 0 .. Capacity] /\ held \in [Members -> Nat]
          /\ made \in [Members -> Nat] /\ closed \subseteq Members
      BY <3>1 DEF PipeTyped
    <3> QED BY <3>2, <3>3, <3>4
  <2>1. CASE MemberReads(i)
    <3>1. pipe' = [pipe EXCEPT ![i - 1] = pipe[i - 1] - 1] /\ pipe[i - 1] > 0
      BY <2>1 DEF MemberReads, CanRead
    <3>2. pipe[i - 1] - 1 \in 0 .. Capacity
      BY <3>1, <2>5
    <3>4. pipe' \in [0 .. N -> 0 .. Capacity]
      BY <3>1, <3>2, <2>5, OneValueReplaced
    <3>3. held' \in [Members -> Nat] /\ made' = made /\ closed' = closed
      BY <2>1, <2>5 DEF MemberReads
    <3> QED BY <2>5, <3>3, <3>4
  <2>2. CASE MemberWrites(i)
    <3>1. pipe' = [pipe EXCEPT ![i] = pipe[i] + 1] /\ pipe[i] < Capacity
      BY <2>2 DEF MemberWrites, CanWrite
    <3>2. pipe[i] + 1 \in 0 .. Capacity
      BY <3>1, <2>5
    <3>4. pipe' \in [0 .. N -> 0 .. Capacity]
      BY <3>1, <3>2, <2>5, OneValueReplaced
    <3>3. held' \in [Members -> Nat] /\ made' \in [Members -> Nat] /\ closed' = closed
      <4>1. made[i] + 1 \in Nat /\ made[i] \in Nat
        BY <2>5
      <4>2. /\ held' = [held EXCEPT ![i] = 0] /\ closed' = closed
            /\ made' = [made EXCEPT ![i] = IF program[i] \in {"source", "eager"}
                                           THEN made[i] + 1 ELSE made[i]]
        BY <2>2 DEF MemberWrites
      <4> QED BY <4>1, <4>2, <2>5, OneValueReplaced
    <3> QED BY <2>5, <3>3, <3>4
  <2>3. CASE MemberBroken(i) \/ MemberEnds(i)
    BY <2>3, <2>5 DEF MemberBroken, MemberEnds, memberVars
  <2>4. CASE MemberCloses(i)
    BY <2>4, <2>5 DEF MemberCloses
  <2> QED BY <2>1, <2>2, <2>3, <2>4 DEF MemberNext
<1>5. /\ member' \in [Members -> {"unborn", "running", "ended", "reaped"}]
      /\ ending' \in [Members -> Endings]
      /\ \A j \in Members : j # i => member'[j] = member[j] /\ ending'[j] = ending[j]
      /\ member'[i] \in {"running", "ended"}
      /\ i = N /\ ending'[i] = BySignal => spot = "failed"
  <2>1. i = N /\ ending[i] = BySignal => spot = "failed"
    BY <1>1 DEF PipeInv, DeadOfSignal
  <2>2. /\ member \in [Members -> {"unborn", "running", "ended", "reaped"}]
        /\ ending \in [Members -> Endings]
    BY DEF PipeInv, PipeTyped
  <2>3. CASE UNCHANGED <<member, ending>>
    BY <2>1, <2>2, <2>3, <1>1
  <2>4. ASSUME NEW status \in Endings, Ends(i, status),
               i = N /\ status = BySignal => spot = "failed"
        PROVE  /\ member' \in [Members -> {"unborn", "running", "ended", "reaped"}]
               /\ ending' \in [Members -> Endings]
               /\ \A j \in Members : j # i => member'[j] = member[j] /\ ending'[j] = ending[j]
               /\ member'[i] \in {"running", "ended"}
               /\ i = N /\ ending'[i] = BySignal => spot = "failed"
    BY <2>2, <2>4, <1>1 DEF Ends
  <2>5. i = N /\ ~HasReader(i) => spot = "failed"
    BY DEF HasReader
  <2>6. /\ {0, 2, BySignal} = Endings /\ BySignal \notin {0, 2}
    BY DEF Endings, BySignal
  <2> QED BY <1>3, <2>3, <2>4, <2>5, <2>6
<1>6. spot # "done" /\ (spot = "taking" => i <= next)
  BY <1>1 DEF PipeInv, Progress, PipeTyped
<1>7. PipeTyped'
  BY <1>2, <1>4, <1>5 DEF PipeInv, PipeTyped, shellVars
<1>8. Progress'
  BY <1>1, <1>2, <1>5 DEF PipeInv, Progress, shellVars
<1>9. TakenFromTheRight' /\ DeadOfSignal' /\ EachStatusRecorded'
  BY <1>1, <1>2, <1>5, <1>6
  DEF PipeInv, PipeTyped, TakenFromTheRight, DeadOfSignal, EachStatusRecorded, shellVars
<1> QED BY <1>7, <1>8, <1>9 DEF PipeInv

\* Before the statuses are taken the shell starts, writes and reads.
LEMMA BeforeTakingInv ==
  ASSUME PipeInv, Spawn \/ SpawnFails \/ ShellWrites \/ ShellBroken \/ ShellCloses \/ ShellReads
  PROVE  PipeInv'
<1> USE SizesAssumption
<1>0. PipeTyped /\ Members = 1 .. N /\ N \in Nat
  BY DEF PipeInv, PipeTyped, N, Members
<1>1. /\ program' = program /\ N' = N /\ Members' = Members
      /\ UNCHANGED <<reports, recorded, killed, ending, held, made, closed>>
  BY DEF Spawn, SpawnFails, ShellWrites, ShellBroken, ShellCloses, ShellReads, N, Members,
     memberVars, shellVars
<1>2. spot' \in {"starting", "writing", "reading", "failed"} /\ spot # "failed"
  BY DEF Spawn, SpawnFails, ShellWrites, ShellBroken, ShellCloses, ShellReads, shellVars
<1>3. TakenFromTheRight' /\ EachStatusRecorded'
  BY <1>2 DEF TakenFromTheRight, EachStatusRecorded
<1>4. CASE Spawn
  <2>1. /\ next \in 1 .. N /\ member[next] = "unborn" /\ spot = "starting"
        /\ member' = [member EXCEPT ![next] = "running"] /\ next' = next + 1
        /\ spot' = IF next = N THEN "writing" ELSE "starting"
        /\ UNCHANGED <<input, pipe>>
    BY <1>4, <1>0 DEF Spawn, PipeInv, Progress
  <2>2. member' \in [Members -> {"unborn", "running", "ended", "reaped"}]
    BY <2>1, <1>0, OneValueReplaced DEF PipeTyped
  <2>3. PipeTyped'
    <3>1. next' \in 0 .. N + 1
      BY <2>1, <1>0
    <3> QED BY <2>1, <2>2, <3>1, <1>0, <1>1 DEF PipeTyped
  <2>4. /\ \A i \in Members : member'[i] = IF i = next THEN "running" ELSE member[i]
        /\ \A i \in Members : member[i] = "unborn" <=> i >= next
        /\ reports = << >> /\ \A i \in Members : member[i] # "reaped"
    BY <2>1, <1>0 DEF PipeTyped, PipeInv, Progress
  <2>5. Progress'
    BY <2>1, <2>4, <1>0, <1>1 DEF Progress
  <2>6. DeadOfSignal'
    BY <2>4, <1>0, <1>1, <1>2 DEF PipeInv, DeadOfSignal
  <2> QED BY <2>3, <2>5, <2>6, <1>3 DEF PipeInv
<1>5. CASE ~Spawn
  <2>1. member' = member /\ next' = next
    BY <1>5 DEF SpawnFails, ShellWrites, ShellBroken, ShellCloses, ShellReads, shellVars
  <2>2. input' \in 0 .. MaxInput /\ pipe' \in [0 .. N -> 0 .. Capacity]
    <3>1. CASE ShellWrites
      <4>1. input' = input - 1 /\ input > 0 /\ pipe' = [pipe EXCEPT ![0] = pipe[0] + 1]
            /\ pipe[0] < Capacity
        BY <3>1 DEF ShellWrites
      <4>2. input \in 0 .. MaxInput /\ 0 \in 0 .. N /\ pipe \in [0 .. N -> 0 .. Capacity]
        BY <1>0 DEF PipeTyped
      <4>3. pipe[0] + 1 \in 0 .. Capacity
        BY <4>1, <4>2
      <4>4. pipe' \in [0 .. N -> 0 .. Capacity]
        BY <4>1, <4>2, <4>3, OneValueReplaced
      <4> QED BY <4>1, <4>2, <4>4
    <3>2. CASE ShellReads
      <4>1. input' = input /\ pipe' = [pipe EXCEPT ![N] = pipe[N] - 1] /\ pipe[N] > 0
        BY <3>2 DEF ShellReads, shellVars
      <4>2. input \in 0 .. MaxInput /\ N \in 0 .. N /\ pipe \in [0 .. N -> 0 .. Capacity]
        BY <1>0 DEF PipeTyped
      <4>3. pipe[N] - 1 \in 0 .. Capacity
        BY <4>1, <4>2
      <4>4. pipe' \in [0 .. N -> 0 .. Capacity]
        BY <4>1, <4>2, <4>3, OneValueReplaced
      <4> QED BY <4>1, <4>2, <4>4
    <3> QED
      BY <3>1, <3>2, <1>0, <1>5 DEF SpawnFails, ShellBroken, ShellCloses, PipeTyped
  <2>3. PipeTyped'
    BY <2>1, <2>2, <1>0, <1>1, <1>2 DEF PipeTyped
  <2>4. Progress'
    <3>1. CASE SpawnFails
      <4>1. next \in 1 .. N /\ member[next] = "unborn"
        BY <3>1, <1>0 DEF SpawnFails, PipeInv, Progress
      <4> QED BY <3>1, <4>1, <2>1, <1>0, <1>1 DEF SpawnFails, Progress
    <3>2. CASE ShellBroken
      BY <3>2, <2>1, <1>1 DEF ShellBroken, Progress
    <3>3. CASE ShellWrites \/ ShellCloses \/ ShellReads
      BY <3>3, <2>1, <1>1 DEF ShellWrites, ShellCloses, ShellReads, shellVars, PipeInv, Progress
    <3> QED BY <3>1, <3>2, <3>3, <1>5
  <2>5. DeadOfSignal'
    BY <2>1, <1>1, <1>2 DEF PipeInv, DeadOfSignal
  <2> QED BY <2>3, <2>4, <2>5, <1>3 DEF PipeInv
<1> QED BY <1>4, <1>5

\* The statuses are taken from the right, one by one.
LEMMA TakingInv ==
  ASSUME PipeInv, LastTaken \/ MemberTaken \/ MemberKilled
  PROVE  PipeInv'
<1> USE SizesAssumption
<1>0. PipeTyped /\ Members = 1 .. N /\ N \in Nat \ {0}
  BY DEF PipeInv, PipeTyped, N, Members
<1> DEFINE i == IF spot = "reading" THEN N ELSE next
<1>1. /\ program' = program /\ N' = N /\ Members' = Members
      /\ UNCHANGED <<input, recorded, held, made, closed, pipe>> /\ spot' = "taking"
  BY DEF LastTaken, MemberTaken, MemberKilled, N, Members, memberVars
<1>2. /\ i \in 1 .. N /\ next' = i - 1 /\ member' = [member EXCEPT ![i] = "reaped"]
      /\ spot \in {"reading", "taking"}
  <2>1. CASE LastTaken
    BY <2>1, <1>0 DEF LastTaken, Take
  <2>2. CASE MemberTaken \/ MemberKilled
    <3>1. spot = "taking" /\ next \in 1 .. N
      BY <2>2, <1>0 DEF MemberTaken, MemberKilled, PipeTyped, PipeInv, Progress
    <3> QED BY <2>2, <3>1 DEF MemberTaken, MemberKilled, Take
  <2> QED BY <2>1, <2>2
<1>3. /\ \A j \in Members : member[j] # "unborn" /\ (member[j] = "reaped" <=> j > i)
      /\ Len(reports) = N - i /\ \A j \in Members : j > i => reports[N + 1 - j] = StatusOf(ending[j])
  <2>1. CASE spot = "reading"
    <3>1. /\ reports = << >> /\ \A j \in Members : member[j] # "unborn" /\ member[j] # "reaped"
      BY <2>1 DEF PipeInv, Progress
    <3> QED BY <3>1, <2>1, <1>0
  <2>2. CASE spot = "taking"
    BY <2>2 DEF PipeInv, Progress, TakenFromTheRight
  <2> QED BY <2>1, <2>2, <1>2
<1>4. /\ ending' \in [Members -> Endings] /\ reports' = Append(reports, StatusOf(ending'[i]))
      /\ \A j \in Members : j # i => ending'[j] = ending[j]
      /\ killed' \subseteq Members /\ DeadOfSignal'
  <2>1. CASE MemberKilled
    <3>1. /\ i = next /\ killed' = killed \cup {i} /\ ending' = [ending EXCEPT ![i] = BySignal]
          /\ reports' = Append(reports, StatusOf(BySignal)) /\ spot = "taking"
      BY <2>1 DEF MemberKilled
    <3>2. ending' \in [Members -> Endings] /\ ending'[i] = BySignal
      BY <3>1, <1>0, <1>2 DEF PipeTyped, Endings
    <3>4. i # N /\ spot # "failed"
      BY <3>1, <1>0 DEF PipeInv, Progress
    <3>3. DeadOfSignal'
      BY <3>1, <3>4, <1>0, <1>1, <1>2 DEF PipeInv, PipeTyped, DeadOfSignal
    <3> QED BY <3>1, <3>2, <3>3, <1>0, <1>2 DEF PipeTyped
  <2>2. CASE LastTaken \/ MemberTaken
    <3>1. /\ reports' = Append(reports, StatusOf(ending[i])) /\ UNCHANGED <<ending, killed>>
          /\ spot # "failed"
      BY <2>2 DEF LastTaken, MemberTaken, Take
    <3>2. DeadOfSignal'
      BY <3>1, <1>0, <1>1, <1>2 DEF PipeInv, PipeTyped, DeadOfSignal
    <3> QED BY <3>1, <3>2, <1>0 DEF PipeTyped
  <2> QED BY <2>1, <2>2
<1> HIDE DEF i
<1>5. PipeTyped'
  <2>1. member' \in [Members -> {"unborn", "running", "ended", "reaped"}]
    BY <1>0, <1>2, OneValueReplaced DEF PipeTyped
  <2>2. StatusOf(ending'[i]) \in Statuses /\ reports' \in Seq(Statuses)
    BY <1>0, <1>2, <1>4, StatusOfTyped DEF PipeTyped
  <2>3. next' \in 0 .. N + 1
    BY <1>0, <1>2
  <2> QED BY <2>1, <2>2, <2>3, <1>0, <1>1, <1>4 DEF PipeTyped
<1>6. Progress'
  <2>1. \A j \in Members : member'[j] = IF j = i THEN "reaped" ELSE member[j]
    BY <1>0, <1>2 DEF PipeTyped
  <2> QED BY <2>1, <1>0, <1>1, <1>2, <1>3 DEF Progress
<1>7. TakenFromTheRight'
  <2>1. /\ Len(reports') = N - next' /\ reports'[N - next'] = StatusOf(ending'[i])
        /\ \A q \in 1 .. N - i : reports'[q] = reports[q]
    <3>1. reports \in Seq(Statuses) /\ StatusOf(ending'[i]) \in Statuses /\ Len(reports) = N - i
      BY <1>0, <1>2, <1>3, <1>4, StatusOfTyped DEF PipeTyped
    <3>2. /\ Len(reports') = N - i + 1 /\ reports'[N - i + 1] = StatusOf(ending'[i])
          /\ \A q \in 1 .. N - i : reports'[q] = reports[q]
      <4> DEFINE v == StatusOf(ending'[i])
      <4>1. reports' = Append(reports, v) /\ v \in Statuses /\ Len(reports) = N - i
        BY <3>1, <1>2, <1>4
      <4> HIDE DEF v
      <4>2. Len(reports') = N - i + 1 /\ reports'[N - i + 1] = v
        BY <3>1, <4>1
      <4>3. \A q \in 1 .. N - i : reports'[q] = reports[q]
        BY <3>1, <4>1
      <4> QED BY <4>2, <4>3 DEF v
    <3>3. N - next' = N - i + 1
      BY <1>0, <1>2
    <3> QED BY <3>2, <3>3
  <2>2. ASSUME NEW j \in Members, j > next'
        PROVE  reports'[N + 1 - j] = StatusOf(ending'[j])
    <3>1. CASE j = i
      BY <3>1, <2>1, <1>0, <1>2
    <3>2. CASE j # i
      <4>1. j > i /\ N + 1 - j \in 1 .. N - i
        BY <3>2, <2>2, <1>0, <1>2
      <4> QED BY <4>1, <3>2, <2>1, <1>3, <1>4
    <3> QED BY <3>1, <3>2
  <2> QED BY <2>1, <2>2, <1>1 DEF TakenFromTheRight
<1>8. EachStatusRecorded'
  BY <1>1 DEF EachStatusRecorded
<1> QED BY <1>4, <1>5, <1>6, <1>7, <1>8 DEF PipeInv

\* results.reverse() puts the statuses in the order of the members.
LEMMA RecordInv ==
  ASSUME PipeInv, Record
  PROVE  PipeInv'
<1> USE SizesAssumption
<1>0. PipeTyped /\ Members = 1 .. N /\ N \in Nat \ {0}
  BY DEF PipeInv, PipeTyped, N, Members
<1>1. /\ program' = program /\ N' = N /\ Members' = Members /\ spot' = "done"
      /\ UNCHANGED <<input, next, reports, killed, member, ending, held, made, closed, pipe>>
      /\ next = 0 /\ spot = "taking"
      /\ recorded' = [i \in DOMAIN reports |-> reports[N + 1 - i]]
  BY DEF Record, N, Members, memberVars
<1>2. /\ \A i \in Members : member[i] = "reaped"
      /\ DOMAIN reports = 1 .. N /\ \A i \in Members : reports[N + 1 - i] = StatusOf(ending[i])
  BY <1>0, <1>1 DEF PipeInv, PipeTyped, Progress, TakenFromTheRight
<1>3. Len(recorded') = N /\ \A i \in Members : recorded'[i] = StatusOf(ending[i])
  BY <1>0, <1>1, <1>2
<1>4. PipeTyped'
  BY <1>0, <1>1 DEF PipeTyped
<1>5. Progress' /\ TakenFromTheRight'
  BY <1>1, <1>2 DEF Progress, TakenFromTheRight
<1>6. DeadOfSignal'
  BY <1>1 DEF PipeInv, DeadOfSignal
<1>7. EachStatusRecorded'
  <2>1. \A i \in Members : i = N \/ i < N
    BY <1>0
  <2> QED BY <1>1, <1>3, <1>6, <2>1 DEF EachStatusRecorded, DeadOfSignal, StatusOf
<1> QED BY <1>4, <1>5, <1>6, <1>7 DEF PipeInv

\* PipeInv is an invariant.
THEOREM PipeAlwaysAccounted == PipeSpec => []PipeInv
<1>1. PipeInv /\ [PipeNext]_ppVars => PipeInv'
  <2> SUFFICES ASSUME PipeInv, [PipeNext]_ppVars PROVE PipeInv'
    OBVIOUS
  <2>1. CASE \E i \in 1 .. MaxMembers : MemberNext(i)
    BY <2>1, MemberStepInv
  <2>2. CASE Spawn \/ SpawnFails \/ ShellWrites \/ ShellBroken \/ ShellCloses \/ ShellReads
    BY <2>2, BeforeTakingInv
  <2>3. CASE LastTaken \/ MemberTaken \/ MemberKilled
    BY <2>3, TakingInv
  <2>4. CASE Record
    BY <2>4, RecordInv
  <2>5. CASE UNCHANGED ppVars
    BY <2>5 DEF ppVars, shellVars, memberVars, PipeInv, PipeTyped, Progress, TakenFromTheRight,
       DeadOfSignal, EachStatusRecorded, N, Members
  <2> QED BY <2>1, <2>2, <2>3, <2>4, <2>5 DEF PipeNext, Moves, ShellNext
<1> QED BY <1>1, PipeInitInv, PTL DEF PipeSpec

\* Every member is accounted for: its status at its place in PIPESTATUS, its
\* own code, or 1 if it was killed or died writing to nobody, and no process the
\* shell started left behind but for a pipeline that failed half way.
THEOREM PipeMembersAccountedFor == PipeSpec => []MembersAccountedFor
<1>1. PipeInv => MembersAccountedFor
  <2> SUFFICES ASSUME PipeInv PROVE MembersAccountedFor
    OBVIOUS
  <2>1. PipeTypeOK
    BY DEF PipeInv, PipeTyped, PipeTypeOK
  <2>2. NoneLeftBehind
    BY DEF PipeInv, PipeTyped, Progress, NoneLeftBehind
  <2> QED BY <2>1, <2>2 DEF PipeInv, MembersAccountedFor
<1> QED BY <1>1, PipeAlwaysAccounted, PTL

----------------------------------------------------------------------------
(* A standstill.                                                             *)

\* A program that writes on its own writes no more than it has to, and one that
\* does not pass on what it reads holds nothing.
WorkBounded ==
  \A i \in Members : /\ program[i] \in {"source", "eager"} => made[i] <= Effort
                     /\ held[i] > 0 => program[i] \in {"filter", "first"}

StandInv == PipeInv /\ WorkBounded

LEMMA WorkStaysBounded ==
  ASSUME PipeInv, WorkBounded, [PipeNext]_ppVars
  PROVE  WorkBounded'
<1>1. PipeTyped /\ Effort \in Nat
  BY SizesAssumption DEF PipeInv
<1>2. program' = program /\ Members' = Members
  BY DEF PipeNext, Moves, ShellNext, MemberNext, MemberReads, MemberWrites, MemberBroken, MemberCloses,
     MemberEnds, Spawn, SpawnFails, ShellWrites, ShellBroken, ShellCloses, ShellReads, LastTaken,
     MemberTaken, MemberKilled, Record, ppVars, Members
<1>3. CASE \E i \in 1 .. MaxMembers : MemberWrites(i)
  <2>1. PICK i \in 1 .. MaxMembers : MemberWrites(i)
    BY <1>3
  <2>2. /\ i \in Members /\ Writes(i)
        /\ made' = [made EXCEPT ![i] = IF program[i] \in {"source", "eager"} THEN @ + 1 ELSE @]
    BY <2>1 DEF MemberWrites, CanWrite, Running
  <2>3. program[i] \in {"source", "eager"} => made[i] < Effort
    BY <2>2 DEF Writes
  <2>4. made \in [Members -> Nat]
    BY <1>1 DEF PipeTyped
  <2>5. \A j \in Members : made'[j] =
          IF j = i /\ program[i] \in {"source", "eager"} THEN made[j] + 1 ELSE made[j]
    BY <2>2, <2>4
  <2>6. held' = [held EXCEPT ![i] = 0] /\ held \in [Members -> Nat]
    BY <1>1, <2>1 DEF MemberWrites, PipeTyped
  <2>7. \A j \in Members : held'[j] = IF j = i THEN 0 ELSE held[j]
    BY <2>6
  <2> QED BY <1>1, <1>2, <2>3, <2>4, <2>5, <2>7 DEF WorkBounded
<1>4. CASE ~ \E i \in 1 .. MaxMembers : MemberWrites(i)
  <2>1. made' = made
    BY <1>4 DEF PipeNext, Moves, ShellNext, MemberNext, MemberReads, MemberBroken, MemberCloses,
       MemberEnds, Spawn, SpawnFails, ShellWrites, ShellBroken, ShellCloses, ShellReads, LastTaken,
       MemberTaken, MemberKilled, Record, ppVars, memberVars
  <2>2. CASE \E i \in 1 .. MaxMembers : MemberReads(i)
    <3>1. PICK i \in 1 .. MaxMembers : MemberReads(i)
      BY <2>2
    <3>2. /\ held' = [held EXCEPT ![i] = IF program[i] \in {"filter", "first"} THEN 1 ELSE 0]
          /\ held \in [Members -> Nat]
      BY <1>1, <3>1 DEF MemberReads, PipeTyped
    <3>3. \A j \in Members : held'[j] =
            IF j # i THEN held[j] ELSE IF program[i] \in {"filter", "first"} THEN 1 ELSE 0
      BY <3>2
    <3> QED BY <1>2, <2>1, <3>3 DEF WorkBounded
  <2>3. CASE ~ \E i \in 1 .. MaxMembers : MemberReads(i)
    <3>1. held' = held
      BY <1>4, <2>3 DEF PipeNext, Moves, ShellNext, MemberNext, MemberBroken, MemberCloses, MemberEnds,
         Spawn, SpawnFails, ShellWrites, ShellBroken, ShellCloses, ShellReads, LastTaken,
         MemberTaken, MemberKilled, Record, ppVars, memberVars
    <3> QED BY <1>2, <2>1, <3>1 DEF WorkBounded
  <2> QED BY <2>2, <2>3
<1> QED BY <1>3, <1>4

\* A member that cannot move, with something to read or nothing more to come, is
\* one that has something to write and no room for it.
LEMMA BlockedByWhatFollows ==
  ASSUME StandInv, NEW i \in Members, member[i] = "running", program[i] # "waiting",
         ~MemberAble(i), pipe[i - 1] > 0 \/ ~HasWriter(i - 1)
  PROVE  HasReader(i) /\ pipe[i] = Capacity
<1>1. PipeTyped /\ Members = 1 .. N /\ N \in Nat /\ Capacity \in Nat /\ Effort \in Nat
  BY SizesAssumption DEF StandInv, PipeInv, PipeTyped, N, Members
<1>2. /\ program[i] \in {"filter", "sink", "source", "eager", "first", "endless", "closer"}
      /\ held[i] \in Nat /\ made[i] \in Nat
      /\ i \in 0 .. N /\ i - 1 \in 0 .. N
  <2>1. program \in Seq(Programs) /\ i \in 1 .. Len(program)
    BY <1>1 DEF PipeTyped, N
  <2>2. program[i] \in Programs
    BY <2>1
  <2>3. held[i] \in Nat /\ made[i] \in Nat
    BY <1>1 DEF PipeTyped
  <2>4. i \in 0 .. N /\ i - 1 \in 0 .. N
    BY <1>1
  <2> QED BY <2>2, <2>3, <2>4, ProgramsAssumption
<1>3. pipe[i - 1] \in 0 .. Capacity /\ pipe[i] \in 0 .. Capacity
  BY <1>1, <1>2 DEF PipeTyped
<1>4. /\ program[i] \in {"source", "eager"} => made[i] <= Effort
      /\ program[i] = "sink" => held[i] = 0
  BY <1>2 DEF StandInv, WorkBounded
<1>5. Running(i)
  BY DEF Running
<1>6. pipe[i - 1] > 0 \/ AtEOF(i - 1)
  BY <1>3 DEF AtEOF
<1>7. Writes(i) => HasReader(i) /\ pipe[i] = Capacity
  BY <1>1, <1>3, <1>5 DEF MemberAble, CanWrite, CanBreak
<1>8. Writes(i)
  <2>1. CASE program[i] \in {"filter", "first"}
    BY <2>1, <1>2, <1>5, <1>6 DEF MemberAble, CanRead, CanEnd, Reads, Writes
  <2>2. CASE program[i] = "sink"
    BY <2>2, <1>4, <1>5, <1>6 DEF MemberAble, CanRead, CanEnd, Reads
  <2>6. CASE program[i] = "closer"
    <3>1. CASE i \in closed
      BY <2>6, <3>1, <1>5 DEF MemberAble, CanEnd
    <3>2. CASE i \notin closed
      BY <2>6, <3>2, <1>5, <1>6 DEF MemberAble, CanRead, CanClose, Reads
    <3> QED BY <3>1, <3>2
  <2>3. CASE program[i] = "eager"
    <3>1. made[i] < Effort \/ made[i] = Effort
      BY <2>3, <1>1, <1>2, <1>4
    <3> QED BY <2>3, <3>1, <1>5, <1>6 DEF MemberAble, CanRead, CanEnd, Reads, Writes
  <2>4. CASE program[i] = "source"
    <3>1. made[i] < Effort \/ made[i] = Effort
      BY <2>4, <1>1, <1>2, <1>4
    <3> QED BY <2>4, <3>1, <1>5 DEF MemberAble, CanEnd, Writes
  <2>5. CASE program[i] = "endless"
    BY <2>5 DEF Writes
  <2> QED BY <1>2, <2>1, <2>2, <2>3, <2>4, <2>5, <2>6
<1> QED BY <1>7, <1>8

\* From a full pipe that somebody reads on, every pipe is full.
LEMMA FullToTheEnd ==
  ASSUME StandInv, spot \in {"writing", "reading"},
         \A i \in Members : program[i] # "waiting" /\ ~MemberAble(i),
         NEW q \in 0 .. N, HasReader(q), pipe[q] = Capacity
  PROVE  \A i \in q .. N : HasReader(i) /\ pipe[i] = Capacity
<1>1. Members = 1 .. N /\ N \in Nat /\ Capacity \in Nat \ {0}
  BY SizesAssumption DEF StandInv, PipeInv, PipeTyped, N, Members
<1> DEFINE Fails == {i \in q .. N : ~(HasReader(i) /\ pipe[i] = Capacity)}
<1> SUFFICES ASSUME Fails # {} PROVE FALSE
  OBVIOUS
<1>2. PICK i \in Fails : \A j \in Fails : i <= j
  <2>1. Fails \in SUBSET Nat
    BY <1>1
  <2> QED BY <2>1, LeastNumber
<1>3. i > q /\ i \in Members /\ i - 1 \in q .. N /\ i - 1 # N /\ (i - 1) + 1 = i
  BY <1>1, <1>2
<1>4. HasReader(i - 1) /\ pipe[i - 1] = Capacity
  BY <1>2, <1>3
<1>5. member[i] = "running"
  BY <1>3, <1>4 DEF HasReader
<1>6. pipe[i - 1] > 0
  BY <1>1, <1>4
<1>7. HasReader(i) /\ pipe[i] = Capacity
  BY <1>3, <1>5, <1>6, BlockedByWhatFollows
<1> QED BY <1>2, <1>7

\* While the shell writes, the first pipe is full, and so are the others.
LEMMA StandstillInWriting ==
  ASSUME StandInv, spot = "writing", ~Able, \A i \in Members : program[i] # "waiting"
  PROVE  \A i \in 0 .. N : pipe[i] = Capacity
<1>1. N \in Nat /\ Capacity \in Nat /\ pipe[0] \in 0 .. Capacity
  <2>1. PipeTyped /\ Capacity \in Nat
    BY SizesAssumption DEF StandInv, PipeInv
  <2>2. N \in 1 .. MaxMembers /\ pipe \in [0 .. N -> 0 .. Capacity]
    BY <2>1 DEF PipeTyped
  <2> QED BY <2>1, <2>2, SizesAssumption
<1>2. HasReader(0) /\ pipe[0] = Capacity
  BY <1>1 DEF Able, ShellAble
<1>3. \A i \in Members : program[i] # "waiting" /\ ~MemberAble(i)
  BY DEF Able
<1> QED BY <1>1, <1>2, <1>3, FullToTheEnd

\* While it reads, the first member that runs has its input to an end, or stands
\* before a full pipe as all that follow; but the last pipe is empty.
LEMMA NoStandstillInReading ==
  ASSUME StandInv, spot = "reading", \A i \in Members : program[i] # "waiting"
  PROVE  Able
<1> SUFFICES ASSUME ~Able PROVE FALSE
  OBVIOUS
<1>1. /\ PipeTyped /\ Members = 1 .. N /\ N \in Nat \ {0} /\ Capacity \in Nat \ {0}
      /\ pipe[N] \in 0 .. Capacity
  BY SizesAssumption DEF StandInv, PipeInv, PipeTyped, N, Members
<1>2. pipe[N] = 0 /\ ~(AtEOF(N) /\ member[N] = "ended")
  BY <1>1 DEF Able, ShellAble
<1>3. \A i \in Members : member[i] \in {"running", "ended"}
  BY <1>1 DEF PipeTyped, StandInv, PipeInv, Progress
<1>4. member[N] = "running"
  BY <1>1, <1>2, <1>3 DEF AtEOF, HasWriter
<1> DEFINE Runs == {i \in Members : member[i] = "running"}
<1>5. PICK i \in Runs : \A j \in Runs : i <= j
  <2>1. Runs \in SUBSET Nat /\ Runs # {}
    BY <1>1, <1>4
  <2> QED BY <2>1, LeastNumber
<1>6. ~HasWriter(i - 1)
  <2>1. CASE i = 1
    BY <2>1 DEF HasWriter
  <2>2. CASE i # 1
    <3>1. i - 1 \in Members /\ i - 1 \notin Runs /\ i - 1 # 0
      BY <2>2, <1>1, <1>5
    <3> QED BY <3>1 DEF HasWriter
  <2> QED BY <2>1, <2>2
<1>7. \A j \in Members : program[j] # "waiting" /\ ~MemberAble(j)
  BY DEF Able
<1>8. HasReader(i) /\ pipe[i] = Capacity
  BY <1>5, <1>6, <1>7, BlockedByWhatFollows
<1>9. i \in 0 .. N /\ N \in i .. N
  BY <1>1, <1>5
<1>10. pipe[N] = Capacity
  BY <1>7, <1>8, <1>9, FullToTheEnd
<1> QED BY <1>1, <1>2, <1>10

LEMMA StandsOnlyOnFullPipes == StandInv => StandstillOnlyOnFullPipes
<1> SUFFICES ASSUME StandInv, "waiting" \notin {program[i] : i \in Members}, ~Able
             PROVE  \/ spot \in {"done", "failed"}
                    \/ spot = "writing" /\ \A i \in 0 .. N : pipe[i] = Capacity
  BY DEF StandstillOnlyOnFullPipes
<1>1. \A i \in Members : program[i] # "waiting"
  OBVIOUS
<1>2. PipeTyped /\ Progress /\ N \in Nat /\ Members = 1 .. N
  BY DEF StandInv, PipeInv, PipeTyped, N, Members
<1>3. spot # "starting"
  BY <1>2 DEF Progress, Able, ShellAble
<1>4. spot # "reading"
  BY <1>1, NoStandstillInReading
<1>5. spot # "taking"
  <2> SUFFICES ASSUME spot = "taking" PROVE FALSE
    OBVIOUS
  <2>1. next \in 0 .. N + 1 /\ next < N
    BY <1>2 DEF PipeTyped, Progress
  <2>2. next >= 1 => member[next] \in {"running", "ended"}
    BY <1>2, <2>1 DEF PipeTyped, Progress
  <2> QED BY <2>2 DEF Able, ShellAble
<1>6. spot = "writing" => \A i \in 0 .. N : pipe[i] = Capacity
  BY <1>1, StandstillInWriting
<1> QED BY <1>2, <1>3, <1>4, <1>5, <1>6 DEF PipeTyped

\* For a pipeline of any length, with pipes of any size, whose programs all work
\* until they end: somebody can go on, member or shell, until the pipeline is
\* over, unless the shell writes a here-document and every pipe is full
\* (execute_external_pipeline_concurrently reads nothing before it has written).
THEOREM NoOtherStandstill == PipeSpec => []StandstillOnlyOnFullPipes
<1>1. PipeInit => WorkBounded
  BY SizesAssumption DEF PipeInit, WorkBounded
<1>2. PipeInv /\ WorkBounded /\ [PipeNext]_ppVars => WorkBounded'
  BY WorkStaysBounded
<1>3. PipeInv /\ WorkBounded => StandstillOnlyOnFullPipes
  BY StandsOnlyOnFullPipes DEF StandInv
<1> QED BY <1>1, <1>2, <1>3, PipeAlwaysAccounted, PTL DEF PipeSpec

=============================================================================
