-------------------------- MODULE ControlFlowProofs --------------------------
(***************************************************************************)
(* The counters of the executor are those of the constructs that run, for   *)
(* any script and any depth, and every jump has a place to land.  A shell    *)
(* that is entered remembers the counters of the shell around it, so that   *)
(* what it puts back is right is part of the invariant.                     *)
(***************************************************************************)
EXTENDS ControlFlow, OrderProofs, SequenceTheorems, TLAPS

ShellFrames == [kind : {"shell"}, phase : {"commands", "exit", "done"}, was : Locals]
Frames == Elements \cup ShellFrames

\* What is under place i of a stack.
Under(s, i) == [k \in 1 .. i - 1 |-> s[k]]

Counts(s, e) ==
  /\ e.loop_depth = Cardinality(LoopBodies(s))
  /\ e.function_depth = Cardinality(Functions(s))
  /\ e.suppress_errexit = Cardinality(Suppressors(s))
  /\ s # <<>> => e.subshell_depth + 1 = Cardinality(Shells(s))

\* A subshell puts back what counts around it.
SavedCounts(s) ==
  \A i \in Shells(s) : i > 1 =>
    /\ s[i].was.loop_depth = Cardinality(LoopBodies(Under(s, i)))
    /\ s[i].was.subshell_depth + 1 = Cardinality(Shells(Under(s, i)))

\* A jump on its way has the loops or the function to leave.
JumpHasPlace(s, r) ==
  /\ r.kind \in {"break", "continue"} => r.level <= Cardinality(LoopBodies(s))
  /\ r.kind = "return" => Functions(s) # {}

-------------------------------------------------------------------------------
(* Frames *)

Kinds7 == {"if", "and-or", "for", "function", "invert", "time", "group"}

LEMMA ElementCases ==
  ASSUME NEW el \in Elements
  PROVE  /\ el.kind \in Kinds7 \cup {"loop", "ERR", "EXIT"}
         /\ el.kind = "loop" => el.last \in Status
         /\ el.kind \in {"ERR", "EXIT"} => el.status \in Status /\ el.phase = "commands"
BY DEF Elements, Element, Loop, Handler, Status, Kinds7

LEMMA FrameCases ==
  ASSUME NEW el \in Frames
  PROVE  /\ el.kind = "shell" <=> el \in ShellFrames
         /\ el.kind # "shell" <=> el \in Elements
BY ElementCases DEF Frames, ShellFrames, Kinds7

\* A shell is none of what is counted but a shell.
LEMMA ShellNotCounted ==
  ASSUME NEW el, el.kind = "shell"
  PROVE  ~IsLoopBody(el) /\ ~Suppresses(el) /\ el.kind # "function"
BY DEF IsLoopBody, Suppresses

-------------------------------------------------------------------------------
(* What a push and a pop count *)

LEMMA SetsFinite ==
  ASSUME NEW s \in Seq(Frames)
  PROVE  /\ IsFiniteSet(Shells(s)) /\ IsFiniteSet(LoopBodies(s))
         /\ IsFiniteSet(Functions(s)) /\ IsFiniteSet(Suppressors(s))
<1>1. IsFiniteSet(1 .. Len(s))
  <2>1. 1 \in Int /\ Len(s) \in Int
    OBVIOUS
  <2> QED BY <2>1, FS_Interval
<1>2. /\ Shells(s) \subseteq 1 .. Len(s) /\ LoopBodies(s) \subseteq 1 .. Len(s)
      /\ Functions(s) \subseteq 1 .. Len(s) /\ Suppressors(s) \subseteq 1 .. Len(s)
  BY DEF Shells, LoopBodies, Functions, Suppressors
<1> QED BY <1>1, <1>2, FS_Subset

LEMMA CardsAreNats ==
  ASSUME NEW s \in Seq(Frames)
  PROVE  /\ Cardinality(Shells(s)) \in Nat /\ Cardinality(LoopBodies(s)) \in Nat
         /\ Cardinality(Functions(s)) \in Nat /\ Cardinality(Suppressors(s)) \in Nat
BY SetsFinite, FS_CardinalityType

One(b) == IF b THEN 1 ELSE 0

\* A set of places and, perhaps, one more.
LEMMA OneMore ==
  ASSUME NEW places, IsFiniteSet(places), NEW x, x \notin places, NEW b \in BOOLEAN
  PROVE  Cardinality(places \cup (IF b THEN {x} ELSE {})) = Cardinality(places) + One(b)
<1>1. CASE b
  BY <1>1, FS_AddElement DEF One
<1>2. CASE ~b
  <2>1. Cardinality(places) \in Nat /\ places \cup {} = places
    BY FS_CardinalityType
  <2> QED BY <1>2, <2>1 DEF One
<1> QED BY <1>1, <1>2

LEMMA PushSets ==
  ASSUME NEW s \in Seq(Frames), NEW el \in Frames
  PROVE  LET t == Append(s, el)
             More(b) == IF b THEN {Len(s) + 1} ELSE {}
         IN  /\ Shells(t) = Shells(s) \cup More(el.kind = "shell")
             /\ Functions(t) = Functions(s) \cup More(el.kind = "function")
             /\ Suppressors(t) = Suppressors(s) \cup More(Suppresses(el))
             /\ LoopBodies(t) = IF el.kind = "shell" THEN {}
                                ELSE LoopBodies(s) \cup More(IsLoopBody(el))
<1> DEFINE t == Append(s, el)
<1>1. /\ DOMAIN t = 1 .. Len(s) + 1 /\ DOMAIN s = 1 .. Len(s) /\ Len(s) \in Nat
      /\ t[Len(s) + 1] = el /\ \A i \in 1 .. Len(s) : t[i] = s[i]
  OBVIOUS
<1> HIDE DEF t
<1>2. Shells(t) = Shells(s) \cup (IF el.kind = "shell" THEN {Len(s) + 1} ELSE {})
  BY <1>1 DEF Shells
<1>3. Functions(t) = Functions(s) \cup (IF el.kind = "function" THEN {Len(s) + 1} ELSE {})
  BY <1>1 DEF Functions
<1>4. Suppressors(t) = Suppressors(s) \cup (IF Suppresses(el) THEN {Len(s) + 1} ELSE {})
  BY <1>1 DEF Suppressors
<1>5. ASSUME el.kind = "shell" PROVE LoopBodies(t) = {}
  <2>1. Len(s) + 1 \in Shells(t)
    BY <1>1, <1>5 DEF Shells
  <2>2. ~IsLoopBody(el)
    BY <1>5, ShellNotCounted
  <2> QED BY <1>1, <2>1, <2>2 DEF LoopBodies
<1>6. ASSUME el.kind # "shell"
      PROVE  LoopBodies(t) = LoopBodies(s) \cup (IF IsLoopBody(el) THEN {Len(s) + 1} ELSE {})
  <2>1. Shells(t) = Shells(s) /\ \A j \in Shells(s) : j \in 1 .. Len(s)
    BY <1>1, <1>2, <1>6 DEF Shells
  <2>2. \A j \in Shells(s) : j < Len(s) + 1
    BY <1>1, <2>1
  <2> QED BY <1>1, <2>1, <2>2 DEF LoopBodies
<1> QED BY <1>2, <1>3, <1>4, <1>5, <1>6 DEF t

LEMMA PushCounts ==
  ASSUME NEW s \in Seq(Frames), NEW el \in Frames
  PROVE  LET t == Append(s, el)
         IN  /\ Cardinality(Shells(t)) = Cardinality(Shells(s)) + One(el.kind = "shell")
             /\ Cardinality(Functions(t)) = Cardinality(Functions(s)) + One(el.kind = "function")
             /\ Cardinality(Suppressors(t)) = Cardinality(Suppressors(s)) + One(Suppresses(el))
             /\ Cardinality(LoopBodies(t)) = IF el.kind = "shell" THEN 0
                  ELSE Cardinality(LoopBodies(s)) + One(IsLoopBody(el))
<1> DEFINE n == Len(s) + 1
<1>1. n \notin Shells(s) /\ n \notin Functions(s) /\ n \notin Suppressors(s) /\ n \notin LoopBodies(s)
  BY DEF Shells, Functions, Suppressors, LoopBodies
<1> DEFINE t == Append(s, el)
<1>2. /\ Shells(t) = Shells(s) \cup (IF el.kind = "shell" THEN {n} ELSE {})
      /\ Functions(t) = Functions(s) \cup (IF el.kind = "function" THEN {n} ELSE {})
      /\ Suppressors(t) = Suppressors(s) \cup (IF Suppresses(el) THEN {n} ELSE {})
      /\ LoopBodies(t) = IF el.kind = "shell" THEN {}
                         ELSE LoopBodies(s) \cup (IF IsLoopBody(el) THEN {n} ELSE {})
  BY PushSets
<1> HIDE DEF n, t
<1>3. (el.kind = "shell") \in BOOLEAN /\ (el.kind = "function") \in BOOLEAN
      /\ Suppresses(el) \in BOOLEAN /\ IsLoopBody(el) \in BOOLEAN
  BY DEF Suppresses, IsLoopBody
<1>4. Cardinality(Shells(t)) = Cardinality(Shells(s)) + One(el.kind = "shell")
  <2>1. Cardinality(Shells(s) \cup (IF el.kind = "shell" THEN {n} ELSE {}))
          = Cardinality(Shells(s)) + One(el.kind = "shell")
    BY <1>1, <1>3, SetsFinite, OneMore, Zenon
  <2> QED BY <1>2, <2>1
<1>5. Cardinality(Functions(t)) = Cardinality(Functions(s)) + One(el.kind = "function")
  <2>1. Cardinality(Functions(s) \cup (IF el.kind = "function" THEN {n} ELSE {}))
          = Cardinality(Functions(s)) + One(el.kind = "function")
    BY <1>1, <1>3, SetsFinite, OneMore, Zenon
  <2> QED BY <1>2, <2>1
<1>6. Cardinality(Suppressors(t)) = Cardinality(Suppressors(s)) + One(Suppresses(el))
  <2>1. Cardinality(Suppressors(s) \cup (IF Suppresses(el) THEN {n} ELSE {}))
          = Cardinality(Suppressors(s)) + One(Suppresses(el))
    BY <1>1, <1>3, SetsFinite, OneMore, Zenon
  <2> QED BY <1>2, <2>1
<1>7. ASSUME el.kind # "shell"
      PROVE  Cardinality(LoopBodies(t)) = Cardinality(LoopBodies(s)) + One(IsLoopBody(el))
  <2>1. LoopBodies(t) = LoopBodies(s) \cup (IF IsLoopBody(el) THEN {n} ELSE {})
    BY <1>2, <1>7
  <2> QED BY <1>1, <2>1, <1>3, SetsFinite, OneMore
<1>8. el.kind = "shell" => Cardinality(LoopBodies(t)) = 0
  BY <1>2, FS_EmptySet
<1> QED BY <1>4, <1>5, <1>6, <1>7, <1>8 DEF t

LEMMA PopIsPush ==
  ASSUME NEW s \in Seq(Frames), s # <<>>
  PROVE  /\ Front(s) \in Seq(Frames) /\ Last(s) \in Frames
         /\ s = Append(Front(s), Last(s)) /\ Len(Front(s)) = Len(s) - 1
         /\ Front(s) # <<>> => s[1] = Front(s)[1]
<1>1. Len(s) \in Nat \ {0}
  OBVIOUS
<1>2. Front(s) \in Seq(Frames) /\ Last(s) \in Frames /\ Len(Front(s)) = Len(s) - 1
      /\ \A i \in 1 .. Len(s) - 1 : Front(s)[i] = s[i]
  BY <1>1 DEF Front, Last
<1>3. s = Append(Front(s), Last(s))
  BY <1>1, <1>2 DEF Last
<1>4. Front(s) # <<>> => s[1] = Front(s)[1]
  BY <1>1, <1>2
<1> QED BY <1>2, <1>3, <1>4

\* What shells put back is what counted where they were entered.
LEMMA SavedPush ==
  ASSUME NEW s \in Seq(Frames), NEW el \in Frames
  PROVE  SavedCounts(Append(s, el)) <=>
           /\ SavedCounts(s)
           /\ el.kind = "shell" /\ s # <<>> =>
                /\ el.was.loop_depth = Cardinality(LoopBodies(s))
                /\ el.was.subshell_depth + 1 = Cardinality(Shells(s))
<1> DEFINE t == Append(s, el)
<1>1. /\ DOMAIN s = 1 .. Len(s) /\ Len(s) \in Nat
      /\ t[Len(s) + 1] = el /\ \A i \in 1 .. Len(s) : t[i] = s[i]
  OBVIOUS
<1>2. \A i \in 1 .. Len(s) : Under(t, i) = Under(s, i)
  BY <1>1 DEF Under
<1>3. Under(t, Len(s) + 1) = s
  BY <1>1 DEF Under
<1>4. Shells(t) = Shells(s) \cup (IF el.kind = "shell" THEN {Len(s) + 1} ELSE {})
  BY PushSets
<1>5. s # <<>> <=> Len(s) + 1 > 1
  OBVIOUS
<1>6. Shells(s) \subseteq 1 .. Len(s)
  BY DEF Shells
<1> DEFINE Right(i, was, u) == i > 1 => /\ was.loop_depth = Cardinality(LoopBodies(u))
                                        /\ was.subshell_depth + 1 = Cardinality(Shells(u))
<1>7. \A i \in Shells(s) : Right(i, t[i].was, Under(t, i)) <=> Right(i, s[i].was, Under(s, i))
  BY <1>1, <1>2, <1>6
<1>8. el.kind = "shell" =>
        (Right(Len(s) + 1, t[Len(s) + 1].was, Under(t, Len(s) + 1))
           <=> (s # <<>> => /\ el.was.loop_depth = Cardinality(LoopBodies(s))
                            /\ el.was.subshell_depth + 1 = Cardinality(Shells(s))))
  BY <1>1, <1>3, <1>5
<1>9. SavedCounts(t) <=> \A i \in Shells(t) : Right(i, t[i].was, Under(t, i))
  BY DEF SavedCounts
<1>10. SavedCounts(s) <=> \A i \in Shells(s) : Right(i, s[i].was, Under(s, i))
  BY DEF SavedCounts
<1> HIDE DEF Right, t
<1> QED BY <1>4, <1>7, <1>8, <1>9, <1>10 DEF t

CountsRight(s, e) == Counts(s, e) /\ SavedCounts(s)

LEMMA ElementsAreNoShells ==
  ASSUME NEW el \in Elements
  PROVE  el \in Frames /\ el.kind # "shell"
BY FrameCases DEF Frames

LEMMA PushKeeps ==
  ASSUME NEW s \in Seq(Frames), s # <<>>, NEW el \in Elements, NEW e \in Executor,
         CountsRight(s, e)
  PROVE  CountsRight(Append(s, el), Counted(e, el))
<1> DEFINE t == Append(s, el)
<1>1. el \in Frames /\ el.kind # "shell"
  BY ElementsAreNoShells
<1>2. /\ Cardinality(Shells(t)) = Cardinality(Shells(s)) + One(el.kind = "shell")
      /\ Cardinality(Functions(t)) = Cardinality(Functions(s)) + One(el.kind = "function")
      /\ Cardinality(Suppressors(t)) = Cardinality(Suppressors(s)) + One(Suppresses(el))
      /\ Cardinality(LoopBodies(t)) = Cardinality(LoopBodies(s)) + One(IsLoopBody(el))
  BY <1>1, PushCounts
<1>3. SavedCounts(t)
  BY <1>1, SavedPush DEF CountsRight
<1>4. t # <<>>
  OBVIOUS
<1> HIDE DEF t
<1> DEFINE f == Counted(e, el)
<1>5. /\ f.loop_depth = e.loop_depth + One(IsLoopBody(el))
      /\ f.function_depth = e.function_depth + One(el.kind = "function")
      /\ f.suppress_errexit = e.suppress_errexit + One(Suppresses(el))
      /\ f.subshell_depth = e.subshell_depth
  BY DEF Counted, One, Plus1, Executor
<1>6. Counts(s, e)
  BY DEF CountsRight
<1> HIDE DEF f
<1>7. Counts(t, f)
  <2>1. /\ f.loop_depth = Cardinality(LoopBodies(t))
        /\ f.function_depth = Cardinality(Functions(t))
        /\ f.suppress_errexit = Cardinality(Suppressors(t))
    BY <1>2, <1>5, <1>6 DEF Counts
  <2>2. f.subshell_depth + 1 = Cardinality(Shells(t))
    BY <1>1, <1>2, <1>5, <1>6, CardsAreNats DEF Counts, One
  <2> QED BY <2>1, <2>2 DEF Counts
<1> QED BY <1>3, <1>7 DEF CountsRight, t, f

LEMMA PopKeeps ==
  ASSUME NEW s \in Seq(Frames), s # <<>>, NEW el \in Elements, NEW e \in Executor,
         CountsRight(Append(s, el), e)
  PROVE  CountsRight(s, Uncounted(e, el))
<1> DEFINE t == Append(s, el)
<1>1. el \in Frames /\ el.kind # "shell"
  BY ElementsAreNoShells
<1>2. /\ Cardinality(Shells(t)) = Cardinality(Shells(s)) + One(el.kind = "shell")
      /\ Cardinality(Functions(t)) = Cardinality(Functions(s)) + One(el.kind = "function")
      /\ Cardinality(Suppressors(t)) = Cardinality(Suppressors(s)) + One(Suppresses(el))
      /\ Cardinality(LoopBodies(t)) = Cardinality(LoopBodies(s)) + One(IsLoopBody(el))
  BY <1>1, PushCounts
<1>3. SavedCounts(s)
  BY <1>1, SavedPush DEF CountsRight
<1>4. t # <<>> /\ Counts(t, e)
  BY DEF CountsRight
<1> HIDE DEF t
<1> DEFINE f == Uncounted(e, el)
<1>5. /\ f.loop_depth = IF IsLoopBody(el) THEN Minus1(e.loop_depth) ELSE e.loop_depth
      /\ f.function_depth = IF el.kind = "function" THEN Minus1(e.function_depth)
                            ELSE e.function_depth
      /\ f.suppress_errexit = IF Suppresses(el) THEN Minus1(e.suppress_errexit)
                              ELSE e.suppress_errexit
      /\ f.subshell_depth = e.subshell_depth
  BY DEF Uncounted, Executor
<1> HIDE DEF f
<1>6. /\ f.loop_depth = Cardinality(LoopBodies(s))
      /\ f.function_depth = Cardinality(Functions(s))
      /\ f.suppress_errexit = Cardinality(Suppressors(s))
  BY <1>2, <1>4, <1>5, CardsAreNats DEF Counts, One, Minus1
<1>7. f.subshell_depth + 1 = Cardinality(Shells(s))
  BY <1>1, <1>2, <1>4, <1>5, CardsAreNats DEF Counts, One
<1>8. Counts(s, f)
  BY <1>6, <1>7 DEF Counts
<1> QED BY <1>3, <1>8 DEF CountsRight, f

LEMMA ShellPush ==
  ASSUME NEW s \in Seq(Frames), s # <<>>, NEW e \in Executor, CountsRight(s, e),
         NEW phase \in {"commands", "exit", "done"}
  PROVE  CountsRight(Append(s, Shell(phase, Saved(e))), InSubshell(e))
<1> DEFINE el == Shell(phase, Saved(e))
           t == Append(s, el)
<1>1. el \in Frames /\ el.kind = "shell" /\ el.was = Saved(e)
  BY DEF Frames, ShellFrames, Shell, Saved, Locals, Executor
<1>2. ~IsLoopBody(el) /\ ~Suppresses(el) /\ el.kind # "function"
  BY <1>1, ShellNotCounted
<1> HIDE DEF el
<1>3. /\ Cardinality(Shells(t)) = Cardinality(Shells(s)) + One(el.kind = "shell")
      /\ Cardinality(Functions(t)) = Cardinality(Functions(s)) + One(el.kind = "function")
      /\ Cardinality(Suppressors(t)) = Cardinality(Suppressors(s)) + One(Suppresses(el))
      /\ Cardinality(LoopBodies(t)) = 0
  BY <1>1, PushCounts
<1>4. SavedCounts(t)
  BY <1>1, SavedPush DEF CountsRight, Counts, Saved
<1>5. Counts(t, InSubshell(e))
  BY <1>1, <1>2, <1>3, CardsAreNats DEF CountsRight, Counts, InSubshell, One, Plus1, Executor
<1> QED BY <1>4, <1>5 DEF CountsRight, el

LEMMA ShellPop ==
  ASSUME NEW s \in Seq(Frames), s # <<>>, NEW el \in ShellFrames, NEW e \in Executor,
         CountsRight(Append(s, el), e)
  PROVE  CountsRight(s, Restored(e, el.was))
<1> DEFINE t == Append(s, el)
<1>1. el \in Frames /\ el.kind = "shell"
  BY DEF Frames, ShellFrames
<1>2. ~IsLoopBody(el) /\ ~Suppresses(el) /\ el.kind # "function"
  BY <1>1, ShellNotCounted
<1>3. /\ Cardinality(Functions(t)) = Cardinality(Functions(s)) + One(el.kind = "function")
      /\ Cardinality(Suppressors(t)) = Cardinality(Suppressors(s)) + One(Suppresses(el))
  BY <1>1, PushCounts
<1>4. /\ SavedCounts(s) /\ el.was.loop_depth = Cardinality(LoopBodies(s))
      /\ el.was.subshell_depth + 1 = Cardinality(Shells(s))
  BY <1>1, SavedPush DEF CountsRight
<1>5. Counts(s, Restored(e, el.was))
  BY <1>2, <1>3, <1>4, CardsAreNats DEF CountsRight, Counts, Restored, One, Executor
<1> QED BY <1>4, <1>5 DEF CountsRight

\* A shell that ends its commands, and one that has run its EXIT handler.
LEMMA ShellTurns ==
  ASSUME NEW s \in Seq(Frames), NEW el \in ShellFrames, NEW e \in Executor,
         CountsRight(Append(s, el), e), NEW phase \in {"commands", "exit", "done"}
  PROVE  CountsRight(Append(s, Shell(phase, el.was)), e)
<1> DEFINE sh == Shell(phase, el.was)
           t == Append(s, el)
           u == Append(s, sh)
<1>1. /\ el \in Frames /\ el.kind = "shell"
      /\ sh \in Frames /\ sh.kind = "shell" /\ sh.was = el.was
  BY DEF Frames, ShellFrames, Shell
<1>2. /\ ~IsLoopBody(el) /\ ~Suppresses(el) /\ el.kind # "function"
      /\ ~IsLoopBody(sh) /\ ~Suppresses(sh) /\ sh.kind # "function"
  BY <1>1, ShellNotCounted
<1> HIDE DEF sh
<1>3. /\ Cardinality(Shells(t)) = Cardinality(Shells(s)) + One(el.kind = "shell")
      /\ Cardinality(Functions(t)) = Cardinality(Functions(s)) + One(el.kind = "function")
      /\ Cardinality(Suppressors(t)) = Cardinality(Suppressors(s)) + One(Suppresses(el))
      /\ Cardinality(LoopBodies(t)) = 0
  BY <1>1, PushCounts
<1>4. /\ Cardinality(Shells(u)) = Cardinality(Shells(s)) + One(sh.kind = "shell")
      /\ Cardinality(Functions(u)) = Cardinality(Functions(s)) + One(sh.kind = "function")
      /\ Cardinality(Suppressors(u)) = Cardinality(Suppressors(s)) + One(Suppresses(sh))
      /\ Cardinality(LoopBodies(u)) = 0
  BY <1>1, PushCounts
<1>5. SavedCounts(u)
  BY <1>1, SavedPush DEF CountsRight
<1>6. Counts(u, e)
  <2>1. t # <<>> /\ u # <<>>
    BY <1>1
  <2> QED BY <1>1, <1>2, <1>3, <1>4, <2>1 DEF CountsRight, Counts, One
<1> QED BY <1>5, <1>6, Zenon DEF CountsRight, sh

\* The shell's own frame counts nothing.
LEMMA EmptyCounts ==
  ASSUME NEW el \in ShellFrames, NEW e \in Executor, CountsRight(Append(<<>>, el), e)
  PROVE  CountsRight(<<>>, e)
<1> DEFINE t == Append(<<>>, el)
<1>1. /\ <<>> \in Seq(Frames) /\ el \in Frames /\ el.kind = "shell"
  BY DEF Frames, ShellFrames
<1>2. ~IsLoopBody(el) /\ ~Suppresses(el) /\ el.kind # "function"
  BY <1>1, ShellNotCounted
<1>3. /\ Cardinality(Functions(t)) = Cardinality(Functions(<<>>)) + One(el.kind = "function")
      /\ Cardinality(Suppressors(t)) = Cardinality(Suppressors(<<>>)) + One(Suppresses(el))
      /\ Cardinality(LoopBodies(t)) = 0
  BY <1>1, PushCounts
<1>4. Cardinality(LoopBodies(<<>>)) = 0
  <2>1. LoopBodies(<<>>) = {}
    BY DEF LoopBodies
  <2> QED BY <2>1, FS_EmptySet
<1>5. /\ Cardinality(Functions(<<>>)) \in Nat /\ Cardinality(Suppressors(<<>>)) \in Nat
  BY <1>1, CardsAreNats
<1>6. SavedCounts(<<>>)
  BY DEF SavedCounts, Shells
<1> QED BY <1>2, <1>3, <1>4, <1>5, <1>6 DEF CountsRight, Counts, One

LEMMA SameCountsKeep ==
  ASSUME NEW s, NEW e, NEW f, CountsRight(s, e),
         f.loop_depth = e.loop_depth, f.function_depth = e.function_depth,
         f.suppress_errexit = e.suppress_errexit, f.subshell_depth = e.subshell_depth
  PROVE  CountsRight(s, f)
BY DEF CountsRight, Counts

-------------------------------------------------------------------------------
(* The inductive invariant.  A subshell's redirection that fails leaves      *)
(* loop_depth at 0 and subshell_depth one too high, and nothing is said of   *)
(* the counters of a script that has one.                                    *)

StateSound(s, e) ==
  /\ s \in Seq(Frames) /\ e \in Executor
  /\ s # <<>> => s[1].kind = "shell"
  /\ Does("redirect-fails") \/ CountsRight(s, e)

JumpSound(s, r) ==
  /\ r \in Results
  /\ s = <<>> => r = Running
  /\ Does("redirect-fails") \/ JumpHasPlace(s, r)

CfInv ==
  /\ StateSound(stack, ex) /\ JumpSound(stack, result)
  /\ features \in Scripts /\ leaving \subseteq Shells(stack)

\* What a step has to show.
SoundAfter == StateSound(stack', ex') /\ JumpSound(stack', result')

LEMMA StatusValues == 0 \in Status /\ 1 \in Status
BY DEF Status

LEMMA ResultCases ==
  ASSUME NEW r \in Results
  PROVE  /\ r.kind \in {"running", "ok", "exit", "return", "break", "continue"}
         /\ r.kind \in {"exit", "return"} => r.status \in Status
         /\ r.kind \in {"break", "continue"} => r.level \in 1 .. MaxLevel /\ r = Jump(r.kind, r.level)
BY DEF Results, Running, Ok, ExitCode, Return, Jump

LEMMA CalmResults ==
  /\ Running \in Results /\ Running.kind = "running"
  /\ \A c \in BOOLEAN : Ok(c) \in Results /\ Ok(c).kind = "ok"
  /\ \A s \in Status : ExitCode(s) \in Results /\ ExitCode(s).kind = "exit"
  /\ \A s \in Status : Return(s) \in Results /\ Return(s).kind = "return"
<1>1. /\ Running \in Results
      /\ \A c \in BOOLEAN : Ok(c) \in Results
      /\ \A s \in Status : ExitCode(s) \in Results
      /\ \A s \in Status : Return(s) \in Results
  BY DEF Results
<1>2. /\ Running.kind = "running"
      /\ \A c : Ok(c).kind = "ok"
      /\ \A s : ExitCode(s).kind = "exit"
      /\ \A s : Return(s).kind = "return"
  BY DEF Running, Ok, ExitCode, Return
<1> QED BY <1>1, <1>2

\* What is no jump needs no place.
LEMMA CalmJump ==
  ASSUME NEW s, s # <<>>, NEW r \in Results, r.kind \notin {"return", "break", "continue"}
  PROVE  JumpSound(s, r)
BY DEF JumpSound, JumpHasPlace

LEMMA GoesSound ==
  ASSUME NEW s, NEW e, NEW r, StateSound(s, e), JumpSound(s, r), Goes(s, e, r)
  PROVE  SoundAfter
BY DEF Goes, SoundAfter

LEMMA GivesSound ==
  ASSUME NEW s, NEW e, NEW r, s # <<>>, StateSound(s, e), JumpSound(s, r), Gives(s, e, r)
  PROVE  SoundAfter
<1>1. e.exit_code \in Status
  BY DEF StateSound, Executor
<1>2. JumpSound(s, ExitCode(e.exit_code))
  BY <1>1, CalmResults, CalmJump
<1> QED BY <1>2 DEF Gives, Goes, SoundAfter

\* Another status, option or set of traps counts nothing.
LEMMA SameSound ==
  ASSUME NEW s, NEW e, NEW f \in Executor, StateSound(s, e),
         f.loop_depth = e.loop_depth, f.function_depth = e.function_depth,
         f.suppress_errexit = e.suppress_errexit, f.subshell_depth = e.subshell_depth
  PROVE  StateSound(s, f)
BY SameCountsKeep DEF StateSound

LEMMA StatusSound ==
  ASSUME NEW s, NEW e, StateSound(s, e), NEW x \in Status
  PROVE  StateSound(s, [e EXCEPT !.exit_code = x])
<1>1. e \in Executor
  BY DEF StateSound
<1> DEFINE f == [e EXCEPT !.exit_code = x]
<1>2. /\ f \in Executor
      /\ f.loop_depth = e.loop_depth /\ f.function_depth = e.function_depth
      /\ f.suppress_errexit = e.suppress_errexit /\ f.subshell_depth = e.subshell_depth
  BY <1>1 DEF Executor
<1> HIDE DEF f
<1>3. StateSound(s, f)
  BY <1>2, SameSound
<1> QED BY <1>3 DEF f

LEMMA HandsOnSound ==
  ASSUME NEW s, NEW e, NEW r, NEW arm, s # <<>>, StateSound(s, e), JumpSound(s, r),
         HandsOn(s, e, r, arm)
  PROVE  SoundAfter
<1>1. StateSound(s, [e EXCEPT !.exit_code = 0])
  BY StatusSound, StatusValues, Zenon
<1>2. JumpSound(s, Ok(FALSE))
  BY CalmResults, CalmJump
<1> QED BY <1>1, <1>2, GoesSound DEF HandsOn

LEMMA CountedTyped ==
  ASSUME NEW e \in Executor, NEW el
  PROVE  Counted(e, el) \in Executor /\ Uncounted(e, el) \in Executor
<1>1. \A n \in Nat : Plus1(n) \in Nat /\ Minus1(n) \in Nat
  BY UsizeAssumption DEF Plus1, Minus1
<1> QED BY <1>1 DEF Counted, Uncounted, Executor

LEMMA PushSound ==
  ASSUME NEW s, NEW e, s # <<>>, StateSound(s, e), NEW el \in Elements
  PROVE  StateSound(Append(s, el), Counted(e, el)) /\ Append(s, el) # <<>>
<1>1. s \in Seq(Frames) /\ e \in Executor /\ s[1].kind = "shell" /\ el \in Frames
  BY ElementsAreNoShells DEF StateSound
<1>2. Append(s, el) \in Seq(Frames) /\ Append(s, el)[1] = s[1] /\ Append(s, el) # <<>>
  BY <1>1
<1>3. CountsRight(s, e) => CountsRight(Append(s, el), Counted(e, el))
  BY <1>1, PushKeeps
<1> QED BY <1>1, <1>2, <1>3, CountedTyped DEF StateSound

LEMMA PopSound ==
  ASSUME NEW s, NEW e, s # <<>>, StateSound(s, e), Last(s).kind # "shell"
  PROVE  /\ StateSound(Front(s), Uncounted(e, Last(s))) /\ Front(s) # <<>>
         /\ Last(s) \in Elements /\ Front(s) \in Seq(Frames)
<1>1. s \in Seq(Frames) /\ e \in Executor /\ s[1].kind = "shell"
  BY DEF StateSound
<1>2. /\ Front(s) \in Seq(Frames) /\ Last(s) \in Elements
      /\ s = Append(Front(s), Last(s)) /\ Len(Front(s)) = Len(s) - 1
      /\ Front(s) # <<>> => s[1] = Front(s)[1]
  BY <1>1, PopIsPush, FrameCases
<1>3. Front(s) # <<>>
  <2>1. Len(s) \in Nat \ {0} /\ Last(s) = s[Len(s)]
    BY <1>1 DEF Last
  <2>2. Len(s) # 1
    BY <1>1, <2>1
  <2> QED BY <1>2, <2>1, <2>2
<1>4. CountsRight(s, e) => CountsRight(Front(s), Uncounted(e, Last(s)))
  BY <1>1, <1>2, <1>3, PopKeeps
<1> QED BY <1>1, <1>2, <1>3, <1>4, CountedTyped DEF StateSound

LEMMA EnterSound ==
  ASSUME NEW s, NEW e, s # <<>>, StateSound(s, e)
  PROVE  /\ StateSound(Append(s, Shell("commands", Saved(e))), InSubshell(e))
         /\ Append(s, Shell("commands", Saved(e))) # <<>>
<1> DEFINE el == Shell("commands", Saved(e))
<1>1. s \in Seq(Frames) /\ e \in Executor /\ s[1].kind = "shell"
  BY DEF StateSound
<1>2. el \in Frames
  BY <1>1 DEF Frames, ShellFrames, Shell, Saved, Locals, Executor
<1>3. CountsRight(s, e) => CountsRight(Append(s, el), InSubshell(e))
  BY <1>1, ShellPush
<1>4. InSubshell(e) \in Executor
  <2>1. e.subshell_depth + 1 \in Nat /\ 0 \in Nat /\ {} \in SUBSET {"ERR", "EXIT"}
    BY <1>1 DEF Executor
  <2>2. [e EXCEPT !.subshell_depth = e.subshell_depth + 1] \in Executor
    BY <1>1, <2>1 DEF Executor
  <2>3. \A f \in Executor : [f EXCEPT !.loop_depth = 0] \in Executor
    BY DEF Executor
  <2>4. \A f \in Executor : [f EXCEPT !.traps = {}] \in Executor
    BY DEF Executor
  <2> QED BY <2>2, <2>3, <2>4 DEF InSubshell, Plus1
<1> HIDE DEF el
<1>5. Append(s, el) \in Seq(Frames) /\ Append(s, el)[1] = s[1] /\ Append(s, el) # <<>>
  BY <1>1, <1>2
<1> QED BY <1>1, <1>3, <1>4, <1>5 DEF StateSound, el

LEMMA ShellBelow ==
  ASSUME NEW s, NEW e, s # <<>>, StateSound(s, e), Last(s).kind = "shell"
  PROVE  /\ s \in Seq(Frames) /\ e \in Executor
         /\ Front(s) \in Seq(Frames) /\ Last(s) \in ShellFrames
         /\ s = Append(Front(s), Last(s)) /\ Len(Front(s)) = Len(s) - 1
         /\ Front(s) # <<>> => Front(s)[1].kind = "shell"
         /\ Front(s) # <<>> <=> Len(s) > 1
<1>1. s \in Seq(Frames) /\ e \in Executor /\ s[1].kind = "shell"
  BY DEF StateSound
<1>2. /\ Front(s) \in Seq(Frames) /\ Last(s) \in ShellFrames
      /\ s = Append(Front(s), Last(s)) /\ Len(Front(s)) = Len(s) - 1
      /\ Front(s) # <<>> => s[1] = Front(s)[1]
  BY <1>1, PopIsPush, FrameCases
<1>3. Front(s) # <<>> <=> Len(Front(s)) > 0
  BY <1>2
<1>4. Len(s) \in Nat
  BY <1>1
<1> QED BY <1>1, <1>2, <1>3, <1>4

LEMMA LeaveSound ==
  ASSUME NEW s, NEW e, Len(s) > 1, s # <<>>, StateSound(s, e), Last(s).kind = "shell"
  PROVE  StateSound(Front(s), Restored(e, Last(s).was)) /\ Front(s) # <<>>
<1>1. /\ s \in Seq(Frames) /\ e \in Executor
      /\ Front(s) \in Seq(Frames) /\ Last(s) \in ShellFrames
      /\ s = Append(Front(s), Last(s)) /\ Front(s) # <<>> /\ Front(s)[1].kind = "shell"
  BY ShellBelow
<1>2. CountsRight(s, e) => CountsRight(Front(s), Restored(e, Last(s).was))
  BY <1>1, ShellPop
<1>3. Restored(e, Last(s).was) \in Executor
  BY <1>1 DEF Restored, Executor, ShellFrames, Locals
<1> QED BY <1>1, <1>2, <1>3 DEF StateSound

LEMMA TurnSound ==
  ASSUME NEW s, NEW e, s # <<>>, StateSound(s, e), Last(s).kind = "shell",
         NEW phase \in {"commands", "exit", "done"}
  PROVE  /\ StateSound(Append(Front(s), Shell(phase, Last(s).was)), e)
         /\ Append(Front(s), Shell(phase, Last(s).was)) # <<>>
<1> DEFINE f == Front(s)
           sh == Shell(phase, Last(s).was)
<1>1. /\ s \in Seq(Frames) /\ e \in Executor
      /\ f \in Seq(Frames) /\ Last(s) \in ShellFrames
      /\ s = Append(f, Last(s)) /\ (f # <<>> => f[1].kind = "shell")
  BY ShellBelow
<1>2. CountsRight(s, e) => CountsRight(Append(f, sh), e)
  BY <1>1, ShellTurns
<1>3. sh \in Frames /\ sh.kind = "shell"
  BY <1>1 DEF Frames, ShellFrames, Shell
<1> HIDE DEF f, sh
<1>4. /\ Append(f, sh) \in Seq(Frames) /\ Append(f, sh) # <<>>
      /\ Append(f, sh)[1].kind = "shell"
  BY <1>1, <1>3
<1> QED BY <1>1, <1>2, <1>4 DEF StateSound, f, sh

-------------------------------------------------------------------------------
(* Moves of the invariant's states *)

LEMMA InvFacts ==
  ASSUME CfInv
  PROVE  /\ StateSound(stack, ex) /\ JumpSound(stack, result)
         /\ stack \in Seq(Frames) /\ ex \in Executor /\ result \in Results
         /\ ex.exit_code \in Status /\ ex.loop_depth \in Nat
         /\ Running \in Results /\ Ok(TRUE) \in Results /\ Ok(FALSE) \in Results
BY CalmResults DEF CfInv, StateSound, JumpSound, Executor

\* Goes, to where no jump is on its way.
LEMMA CalmGoes ==
  ASSUME NEW s, NEW e, NEW r \in Results, s # <<>>, StateSound(s, e),
         r.kind \notin {"return", "break", "continue"}, Goes(s, e, r)
  PROVE  SoundAfter
BY CalmJump, GoesSound

LEMMA CalmGives ==
  ASSUME NEW s, NEW e, NEW r \in Results, s # <<>>, StateSound(s, e),
         r.kind \notin {"return", "break", "continue"}, Gives(s, e, r)
  PROVE  SoundAfter
BY CalmJump, GivesSound

LEMMA GoesOn ==
  ASSUME NEW s, NEW e, s # <<>>, StateSound(s, e), Goes(s, e, Running)
  PROVE  SoundAfter
BY CalmResults, CalmGoes

LEMMA GoesOk ==
  ASSUME NEW s, NEW e, NEW c \in BOOLEAN, s # <<>>, StateSound(s, e), Goes(s, e, Ok(c))
  PROVE  SoundAfter
BY CalmResults, CalmGoes

LEMMA GivesExit ==
  ASSUME NEW s, NEW e, NEW x \in Status, s # <<>>, StateSound(s, e), Gives(s, e, ExitCode(x))
  PROVE  SoundAfter
BY CalmResults, CalmGives

Plain(el) == ~IsLoopBody(el) /\ ~Suppresses(el) /\ el.kind # "function"

LEMMA PlainCounts ==
  ASSUME NEW e \in Executor, NEW el, Plain(el)
  PROVE  Counted(e, el) = e /\ Uncounted(e, el) = e
BY DEF Counted, Uncounted, Executor, Plain

LEMMA HandlerPush ==
  ASSUME NEW s, NEW e, s # <<>>, StateSound(s, e), NEW x \in Status,
         NEW el \in {Handler("ERR", 1, "list"), Handler("EXIT", x, "exit"), Handler("EXIT", x, "shell")}
  PROVE  StateSound(Append(s, el), e) /\ Append(s, el) # <<>>
<1>1. el \in Elements
  BY DEF Elements
<1>2. Plain(el)
  BY DEF Handler, Plain, IsLoopBody, Suppresses
<1>3. e \in Executor
  BY DEF StateSound
<1>4. Counted(e, el) = e
  BY <1>2, <1>3, PlainCounts
<1>5. StateSound(Append(s, el), Counted(e, el)) /\ Append(s, el) # <<>>
  BY <1>1, PushSound
<1> QED BY <1>4, <1>5

\* The construct on top ends.
LEMMA Pops ==
  ASSUME CfInv, stack # <<>>, Top.kind # "shell"
  PROVE  /\ StateSound(Below, Uncounted(ex, Top)) /\ Below # <<>> /\ Top \in Elements
         /\ Below \in Seq(Frames)
         /\ \A x \in Status : StateSound(Below, AtStatus(x))
         /\ Plain(Top) => StateSound(Below, ex)
<1>1. /\ StateSound(Below, Uncounted(ex, Top)) /\ Below # <<>> /\ Top \in Elements
      /\ Below \in Seq(Frames)
  BY InvFacts, PopSound DEF Top, Below
<1>2. \A x \in Status : StateSound(Below, AtStatus(x))
  BY <1>1, StatusSound DEF AtStatus
<1>3. Plain(Top) => StateSound(Below, ex)
  BY <1>1, InvFacts, PlainCounts
<1> QED BY <1>1, <1>2, <1>3

\* It goes on with its next list.
LEMMA PhaseSound ==
  ASSUME CfInv, stack # <<>>, Top.kind # "shell", NEW el \in Elements, Phase(el)
  PROVE  SoundAfter
<1>1. StateSound(Below, Uncounted(ex, Top)) /\ Below # <<>>
  BY Pops
<1>2. StateSound(Append(Below, el), Counted(Uncounted(ex, Top), el)) /\ Append(Below, el) # <<>>
  BY <1>1, PushSound
<1> QED BY <1>2, GoesOn DEF Phase

-------------------------------------------------------------------------------
(* Simple commands *)

LEMMA SimpleSound ==
  ASSUME CfInv, NEW s \in Status, Simple(s)
  PROVE  SoundAfter
<1>1. stack # <<>> /\ Goes(stack, [ex EXCEPT !.exit_code = s], Ok(TRUE))
  BY DEF Simple, InCommands
<1>2. StateSound(stack, [ex EXCEPT !.exit_code = s])
  BY InvFacts, StatusSound
<1> QED BY <1>1, <1>2, GoesOk

LEMMA SetErrexitSound ==
  ASSUME CfInv, NEW on \in BOOLEAN, SetErrexit(on)
  PROVE  SoundAfter
<1> DEFINE f == [ex EXCEPT !.exit_code = 0, !.errexit = on]
<1>1. stack # <<>> /\ Goes(stack, f, Ok(TRUE))
  BY DEF SetErrexit, InCommands
<1>2. /\ f \in Executor
      /\ f.loop_depth = ex.loop_depth /\ f.function_depth = ex.function_depth
      /\ f.suppress_errexit = ex.suppress_errexit /\ f.subshell_depth = ex.subshell_depth
  BY InvFacts, StatusValues DEF Executor
<1> HIDE DEF f
<1>3. StateSound(stack, f)
  BY <1>2, InvFacts, SameSound
<1> QED BY <1>1, <1>3, GoesOk

LEMMA SetTrapSound ==
  ASSUME CfInv, NEW trap \in {"ERR", "EXIT"}, SetTrap(trap)
  PROVE  SoundAfter
<1> DEFINE more == ex.traps \cup {trap}
           f == [ex EXCEPT !.exit_code = 0, !.traps = more]
<1>1. stack # <<>> /\ Goes(stack, f, Ok(TRUE))
  BY DEF SetTrap, InCommands
<1>2. more \in SUBSET {"ERR", "EXIT"}
  BY InvFacts DEF Executor
<1> HIDE DEF more
<1>3. /\ f \in Executor
      /\ f.loop_depth = ex.loop_depth /\ f.function_depth = ex.function_depth
      /\ f.suppress_errexit = ex.suppress_errexit /\ f.subshell_depth = ex.subshell_depth
  BY <1>2, InvFacts, StatusValues DEF Executor
<1> HIDE DEF f
<1>4. StateSound(stack, f)
  BY <1>3, InvFacts, SameSound
<1> QED BY <1>1, <1>4, GoesOk

LEMMA LoopControlSound ==
  ASSUME CfInv, NEW kind \in {"break", "continue"}, NEW n \in 1 .. MaxLevel, LoopControl(kind, n)
  PROVE  SoundAfter
<1>1. stack # <<>>
  BY DEF LoopControl, InCommands
<1>2. CASE ex.loop_depth = 0
  <2>1. StateSound(stack, [ex EXCEPT !.exit_code = 0])
    BY InvFacts, StatusSound, StatusValues, Zenon
  <2>2. Goes(stack, [ex EXCEPT !.exit_code = 0], Ok(TRUE))
    BY <1>2 DEF LoopControl
  <2> QED BY <1>1, <2>1, <2>2, GoesOk
<1>3. CASE ex.loop_depth # 0
  <2> DEFINE r == Jump(kind, BreakLevel(n))
  <2>1. Gives(stack, ex, r)
    BY <1>3 DEF LoopControl
  <2>2. BreakLevel(n) \in 1 .. MaxLevel /\ BreakLevel(n) <= ex.loop_depth
    BY <1>3, InvFacts, BoundAssumption DEF BreakLevel
  <2>3. r \in Results
    BY <2>2 DEF Results
  <2>4. r.kind = kind /\ r.level = BreakLevel(n)
    BY DEF Jump
  <2>5. Does("redirect-fails") \/ ex.loop_depth = Cardinality(LoopBodies(stack))
    BY InvFacts DEF StateSound, CountsRight, Counts
  <2> HIDE DEF r
  <2>6. JumpSound(stack, r)
    BY <1>1, <2>2, <2>3, <2>4, <2>5 DEF JumpSound, JumpHasPlace
  <2> QED BY <1>1, <2>1, <2>6, InvFacts, GivesSound
<1> QED BY <1>2, <1>3

LEMMA ReturnFromSound ==
  ASSUME CfInv, NEW s \in Status, ReturnFrom(s)
  PROVE  SoundAfter
<1>1. stack # <<>> /\ ex.function_depth > 0 /\ Gives(stack, ex, Return(s))
  BY DEF ReturnFrom, InCommands
<1>2. Does("redirect-fails") \/ Functions(stack) # {}
  <2>1. Does("redirect-fails") \/ ex.function_depth = Cardinality(Functions(stack))
    BY InvFacts DEF StateSound, CountsRight, Counts
  <2>2. Functions(stack) = {} => Cardinality(Functions(stack)) = 0
    BY FS_EmptySet, Zenon
  <2> QED BY <1>1, <2>1, <2>2
<1>3. JumpSound(stack, Return(s))
  BY <1>1, <1>2, CalmResults DEF JumpSound, JumpHasPlace
<1> QED BY <1>1, <1>3, InvFacts, GivesSound

LEMMA ExitShellSound ==
  ASSUME CfInv, NEW s \in Status, ExitShell(s)
  PROVE  SoundAfter
<1> DEFINE fewer == ex.traps \ {"EXIT"}
           e == [ex EXCEPT !.exit_code = s, !.traps = fewer]
<1>1. /\ stack # <<>>
      /\ IF "EXIT" \in ex.traps
         THEN Goes(Append(stack, Handler("EXIT", s, "exit")), e, Running)
         ELSE Gives(stack, e, ExitCode(s))
  BY DEF ExitShell, InCommands
<1>2. fewer \in SUBSET {"ERR", "EXIT"}
  BY InvFacts DEF Executor
<1> HIDE DEF fewer
<1>3. /\ e \in Executor
      /\ e.loop_depth = ex.loop_depth /\ e.function_depth = ex.function_depth
      /\ e.suppress_errexit = ex.suppress_errexit /\ e.subshell_depth = ex.subshell_depth
  BY <1>2, InvFacts DEF Executor
<1> HIDE DEF e
<1>4. StateSound(stack, e)
  BY <1>3, InvFacts, SameSound
<1>5. StateSound(Append(stack, Handler("EXIT", s, "exit")), e)
      /\ Append(stack, Handler("EXIT", s, "exit")) # <<>>
  BY <1>1, <1>4, HandlerPush
<1> QED BY <1>1, <1>4, <1>5, GoesOn, GivesExit

LEMMA SettleSound ==
  ASSUME CfInv, Settle
  PROVE  SoundAfter
<1>1. stack # <<>>
  BY DEF Settle
<1>2. ASSUME Goes(stack, ex, ExitCode(ex.exit_code)) PROVE SoundAfter
  BY <1>1, <1>2, InvFacts, CalmResults, CalmGoes
<1>3. ASSUME ErrTrapActs(ex), Goes(Append(stack, Handler("ERR", ex.exit_code, "list")), ex, Running)
      PROVE  SoundAfter
  <2>1. ex.exit_code = 1
    BY <1>3, InvFacts DEF ErrTrapActs, Status
  <2>2. StateSound(Append(stack, Handler("ERR", 1, "list")), ex)
        /\ Append(stack, Handler("ERR", 1, "list")) # <<>>
    BY <1>1, <2>1, InvFacts, HandlerPush
  <2> QED BY <1>3, <2>1, <2>2, GoesOn
<1>4. ASSUME Goes(stack, ex, Running) PROVE SoundAfter
  BY <1>1, <1>4, InvFacts, GoesOn
<1> QED BY <1>2, <1>3, <1>4 DEF Settle

-------------------------------------------------------------------------------
(* Constructs *)

LEMMA EnterKeeps ==
  ASSUME CfInv, NEW el \in Elements, Enter(el)
  PROVE  SoundAfter
<1>1. stack # <<>> /\ Goes(Append(stack, el), Counted(ex, el), Running)
  BY DEF Enter, InCommands
<1>2. StateSound(Append(stack, el), Counted(ex, el)) /\ Append(stack, el) # <<>>
  BY <1>1, InvFacts, PushSound
<1> QED BY <1>1, <1>2, GoesOn

LEMMA EnterSubshellSound ==
  ASSUME CfInv, EnterSubshell
  PROVE  SoundAfter
<1>1. stack # <<>> /\ Goes(Append(stack, Shell("commands", Saved(ex))), InSubshell(ex), Running)
  BY DEF EnterSubshell, InCommands
<1>2. /\ StateSound(Append(stack, Shell("commands", Saved(ex))), InSubshell(ex))
      /\ Append(stack, Shell("commands", Saved(ex))) # <<>>
  BY <1>1, InvFacts, EnterSound
<1> QED BY <1>1, <1>2, GoesOn

\* The one step that leaves the counters wrong.
LEMMA SubshellRedirectFailsSound ==
  ASSUME CfInv, SubshellRedirectFails
  PROVE  SoundAfter
<1> DEFINE e == [InSubshell(ex) EXCEPT !.exit_code = 1]
<1>1. stack # <<>> /\ Does("redirect-fails") /\ Goes(stack, e, Ok(TRUE))
  BY DEF SubshellRedirectFails, InCommands
<1>2. InSubshell(ex) \in Executor
  BY <1>1, InvFacts, EnterSound DEF StateSound
<1>3. e \in Executor
  BY <1>2, StatusValues DEF Executor
<1> HIDE DEF e
<1>4. StateSound(stack, e)
  BY <1>1, <1>3, InvFacts DEF StateSound
<1> QED BY <1>1, <1>4, GoesOk

LEMMA KindsOnTop ==
  ASSUME CfInv, NEW kind, NEW phase, kind # "shell", OnTop(kind, phase)
  PROVE  /\ stack # <<>> /\ Top.kind # "shell" /\ Top.kind = kind /\ Top.phase = phase
         /\ StateSound(Below, Uncounted(ex, Top)) /\ Below # <<>> /\ Top \in Elements
         /\ \A x \in Status : StateSound(Below, AtStatus(x))
         /\ Plain(Top) => StateSound(Below, ex)
BY Pops DEF OnTop, InCommands

LEMMA PhaseElements ==
  /\ Element("if", "commands") \in Elements
  /\ \A s \in Status : Loop("commands", s) \in Elements /\ Loop("condition", s) \in Elements
  /\ \A p \in {"member", "last"} : Element("and-or", p) \in Elements
BY DEF Elements

LEMMA ConditionEndsSound ==
  ASSUME CfInv, ConditionEnds
  PROVE  SoundAfter
<1>1. ASSUME OnTop("if", "condition"), Phase(Element("if", "commands")) PROVE SoundAfter
  BY <1>1, KindsOnTop, PhaseElements, PhaseSound
<1>2. ASSUME OnTop("if", "condition"), Goes(Below, AtStatus(0), Ok(FALSE)) PROVE SoundAfter
  <2>1. Below # <<>> /\ StateSound(Below, AtStatus(0))
    BY <1>2, KindsOnTop, StatusValues
  <2> QED BY <1>2, <2>1, GoesOk
<1>3. ASSUME OnTop("loop", "condition") PROVE Top.last \in Status
  BY <1>3, KindsOnTop, ElementCases
<1>4. ASSUME OnTop("loop", "condition"), Phase(Loop("commands", Top.last)) PROVE SoundAfter
  BY <1>3, <1>4, KindsOnTop, PhaseElements, PhaseSound
<1>5. ASSUME OnTop("loop", "condition"), NEW x \in Status, Goes(Below, AtStatus(x), Ok(FALSE))
      PROVE  SoundAfter
  <2>1. Below # <<>> /\ StateSound(Below, AtStatus(x))
    BY <1>5, KindsOnTop
  <2> QED BY <1>5, <2>1, GoesOk
<1>6. ASSUME OnTop("loop", "condition"),
             Goes(Below, AtStatus(IF ex.exit_code # 0 THEN Top.last ELSE 0), Ok(FALSE))
      PROVE  SoundAfter
  <2>1. (IF ex.exit_code # 0 THEN Top.last ELSE 0) \in Status
    BY <1>3, <1>6, StatusValues
  <2> QED BY <1>5, <1>6, <2>1
<1> QED BY <1>1, <1>2, <1>4, <1>6 DEF ConditionEnds

LEMMA BodyEndsSound ==
  ASSUME CfInv, BodyEnds
  PROVE  SoundAfter
<1>0. ex.exit_code \in Status
  BY InvFacts
<1>1. ASSUME OnTop("loop", "commands"), Phase(Loop("condition", ex.exit_code)) PROVE SoundAfter
  BY <1>0, <1>1, KindsOnTop, PhaseElements, PhaseSound
<1>2. ASSUME OnTop("for", "commands"), Phase(Top) PROVE SoundAfter
  BY <1>2, KindsOnTop, PhaseSound
<1>3. ASSUME NEW kind \in {"for", "function"}, OnTop(kind, "commands"), NEW c \in BOOLEAN,
             Goes(Below, AtStatus(ex.exit_code), Ok(c))
      PROVE  SoundAfter
  <2>1. Below # <<>> /\ StateSound(Below, AtStatus(ex.exit_code))
    BY <1>0, <1>3, KindsOnTop
  <2> QED BY <1>3, <2>1, GoesOk
<1>4. ASSUME OnTop("if", "commands"), Goes(Below, ex, Ok(FALSE)) PROVE SoundAfter
  <2>1. Plain(Top)
    BY <1>4, KindsOnTop DEF Plain, IsLoopBody, Suppresses
  <2>2. Below # <<>> /\ StateSound(Below, ex)
    BY <1>4, <2>1, KindsOnTop
  <2> QED BY <1>4, <2>2, GoesOk
<1> QED BY <1>1, <1>2, <1>3, <1>4 DEF BodyEnds

LEMMA ListEndsSound ==
  ASSUME CfInv, ListEnds
  PROVE  SoundAfter
<1>0. ex.exit_code \in Status /\ 1 - ex.exit_code \in Status
  BY InvFacts DEF Status
<1>1. ASSUME OnTop("and-or", "member"), NEW phase \in {"member", "last"},
             Phase(Element("and-or", phase))
      PROVE  SoundAfter
  BY <1>1, KindsOnTop, PhaseElements, PhaseSound
<1>2. ASSUME NEW kind \in {"and-or", "invert"}, NEW phase, OnTop(kind, phase), NEW x \in Status,
             Goes(Below, AtStatus(x), Running)
      PROVE  SoundAfter
  <2>1. Below # <<>> /\ StateSound(Below, AtStatus(x))
    BY <1>2, KindsOnTop
  <2> QED BY <1>2, <2>1, GoesOn
<1>3. ASSUME NEW kind \in {"and-or", "time", "group"}, NEW phase \in {"last", "commands"},
             OnTop(kind, phase), Goes(Below, ex, Running)
      PROVE  SoundAfter
  <2>1. Top.kind = kind /\ Top.phase = phase
    BY <1>3, KindsOnTop
  <2>2. Plain(Top)
    BY <2>1 DEF Plain, IsLoopBody, Suppresses
  <2>3. Below # <<>> /\ StateSound(Below, ex)
    BY <1>3, <2>2, KindsOnTop
  <2> QED BY <1>3, <2>3, GoesOn
<1> QED BY <1>0, <1>1, <1>2, <1>3 DEF ListEnds

LEMMA HandlerEndsSound ==
  ASSUME CfInv, HandlerEnds
  PROVE  SoundAfter
<1>1. ASSUME NEW kind \in {"ERR", "EXIT"}, OnTop(kind, "commands")
      PROVE  Below # <<>> /\ Top.status \in Status /\ StateSound(Below, AtStatus(Top.status))
  BY <1>1, KindsOnTop, ElementCases
<1>2. ASSUME NEW kind \in {"ERR", "EXIT"}, OnTop(kind, "commands"),
             Goes(Below, AtStatus(Top.status), Running)
      PROVE  SoundAfter
  BY <1>1, <1>2, GoesOn
<1>3. ASSUME OnTop("EXIT", "commands"), Gives(Below, AtStatus(Top.status), ExitCode(Top.status))
      PROVE  SoundAfter
  BY <1>1, <1>3, GivesExit
<1> QED BY <1>2, <1>3 DEF HandlerEnds

LEMMA ShellEndsSound ==
  ASSUME CfInv, ShellEnds
  PROVE  SoundAfter
<1>1. stack # <<>> /\ Top.kind = "shell" /\ Goes(Append(Below, Shell("exit", Top.was)), ex, Running)
  BY DEF ShellEnds, OnTop, InCommands
<1>2. /\ StateSound(Append(Below, Shell("exit", Top.was)), ex)
      /\ Append(Below, Shell("exit", Top.was)) # <<>>
  BY <1>1, InvFacts, TurnSound DEF Top, Below
<1> QED BY <1>1, <1>2, GoesOn

LEMMA RunExitTrapSound ==
  ASSUME CfInv, RunExitTrap
  PROVE  SoundAfter
<1> DEFINE s == Append(Below, Shell("done", Top.was))
           h == Handler("EXIT", ex.exit_code, "shell")
           fewer == ex.traps \ {"EXIT"}
           e == [ex EXCEPT !.traps = fewer]
<1>1. stack # <<>> /\ Top.kind = "shell" /\ Goes(s \o <<h>>, e, Running)
  BY DEF RunExitTrap
<1>2. StateSound(s, ex) /\ s # <<>>
  BY <1>1, InvFacts, TurnSound DEF Top, Below
<1>3. fewer \in SUBSET {"ERR", "EXIT"}
  BY InvFacts DEF Executor
<1> HIDE DEF fewer
<1>4. /\ e \in Executor
      /\ e.loop_depth = ex.loop_depth /\ e.function_depth = ex.function_depth
      /\ e.suppress_errexit = ex.suppress_errexit /\ e.subshell_depth = ex.subshell_depth
  BY <1>3, InvFacts DEF Executor
<1> HIDE DEF e, s
<1>5. StateSound(s, e)
  BY <1>2, <1>4, SameSound
<1>6. StateSound(Append(s, h), e) /\ Append(s, h) # <<>>
  BY <1>2, <1>5, InvFacts, HandlerPush
<1>7. s \o <<h>> = Append(s, h)
  <2>1. s \in Seq(Frames) /\ h \in Frames
    BY <1>5, InvFacts, ElementsAreNoShells DEF StateSound, Elements
  <2> HIDE DEF h
  <2> QED BY <2>1
<1> QED BY <1>1, <1>6, <1>7, GoesOn

LEMMA LeaveShellSound ==
  ASSUME CfInv, LeaveShell
  PROVE  SoundAfter
<1>1. stack # <<>> /\ Top.kind = "shell"
  BY DEF LeaveShell
<1>2. ASSUME Len(stack) = 1, Goes(<<>>, ex, Running) PROVE SoundAfter
  <2>1. /\ stack \in Seq(Frames) /\ Front(stack) \in Seq(Frames) /\ Front(stack) = <<>>
    <3>1. /\ stack \in Seq(Frames) /\ Front(stack) \in Seq(Frames)
          /\ Front(stack) # <<>> <=> Len(stack) > 1
      BY <1>1, InvFacts, ShellBelow DEF Top, Below
    <3> QED BY <1>2, <3>1
  <2>2. StateSound(<<>>, ex)
    <3>1. CountsRight(stack, ex) => CountsRight(<<>>, ex)
      <4>1. stack = Append(<<>>, Last(stack)) /\ Last(stack) \in ShellFrames
        BY <1>1, <2>1, InvFacts, ShellBelow DEF Top
      <4> QED BY <4>1, EmptyCounts, InvFacts
    <3> QED BY <2>1, <3>1, InvFacts DEF StateSound
  <2>3. JumpSound(<<>>, Running)
    BY CalmResults DEF JumpSound, JumpHasPlace
  <2> QED BY <1>2, <2>2, <2>3, GoesSound
<1>3. ASSUME Len(stack) # 1, Goes(Below, Restored(ex, Top.was), Ok(TRUE)) PROVE SoundAfter
  <2>1. Len(stack) > 1
    <3>1. Len(stack) \in Nat /\ Len(stack) # 0
      BY <1>1, InvFacts
    <3> QED BY <1>3, <3>1
  <2>2. StateSound(Below, Restored(ex, Top.was)) /\ Below # <<>>
    BY <1>1, <2>1, InvFacts, LeaveSound DEF Top, Below
  <2> QED BY <1>3, <2>2, GoesOk
<1> QED BY <1>2, <1>3 DEF LeaveShell

-------------------------------------------------------------------------------
(* Errors on their way out *)

LEMMA UnwindingFacts ==
  ASSUME CfInv, Unwinding
  PROVE  /\ stack # <<>>
         /\ result.kind \in {"exit", "return"} => result.status \in Status
         /\ result.kind \in {"break", "continue"} =>
              result.level \in 1 .. MaxLevel /\ result = Jump(result.kind, result.level)
BY InvFacts, ResultCases DEF Unwinding

\* The construct that is left had the jump's place outside it.
LEMMA JumpGoesOut ==
  ASSUME CfInv, Unwinding, Top.kind # "shell",
         ~(Top.kind = "function" /\ result.kind = "return"),
         IsLoopBody(Top) /\ result.kind \in {"break", "continue"} => result.level > 1
  PROVE  JumpSound(Below, Outwards(Top, result))
<1> DEFINE r == Outwards(Top, result)
<1>1. /\ Below # <<>> /\ Top \in Elements /\ Below \in Seq(Frames) /\ Top \in Frames
      /\ result \in Results
  BY Pops, UnwindingFacts, InvFacts, ElementsAreNoShells
<1>2. stack = Append(Below, Top)
  BY UnwindingFacts, InvFacts, PopIsPush DEF Below, Top
<1>3. /\ Cardinality(LoopBodies(stack)) = Cardinality(LoopBodies(Below)) + One(IsLoopBody(Top))
      /\ Cardinality(LoopBodies(Below)) \in Nat
  BY <1>1, <1>2, PushCounts, CardsAreNats
<1>4. Top.kind # "function" => Functions(stack) = Functions(Below)
  BY <1>1, <1>2, PushSets
<1>5. Does("redirect-fails") \/ JumpHasPlace(stack, result)
  BY InvFacts DEF JumpSound
<1>6. CASE IsLoopBody(Top) /\ result.kind \in {"break", "continue"}
  <2>1. /\ result.level \in Nat /\ result.level - 1 \in 1 .. MaxLevel
        /\ result = Jump(result.kind, result.level)
    BY <1>6, UnwindingFacts, BoundAssumption
  <2>2. r = Jump(result.kind, result.level - 1)
    BY <1>6, <2>1 DEF Outwards, Jump
  <2>3. r \in Results
    BY <1>6, <2>1, <2>2 DEF Results
  <2>4. r.kind = result.kind /\ r.level = result.level - 1
    BY <2>2 DEF Jump
  <2> HIDE DEF r
  <2>5. Does("redirect-fails") \/ r.level <= Cardinality(LoopBodies(Below))
    <3>1. Cardinality(LoopBodies(stack)) = Cardinality(LoopBodies(Below)) + 1
      BY <1>3, <1>6 DEF One
    <3>2. Does("redirect-fails") \/ result.level <= Cardinality(LoopBodies(stack))
      BY <1>5, <1>6 DEF JumpHasPlace
    <3> QED BY <1>3, <2>1, <2>4, <3>1, <3>2
  <2>6. JumpSound(Below, r)
    BY <1>1, <1>6, <2>3, <2>4, <2>5 DEF JumpSound, JumpHasPlace
  <2> QED BY <2>6 DEF r
<1>7. CASE ~(IsLoopBody(Top) /\ result.kind \in {"break", "continue"})
  <2>1. r = result
    BY <1>7 DEF Outwards
  <2>2. result.kind \in {"break", "continue"} =>
          Does("redirect-fails") \/ result.level <= Cardinality(LoopBodies(Below))
    BY <1>3, <1>5, <1>7 DEF JumpHasPlace, One
  <2>3. result.kind = "return" => Does("redirect-fails") \/ Functions(Below) # {}
    BY <1>4, <1>5 DEF JumpHasPlace
  <2>4. JumpSound(Below, result)
    BY <1>1, <2>2, <2>3 DEF JumpSound, JumpHasPlace
  <2> QED BY <2>1, <2>4 DEF r
<1> QED BY <1>6, <1>7

LEMMA CaughtByLoopSound ==
  ASSUME CfInv, CaughtByLoop
  PROVE  SoundAfter
<1>1. stack # <<>> /\ Unwinding /\ IsLoopBody(Top)
  BY DEF CaughtByLoop, Unwinding
<1>2. Top.kind \in {"loop", "for"}
  BY <1>1 DEF IsLoopBody
<1>3. Below # <<>> /\ StateSound(Below, AtStatus(0)) /\ Top \in Elements
  BY <1>1, <1>2, Pops, StatusValues
<1>4. ASSUME Goes(Below, AtStatus(0), Ok(FALSE)) PROVE SoundAfter
  BY <1>3, <1>4, GoesOk
<1>5. ASSUME Top.kind = "loop",
             Goes(Append(Below, Loop("condition", Top.last)),
                  Counted(AtStatus(0), Loop("condition", Top.last)), Running)
      PROVE  SoundAfter
  <2>1. Loop("condition", Top.last) \in Elements
    BY <1>3, <1>5, ElementCases, PhaseElements
  <2>2. /\ StateSound(Append(Below, Loop("condition", Top.last)),
                      Counted(AtStatus(0), Loop("condition", Top.last)))
        /\ Append(Below, Loop("condition", Top.last)) # <<>>
    BY <1>3, <2>1, PushSound
  <2> QED BY <1>5, <2>2, GoesOn
<1>6. ASSUME Goes(stack, [ex EXCEPT !.exit_code = 0], Running) PROVE SoundAfter
  <2>1. StateSound(stack, [ex EXCEPT !.exit_code = 0])
    BY InvFacts, StatusSound, StatusValues, Zenon
  <2> QED BY <1>1, <1>6, <2>1, GoesOn
<1> QED BY <1>4, <1>5, <1>6 DEF CaughtByLoop

LEMMA CaughtByFunctionSound ==
  ASSUME CfInv, CaughtByFunction
  PROVE  SoundAfter
<1>1. stack # <<>> /\ Top.kind # "shell" /\ result.status \in Status
      /\ Goes(Below, AtStatus(result.status), Ok(TRUE))
  BY UnwindingFacts DEF CaughtByFunction
<1>2. Below # <<>> /\ StateSound(Below, AtStatus(result.status))
  BY <1>1, Pops
<1> QED BY <1>1, <1>2, GoesOk

LEMMA ExitTakenSound ==
  ASSUME CfInv, ExitTaken
  PROVE  SoundAfter
<1> DEFINE x == IF Top.kind = "group" THEN 0 ELSE result.status
<1>1. stack # <<>> /\ Top.kind # "shell" /\ result.status \in Status
      /\ Goes(Below, AtStatus(x), Running)
  BY UnwindingFacts DEF ExitTaken, TakesExit
<1>2. x \in Status
  BY <1>1, StatusValues
<1> HIDE DEF x
<1>3. Below # <<>> /\ StateSound(Below, AtStatus(x))
  BY <1>1, <1>2, Pops
<1> QED BY <1>1, <1>3, GoesOn

LEMMA ErrHandlerAbandonedSound ==
  ASSUME CfInv, ErrHandlerAbandoned
  PROVE  SoundAfter
<1>1. stack # <<>> /\ Top.kind = "ERR" /\ Goes(Below, AtStatus(Top.status), Running)
  BY UnwindingFacts DEF ErrHandlerAbandoned
<1>2. Below # <<>> /\ StateSound(Below, AtStatus(Top.status))
  BY <1>1, Pops, ElementCases
<1> QED BY <1>1, <1>2, GoesOn

LEMMA ExitHandlerExitsSound ==
  ASSUME CfInv, ExitHandlerExits
  PROVE  SoundAfter
<1>1. stack # <<>> /\ Top.kind = "EXIT" /\ result.status \in Status /\ result.kind = "exit"
  BY UnwindingFacts DEF ExitHandlerExits
<1>2. Below # <<>> /\ StateSound(Below, AtStatus(result.status))
  BY <1>1, Pops
<1>3. \/ Gives(Below, AtStatus(result.status), result)
      \/ Goes(Below, AtStatus(result.status), Running)
  BY DEF ExitHandlerExits
<1> QED BY <1>1, <1>2, <1>3, InvFacts, GoesOn, CalmGives

LEMMA ShellExitsSound ==
  ASSUME CfInv, ShellExits
  PROVE  SoundAfter
<1> DEFINE s == Append(Below, Shell("exit", Top.was))
<1>1. stack # <<>> /\ Top.kind = "shell" /\ result.status \in Status
      /\ Goes(s, [ex EXCEPT !.exit_code = result.status], Running)
  BY UnwindingFacts DEF ShellExits
<1>2. StateSound(s, ex) /\ s # <<>>
  BY <1>1, InvFacts, TurnSound DEF Top, Below
<1> HIDE DEF s
<1>3. StateSound(s, [ex EXCEPT !.exit_code = result.status])
  BY <1>1, <1>2, StatusSound
<1> QED BY <1>1, <1>2, <1>3, GoesOn

\* No break gets as far as the shell's own list: its loop_depth was 0.
LEMMA SubshellAbandonedSound ==
  ASSUME CfInv, SubshellAbandoned
  PROVE  SoundAfter
<1>1. /\ stack # <<>> /\ Top.kind = "shell" /\ Len(stack) > 1 /\ result.kind # "exit"
      /\ HandsOn(Below, Restored(ex, Top.was), result, "shell")
  BY UnwindingFacts DEF SubshellAbandoned
<1>2. StateSound(Below, Restored(ex, Top.was)) /\ Below # <<>>
  BY <1>1, InvFacts, LeaveSound DEF Top, Below
<1>3. stack = Append(Below, Top) /\ Below \in Seq(Frames) /\ Top \in Frames
  BY <1>1, InvFacts, PopIsPush DEF Below, Top
<1>4. Cardinality(LoopBodies(stack)) = 0 /\ Functions(stack) = Functions(Below)
  <2>1. Cardinality(LoopBodies(Append(Below, Top))) = 0
    BY <1>1, <1>3, PushCounts
  <2>2. Functions(Append(Below, Top))
          = Functions(Below) \cup (IF Top.kind = "function" THEN {Len(Below) + 1} ELSE {})
    BY <1>3, PushSets, Zenon
  <2>3. Functions(Append(Below, Top)) = Functions(Below)
    BY <1>1, <2>2
  <2> QED BY <1>3, <2>1, <2>3
<1>5. JumpSound(Below, result)
  BY <1>1, <1>2, <1>4, InvFacts, UnwindingFacts, BoundAssumption
     DEF JumpSound, JumpHasPlace, SubshellAbandoned
<1> QED BY <1>1, <1>2, <1>5, HandsOnSound

LEMMA PassesOnSound ==
  ASSUME CfInv, PassesOn
  PROVE  SoundAfter
<1> DEFINE r == Outwards(Top, result)
           e == Uncounted(ex, Top)
<1>1. /\ Unwinding /\ stack # <<>> /\ Top.kind # "shell"
      /\ ~(Top.kind = "function" /\ result.kind = "return")
      /\ IsLoopBody(Top) /\ result.kind \in {"break", "continue"} => result.level > 1
  BY UnwindingFacts DEF PassesOn
<1>2. Gives(Below, e, r) \/ HandsOn(Below, e, r, Top.kind)
  BY DEF PassesOn
<1>3. Below # <<>> /\ StateSound(Below, e)
  BY <1>1, Pops
<1>4. JumpSound(Below, r)
  BY <1>1, JumpGoesOut
<1> HIDE DEF e, r
<1> QED BY <1>2, <1>3, <1>4, GivesSound, HandsOnSound

-------------------------------------------------------------------------------
(* The invariant of the specification *)

LEMMA StepsSound ==
  ASSUME CfInv, Steps
  PROVE  SoundAfter
<1>1. 0 .. 1 = Status
  BY DEF Status
<1>2. ASSUME NEW s \in 0 .. 1, Simple(s) \/ ReturnFrom(s) \/ ExitShell(s) PROVE SoundAfter
  BY <1>1, <1>2, SimpleSound, ReturnFromSound, ExitShellSound
<1>3. ASSUME NEW on \in BOOLEAN, SetErrexit(on) PROVE SoundAfter
  BY <1>3, SetErrexitSound
<1>4. ASSUME NEW trap \in {"ERR", "EXIT"}, SetTrap(trap) PROVE SoundAfter
  BY <1>4, SetTrapSound
<1>5. ASSUME NEW kind \in {"break", "continue"}, NEW n \in 1 .. MaxLevel, LoopControl(kind, n)
      PROVE  SoundAfter
  BY <1>5, LoopControlSound
<1>6. ASSUME NEW kind \in {"for", "function", "invert", "time", "group"},
             Enter(Element(kind, "commands"))
      PROVE  SoundAfter
  <2>1. Element(kind, "commands") \in Elements
    BY DEF Elements
  <2> QED BY <1>6, <2>1, EnterKeeps
<1>7. ASSUME Enter(Element("if", "condition")) \/ Enter(Loop("condition", 0))
               \/ Enter(Element("and-or", "member"))
      PROVE  SoundAfter
  <2>1. /\ Element("if", "condition") \in Elements /\ Loop("condition", 0) \in Elements
        /\ Element("and-or", "member") \in Elements
    BY StatusValues DEF Elements
  <2> QED BY <1>7, <2>1, EnterKeeps
<1>8. ASSUME \/ EnterSubshell \/ SubshellRedirectFails \/ Settle
             \/ ConditionEnds \/ BodyEnds \/ ListEnds \/ HandlerEnds
             \/ ShellEnds \/ RunExitTrap \/ LeaveShell
      PROVE  SoundAfter
  BY <1>8, EnterSubshellSound, SubshellRedirectFailsSound, SettleSound, ConditionEndsSound,
     BodyEndsSound, ListEndsSound, HandlerEndsSound, ShellEndsSound, RunExitTrapSound,
     LeaveShellSound
<1>9. ASSUME \/ CaughtByLoop \/ CaughtByFunction \/ ExitTaken \/ ErrHandlerAbandoned
             \/ ExitHandlerExits \/ ShellExits \/ SubshellAbandoned \/ PassesOn
      PROVE  SoundAfter
  BY <1>9, CaughtByLoopSound, CaughtByFunctionSound, ExitTakenSound, ErrHandlerAbandonedSound,
     ExitHandlerExitsSound, ShellExitsSound, SubshellAbandonedSound, PassesOnSound
<1> QED BY <1>2, <1>3, <1>4, <1>5, <1>6, <1>7, <1>8, <1>9 DEF Steps

LEMMA InitSound ==
  ASSUME Init
  PROVE  CfInv
<1> DEFINE sh == Shell("commands", Saved(ex))
<1>1. /\ features \in Scripts /\ stack = <<sh>> /\ result = Running /\ leaving = {}
      /\ ex = [exit_code |-> 0, loop_depth |-> 0, function_depth |-> 0, subshell_depth |-> 0,
               suppress_errexit |-> 0, errexit |-> FALSE, traps |-> {}]
  BY DEF Init
<1>2. ex \in Executor
  <2>1. 0 \in Status /\ {} \in SUBSET {"ERR", "EXIT"}
    BY StatusValues
  <2> QED BY <1>1, <2>1 DEF Executor
<1>3. sh \in ShellFrames /\ sh \in Frames /\ sh.kind = "shell"
  BY <1>2 DEF Frames, ShellFrames, Shell, Saved, Locals, Executor
<1>4. ~IsLoopBody(sh) /\ ~Suppresses(sh) /\ sh.kind # "function"
  BY <1>3, ShellNotCounted
<1> HIDE DEF sh
<1>5. stack = Append(<<>>, sh) /\ <<>> \in Seq(Frames) /\ stack \in Seq(Frames) /\ stack[1] = sh
  BY <1>1, <1>3
<1>6. /\ Shells(<<>>) = {} /\ Functions(<<>>) = {} /\ Suppressors(<<>>) = {}
      /\ Cardinality({}) = 0
  BY FS_EmptySet DEF Shells, Functions, Suppressors
<1>7. /\ Cardinality(Shells(stack)) = Cardinality({}) + One(sh.kind = "shell")
      /\ Cardinality(Functions(stack)) = Cardinality({}) + One(sh.kind = "function")
      /\ Cardinality(Suppressors(stack)) = Cardinality({}) + One(Suppresses(sh))
      /\ Cardinality(LoopBodies(stack)) = 0
  <2>1. LET u == Append(<<>>, sh)
        IN  /\ Cardinality(Shells(u)) = Cardinality(Shells(<<>>)) + One(sh.kind = "shell")
            /\ Cardinality(Functions(u)) = Cardinality(Functions(<<>>)) + One(sh.kind = "function")
            /\ Cardinality(Suppressors(u)) = Cardinality(Suppressors(<<>>)) + One(Suppresses(sh))
            /\ Cardinality(LoopBodies(u)) = IF sh.kind = "shell" THEN 0
                 ELSE Cardinality(LoopBodies(<<>>)) + One(IsLoopBody(sh))
    BY <1>3, <1>5, PushCounts, Zenon
  <2>2. Append(<<>>, sh) = stack
    BY <1>5
  <2> QED BY <1>3, <1>6, <2>1, <2>2
<1>8. Counts(stack, ex)
  BY <1>1, <1>3, <1>4, <1>6, <1>7 DEF Counts, One
<1>9. SavedCounts(stack)
  <2>1. SavedCounts(<<>>)
    BY <1>6 DEF SavedCounts
  <2> QED BY <1>3, <1>5, <2>1, SavedPush
<1>10. stack # <<>>
  BY <1>1
<1>11. JumpSound(stack, result)
  BY <1>1, <1>10, CalmResults, CalmJump
<1> QED BY <1>1, <1>2, <1>3, <1>5, <1>8, <1>9, <1>11 DEF CfInv, StateSound, CountsRight

LEMMA NextSound ==
  ASSUME CfInv, [Next]_vars
  PROVE  CfInv'
<1>1. CASE Next
  <2>1. SoundAfter
    BY <1>1, StepsSound DEF Next
  <2>2. features' = features /\ features \in Scripts
    BY <1>1 DEF Next, CfInv
  <2>3. Does("redirect-fails")' <=> Does("redirect-fails")
    BY <2>2 DEF Does
  <2>4. StateSound(stack, ex)' /\ JumpSound(stack, result)'
    BY <2>1, <2>3 DEF SoundAfter, StateSound, JumpSound
  <2>5. leaving' \subseteq Shells(stack')
    BY <1>1 DEF Next, InnermostShell
  <2> QED BY <2>2, <2>4, <2>5 DEF CfInv
<1>2. CASE UNCHANGED vars
  BY <1>2 DEF vars, CfInv, StateSound, JumpSound, CountsRight, Counts, Does
<1> QED BY <1>1, <1>2

LEMMA InvImpliesSound ==
  ASSUME CfInv
  PROVE  UnwindingSound
<1>1. stack \in Seq(Frames) /\ ex \in Executor /\ result \in Results
  BY InvFacts
<1>2. TypeOK
  <2>1. ASSUME NEW i \in DOMAIN stack
        PROVE  IF stack[i].kind = "shell"
               THEN stack[i].phase \in {"commands", "exit", "done"} /\ stack[i].was \in Locals
               ELSE stack[i] \in Elements
    <3>1. stack[i] \in Frames
      BY <1>1, <2>1
    <3> QED BY <3>1, FrameCases DEF ShellFrames
  <2> QED BY <1>1, <2>1 DEF TypeOK, CfInv, StateSound
<1>3. Does("redirect-fails") \/ CountersMatchStack
  BY DEF CfInv, StateSound, CountsRight, Counts, CountersMatchStack
<1>4. ASSUME ~Does("redirect-fails"), Len(stack) <= 1
      PROVE  result.kind \in {"running", "ok", "exit"}
  <2>1. CASE stack = <<>>
    BY <2>1, CalmResults DEF CfInv, JumpSound
  <2>2. CASE stack # <<>>
    <3>1. JumpHasPlace(stack, result) /\ stack[1].kind = "shell"
      BY <1>4, <2>2 DEF CfInv, JumpSound, StateSound
    <3>2. \A i \in DOMAIN stack : stack[i].kind = "shell"
      BY <1>1, <1>4, <3>1
    <3>3. LoopBodies(stack) = {} /\ Functions(stack) = {}
      BY <3>2, ShellNotCounted DEF LoopBodies, Functions
    <3>4. Cardinality(LoopBodies(stack)) = 0
      BY <3>3, FS_EmptySet
    <3>5. result.kind \in {"break", "continue"} => result.level \in 1 .. MaxLevel
      BY <1>1, ResultCases
    <3>6. result.kind \notin {"break", "continue", "return"}
      BY <3>1, <3>3, <3>4, <3>5, BoundAssumption DEF JumpHasPlace
    <3> QED BY <1>1, <3>6, ResultCases
  <2> QED BY <2>1, <2>2
<1> QED BY <1>2, <1>3, <1>4 DEF UnwindingSound, JumpsLand

\* For every script, any nesting of its constructs and any argument of break,
\* the counters of the executor are those of what runs, and every break,
\* continue and return that unwinds has a construct to end in (the ? of
\* execute_ast and the arms of execute_ast_inner).
THEOREM UnwindingAlwaysSound == Spec => []UnwindingSound
<1>1. Init => CfInv
  BY InitSound
<1>2. CfInv /\ [Next]_vars => CfInv'
  BY NextSound
<1>3. CfInv => UnwindingSound
  BY InvImpliesSound
<1> QED BY <1>1, <1>2, <1>3, PTL DEF Spec

-------------------------------------------------------------------------------
(* Exits *)

\* A script with none of the constructs and handlers that hold up an exit.
Straight == features \cap {"and-or", "invert", "time", "group", "ERR", "handler-jumps"} = {}
StraightKinds == {"shell", "if", "loop", "for", "function", "EXIT"}

IsJump(r) == r.kind \in {"return", "break", "continue"}
NoExitHandler(s) == \A i \in DOMAIN s : s[i].kind # "EXIT"

\* The EXIT handler of a shell that is left stands on that shell.
OnItsShell(s, i) == i > 1 /\ s[i - 1].kind = "shell" /\ s[i - 1].phase = "done"
Shape(s) ==
  \A i \in DOMAIN s :
    /\ s[i].kind \in StraightKinds
    /\ s[i].kind = "EXIT" /\ s[i].for = "shell" => OnItsShell(s, i)
    /\ s[i].kind = "shell" => "ERR" \notin s[i].was.traps

\* A shell that was told to exit is past its commands, runs the handler that
\* exit itself runs, or is what the exit unwinds to.
ExitHandlerOf(s, i, j) == /\ s[j].kind = "EXIT" /\ s[j].for = "exit"
                          /\ \A k \in DOMAIN s : k > i /\ k <= j => s[k].kind # "shell"
Leaves(s, r, i) ==
  \/ s[i].phase \in {"exit", "done"}
  \/ \E j \in DOMAIN s : j > i /\ ExitHandlerOf(s, i, j)
  \/ r.kind = "exit" /\ i \in InnermostShell(s)
AllLeave(s, r, lv) == \A i \in lv \cap Shells(s) : Leaves(s, r, i)

Tame(s, e, r, lv) == /\ Shape(s) /\ "ERR" \notin e.traps
                     /\ IsJump(r) => NoExitHandler(s)
                     /\ AllLeave(s, r, lv)
TameAfter == Tame(stack', ex', result', leaving)
ExitInv == Straight => Tame(stack, ex, result, leaving)

LEMMA SameTame ==
  ASSUME NEW s, NEW e, NEW f, NEW r, NEW x, NEW lv, Tame(s, e, r, lv), r.kind # "exit",
         "ERR" \notin f.traps, IsJump(x) => NoExitHandler(s)
  PROVE  Tame(s, f, x, lv)
BY DEF Tame, AllLeave, Leaves

LEMMA PushTame ==
  ASSUME NEW s \in Seq(Frames), NEW e, NEW f, NEW r, NEW x, NEW lv, NEW el \in Frames,
         Tame(s, e, r, lv), r.kind # "exit", "ERR" \notin f.traps, ~IsJump(x),
         lv \subseteq DOMAIN s, el.kind \in StraightKinds,
         el.kind = "EXIT" /\ el.for = "shell" =>
           s # <<>> /\ Last(s).kind = "shell" /\ Last(s).phase = "done",
         el.kind = "shell" => "ERR" \notin el.was.traps
  PROVE  Tame(Append(s, el), f, x, lv)
<1> DEFINE t == Append(s, el)
<1>1. /\ DOMAIN t = 1 .. Len(s) + 1 /\ DOMAIN s = 1 .. Len(s) /\ Len(s) \in Nat
      /\ t[Len(s) + 1] = el /\ \A i \in 1 .. Len(s) : t[i] = s[i]
  OBVIOUS
<1>2. s # <<>> => Len(s) >= 1 /\ Last(s) = s[Len(s)]
  BY DEF Last
<1> HIDE DEF t
<1>3. Shape(t)
  <2>1. ASSUME NEW i \in DOMAIN t
        PROVE  /\ t[i].kind \in StraightKinds
               /\ t[i].kind = "EXIT" /\ t[i].for = "shell" => OnItsShell(t, i)
               /\ t[i].kind = "shell" => "ERR" \notin t[i].was.traps
    <3>1. CASE i = Len(s) + 1
      BY <1>1, <1>2, <3>1 DEF OnItsShell
    <3>2. CASE i # Len(s) + 1
      <4>1. i \in 1 .. Len(s) /\ t[i] = s[i]
        BY <1>1, <2>1, <3>2
      <4>2. /\ s[i].kind \in StraightKinds
            /\ s[i].kind = "EXIT" /\ s[i].for = "shell" => OnItsShell(s, i)
            /\ s[i].kind = "shell" => "ERR" \notin s[i].was.traps
        BY <1>1, <4>1 DEF Tame, Shape
      <4>3. OnItsShell(s, i) => OnItsShell(t, i)
        BY <1>1, <4>1 DEF OnItsShell
      <4> QED BY <4>1, <4>2, <4>3
    <3> QED BY <3>1, <3>2
  <2> QED BY <2>1 DEF Shape
<1>4. AllLeave(t, x, lv)
  <2>1. ASSUME NEW i \in lv \cap Shells(t) PROVE Leaves(t, x, i)
    <3>1. i \in 1 .. Len(s) /\ t[i] = s[i] /\ i \in lv \cap Shells(s)
      BY <1>1, <2>1 DEF Shells
    <3>2. \/ s[i].phase \in {"exit", "done"}
          \/ \E j \in DOMAIN s : j > i /\ ExitHandlerOf(s, i, j)
      BY <3>1 DEF Tame, AllLeave, Leaves
    <3>3. ASSUME NEW j \in DOMAIN s, ExitHandlerOf(s, i, j)
          PROVE  j \in DOMAIN t /\ ExitHandlerOf(t, i, j)
      BY <1>1, <3>1, <3>3 DEF ExitHandlerOf
    <3> QED BY <3>1, <3>2, <3>3 DEF Leaves
  <2> QED BY <2>1 DEF AllLeave
<1> QED BY <1>3, <1>4 DEF Tame, t

LEMMA PopFacts ==
  ASSUME NEW s \in Seq(Frames), s # <<>>
  PROVE  /\ Front(s) \in Seq(Frames) /\ DOMAIN Front(s) = 1 .. Len(s) - 1
         /\ Len(s) \in Nat \ {0} /\ DOMAIN s = 1 .. Len(s) /\ Last(s) = s[Len(s)]
         /\ \A i \in 1 .. Len(s) - 1 : Front(s)[i] = s[i]
<1>1. Len(s) \in Nat \ {0}
  OBVIOUS
<1>2. Front(s) \in Seq(Frames) /\ Len(Front(s)) = Len(s) - 1
  BY PopIsPush
<1>3. \A i \in 1 .. Len(s) - 1 : Front(s)[i] = s[i]
  BY <1>1 DEF Front
<1> QED BY <1>1, <1>2, <1>3 DEF Last

LEMMA FrontShape ==
  ASSUME NEW s \in Seq(Frames), s # <<>>
  PROVE  /\ Shape(s) => Shape(Front(s))
         /\ NoExitHandler(s) => NoExitHandler(Front(s))
<1> DEFINE t == Front(s)
<1>1. /\ DOMAIN t = 1 .. Len(s) - 1
      /\ Len(s) \in Nat \ {0} /\ DOMAIN s = 1 .. Len(s)
      /\ \A i \in 1 .. Len(s) - 1 : t[i] = s[i]
  BY PopFacts
<1> HIDE DEF t
<1>2. ASSUME Shape(s), NEW i \in DOMAIN t
      PROVE  /\ t[i].kind \in StraightKinds
             /\ t[i].kind = "EXIT" /\ t[i].for = "shell" => OnItsShell(t, i)
             /\ t[i].kind = "shell" => "ERR" \notin t[i].was.traps
  <2>1. i \in 1 .. Len(s) /\ t[i] = s[i]
    BY <1>1, <1>2
  <2>2. /\ s[i].kind \in StraightKinds
        /\ s[i].kind = "EXIT" /\ s[i].for = "shell" => OnItsShell(s, i)
        /\ s[i].kind = "shell" => "ERR" \notin s[i].was.traps
    BY <1>1, <1>2, <2>1 DEF Shape
  <2>3. OnItsShell(s, i) => OnItsShell(t, i)
    BY <1>1, <1>2, <2>1 DEF OnItsShell
  <2> QED BY <2>1, <2>2, <2>3
<1>3. Shape(s) => Shape(t)
  BY <1>2 DEF Shape
<1>4. NoExitHandler(s) => NoExitHandler(t)
  BY <1>1 DEF NoExitHandler
<1> QED BY <1>3, <1>4 DEF t

\* What is left of the shells that leave when the top goes.
LEMMA FrontLeaves ==
  ASSUME NEW s \in Seq(Frames), s # <<>>, NEW r, NEW x, NEW i \in Shells(Front(s)),
         Leaves(s, r, i),
         Last(s).kind = "EXIT" => Last(s).for \in {"exit", "shell"},
         Last(s).kind = "EXIT" /\ Last(s).for = "exit" => x.kind = "exit",
         Last(s).kind = "EXIT" /\ Last(s).for = "shell" => OnItsShell(s, Len(s)),
         Last(s).kind \notin {"EXIT", "shell"} /\ r.kind = "exit" => x.kind = "exit"
  PROVE  Leaves(Front(s), x, i)
<1> DEFINE t == Front(s)
           n == Len(s)
<1>1. /\ DOMAIN t = 1 .. n - 1 /\ Last(s) = s[n]
      /\ n \in Nat \ {0} /\ DOMAIN s = 1 .. n
      /\ \A k \in 1 .. n - 1 : t[k] = s[k]
  BY PopFacts
<1> HIDE DEF t, n
<1>2. i \in 1 .. n - 1 /\ t[i] = s[i] /\ t[i].kind = "shell"
  BY <1>1 DEF Shells, t
<1>3. ASSUME s[i].phase \in {"exit", "done"} PROVE Leaves(t, x, i)
  BY <1>2, <1>3 DEF Leaves
<1>4. ASSUME NEW j \in DOMAIN s, j > i, ExitHandlerOf(s, i, j) PROVE Leaves(t, x, i)
  <2>1. CASE j = n
    <3>1. x.kind = "exit"
      BY <1>1, <1>4, <2>1 DEF ExitHandlerOf
    <3>2. \A k \in DOMAIN t : k > i => t[k].kind # "shell"
      BY <1>1, <1>2, <1>4, <2>1 DEF ExitHandlerOf
    <3>3. i \in InnermostShell(t)
      BY <1>1, <1>2, <3>2 DEF InnermostShell, Shells
    <3> QED BY <3>1, <3>3 DEF Leaves
  <2>2. CASE j # n
    <3>1. j \in DOMAIN t /\ ExitHandlerOf(t, i, j)
      BY <1>1, <1>2, <1>4, <2>2 DEF ExitHandlerOf
    <3> QED BY <1>4, <3>1 DEF Leaves
  <2> QED BY <2>1, <2>2
<1>5. ASSUME r.kind = "exit", i \in InnermostShell(s) PROVE Leaves(t, x, i)
  <2>1. \A k \in DOMAIN s : s[k].kind = "shell" => k <= i
    BY <1>5 DEF InnermostShell, Shells
  <2>2. Last(s).kind # "shell"
    BY <1>1, <1>2, <2>1
  <2>3. i \in InnermostShell(t)
    BY <1>1, <1>2, <2>1 DEF InnermostShell, Shells
  <2>4. CASE Last(s).kind = "EXIT" /\ Last(s).for = "shell"
    <3>1. i = n - 1 /\ s[i].phase = "done"
      <4>1. OnItsShell(s, n)
        BY <2>4 DEF n
      <4>2. n - 1 \in DOMAIN s /\ s[n - 1].kind = "shell" /\ s[n - 1].phase = "done"
        BY <1>1, <4>1 DEF OnItsShell
      <4>3. n - 1 <= i
        BY <2>1, <4>2
      <4>4. i = n - 1
        BY <1>1, <1>2, <4>3
      <4> QED BY <4>2, <4>4
    <3> QED BY <1>3, <3>1
  <2>5. CASE ~(Last(s).kind = "EXIT" /\ Last(s).for = "shell")
    <3>1. x.kind = "exit"
      BY <1>5, <2>2, <2>5
    <3> QED BY <2>3, <3>1 DEF Leaves
  <2> QED BY <2>4, <2>5
<1> QED BY <1>3, <1>4, <1>5 DEF Leaves, t

\* Pops: of a construct, of an EXIT handler, of a shell.
LEMMA PopTame ==
  ASSUME NEW s \in Seq(Frames), s # <<>>, NEW e, NEW f, NEW r, NEW x, NEW lv,
         Tame(s, e, r, lv), "ERR" \notin f.traps, IsJump(x) => IsJump(r),
         Last(s).kind = "EXIT" => Last(s).for \in {"exit", "shell"},
         Last(s).kind = "EXIT" /\ Last(s).for = "exit" => x.kind = "exit",
         Last(s).kind \notin {"EXIT", "shell"} /\ r.kind = "exit" => x.kind = "exit"
  PROVE  Tame(Front(s), f, x, lv)
<1>1. Shape(Front(s)) /\ (IsJump(x) => NoExitHandler(Front(s)))
  BY FrontShape DEF Tame
<1>2. Last(s).kind = "EXIT" /\ Last(s).for = "shell" => OnItsShell(s, Len(s))
  BY PopFacts DEF Tame, Shape
<1>3. ASSUME NEW i \in lv \cap Shells(Front(s)) PROVE Leaves(Front(s), x, i)
  <2>1. i \in lv \cap Shells(s)
    <3> DEFINE t == Front(s)
    <3>1. /\ DOMAIN t = 1 .. Len(s) - 1 /\ Len(s) \in Nat /\ DOMAIN s = 1 .. Len(s)
          /\ \A k \in 1 .. Len(s) - 1 : t[k] = s[k]
      BY PopFacts
    <3>2. i \in lv /\ i \in Shells(t)
      BY <1>3
    <3> HIDE DEF t
    <3> QED BY <3>1, <3>2 DEF Shells
  <2>2. Leaves(s, r, i)
    BY <2>1 DEF Tame, AllLeave
  <2> QED BY <1>2, <1>3, <2>2, FrontLeaves
<1> QED BY <1>1, <1>3 DEF Tame, AllLeave

\* A construct that starts its next list.
LEMMA TurnTame ==
  ASSUME NEW s \in Seq(Frames), s # <<>>, NEW e, NEW f, NEW r, NEW lv,
         Tame(s, e, r, lv), "ERR" \notin f.traps,
         NEW el \in Frames, Last(s).kind = el.kind,
         \/ el.kind \in {"if", "loop", "for"} /\ r.kind # "exit"
         \/ el.kind = "shell" /\ el.phase \in {"exit", "done"} /\ el.was = Last(s).was
  PROVE  Tame(Append(Front(s), el), f, Running, lv)
<1> DEFINE t == Append(Front(s), el)
           n == Len(s)
<1>1. /\ Front(s) \in Seq(Frames) /\ DOMAIN Front(s) = 1 .. n - 1
      /\ n \in Nat \ {0} /\ DOMAIN s = 1 .. n /\ Last(s) = s[n]
      /\ \A i \in 1 .. n - 1 : Front(s)[i] = s[i]
  BY PopFacts
<1>2. Len(Front(s)) = n - 1
  BY PopIsPush
<1>3. /\ DOMAIN t = 1 .. n /\ t[n] = el /\ \A i \in 1 .. n - 1 : t[i] = s[i]
  <2> DEFINE u == Front(s)
  <2>1. u \in Seq(Frames) /\ Len(u) = n - 1 /\ \A i \in 1 .. n - 1 : u[i] = s[i]
    BY <1>1, <1>2
  <2> HIDE DEF u
  <2>2. /\ DOMAIN Append(u, el) = 1 .. Len(u) + 1 /\ Append(u, el)[Len(u) + 1] = el
        /\ \A i \in 1 .. Len(u) : Append(u, el)[i] = u[i]
    BY <2>1
  <2>3. n - 1 + 1 = n
    BY <1>1
  <2> HIDE DEF n
  <2> QED BY <2>1, <2>2, <2>3, Zenon DEF u
<1> HIDE DEF t, n
<1>4. Shape(t)
  <2>1. ASSUME NEW i \in DOMAIN t
        PROVE  /\ t[i].kind \in StraightKinds
               /\ t[i].kind = "EXIT" /\ t[i].for = "shell" => OnItsShell(t, i)
               /\ t[i].kind = "shell" => "ERR" \notin t[i].was.traps
    <3>1. /\ s[i].kind \in StraightKinds
          /\ s[i].kind = "EXIT" /\ s[i].for = "shell" => OnItsShell(s, i)
          /\ s[i].kind = "shell" => "ERR" \notin s[i].was.traps
      BY <1>1, <1>3, <2>1 DEF Tame, Shape
    <3>2. CASE i = n
      BY <1>1, <1>3, <3>1, <3>2
    <3>3. CASE i # n
      <4>1. t[i] = s[i] /\ i \in 1 .. n - 1
        BY <1>1, <1>3, <2>1, <3>3
      <4>2. OnItsShell(s, i) => OnItsShell(t, i)
        BY <1>1, <1>3, <4>1 DEF OnItsShell
      <4> QED BY <3>1, <4>1, <4>2
    <3> QED BY <3>2, <3>3
  <2> QED BY <2>1 DEF Shape
<1>5. ASSUME NEW i \in lv \cap Shells(t) PROVE Leaves(t, Running, i)
  <2>1. i \in 1 .. n /\ t[i].kind = "shell"
    BY <1>3, <1>5 DEF Shells
  <2>2. CASE i = n
    BY <1>3, <2>1, <2>2 DEF Leaves
  <2>3. CASE i # n
    <3>1. i \in 1 .. n - 1 /\ t[i] = s[i] /\ i \in lv \cap Shells(s)
      BY <1>1, <1>3, <1>5, <2>1, <2>3 DEF Shells
    <3>2. Leaves(s, r, i)
      BY <3>1 DEF Tame, AllLeave
    <3>3. CASE s[i].phase \in {"exit", "done"}
      BY <3>1, <3>3 DEF Leaves
    <3>4. ASSUME NEW j \in DOMAIN s, j > i, ExitHandlerOf(s, i, j) PROVE Leaves(t, Running, i)
      <4>1. j # n
        BY <1>1, <3>4 DEF ExitHandlerOf
      <4>2. j \in DOMAIN t /\ ExitHandlerOf(t, i, j)
        BY <1>1, <1>3, <3>1, <3>4, <4>1 DEF ExitHandlerOf
      <4> QED BY <3>4, <4>2 DEF Leaves
    <3>5. ~(r.kind = "exit" /\ i \in InnermostShell(s))
      <4>1. CASE el.kind = "shell"
        <5>1. n \in Shells(s) /\ n > i
          BY <1>1, <3>1, <4>1 DEF Shells
        <5> QED BY <1>1, <3>1, <5>1 DEF InnermostShell
      <4> QED BY <4>1
    <3> QED BY <3>2, <3>3, <3>4, <3>5 DEF Leaves
  <2> QED BY <2>2, <2>3
<1>6. ~IsJump(Running)
  BY DEF IsJump, Running
<1> QED BY <1>4, <1>5, <1>6 DEF Tame, AllLeave, t

LEMMA ForOfHandlers ==
  ASSUME NEW el \in Frames, el.kind = "EXIT"
  PROVE  el.for \in {"exit", "shell"}
BY DEF Frames, ShellFrames, Elements, Element, Loop, Handler

\* The shells that are told to exit by a step do.
LEMMA NewLeaversLeave ==
  ASSUME NEW s \in Seq(Frames), NEW r, Shape(s), OnTheWayOut(s, r), NEW i \in InnermostShell(s),
         \A k \in DOMAIN s : s[k].kind = "EXIT" => s[k].for \in {"exit", "shell"}
  PROVE  Leaves(s, r, i)
<1>1. CASE r.kind = "exit"
  BY <1>1 DEF Leaves
<1>2. CASE s # <<>> /\ Last(s).kind = "EXIT"
  <2> DEFINE n == Len(s)
  <2>1. n \in Nat \ {0} /\ DOMAIN s = 1 .. n /\ Last(s) = s[n]
    BY <1>2, PopFacts
  <2> HIDE DEF n
  <2>2. /\ i \in 1 .. n /\ s[i].kind = "shell"
        /\ \A k \in DOMAIN s : s[k].kind = "shell" => k <= i
    BY <2>1 DEF InnermostShell, Shells
  <2>3. i < n
    BY <1>2, <2>1, <2>2
  <2>4. CASE s[n].for = "exit"
    <3>1. ExitHandlerOf(s, i, n)
      BY <1>2, <2>1, <2>2, <2>4 DEF ExitHandlerOf
    <3> QED BY <2>1, <2>3, <3>1 DEF Leaves
  <2>5. CASE s[n].for = "shell"
    <3>1. OnItsShell(s, n)
      BY <1>2, <2>1, <2>5 DEF Shape
    <3>2. n - 1 \in DOMAIN s /\ s[n - 1].kind = "shell" /\ s[n - 1].phase = "done"
      BY <2>1, <3>1 DEF OnItsShell
    <3>3. n - 1 <= i
      BY <2>2, <3>2
    <3>4. i = n - 1
      BY <2>1, <2>2, <2>3, <3>3
    <3> QED BY <3>2, <3>4 DEF Leaves
  <2> QED BY <1>2, <2>1, <2>4, <2>5
<1> QED BY <1>1, <1>2 DEF OnTheWayOut

LEMMA TameGoes ==
  ASSUME NEW s, NEW e, NEW r, Tame(s, e, r, leaving), Goes(s, e, r)
  PROVE  TameAfter
BY DEF Goes, TameAfter

LEMMA KindsOfResults ==
  /\ Running.kind = "running"
  /\ \A c : Ok(c).kind = "ok"
  /\ \A x : ExitCode(x).kind = "exit"
  /\ \A x : Return(x).kind = "return"
  /\ \A k, n : Jump(k, n).kind = k
BY DEF Running, Ok, ExitCode, Return, Jump

LEMMA TameGives ==
  ASSUME NEW s, NEW e, NEW r, Tame(s, e, r, leaving), Gives(s, e, r)
  PROVE  TameAfter
<1>1. ASSUME NEW x PROVE Tame(s, e, ExitCode(x), leaving)
  <2>1. ExitCode(x).kind = "exit"
    BY KindsOfResults
  <2>2. ~IsJump(ExitCode(x))
    BY <2>1 DEF IsJump
  <2>3. \A i : Leaves(s, r, i) => Leaves(s, ExitCode(x), i)
    BY <2>1 DEF Leaves
  <2> QED BY <2>2, <2>3 DEF Tame, AllLeave
<1> QED BY <1>1, TameGoes DEF Gives

LEMMA TameHandsOn ==
  ASSUME NEW s, NEW e, NEW r, NEW arm, Tame(s, e, r, leaving), HandsOn(s, e, r, arm)
  PROVE  TameAfter
<1>1. ASSUME r.kind # "exit", Goes(s, [e EXCEPT !.exit_code = 0], Ok(FALSE)) PROVE TameAfter
  <2>1. "ERR" \notin [e EXCEPT !.exit_code = 0].traps
    BY DEF Tame
  <2>2. ~IsJump(Ok(FALSE))
    BY KindsOfResults DEF IsJump
  <2>3. Tame(s, [e EXCEPT !.exit_code = 0], Ok(FALSE), leaving)
    BY <1>1, <2>1, <2>2, SameTame
  <2> QED BY <1>1, <2>3, TameGoes
<1>2. r.kind \in {"break", "continue"} => r.kind # "exit"
  OBVIOUS
<1> QED BY <1>1, <1>2, TameGoes DEF HandsOn

\* The states of these scripts.
TameState == CfInv /\ Straight /\ Tame(stack, ex, result, leaving)

LEMMA TameFacts ==
  ASSUME TameState
  PROVE  /\ CfInv /\ Straight /\ Tame(stack, ex, result, leaving)
         /\ stack \in Seq(Frames) /\ leaving \subseteq DOMAIN stack
         /\ "ERR" \notin ex.traps /\ ~Does("ERR") /\ ~Does("handler-jumps")
         /\ \A kind \in {"and-or", "invert", "time", "group"} : ~Does(kind)
         /\ ex \in Executor
BY InvFacts DEF TameState, CfInv, Tame, Straight, Does, Shells

\* Neither the counters' changes nor a status touch the traps.
LEMMA TrapsStay ==
  ASSUME NEW e \in Executor, NEW el, NEW x
  PROVE  /\ Counted(e, el).traps = e.traps /\ Uncounted(e, el).traps = e.traps
         /\ [e EXCEPT !.exit_code = x].traps = e.traps
         /\ [Uncounted(e, el) EXCEPT !.exit_code = x].traps = e.traps
         /\ Counted(Uncounted(e, el), el).traps = e.traps
BY DEF Counted, Uncounted, Executor

\* A simple command.
LEMMA TameStays ==
  ASSUME TameState, result.kind # "exit", NEW f, NEW x, "ERR" \notin f.traps, ~IsJump(x),
         Goes(stack, f, x) \/ Gives(stack, f, x)
  PROVE  TameAfter
<1>1. Tame(stack, f, x, leaving)
  BY TameFacts, SameTame
<1> QED BY <1>1, TameGoes, TameGives

\* A construct is entered.
LEMMA TameEnters ==
  ASSUME TameState, result.kind # "exit", NEW f, "ERR" \notin f.traps, NEW el \in Frames,
         el.kind \in StraightKinds, ~(el.kind = "EXIT" /\ el.for = "shell"),
         el.kind = "shell" => "ERR" \notin el.was.traps,
         Goes(Append(stack, el), f, Running)
  PROVE  TameAfter
<1>1. Running.kind = "running" /\ ~IsJump(Running)
  BY KindsOfResults DEF IsJump
<1>2. Tame(Append(stack, el), f, Running, leaving)
  BY <1>1, TameFacts, PushTame
<1> QED BY <1>2, TameGoes

LEMMA TopKinds ==
  ASSUME TameState, stack # <<>>
  PROVE  /\ Top \in Frames /\ Top.kind \in StraightKinds
         /\ Top.kind = "EXIT" => Top.for \in {"exit", "shell"}
         /\ Top.kind = "shell" => "ERR" \notin Top.was.traps
<1>1. Top = stack[Len(stack)] /\ Len(stack) \in DOMAIN stack /\ Top \in Frames
  BY TameFacts, PopFacts, PopIsPush DEF Top
<1>2. /\ Top.kind \in StraightKinds /\ (Top.kind = "shell" => "ERR" \notin Top.was.traps)
  BY <1>1, TameFacts DEF Tame, Shape
<1>3. Top.kind = "EXIT" => Top.for \in {"exit", "shell"}
  BY <1>1, ForOfHandlers
<1> QED BY <1>1, <1>2, <1>3

\* A construct is left.
LEMMA TameLeaves ==
  ASSUME TameState, stack # <<>>, NEW f, "ERR" \notin f.traps, NEW x, IsJump(x) => IsJump(result),
         Top.kind = "EXIT" /\ Top.for = "exit" => x.kind = "exit",
         Top.kind \notin {"EXIT", "shell"} /\ result.kind = "exit" => x.kind = "exit"
  PROVE  Tame(Below, f, x, leaving)
<1>1. Top.kind = "EXIT" => Top.for \in {"exit", "shell"}
  BY TopKinds
<1> QED BY <1>1, TameFacts, PopTame DEF Top, Below

\* A construct goes on.
LEMMA TameTurns ==
  ASSUME TameState, stack # <<>>, NEW f, "ERR" \notin f.traps, NEW el \in Frames,
         Top.kind = el.kind,
         \/ el.kind \in {"if", "loop", "for"} /\ result.kind # "exit"
         \/ el.kind = "shell" /\ el.phase \in {"exit", "done"} /\ el.was = Top.was
  PROVE  Tame(Append(Below, el), f, Running, leaving)
BY TameFacts, TurnTame DEF Top, Below

LEMMA SimpleCommandsTame ==
  ASSUME TameState,
         \/ \E s \in 0 .. 1 : Simple(s) \/ ReturnFrom(s)
         \/ \E on \in BOOLEAN : SetErrexit(on)
         \/ \E trap \in {"ERR", "EXIT"} : SetTrap(trap)
         \/ \E kind \in {"break", "continue"}, n \in 1 .. MaxLevel : LoopControl(kind, n)
         \/ SubshellRedirectFails
  PROVE  TameAfter
<1>1. InCommands /\ result.kind # "exit" /\ ~IsJump(Ok(TRUE)) /\ ex \in Executor
      /\ "ERR" \notin ex.traps
  BY KindsOfResults, TameFacts
     DEF Simple, ReturnFrom, SetErrexit, SetTrap, LoopControl, SubshellRedirectFails, InCommands,
         IsJump
<1>2. ASSUME NEW s \in 0 .. 1, Simple(s) PROVE TameAfter
  BY <1>1, <1>2, TrapsStay, TameStays DEF Simple
<1>3. ASSUME NEW s \in 0 .. 1, ReturnFrom(s) PROVE TameAfter
  <2>1. Gives(stack, ex, Return(s)) /\ NoExitHandler(stack)
    BY <1>3, TameFacts DEF ReturnFrom, JumpsAllowed, NoExitHandler
  <2>2. Tame(stack, ex, Return(s), leaving)
    BY <1>1, <2>1, TameFacts, SameTame
  <2> QED BY <2>1, <2>2, TameGives
<1>4. ASSUME NEW on \in BOOLEAN, SetErrexit(on) PROVE TameAfter
  <2>1. [ex EXCEPT !.exit_code = 0, !.errexit = on].traps = ex.traps
    BY <1>1 DEF Executor
  <2> QED BY <1>1, <1>4, <2>1, TameStays DEF SetErrexit
<1>5. ASSUME NEW trap \in {"ERR", "EXIT"}, SetTrap(trap) PROVE TameAfter
  <2>1. trap = "EXIT"
    BY <1>5, TameFacts DEF SetTrap
  <2>2. [ex EXCEPT !.exit_code = 0, !.traps = @ \cup {trap}].traps = ex.traps \cup {trap}
    BY <1>1 DEF Executor
  <2>3. "ERR" \notin [ex EXCEPT !.exit_code = 0, !.traps = @ \cup {trap}].traps
    BY <1>1, <2>1, <2>2
  <2> QED BY <1>1, <1>5, <2>3, TameStays DEF SetTrap
<1>6. ASSUME NEW kind \in {"break", "continue"}, NEW n \in 1 .. MaxLevel, LoopControl(kind, n)
      PROVE  TameAfter
  <2>1. ASSUME Goes(stack, [ex EXCEPT !.exit_code = 0], Ok(TRUE)) PROVE TameAfter
    BY <1>1, <2>1, TrapsStay, TameStays
  <2>2. ASSUME Gives(stack, ex, Jump(kind, BreakLevel(n))) PROVE TameAfter
    <3>1. NoExitHandler(stack)
      BY <1>6, TameFacts DEF LoopControl, JumpsAllowed, NoExitHandler
    <3>2. Tame(stack, ex, Jump(kind, BreakLevel(n)), leaving)
      BY <1>1, <3>1, TameFacts, SameTame
    <3> QED BY <2>2, <3>2, TameGives
  <2> QED BY <1>6, <2>1, <2>2 DEF LoopControl
<1>7. ASSUME SubshellRedirectFails PROVE TameAfter
  <2>1. [InSubshell(ex) EXCEPT !.exit_code = 1].traps = {}
    BY <1>1 DEF InSubshell, Executor
  <2> QED BY <1>1, <1>7, <2>1, TameStays DEF SubshellRedirectFails
<1> QED BY <1>2, <1>3, <1>4, <1>5, <1>6, <1>7

LEMMA ExitShellTame ==
  ASSUME TameState, NEW s \in Status, ExitShell(s)
  PROVE  TameAfter
<1> DEFINE e == [ex EXCEPT !.exit_code = s, !.traps = @ \ {"EXIT"}]
           h == Handler("EXIT", s, "exit")
<1>1. /\ result.kind # "exit" /\ ex \in Executor /\ "ERR" \notin ex.traps
      /\ Goes(Append(stack, h), e, Running) \/ Gives(stack, e, ExitCode(s))
  BY KindsOfResults, TameFacts DEF ExitShell, InCommands
<1>2. "ERR" \notin e.traps
  BY <1>1 DEF Executor
<1>3. h \in Frames /\ h.kind = "EXIT" /\ h.for = "exit"
  BY DEF Frames, Elements, Handler
<1> HIDE DEF e, h
<1>4. ~IsJump(ExitCode(s))
  BY KindsOfResults DEF IsJump
<1> QED BY <1>1, <1>2, <1>3, <1>4, TameEnters, TameStays DEF StraightKinds

LEMMA SettleTame ==
  ASSUME TameState, Settle
  PROVE  TameAfter
<1>1. result.kind # "exit" /\ "ERR" \notin ex.traps /\ ~ErrTrapActs(ex)
  BY TameFacts DEF Settle, ErrTrapActs
<1>2. ~IsJump(Running) /\ \A x : ~IsJump(ExitCode(x))
  BY KindsOfResults DEF IsJump
<1>3. Goes(stack, ex, ExitCode(ex.exit_code)) \/ Goes(stack, ex, Running)
  BY <1>1 DEF Settle
<1> QED BY <1>1, <1>2, <1>3, TameStays

LEMMA EnterTame ==
  ASSUME TameState, NEW el \in Elements, el.kind \notin {"ERR", "EXIT"}, Enter(el)
  PROVE  TameAfter
<1>1. /\ Does(el.kind) /\ result.kind # "exit" /\ "ERR" \notin ex.traps /\ ex \in Executor
      /\ Goes(Append(stack, el), Counted(ex, el), Running)
  BY KindsOfResults, TameFacts DEF Enter, InCommands
<1>2. el.kind \in StraightKinds /\ el.kind # "shell" /\ el \in Frames
  BY <1>1, TameFacts, ElementCases, ElementsAreNoShells DEF StraightKinds, Kinds7
<1>3. "ERR" \notin Counted(ex, el).traps
  BY <1>1, TrapsStay
<1> QED BY <1>1, <1>2, <1>3, TameEnters

LEMMA EnterSubshellTame ==
  ASSUME TameState, EnterSubshell
  PROVE  TameAfter
<1> DEFINE el == Shell("commands", Saved(ex))
           e == InSubshell(ex)
<1>1. /\ result.kind # "exit" /\ "ERR" \notin ex.traps /\ ex \in Executor
      /\ Goes(Append(stack, el), e, Running)
  BY KindsOfResults, TameFacts DEF EnterSubshell, InCommands
<1>2. el \in Frames /\ el.kind = "shell" /\ el.was.traps = ex.traps
  BY <1>1 DEF Frames, ShellFrames, Shell, Saved, Locals, Executor
<1>3. e.traps = {}
  BY <1>1 DEF InSubshell, Executor
<1> HIDE DEF e, el
<1> QED BY <1>1, <1>2, <1>3, TameEnters DEF StraightKinds

\* The ends of lists, of the constructs these scripts have.
LEMMA OnTopTame ==
  ASSUME TameState, NEW kind, NEW phase, OnTop(kind, phase)
  PROVE  /\ stack # <<>> /\ Top.kind = kind /\ Top.phase = phase /\ kind \in StraightKinds
         /\ result = Running /\ result.kind = "running" /\ ~IsJump(Running)
         /\ Top \in Frames
BY TopKinds, KindsOfResults DEF OnTop, InCommands, IsJump

LEMMA StatusTraps ==
  ASSUME TameState
  PROVE  \A x : "ERR" \notin AtStatus(x).traps
BY TameFacts, TrapsStay DEF AtStatus

LEMMA ConstructEnds ==
  ASSUME TameState, NEW kind \in {"if", "loop", "for", "function"}, NEW phase, OnTop(kind, phase),
         NEW f, "ERR" \notin f.traps, NEW x \in {Running, Ok(TRUE), Ok(FALSE)}, Goes(Below, f, x)
  PROVE  TameAfter
<1>1. ~IsJump(x)
  BY KindsOfResults DEF IsJump
<1>2. stack # <<>> /\ Top.kind = kind /\ result.kind # "exit"
  BY OnTopTame
<1>3. Tame(Below, f, x, leaving)
  BY <1>1, <1>2, TameLeaves
<1> QED BY <1>3, TameGoes

LEMMA PhaseTame ==
  ASSUME TameState, NEW kind \in {"if", "loop", "for"}, NEW phase, OnTop(kind, phase),
         NEW el \in Frames, el.kind = kind, Phase(el)
  PROVE  TameAfter
<1> DEFINE e == Counted(Uncounted(ex, Top), el)
<1>1. stack # <<>> /\ Top.kind = el.kind /\ result.kind # "exit"
  BY OnTopTame
<1>2. "ERR" \notin e.traps
  <2>1. Uncounted(ex, Top) \in Executor
    BY TameFacts, CountedTyped
  <2> QED BY <2>1, TameFacts, TrapsStay
<1>3. Goes(Append(Below, el), e, Running)
  BY DEF Phase
<1> HIDE DEF e
<1>4. Tame(Append(Below, el), e, Running, leaving)
  BY <1>1, <1>2, TameTurns
<1> QED BY <1>3, <1>4, TameGoes

LEMMA ConditionEndsTame ==
  ASSUME TameState, ConditionEnds
  PROVE  TameAfter
<1>1. \A x : "ERR" \notin AtStatus(x).traps
  BY StatusTraps
<1>2. ASSUME OnTop("if", "condition"), Phase(Element("if", "commands")) PROVE TameAfter
  <2>1. Element("if", "commands") \in Frames /\ Element("if", "commands").kind = "if"
    BY PhaseElements, ElementsAreNoShells DEF Element
  <2> QED BY <1>2, <2>1, PhaseTame
<1>3. ASSUME OnTop("if", "condition"), Goes(Below, AtStatus(0), Ok(FALSE)) PROVE TameAfter
  BY <1>1, <1>3, ConstructEnds
<1>4. ASSUME OnTop("loop", "condition"), Phase(Loop("commands", Top.last)) PROVE TameAfter
  <2>1. Top.last \in Status
    BY <1>4, TameFacts, KindsOnTop, ElementCases
  <2>2. Loop("commands", Top.last) \in Frames /\ Loop("commands", Top.last).kind = "loop"
    BY <2>1, PhaseElements, ElementsAreNoShells DEF Loop
  <2> QED BY <1>4, <2>2, PhaseTame
<1>5. ASSUME OnTop("loop", "condition"), NEW x, Goes(Below, AtStatus(x), Ok(FALSE)) PROVE TameAfter
  BY <1>1, <1>5, ConstructEnds
<1> QED BY <1>2, <1>3, <1>4, <1>5 DEF ConditionEnds

LEMMA BodyEndsTame ==
  ASSUME TameState, BodyEnds
  PROVE  TameAfter
<1>1. \A x : "ERR" \notin AtStatus(x).traps
  BY StatusTraps
<1>2. "ERR" \notin ex.traps /\ ex.exit_code \in Status
  BY TameFacts, InvFacts
<1>3. ASSUME OnTop("loop", "commands"), Phase(Loop("condition", ex.exit_code)) PROVE TameAfter
  <2>1. /\ Loop("condition", ex.exit_code) \in Frames
        /\ Loop("condition", ex.exit_code).kind = "loop"
    BY <1>2, PhaseElements, ElementsAreNoShells DEF Loop
  <2> QED BY <1>3, <2>1, PhaseTame
<1>4. ASSUME OnTop("for", "commands"), Phase(Top) PROVE TameAfter
  BY <1>4, OnTopTame, PhaseTame
<1>5. ASSUME NEW kind \in {"for", "function"}, OnTop(kind, "commands"),
             NEW x \in {Ok(TRUE), Ok(FALSE)}, Goes(Below, AtStatus(ex.exit_code), x)
      PROVE  TameAfter
  BY <1>1, <1>5, ConstructEnds
<1>6. ASSUME OnTop("if", "commands"), Goes(Below, ex, Ok(FALSE)) PROVE TameAfter
  BY <1>2, <1>6, ConstructEnds
<1> QED BY <1>3, <1>4, <1>5, <1>6 DEF BodyEnds

LEMMA NoListEnds ==
  ASSUME TameState
  PROVE  ~ListEnds
BY OnTopTame DEF ListEnds, StraightKinds

LEMMA HandlerEndsTame ==
  ASSUME TameState, HandlerEnds
  PROVE  TameAfter
<1>1. OnTop("EXIT", "commands")
  BY OnTopTame DEF HandlerEnds, StraightKinds
<1>2. stack # <<>> /\ Top.kind = "EXIT" /\ ~IsJump(Running) /\ ~IsJump(ExitCode(Top.status))
      /\ ExitCode(Top.status).kind = "exit"
  BY <1>1, OnTopTame, KindsOfResults DEF IsJump
<1>3. "ERR" \notin AtStatus(Top.status).traps
  BY StatusTraps
<1>4. ASSUME Top.for = "exit", Gives(Below, AtStatus(Top.status), ExitCode(Top.status))
      PROVE  TameAfter
  <2>1. Tame(Below, AtStatus(Top.status), ExitCode(Top.status), leaving)
    BY <1>2, <1>3, TameLeaves
  <2> QED BY <1>4, <2>1, TameGives
<1>5. ASSUME Top.for # "exit", Goes(Below, AtStatus(Top.status), Running) PROVE TameAfter
  <2>1. Tame(Below, AtStatus(Top.status), Running, leaving)
    BY <1>2, <1>3, <1>5, TameLeaves
  <2> QED BY <1>5, <2>1, TameGoes
<1>6. ~OnTop("ERR", "commands")
  BY OnTopTame DEF StraightKinds
<1> QED BY <1>4, <1>5, <1>6 DEF HandlerEnds

LEMMA ShellTurnsTame ==
  ASSUME TameState, stack # <<>>, Top.kind = "shell", NEW phase \in {"exit", "done"},
         NEW f, "ERR" \notin f.traps
  PROVE  /\ Tame(Append(Below, Shell(phase, Top.was)), f, Running, leaving)
         /\ Shell(phase, Top.was) \in Frames /\ Below \in Seq(Frames)
<1>1. Top \in ShellFrames /\ Below \in Seq(Frames)
  BY TameFacts, InvFacts, ShellBelow DEF Top, Below
<1> DEFINE sh == Shell(phase, Top.was)
<1>2. sh \in Frames /\ sh.kind = "shell" /\ sh.phase = phase /\ sh.was = Top.was
  BY <1>1 DEF Frames, ShellFrames, Shell
<1> HIDE DEF sh
<1>3. Tame(Append(Below, sh), f, Running, leaving)
  BY <1>2, TameTurns
<1> QED BY <1>1, <1>2, <1>3 DEF sh

LEMMA ShellEndsTame ==
  ASSUME TameState, ShellEnds
  PROVE  TameAfter
<1>1. /\ stack # <<>> /\ Top.kind = "shell" /\ "ERR" \notin ex.traps
      /\ Goes(Append(Below, Shell("exit", Top.was)), ex, Running)
  BY OnTopTame, TameFacts DEF ShellEnds
<1>2. Tame(Append(Below, Shell("exit", Top.was)), ex, Running, leaving)
  BY <1>1, ShellTurnsTame
<1> QED BY <1>1, <1>2, TameGoes

LEMMA RunExitTrapTame ==
  ASSUME TameState, RunExitTrap
  PROVE  TameAfter
<1> DEFINE sh == Shell("done", Top.was)
           s == Append(Below, sh)
           h == Handler("EXIT", ex.exit_code, "shell")
           e == [ex EXCEPT !.traps = @ \ {"EXIT"}]
<1>1. /\ stack # <<>> /\ Top.kind = "shell" /\ "ERR" \notin ex.traps /\ ex \in Executor
      /\ ex.exit_code \in Status /\ Goes(s \o <<h>>, e, Running)
  BY TameFacts, InvFacts DEF RunExitTrap
<1>2. Tame(s, ex, Running, leaving) /\ sh \in Frames /\ Below \in Seq(Frames)
  BY <1>1, ShellTurnsTame
<1>3. "ERR" \notin e.traps
  BY <1>1 DEF Executor
<1>4. h \in Frames /\ h.kind = "EXIT" /\ h.for = "shell"
  <2>1. h \in Elements
    BY <1>1 DEF Elements
  <2>2. h.kind = "EXIT" /\ h.for = "shell"
    BY DEF Handler
  <2> QED BY <2>1, <2>2, ElementsAreNoShells
<1>5. sh.kind = "shell" /\ sh.phase = "done"
  BY DEF Shell
<1>6. Len(Below) = Len(stack) - 1
  BY <1>1, TameFacts, InvFacts, ShellBelow DEF Top, Below
<1> HIDE DEF sh, h, e
<1>7. s \in Seq(Frames) /\ s # <<>> /\ Last(s) = sh /\ DOMAIN s = DOMAIN stack
      /\ s \o <<h>> = Append(s, h)
  <2> DEFINE b == Below
  <2>1. b \in Seq(Frames) /\ sh \in Frames /\ h \in Frames
    BY <1>2, <1>4
  <2>2. Len(b) + 1 = Len(stack) /\ DOMAIN stack = 1 .. Len(stack)
    BY <1>6, TameFacts
  <2> HIDE DEF b
  <2>3. Append(b, sh) \in Seq(Frames) /\ DOMAIN Append(b, sh) = 1 .. Len(b) + 1
        /\ Append(b, sh) # <<>> /\ Append(b, sh) \o <<h>> = Append(Append(b, sh), h)
    BY <2>1
  <2>4. Last(Append(b, sh)) = sh
    BY <2>1 DEF Last
  <2> QED BY <2>2, <2>3, <2>4 DEF b
<1> HIDE DEF s
<1>8. Running.kind # "exit" /\ ~IsJump(Running) /\ leaving \subseteq DOMAIN s
  BY <1>7, TameFacts, KindsOfResults DEF IsJump
<1>9. Tame(Append(s, h), e, Running, leaving)
  BY <1>2, <1>3, <1>4, <1>5, <1>7, <1>8, PushTame DEF StraightKinds
<1> QED BY <1>1, <1>7, <1>9, TameGoes

LEMMA LeaveShellTame ==
  ASSUME TameState, LeaveShell
  PROVE  TameAfter
<1>1. /\ stack # <<>> /\ Top.kind = "shell" /\ result.kind # "exit"
      /\ "ERR" \notin ex.traps /\ ex \in Executor
  BY KindsOfResults, TameFacts DEF LeaveShell
<1>2. ~IsJump(Running) /\ ~IsJump(Ok(TRUE))
  BY KindsOfResults DEF IsJump
<1>3. ASSUME Len(stack) = 1, Goes(<<>>, ex, Running) PROVE TameAfter
  <2>1. Below = <<>>
    <3>1. Front(stack) \in Seq(Frames) /\ Len(Front(stack)) = Len(stack) - 1
      BY <1>1, TameFacts, PopIsPush
    <3> QED BY <1>3, <3>1 DEF Below
  <2>2. Tame(Below, ex, Running, leaving)
    BY <1>1, <1>2, TameLeaves
  <2> QED BY <1>3, <2>1, <2>2, TameGoes
<1>4. ASSUME Goes(Below, Restored(ex, Top.was), Ok(TRUE)) PROVE TameAfter
  <2>1. "ERR" \notin Restored(ex, Top.was).traps
    BY <1>1, TopKinds DEF Restored, Executor
  <2>2. Tame(Below, Restored(ex, Top.was), Ok(TRUE), leaving)
    BY <1>1, <1>2, <2>1, TameLeaves
  <2> QED BY <1>4, <2>2, TameGoes
<1> QED BY <1>3, <1>4 DEF LeaveShell

LEMMA CaughtByLoopTame ==
  ASSUME TameState, CaughtByLoop
  PROVE  TameAfter
<1>1. /\ stack # <<>> /\ Top.kind \in {"loop", "for"} /\ result.kind # "exit"
      /\ ex \in Executor /\ "ERR" \notin ex.traps /\ \A x : "ERR" \notin AtStatus(x).traps
      /\ ~IsJump(Ok(FALSE)) /\ ~IsJump(Running)
  BY TameFacts, StatusTraps, KindsOfResults DEF CaughtByLoop, Unwinding, IsLoopBody, IsJump
<1>2. ASSUME Goes(Below, AtStatus(0), Ok(FALSE)) PROVE TameAfter
  <2>1. Tame(Below, AtStatus(0), Ok(FALSE), leaving)
    BY <1>1, TameLeaves
  <2> QED BY <1>2, <2>1, TameGoes
<1>3. ASSUME Top.kind = "loop",
             Goes(Append(Below, Loop("condition", Top.last)),
                  Counted(AtStatus(0), Loop("condition", Top.last)), Running)
      PROVE  TameAfter
  <2> DEFINE el == Loop("condition", Top.last)
             e == Counted(AtStatus(0), el)
  <2>1. el \in Frames /\ el.kind = "loop"
    <3>1. Top.last \in Status
      BY <1>1, <1>3, TameFacts, Pops, ElementCases
    <3>2. el \in Elements
      BY <3>1, PhaseElements
    <3>3. el.kind = "loop"
      BY DEF Loop
    <3> QED BY <3>2, <3>3, ElementsAreNoShells
  <2>2. "ERR" \notin e.traps
    <3>1. Uncounted(ex, Top) \in Executor
      BY <1>1, CountedTyped
    <3>2. AtStatus(0) \in Executor
      BY <3>1, StatusValues DEF AtStatus, Executor
    <3> QED BY <1>1, <3>2, TrapsStay
  <2>3. Goes(Append(Below, el), e, Running)
    BY <1>3
  <2> HIDE DEF e, el
  <2>4. Tame(Append(Below, el), e, Running, leaving)
    BY <1>1, <1>3, <2>1, <2>2, TameTurns
  <2> QED BY <2>3, <2>4, TameGoes
<1>4. ASSUME Goes(stack, [ex EXCEPT !.exit_code = 0], Running) PROVE TameAfter
  BY <1>1, <1>4, TrapsStay, TameStays
<1> QED BY <1>2, <1>3, <1>4 DEF CaughtByLoop

LEMMA CaughtByFunctionTame ==
  ASSUME TameState, CaughtByFunction
  PROVE  TameAfter
<1>1. /\ stack # <<>> /\ Top.kind = "function" /\ result.kind # "exit"
      /\ Goes(Below, AtStatus(result.status), Ok(TRUE)) /\ ~IsJump(Ok(TRUE))
  BY KindsOfResults DEF CaughtByFunction, Unwinding, IsJump
<1>2. Tame(Below, AtStatus(result.status), Ok(TRUE), leaving)
  BY <1>1, StatusTraps, TameLeaves
<1> QED BY <1>1, <1>2, TameGoes

LEMMA NoneTakesExit ==
  ASSUME TameState
  PROVE  ~ExitTaken /\ ~ErrHandlerAbandoned
BY TopKinds DEF ExitTaken, ErrHandlerAbandoned, TakesExit, Unwinding, StraightKinds

LEMMA ExitHandlerExitsTame ==
  ASSUME TameState, ExitHandlerExits
  PROVE  TameAfter
<1> DEFINE e == AtStatus(result.status)
<1>1. /\ stack # <<>> /\ Top.kind = "EXIT" /\ result.kind = "exit" /\ "ERR" \notin e.traps
      /\ ~IsJump(Running) /\ ~IsJump(result)
      /\ IF Top.for = "exit" THEN Gives(Below, e, result) ELSE Goes(Below, e, Running)
  BY KindsOfResults, StatusTraps DEF ExitHandlerExits, Unwinding, IsJump
<1> HIDE DEF e
<1>2. Tame(Below, e, result, leaving)
  BY <1>1, TameLeaves
<1>3. Top.for # "exit" => Tame(Below, e, Running, leaving)
  BY <1>1, TameLeaves
<1> QED BY <1>1, <1>2, <1>3, TameGoes, TameGives

LEMMA ShellExitsTame ==
  ASSUME TameState, ShellExits
  PROVE  TameAfter
<1> DEFINE f == [ex EXCEPT !.exit_code = result.status]
<1>1. /\ stack # <<>> /\ Top.kind = "shell"
      /\ Goes(Append(Below, Shell("exit", Top.was)), f, Running)
  BY DEF ShellExits, Unwinding
<1>2. "ERR" \notin f.traps
  BY TameFacts, TrapsStay
<1> HIDE DEF f
<1>3. Tame(Append(Below, Shell("exit", Top.was)), f, Running, leaving)
  BY <1>1, <1>2, ShellTurnsTame
<1> QED BY <1>1, <1>3, TameGoes

LEMMA SubshellAbandonedTame ==
  ASSUME TameState, SubshellAbandoned
  PROVE  TameAfter
<1>1. /\ stack # <<>> /\ Top.kind = "shell" /\ ex \in Executor
      /\ HandsOn(Below, Restored(ex, Top.was), result, "shell")
  BY TameFacts DEF SubshellAbandoned, Unwinding
<1>2. "ERR" \notin Restored(ex, Top.was).traps
  BY <1>1, TopKinds DEF Restored, Executor
<1>3. Tame(Below, Restored(ex, Top.was), result, leaving)
  BY <1>1, <1>2, TameLeaves
<1> QED BY <1>1, <1>3, TameHandsOn

LEMMA PassesOnTame ==
  ASSUME TameState, PassesOn
  PROVE  TameAfter
<1> DEFINE r == Outwards(Top, result)
           e == Uncounted(ex, Top)
<1>1. /\ stack # <<>> /\ Unwinding /\ Top.kind # "shell" /\ ~(Top.kind = "EXIT" /\ result.kind = "exit")
      /\ Gives(Below, e, r) \/ HandsOn(Below, e, r, Top.kind)
  BY DEF PassesOn, Unwinding
<1>2. "ERR" \notin e.traps
  BY TameFacts, TrapsStay
<1>3. r.kind = result.kind
  <2>1. result \in Results
    BY TameFacts, InvFacts
  <2>2. CASE IsLoopBody(Top) /\ result.kind \in {"break", "continue"}
    <3>1. result = Jump(result.kind, result.level)
      BY <2>1, <2>2, ResultCases
    <3>2. r = [Jump(result.kind, result.level) EXCEPT !.level = @ - 1]
      BY <2>2, <3>1 DEF Outwards
    <3> QED BY <3>2 DEF Jump
  <2>3. CASE ~(IsLoopBody(Top) /\ result.kind \in {"break", "continue"})
    BY <2>3 DEF Outwards
  <2> QED BY <2>2, <2>3
<1>4. Top.kind # "EXIT"
  <2>1. ASSUME Top.kind = "EXIT" PROVE IsJump(result)
    BY <1>1, <2>1 DEF Unwinding, IsJump
  <2>2. IsJump(result) => NoExitHandler(stack)
    BY TameFacts DEF Tame
  <2>3. Top = stack[Len(stack)] /\ Len(stack) \in DOMAIN stack
    BY <1>1, TameFacts, PopFacts DEF Top
  <2> QED BY <2>1, <2>2, <2>3 DEF NoExitHandler
<1>5. IsJump(r) => IsJump(result)
  BY <1>3 DEF IsJump
<1> HIDE DEF e, r
<1>6. Tame(Below, e, r, leaving)
  BY <1>1, <1>2, <1>3, <1>4, <1>5, TameLeaves
<1> QED BY <1>1, <1>6, TameGives, TameHandsOn

LEMMA StepsTame ==
  ASSUME TameState, Steps
  PROVE  TameAfter
<1>1. 0 .. 1 = Status
  BY DEF Status
<1>2. ASSUME \/ \E s \in 0 .. 1 : Simple(s) \/ ReturnFrom(s)
             \/ \E on \in BOOLEAN : SetErrexit(on)
             \/ \E trap \in {"ERR", "EXIT"} : SetTrap(trap)
             \/ \E kind \in {"break", "continue"}, n \in 1 .. MaxLevel : LoopControl(kind, n)
             \/ SubshellRedirectFails
      PROVE  TameAfter
  BY <1>2, SimpleCommandsTame
<1>3. ASSUME NEW s \in 0 .. 1, ExitShell(s) PROVE TameAfter
  BY <1>1, <1>3, ExitShellTame
<1>4. ASSUME NEW kind \in {"for", "function", "invert", "time", "group"},
             Enter(Element(kind, "commands"))
      PROVE  TameAfter
  <2>1. Element(kind, "commands") \in Elements
    BY DEF Elements
  <2>2. Element(kind, "commands").kind \notin {"ERR", "EXIT"}
    BY DEF Element
  <2> QED BY <1>4, <2>1, <2>2, EnterTame
<1>5. ASSUME Enter(Element("if", "condition")) \/ Enter(Loop("condition", 0))
               \/ Enter(Element("and-or", "member"))
      PROVE  TameAfter
  <2>1. /\ Element("if", "condition") \in Elements /\ Loop("condition", 0) \in Elements
        /\ Element("and-or", "member") \in Elements
    BY StatusValues DEF Elements
  <2>2. /\ Element("if", "condition").kind \notin {"ERR", "EXIT"}
        /\ Loop("condition", 0).kind \notin {"ERR", "EXIT"}
        /\ Element("and-or", "member").kind \notin {"ERR", "EXIT"}
    BY DEF Element, Loop
  <2> QED BY <1>5, <2>1, <2>2, EnterTame
<1>6. ASSUME \/ EnterSubshell \/ Settle \/ ConditionEnds \/ BodyEnds \/ ListEnds \/ HandlerEnds
             \/ ShellEnds \/ RunExitTrap \/ LeaveShell
      PROVE  TameAfter
  BY <1>6, EnterSubshellTame, SettleTame, ConditionEndsTame, BodyEndsTame, NoListEnds,
     HandlerEndsTame, ShellEndsTame, RunExitTrapTame, LeaveShellTame
<1>7. ASSUME \/ CaughtByLoop \/ CaughtByFunction \/ ExitTaken \/ ErrHandlerAbandoned
             \/ ExitHandlerExits \/ ShellExits \/ SubshellAbandoned \/ PassesOn
      PROVE  TameAfter
  BY <1>7, CaughtByLoopTame, CaughtByFunctionTame, NoneTakesExit,
     ExitHandlerExitsTame, ShellExitsTame, SubshellAbandonedTame, PassesOnTame
<1> QED BY <1>2, <1>3, <1>4, <1>5, <1>6, <1>7 DEF Steps

LEMMA NextTame ==
  ASSUME CfInv, CfInv', ExitInv, [Next]_vars
  PROVE  ExitInv'
<1>1. CASE Next
  <2>1. features' = features
    BY <1>1 DEF Next
  <2>2. SUFFICES ASSUME Straight PROVE Tame(stack', ex', result', leaving')
    BY <2>1 DEF ExitInv, Straight
  <2>3. TameAfter
    BY <1>1, <2>2, StepsTame DEF TameState, ExitInv, Next
  <2>4. \A i \in leaving \cap Shells(stack') : Leaves(stack', result', i)
    BY <2>3 DEF TameAfter, Tame, AllLeave
  <2>5. ASSUME OnTheWayOut(stack', result'), NEW i \in InnermostShell(stack')
        PROVE  Leaves(stack', result', i)
    <3>1. stack' \in Seq(Frames)
      BY DEF CfInv, StateSound
    <3>2. Shape(stack')
      BY <2>3 DEF TameAfter, Tame
    <3>3. \A k \in DOMAIN stack' : stack'[k].kind = "EXIT" => stack'[k].for \in {"exit", "shell"}
      BY <3>1, ForOfHandlers
    <3> QED BY <2>5, <3>1, <3>2, <3>3, NewLeaversLeave
  <2>6. leaving' = (leaving \cap Shells(stack'))
                   \cup (IF OnTheWayOut(stack', result') THEN InnermostShell(stack') ELSE {})
    BY <1>1 DEF Next
  <2>7. AllLeave(stack', result', leaving')
    BY <2>4, <2>5, <2>6 DEF AllLeave
  <2> QED BY <2>3, <2>7 DEF TameAfter, Tame
<1>2. CASE UNCHANGED vars
  BY <1>2 DEF vars, ExitInv, Straight, Tame
<1> QED BY <1>1, <1>2

LEMMA InitTame ==
  ASSUME Init
  PROVE  ExitInv
<1> DEFINE sh == Shell("commands", Saved(ex))
<1>1. stack = <<sh>> /\ leaving = {} /\ ex.traps = {} /\ result = Running
  BY DEF Init
<1>2. sh.kind = "shell" /\ sh.was.traps = ex.traps
  BY DEF Shell, Saved
<1> HIDE DEF sh
<1>3. Shape(stack)
  BY <1>1, <1>2 DEF Shape, StraightKinds
<1>4. ~IsJump(result)
  BY <1>1, KindsOfResults DEF IsJump
<1> QED BY <1>1, <1>3, <1>4 DEF ExitInv, Tame, AllLeave

LEMMA TameExits ==
  ASSUME CfInv, ExitInv
  PROVE  ExitIsFinalOtherwise
<1>1. SUFFICES ASSUME Straight PROVE ExitIsFinal
  BY DEF ExitIsFinalOtherwise, Straight
<1>2. ASSUME NEW i \in leaving
      PROVE  \/ result.kind = "exit" \/ stack[i].phase \in {"exit", "done"}
             \/ \E j \in DOMAIN stack : j > i /\ stack[j].kind = "EXIT"
  <2>1. i \in Shells(stack)
    BY <1>2 DEF CfInv
  <2>2. Leaves(stack, result, i)
    BY <1>1, <1>2, <2>1 DEF ExitInv, Tame, AllLeave
  <2> QED BY <2>2 DEF Leaves, ExitHandlerOf
<1> QED BY <1>2 DEF ExitIsFinal

\* In a script without and-or lists, ! and time, { }, ERR handlers and handlers
\* that break or return, no nesting of loops, functions, conditions and
\* subshells keeps a shell that was told to exit from ending: it runs nothing
\* but EXIT handlers (execute_ast_inner's arms and run_exit_trap_for_status).
THEOREM ExitAlwaysFinal == Spec => []ExitIsFinalOtherwise
<1>1. Init => CfInv /\ ExitInv
  BY InitSound, InitTame
<1>2. (CfInv /\ ExitInv) /\ [Next]_vars => (CfInv /\ ExitInv)'
  BY NextSound, NextTame
<1>3. CfInv /\ ExitInv => ExitIsFinalOtherwise
  BY TameExits
<1> QED BY <1>1, <1>2, <1>3, PTL DEF Spec

-------------------------------------------------------------------------------
(* The structured control that is implemented: where its jumps land when    *)
(* one more construct is running.                                          *)

Names == S!Kinds

LEMMA UptoPush ==
  ASSUME NEW r \in Seq(Names), NEW k \in Names
  PROVE  /\ \A i \in -1 .. Len(r) : S!Upto(Append(r, k), i) = S!Upto(r, i)
         /\ S!Upto(Append(r, k), Len(r)) = r
         /\ S!Upto(Append(r, k), Len(r) + 1) = Append(r, k)
<1> DEFINE t == Append(r, k)
<1>1. Len(r) \in Nat /\ \A i \in 1 .. Len(r) : t[i] = r[i]
  OBVIOUS
<1>2. ASSUME NEW i \in -1 .. Len(r) PROVE S!Upto(t, i) = S!Upto(r, i)
  <2>1. S!Upto(t, i) = [j \in 1 .. i |-> t[j]] /\ S!Upto(r, i) = [j \in 1 .. i |-> r[j]]
    BY DEF S!Upto
  <2>2. \A j \in 1 .. i : t[j] = r[j]
    BY <1>1
  <2> HIDE DEF t
  <2> QED BY <2>1, <2>2
<1>3. S!Upto(r, Len(r)) = r
  BY DEF S!Upto
<1>4. S!Upto(t, Len(r) + 1) = t
  BY DEF S!Upto
<1> QED BY <1>1, <1>2, <1>3, <1>4

LEMMA InnermostPush ==
  ASSUME NEW r \in Seq(Names), NEW k \in Names, NEW K
  PROVE  /\ S!Innermost(r, K) \in 0 .. Len(r)
         /\ S!Innermost(r, K) > 0 => r[S!Innermost(r, K)] \in K
         /\ \A i \in S!Where(r, K) : i <= S!Innermost(r, K)
         /\ S!Innermost(Append(r, k), K) = IF k \in K THEN Len(r) + 1 ELSE S!Innermost(r, K)
<1> DEFINE t == Append(r, k)
           P == {0} \cup S!Where(r, K)
           Q == {0} \cup S!Where(t, K)
<1>1. /\ Len(r) \in Nat /\ DOMAIN r = 1 .. Len(r) /\ DOMAIN t = 1 .. Len(r) + 1
      /\ t[Len(r) + 1] = k /\ \A i \in 1 .. Len(r) : t[i] = r[i]
  OBVIOUS
<1>2. P \in SUBSET Nat /\ P # {} /\ \A y \in P : y <= Len(r)
  BY <1>1 DEF S!Where
<1>3. Q = P \cup (IF k \in K THEN {Len(r) + 1} ELSE {})
  <2> HIDE DEF t
  <2> QED BY <1>1 DEF S!Where
<1>4. S!Innermost(r, K) = Max(P) /\ S!Innermost(t, K) = Max(Q)
  BY DEF S!Innermost, S!Max, Max
<1>5. S!Where(r, K) \subseteq P /\ \A i \in P : i > 0 => r[i] \in K
  BY DEF S!Where
<1> HIDE DEF P, Q, t
<1>6. Max(P) \in P /\ \A y \in P : Max(P) >= y
  BY <1>1, <1>2, MaxExists
<1>7. k \notin K => Max(Q) = Max(P)
  BY <1>3
<1>8. ASSUME k \in K PROVE Max(Q) = Len(r) + 1
  <2>1. Q = P \cup {Len(r) + 1}
    BY <1>3, <1>8
  <2>2. Len(r) \in Nat /\ Len(r) + 1 \in Nat
    BY <1>1
  <2>3. \A y \in P : y \in Nat /\ y <= Len(r)
    BY <1>2
  <2>4. \A y \in Q : y \in Nat /\ Len(r) + 1 >= y
    BY <2>1, <2>2, <2>3
  <2>5. Q \in SUBSET Nat /\ Len(r) + 1 \in Q
    BY <2>1, <2>4
  <2> QED BY <2>4, <2>5, MaxIs
<1>9. Max(P) \in 0 .. Len(r)
  <2> DEFINE m == Max(P)
  <2>1. m \in P /\ Len(r) \in Nat
    BY <1>1, <1>6
  <2> HIDE DEF m
  <2>2. m \in Nat /\ m <= Len(r)
    BY <1>2, <2>1
  <2>3. m \in 0 .. Len(r)
    BY <2>1, <2>2
  <2> QED BY <2>3 DEF m
<1>10. \A i \in S!Where(r, K) : i <= Max(P)
  BY <1>2, <1>5, <1>6
<1> QED BY <1>4, <1>5, <1>6, <1>7, <1>8, <1>9, <1>10 DEF t

LEMMA ReturnPush ==
  ASSUME NEW r \in Seq(Names), NEW k \in Names
  PROVE  S!ReturnTo(Append(r, k)) = IF k \in {"function", "trap"} THEN r ELSE S!ReturnTo(r)
<1> DEFINE K == {"function", "trap"}
           i == S!Innermost(r, K)
           h == S!Innermost(Append(r, k), K)
<1>1. i \in 0 .. Len(r) /\ h = IF k \in K THEN Len(r) + 1 ELSE i
  BY InnermostPush
<1>2. S!ReturnTo(Append(r, k)) = S!Upto(Append(r, k), h - 1) /\ S!ReturnTo(r) = S!Upto(r, i - 1)
  BY DEF S!ReturnTo
<1>3. k \in K <=> k \in {"function", "trap"}
  OBVIOUS
<1> HIDE DEF i, h, K
<1>4. CASE k \in K
  <2>1. h - 1 = Len(r)
    BY <1>1, <1>4
  <2> QED BY <1>2, <1>3, <1>4, <2>1, UptoPush
<1>5. CASE k \notin K
  <2>1. h - 1 = i - 1 /\ i - 1 \in -1 .. Len(r)
    BY <1>1, <1>5
  <2> QED BY <1>2, <1>3, <1>5, <2>1, UptoPush
<1> QED BY <1>4, <1>5

LEMMA ExitPush ==
  ASSUME NEW r \in Seq(Names), NEW k \in Names
  PROVE  S!ExitTo(Append(r, k)) =
           IF k = "shell" THEN Append(r, "leaving")
           ELSE IF k \in {"list", "trap", "last"} THEN r ELSE S!ExitTo(r)
<1> DEFINE K == {"list", "trap", "shell", "last"}
           t == Append(r, k)
           i == S!Innermost(r, K)
           h == S!Innermost(t, K)
<1>1. i \in 0 .. Len(r) /\ h = IF k \in K THEN Len(r) + 1 ELSE i
  BY InnermostPush
<1>2. /\ S!ExitTo(t) = IF h > 0 /\ t[h] = "shell" THEN Append(S!Upto(t, h - 1), "leaving")
                                                  ELSE S!Upto(t, h - 1)
      /\ S!ExitTo(r) = IF i > 0 /\ r[i] = "shell" THEN Append(S!Upto(r, i - 1), "leaving")
                                                  ELSE S!Upto(r, i - 1)
  BY DEF S!ExitTo
<1>3. /\ k \in K <=> k = "shell" \/ k \in {"list", "trap", "last"}
      /\ k \in {"list", "trap", "last"} => k # "shell"
  OBVIOUS
<1>4. /\ Len(r) \in Nat /\ t[Len(r) + 1] = k /\ \A x \in 1 .. Len(r) : t[x] = r[x]
  OBVIOUS
<1>5. /\ \A x \in -1 .. Len(r) : S!Upto(t, x) = S!Upto(r, x)
      /\ S!Upto(t, Len(r)) = r
  BY UptoPush
<1> HIDE DEF i, h, K, t
<1>6. CASE k \in K
  <2>1. h - 1 = Len(r) /\ h > 0 /\ t[h] = k
    BY <1>1, <1>4, <1>6
  <2> QED BY <1>2, <1>3, <1>5, <1>6, <2>1 DEF t
<1>7. CASE k \notin K
  <2>1. h = i /\ i - 1 \in -1 .. Len(r) /\ (i > 0 => t[i] = r[i])
    BY <1>1, <1>4, <1>7
  <2>2. S!Upto(t, h - 1) = S!Upto(r, i - 1)
    BY <2>1, <1>5
  <2> QED BY <1>2, <1>3, <1>7, <2>1, <2>2 DEF t
<1> QED BY <1>6, <1>7

LEMMA SameCardinality == \A X : S!Cardinality(X) = Cardinality(X)
BY DEF S!Cardinality, Cardinality

\* How many of some numbers are as great as i.
AsGreat(L, i) == Cardinality({j \in L : j >= i})

\* Of finitely many numbers there is one that n of them are as great as.
LEMMA CountDown ==
  ASSUME NEW L \in SUBSET Nat, IsFiniteSet(L)
  PROVE  /\ \A i \in L : AsGreat(L, i) \in 1 .. Cardinality(L)
         /\ \A i, h \in L : AsGreat(L, i) = AsGreat(L, h) => i = h
         /\ \A n \in 1 .. Cardinality(L) : \E i \in L : AsGreat(L, i) = n
<1> DEFINE f == [i \in L |-> AsGreat(L, i)]
           c == Cardinality(L)
<1>1. c \in Nat
  BY FS_CardinalityType
<1>2. ASSUME NEW i \in L PROVE AsGreat(L, i) \in 1 .. c
  <2> DEFINE T == {j \in L : j >= i}
  <2>1. T \in SUBSET L /\ i \in T
    OBVIOUS
  <2> HIDE DEF T
  <2>2. IsFiniteSet(T) /\ Cardinality(T) <= Cardinality(L)
    BY <2>1, FS_Subset
  <2>3. Cardinality(T) \in Nat /\ Cardinality(T) # 0
    BY <2>1, <2>2, FS_CardinalityType, FS_EmptySet
  <2>4. Cardinality(T) \in 1 .. c
    BY <1>1, <2>2, <2>3
  <2> QED BY <2>4 DEF T, AsGreat
<1>3. ASSUME NEW i \in L, NEW h \in L, i < h PROVE AsGreat(L, h) < AsGreat(L, i)
  <2> DEFINE T == {j \in L : j >= i}
             U == {j \in L : j >= h}
  <2>1. T \in SUBSET L /\ i \in T
    OBVIOUS
  <2>2. ASSUME NEW j \in U PROVE j \in T \ {i}
    <3>1. j \in Nat /\ i \in Nat /\ h \in Nat /\ j >= h /\ j \in L
      BY <2>2
    <3>2. j >= i /\ j # i
      BY <1>3, <3>1
    <3> QED BY <3>1, <3>2
  <2> HIDE DEF T, U
  <2>3. U \in SUBSET (T \ {i})
    BY <2>2
  <2>4. IsFiniteSet(T)
    BY <2>1, FS_Subset
  <2>5. /\ IsFiniteSet(T \ {i}) /\ Cardinality(T \ {i}) = Cardinality(T) - 1
    BY <2>1, <2>4, FS_RemoveElement
  <2>6. Cardinality(U) <= Cardinality(T \ {i}) /\ IsFiniteSet(U)
    BY <2>3, <2>5, FS_Subset
  <2>7. Cardinality(U) \in Nat /\ Cardinality(T) \in Nat
    BY <2>4, <2>6, FS_CardinalityType
  <2>8. Cardinality(U) < Cardinality(T)
    BY <2>5, <2>6, <2>7
  <2> QED BY <2>8 DEF T, U, AsGreat
<1>4. ASSUME NEW i \in L, NEW h \in L, AsGreat(L, i) = AsGreat(L, h) PROVE i = h
  <2>1. i \in Nat /\ h \in Nat /\ AsGreat(L, i) \in Nat /\ AsGreat(L, h) \in Nat
    BY <1>1, <1>2
  <2>2. ~(i < h) /\ ~(h < i)
    BY <1>3, <1>4, <2>1
  <2> QED BY <2>1, <2>2
<1>5. f \in Injection(L, 1 .. c)
  BY <1>2, <1>4 DEF Injection, IsInjective
<1>6. IsFiniteSet(1 .. c) /\ Cardinality(1 .. c) = c
  BY <1>1, FS_Interval
<1>7. f \in Surjection(L, 1 .. c)
  BY <1>5, <1>6, FS_Injection
<1>8. ASSUME NEW n \in 1 .. c PROVE \E i \in L : AsGreat(L, i) = n
  BY <1>7 DEF Surjection
<1> QED BY <1>2, <1>4, <1>8

Walls == {"shell", "leaving", "trap"}
LoopNames == {"body", "for"}

LEMMA WallPush ==
  ASSUME NEW r \in Seq(Names), NEW k \in Names
  PROVE  /\ S!Wall(r) \in 0 .. Len(r) /\ (S!Wall(r) > 0 => r[S!Wall(r)] \in Walls)
         /\ S!Wall(Append(r, k)) = IF k \in Walls THEN Len(r) + 1 ELSE S!Wall(r)
<1>1. /\ S!Wall(r) = S!Innermost(r, Walls)
      /\ S!Wall(Append(r, k)) = S!Innermost(Append(r, k), Walls)
  BY DEF S!Wall, Walls
<1> QED BY <1>1, InnermostPush

LEMMA LoopsPush ==
  ASSUME NEW r \in Seq(Names), NEW k \in Names
  PROVE  /\ S!Loops(r) \in SUBSET (1 .. Len(r)) /\ IsFiniteSet(S!Loops(r))
         /\ k \in Walls => S!Loops(Append(r, k)) = {}
         /\ k \in LoopNames => S!Loops(Append(r, k)) = S!Loops(r) \cup {Len(r) + 1}
         /\ k \notin Walls \cup LoopNames => S!Loops(Append(r, k)) = S!Loops(r)
<1> DEFINE t == Append(r, k)
           w == S!Wall(r)
           v == S!Wall(t)
<1>1. w \in 0 .. Len(r) /\ v = IF k \in Walls THEN Len(r) + 1 ELSE w
  BY WallPush
<1>2. /\ Len(r) \in Nat /\ DOMAIN r = 1 .. Len(r) /\ DOMAIN t = 1 .. Len(r) + 1
      /\ t[Len(r) + 1] = k /\ \A i \in 1 .. Len(r) : t[i] = r[i]
  OBVIOUS
<1>3. /\ S!Loops(r) = {i \in 1 .. Len(r) : r[i] \in LoopNames /\ i > w}
      /\ S!Loops(t) = {i \in 1 .. Len(r) + 1 : t[i] \in LoopNames /\ i > v}
  BY <1>2, Zenon DEF S!Loops, S!Where, LoopNames
<1>4. LoopNames \cap Walls = {}
  BY DEF LoopNames, Walls
<1> HIDE DEF t, w, v
<1>5. S!Loops(r) \in SUBSET (1 .. Len(r))
  BY <1>3
<1>6. IsFiniteSet(S!Loops(r))
  <2>1. 1 \in Int /\ Len(r) \in Int
    BY <1>2
  <2>2. IsFiniteSet(1 .. Len(r))
    BY <2>1, FS_Interval
  <2> QED BY <1>5, <2>2, FS_Subset
<1>7. ASSUME k \in Walls PROVE S!Loops(t) = {}
  <2>1. v = Len(r) + 1
    BY <1>1, <1>7
  <2> QED BY <1>2, <1>3, <2>1
<1>8. ASSUME k \in LoopNames PROVE S!Loops(t) = S!Loops(r) \cup {Len(r) + 1}
  <2>1. v = w
    BY <1>1, <1>4, <1>8
  <2> QED BY <1>1, <1>2, <1>3, <1>8, <2>1
<1>9. ASSUME k \notin Walls \cup LoopNames PROVE S!Loops(t) = S!Loops(r)
  <2>1. v = w /\ k \notin LoopNames
    BY <1>1, <1>9
  <2> QED BY <1>1, <1>2, <1>3, <2>1
<1> QED BY <1>5, <1>6, <1>7, <1>8, <1>9 DEF t

\* The n-th loop out is the one that n of the loops are as far in as.
LEMMA LoopOutIs ==
  ASSUME NEW r \in Seq(Names), NEW n \in 1 .. Cardinality(S!Loops(r))
  PROVE  /\ S!LoopOut(r, n) \in S!Loops(r) /\ AsGreat(S!Loops(r), S!LoopOut(r, n)) = n
         /\ \A i \in S!Loops(r) : AsGreat(S!Loops(r), i) = n => i = S!LoopOut(r, n)
<1> DEFINE L == S!Loops(r)
<1>1. L \in SUBSET Nat /\ IsFiniteSet(L)
  <2>1. \E k : k \in Names
    BY DEF Names, S!Kinds
  <2>2. L \in SUBSET (1 .. Len(r)) /\ IsFiniteSet(L)
    BY <2>1, LoopsPush
  <2> QED BY <2>2
<1>2. S!LoopOut(r, n) = CHOOSE i \in L : AsGreat(L, i) = n
  BY SameCardinality DEF S!LoopOut, AsGreat
<1> HIDE DEF L
<1>3. n \in 1 .. Cardinality(L)
  BY DEF L
<1>4. /\ \E i \in L : AsGreat(L, i) = n
      /\ \A i, h \in L : AsGreat(L, i) = AsGreat(L, h) => i = h
  BY <1>1, <1>3, CountDown
<1>5. S!LoopOut(r, n) \in L /\ AsGreat(L, S!LoopOut(r, n)) = n
  BY <1>2, <1>4, Zenon
<1>6. \A i \in L : AsGreat(L, i) = n => i = S!LoopOut(r, n)
  BY <1>4, <1>5, Zenon
<1> QED BY <1>5, <1>6 DEF L

LEMMA LoopOutPush ==
  ASSUME NEW r \in Seq(Names), NEW k \in LoopNames, NEW n \in 1 .. Cardinality(S!Loops(r)) + 1
  PROVE  /\ Cardinality(S!Loops(Append(r, k))) = Cardinality(S!Loops(r)) + 1
         /\ n = 1 => S!LoopOut(Append(r, k), n) = Len(r) + 1
         /\ n > 1 => S!LoopOut(Append(r, k), n) = S!LoopOut(r, n - 1)
<1> DEFINE t == Append(r, k)
           L == S!Loops(r)
           M == S!Loops(t)
           x == Len(r) + 1
           c == Cardinality(L)
<1>1. k \in Names /\ t \in Seq(Names)
  BY DEF LoopNames, Names, S!Kinds, S!Constructs
<1>2. /\ L \in SUBSET (1 .. Len(r)) /\ IsFiniteSet(L) /\ M = L \cup {x}
      /\ Len(r) \in Nat
  BY <1>1, LoopsPush
<1>3. n \in 1 .. c + 1 /\ c \in Nat
  BY <1>2, FS_CardinalityType
<1> HIDE DEF L, M, x, t, c
<1>4. x \notin L /\ x \in Nat /\ \A i \in L : i \in Nat /\ i < x
  BY <1>2 DEF x
<1>5. Cardinality(M) = c + 1
  BY <1>2, <1>4, FS_AddElement DEF c
<1>6. AsGreat(M, x) = 1
  <2>1. x \in M /\ x >= x /\ \A j \in M : j >= x => j = x
    BY <1>2, <1>4
  <2>2. {j \in M : j >= x} = {x}
    BY <2>1
  <2> QED BY <2>2, FS_Singleton DEF AsGreat
<1>7. ASSUME NEW i \in L PROVE AsGreat(M, i) = AsGreat(L, i) + 1
  <2> DEFINE T == {j \in L : j >= i}
  <2>1. {j \in M : j >= i} = T \cup {x}
    BY <1>2, <1>4
  <2>2. T \in SUBSET L /\ x \notin T
    BY <1>4
  <2> HIDE DEF T
  <2>3. IsFiniteSet(T)
    BY <1>2, <2>2, FS_Subset
  <2>4. Cardinality(T \cup {x}) = Cardinality(T) + 1
    BY <2>2, <2>3, FS_AddElement
  <2> QED BY <2>1, <2>4 DEF T, AsGreat
<1>8. n \in 1 .. Cardinality(S!Loops(t))
  BY <1>3, <1>5 DEF M
<1>9. \A i \in M : AsGreat(M, i) = n => i = S!LoopOut(t, n)
  BY <1>1, <1>8, LoopOutIs DEF M
<1>10. ASSUME n = 1 PROVE S!LoopOut(t, n) = x
  BY <1>2, <1>6, <1>9, <1>10
<1>11. ASSUME n > 1 PROVE S!LoopOut(t, n) = S!LoopOut(r, n - 1)
  <2> DEFINE i == S!LoopOut(r, n - 1)
  <2>1. n - 1 \in 1 .. Cardinality(S!Loops(r))
    BY <1>3, <1>11 DEF c, L
  <2>2. i \in L /\ AsGreat(L, i) = n - 1
    BY <2>1, LoopOutIs DEF L
  <2> HIDE DEF i
  <2>3. AsGreat(M, i) = n
    BY <1>3, <1>7, <2>2
  <2>4. i \in M
    BY <1>2, <2>2
  <2>5. i = S!LoopOut(t, n)
    BY <1>9, <2>3, <2>4
  <2> QED BY <2>5 DEF i
<1> QED BY <1>5, <1>10, <1>11 DEF c, M, L, x, t

\* A break that a construct does not take is taken by one around it.
LEMMA BreakPush ==
  ASSUME NEW r \in Seq(Names), NEW k \in Names, NEW n \in Nat \ {0}
  PROVE  /\ k \in Walls => S!BreakTo(Append(r, k), n) = r
         /\ k \in LoopNames =>
              S!BreakTo(Append(r, k), n) = IF n = 1 THEN r ELSE S!BreakTo(r, n - 1)
         /\ k \notin Walls \cup LoopNames => S!BreakTo(Append(r, k), n) = S!BreakTo(r, n)
<1> DEFINE t == Append(r, k)
           c == Cardinality(S!Loops(r))
           d == Cardinality(S!Loops(t))
           w == S!Wall(r)
           v == S!Wall(t)
<1>1. /\ \A i \in -1 .. Len(r) : S!Upto(t, i) = S!Upto(r, i)
      /\ S!Upto(t, Len(r)) = r
  BY UptoPush
<1>2. /\ w \in 0 .. Len(r) /\ v = IF k \in Walls THEN Len(r) + 1 ELSE w
  BY WallPush
<1>3. c \in Nat /\ S!Loops(r) \in SUBSET (1 .. Len(r)) /\ Len(r) \in Nat
  BY LoopsPush, FS_CardinalityType
<1>4. ASSUME NEW m \in Nat
      PROVE  /\ S!BreakTo(t, m) = IF m <= d THEN S!Upto(t, S!LoopOut(t, m) - 1) ELSE S!Upto(t, v - 1)
             /\ S!BreakTo(r, m) = IF m <= c THEN S!Upto(r, S!LoopOut(r, m) - 1) ELSE S!Upto(r, w - 1)
  BY SameCardinality DEF S!BreakTo
<1>5. ASSUME NEW m \in 1 .. c PROVE S!LoopOut(r, m) - 1 \in -1 .. Len(r)
  <2>1. S!LoopOut(r, m) \in S!Loops(r)
    BY <1>5, LoopOutIs
  <2> QED BY <1>3, <2>1
<1>6. w - 1 \in -1 .. Len(r)
  BY <1>2, <1>3
<1>7. ASSUME k \in Walls PROVE S!BreakTo(t, n) = r
  <2>1. S!Loops(t) = {} /\ v - 1 = Len(r)
    BY <1>2, <1>3, <1>7, LoopsPush
  <2>2. d = 0
    BY <2>1, FS_EmptySet
  <2> QED BY <1>1, <1>4, <2>1, <2>2
<1>8. ASSUME k \in LoopNames PROVE S!BreakTo(t, n) = IF n = 1 THEN r ELSE S!BreakTo(r, n - 1)
  <2>1. k \notin Walls
    BY <1>8 DEF LoopNames, Walls
  <2>2. /\ d = c + 1
        /\ n = 1 => S!LoopOut(t, n) = Len(r) + 1
        /\ n \in 2 .. c + 1 => S!LoopOut(t, n) = S!LoopOut(r, n - 1)
    <3>1. 1 \in 1 .. c + 1
      BY <1>3
    <3>2. d = c + 1 /\ S!LoopOut(t, 1) = Len(r) + 1
      BY <1>8, <3>1, LoopOutPush
    <3>3. ASSUME n \in 2 .. c + 1 PROVE S!LoopOut(t, n) = S!LoopOut(r, n - 1)
      <4>1. n \in 1 .. c + 1 /\ n > 1
        BY <3>3
      <4> QED BY <1>8, <4>1, LoopOutPush
    <3> QED BY <3>2, <3>3
  <2> HIDE DEF t, c, d, w, v
  <2>3. CASE n = 1
    <3>1. n <= d /\ S!LoopOut(t, n) - 1 = Len(r)
      BY <1>3, <2>2, <2>3
    <3> QED BY <1>1, <1>4, <2>3, <3>1
  <2>4. CASE n \in 2 .. c + 1
    <3>1. n - 1 \in 1 .. c /\ n <= d /\ n - 1 <= c /\ n - 1 \in Nat
      BY <1>3, <2>2, <2>4
    <3>2. S!BreakTo(t, n) = S!Upto(t, S!LoopOut(r, n - 1) - 1)
      BY <1>4, <2>2, <2>4, <3>1
    <3>3. S!BreakTo(r, n - 1) = S!Upto(r, S!LoopOut(r, n - 1) - 1)
      BY <1>4, <3>1
    <3>4. S!Upto(t, S!LoopOut(r, n - 1) - 1) = S!Upto(r, S!LoopOut(r, n - 1) - 1)
      BY <1>1, <1>5, <3>1
    <3> QED BY <2>4, <3>2, <3>3, <3>4
  <2>5. CASE n > c + 1
    <3>1. n - 1 \in Nat /\ ~(n - 1 <= c) /\ ~(n <= d) /\ n # 1
      BY <1>3, <2>2, <2>5
    <3>2. S!BreakTo(t, n) = S!Upto(t, w - 1) /\ S!BreakTo(r, n - 1) = S!Upto(r, w - 1)
      BY <1>2, <1>4, <2>1, <3>1
    <3> QED BY <1>1, <1>6, <3>1, <3>2
  <2> QED BY <1>3, <2>3, <2>4, <2>5
<1>9. ASSUME k \notin Walls \cup LoopNames PROVE S!BreakTo(t, n) = S!BreakTo(r, n)
  <2>1. S!Loops(t) = S!Loops(r) /\ v = w
    BY <1>2, <1>9, LoopsPush
  <2>2. S!LoopOut(t, n) = S!LoopOut(r, n)
    BY <2>1 DEF S!LoopOut
  <2>3. d = c
    BY <2>1
  <2> HIDE DEF t, c, d, w, v
  <2>4. CASE n <= c
    <3>1. n \in 1 .. c
      BY <1>3, <2>4
    <3> QED BY <1>1, <1>4, <1>5, <2>2, <2>3, <2>4, <3>1
  <2>5. CASE ~(n <= c)
    BY <1>1, <1>4, <1>6, <2>1, <2>3, <2>5
  <2> QED BY <2>4, <2>5
<1> QED BY <1>7, <1>8, <1>9

LEMMA ContinuePush ==
  ASSUME NEW r \in Seq(Names), NEW k \in Names, NEW n \in Nat \ {0}
  PROVE  /\ k \in Walls => S!ContinueTo(Append(r, k), n) = r
         /\ k \in LoopNames /\ n > 1 => S!ContinueTo(Append(r, k), n) = S!ContinueTo(r, n - 1)
         /\ k = "for" /\ n = 1 => S!ContinueTo(Append(r, k), n) = Append(r, k)
         /\ k = "body" /\ n = 1 => S!ContinueTo(Append(r, k), n) = Append(r, "loop")
         /\ k \notin Walls \cup LoopNames => S!ContinueTo(Append(r, k), n) = S!ContinueTo(r, n)
<1> DEFINE t == Append(r, k)
           c == Cardinality(S!Loops(r))
           d == Cardinality(S!Loops(t))
           w == S!Wall(r)
           v == S!Wall(t)
           Again(s, i) == IF s[i] = "for" THEN S!Upto(s, i)
                                          ELSE Append(S!Upto(s, i - 1), "loop")
<1>1. /\ \A i \in -1 .. Len(r) : S!Upto(t, i) = S!Upto(r, i)
      /\ S!Upto(t, Len(r)) = r /\ S!Upto(t, Len(r) + 1) = t
  BY UptoPush
<1>2. /\ w \in 0 .. Len(r) /\ v = IF k \in Walls THEN Len(r) + 1 ELSE w
  BY WallPush
<1>3. /\ c \in Nat /\ S!Loops(r) \in SUBSET (1 .. Len(r)) /\ Len(r) \in Nat
      /\ t[Len(r) + 1] = k /\ \A i \in 1 .. Len(r) : t[i] = r[i]
  BY LoopsPush, FS_CardinalityType
<1>4. ASSUME NEW m \in Nat
      PROVE  /\ S!ContinueTo(t, m) = IF m > d THEN S!Upto(t, v - 1) ELSE Again(t, S!LoopOut(t, m))
             /\ S!ContinueTo(r, m) = IF m > c THEN S!Upto(r, w - 1) ELSE Again(r, S!LoopOut(r, m))
  BY SameCardinality DEF S!ContinueTo
<1>5. ASSUME NEW i \in 1 .. Len(r) PROVE Again(t, i) = Again(r, i)
  <2>1. i \in -1 .. Len(r) /\ i - 1 \in -1 .. Len(r)
    BY <1>3
  <2>2. S!Upto(t, i) = S!Upto(r, i) /\ S!Upto(t, i - 1) = S!Upto(r, i - 1) /\ t[i] = r[i]
    BY <1>1, <1>3, <2>1
  <2> QED BY <2>2
<1>6. w - 1 \in -1 .. Len(r)
  BY <1>2, <1>3
<1>7. ASSUME NEW m \in 1 .. c PROVE S!LoopOut(r, m) \in 1 .. Len(r)
  <2>1. S!LoopOut(r, m) \in S!Loops(r)
    BY <1>7, LoopOutIs
  <2> QED BY <1>3, <2>1
<1>8. ASSUME k \in Walls PROVE S!ContinueTo(t, n) = r
  <2>1. S!Loops(t) = {} /\ v - 1 = Len(r)
    BY <1>2, <1>3, <1>8, LoopsPush
  <2>2. d = 0
    BY <2>1, FS_EmptySet
  <2> QED BY <1>1, <1>4, <2>1, <2>2
<1>9. ASSUME k \in LoopNames
      PROVE  /\ d = c + 1 /\ v = w
             /\ S!LoopOut(t, 1) = Len(r) + 1
             /\ n \in 2 .. c + 1 => S!LoopOut(t, n) = S!LoopOut(r, n - 1)
  <2>1. v = w
    BY <1>2, <1>9 DEF LoopNames, Walls
  <2>2. 1 \in 1 .. c + 1
    BY <1>3
  <2>3. d = c + 1 /\ S!LoopOut(t, 1) = Len(r) + 1
    BY <1>9, <2>2, LoopOutPush
  <2>4. ASSUME n \in 2 .. c + 1 PROVE S!LoopOut(t, n) = S!LoopOut(r, n - 1)
    <3>1. n \in 1 .. c + 1 /\ n > 1
      BY <2>4
    <3> QED BY <1>9, <3>1, LoopOutPush
  <2> QED BY <2>1, <2>3, <2>4
<1>10. ASSUME k \in LoopNames, n = 1 PROVE S!ContinueTo(t, n) = Again(t, Len(r) + 1)
  <2> HIDE DEF t, c, d, w, v, Again
  <2>1. ~(n > d) /\ S!LoopOut(t, n) = Len(r) + 1
    BY <1>3, <1>9, <1>10
  <2> QED BY <1>4, <2>1
<1>11. ASSUME k = "for", n = 1 PROVE S!ContinueTo(t, n) = t
  <2>1. k \in LoopNames
    BY <1>11 DEF LoopNames
  <2> QED BY <1>1, <1>3, <1>10, <1>11, <2>1
<1>12. ASSUME k = "body", n = 1 PROVE S!ContinueTo(t, n) = Append(r, "loop")
  <2>1. k \in LoopNames
    BY <1>12 DEF LoopNames
  <2>2. Len(r) + 1 - 1 = Len(r)
    BY <1>3
  <2>3. Again(t, Len(r) + 1) = Append(S!Upto(t, Len(r)), "loop")
    BY <1>3, <1>12, <2>2
  <2> QED BY <1>1, <1>10, <1>12, <2>1, <2>3
<1>13. ASSUME k \in LoopNames, n > 1 PROVE S!ContinueTo(t, n) = S!ContinueTo(r, n - 1)
  <2> HIDE DEF t, c, d, w, v, Again
  <2>1. CASE n \in 2 .. c + 1
    <3>1. n - 1 \in 1 .. c /\ ~(n > d) /\ ~(n - 1 > c) /\ n - 1 \in Nat
      BY <1>3, <1>9, <1>13, <2>1
    <3>2. S!ContinueTo(t, n) = Again(t, S!LoopOut(r, n - 1))
      BY <1>4, <1>9, <1>13, <2>1, <3>1
    <3>3. S!ContinueTo(r, n - 1) = Again(r, S!LoopOut(r, n - 1))
      BY <1>4, <3>1
    <3> QED BY <1>5, <1>7, <3>1, <3>2, <3>3
  <2>2. CASE n > c + 1
    <3>1. n - 1 \in Nat /\ n - 1 > c /\ n > d
      BY <1>3, <1>9, <1>13, <2>2
    <3>2. S!ContinueTo(t, n) = S!Upto(t, w - 1) /\ S!ContinueTo(r, n - 1) = S!Upto(r, w - 1)
      BY <1>4, <1>9, <1>13, <3>1
    <3> QED BY <1>1, <1>6, <3>2
  <2> QED BY <1>3, <1>13, <2>1, <2>2
<1>14. ASSUME k \notin Walls \cup LoopNames PROVE S!ContinueTo(t, n) = S!ContinueTo(r, n)
  <2>1. S!Loops(t) = S!Loops(r) /\ v = w
    BY <1>2, <1>14, LoopsPush
  <2>2. S!LoopOut(t, n) = S!LoopOut(r, n)
    BY <2>1 DEF S!LoopOut
  <2>3. d = c
    BY <2>1
  <2> HIDE DEF t, c, d, w, v, Again
  <2>4. CASE ~(n > c)
    <3>1. n \in 1 .. c
      BY <1>3, <2>4
    <3> QED BY <1>4, <1>5, <1>7, <2>2, <2>3, <2>4, <3>1
  <2>5. CASE n > c
    BY <1>1, <1>4, <1>6, <2>1, <2>3, <2>5
  <2> QED BY <2>4, <2>5
<1> QED BY <1>8, <1>11, <1>12, <1>13, <1>14

-------------------------------------------------------------------------------
(* The constructs of a stack, as structured control sees them *)

KindsOf(s) == [i \in DOMAIN s |-> AbstractKind(s[i])]

\* Where a state of the executor is, seen from outside.
Land(s, r) == CASE r.kind = "break" -> S!BreakTo(KindsOf(s), r.level)
                [] r.kind = "continue" -> S!ContinueTo(KindsOf(s), r.level)
                [] r.kind = "return" -> S!ReturnTo(KindsOf(s))
                [] r.kind = "exit" -> S!ExitTo(KindsOf(s))
                [] OTHER -> KindsOf(s)

Calm(r) == r.kind \in {"running", "ok"}

LEMMA LandIs ==
  ASSUME NEW s, NEW r
  PROVE  /\ Calm(r) => Land(s, r) = KindsOf(s)
         /\ r.kind = "break" => Land(s, r) = S!BreakTo(KindsOf(s), r.level)
         /\ r.kind = "continue" => Land(s, r) = S!ContinueTo(KindsOf(s), r.level)
         /\ r.kind = "return" => Land(s, r) = S!ReturnTo(KindsOf(s))
         /\ r.kind = "exit" => Land(s, r) = S!ExitTo(KindsOf(s))
BY DEF Land, Calm

LEMMA LandingIsLand == Landing = Land(stack, result)
BY DEF Landing, Land, Kinds, KindsOf

\* The name of each construct.
LEMMA NameOf ==
  ASSUME NEW el \in Frames
  PROVE  /\ AbstractKind(el) \in Names
         /\ el.kind = "shell" => AbstractKind(el) = IF el.phase = "commands" THEN "shell" ELSE "leaving"
         /\ el.kind = "loop" => AbstractKind(el) = IF el.phase = "condition" THEN "loop" ELSE "body"
         /\ el.kind = "if" => AbstractKind(el) = "block"
         /\ el.kind = "EXIT" => AbstractKind(el) = IF el.for = "exit" THEN "block" ELSE "last"
         /\ el.kind = "ERR" => AbstractKind(el) = "trap"
         /\ TakesExit(el) => AbstractKind(el) = "list"
         /\ el.kind \in {"for", "function"} => AbstractKind(el) = el.kind
<1>1. el.kind \in Kinds7 \cup {"loop", "ERR", "EXIT", "shell"}
  BY ElementCases, FrameCases DEF Frames
<1>2. /\ el.kind = "shell" => AbstractKind(el) = IF el.phase = "commands" THEN "shell" ELSE "leaving"
      /\ el.kind = "loop" => AbstractKind(el) = IF el.phase = "condition" THEN "loop" ELSE "body"
      /\ el.kind = "if" => AbstractKind(el) = "block"
      /\ el.kind = "EXIT" => AbstractKind(el) = IF el.for = "exit" THEN "block" ELSE "last"
      /\ el.kind = "ERR" => AbstractKind(el) = "trap"
  <2>1. CASE el.kind = "shell"
    BY <2>1 DEF AbstractKind, TakesExit
  <2>2. CASE el.kind = "loop"
    BY <2>2 DEF AbstractKind, TakesExit
  <2>3. CASE el.kind = "if"
    BY <2>3 DEF AbstractKind, TakesExit
  <2>4. CASE el.kind = "EXIT"
    BY <2>4 DEF AbstractKind, TakesExit
  <2>5. CASE el.kind = "ERR"
    BY <2>5 DEF AbstractKind, TakesExit
  <2> QED BY <2>1, <2>2, <2>3, <2>4, <2>5
<1>3. TakesExit(el) => AbstractKind(el) = "list"
  BY DEF AbstractKind, TakesExit
<1>4. el.kind \in {"for", "function"} => AbstractKind(el) = el.kind
  BY DEF AbstractKind, TakesExit
<1>5. AbstractKind(el) \in Names
  BY <1>1, <1>2, <1>3, <1>4 DEF Kinds7, TakesExit, Names, S!Kinds, S!Constructs
<1> QED BY <1>2, <1>3, <1>4, <1>5

LEMMA NameOfShell ==
  ASSUME NEW el \in Frames
  PROVE  /\ AbstractKind(el) \in {"shell", "leaving"} <=> el.kind = "shell"
         /\ AbstractKind(el) \in LoopNames <=> IsLoopBody(el)
         /\ AbstractKind(el) = "trap" <=> el.kind = "ERR"
         /\ AbstractKind(el) = "function" <=> el.kind = "function"
         /\ AbstractKind(el) = "list" <=> TakesExit(el)
         /\ AbstractKind(el) = "last" <=> el.kind = "EXIT" /\ el.for # "exit"
<1>1. el.kind \in Kinds7 \cup {"loop", "ERR", "EXIT", "shell"}
  BY ElementCases, FrameCases DEF Frames
<1>2. el.kind \in {"for", "loop"} => el.phase \in {"condition", "commands"}
  BY FrameCases DEF Elements, Element, Loop, Handler, Frames
<1>3. el.kind = "for" => el.phase = "commands"
  BY FrameCases DEF Elements, Element, Loop, Handler, Frames
<1> QED BY <1>1, <1>2, <1>3, NameOf DEF Kinds7, TakesExit, LoopNames, IsLoopBody

LEMMA KindsPush ==
  ASSUME NEW s \in Seq(Frames), NEW el \in Frames
  PROVE  /\ KindsOf(s) \in Seq(Names) /\ Len(KindsOf(s)) = Len(s)
         /\ KindsOf(Append(s, el)) = Append(KindsOf(s), AbstractKind(el))
<1>1. Len(s) \in Nat /\ DOMAIN s = 1 .. Len(s) /\ \A i \in 1 .. Len(s) : s[i] \in Frames
  OBVIOUS
<1>2. KindsOf(s) \in [1 .. Len(s) -> Names]
  BY <1>1, NameOf DEF KindsOf
<1>3. KindsOf(s) \in Seq(Names) /\ Len(KindsOf(s)) = Len(s)
  BY <1>1, <1>2
<1> DEFINE t == Append(s, el)
<1>4. DOMAIN t = 1 .. Len(s) + 1 /\ t[Len(s) + 1] = el /\ \A i \in 1 .. Len(s) : t[i] = s[i]
  BY <1>1
<1>5. KindsOf(t) = [i \in 1 .. Len(s) + 1 |-> AbstractKind(t[i])]
  BY <1>4 DEF KindsOf
<1>6. \A i \in 1 .. Len(s) : KindsOf(s)[i] = AbstractKind(s[i])
  BY <1>1 DEF KindsOf
<1> DEFINE a == KindsOf(s)
           k == AbstractKind(el)
<1>7. k \in Names
  BY NameOf
<1> HIDE DEF a, k, t
<1>8. /\ Append(a, k) \in Seq(Names) /\ Len(Append(a, k)) = Len(s) + 1
      /\ Append(a, k)[Len(s) + 1] = k /\ \A i \in 1 .. Len(s) : Append(a, k)[i] = a[i]
  BY <1>1, <1>3, <1>7 DEF a
<1>9. KindsOf(t) = Append(a, k)
  <2>1. \A i \in 1 .. Len(s) + 1 : AbstractKind(t[i]) = Append(a, k)[i]
    BY <1>1, <1>4, <1>6, <1>8 DEF a, k
  <2>2. KindsOf(t) \in Seq(Names) /\ Len(KindsOf(t)) = Len(s) + 1
    <3>1. \A i \in 1 .. Len(s) + 1 : Append(a, k)[i] \in Names
      BY <1>1, <1>8
    <3>2. KindsOf(t) \in [1 .. Len(s) + 1 -> Names]
      BY <1>5, <2>1, <3>1
    <3> QED BY <1>1, <3>2
  <2>3. \A i \in 1 .. Len(s) + 1 : KindsOf(t)[i] = Append(a, k)[i]
    BY <1>5, <2>1
  <2> QED BY <1>8, <2>2, <2>3, SeqEqual
<1> QED BY <1>3, <1>9 DEF t, a, k

\* A stack and what is under its top, seen from outside.
LEMMA KindsTop ==
  ASSUME NEW s \in Seq(Frames), s # <<>>
  PROVE  /\ Front(s) \in Seq(Frames) /\ Last(s) \in Frames /\ AbstractKind(Last(s)) \in Names
         /\ KindsOf(Front(s)) \in Seq(Names)
         /\ KindsOf(s) = Append(KindsOf(Front(s)), AbstractKind(Last(s)))
<1>1. Front(s) \in Seq(Frames) /\ Last(s) \in Frames /\ s = Append(Front(s), Last(s))
  BY PopIsPush
<1>2. KindsOf(Append(Front(s), Last(s))) = Append(KindsOf(Front(s)), AbstractKind(Last(s)))
  BY <1>1, KindsPush, Zenon
<1>3. KindsOf(Front(s)) \in Seq(Names)
  BY <1>1, KindsPush, Zenon
<1> QED BY <1>1, <1>2, <1>3, NameOf

-------------------------------------------------------------------------------
(* Steps of structured control, from one nesting to another *)

Runs(a) == a # <<>> /\ Last(a) # "leaving"
Abandons(a, b) == /\ S!Wall(a) > 0 /\ a[S!Wall(a)] = "trap"
                  /\ b = S!Upto(a, S!Wall(a) - 1)
Leaves1(a, b) == a # <<>> /\ Last(a) \notin {"shell", "body"} /\ b = Front(a)
Iterates(a, b) == /\ a # <<>>
                  /\ \/ Last(a) = "loop" /\ b = Append(Front(a), "body")
                     \/ Last(a) = "body" /\ b = Append(Front(a), "loop")

AbstractStep(a, b) ==
  \/ b = a
  \/ Runs(a) /\ \E k \in S!Constructs : b = Append(a, k)
  \/ Iterates(a, b)
  \/ Leaves1(a, b)
  \/ a # <<>> /\ Last(a) = "shell" /\ b = Append(Front(a), "leaving")
  \/ a # <<>> /\ Last(a) = "leaving" /\ b = Append(a, "last")
  \/ Runs(a) /\ \E n \in 1 .. Cardinality(S!Loops(a)) :
                  b = S!BreakTo(a, n) \/ b = S!ContinueTo(a, n)
  \/ Runs(a) /\ Abandons(a, b)
  \/ Runs(a) /\ S!Where(a, {"function"}) # {} /\ b = S!ReturnTo(a)
  \/ Runs(a) /\ b = S!ExitTo(a)

\* The operators are those of the module as it is instanced for the refinement.
LEMMA SameLoops ==
  ASSUME NEW r
  PROVE  /\ Structured!Loops(r) = S!Loops(r) /\ Structured!Wall(r) = S!Wall(r)
         /\ \A i : Structured!Upto(r, i) = S!Upto(r, i)
         /\ \A n : Structured!LoopOut(r, n) = S!LoopOut(r, n)
         /\ \A K : Structured!Where(r, K) = S!Where(r, K)
         /\ \A K : Structured!Innermost(r, K) = S!Innermost(r, K)
<1>1. \A K : Structured!Where(r, K) = S!Where(r, K)
  BY DEF Structured!Where, S!Where
<1>2. \A K : Structured!Innermost(r, K) = S!Innermost(r, K)
  <2>1. \A X : Structured!Max(X) = S!Max(X)
    BY DEF Structured!Max, S!Max
  <2> QED BY <1>1, <2>1 DEF Structured!Innermost, S!Innermost
<1>3. Structured!Wall(r) = S!Wall(r)
  BY <1>2, Zenon DEF Structured!Wall, S!Wall
<1>4. \A i : Structured!Upto(r, i) = S!Upto(r, i)
  BY DEF Structured!Upto, S!Upto
<1>5. Structured!Loops(r) = S!Loops(r)
  BY <1>1, <1>3 DEF Structured!Loops, S!Loops
<1>6. \A X : Structured!Cardinality(X) = S!Cardinality(X)
  BY DEF Structured!Cardinality, S!Cardinality
<1>7. \A n : Structured!LoopOut(r, n) = S!LoopOut(r, n)
  BY <1>5, <1>6, Zenon DEF Structured!LoopOut, S!LoopOut
<1> QED BY <1>1, <1>2, <1>3, <1>4, <1>5, <1>7

LEMMA SameLandings ==
  ASSUME NEW r, NEW n
  PROVE  /\ Structured!BreakTo(r, n) = S!BreakTo(r, n)
         /\ Structured!ContinueTo(r, n) = S!ContinueTo(r, n)
         /\ Structured!ReturnTo(r) = S!ReturnTo(r)
         /\ Structured!ExitTo(r) = S!ExitTo(r)
<1>1. \A X : Structured!Cardinality(X) = S!Cardinality(X)
  BY DEF Structured!Cardinality, S!Cardinality
<1>2. Structured!BreakTo(r, n) = S!BreakTo(r, n)
  BY <1>1, SameLoops, Zenon DEF Structured!BreakTo, S!BreakTo
<1>3. Structured!ContinueTo(r, n) = S!ContinueTo(r, n)
  <2> DEFINE L == S!Loops(r)
             i == S!LoopOut(r, n)
             w == S!Wall(r)
  <2>1. Structured!ContinueTo(r, n)
          = IF n > S!Cardinality(L) THEN S!Upto(r, w - 1)
            ELSE IF r[i] = "for" THEN S!Upto(r, i) ELSE Append(S!Upto(r, i - 1), "loop")
    BY <1>1, SameLoops DEF Structured!ContinueTo
  <2> QED BY <2>1 DEF S!ContinueTo
<1>4. Structured!ReturnTo(r) = S!ReturnTo(r)
  BY SameLoops, Zenon DEF Structured!ReturnTo, S!ReturnTo
<1>5. Structured!ExitTo(r) = S!ExitTo(r)
  BY SameLoops, Zenon DEF Structured!ExitTo, S!ExitTo
<1> QED BY <1>2, <1>3, <1>4, <1>5

LEMMA AbstractStepIsNext ==
  ASSUME AbstractStep(Landing, Landing')
  PROVE  [Structured!Next]_Landing
<1> DEFINE a == Landing
           b == Landing'
<1>1. /\ \A s : Structured!Last(s) = Last(s) /\ Structured!Front(s) = Front(s)
      /\ \A X : Structured!Cardinality(X) = Cardinality(X)
      /\ Structured!Constructs = S!Constructs
  BY DEF Structured!Last, Last, Structured!Front, Front, Structured!Cardinality, Cardinality,
         Structured!Constructs, S!Constructs
<1>2. Runs(a) => Structured!RunsCommands
  BY <1>1 DEF Runs, Structured!RunsCommands
<1>3. ASSUME Runs(a), NEW k \in S!Constructs, b = Append(a, k) PROVE Structured!Next
  <2>1. Structured!Start(k) /\ k \in Structured!Constructs
    BY <1>1, <1>2, <1>3 DEF Structured!Start
  <2> QED BY <2>1 DEF Structured!Next
<1>4. ASSUME Iterates(a, b) PROVE Structured!Next
  <2>1. Structured!Iterate
    BY <1>1, <1>4 DEF Iterates, Structured!Iterate, Structured!RunsCommands
  <2> QED BY <2>1 DEF Structured!Next
<1>5. ASSUME Leaves1(a, b) PROVE Structured!Next
  <2>1. Structured!Leave
    BY <1>1, <1>5 DEF Leaves1, Structured!Leave
  <2> QED BY <2>1 DEF Structured!Next
<1>6. ASSUME a # <<>>, Last(a) = "shell", b = Append(Front(a), "leaving") PROVE Structured!Next
  <2>1. Structured!Finish
    BY <1>1, <1>6 DEF Structured!Finish, Structured!RunsCommands
  <2> QED BY <2>1 DEF Structured!Next
<1>7. ASSUME a # <<>>, Last(a) = "leaving", b = Append(a, "last") PROVE Structured!Next
  <2>1. Structured!StartLast
    BY <1>1, <1>7 DEF Structured!StartLast
  <2> QED BY <2>1 DEF Structured!Next
<1>8. ASSUME Runs(a), NEW n \in 1 .. Cardinality(S!Loops(a)),
             b = S!BreakTo(a, n) \/ b = S!ContinueTo(a, n)
      PROVE  Structured!Next
  <2>1. n \in 1 .. Structured!Cardinality(Structured!Loops(a))
    BY <1>1, <1>8, SameLoops
  <2>2. Structured!Break(n) \/ Structured!Continue(n)
    BY <1>2, <1>8, SameLandings DEF Structured!Break, Structured!Continue
  <2> QED BY <2>1, <2>2 DEF Structured!Next
<1>9. ASSUME Runs(a), Abandons(a, b) PROVE Structured!Next
  <2>1. Structured!Abandon
    BY <1>2, <1>9, SameLoops DEF Abandons, Structured!Abandon
  <2> QED BY <2>1 DEF Structured!Next
<1>10. ASSUME Runs(a), S!Where(a, {"function"}) # {}, b = S!ReturnTo(a) PROVE Structured!Next
  <2>1. Structured!Return
    BY <1>2, <1>10, SameLoops, SameLandings DEF Structured!Return
  <2> QED BY <2>1 DEF Structured!Next
<1>11. ASSUME Runs(a), b = S!ExitTo(a) PROVE Structured!Next
  <2>1. Structured!Exit
    BY <1>2, <1>11, SameLandings DEF Structured!Exit
  <2> QED BY <2>1 DEF Structured!Next
<1> QED BY <1>3, <1>4, <1>5, <1>6, <1>7, <1>8, <1>9, <1>10, <1>11 DEF AbstractStep

-------------------------------------------------------------------------------
(* What a change of the stack is, seen from outside *)

LEMMA Ends ==
  ASSUME NEW r \in Seq(Names), NEW k
  PROVE  Last(Append(r, k)) = k /\ Front(Append(r, k)) = r /\ Append(r, k) # <<>>
<1>1. /\ Len(r) \in Nat /\ Len(Append(r, k)) = Len(r) + 1 /\ Append(r, k)[Len(r) + 1] = k
      /\ \A i \in 1 .. Len(r) : Append(r, k)[i] = r[i]
  OBVIOUS
<1>2. Front(Append(r, k)) = [i \in 1 .. Len(r) |-> Append(r, k)[i]]
  BY <1>1 DEF Front
<1>3. Front(Append(r, k)) = r
  BY <1>1, <1>2
<1> QED BY <1>1, <1>3 DEF Last

\* A stack whose top runs commands.
Up(s) == s # <<>> /\ AbstractKind(Last(s)) # "leaving"

\* The top of a stack, seen from outside.
LEMMA TopName ==
  ASSUME NEW s \in Seq(Frames), s # <<>>
  PROVE  /\ KindsOf(s) # <<>> /\ Last(KindsOf(s)) = AbstractKind(Last(s))
         /\ Front(KindsOf(s)) = KindsOf(Front(s))
         /\ Up(s) => Runs(KindsOf(s))
<1>1. /\ KindsOf(Front(s)) \in Seq(Names)
      /\ KindsOf(s) = Append(KindsOf(Front(s)), AbstractKind(Last(s)))
  BY KindsTop
<1>2. /\ Last(KindsOf(s)) = AbstractKind(Last(s)) /\ Front(KindsOf(s)) = KindsOf(Front(s))
      /\ KindsOf(s) # <<>>
  BY <1>1, Ends
<1> QED BY <1>2 DEF Up, Runs

LEMMA MoveRests ==
  ASSUME NEW s, NEW r, NEW x, Calm(r), Calm(x)
  PROVE  AbstractStep(Land(s, r), Land(s, x))
BY LandIs DEF AbstractStep

LEMMA MoveExits ==
  ASSUME NEW s \in Seq(Frames), NEW r, NEW x, Up(s), Calm(r), x.kind = "exit"
  PROVE  AbstractStep(Land(s, r), Land(s, x))
<1>1. Land(s, r) = KindsOf(s) /\ Land(s, x) = S!ExitTo(KindsOf(s))
  BY LandIs
<1>2. Runs(KindsOf(s))
  BY TopName DEF Up
<1> QED BY <1>1, <1>2 DEF AbstractStep

LEMMA MoveReturns ==
  ASSUME NEW s \in Seq(Frames), NEW r, NEW x, Up(s), Calm(r), x.kind = "return",
         Functions(s) # {}
  PROVE  AbstractStep(Land(s, r), Land(s, x))
<1>1. Land(s, r) = KindsOf(s) /\ Land(s, x) = S!ReturnTo(KindsOf(s))
  BY LandIs
<1>2. Runs(KindsOf(s))
  BY TopName DEF Up
<1>3. S!Where(KindsOf(s), {"function"}) # {}
  <2>1. PICK i \in DOMAIN s : s[i].kind = "function"
    BY DEF Functions
  <2>2. s[i] \in Frames
    BY <2>1
  <2>3. i \in DOMAIN KindsOf(s) /\ KindsOf(s)[i] = "function"
    BY <2>1, <2>2, NameOf DEF KindsOf
  <2> QED BY <2>3 DEF S!Where
<1> QED BY <1>1, <1>2, <1>3 DEF AbstractStep

\* The loops that the counter counts are those a break can leave, unless an ERR
\* handler is between.
LEMMA LoopsAreBodies ==
  ASSUME NEW s \in Seq(Frames)
  PROVE  \/ S!Wall(KindsOf(s)) > 0 /\ KindsOf(s)[S!Wall(KindsOf(s))] = "trap"
         \/ Cardinality(LoopBodies(s)) <= Cardinality(S!Loops(KindsOf(s)))
<1> DEFINE a == KindsOf(s)
           w == S!Wall(a)
<1>1. PICK k : k \in Names
  BY DEF Names, S!Kinds
<1>2. a \in Seq(Names)
  <2>1. Frames # {}
    <3>1. Element("if", "condition") \in Frames
      BY DEF Frames, Elements
    <3> QED BY <3>1
  <2> QED BY <2>1, KindsPush
<1>3. /\ DOMAIN s = 1 .. Len(s) /\ DOMAIN a = DOMAIN s /\ Len(s) \in Nat
      /\ \A i \in DOMAIN s : s[i] \in Frames /\ a[i] = AbstractKind(s[i])
  BY DEF KindsOf
<1>4. Len(a) = Len(s)
  BY <1>2, <1>3
<1>5. w \in 0 .. Len(s) /\ (w > 0 => a[w] \in Walls)
  BY <1>1, <1>2, <1>4, WallPush
<1>6. S!Loops(a) = {i \in DOMAIN s : a[i] \in LoopNames /\ i > w} /\ IsFiniteSet(S!Loops(a))
  <2>1. S!Loops(a) = {i \in {j \in DOMAIN a : a[j] \in LoopNames} : i > w}
    BY Zenon DEF S!Loops, S!Where, LoopNames
  <2>2. IsFiniteSet(S!Loops(a))
    BY <1>1, <1>2, LoopsPush
  <2> HIDE DEF a, w
  <2> QED BY <1>3, <2>1, <2>2
<1>7. ASSUME ~(w > 0 /\ a[w] = "trap")
      PROVE  Cardinality(LoopBodies(s)) <= Cardinality(S!Loops(a))
  <2>1. ASSUME NEW i \in LoopBodies(s) PROVE i \in S!Loops(a)
    <3>1. i \in DOMAIN s /\ IsLoopBody(s[i]) /\ \A j \in Shells(s) : j < i
      BY DEF LoopBodies
    <3>2. a[i] \in LoopNames
      BY <1>3, <3>1, NameOfShell
    <3>3. i > w
      <4>1. CASE w = 0
        BY <1>3, <3>1, <4>1
      <4>2. CASE w > 0
        <5>1. w \in DOMAIN s /\ a[w] \in {"shell", "leaving"}
          BY <1>3, <1>5, <1>7, <4>2 DEF Walls
        <5>2. s[w].kind = "shell"
          BY <1>3, <5>1, NameOfShell
        <5>3. w \in Shells(s)
          BY <5>1, <5>2 DEF Shells
        <5> QED BY <1>3, <3>1, <5>1, <5>3
      <4> QED BY <1>5, <4>1, <4>2
    <3> QED BY <1>6, <3>1, <3>2, <3>3
  <2>2. LoopBodies(s) \in SUBSET S!Loops(a)
    BY <2>1
  <2> QED BY <1>6, <2>2, FS_Subset
<1> QED BY <1>7

LEMMA MoveJumps ==
  ASSUME NEW s \in Seq(Frames), NEW r, NEW x, Up(s), Calm(r),
         x.kind \in {"break", "continue"}, x.level \in 1 .. Cardinality(LoopBodies(s))
  PROVE  AbstractStep(Land(s, r), Land(s, x))
<1> DEFINE a == KindsOf(s)
           c == Cardinality(S!Loops(a))
           n == x.level
<1>1. /\ Land(s, r) = a
      /\ Land(s, x) = S!BreakTo(a, n) \/ Land(s, x) = S!ContinueTo(a, n)
  BY LandIs
<1>2. Runs(a)
  BY TopName DEF Up
<1>3. Cardinality(LoopBodies(s)) \in Nat /\ n \in Nat /\ n >= 1 /\ n <= Cardinality(LoopBodies(s))
  BY CardsAreNats
<1>4. c \in Nat
  <2>1. a \in Seq(Names) /\ \E k : k \in Names
    BY KindsTop, KindsPush, NameOf DEF Up
  <2> QED BY <2>1, LoopsPush, FS_CardinalityType
<1> HIDE DEF a, c, n
<1>5. CASE n <= c
  <2>1. n \in 1 .. c
    BY <1>3, <1>4, <1>5
  <2> QED BY <1>1, <1>2, <2>1 DEF AbstractStep, c
<1>6. CASE ~(n <= c)
  <2>1. S!Wall(a) > 0 /\ a[S!Wall(a)] = "trap"
    BY <1>3, <1>4, <1>6, LoopsAreBodies DEF a, c
  <2>2. ~(n <= S!Cardinality(S!Loops(a))) /\ n > S!Cardinality(S!Loops(a))
    BY <1>3, <1>4, <1>6, SameCardinality DEF c
  <2>3. S!BreakTo(a, n) = S!Upto(a, S!Wall(a) - 1) /\ S!ContinueTo(a, n) = S!Upto(a, S!Wall(a) - 1)
    BY <2>2 DEF S!BreakTo, S!ContinueTo
  <2>4. Abandons(a, Land(s, x))
    BY <1>1, <2>1, <2>3 DEF Abandons
  <2> QED BY <1>1, <1>2, <2>4 DEF AbstractStep
<1> QED BY <1>5, <1>6

LEMMA MovePushes ==
  ASSUME NEW s \in Seq(Frames), NEW r, NEW x, Up(s), Calm(r), Calm(x),
         NEW el \in Frames, AbstractKind(el) \in S!Constructs
  PROVE  AbstractStep(Land(s, r), Land(Append(s, el), x))
<1>1. Land(s, r) = KindsOf(s) /\ Land(Append(s, el), x) = KindsOf(Append(s, el))
  BY LandIs
<1>2. KindsOf(Append(s, el)) = Append(KindsOf(s), AbstractKind(el))
  BY KindsPush
<1>3. Runs(KindsOf(s))
  BY TopName DEF Up
<1> QED BY <1>1, <1>2, <1>3 DEF AbstractStep

\* A construct takes the place of the top of the stack.
LEMMA KindsTurn ==
  ASSUME NEW s \in Seq(Frames), s # <<>>, NEW el \in Frames
  PROVE  KindsOf(Append(Front(s), el)) = Append(Front(KindsOf(s)), AbstractKind(el))
<1>1. Front(s) \in Seq(Frames) /\ Front(KindsOf(s)) = KindsOf(Front(s))
  BY KindsTop, TopName
<1> QED BY <1>1, KindsPush

LEMMA MoveTurns ==
  ASSUME NEW s \in Seq(Frames), s # <<>>, NEW r, NEW x, Calm(r), Calm(x), NEW el \in Frames,
         \/ AbstractKind(el) = AbstractKind(Last(s))
         \/ AbstractKind(Last(s)) = "loop" /\ AbstractKind(el) = "body"
         \/ AbstractKind(Last(s)) = "body" /\ AbstractKind(el) = "loop"
         \/ AbstractKind(Last(s)) = "shell" /\ AbstractKind(el) = "leaving"
  PROVE  AbstractStep(Land(s, r), Land(Append(Front(s), el), x))
<1> DEFINE a == KindsOf(s)
           b == KindsOf(Append(Front(s), el))
<1>1. Land(s, r) = a /\ Land(Append(Front(s), el), x) = b
  BY LandIs
<1>2. b = Append(Front(a), AbstractKind(el)) /\ a # <<>> /\ Last(a) = AbstractKind(Last(s))
  BY KindsTurn, TopName
<1>3. a = Append(Front(a), Last(a))
  BY KindsTop, TopName
<1> HIDE DEF a, b
<1>4. CASE AbstractKind(el) = AbstractKind(Last(s))
  BY <1>1, <1>2, <1>3, <1>4 DEF AbstractStep
<1>5. CASE \/ AbstractKind(Last(s)) = "loop" /\ AbstractKind(el) = "body"
           \/ AbstractKind(Last(s)) = "body" /\ AbstractKind(el) = "loop"
  <2>1. Iterates(a, b)
    BY <1>2, <1>5 DEF Iterates
  <2> QED BY <1>1, <2>1 DEF AbstractStep
<1>6. CASE AbstractKind(Last(s)) = "shell" /\ AbstractKind(el) = "leaving"
  BY <1>1, <1>2, <1>6 DEF AbstractStep
<1> QED BY <1>4, <1>5, <1>6

LEMMA MoveLeaves ==
  ASSUME NEW s \in Seq(Frames), s # <<>>, NEW r, NEW x, Calm(r), Calm(x),
         AbstractKind(Last(s)) \notin {"shell", "body"}
  PROVE  AbstractStep(Land(s, r), Land(Front(s), x))
<1>1. Land(s, r) = KindsOf(s) /\ Land(Front(s), x) = KindsOf(Front(s))
  BY LandIs
<1>2. Leaves1(KindsOf(s), KindsOf(Front(s)))
  BY TopName DEF Leaves1
<1> QED BY <1>1, <1>2 DEF AbstractStep

\* The EXIT handler that exit ran has ended.
LEMMA MoveLeavesExiting ==
  ASSUME NEW s \in Seq(Frames), s # <<>>, NEW r, NEW x, Calm(r), x.kind = "exit",
         AbstractKind(Last(s)) = "block"
  PROVE  AbstractStep(Land(s, r), Land(Front(s), x))
<1>1. Land(s, r) = KindsOf(s) /\ Land(Front(s), x) = S!ExitTo(KindsOf(Front(s)))
  BY LandIs
<1>2. S!ExitTo(KindsOf(s)) = S!ExitTo(KindsOf(Front(s)))
  <2>1. /\ KindsOf(Front(s)) \in Seq(Names) /\ AbstractKind(Last(s)) \in Names
        /\ KindsOf(s) = Append(KindsOf(Front(s)), AbstractKind(Last(s)))
    BY KindsTop
  <2>2. S!ExitTo(Append(KindsOf(Front(s)), AbstractKind(Last(s)))) = S!ExitTo(KindsOf(Front(s)))
    BY <2>1, ExitPush
  <2> QED BY <2>1, <2>2
<1>3. Runs(KindsOf(s))
  BY TopName DEF Up
<1> QED BY <1>1, <1>2, <1>3 DEF AbstractStep

\* A shell that ends runs its EXIT handler.
LEMMA MoveLast ==
  ASSUME NEW s \in Seq(Frames), s # <<>>, NEW r, NEW x, Calm(r), Calm(x),
         AbstractKind(Last(s)) = "leaving",
         NEW sh \in Frames, AbstractKind(sh) = "leaving",
         NEW el \in Frames, AbstractKind(el) = "last"
  PROVE  AbstractStep(Land(s, r), Land(Append(Append(Front(s), sh), el), x))
<1> DEFINE a == KindsOf(s)
           t == Append(Front(s), sh)
<1>1. Land(s, r) = a /\ Land(Append(t, el), x) = KindsOf(Append(t, el))
  BY LandIs
<1>2. KindsOf(t) = a /\ t \in Seq(Frames)
  <2>1. KindsOf(t) = Append(Front(a), AbstractKind(sh))
    BY KindsTurn
  <2>2. a = Append(Front(a), "leaving")
    BY KindsTop, TopName
  <2>3. t \in Seq(Frames)
    BY KindsTop
  <2> QED BY <2>1, <2>2, <2>3
<1>3. KindsOf(Append(t, el)) = Append(KindsOf(t), AbstractKind(el))
  BY <1>2, KindsPush
<1>4. a # <<>> /\ Last(a) = "leaving"
  BY TopName
<1> HIDE DEF a, t
<1>5. AbstractStep(Land(s, r), Land(Append(t, el), x))
  BY <1>1, <1>2, <1>3, <1>4 DEF AbstractStep
<1> QED BY <1>5 DEF t

-------------------------------------------------------------------------------
(* Errors on their way out are not seen from outside *)

\* What a construct that ends an error gives.
LEMMA Caught ==
  ASSUME NEW s \in Seq(Frames), s # <<>>, NEW r
  PROVE  LET k == AbstractKind(Last(s))
             below == KindsOf(Front(s))
         IN  /\ r.kind = "break" /\ r.level = 1 /\ k \in LoopNames => Land(s, r) = below
             /\ r.kind = "continue" /\ r.level = 1 /\ k = "for" => Land(s, r) = KindsOf(s)
             /\ r.kind = "continue" /\ r.level = 1 /\ k = "body" => Land(s, r) = Append(below, "loop")
             /\ r.kind = "return" /\ k = "function" => Land(s, r) = below
             /\ r.kind = "exit" /\ k \in {"list", "last"} => Land(s, r) = below
             /\ r.kind = "exit" /\ k = "shell" => Land(s, r) = Append(below, "leaving")
             /\ r.kind \in {"exit", "return"} /\ k = "trap" => Land(s, r) = below
             /\ r.kind \in {"break", "continue"} /\ r.level \in Nat \ {0} /\ k = "trap" =>
                  Land(s, r) = below
<1> DEFINE k == AbstractKind(Last(s))
           below == KindsOf(Front(s))
<1>1. below \in Seq(Names) /\ k \in Names /\ KindsOf(s) = Append(below, k)
  BY KindsTop
<1> HIDE DEF k, below
<1>2. 1 \in Nat \ {0}
  OBVIOUS
<1>3. /\ k \in LoopNames => S!BreakTo(KindsOf(s), 1) = below
      /\ k = "trap" => \A n \in Nat \ {0} : S!BreakTo(KindsOf(s), n) = below
  BY <1>1, <1>2, BreakPush DEF Walls
<1>4. /\ k = "for" => S!ContinueTo(KindsOf(s), 1) = KindsOf(s)
      /\ k = "body" => S!ContinueTo(KindsOf(s), 1) = Append(below, "loop")
      /\ k = "trap" => \A n \in Nat \ {0} : S!ContinueTo(KindsOf(s), n) = below
  BY <1>1, <1>2, ContinuePush DEF Walls
<1>5. k \in {"function", "trap"} => S!ReturnTo(KindsOf(s)) = below
  BY <1>1, ReturnPush
<1>6. /\ k \in {"list", "trap", "last"} => S!ExitTo(KindsOf(s)) = below
      /\ k = "shell" => S!ExitTo(KindsOf(s)) = Append(below, "leaving")
  BY <1>1, ExitPush
<1>7. /\ r.kind = "break" /\ r.level = 1 /\ k \in LoopNames => Land(s, r) = below
      /\ r.kind = "break" /\ r.level \in Nat \ {0} /\ k = "trap" => Land(s, r) = below
  BY <1>3, LandIs
<1>8. /\ r.kind = "continue" /\ r.level = 1 /\ k = "for" => Land(s, r) = KindsOf(s)
      /\ r.kind = "continue" /\ r.level = 1 /\ k = "body" => Land(s, r) = Append(below, "loop")
      /\ r.kind = "continue" /\ r.level \in Nat \ {0} /\ k = "trap" => Land(s, r) = below
  BY <1>4, LandIs
<1>9. r.kind = "return" /\ k \in {"function", "trap"} => Land(s, r) = below
  BY <1>5, LandIs
<1>10. /\ r.kind = "exit" /\ k \in {"list", "trap", "last"} => Land(s, r) = below
       /\ r.kind = "exit" /\ k = "shell" => Land(s, r) = Append(below, "leaving")
  BY <1>6, LandIs
<1> QED BY <1>7, <1>8, <1>9, <1>10 DEF k, below

\* What one that hands it on gives.
LEMMA Passed ==
  ASSUME NEW s \in Seq(Frames), s # <<>>, NEW r, NEW x, x.kind = r.kind
  PROVE  LET k == AbstractKind(Last(s))
         IN  /\ r.kind = "exit" /\ k \notin {"list", "trap", "last", "shell"} =>
                  Land(s, r) = Land(Front(s), x)
             /\ r.kind = "return" /\ k \notin {"function", "trap"} => Land(s, r) = Land(Front(s), x)
             /\ /\ r.kind \in {"break", "continue"} /\ r.level \in Nat \ {0}
                /\ k \notin Walls
                /\ IF k \in LoopNames THEN r.level > 1 /\ x.level = r.level - 1 ELSE x.level = r.level
                => Land(s, r) = Land(Front(s), x)
<1> DEFINE k == AbstractKind(Last(s))
           below == KindsOf(Front(s))
<1>1. below \in Seq(Names) /\ k \in Names /\ KindsOf(s) = Append(below, k)
  BY KindsTop
<1>2. /\ r.kind = "break" => Land(s, r) = S!BreakTo(KindsOf(s), r.level)
                             /\ Land(Front(s), x) = S!BreakTo(below, x.level)
      /\ r.kind = "continue" => Land(s, r) = S!ContinueTo(KindsOf(s), r.level)
                                /\ Land(Front(s), x) = S!ContinueTo(below, x.level)
      /\ r.kind = "return" => Land(s, r) = S!ReturnTo(KindsOf(s))
                              /\ Land(Front(s), x) = S!ReturnTo(below)
      /\ r.kind = "exit" => Land(s, r) = S!ExitTo(KindsOf(s))
                            /\ Land(Front(s), x) = S!ExitTo(below)
  BY LandIs
<1> HIDE DEF k, below
<1>3. ASSUME r.kind = "exit", k \notin {"list", "trap", "last", "shell"}
      PROVE  Land(s, r) = Land(Front(s), x)
  <2>1. S!ExitTo(Append(below, k)) = S!ExitTo(below)
    BY <1>1, <1>3, ExitPush
  <2> QED BY <1>1, <1>2, <1>3, <2>1
<1>4. ASSUME r.kind = "return", k \notin {"function", "trap"} PROVE Land(s, r) = Land(Front(s), x)
  <2>1. S!ReturnTo(Append(below, k)) = S!ReturnTo(below)
    BY <1>1, <1>4, ReturnPush
  <2> QED BY <1>1, <1>2, <1>4, <2>1
<1>5. ASSUME r.kind \in {"break", "continue"}, r.level \in Nat \ {0}, k \notin Walls,
             IF k \in LoopNames THEN r.level > 1 /\ x.level = r.level - 1 ELSE x.level = r.level
      PROVE  Land(s, r) = Land(Front(s), x)
  <2> DEFINE n == r.level
  <2>1. /\ k \in LoopNames => n > 1 /\ n # 1 /\ x.level = n - 1
        /\ k \notin LoopNames => x.level = n
        /\ n \in Nat \ {0} /\ (k \in LoopNames \/ k \notin Walls \cup LoopNames)
    BY <1>5
  <2> HIDE DEF n
  <2>2. S!BreakTo(Append(below, k), n) = S!BreakTo(below, x.level)
    BY <1>1, <2>1, BreakPush
  <2>3. S!ContinueTo(Append(below, k), n) = S!ContinueTo(below, x.level)
    BY <1>1, <2>1, ContinuePush
  <2> QED BY <1>1, <1>2, <1>5, <2>2, <2>3 DEF n
<1> QED BY <1>3, <1>4, <1>5 DEF k

-------------------------------------------------------------------------------
(* A jump that errexit makes an exit: where nothing takes an exit on the way, *)
(* it is an exit from where the jump had gone.                              *)

ExitKinds == {"list", "trap", "shell", "last"}

LEMMA ExitFromBelow ==
  ASSUME NEW a \in Seq(Names), NEW m \in 0 .. Len(a), S!Innermost(a, ExitKinds) <= m
  PROVE  S!ExitTo(S!Upto(a, m)) = S!ExitTo(a) /\ S!Upto(a, m) \in Seq(Names)
<1> DEFINE h == S!Innermost(a, ExitKinds)
           q == S!Upto(a, m)
           P == {0} \cup S!Where(q, ExitKinds)
<1>1. PICK k : k \in Names
  BY DEF Names, S!Kinds
<1>2. /\ h \in 0 .. Len(a) /\ (h > 0 => a[h] \in ExitKinds)
      /\ \A i \in S!Where(a, ExitKinds) : i <= h
  BY <1>1, InnermostPush
<1>3. /\ Len(a) \in Nat /\ q = [j \in 1 .. m |-> a[j]] /\ DOMAIN a = 1 .. Len(a)
      /\ \A j \in 1 .. Len(a) : a[j] \in Names
  BY DEF S!Upto
<1>4. h <= m /\ m \in Nat /\ m <= Len(a) /\ h \in Nat
  BY <1>2, <1>3
<1> HIDE DEF h, q
<1>5. q \in Seq(Names) /\ DOMAIN q = 1 .. m /\ \A j \in 1 .. m : q[j] = a[j]
  BY <1>3, <1>4
<1>6. S!Innermost(q, ExitKinds) = h
  <2>1. \A i \in S!Where(q, ExitKinds) : i \in Nat /\ i <= h
    BY <1>2, <1>3, <1>4, <1>5 DEF S!Where
  <2>2. h > 0 => h \in S!Where(q, ExitKinds)
    BY <1>2, <1>4, <1>5 DEF S!Where
  <2>3. P \in SUBSET Nat /\ h \in P /\ \A y \in P : h >= y
    BY <1>4, <2>1, <2>2
  <2> HIDE DEF P
  <2>4. Max(P) = h
    BY <2>3, MaxIs
  <2>5. S!Innermost(q, ExitKinds) = Max(P)
    BY DEF S!Innermost, S!Max, Max, P
  <2> QED BY <2>4, <2>5
<1>7. S!Upto(q, h - 1) = S!Upto(a, h - 1)
  <2>1. S!Upto(q, h - 1) = [j \in 1 .. h - 1 |-> q[j]] /\ S!Upto(a, h - 1) = [j \in 1 .. h - 1 |-> a[j]]
    BY <1>4, <1>5 DEF S!Upto
  <2>2. \A j \in 1 .. h - 1 : q[j] = a[j]
    BY <1>4, <1>5
  <2> QED BY <2>1, <2>2
<1>8. h > 0 => q[h] = a[h]
  BY <1>4, <1>5
<1>9. /\ S!ExitTo(q) = IF h > 0 /\ q[h] = "shell" THEN Append(S!Upto(q, h - 1), "leaving")
                                                  ELSE S!Upto(q, h - 1)
      /\ S!ExitTo(a) = IF h > 0 /\ a[h] = "shell" THEN Append(S!Upto(a, h - 1), "leaving")
                                                  ELSE S!Upto(a, h - 1)
  BY <1>6 DEF S!ExitTo, ExitKinds, h
<1> QED BY <1>5, <1>7, <1>8, <1>9 DEF q

LEMMA ExitAfterJump ==
  ASSUME NEW a \in Seq(Names), a # <<>>, a[1] \in {"shell", "leaving"},
         \A i \in DOMAIN a : a[i] # "list",
         \A i \in DOMAIN a : a[i] = "last" => i > 1 /\ a[i - 1] = "leaving",
         \A i \in DOMAIN a : a[i] = "leaving" /\ i < Len(a) => a[i + 1] = "last",
         NEW n \in Nat \ {0},
         n <= Cardinality(S!Loops(a)) \/ (S!Wall(a) > 0 /\ a[S!Wall(a)] = "trap"),
         NEW b, b = S!BreakTo(a, n) \/ b = S!ContinueTo(a, n)
  PROVE  AbstractStep(b, S!ExitTo(a))
<1> DEFINE h == S!Innermost(a, ExitKinds)
           w == S!Wall(a)
           c == Cardinality(S!Loops(a))
<1>1. PICK k : k \in Names
  BY DEF Names, S!Kinds
<1>2. /\ h \in 0 .. Len(a) /\ (h > 0 => a[h] \in ExitKinds)
      /\ \A i \in S!Where(a, ExitKinds) : i <= h
  BY <1>1, InnermostPush
<1>3. /\ w \in 0 .. Len(a) /\ \A i \in DOMAIN a : a[i] \in Walls => i <= w
  <2>1. w = S!Innermost(a, Walls)
    BY DEF S!Wall, Walls
  <2>2. w \in 0 .. Len(a) /\ \A i \in S!Where(a, Walls) : i <= w
    BY <1>1, <2>1, InnermostPush
  <2> QED BY <2>2 DEF S!Where
<1>4. Len(a) \in Nat \ {0} /\ DOMAIN a = 1 .. Len(a)
  OBVIOUS
<1>5. c \in Nat
  BY <1>1, LoopsPush, FS_CardinalityType
<1> HIDE DEF h, w, c
<1>6. h > 0 => (a[h] \in {"trap", "shell"} /\ h <= w) \/ (a[h] = "last" /\ h - 1 >= 1 /\ h - 1 <= w /\ a[h - 1] = "leaving")
  <2> SUFFICES ASSUME h > 0
               PROVE  (a[h] \in {"trap", "shell"} /\ h <= w) \/ (a[h] = "last" /\ h - 1 >= 1 /\ h - 1 <= w /\ a[h - 1] = "leaving")
    OBVIOUS
  <2>1. h \in DOMAIN a /\ a[h] \in {"trap", "shell", "last"}
    BY <1>2, <1>4 DEF ExitKinds
  <2>2. a[h] \in {"trap", "shell"} => h <= w
    BY <1>3, <2>1 DEF Walls
  <2>3. a[h] = "last" => h > 1 /\ a[h - 1] = "leaving"
    BY <2>1
  <2>4. a[h] = "last" => h - 1 >= 1 /\ h - 1 <= w
    <3> SUFFICES ASSUME a[h] = "last" PROVE h - 1 >= 1 /\ h - 1 <= w
      OBVIOUS
    <3>1. h - 1 \in DOMAIN a /\ h - 1 >= 1 /\ a[h - 1] \in Walls
      BY <1>4, <2>1, <2>3 DEF Walls
    <3> QED BY <1>3, <3>1
  <2> QED BY <2>1, <2>2, <2>3, <2>4
<1>7. CASE n <= c
  <2> DEFINE i == S!LoopOut(a, n)
  <2>1. n \in 1 .. Cardinality(S!Loops(a))
    BY <1>5, <1>7 DEF c
  <2>2. i \in S!Loops(a)
    BY <2>1, LoopOutIs
  <2>3. i \in DOMAIN a /\ a[i] \in LoopNames /\ i > w
    BY <2>2 DEF S!Loops, S!Where, LoopNames, w
  <2>4. ~(n > S!Cardinality(S!Loops(a))) /\ n <= S!Cardinality(S!Loops(a))
    BY <1>5, <1>7, SameCardinality DEF c
  <2>5. b \in {S!Upto(a, i - 1), Append(S!Upto(a, i - 1), "loop")} \/ (b = S!Upto(a, i) /\ a[i] = "for")
    BY <2>4 DEF S!BreakTo, S!ContinueTo
  <2> HIDE DEF i
  <2>6. i \in 1 .. Len(a) /\ i # 1 /\ h <= i - 1 /\ w \in Nat /\ h \in Nat
    <3>1. i \in 1 .. Len(a) /\ i # 1
      BY <1>4, <2>3 DEF LoopNames
    <3>2. w \in Nat /\ h \in Nat
      BY <1>2, <1>3
    <3>3. h = i => a[h] \notin {"last", "trap", "shell"}
      BY <2>3 DEF LoopNames
    <3> QED BY <1>6, <2>3, <3>1, <3>2, <3>3
  <2>7. a[i - 1] # "leaving"
    <3>1. i - 1 \in DOMAIN a /\ i - 1 < Len(a) /\ (i - 1) + 1 = i
      BY <1>4, <2>6
    <3>2. a[i] # "last"
      BY <2>3 DEF LoopNames
    <3> QED BY <3>1, <3>2
  <2>8. ASSUME NEW m \in 1 .. Len(a), h <= m, a[m] # "leaving"
        PROVE  /\ S!Upto(a, m) \in Seq(Names) /\ S!ExitTo(S!Upto(a, m)) = S!ExitTo(a)
               /\ Runs(S!Upto(a, m))
    <3>1. m \in 0 .. Len(a) /\ m >= 1 /\ m \in Nat
      BY <1>4
    <3>2. S!Upto(a, m) \in Seq(Names) /\ S!ExitTo(S!Upto(a, m)) = S!ExitTo(a)
      BY <2>8, <3>1, ExitFromBelow DEF h
    <3>3. S!Upto(a, m) = [j \in 1 .. m |-> a[j]]
      BY DEF S!Upto
    <3>4. Len(S!Upto(a, m)) = m /\ S!Upto(a, m)[m] = a[m]
      BY <3>1, <3>2, <3>3
    <3>5. Runs(S!Upto(a, m))
      BY <2>8, <3>1, <3>4 DEF Runs, Last
    <3> QED BY <3>2, <3>5
  <2>9. i - 1 \in 1 .. Len(a) /\ h <= i /\ a[i] # "leaving"
    BY <2>3, <2>6 DEF LoopNames
  <2>10. CASE b = S!Upto(a, i - 1)
    <3>1. Runs(S!Upto(a, i - 1)) /\ S!ExitTo(S!Upto(a, i - 1)) = S!ExitTo(a)
      BY <2>6, <2>7, <2>8, <2>9
    <3> QED BY <2>10, <3>1 DEF AbstractStep
  <2>11. CASE b = S!Upto(a, i)
    <3>1. Runs(S!Upto(a, i)) /\ S!ExitTo(S!Upto(a, i)) = S!ExitTo(a)
      BY <2>6, <2>8, <2>9
    <3> QED BY <2>11, <3>1 DEF AbstractStep
  <2>12. CASE b = Append(S!Upto(a, i - 1), "loop")
    <3>1. S!Upto(a, i - 1) \in Seq(Names) /\ S!ExitTo(S!Upto(a, i - 1)) = S!ExitTo(a)
      BY <2>6, <2>7, <2>8, <2>9
    <3>2. "loop" \in Names
      BY DEF Names, S!Kinds, S!Constructs
    <3>3. S!ExitTo(b) = S!ExitTo(a)
      BY <2>12, <3>1, <3>2, ExitPush
    <3>4. Runs(b)
      BY <2>12, <3>1, Ends DEF Runs
    <3> QED BY <3>3, <3>4 DEF AbstractStep
  <2> QED BY <2>5, <2>10, <2>11, <2>12
<1>8. CASE ~(n <= c)
  <2>1. w > 0 /\ a[w] = "trap"
    BY <1>8 DEF w, c
  <2>2. ~(n <= S!Cardinality(S!Loops(a))) /\ n > S!Cardinality(S!Loops(a))
    BY <1>5, <1>8, SameCardinality DEF c
  <2>3. b = S!Upto(a, w - 1)
    BY <2>2 DEF S!BreakTo, S!ContinueTo, w
  <2>4. w \in S!Where(a, ExitKinds) /\ w \in Nat
    BY <1>3, <1>4, <2>1 DEF S!Where, ExitKinds
  <2>5. w <= h /\ h \in Nat
    BY <1>2, <2>4
  <2>6. h = w
    <3>1. h - 1 = w => a[h - 1] # "leaving"
      BY <2>1
    <3> QED BY <1>6, <2>1, <2>4, <2>5, <3>1
  <2>7. S!ExitTo(a) = S!Upto(a, w - 1)
    BY <2>1, <2>6 DEF S!ExitTo, h, ExitKinds
  <2> QED BY <2>3, <2>7 DEF AbstractStep
<1> QED BY <1>7, <1>8

-------------------------------------------------------------------------------
(* The scripts whose jumps land as structured control says.  A subshell's     *)
(* redirection that fails loses count of the loops; errexit makes an exit of *)
(* a jump that leaves a function or an EXIT handler, which is not where the  *)
(* jump was going when something on the way takes an exit for a status.      *)

Orderly ==
  /\ Does("redirect-fails") => ~Does("break") /\ ~Does("return")
  /\ Does("errexit") => ~Does("handler-jumps")
  /\ Does("errexit") /\ Does("break") /\ Does("function") =>
       features \cap {"and-or", "invert", "time", "group"} = {}

IsLast(el) == el.kind = "EXIT" /\ el.for = "shell"
Out(el) == el.kind = "shell" /\ el.phase \in {"exit", "done"}

\* A shell with something over it runs its list, or its EXIT handler is over it.
Nesting(s) ==
  /\ \A i \in DOMAIN s : s[i].kind = "shell" /\ i < Len(s) =>
       s[i].phase = "commands" \/ (s[i].phase = "done" /\ IsLast(s[i + 1]))
  /\ \A i \in DOMAIN s : IsLast(s[i]) =>
       i > 1 /\ s[i - 1].kind = "shell" /\ s[i - 1].phase = "done"
TopCalm(s, r) == s # <<>> /\ Out(Last(s)) =>
                   r = Running \/ (Last(s).phase = "done" /\ r.kind = "return")

\* Only what the script does is there.
JumpAsked(r) == /\ r.kind \in {"break", "continue"} => Does("break")
                /\ r.kind = "return" => Does("return")
StackAsked(s) == \A i \in DOMAIN s : /\ s[i].kind \in Kinds7 => Does(s[i].kind)
                                     /\ s[i].kind = "shell" /\ s[i].was.errexit => Does("errexit")
NoHandler(s) == \A i \in DOMAIN s : s[i].kind \notin {"ERR", "EXIT"}
HandlersHold(s, r) == IsJump(r) => Does("handler-jumps") \/ NoHandler(s)

Ordered(s, e, r) ==
  /\ Nesting(s) /\ TopCalm(s, r)
  /\ JumpAsked(r) /\ StackAsked(s) /\ HandlersHold(s, r)
  /\ e.errexit => Does("errexit")

OrderlyState == CfInv /\ Orderly /\ Ordered(stack, ex, result)
RefAfter == Ordered(stack', ex', result') /\ AbstractStep(Landing, Land(stack', result'))

LEMMA NestingPush ==
  ASSUME NEW s \in Seq(Frames), Nesting(s), NEW el \in Frames,
         s # <<>> /\ Last(s).kind = "shell" =>
           Last(s).phase = "commands" \/ (Last(s).phase = "done" /\ IsLast(el)),
         IsLast(el) => s # <<>> /\ Last(s).kind = "shell" /\ Last(s).phase = "done"
  PROVE  Nesting(Append(s, el))
<1> DEFINE t == Append(s, el)
<1>1. /\ Len(s) \in Nat /\ DOMAIN s = 1 .. Len(s) /\ DOMAIN t = 1 .. Len(s) + 1
      /\ Len(t) = Len(s) + 1
      /\ t[Len(s) + 1] = el /\ \A i \in 1 .. Len(s) : t[i] = s[i]
  OBVIOUS
<1>2. s # <<>> => Last(s) = s[Len(s)]
  BY DEF Last
<1>3. s # <<>> <=> Len(s) > 0
  BY <1>1
<1> HIDE DEF t
<1>4. ASSUME NEW i \in DOMAIN t, t[i].kind = "shell", i < Len(t)
      PROVE  t[i].phase = "commands" \/ (t[i].phase = "done" /\ IsLast(t[i + 1]))
  <2>1. i \in DOMAIN s /\ t[i] = s[i]
    BY <1>1, <1>4
  <2>2. CASE i < Len(s)
    <3>1. t[i + 1] = s[i + 1]
      BY <1>1, <2>1, <2>2
    <3> QED BY <1>4, <2>1, <2>2, <3>1 DEF Nesting
  <2>3. CASE i = Len(s)
    <3>1. t[i + 1] = el /\ s # <<>> /\ Last(s) = t[i]
      BY <1>1, <1>2, <1>3, <2>1, <2>3
    <3> QED BY <1>4, <3>1
  <2> QED BY <1>1, <2>1, <2>2, <2>3
<1>5. ASSUME NEW i \in DOMAIN t, IsLast(t[i])
      PROVE  i > 1 /\ t[i - 1].kind = "shell" /\ t[i - 1].phase = "done"
  <2>1. CASE i \in DOMAIN s
    <3>1. i > 1 /\ s[i - 1].kind = "shell" /\ s[i - 1].phase = "done"
      BY <1>1, <1>5, <2>1 DEF Nesting
    <3>2. t[i - 1] = s[i - 1]
      BY <1>1, <2>1, <3>1
    <3> QED BY <3>1, <3>2
  <2>2. CASE i = Len(s) + 1
    <3>1. s # <<>> /\ Last(s).kind = "shell" /\ Last(s).phase = "done"
      BY <1>1, <1>5, <2>2
    <3>2. i - 1 = Len(s) /\ i > 1 /\ t[i - 1] = Last(s)
      BY <1>1, <1>2, <1>3, <2>2, <3>1
    <3> QED BY <3>1, <3>2
  <2> QED BY <1>1, <2>1, <2>2
<1>6. Nesting(t)
  BY <1>4, <1>5 DEF Nesting
<1> QED BY <1>6 DEF t

LEMMA PushOrdered ==
  ASSUME NEW s \in Seq(Frames), NEW e, NEW r, Ordered(s, e, r), NEW el \in Frames,
         s # <<>> /\ Last(s).kind = "shell" =>
           Last(s).phase = "commands" \/ (Last(s).phase = "done" /\ IsLast(el)),
         IsLast(el) => s # <<>> /\ Last(s).kind = "shell" /\ Last(s).phase = "done",
         el.kind \in Kinds7 => Does(el.kind),
         el.kind = "shell" /\ el.was.errexit => Does("errexit"),
         NEW f, f.errexit => Does("errexit")
  PROVE  Ordered(Append(s, el), f, Running)
<1>1. Nesting(Append(s, el))
  BY NestingPush DEF Ordered
<1>2. StackAsked(Append(s, el))
  <2>1. /\ DOMAIN Append(s, el) = 1 .. Len(s) + 1 /\ DOMAIN s = 1 .. Len(s) /\ Len(s) \in Nat
        /\ Append(s, el)[Len(s) + 1] = el /\ \A i \in 1 .. Len(s) : Append(s, el)[i] = s[i]
    OBVIOUS
  <2>2. ASSUME NEW i \in DOMAIN Append(s, el)
        PROVE  /\ Append(s, el)[i].kind \in Kinds7 => Does(Append(s, el)[i].kind)
               /\ Append(s, el)[i].kind = "shell" /\ Append(s, el)[i].was.errexit => Does("errexit")
    <3>1. CASE i = Len(s) + 1
      BY <2>1, <3>1
    <3>2. CASE i \in DOMAIN s
      <4>1. Append(s, el)[i] = s[i]
        BY <2>1, <3>2
      <4> QED BY <3>2, <4>1 DEF Ordered, StackAsked
    <3> QED BY <2>1, <3>1, <3>2
  <2> QED BY <2>2 DEF StackAsked
<1>3. TopCalm(Append(s, el), Running) /\ JumpAsked(Running) /\ HandlersHold(Append(s, el), Running)
  BY KindsOfResults DEF TopCalm, JumpAsked, HandlersHold, IsJump
<1> QED BY <1>1, <1>2, <1>3 DEF Ordered

LEMMA PopOrdered ==
  ASSUME NEW s \in Seq(Frames), s # <<>>, NEW e, NEW r, Ordered(s, e, r),
         NEW x, IsLast(Last(s)) => x = Running \/ x.kind = "return",
         JumpAsked(x), HandlersHold(s, x),
         NEW f, f.errexit => Does("errexit")
  PROVE  Ordered(Front(s), f, x)
<1> DEFINE t == Front(s)
<1>1. /\ t \in Seq(Frames) /\ DOMAIN t = 1 .. Len(s) - 1 /\ Len(s) \in Nat \ {0}
      /\ DOMAIN s = 1 .. Len(s) /\ Last(s) = s[Len(s)]
      /\ \A i \in 1 .. Len(s) - 1 : t[i] = s[i]
  BY PopFacts
<1>0. Len(t) = Len(s) - 1
  BY PopIsPush
<1> HIDE DEF t
<1>2. Len(t) = Len(s) - 1 /\ (t # <<>> => Last(t) = t[Len(t)] /\ Len(t) \in DOMAIN t)
  <2>1. t # <<>> => Len(t) \in DOMAIN t
    BY <1>1
  <2>2. Last(t) = t[Len(t)]
    BY DEF Last
  <2> QED BY <1>0, <2>1, <2>2
<1>3. Nesting(s)
  BY DEF Ordered
<1>4. Nesting(t)
  <2>1. ASSUME NEW i \in DOMAIN t, t[i].kind = "shell", i < Len(t)
        PROVE  t[i].phase = "commands" \/ (t[i].phase = "done" /\ IsLast(t[i + 1]))
    <3>1. i \in DOMAIN s /\ i < Len(s) /\ t[i] = s[i] /\ t[i + 1] = s[i + 1]
      BY <1>1, <1>2, <2>1
    <3> QED BY <1>3, <2>1, <3>1 DEF Nesting
  <2>2. ASSUME NEW i \in DOMAIN t, IsLast(t[i])
        PROVE  i > 1 /\ t[i - 1].kind = "shell" /\ t[i - 1].phase = "done"
    <3>1. i \in DOMAIN s /\ t[i] = s[i]
      BY <1>1
    <3>2. i > 1 /\ s[i - 1].kind = "shell" /\ s[i - 1].phase = "done"
      BY <1>3, <2>2, <3>1 DEF Nesting
    <3>3. t[i - 1] = s[i - 1]
      BY <1>1, <3>1, <3>2
    <3> QED BY <3>2, <3>3
  <2> QED BY <2>1, <2>2 DEF Nesting
<1>5. TopCalm(t, x)
  <2>1. SUFFICES ASSUME t # <<>>, Out(Last(t))
                 PROVE  x = Running \/ (Last(t).phase = "done" /\ x.kind = "return")
    BY DEF TopCalm
  <2> DEFINE i == Len(t)
  <2>2. /\ i \in DOMAIN s /\ i < Len(s) /\ Last(t) = s[i] /\ i + 1 = Len(s)
    BY <1>1, <1>2, <2>1
  <2>3. s[i].kind = "shell" /\ s[i].phase \in {"exit", "done"}
    BY <2>1, <2>2 DEF Out
  <2>4. s[i].phase = "done" /\ IsLast(s[i + 1])
    BY <1>3, <2>2, <2>3 DEF Nesting
  <2> QED BY <1>1, <2>2, <2>4
<1>6. StackAsked(t) /\ HandlersHold(t, x)
  <2>1. \A i \in DOMAIN t : i \in DOMAIN s /\ t[i] = s[i]
    BY <1>1
  <2> QED BY <2>1 DEF Ordered, StackAsked, HandlersHold, NoHandler
<1> QED BY <1>4, <1>5, <1>6 DEF Ordered, t

LEMMA SameOrdered ==
  ASSUME NEW s, NEW e, NEW r, Ordered(s, e, r), NEW x, NEW f,
         s # <<>> /\ Out(Last(s)) => x = Running,
         JumpAsked(x), HandlersHold(s, x), f.errexit => Does("errexit")
  PROVE  Ordered(s, f, x)
BY DEF Ordered, TopCalm

\* A result that is no jump.
LEMMA NoJump ==
  ASSUME NEW s, NEW x, ~IsJump(x)
  PROVE  JumpAsked(x) /\ HandlersHold(s, x)
BY DEF JumpAsked, HandlersHold, IsJump

LEMMA CalmKinds ==
  /\ Calm(Running) /\ ~IsJump(Running)
  /\ \A c : Calm(Ok(c)) /\ ~IsJump(Ok(c))
  /\ \A c : ExitCode(c).kind = "exit" /\ ~IsJump(ExitCode(c))
BY KindsOfResults DEF Calm, IsJump

-------------------------------------------------------------------------------
(* What a step has to show *)

LEMMA OrderlyFacts ==
  ASSUME OrderlyState
  PROVE  /\ CfInv /\ Orderly /\ Ordered(stack, ex, result)
         /\ stack \in Seq(Frames) /\ ex \in Executor /\ result \in Results
         /\ ex.errexit => Does("errexit")
BY InvFacts DEF OrderlyState, Ordered

LEMMA RefGoes ==
  ASSUME NEW s, NEW e, NEW r, Ordered(s, e, r),
         AbstractStep(Land(stack, result), Land(s, r)), Goes(s, e, r)
  PROVE  RefAfter
BY LandingIsLand DEF Goes, RefAfter

\* Nothing but a return stands on a shell that was left.
LEMMA OrderedExit ==
  ASSUME NEW s, NEW e, NEW r, Ordered(s, e, r), s # <<>> => ~Out(Last(s))
  PROVE  \A x : Ordered(s, e, ExitCode(x))
<1> TAKE x
<1>1. JumpAsked(ExitCode(x)) /\ HandlersHold(s, ExitCode(x))
  BY CalmKinds, NoJump
<1>2. e.errexit => Does("errexit")
  BY DEF Ordered
<1> QED BY <1>1, <1>2, SameOrdered

LEMMA RefGives ==
  ASSUME NEW s, NEW e, NEW r, Ordered(s, e, r), s # <<>> => ~Out(Last(s)),
         AbstractStep(Land(stack, result), Land(s, r)),
         ErrexitActs(e) => AbstractStep(Land(stack, result), Land(s, ExitCode(e.exit_code))),
         Gives(s, e, r)
  PROVE  RefAfter
<1>1. ErrexitActs(e) => Ordered(s, e, ExitCode(e.exit_code))
  BY OrderedExit
<1>2. CASE ErrexitActs(e)
  <2>1. Goes(s, e, ExitCode(e.exit_code))
    BY <1>2 DEF Gives
  <2> QED BY <1>1, <1>2, <2>1, RefGoes
<1>3. CASE ~ErrexitActs(e)
  <2>1. Goes(s, e, r)
    BY <1>3 DEF Gives
  <2> QED BY <2>1, RefGoes
<1> QED BY <1>2, <1>3

\* A break that is handed on still has a loop to leave.
LEMMA RefHandsOn ==
  ASSUME NEW s, NEW e, NEW r, NEW arm, Ordered(s, e, r), Orderly,
         StateSound(s, e), JumpSound(s, r),
         AbstractStep(Land(stack, result), Land(s, r)), HandsOn(s, e, r, arm)
  PROVE  RefAfter
<1>1. ~(r.kind \in {"break", "continue"} /\ e.loop_depth = 0)
  <2>1. SUFFICES ASSUME r.kind \in {"break", "continue"} PROVE e.loop_depth # 0
    OBVIOUS
  <2>2. ~Does("redirect-fails")
    BY <2>1 DEF Ordered, JumpAsked, Orderly
  <2>3. e.loop_depth = Cardinality(LoopBodies(s)) /\ r.level <= Cardinality(LoopBodies(s))
    BY <2>1, <2>2 DEF StateSound, CountsRight, Counts, JumpSound, JumpHasPlace
  <2>4. r.level \in 1 .. MaxLevel
    BY <2>1, ResultCases DEF JumpSound
  <2> QED BY <2>3, <2>4, BoundAssumption
<1>2. Goes(s, e, r)
  BY <1>1 DEF HandsOn
<1> QED BY <1>2, RefGoes

\* Only set -e and the end of a subshell touch the option.
LEMMA ErrexitStays ==
  ASSUME NEW e \in Executor, NEW el, NEW x
  PROVE  /\ Counted(e, el).errexit = e.errexit /\ Uncounted(e, el).errexit = e.errexit
         /\ [e EXCEPT !.exit_code = x].errexit = e.errexit
         /\ [Uncounted(e, el) EXCEPT !.exit_code = x].errexit = e.errexit
         /\ InSubshell(e).errexit = e.errexit
         /\ \A was : Restored(e, was).errexit = was.errexit
BY DEF Counted, Uncounted, Executor, InSubshell, Restored

LEMMA StatusErrexit ==
  ASSUME OrderlyState
  PROVE  /\ \A x : AtStatus(x).errexit => Does("errexit")
         /\ Uncounted(ex, Top).errexit => Does("errexit")
         /\ \A el : Counted(Uncounted(ex, Top), el).errexit => Does("errexit")
         /\ \A el : Counted(ex, el).errexit => Does("errexit")
         /\ \A x : [ex EXCEPT !.exit_code = x].errexit => Does("errexit")
         /\ InSubshell(ex).errexit => Does("errexit")
<1>1. ex \in Executor /\ (ex.errexit => Does("errexit"))
  BY OrderlyFacts
<1>2. Uncounted(ex, Top) \in Executor
  BY <1>1, CountedTyped
<1>3. \A x : AtStatus(x).errexit = ex.errexit
  BY <1>1, ErrexitStays DEF AtStatus
<1>4. \A el : Counted(Uncounted(ex, Top), el).errexit = Uncounted(ex, Top).errexit
  BY <1>2, ErrexitStays
<1> QED BY <1>1, <1>3, <1>4, ErrexitStays

-------------------------------------------------------------------------------
(* Simple commands *)

\* The list on top of the stack is running.
LEMMA InCommandsFacts ==
  ASSUME OrderlyState, InCommands
  PROVE  /\ stack # <<>> /\ Up(stack) /\ ~Out(Last(stack))
         /\ result = Running /\ Calm(result)
<1>1. stack # <<>> /\ result = Running /\ Top.phase \notin {"exit", "done"} /\ Top \in Frames
  BY OrderlyFacts, PopIsPush DEF InCommands, Top
<1>2. ~Out(Last(stack))
  BY <1>1 DEF Out, Top
<1>3. AbstractKind(Last(stack)) # "leaving"
  <2>1. Top.kind = "shell" => Top.phase = "commands"
    <3>1. Top.kind = "shell" => Top \in ShellFrames
      BY <1>1, FrameCases
    <3> QED BY <1>1, <3>1 DEF ShellFrames
  <2>2. AbstractKind(Top) = "leaving" => Top.kind = "shell"
    BY <1>1, NameOfShell
  <2>3. Top.kind = "shell" => AbstractKind(Top) = "shell"
    BY <1>1, <2>1, NameOf
  <2> QED BY <2>2, <2>3 DEF Top
<1> QED BY <1>1, <1>2, <1>3, CalmKinds DEF Up

LEMMA RefRests ==
  ASSUME OrderlyState, stack # <<>>, ~Out(Last(stack)), Calm(result),
         NEW f, NEW x, Calm(x), ~IsJump(x), f.errexit => Does("errexit"), Goes(stack, f, x)
  PROVE  RefAfter
<1>1. Ordered(stack, f, x)
  BY OrderlyFacts, NoJump, SameOrdered
<1>2. AbstractStep(Land(stack, result), Land(stack, x))
  BY MoveRests
<1> QED BY <1>1, <1>2, RefGoes

\* An exit, or what errexit makes one.
LEMMA RefExits ==
  ASSUME OrderlyState, InCommands, NEW f, NEW x, f.errexit => Does("errexit"),
         Gives(stack, f, ExitCode(x))
  PROVE  RefAfter
<1>1. stack # <<>> /\ Up(stack) /\ ~Out(Last(stack)) /\ Calm(result) /\ stack \in Seq(Frames)
  BY InCommandsFacts, OrderlyFacts
<1>2. \A y : ExitCode(y).kind = "exit" /\ JumpAsked(ExitCode(y)) /\ HandlersHold(stack, ExitCode(y))
  BY CalmKinds, NoJump
<1>3. Ordered(stack, f, ExitCode(x))
  BY <1>1, <1>2, OrderlyFacts, SameOrdered
<1>4. \A y : AbstractStep(Land(stack, result), Land(stack, ExitCode(y)))
  BY <1>1, <1>2, MoveExits
<1> QED BY <1>1, <1>3, <1>4, RefGives

LEMMA SimpleCommandsRef ==
  ASSUME OrderlyState,
         \/ \E s \in Status : Simple(s)
         \/ \E on \in BOOLEAN : SetErrexit(on)
         \/ \E trap \in {"ERR", "EXIT"} : SetTrap(trap)
         \/ SubshellRedirectFails
  PROVE  RefAfter
<1>1. /\ Calm(Ok(TRUE)) /\ ~IsJump(Ok(TRUE)) /\ ex \in Executor /\ (ex.errexit => Does("errexit"))
  BY CalmKinds, OrderlyFacts
<1>2. ASSUME InCommands, NEW f, f.errexit => Does("errexit"), Goes(stack, f, Ok(TRUE))
      PROVE  RefAfter
  BY <1>1, <1>2, InCommandsFacts, RefRests
<1>3. ASSUME NEW s \in Status, Simple(s) PROVE RefAfter
  <2>1. [ex EXCEPT !.exit_code = s].errexit => Does("errexit")
    BY StatusErrexit
  <2> QED BY <1>2, <1>3, <2>1 DEF Simple
<1>4. ASSUME NEW on \in BOOLEAN, SetErrexit(on) PROVE RefAfter
  BY <1>2, <1>4 DEF SetErrexit
<1>5. ASSUME NEW trap \in {"ERR", "EXIT"}, SetTrap(trap) PROVE RefAfter
  <2> DEFINE f == [ex EXCEPT !.exit_code = 0, !.traps = @ \cup {trap}]
  <2>1. f.errexit = ex.errexit
    BY <1>1 DEF Executor
  <2>2. InCommands /\ Goes(stack, f, Ok(TRUE))
    BY <1>5 DEF SetTrap
  <2> HIDE DEF f
  <2> QED BY <1>1, <1>2, <2>1, <2>2
<1>6. ASSUME SubshellRedirectFails PROVE RefAfter
  <2> DEFINE f == [InSubshell(ex) EXCEPT !.exit_code = 1]
  <2>1. f.errexit = ex.errexit
    BY <1>1 DEF Executor, InSubshell
  <2>2. InCommands /\ Goes(stack, f, Ok(TRUE))
    BY <1>6 DEF SubshellRedirectFails
  <2> HIDE DEF f
  <2> QED BY <1>1, <1>2, <2>1, <2>2
<1> QED BY <1>3, <1>4, <1>5, <1>6

LEMMA LoopControlRef ==
  ASSUME OrderlyState, NEW kind \in {"break", "continue"}, NEW n \in 1 .. MaxLevel,
         LoopControl(kind, n)
  PROVE  RefAfter
<1>1. InCommands /\ Does("break") /\ JumpsAllowed
  BY DEF LoopControl
<1>2. stack # <<>> /\ Up(stack) /\ ~Out(Last(stack)) /\ Calm(result) /\ stack \in Seq(Frames)
      /\ CfInv /\ Orderly /\ ex \in Executor
  BY <1>1, InCommandsFacts, OrderlyFacts
<1>3. CASE ex.loop_depth = 0
  <2>1. Goes(stack, [ex EXCEPT !.exit_code = 0], Ok(TRUE))
    BY <1>3 DEF LoopControl
  <2>2. [ex EXCEPT !.exit_code = 0].errexit => Does("errexit")
    BY StatusErrexit
  <2> QED BY <1>2, <2>1, <2>2, CalmKinds, RefRests
<1>4. CASE ex.loop_depth # 0
  <2> DEFINE r == Jump(kind, BreakLevel(n))
  <2>1. Gives(stack, ex, r)
    BY <1>4 DEF LoopControl
  <2>2. ex.loop_depth = Cardinality(LoopBodies(stack)) /\ ex.loop_depth \in Nat
    BY <1>1, <1>2, InvFacts DEF Orderly, StateSound, CountsRight, Counts
  <2>3. BreakLevel(n) \in 1 .. Cardinality(LoopBodies(stack))
    BY <1>4, <2>2, BoundAssumption DEF BreakLevel
  <2>4. r.kind = kind /\ r.level = BreakLevel(n)
    BY DEF Jump
  <2> HIDE DEF r
  <2>5. AbstractStep(Land(stack, result), Land(stack, r))
    BY <1>2, <2>3, <2>4, MoveJumps
  <2>6. JumpAsked(r) /\ HandlersHold(stack, r)
    BY <1>1, <2>4 DEF JumpAsked, HandlersHold, JumpsAllowed, NoHandler
  <2>7. Ordered(stack, ex, r)
    BY <1>2, <2>6, OrderlyFacts, SameOrdered
  <2>8. AbstractStep(Land(stack, result), Land(stack, ExitCode(ex.exit_code)))
    BY <1>2, CalmKinds, MoveExits
  <2> QED BY <1>2, <2>1, <2>5, <2>7, <2>8, RefGives
<1> QED BY <1>3, <1>4

LEMMA ReturnFromRef ==
  ASSUME OrderlyState, NEW s \in Status, ReturnFrom(s)
  PROVE  RefAfter
<1>1. /\ InCommands /\ Does("return") /\ JumpsAllowed /\ ex.function_depth > 0
      /\ Gives(stack, ex, Return(s))
  BY DEF ReturnFrom
<1>2. stack # <<>> /\ Up(stack) /\ ~Out(Last(stack)) /\ Calm(result) /\ stack \in Seq(Frames)
      /\ CfInv /\ Orderly /\ ex \in Executor
  BY <1>1, InCommandsFacts, OrderlyFacts
<1>3. Functions(stack) # {}
  <2>1. ex.function_depth = Cardinality(Functions(stack))
    BY <1>1, <1>2, InvFacts DEF Orderly, StateSound, CountsRight, Counts
  <2>2. Functions(stack) = {} => Cardinality(Functions(stack)) = 0
    BY FS_EmptySet, Zenon
  <2> QED BY <1>1, <2>1, <2>2
<1>4. Return(s).kind = "return"
  BY KindsOfResults
<1>5. AbstractStep(Land(stack, result), Land(stack, Return(s)))
  BY <1>2, <1>3, <1>4, MoveReturns
<1>6. JumpAsked(Return(s)) /\ HandlersHold(stack, Return(s))
  BY <1>1, <1>4 DEF JumpAsked, HandlersHold, JumpsAllowed, NoHandler
<1>7. Ordered(stack, ex, Return(s))
  BY <1>2, <1>6, OrderlyFacts, SameOrdered
<1>8. AbstractStep(Land(stack, result), Land(stack, ExitCode(ex.exit_code)))
  BY <1>2, CalmKinds, MoveExits
<1> QED BY <1>1, <1>2, <1>5, <1>7, <1>8, RefGives

\* A construct or a handler starts.
LEMMA RefEnters ==
  ASSUME OrderlyState, stack # <<>>, Up(stack), ~Out(Last(stack)), Calm(result),
         NEW f, f.errexit => Does("errexit"), NEW el \in Frames, ~IsLast(el),
         AbstractKind(el) \in S!Constructs, el.kind \in Kinds7 => Does(el.kind),
         el.kind = "shell" /\ el.was.errexit => Does("errexit"),
         Goes(Append(stack, el), f, Running)
  PROVE  RefAfter
<1>1. Ordered(stack, ex, result) /\ stack \in Seq(Frames) /\ Last(stack) \in Frames
  BY OrderlyFacts, PopIsPush
<1>2. Last(stack).kind = "shell" => Last(stack).phase = "commands"
  <2>1. Last(stack).kind = "shell" => Last(stack) \in ShellFrames
    BY <1>1, FrameCases
  <2> QED BY <2>1 DEF Out, ShellFrames
<1>3. Ordered(Append(stack, el), f, Running)
  BY <1>1, <1>2, PushOrdered
<1>4. AbstractStep(Land(stack, result), Land(Append(stack, el), Running))
  BY <1>1, CalmKinds, MovePushes
<1> QED BY <1>3, <1>4, RefGoes

\* The handlers that exit and the list run.
LEMMA HandlersNamed ==
  ASSUME NEW x \in Status
  PROVE  /\ LET h == Handler("EXIT", x, "exit")
            IN  /\ h \in Frames /\ ~IsLast(h) /\ AbstractKind(h) = "block"
                /\ h.kind \notin Kinds7 /\ h.kind # "shell"
         /\ LET h == Handler("ERR", 1, "list")
            IN  /\ h \in Frames /\ ~IsLast(h) /\ AbstractKind(h) = "trap"
                /\ h.kind \notin Kinds7 /\ h.kind # "shell"
         /\ LET h == Handler("EXIT", x, "shell")
            IN  /\ h \in Frames /\ IsLast(h) /\ AbstractKind(h) = "last"
                /\ h.kind \notin Kinds7 /\ h.kind # "shell"
<1> DEFINE a == Handler("EXIT", x, "exit")
           b == Handler("ERR", 1, "list")
           c == Handler("EXIT", x, "shell")
<1>1. a \in Elements /\ b \in Elements /\ c \in Elements
  BY DEF Elements
<1>2. /\ a.kind = "EXIT" /\ a.for = "exit" /\ b.kind = "ERR" /\ c.kind = "EXIT" /\ c.for = "shell"
  BY DEF Handler
<1> HIDE DEF a, b, c
<1>3. a \in Frames /\ b \in Frames /\ c \in Frames
  BY <1>1, ElementsAreNoShells
<1>4. AbstractKind(a) = "block" /\ AbstractKind(b) = "trap" /\ AbstractKind(c) = "last"
  BY <1>2, <1>3, NameOf
<1>5. ~IsLast(a) /\ ~IsLast(b) /\ IsLast(c)
  BY <1>2 DEF IsLast
<1>6. /\ a.kind \notin Kinds7 /\ a.kind # "shell" /\ b.kind \notin Kinds7 /\ b.kind # "shell"
      /\ c.kind \notin Kinds7 /\ c.kind # "shell"
  BY <1>2 DEF Kinds7
<1> QED BY <1>3, <1>4, <1>5, <1>6 DEF a, b, c

LEMMA ConstructNames ==
  /\ "block" \in S!Constructs /\ "list" \in S!Constructs /\ "for" \in S!Constructs
  /\ "function" \in S!Constructs /\ "loop" \in S!Constructs /\ "trap" \in S!Constructs
  /\ "shell" \in S!Constructs
BY DEF S!Constructs

LEMMA ExitShellRef ==
  ASSUME OrderlyState, NEW s \in Status, ExitShell(s)
  PROVE  RefAfter
<1> DEFINE h == Handler("EXIT", s, "exit")
           e == [ex EXCEPT !.exit_code = s, !.traps = @ \ {"EXIT"}]
<1>1. /\ InCommands
      /\ IF "EXIT" \in ex.traps THEN Goes(Append(stack, h), e, Running)
                                ELSE Gives(stack, e, ExitCode(s))
  BY DEF ExitShell
<1>2. e.errexit => Does("errexit")
  BY OrderlyFacts DEF Executor
<1>3. /\ h \in Frames /\ ~IsLast(h) /\ AbstractKind(h) \in S!Constructs
      /\ h.kind \notin Kinds7 /\ h.kind # "shell"
  BY HandlersNamed, ConstructNames
<1> HIDE DEF e, h
<1>4. ASSUME Goes(Append(stack, h), e, Running) PROVE RefAfter
  BY <1>1, <1>2, <1>3, <1>4, InCommandsFacts, RefEnters
<1>5. ASSUME Gives(stack, e, ExitCode(s)) PROVE RefAfter
  BY <1>1, <1>2, <1>5, RefExits
<1> QED BY <1>1, <1>4, <1>5

LEMMA SettleRef ==
  ASSUME OrderlyState, Settle
  PROVE  RefAfter
<1> DEFINE h == Handler("ERR", ex.exit_code, "list")
<1>1. stack # <<>> /\ result.kind = "ok" /\ stack \in Seq(Frames) /\ ex \in Executor
      /\ (ex.errexit => Does("errexit")) /\ Ordered(stack, ex, result)
  BY OrderlyFacts DEF Settle
<1>2. ~Out(Last(stack)) /\ Calm(result)
  BY <1>1, KindsOfResults DEF Ordered, TopCalm, Calm
<1>3. Up(stack)
  <2>1. Last(stack) \in Frames
    BY <1>1, PopIsPush
  <2>2. Last(stack).kind = "shell" => Last(stack) \in ShellFrames
    BY <2>1, FrameCases
  <2>3. Last(stack).kind = "shell" => Last(stack).phase = "commands"
    BY <1>2, <2>2 DEF Out, ShellFrames
  <2>4. AbstractKind(Last(stack)) = "leaving" => Last(stack).kind = "shell"
    BY <2>1, NameOfShell
  <2>5. Last(stack).kind = "shell" => AbstractKind(Last(stack)) = "shell"
    BY <2>1, <2>3, NameOf
  <2> QED BY <1>1, <2>4, <2>5 DEF Up
<1>4. ASSUME Goes(stack, ex, ExitCode(ex.exit_code)) PROVE RefAfter
  <2> DEFINE x == ExitCode(ex.exit_code)
  <2>1. x.kind = "exit" /\ JumpAsked(x) /\ HandlersHold(stack, x)
    BY CalmKinds, NoJump
  <2> HIDE DEF x
  <2>2. Ordered(stack, ex, x)
    BY <1>1, <1>2, <2>1, SameOrdered
  <2>3. AbstractStep(Land(stack, result), Land(stack, x))
    BY <1>1, <1>2, <1>3, <2>1, MoveExits
  <2> QED BY <1>4, <2>2, <2>3, RefGoes DEF x
<1>5. ASSUME ErrTrapActs(ex), Goes(Append(stack, h), ex, Running) PROVE RefAfter
  <2>1. ex.exit_code = 1
    BY <1>1, <1>5 DEF ErrTrapActs, Status, Executor
  <2>2. h = Handler("ERR", 1, "list")
    BY <2>1
  <2>3. 1 \in Status
    BY StatusValues
  <2>4. /\ h \in Frames /\ ~IsLast(h) /\ AbstractKind(h) \in S!Constructs
        /\ h.kind \notin Kinds7 /\ h.kind # "shell"
    BY <2>2, <2>3, HandlersNamed, ConstructNames
  <2> HIDE DEF h
  <2> QED BY <1>1, <1>2, <1>3, <1>5, <2>4, RefEnters
<1>6. ASSUME Goes(stack, ex, Running) PROVE RefAfter
  BY <1>1, <1>2, <1>6, CalmKinds, RefRests
<1> QED BY <1>4, <1>5, <1>6 DEF Settle

-------------------------------------------------------------------------------
(* Constructs *)

LEMMA EnterRef ==
  ASSUME OrderlyState, NEW el \in Elements, AbstractKind(el) \in S!Constructs,
         el.kind \notin {"ERR", "EXIT"}, Enter(el)
  PROVE  RefAfter
<1>1. InCommands /\ Does(el.kind) /\ Goes(Append(stack, el), Counted(ex, el), Running)
  BY DEF Enter
<1>2. el \in Frames /\ el.kind # "shell" /\ ~IsLast(el)
  BY ElementsAreNoShells DEF IsLast
<1>3. Counted(ex, el).errexit => Does("errexit")
  BY StatusErrexit
<1> QED BY <1>1, <1>2, <1>3, InCommandsFacts, RefEnters

LEMMA EntersRef ==
  ASSUME OrderlyState,
         \/ \E kind \in {"for", "function", "invert", "time", "group"} :
              Enter(Element(kind, "commands"))
         \/ Enter(Element("if", "condition"))
         \/ Enter(Loop("condition", 0))
         \/ Enter(Element("and-or", "member"))
  PROVE  RefAfter
<1>1. ASSUME NEW kind \in {"for", "function", "invert", "time", "group"},
             Enter(Element(kind, "commands"))
      PROVE  RefAfter
  <2> DEFINE el == Element(kind, "commands")
  <2>1. el \in Elements /\ el.kind = kind
    BY DEF Elements, Element
  <2> HIDE DEF el
  <2>2. el \in Frames
    BY <2>1, ElementsAreNoShells
  <2>3. AbstractKind(el) \in S!Constructs
    <3>1. kind \in {"invert", "time", "group"} => TakesExit(el)
      BY <2>1 DEF TakesExit
    <3> QED BY <2>1, <2>2, <3>1, NameOf, ConstructNames
  <2> QED BY <1>1, <2>1, <2>3, EnterRef DEF el
<1>2. ASSUME Enter(Element("if", "condition")) PROVE RefAfter
  <2> DEFINE el == Element("if", "condition")
  <2>1. el \in Elements /\ el.kind = "if"
    BY DEF Elements, Element
  <2> HIDE DEF el
  <2>2. AbstractKind(el) \in S!Constructs
    BY <2>1, ElementsAreNoShells, NameOf, ConstructNames
  <2> QED BY <1>2, <2>1, <2>2, EnterRef DEF el
<1>3. ASSUME Enter(Loop("condition", 0)) PROVE RefAfter
  <2> DEFINE el == Loop("condition", 0)
  <2>1. el \in Elements /\ el.kind = "loop" /\ el.phase = "condition"
    BY StatusValues DEF Elements, Loop
  <2> HIDE DEF el
  <2>2. AbstractKind(el) \in S!Constructs
    BY <2>1, ElementsAreNoShells, NameOf, ConstructNames
  <2> QED BY <1>3, <2>1, <2>2, EnterRef DEF el
<1>4. ASSUME Enter(Element("and-or", "member")) PROVE RefAfter
  <2> DEFINE el == Element("and-or", "member")
  <2>1. el \in Elements /\ el.kind = "and-or"
    BY DEF Elements, Element
  <2> HIDE DEF el
  <2>2. TakesExit(el)
    BY <2>1 DEF TakesExit
  <2>3. AbstractKind(el) \in S!Constructs
    BY <2>1, <2>2, ElementsAreNoShells, NameOf, ConstructNames
  <2> QED BY <1>4, <2>1, <2>3, EnterRef DEF el
<1> QED BY <1>1, <1>2, <1>3, <1>4

LEMMA EnterSubshellRef ==
  ASSUME OrderlyState, EnterSubshell
  PROVE  RefAfter
<1> DEFINE el == Shell("commands", Saved(ex))
<1>1. InCommands /\ Goes(Append(stack, el), InSubshell(ex), Running)
  BY DEF EnterSubshell
<1>2. ex \in Executor /\ (ex.errexit => Does("errexit"))
  BY OrderlyFacts
<1>3. /\ el \in Frames /\ el.kind = "shell" /\ el.phase = "commands"
      /\ el.was.errexit = ex.errexit
  BY <1>2 DEF Frames, ShellFrames, Shell, Saved, Locals, Executor
<1> HIDE DEF el
<1>4. AbstractKind(el) \in S!Constructs /\ ~IsLast(el) /\ el.kind \notin Kinds7
  <2>1. AbstractKind(el) = "shell"
    BY <1>3, NameOf
  <2> QED BY <1>3, <2>1, ConstructNames DEF IsLast, Kinds7
<1>5. InSubshell(ex).errexit => Does("errexit")
  BY StatusErrexit
<1> QED BY <1>1, <1>2, <1>3, <1>4, <1>5, InCommandsFacts, RefEnters

\* Only the EXIT handler of a shell stands on one that was left.
LEMMA UnderTop ==
  ASSUME NEW s \in Seq(Frames), s # <<>>, Nesting(s)
  PROVE  /\ ~IsLast(Last(s)) /\ Front(s) # <<>> =>
              /\ ~Out(Last(Front(s)))
              /\ Last(Front(s)).kind = "shell" => Last(Front(s)).phase = "commands"
         /\ IsLast(Last(s)) => Front(s) # <<>> /\ Last(Front(s)).kind = "shell"
<1> DEFINE t == Front(s)
           n == Len(s)
<1>1. /\ n \in Nat \ {0} /\ DOMAIN s = 1 .. n /\ Last(s) = s[n]
      /\ \A i \in 1 .. n - 1 : t[i] = s[i]
  BY PopFacts
<1>2. Len(t) = n - 1 /\ t \in Seq(Frames)
  BY PopIsPush
<1>3. Last(t) = t[Len(t)]
  BY DEF Last
<1> HIDE DEF t, n
<1>4. t # <<>> <=> n - 1 > 0
  <2>1. Len(t) \in Nat /\ (t # <<>> <=> Len(t) > 0)
    BY <1>2
  <2> QED BY <1>1, <1>2, <2>1
<1>5. t # <<>> => Last(t) = s[n - 1] /\ n - 1 \in DOMAIN s /\ n - 1 < n /\ (n - 1) + 1 = n
  BY <1>1, <1>2, <1>3, <1>4
<1>6. ASSUME ~IsLast(Last(s)), t # <<>>, Last(t).kind = "shell" PROVE Last(t).phase = "commands"
  BY <1>1, <1>5, <1>6 DEF Nesting, n
<1>7. ASSUME ~IsLast(Last(s)), t # <<>> PROVE ~Out(Last(t))
  BY <1>6, <1>7 DEF Out
<1>8. ASSUME IsLast(Last(s)) PROVE t # <<>> /\ Last(t).kind = "shell"
  <2>1. n > 1 /\ s[n - 1].kind = "shell"
    BY <1>1, <1>8 DEF Nesting
  <2>2. n - 1 > 0
    BY <1>1, <2>1
  <2> QED BY <1>4, <1>5, <2>1, <2>2
<1> QED BY <1>6, <1>7, <1>8 DEF t

\* What the top of the stack is, of what the script does.
LEMMA TopAsked ==
  ASSUME NEW s \in Seq(Frames), s # <<>>, StackAsked(s)
  PROVE  /\ Last(s) \in Frames /\ (Last(s).kind \in Kinds7 => Does(Last(s).kind))
         /\ Last(s).kind = "shell" /\ Last(s).was.errexit => Does("errexit")
<1>1. Len(s) \in DOMAIN s /\ Last(s) = s[Len(s)] /\ Last(s) \in Frames
  BY PopFacts, PopIsPush
<1> QED BY <1>1 DEF StackAsked

LEMMA TurnOrdered ==
  ASSUME NEW s \in Seq(Frames), s # <<>>, NEW e, NEW r, Ordered(s, e, r), ~IsLast(Last(s)),
         NEW el \in Frames, ~IsLast(el), el.kind = Last(s).kind,
         el.kind = "shell" => el.was = Last(s).was,
         NEW f, f.errexit => Does("errexit")
  PROVE  Ordered(Append(Front(s), el), f, Running)
<1>1. JumpAsked(Running) /\ HandlersHold(s, Running)
  BY CalmKinds, NoJump
<1>2. Front(s) \in Seq(Frames) /\ Ordered(Front(s), f, Running)
  BY <1>1, PopOrdered, PopIsPush
<1>3. Front(s) # <<>> /\ Last(Front(s)).kind = "shell" => Last(Front(s)).phase = "commands"
  BY UnderTop DEF Ordered
<1>4. /\ el.kind \in Kinds7 => Does(el.kind)
      /\ el.kind = "shell" /\ el.was.errexit => Does("errexit")
  BY TopAsked DEF Ordered
<1> HIDE DEF Ordered
<1> QED BY <1>2, <1>3, <1>4, PushOrdered

LEMMA RefTurns ==
  ASSUME OrderlyState, stack # <<>>, Calm(result), ~IsLast(Top),
         NEW el \in Frames, ~IsLast(el), el.kind = Top.kind, el.kind = "shell" => el.was = Top.was,
         \/ AbstractKind(el) = AbstractKind(Top)
         \/ AbstractKind(Top) = "loop" /\ AbstractKind(el) = "body"
         \/ AbstractKind(Top) = "body" /\ AbstractKind(el) = "loop"
         \/ AbstractKind(Top) = "shell" /\ AbstractKind(el) = "leaving",
         NEW f, f.errexit => Does("errexit"), Goes(Append(Below, el), f, Running)
  PROVE  RefAfter
<1>1. stack \in Seq(Frames) /\ Ordered(stack, ex, result) /\ Calm(Running)
  BY OrderlyFacts, CalmKinds
<1>2. Ordered(Append(Below, el), f, Running)
  BY <1>1, TurnOrdered DEF Top, Below
<1>3. AbstractStep(Land(stack, result), Land(Append(Below, el), Running))
  BY <1>1, MoveTurns DEF Top, Below
<1> QED BY <1>2, <1>3, RefGoes

LEMMA RefLeaves ==
  ASSUME OrderlyState, stack # <<>>, Calm(result), AbstractKind(Top) \notin {"shell", "body"},
         NEW f, f.errexit => Does("errexit"), NEW x, Calm(x), ~IsJump(x),
         IsLast(Top) => x = Running, Goes(Below, f, x)
  PROVE  RefAfter
<1>1. stack \in Seq(Frames) /\ Ordered(stack, ex, result)
  BY OrderlyFacts
<1>2. JumpAsked(x) /\ HandlersHold(stack, x)
  BY NoJump
<1>3. Ordered(Below, f, x)
  BY <1>1, <1>2, PopOrdered DEF Top, Below
<1>4. AbstractStep(Land(stack, result), Land(Below, x))
  BY <1>1, MoveLeaves DEF Top, Below
<1> QED BY <1>3, <1>4, RefGoes

LEMMA OnTopRef ==
  ASSUME OrderlyState, NEW kind, NEW phase, OnTop(kind, phase)
  PROVE  /\ stack # <<>> /\ Calm(result) /\ result = Running /\ Top \in Frames
         /\ Top.kind = kind /\ Top.phase = phase
         /\ kind # "EXIT" => ~IsLast(Top)
<1>1. InCommands /\ Top.kind = kind /\ Top.phase = phase
  BY DEF OnTop
<1>2. stack # <<>> /\ Top \in Frames
  BY <1>1, InCommandsFacts, OrderlyFacts, PopIsPush DEF Top
<1> QED BY <1>1, <1>2, InCommandsFacts DEF IsLast

LEMMA PhaseRef ==
  ASSUME OrderlyState, NEW kind \in {"if", "loop", "for", "and-or"}, NEW phase, OnTop(kind, phase),
         NEW el \in Frames, el.kind = kind, Phase(el),
         kind = "loop" => el.phase \in {"condition", "commands"} /\ phase \in {"condition", "commands"}
  PROVE  RefAfter
<1>1. /\ stack # <<>> /\ Calm(result) /\ Top \in Frames /\ Top.kind = kind /\ Top.phase = phase
      /\ ~IsLast(Top) /\ ~IsLast(el) /\ el.kind # "shell"
  BY OnTopRef DEF IsLast
<1>2. Counted(Uncounted(ex, Top), el).errexit => Does("errexit")
  BY StatusErrexit
<1>3. Goes(Append(Below, el), Counted(Uncounted(ex, Top), el), Running)
  BY DEF Phase
<1>4. \/ AbstractKind(el) = AbstractKind(Top)
      \/ AbstractKind(Top) = "loop" /\ AbstractKind(el) = "body"
      \/ AbstractKind(Top) = "body" /\ AbstractKind(el) = "loop"
  <2>1. CASE kind = "if"
    BY <1>1, <2>1, NameOf
  <2>2. CASE kind = "for"
    BY <1>1, <2>2, NameOf
  <2>3. CASE kind = "and-or"
    <3>1. TakesExit(el) /\ TakesExit(Top)
      BY <1>1, <2>3 DEF TakesExit
    <3> QED BY <1>1, <3>1, NameOf
  <2>4. CASE kind = "loop"
    <3>1. /\ AbstractKind(el) = IF el.phase = "condition" THEN "loop" ELSE "body"
          /\ AbstractKind(Top) = IF Top.phase = "condition" THEN "loop" ELSE "body"
      BY <1>1, <2>4, NameOf
    <3> QED BY <3>1
  <2> QED BY <2>1, <2>2, <2>3, <2>4
<1> QED BY <1>1, <1>2, <1>3, <1>4, RefTurns

LEMMA ConstructEndsRef ==
  ASSUME OrderlyState, NEW kind \in Kinds7 \cup {"loop", "ERR"}, NEW phase, OnTop(kind, phase),
         kind = "loop" => phase = "condition",
         NEW f, f.errexit => Does("errexit"), NEW x \in {Running, Ok(TRUE), Ok(FALSE)},
         Goes(Below, f, x)
  PROVE  RefAfter
<1>1. /\ stack # <<>> /\ Calm(result) /\ Top \in Frames /\ Top.kind = kind /\ Top.phase = phase
      /\ ~IsLast(Top)
  BY OnTopRef DEF Kinds7
<1>2. Calm(x) /\ ~IsJump(x)
  BY CalmKinds
<1>3. AbstractKind(Top) \notin {"shell", "body"}
  <2>1. AbstractKind(Top) # "shell"
    BY <1>1, NameOfShell DEF Kinds7
  <2>2. AbstractKind(Top) = "body" => IsLoopBody(Top) /\ Top.kind # "for"
    <3>1. AbstractKind(Top) = "body" => IsLoopBody(Top)
      BY <1>1, NameOfShell DEF LoopNames
    <3>2. Top.kind = "for" => AbstractKind(Top) = "for"
      BY <1>1, NameOf
    <3> QED BY <3>1, <3>2
  <2>3. IsLoopBody(Top) => Top.kind = "for"
    BY <1>1 DEF IsLoopBody
  <2> QED BY <2>1, <2>2, <2>3
<1> QED BY <1>1, <1>2, <1>3, RefLeaves

LEMMA ConditionEndsRef ==
  ASSUME OrderlyState, ConditionEnds
  PROVE  RefAfter
<1>1. ASSUME OnTop("if", "condition"), Phase(Element("if", "commands")) PROVE RefAfter
  <2>1. Element("if", "commands") \in Frames /\ Element("if", "commands").kind = "if"
    BY PhaseElements, ElementsAreNoShells DEF Element
  <2> QED BY <1>1, <2>1, PhaseRef
<1>2. ASSUME OnTop("if", "condition"), Goes(Below, AtStatus(0), Ok(FALSE)) PROVE RefAfter
  <2>1. AtStatus(0).errexit => Does("errexit")
    BY StatusErrexit
  <2> QED BY <1>2, <2>1, ConstructEndsRef DEF Kinds7
<1>3. ASSUME OnTop("loop", "condition"), Phase(Loop("commands", Top.last)) PROVE RefAfter
  <2>1. Top.last \in Status
    BY <1>3, OrderlyFacts, KindsOnTop, ElementCases
  <2>2. /\ Loop("commands", Top.last) \in Frames /\ Loop("commands", Top.last).kind = "loop"
        /\ Loop("commands", Top.last).phase = "commands"
    BY <2>1, PhaseElements, ElementsAreNoShells DEF Loop
  <2> QED BY <1>3, <2>2, PhaseRef
<1>4. ASSUME OnTop("loop", "condition"), NEW x, Goes(Below, AtStatus(x), Ok(FALSE)) PROVE RefAfter
  <2>1. AtStatus(x).errexit => Does("errexit")
    BY StatusErrexit
  <2> QED BY <1>4, <2>1, ConstructEndsRef
<1> QED BY <1>1, <1>2, <1>3, <1>4 DEF ConditionEnds

LEMMA BodyEndsRef ==
  ASSUME OrderlyState, BodyEnds
  PROVE  RefAfter
<1>0. ex.exit_code \in Status /\ (ex.errexit => Does("errexit"))
  BY OrderlyFacts, InvFacts
<1>1. ASSUME OnTop("loop", "commands"), Phase(Loop("condition", ex.exit_code)) PROVE RefAfter
  <2>1. /\ Loop("condition", ex.exit_code) \in Frames
        /\ Loop("condition", ex.exit_code).kind = "loop"
        /\ Loop("condition", ex.exit_code).phase = "condition"
    BY <1>0, PhaseElements, ElementsAreNoShells DEF Loop
  <2> QED BY <1>1, <2>1, PhaseRef
<1>2. ASSUME OnTop("for", "commands"), Phase(Top) PROVE RefAfter
  <2>1. Top \in Frames /\ Top.kind = "for"
    BY <1>2, OnTopRef
  <2> QED BY <1>2, <2>1, PhaseRef
<1>3. ASSUME NEW kind \in {"for", "function"}, OnTop(kind, "commands"),
             NEW x \in {Running, Ok(TRUE), Ok(FALSE)}, Goes(Below, AtStatus(ex.exit_code), x)
      PROVE  RefAfter
  <2>1. AtStatus(ex.exit_code).errexit => Does("errexit")
    BY StatusErrexit
  <2> QED BY <1>3, <2>1, ConstructEndsRef DEF Kinds7
<1>4. ASSUME OnTop("if", "commands"), Goes(Below, ex, Ok(FALSE)) PROVE RefAfter
  BY <1>0, <1>4, ConstructEndsRef DEF Kinds7
<1> QED BY <1>1, <1>2, <1>3, <1>4 DEF BodyEnds

LEMMA ListEndsRef ==
  ASSUME OrderlyState, ListEnds
  PROVE  RefAfter
<1>0. ex.errexit => Does("errexit")
  BY OrderlyFacts
<1>1. ASSUME OnTop("and-or", "member"), NEW phase \in {"member", "last"},
             Phase(Element("and-or", phase))
      PROVE  RefAfter
  <2>1. Element("and-or", phase) \in Frames /\ Element("and-or", phase).kind = "and-or"
    BY PhaseElements, ElementsAreNoShells DEF Element
  <2> QED BY <1>1, <2>1, PhaseRef
<1>2. ASSUME NEW kind \in {"and-or", "invert"}, NEW phase, OnTop(kind, phase), NEW x,
             Goes(Below, AtStatus(x), Running)
      PROVE  RefAfter
  <2>1. AtStatus(x).errexit => Does("errexit")
    BY StatusErrexit
  <2> QED BY <1>2, <2>1, ConstructEndsRef DEF Kinds7
<1>3. ASSUME NEW kind \in {"and-or", "time", "group"}, NEW phase, OnTop(kind, phase),
             Goes(Below, ex, Running)
      PROVE  RefAfter
  BY <1>0, <1>3, ConstructEndsRef DEF Kinds7
<1> QED BY <1>1, <1>2, <1>3 DEF ListEnds

\* An EXIT handler that exit ran gives the exit, or errexit's.
LEMMA ExitHandlerGoes ==
  ASSUME OrderlyState, stack # <<>>, Top.kind = "EXIT", Top.for = "exit",
         Calm(result) \/ result.kind = "exit",
         NEW f, f.errexit => Does("errexit"), NEW x, x.kind = "exit", Gives(Below, f, x)
  PROVE  RefAfter
<1>1. /\ stack \in Seq(Frames) /\ Ordered(stack, ex, result) /\ Top \in Frames
      /\ Nesting(stack)
  BY OrderlyFacts, PopIsPush DEF Top, Ordered
<1>2. ~IsLast(Top) /\ AbstractKind(Top) = "block"
  BY <1>1, NameOf DEF IsLast
<1>3. Below # <<>> => ~Out(Last(Below))
  BY <1>1, <1>2, UnderTop DEF Top, Below
<1>4. ASSUME NEW y, y.kind = "exit"
      PROVE  AbstractStep(Land(stack, result), Land(Below, y)) /\ Ordered(Below, f, y)
  <2>1. JumpAsked(y) /\ HandlersHold(stack, y)
    BY <1>4, NoJump DEF IsJump
  <2>2. Ordered(Below, f, y)
    BY <1>1, <1>2, <2>1, PopOrdered DEF Top, Below
  <2>3. CASE Calm(result)
    BY <1>1, <1>2, <1>4, <2>2, <2>3, MoveLeavesExiting DEF Top, Below
  <2>4. CASE result.kind = "exit"
    <3>1. Land(stack, result) = Land(Below, y)
      BY <1>1, <1>2, <1>4, <2>4, Passed DEF Top, Below
    <3> QED BY <2>2, <3>1 DEF AbstractStep
  <2> QED BY <2>3, <2>4
<1>5. \A y : ExitCode(y).kind = "exit"
  BY CalmKinds
<1> QED BY <1>3, <1>4, <1>5, RefGives

LEMMA HandlerEndsRef ==
  ASSUME OrderlyState, HandlerEnds
  PROVE  RefAfter
<1>1. \A x : AtStatus(x).errexit => Does("errexit")
  BY StatusErrexit
<1>2. ASSUME OnTop("ERR", "commands"), Goes(Below, AtStatus(Top.status), Running) PROVE RefAfter
  BY <1>1, <1>2, ConstructEndsRef
<1>3. ASSUME OnTop("EXIT", "commands"), Top.for = "exit",
             Gives(Below, AtStatus(Top.status), ExitCode(Top.status))
      PROVE  RefAfter
  BY <1>1, <1>3, OnTopRef, CalmKinds, ExitHandlerGoes
<1>4. ASSUME OnTop("EXIT", "commands"), Top.for # "exit", Goes(Below, AtStatus(Top.status), Running)
      PROVE  RefAfter
  <2>1. stack # <<>> /\ Calm(result) /\ Top \in Frames /\ Top.kind = "EXIT"
    BY <1>4, OnTopRef
  <2>2. AbstractKind(Top) \notin {"shell", "body"}
    BY <1>4, <2>1, NameOf
  <2> QED BY <1>1, <1>4, <2>1, <2>2, CalmKinds, RefLeaves
<1> QED BY <1>2, <1>3, <1>4 DEF HandlerEnds

-------------------------------------------------------------------------------
(* Shells *)

\* A shell that changes its phase.
LEMMA ShellNamed ==
  ASSUME OrderlyState, stack # <<>>, Top.kind = "shell", NEW phase \in {"exit", "done"}
  PROVE  LET sh == Shell(phase, Top.was)
         IN  /\ sh \in Frames /\ sh.kind = "shell" /\ sh.phase = phase /\ sh.was = Top.was
             /\ ~IsLast(sh) /\ AbstractKind(sh) = "leaving" /\ sh.kind \notin Kinds7
             /\ Top \in ShellFrames /\ Below \in Seq(Frames) /\ ~IsLast(Top)
<1> DEFINE sh == Shell(phase, Top.was)
<1>1. Top \in ShellFrames /\ Below \in Seq(Frames)
  BY OrderlyFacts, InvFacts, ShellBelow DEF Top, Below
<1>2. sh \in Frames /\ sh.kind = "shell" /\ sh.phase = phase /\ sh.was = Top.was
  BY <1>1 DEF Frames, ShellFrames, Shell
<1> HIDE DEF sh
<1>3. AbstractKind(sh) = "leaving" /\ ~IsLast(sh) /\ ~IsLast(Top) /\ sh.kind \notin Kinds7
  BY <1>2, NameOf DEF IsLast, Kinds7
<1> QED BY <1>1, <1>2, <1>3 DEF sh

LEMMA ShellEndsRef ==
  ASSUME OrderlyState, ShellEnds
  PROVE  RefAfter
<1> DEFINE sh == Shell("exit", Top.was)
<1>1. /\ OnTop("shell", "commands") /\ Goes(Append(Below, sh), ex, Running)
      /\ (ex.errexit => Does("errexit"))
  BY OrderlyFacts DEF ShellEnds
<1>2. stack # <<>> /\ Calm(result) /\ Top \in Frames /\ Top.kind = "shell" /\ Top.phase = "commands"
  BY <1>1, OnTopRef
<1>3. AbstractKind(Top) = "shell"
  BY <1>2, NameOf
<1>4. /\ sh \in Frames /\ sh.kind = "shell" /\ sh.was = Top.was /\ ~IsLast(sh) /\ ~IsLast(Top)
      /\ AbstractKind(sh) = "leaving"
  BY <1>2, ShellNamed
<1> HIDE DEF sh
<1> QED BY <1>1, <1>2, <1>3, <1>4, RefTurns

LEMMA RunExitTrapRef ==
  ASSUME OrderlyState, RunExitTrap
  PROVE  RefAfter
<1> DEFINE sh == Shell("done", Top.was)
           s == Append(Below, sh)
           h == Handler("EXIT", ex.exit_code, "shell")
           e == [ex EXCEPT !.traps = @ \ {"EXIT"}]
<1>1. /\ stack # <<>> /\ Top.kind = "shell" /\ Top.phase = "exit" /\ ex \in Executor
      /\ (ex.errexit => Does("errexit")) /\ Goes(s \o <<h>>, e, Running)
      /\ stack \in Seq(Frames) /\ Ordered(stack, ex, result)
  BY OrderlyFacts DEF RunExitTrap
<1>2. e.errexit => Does("errexit")
  BY <1>1 DEF Executor
<1>3. /\ sh \in Frames /\ sh.kind = "shell" /\ sh.phase = "done" /\ sh.was = Top.was
      /\ ~IsLast(sh) /\ ~IsLast(Top) /\ AbstractKind(sh) = "leaving" /\ Below \in Seq(Frames)
      /\ Top \in Frames
  BY <1>1, ShellNamed DEF Frames
<1>4. /\ h \in Frames /\ IsLast(h) /\ AbstractKind(h) = "last"
      /\ h.kind \notin Kinds7 /\ h.kind # "shell"
  <2>1. ex.exit_code \in Status
    BY <1>1 DEF Executor
  <2> QED BY <2>1, HandlersNamed
<1> HIDE DEF sh, h, e
<1>5. AbstractKind(Top) = "leaving"
  BY <1>1, <1>3, NameOf
<1>6. s \in Seq(Frames) /\ Last(s) = sh /\ s \o <<h>> = Append(s, h)
  <2> DEFINE b == Below
  <2>1. b \in Seq(Frames)
    BY <1>3
  <2> HIDE DEF b
  <2>2. Append(b, sh) \in Seq(Frames) /\ Append(b, sh) \o <<h>> = Append(Append(b, sh), h)
    BY <1>3, <1>4, <2>1
  <2>3. Last(Append(b, sh)) = sh
    BY <1>3, <2>1 DEF Last
  <2> QED BY <2>2, <2>3 DEF b
<1>7. result = Running /\ Calm(result)
  <2>1. Out(Last(stack))
    BY <1>1 DEF Out, Top
  <2>2. Last(stack).phase # "done"
    BY <1>1 DEF Top
  <2>3. result = Running
    BY <1>1, <2>1, <2>2 DEF Ordered, TopCalm
  <2> QED BY <2>3, CalmKinds
<1>8. Ordered(s, e, Running)
  BY <1>1, <1>2, <1>3, TurnOrdered DEF Top, Below
<1>9. AbstractStep(Land(stack, result), Land(Append(s, h), Running))
  BY <1>1, <1>3, <1>4, <1>5, <1>7, CalmKinds, MoveLast DEF Top, Below
<1> HIDE DEF s
<1>10. s # <<>>
  BY <1>3 DEF s
<1>11. Ordered(Append(s, h), e, Running)
  BY <1>2, <1>3, <1>4, <1>6, <1>8, <1>10, PushOrdered
<1> QED BY <1>1, <1>6, <1>9, <1>11, RefGoes

LEMMA LeaveShellRef ==
  ASSUME OrderlyState, LeaveShell
  PROVE  RefAfter
<1>1. /\ stack # <<>> /\ Top.kind = "shell" /\ Top.phase \in {"exit", "done"} /\ result = Running
      /\ stack \in Seq(Frames) /\ Ordered(stack, ex, result) /\ ex \in Executor
      /\ (ex.errexit => Does("errexit"))
  BY OrderlyFacts DEF LeaveShell
<1>2. Top \in Frames /\ AbstractKind(Top) = "leaving" /\ ~IsLast(Top) /\ Calm(result)
  <2>1. Top \in Frames /\ ~IsLast(Top)
    BY <1>1, PopIsPush DEF Top, IsLast
  <2> QED BY <1>1, <2>1, NameOf, CalmKinds
<1>3. ASSUME Len(stack) = 1, Goes(<<>>, ex, Running) PROVE RefAfter
  <2>1. Below = <<>>
    <3>1. Front(stack) \in Seq(Frames) /\ Len(Front(stack)) = Len(stack) - 1
      BY <1>1, PopIsPush
    <3> QED BY <1>3, <3>1 DEF Below
  <2> QED BY <1>1, <1>2, <1>3, <2>1, CalmKinds, RefLeaves
<1>4. ASSUME Goes(Below, Restored(ex, Top.was), Ok(TRUE)) PROVE RefAfter
  <2>1. Restored(ex, Top.was).errexit => Does("errexit")
    <3>1. Top.was.errexit => Does("errexit")
      BY <1>1, TopAsked DEF Ordered, Top
    <3> QED BY <1>1, <3>1, ErrexitStays
  <2> QED BY <1>1, <1>2, <1>4, <2>1, CalmKinds, RefLeaves
<1> QED BY <1>3, <1>4 DEF LeaveShell

-------------------------------------------------------------------------------
(* Errors on their way out *)

LEMMA UnwindingRef ==
  ASSUME OrderlyState, Unwinding
  PROVE  /\ stack # <<>> /\ stack \in Seq(Frames) /\ Top \in Frames /\ CfInv /\ Orderly
         /\ Ordered(stack, ex, result) /\ ex \in Executor
         /\ result.kind \in {"break", "continue"} => result.level \in Nat \ {0}
<1>1. stack # <<>> /\ stack \in Seq(Frames) /\ Top \in Frames
  BY OrderlyFacts, PopIsPush DEF Unwinding, Top
<1>2. result.kind \in {"break", "continue"} => result.level \in Nat \ {0}
  BY OrderlyFacts, UnwindingFacts, BoundAssumption
<1> QED BY <1>1, <1>2, OrderlyFacts

\* The construct that ends the error is where the jump was going.
LEMMA RefCaught ==
  ASSUME OrderlyState, Unwinding, Land(stack, result) = KindsOf(Below),
         NEW f, f.errexit => Does("errexit"), NEW x, Calm(x), ~IsJump(x),
         IsLast(Top) => x = Running, Goes(Below, f, x)
  PROVE  RefAfter
<1>1. JumpAsked(x) /\ HandlersHold(stack, x)
  BY NoJump
<1>2. Ordered(Below, f, x)
  BY <1>1, UnwindingRef, PopOrdered DEF Top, Below
<1>3. Land(Below, x) = Land(stack, result)
  BY LandIs
<1>4. AbstractStep(Land(stack, result), Land(Below, x))
  BY <1>3 DEF AbstractStep
<1> QED BY <1>2, <1>4, RefGoes

LEMMA CaughtByLoopRef ==
  ASSUME OrderlyState, CaughtByLoop
  PROVE  RefAfter
<1>1. /\ Unwinding /\ IsLoopBody(Top) /\ result.kind \in {"break", "continue"} /\ result.level <= 1
      /\ Top.kind \in {"loop", "for"}
  BY DEF CaughtByLoop, IsLoopBody
<1>2. /\ stack # <<>> /\ stack \in Seq(Frames) /\ Top \in Frames /\ CfInv
      /\ Ordered(stack, ex, result) /\ ex \in Executor /\ result.level = 1
  BY <1>1, UnwindingRef
<1>3. /\ AbstractKind(Top) \in LoopNames /\ (Top.kind = "for" => AbstractKind(Top) = "for")
      /\ (Top.kind = "loop" => AbstractKind(Top) = "body") /\ ~IsLast(Top)
  <2>1. AbstractKind(Top) \in LoopNames /\ (Top.kind = "for" => AbstractKind(Top) = "for")
    BY <1>1, <1>2, NameOf, NameOfShell
  <2>2. Top.kind = "loop" => AbstractKind(Top) = "body"
    BY <1>1, <1>2, NameOf DEF IsLoopBody
  <2> QED BY <1>1, <2>1, <2>2 DEF IsLast
<1>4. /\ result.kind = "break" => Land(stack, result) = KindsOf(Below)
      /\ result.kind = "continue" /\ Top.kind = "for" => Land(stack, result) = KindsOf(stack)
      /\ result.kind = "continue" /\ Top.kind = "loop" =>
           Land(stack, result) = Append(KindsOf(Below), "loop")
  BY <1>2, <1>3, Caught DEF Top, Below
<1>5. AtStatus(0).errexit => Does("errexit")
  BY StatusErrexit
<1>6. ASSUME result.kind = "break", Goes(Below, AtStatus(0), Ok(FALSE)) PROVE RefAfter
  BY <1>1, <1>3, <1>4, <1>5, <1>6, CalmKinds, RefCaught
<1>7. ASSUME result.kind = "continue", Top.kind = "loop",
             Goes(Append(Below, Loop("condition", Top.last)),
                  Counted(AtStatus(0), Loop("condition", Top.last)), Running)
      PROVE  RefAfter
  <2> DEFINE el == Loop("condition", Top.last)
             e == Counted(AtStatus(0), el)
  <2>1. el \in Frames /\ el.kind = "loop" /\ el.phase = "condition"
    <3>1. Top.last \in Status
      BY <1>1, <1>2, <1>7, Pops, ElementCases
    <3>2. el \in Elements
      BY <3>1, PhaseElements
    <3>3. el.kind = "loop" /\ el.phase = "condition"
      BY DEF Loop
    <3> QED BY <3>2, <3>3, ElementsAreNoShells
  <2>2. e.errexit => Does("errexit")
    <3>1. Uncounted(ex, Top) \in Executor
      BY <1>2, CountedTyped
    <3>2. AtStatus(0) \in Executor
      BY <3>1, StatusValues DEF AtStatus, Executor
    <3> QED BY <1>5, <3>2, ErrexitStays
  <2>3. Goes(Append(Below, el), e, Running)
    BY <1>7
  <2> HIDE DEF e, el
  <2>4. Ordered(Append(Below, el), e, Running)
    <3>1. ~IsLast(el) /\ el.kind # "shell" /\ el.kind = Top.kind
      BY <1>7, <2>1 DEF IsLast
    <3> QED BY <1>2, <1>3, <2>1, <2>2, <3>1, TurnOrdered DEF Top, Below
  <2>5. Land(Append(Below, el), Running) = Land(stack, result)
    <3>1. Below \in Seq(Frames) /\ AbstractKind(el) = "loop"
      BY <1>2, <2>1, PopIsPush, NameOf DEF Below
    <3>2. KindsOf(Append(Below, el)) = Append(KindsOf(Below), "loop")
      BY <2>1, <3>1, KindsPush
    <3> QED BY <1>4, <1>7, <3>2, CalmKinds, LandIs
  <2>6. AbstractStep(Land(stack, result), Land(Append(Below, el), Running))
    BY <2>5 DEF AbstractStep
  <2> QED BY <2>3, <2>4, <2>6, RefGoes
<1>8. ASSUME result.kind = "continue", Top.kind = "for",
             Goes(stack, [ex EXCEPT !.exit_code = 0], Running)
      PROVE  RefAfter
  <2> DEFINE f == [ex EXCEPT !.exit_code = 0]
  <2>1. f.errexit => Does("errexit")
    BY StatusErrexit
  <2> HIDE DEF f
  <2>2. Ordered(stack, f, Running)
    BY <1>2, <2>1, CalmKinds, NoJump, SameOrdered
  <2>3. AbstractStep(Land(stack, result), Land(stack, Running))
    BY <1>4, <1>8, CalmKinds, LandIs DEF AbstractStep
  <2> QED BY <1>8, <2>2, <2>3, RefGoes DEF f
<1>9. ASSUME result.kind = "continue", Top.kind = "for", Goes(Below, AtStatus(0), Ok(FALSE))
      PROVE  RefAfter
  <2>1. JumpAsked(Ok(FALSE)) /\ HandlersHold(stack, Ok(FALSE)) /\ Calm(Ok(FALSE))
    BY CalmKinds, NoJump
  <2>2. Ordered(Below, AtStatus(0), Ok(FALSE))
    BY <1>2, <1>3, <1>5, <2>1, PopOrdered DEF Top, Below
  <2>3. Leaves1(KindsOf(stack), KindsOf(Below))
    BY <1>2, <1>3, <1>9, TopName DEF Leaves1, Top, Below
  <2>4. Land(stack, result) = KindsOf(stack) /\ Land(Below, Ok(FALSE)) = KindsOf(Below)
    BY <1>4, <1>9, <2>1, LandIs
  <2>5. AbstractStep(Land(stack, result), Land(Below, Ok(FALSE)))
    BY <2>3, <2>4 DEF AbstractStep
  <2> QED BY <1>9, <2>2, <2>5, RefGoes
<1> QED BY <1>1, <1>6, <1>7, <1>8, <1>9 DEF CaughtByLoop

LEMMA CaughtByFunctionRef ==
  ASSUME OrderlyState, CaughtByFunction
  PROVE  RefAfter
<1>1. /\ Unwinding /\ Top.kind = "function" /\ result.kind = "return"
      /\ Goes(Below, AtStatus(result.status), Ok(TRUE))
  BY DEF CaughtByFunction
<1>2. AbstractKind(Top) = "function" /\ ~IsLast(Top)
  BY <1>1, UnwindingRef, NameOf DEF IsLast
<1>3. Land(stack, result) = KindsOf(Below)
  BY <1>1, <1>2, UnwindingRef, Caught DEF Top, Below
<1>4. AtStatus(result.status).errexit => Does("errexit")
  BY StatusErrexit
<1> QED BY <1>1, <1>2, <1>3, <1>4, CalmKinds, RefCaught

LEMMA ExitTakenRef ==
  ASSUME OrderlyState, ExitTaken
  PROVE  RefAfter
<1> DEFINE x == IF Top.kind = "group" THEN 0 ELSE result.status
<1>1. Unwinding /\ TakesExit(Top) /\ result.kind = "exit" /\ Goes(Below, AtStatus(x), Running)
  BY DEF ExitTaken
<1>2. AbstractKind(Top) = "list"
  BY <1>1, UnwindingRef, NameOf
<1>3. Land(stack, result) = KindsOf(Below)
  BY <1>1, <1>2, UnwindingRef, Caught DEF Top, Below
<1> HIDE DEF x
<1>4. AtStatus(x).errexit => Does("errexit")
  BY StatusErrexit
<1> QED BY <1>1, <1>3, <1>4, CalmKinds, RefCaught

LEMMA ErrHandlerAbandonedRef ==
  ASSUME OrderlyState, ErrHandlerAbandoned
  PROVE  RefAfter
<1>1. /\ Unwinding /\ Top.kind = "ERR" /\ Goes(Below, AtStatus(Top.status), Running)
      /\ result.kind \in {"exit", "return", "break", "continue"}
  BY DEF ErrHandlerAbandoned, Unwinding
<1>2. AbstractKind(Top) = "trap"
  BY <1>1, UnwindingRef, NameOf
<1>3. Land(stack, result) = KindsOf(Below)
  BY <1>1, <1>2, UnwindingRef, Caught DEF Top, Below
<1>4. AtStatus(Top.status).errexit => Does("errexit")
  BY StatusErrexit
<1> QED BY <1>1, <1>3, <1>4, CalmKinds, RefCaught

LEMMA ExitHandlerExitsRef ==
  ASSUME OrderlyState, ExitHandlerExits
  PROVE  RefAfter
<1> DEFINE e == AtStatus(result.status)
<1>1. /\ Unwinding /\ Top.kind = "EXIT" /\ result.kind = "exit"
      /\ IF Top.for = "exit" THEN Gives(Below, e, result) ELSE Goes(Below, e, Running)
  BY DEF ExitHandlerExits
<1>2. e.errexit => Does("errexit")
  BY StatusErrexit
<1> HIDE DEF e
<1>3. CASE Top.for = "exit"
  BY <1>1, <1>2, <1>3, UnwindingRef, ExitHandlerGoes
<1>4. CASE Top.for # "exit"
  <2>1. AbstractKind(Top) = "last"
    BY <1>1, <1>4, UnwindingRef, NameOf
  <2>2. Land(stack, result) = KindsOf(Below)
    BY <1>1, <2>1, UnwindingRef, Caught DEF Top, Below
  <2> QED BY <1>1, <1>2, <1>4, <2>2, CalmKinds, RefCaught
<1> QED BY <1>3, <1>4

LEMMA ShellExitsRef ==
  ASSUME OrderlyState, ShellExits
  PROVE  RefAfter
<1> DEFINE sh == Shell("exit", Top.was)
           f == [ex EXCEPT !.exit_code = result.status]
<1>1. /\ Unwinding /\ Top.kind = "shell" /\ Top.phase = "commands" /\ result.kind = "exit"
      /\ Goes(Append(Below, sh), f, Running)
  BY DEF ShellExits
<1>2. f.errexit => Does("errexit")
  BY StatusErrexit
<1>3. /\ sh \in Frames /\ sh.kind = "shell" /\ sh.was = Top.was /\ ~IsLast(sh) /\ ~IsLast(Top)
      /\ AbstractKind(sh) = "leaving" /\ Below \in Seq(Frames)
  BY <1>1, UnwindingRef, ShellNamed
<1> HIDE DEF sh, f
<1>4. AbstractKind(Top) = "shell"
  BY <1>1, UnwindingRef, NameOf
<1>5. Land(stack, result) = Append(KindsOf(Below), "leaving")
  BY <1>1, <1>4, UnwindingRef, Caught DEF Top, Below
<1>6. Ordered(Append(Below, sh), f, Running)
  BY <1>1, <1>2, <1>3, UnwindingRef, TurnOrdered DEF Top, Below
<1>7. Land(Append(Below, sh), Running) = Land(stack, result)
  <2>1. KindsOf(Append(Below, sh)) = Append(KindsOf(Below), "leaving")
    BY <1>3, KindsPush
  <2> QED BY <1>5, <2>1, CalmKinds, LandIs
<1>8. AbstractStep(Land(stack, result), Land(Append(Below, sh), Running))
  BY <1>7 DEF AbstractStep
<1> QED BY <1>1, <1>6, <1>8, RefGoes

\* A break never gets as far as the list of its shell.
LEMMA ShellStopsNoBreak ==
  ASSUME NEW s \in Seq(Frames), s # <<>>, Last(s).kind = "shell", NEW r, NEW e, Ordered(s, e, r),
         Orderly, JumpSound(s, r)
  PROVE  r.kind \notin {"break", "continue"}
<1>1. SUFFICES ASSUME r.kind \in {"break", "continue"} PROVE FALSE
  OBVIOUS
<1>2. ~Does("redirect-fails")
  BY <1>1 DEF Ordered, JumpAsked, Orderly
<1>3. r.level <= Cardinality(LoopBodies(s)) /\ r.level \in 1 .. MaxLevel
  BY <1>1, <1>2, ResultCases DEF JumpSound, JumpHasPlace
<1>4. Cardinality(LoopBodies(s)) = 0
  <2>1. Front(s) \in Seq(Frames) /\ Last(s) \in Frames /\ s = Append(Front(s), Last(s))
    BY PopIsPush
  <2>2. Cardinality(LoopBodies(Append(Front(s), Last(s)))) = 0
    BY <2>1, PushCounts
  <2> QED BY <2>1, <2>2
<1> QED BY <1>3, <1>4, BoundAssumption

LEMMA SubshellAbandonedRef ==
  ASSUME OrderlyState, SubshellAbandoned
  PROVE  RefAfter
<1>1. /\ Unwinding /\ Top.kind = "shell" /\ result.kind # "exit"
      /\ HandsOn(Below, Restored(ex, Top.was), result, "shell")
  BY DEF SubshellAbandoned
<1>2. result.kind = "return"
  <2>1. result.kind \notin {"break", "continue"}
    BY <1>1, UnwindingRef, InvFacts, ShellStopsNoBreak DEF Top
  <2> QED BY <1>1, <2>1 DEF Unwinding
<1>3. Goes(Below, Restored(ex, Top.was), result)
  BY <1>1, <1>2 DEF HandsOn
<1>4. Restored(ex, Top.was).errexit => Does("errexit")
  <2>1. Top.was.errexit => Does("errexit")
    BY <1>1, UnwindingRef, TopAsked DEF Ordered, Top
  <2> QED BY <2>1, UnwindingRef, <1>1, ErrexitStays
<1>5. Ordered(Below, Restored(ex, Top.was), result)
  <2>1. ~IsLast(Top) /\ JumpAsked(result) /\ HandlersHold(stack, result)
    BY <1>1, UnwindingRef DEF IsLast, Ordered
  <2> QED BY <1>1, <1>4, <2>1, UnwindingRef, PopOrdered DEF Top, Below
<1>6. Land(stack, result) = Land(Below, result)
  <2>1. AbstractKind(Top) \notin {"function", "trap"}
    BY <1>1, UnwindingRef, NameOfShell
  <2> QED BY <1>1, <1>2, <2>1, UnwindingRef, Passed DEF Top, Below
<1>7. AbstractStep(Land(stack, result), Land(Below, result))
  BY <1>6 DEF AbstractStep
<1> QED BY <1>3, <1>5, <1>7, RefGoes

\* What a construct hands on is what it was given, one loop nearer.
LEMMA OutwardsIs ==
  ASSUME NEW el, NEW r \in Results, IsLoopBody(el) /\ r.kind \in {"break", "continue"} => r.level > 1
  PROVE  LET x == Outwards(el, r)
         IN  /\ x.kind = r.kind
             /\ r.kind \in {"break", "continue"} =>
                  IF IsLoopBody(el) THEN r.level > 1 /\ x.level = r.level - 1 ELSE x.level = r.level
             /\ ~(IsLoopBody(el) /\ r.kind \in {"break", "continue"}) => x = r
<1> DEFINE x == Outwards(el, r)
<1>1. CASE IsLoopBody(el) /\ r.kind \in {"break", "continue"}
  <2>1. r = Jump(r.kind, r.level)
    BY <1>1, ResultCases
  <2>2. x = [Jump(r.kind, r.level) EXCEPT !.level = @ - 1]
    BY <1>1, <2>1 DEF Outwards
  <2>3. x.kind = r.kind /\ x.level = r.level - 1
    BY <2>2 DEF Jump
  <2> HIDE DEF x
  <2> QED BY <1>1, <2>3 DEF x
<1>2. CASE ~(IsLoopBody(el) /\ r.kind \in {"break", "continue"})
  <2>1. x = r
    BY <1>2 DEF Outwards
  <2> QED BY <1>2, <2>1
<1> QED BY <1>1, <1>2

LEMMA PassesOnFacts ==
  ASSUME OrderlyState, PassesOn
  PROVE  LET r == Outwards(Top, result)
             e == Uncounted(ex, Top)
         IN  /\ Unwinding /\ Top.kind \notin {"shell", "ERR"} /\ r.kind = result.kind
             /\ Land(stack, result) = Land(Below, r) /\ Ordered(Below, e, r)
             /\ StateSound(Below, e) /\ JumpSound(Below, r)
             /\ result.kind = "exit" => r = result
<1> DEFINE r == Outwards(Top, result)
           e == Uncounted(ex, Top)
<1>1. /\ Unwinding /\ Top.kind \notin {"shell", "ERR"}
      /\ ~(TakesExit(Top) /\ result.kind = "exit") /\ ~(Top.kind = "EXIT" /\ result.kind = "exit")
      /\ ~(Top.kind = "function" /\ result.kind = "return")
      /\ IsLoopBody(Top) /\ result.kind \in {"break", "continue"} => result.level > 1
  BY DEF PassesOn
<1>2. /\ stack # <<>> /\ stack \in Seq(Frames) /\ Top \in Frames /\ CfInv /\ Orderly
      /\ Ordered(stack, ex, result) /\ result \in Results
      /\ result.kind \in {"break", "continue"} => result.level \in Nat \ {0}
  BY <1>1, UnwindingRef, OrderlyFacts
<1>3. /\ r.kind = result.kind
      /\ result.kind \in {"break", "continue"} =>
           IF IsLoopBody(Top) THEN result.level > 1 /\ r.level = result.level - 1
                              ELSE r.level = result.level
      /\ ~(IsLoopBody(Top) /\ result.kind \in {"break", "continue"}) => r = result
  BY <1>1, <1>2, OutwardsIs
<1>4. JumpSound(Below, r) /\ StateSound(Below, e) /\ Below \in Seq(Frames)
  BY <1>1, <1>2, JumpGoesOut, Pops
<1>5. e.errexit => Does("errexit")
  BY StatusErrexit
<1> HIDE DEF r, e
<1>6. Land(stack, result) = Land(Below, r)
  <2>1. /\ AbstractKind(Top) \notin Walls /\ (AbstractKind(Top) \in LoopNames <=> IsLoopBody(Top))
        /\ (AbstractKind(Top) = "list" <=> TakesExit(Top))
        /\ (AbstractKind(Top) = "function" <=> Top.kind = "function")
        /\ (AbstractKind(Top) = "last" => Top.kind = "EXIT")
    BY <1>1, <1>2, NameOfShell DEF Walls
  <2>2. CASE result.kind = "exit"
    <3>1. AbstractKind(Top) \notin {"list", "trap", "last", "shell"}
      BY <1>1, <2>1, <2>2 DEF Walls
    <3> QED BY <1>2, <1>3, <2>2, <3>1, Passed DEF Top, Below
  <2>3. CASE result.kind = "return"
    <3>1. AbstractKind(Top) \notin {"function", "trap"}
      BY <1>1, <2>1, <2>3 DEF Walls
    <3> QED BY <1>2, <1>3, <2>3, <3>1, Passed DEF Top, Below
  <2>4. CASE result.kind \in {"break", "continue"}
    <3>1. IF AbstractKind(Top) \in LoopNames
          THEN result.level > 1 /\ r.level = result.level - 1 ELSE r.level = result.level
      BY <1>3, <2>1, <2>4
    <3> QED BY <1>2, <1>3, <2>1, <2>4, <3>1, Passed DEF Top, Below
  <2> QED BY <1>1, <2>2, <2>3, <2>4 DEF Unwinding
<1>7. Ordered(Below, e, r)
  <2>1. JumpAsked(r) /\ HandlersHold(stack, r)
    BY <1>2, <1>3 DEF Ordered, JumpAsked, HandlersHold, IsJump
  <2>2. IsLast(Top) => r.kind = "return"
    <3>1. SUFFICES ASSUME IsLast(Top) PROVE r.kind = "return"
      OBVIOUS
    <3>2. Top.kind = "EXIT"
      BY <3>1 DEF IsLast
    <3>3. Below # <<>> /\ Last(Below).kind = "shell"
      BY <1>2, <3>1, UnderTop DEF Ordered, Top, Below
    <3>4. r.kind \notin {"break", "continue"}
      <4>1. SUFFICES ASSUME r.kind \in {"break", "continue"} PROVE FALSE
        OBVIOUS
      <4>2. ~Does("redirect-fails")
        BY <2>1, <4>1, <1>2 DEF JumpAsked, Orderly
      <4>3. r.level <= Cardinality(LoopBodies(Below)) /\ r.level \in 1 .. MaxLevel
        BY <1>4, <4>1, <4>2, ResultCases DEF JumpSound, JumpHasPlace
      <4>4. Cardinality(LoopBodies(Below)) = 0
        <5>1. Front(Below) \in Seq(Frames) /\ Last(Below) \in Frames
              /\ Below = Append(Front(Below), Last(Below))
          BY <1>4, <3>3, PopIsPush
        <5>2. Cardinality(LoopBodies(Append(Front(Below), Last(Below)))) = 0
          BY <3>3, <5>1, PushCounts
        <5> QED BY <5>1, <5>2
      <4> QED BY <4>3, <4>4, BoundAssumption
    <3> QED BY <1>1, <1>3, <3>2, <3>4 DEF Unwinding
  <2> QED BY <1>2, <1>5, <2>1, <2>2, PopOrdered DEF Top, Below
<1> QED BY <1>1, <1>3, <1>4, <1>6, <1>7 DEF r, e

\* How a stack without the constructs that take an exit looks from outside.
LEMMA PlainShape ==
  ASSUME OrderlyState, stack # <<>>,
         \A i \in DOMAIN stack : ~TakesExit(stack[i])
  PROVE  LET a == KindsOf(stack)
         IN  /\ a \in Seq(Names) /\ a # <<>> /\ a[1] \in {"shell", "leaving"}
             /\ \A i \in DOMAIN a : a[i] # "list"
             /\ \A i \in DOMAIN a : a[i] = "last" => i > 1 /\ a[i - 1] = "leaving"
             /\ \A i \in DOMAIN a : a[i] = "leaving" /\ i < Len(a) => a[i + 1] = "last"
<1> DEFINE a == KindsOf(stack)
<1>1. stack \in Seq(Frames) /\ Nesting(stack) /\ stack[1].kind = "shell" /\ Last(stack) \in Frames
  BY OrderlyFacts, InvFacts, PopIsPush DEF Ordered, StateSound
<1>2. /\ DOMAIN stack = 1 .. Len(stack) /\ Len(stack) \in Nat \ {0}
      /\ \A i \in DOMAIN stack : stack[i] \in Frames
  BY <1>1
<1>3. a \in Seq(Names) /\ Len(a) = Len(stack) /\ a # <<>>
  BY <1>1, KindsPush, TopName
<1>4. DOMAIN a = DOMAIN stack /\ \A i \in DOMAIN stack : a[i] = AbstractKind(stack[i])
  BY DEF KindsOf
<1> HIDE DEF a
<1>5. 1 \in DOMAIN stack
  BY <1>2
<1>6. a[1] \in {"shell", "leaving"}
  BY <1>1, <1>2, <1>4, <1>5, NameOfShell
<1>7. \A i \in DOMAIN a : a[i] # "list"
  BY <1>2, <1>4, NameOfShell
<1>8. ASSUME NEW i \in DOMAIN a, a[i] = "last" PROVE i > 1 /\ a[i - 1] = "leaving"
  <2>1. stack[i] \in Frames /\ stack[i].kind = "EXIT" /\ stack[i].for # "exit"
    BY <1>2, <1>4, <1>8, NameOfShell
  <2>2. IsLast(stack[i])
    BY <2>1, ForOfHandlers DEF IsLast
  <2>3. i > 1 /\ stack[i - 1].kind = "shell" /\ stack[i - 1].phase = "done"
    BY <1>1, <1>4, <2>2 DEF Nesting
  <2>4. i - 1 \in DOMAIN stack
    BY <1>2, <1>4, <2>3
  <2>5. AbstractKind(stack[i - 1]) = "leaving"
    BY <1>2, <2>3, <2>4, NameOf
  <2> QED BY <1>4, <2>3, <2>4, <2>5
<1>9. ASSUME NEW i \in DOMAIN a, a[i] = "leaving", i < Len(a) PROVE a[i + 1] = "last"
  <2>1. stack[i] \in Frames /\ stack[i].kind = "shell"
    BY <1>2, <1>4, <1>9, NameOfShell
  <2>2. stack[i].phase # "commands"
    BY <1>4, <1>9, <2>1, NameOf
  <2>3. IsLast(stack[i + 1]) /\ i + 1 \in DOMAIN stack
    BY <1>1, <1>2, <1>3, <1>4, <1>9, <2>1, <2>2 DEF Nesting
  <2>4. AbstractKind(stack[i + 1]) = "last"
    BY <1>2, <2>3, NameOf DEF IsLast
  <2> QED BY <1>4, <2>3, <2>4
<1> QED BY <1>3, <1>6, <1>7, <1>8, <1>9 DEF a

\* errexit makes an exit of a break that leaves a function: from where the
\* break was going it is an exit, nothing on the way takes it for a status.
LEMMA ErrexitAfterBreak ==
  ASSUME OrderlyState, Unwinding, Top.kind = "function", result.kind \in {"break", "continue"},
         Does("errexit"), NEW x, x.kind = "exit"
  PROVE  AbstractStep(Land(stack, result), Land(Below, x))
<1> DEFINE a == KindsOf(stack)
           n == result.level
<1>1. /\ stack # <<>> /\ stack \in Seq(Frames) /\ Top \in Frames /\ CfInv /\ Orderly
      /\ StackAsked(stack) /\ JumpAsked(result) /\ n \in Nat \ {0}
  BY UnwindingRef DEF Ordered
<1>2. Does("break") /\ Does("function") /\ ~Does("redirect-fails")
  <2>1. Does("break")
    BY <1>1 DEF JumpAsked
  <2>2. Does("function")
    BY <1>1, TopAsked DEF Top, Kinds7
  <2> QED BY <1>1, <2>1, <2>2 DEF Orderly
<1>3. \A i \in DOMAIN stack : ~TakesExit(stack[i])
  <2>1. features \cap {"and-or", "invert", "time", "group"} = {}
    BY <1>1, <1>2 DEF Orderly
  <2>2. ASSUME NEW i \in DOMAIN stack, TakesExit(stack[i]) PROVE FALSE
    <3>1. Does(stack[i].kind) /\ stack[i].kind \in {"and-or", "invert", "time", "group"}
      BY <1>1, <2>2 DEF StackAsked, TakesExit, Kinds7
    <3> QED BY <2>1, <3>1 DEF Does
  <2> QED BY <2>2
<1>4. /\ a \in Seq(Names) /\ a # <<>> /\ a[1] \in {"shell", "leaving"}
      /\ \A i \in DOMAIN a : a[i] # "list"
      /\ \A i \in DOMAIN a : a[i] = "last" => i > 1 /\ a[i - 1] = "leaving"
      /\ \A i \in DOMAIN a : a[i] = "leaving" /\ i < Len(a) => a[i + 1] = "last"
  BY <1>1, <1>3, PlainShape
<1>5. n <= Cardinality(S!Loops(a)) \/ (S!Wall(a) > 0 /\ a[S!Wall(a)] = "trap")
  <2>1. n <= Cardinality(LoopBodies(stack)) /\ Cardinality(LoopBodies(stack)) \in Nat
    BY <1>1, <1>2, InvFacts, CardsAreNats DEF JumpSound, JumpHasPlace
  <2>2. Cardinality(S!Loops(a)) \in Nat
    <3>1. \E k : k \in Names
      BY DEF Names, S!Kinds
    <3> QED BY <1>4, <3>1, LoopsPush, FS_CardinalityType
  <2>3. \/ S!Wall(a) > 0 /\ a[S!Wall(a)] = "trap"
        \/ Cardinality(LoopBodies(stack)) <= Cardinality(S!Loops(a))
    BY <1>1, LoopsAreBodies
  <2> HIDE DEF a
  <2> QED BY <1>1, <2>1, <2>2, <2>3
<1>6. Land(stack, result) = S!BreakTo(a, n) \/ Land(stack, result) = S!ContinueTo(a, n)
  BY LandIs
<1>7. Land(Below, x) = S!ExitTo(a)
  <2>1. /\ KindsOf(Below) \in Seq(Names) /\ AbstractKind(Top) = "function" /\ "function" \in Names
        /\ a = Append(KindsOf(Below), AbstractKind(Top))
    BY <1>1, KindsTop, NameOf DEF Top, Below
  <2>2. S!ExitTo(Append(KindsOf(Below), "function")) = S!ExitTo(KindsOf(Below))
    BY <2>1, ExitPush
  <2> QED BY <2>1, <2>2, LandIs
<1> HIDE DEF a, n
<1>8. AbstractStep(Land(stack, result), S!ExitTo(a))
  BY <1>1, <1>4, <1>5, <1>6, ExitAfterJump
<1> QED BY <1>7, <1>8

LEMMA PassesOnRef ==
  ASSUME OrderlyState, PassesOn
  PROVE  RefAfter
<1> DEFINE r == Outwards(Top, result)
           e == Uncounted(ex, Top)
<1>1. /\ Unwinding /\ Top.kind \notin {"shell", "ERR"} /\ r.kind = result.kind
      /\ Land(stack, result) = Land(Below, r) /\ Ordered(Below, e, r)
      /\ StateSound(Below, e) /\ JumpSound(Below, r)
      /\ result.kind = "exit" => r = result
  BY PassesOnFacts
<1>2. /\ ~(Top.kind = "function" /\ result.kind = "return")
      /\ IF Top.kind = "function" \/ (Top.kind = "EXIT" /\ Top.for = "exit")
         THEN Gives(Below, e, r) ELSE HandsOn(Below, e, r, Top.kind)
  BY DEF PassesOn
<1>3. e.errexit => Does("errexit")
  BY StatusErrexit
<1> HIDE DEF r, e
<1>4. AbstractStep(Land(stack, result), Land(Below, r))
  BY <1>1 DEF AbstractStep
<1>5. CASE ~(Top.kind = "function" \/ (Top.kind = "EXIT" /\ Top.for = "exit"))
  BY <1>1, <1>2, <1>4, <1>5, OrderlyFacts, RefHandsOn
<1>6. CASE Top.kind = "function" \/ (Top.kind = "EXIT" /\ Top.for = "exit")
  <2>1. Below # <<>> => ~Out(Last(Below))
    <3>1. ~IsLast(Top)
      BY <1>6 DEF IsLast
    <3> QED BY <1>1, <3>1, UnwindingRef, UnderTop DEF Ordered, Top, Below
  <2>2. ASSUME ErrexitActs(e)
        PROVE  AbstractStep(Land(stack, result), Land(Below, ExitCode(e.exit_code)))
    <3>1. ExitCode(e.exit_code).kind = "exit" /\ Does("errexit")
      BY <1>3, <2>2, CalmKinds DEF ErrexitActs
    <3>2. ASSUME NEW x, x.kind = "exit"
          PROVE  AbstractStep(Land(stack, result), Land(Below, x))
      <4>1. CASE result.kind = "exit"
        <5>1. Land(Below, x) = Land(Below, r)
          BY <1>1, <3>2, <4>1, LandIs
        <5> QED BY <1>1, <4>1, <5>1 DEF AbstractStep
      <4>2. CASE result.kind # "exit" /\ Top.kind = "EXIT"
        <5>1. IsJump(result)
          BY <1>1, <4>2 DEF Unwinding, IsJump
        <5>2. NoHandler(stack)
          BY <1>1, <3>1, <5>1, UnwindingRef DEF Ordered, HandlersHold, Orderly
        <5>3. Top = stack[Len(stack)] /\ Len(stack) \in DOMAIN stack
          BY <1>1, UnwindingRef, PopFacts DEF Top
        <5> QED BY <4>2, <5>2, <5>3 DEF NoHandler
      <4>3. CASE result.kind # "exit" /\ Top.kind = "function"
        <5>1. result.kind \in {"break", "continue"}
          BY <1>1, <1>2, <4>3 DEF Unwinding
        <5> QED BY <1>1, <3>1, <3>2, <4>3, <5>1, ErrexitAfterBreak
      <4> QED BY <1>6, <4>1, <4>2, <4>3
    <3> QED BY <3>1, <3>2
  <2> QED BY <1>1, <1>2, <1>4, <1>6, <2>1, <2>2, RefGives
<1> QED BY <1>5, <1>6

-------------------------------------------------------------------------------
(* The refinement *)

LEMMA StepsRef ==
  ASSUME OrderlyState, Steps
  PROVE  RefAfter
<1>1. 0 .. 1 = Status
  BY DEF Status
<1>2. ASSUME \/ \E s \in 0 .. 1 : Simple(s)
             \/ \E on \in BOOLEAN : SetErrexit(on)
             \/ \E trap \in {"ERR", "EXIT"} : SetTrap(trap)
             \/ SubshellRedirectFails
      PROVE  RefAfter
  BY <1>1, <1>2, SimpleCommandsRef
<1>3. ASSUME NEW s \in 0 .. 1, ReturnFrom(s) \/ ExitShell(s) PROVE RefAfter
  BY <1>1, <1>3, ReturnFromRef, ExitShellRef
<1>4. ASSUME NEW kind \in {"break", "continue"}, NEW n \in 1 .. MaxLevel, LoopControl(kind, n)
      PROVE  RefAfter
  BY <1>4, LoopControlRef
<1>5. ASSUME \/ \E kind \in {"for", "function", "invert", "time", "group"} :
                  Enter(Element(kind, "commands"))
             \/ Enter(Element("if", "condition"))
             \/ Enter(Loop("condition", 0))
             \/ Enter(Element("and-or", "member"))
      PROVE  RefAfter
  BY <1>5, EntersRef
<1>6. ASSUME \/ EnterSubshell \/ Settle \/ ConditionEnds \/ BodyEnds \/ ListEnds \/ HandlerEnds
             \/ ShellEnds \/ RunExitTrap \/ LeaveShell
      PROVE  RefAfter
  BY <1>6, EnterSubshellRef, SettleRef, ConditionEndsRef, BodyEndsRef, ListEndsRef,
     HandlerEndsRef, ShellEndsRef, RunExitTrapRef, LeaveShellRef
<1>7. ASSUME \/ CaughtByLoop \/ CaughtByFunction \/ ExitTaken \/ ErrHandlerAbandoned
             \/ ExitHandlerExits \/ ShellExits \/ SubshellAbandoned \/ PassesOn
      PROVE  RefAfter
  BY <1>7, CaughtByLoopRef, CaughtByFunctionRef, ExitTakenRef, ErrHandlerAbandonedRef,
     ExitHandlerExitsRef, ShellExitsRef, SubshellAbandonedRef, PassesOnRef
<1> QED BY <1>2, <1>3, <1>4, <1>5, <1>6, <1>7 DEF Steps

LEMMA InitRef ==
  ASSUME Init, Orderly
  PROVE  OrderlyState /\ Structured!Init
<1> DEFINE sh == Shell("commands", Saved(ex))
<1>1. stack = <<sh>> /\ result = Running /\ ex.errexit = FALSE /\ CfInv
  BY InitSound DEF Init
<1>2. sh.kind = "shell" /\ sh.phase = "commands" /\ sh.was.errexit = FALSE
  BY <1>1 DEF Shell, Saved
<1>3. sh \in Frames
  BY <1>1, InvFacts
<1> HIDE DEF sh
<1>4. Nesting(stack) /\ StackAsked(stack)
  <2>1. ~IsLast(sh) /\ sh.kind \notin Kinds7
    BY <1>2 DEF IsLast, Kinds7
  <2> QED BY <1>1, <1>2, <2>1 DEF Nesting, StackAsked
<1>5. TopCalm(stack, result) /\ JumpAsked(result) /\ HandlersHold(stack, result)
  BY <1>1, CalmKinds, NoJump DEF TopCalm
<1>6. OrderlyState
  BY <1>1, <1>4, <1>5 DEF OrderlyState, Ordered
<1>7. Landing = <<"shell">>
  <2>1. Landing = KindsOf(stack)
    BY <1>1, CalmKinds, LandingIsLand, LandIs
  <2>2. AbstractKind(sh) = "shell"
    BY <1>2, <1>3, NameOf
  <2> QED BY <1>1, <2>1, <2>2 DEF KindsOf
<1> QED BY <1>6, <1>7 DEF Structured!Init

LEMMA NextRef ==
  ASSUME OrderlyState, [Next]_vars
  PROVE  OrderlyState' /\ [Structured!Next]_Landing
<1>1. CfInv'
  BY NextSound DEF OrderlyState
<1>2. CASE Next
  <2>1. features' = features /\ RefAfter
    BY <1>2, StepsRef DEF Next
  <2>2. Landing' = Land(stack', result')
    BY DEF Landing, Land, Kinds, KindsOf
  <2>3. AbstractStep(Landing, Landing')
    BY <2>1, <2>2 DEF RefAfter
  <2>4. Orderly' /\ Ordered(stack, ex, result)'
    BY <2>1 DEF OrderlyState, Orderly, Does, RefAfter, Ordered, JumpAsked, StackAsked, HandlersHold,
       NoHandler
  <2> QED BY <1>1, <2>3, <2>4, AbstractStepIsNext DEF OrderlyState
<1>3. CASE UNCHANGED vars
  <2>1. Landing' = Landing
    BY <1>3 DEF vars, Landing, Kinds
  <2>2. Orderly' /\ Ordered(stack, ex, result)'
    BY <1>3 DEF vars, OrderlyState, Orderly, Does, Ordered, JumpAsked, StackAsked, HandlersHold,
       NoHandler
  <2> QED BY <1>1, <2>1, <2>2 DEF OrderlyState
<1> QED BY <1>2, <1>3

\* Every break, continue, return and exit of an orderly script, unwound call by
\* call through execute_ast with its counters, is one step of structured
\* control: to the one place that the nesting of its constructs determines.
THEOREM ControlIsStructured == Spec /\ Orderly => ImplementsStructuredControl
<1>1. Init /\ Orderly => OrderlyState /\ Structured!Init
  BY InitRef
<1>2. OrderlyState /\ [Next]_vars => OrderlyState' /\ [Structured!Next]_Landing
  BY NextRef
<1> QED BY <1>1, <1>2, PTL DEF Spec, ImplementsStructuredControl, Structured!Spec
===============================================================================
