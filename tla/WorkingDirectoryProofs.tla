------------------------ MODULE WorkingDirectoryProofs ------------------------
(***************************************************************************)
(* The four places that know the directory agree, for every tree of         *)
(* directories and links.  What a subshell will put back has to be part of  *)
(* the invariant: it is taken while the places agree.                       *)
(*                                                                          *)
(* getopts, for every list of words: what is left to give after a call, put *)
(* behind what was given, is what a reader of the words alone gives.        *)
(***************************************************************************)
EXTENDS WorkingDirectory, Getopts, OrderProofs, SequenceTheorems, TLAPS

RealDirs == {Real[d] : d \in Dirs}

\* What the subshell being run restores: places that agree, and a stack unset.
OuterAgrees ==
  outer # << >> =>
    \E o \in [kind : SubshellKinds, cwd : RealDirs, pwd : Dirs, typed : Dirs,
              oldpwd : Paths \cup {NoPath}, stack : {<< >>},
              strayed : {FALSE}, unsynced : {FALSE}] :
      /\ outer = <<o>>
      /\ o.typed = o.pwd /\ o.cwd = Real[o.pwd]

Typed ==
  /\ cwd \in RealDirs
  /\ pwd \in Paths /\ typed \in Paths
  /\ oldpwd \in Paths \cup {NoPath}
  /\ stack \in Seq(Paths) /\ Len(stack) <= MaxStack
  /\ strayed \in BOOLEAN /\ unsynced \in BOOLEAN
  /\ trail \in Seq(Paths)

\* The inductive invariant.
WdInv == Typed /\ OuterAgrees /\ StrayHasCause /\ UnsyncedHasCause /\ TrailOnStack

-----------------------------------------------------------------------------
(* Paths and the stack as it is shown.                                       *)

LEMMA PathIsBounded ==
  ASSUME NEW p
  PROVE  p \in Paths <=> p \in Seq(Names) /\ Len(p) <= MaxPath
<1>1. ASSUME p \in Paths PROVE p \in Seq(Names) /\ Len(p) <= MaxPath
  BY <1>1, BoundsAssumption DEF Paths
<1>2. ASSUME p \in Seq(Names), Len(p) <= MaxPath PROVE p \in Paths
  <2>1. Len(p) \in 0 .. MaxPath /\ p \in [1 .. Len(p) -> Names]
    BY <1>2, LenProperties, BoundsAssumption
  <2> QED BY <2>1 DEF Paths
<1> QED BY <1>1, <1>2

LEMMA PartOfStack ==
  ASSUME NEW S, NEW s \in Seq(S), NEW m \in 1 .. Len(s) + 1, NEW n \in m - 1 .. Len(s)
  PROVE  /\ SubSeq(s, m, n) \in Seq(S) /\ Len(SubSeq(s, m, n)) = n - m + 1
         /\ \A i \in 1 .. n - m + 1 : SubSeq(s, m, n)[i] = s[m + i - 1]
<1>1. m \in Int /\ n \in Int /\ \A i \in m .. n : s[i] \in S
  OBVIOUS
<1> QED BY <1>1, SubSeqProperties

LEMMA RealIsDir == RealDirs \subseteq Dirs
BY DirsAssumption DEF RealDirs

\* A name joined to a path is a path, if the bound allows.
LEMMA JoinIsPath ==
  ASSUME NEW base \in Paths, NEW name \in Names \cup {".."}, Len(Join(base, name)) <= MaxPath
  PROVE  Join(base, name) \in Paths
<1>1. base \in Seq(Names) /\ Len(base) <= MaxPath
  BY PathIsBounded
<1>2. Join(base, name) \in Seq(Names)
  <2>1. CASE name = ".." /\ base # Root
    BY <1>1, <2>1 DEF Join, Root, Front
  <2>2. CASE name = ".." /\ base = Root
    BY <1>1, <2>2 DEF Join
  <2>3. CASE name # ".."
    BY <1>1, <2>3 DEF Join
  <2> QED BY <2>1, <2>2, <2>3
<1> QED BY <1>2, PathIsBounded

\* The stack as shown is a sequence of paths within the bound, never empty.
LEMMA LoadedIsStack ==
  ASSUME Typed
  PROVE  /\ Loaded \in Seq(Paths) /\ Loaded # << >>
         /\ Len(Loaded) \in 1 .. MaxStack
<1>1. CASE stack = << >>
  BY <1>1, BoundsAssumption DEF Typed, Loaded
<1>2. CASE stack # << >>
  BY <1>2, BoundsAssumption DEF Typed, Loaded
<1> QED BY <1>1, <1>2

-----------------------------------------------------------------------------
(* cd                                                                        *)

\* Where a path typed for cd leads from the directory of the process, before its links.
Spelled(typedPath) ==
  IF typedPath.kind = "absolute" THEN typedPath.path ELSE Join(cwd, typedPath.name)

LEMMA ReachIsReal ==
  ASSUME NEW t, Reach(t) # NoPath
  PROVE  Spelled(t) \in Dirs /\ Reach(t) = Real[Spelled(t)]
BY DEF Reach, Spelled

\* CDPATH and cdable_vars turn an operand into an absolute one, or leave it.
LEMMA TargetIsOperand ==
  ASSUME NEW o \in Operands
  PROVE  \/ Target(o).kind = "absolute"
         \/ \E n \in Names \cup {".."} : Target(o) = Relative(n)
<1>1. \/ \E p : o = Absolute(p)
      \/ \E n \in Names \cup {".."} : o = Relative(n)
  BY DEF Operands
<1>2. \/ \E p : Target(o) = Absolute(p)
      \/ Target(o) = o
  BY DEF Target
<1> QED BY <1>1, <1>2 DEF Absolute

LEMMA CdKeeps ==
  ASSUME WdInv, NEW o \in Operands, NEW physical \in BOOLEAN, NEW redirected \in BOOLEAN,
         Cd(o, physical, redirected)
  PROVE  WdInv'
<1> DEFINE t == Target(o)
           newPwd == IF physical THEN Reach(t)
                     ELSE IF t.kind = "absolute" THEN t.path ELSE Join(pwd, t.name)
<1>1. /\ Reach(t) # NoPath /\ Len(newPwd) <= MaxPath
      /\ cwd' = Reach(t) /\ oldpwd' = pwd /\ pwd' = newPwd
      /\ typed' = (IF redirected THEN typed ELSE newPwd)
      /\ unsynced' = redirected
      /\ strayed' = (~physical /\ t.kind = "relative"
                       /\ (strayed \/ (t.name = ".." /\ pwd # cwd)))
      /\ trail' = << >> /\ stack' = stack /\ outer' = outer
  BY DEF Cd
<1>2. \/ t.kind = "absolute"
      \/ \E n \in Names \cup {".."} : t = Relative(n)
  BY TargetIsOperand
<1>3. Spelled(t) \in Dirs /\ Reach(t) = Real[Spelled(t)]
  BY <1>1, ReachIsReal
<1>4. Reach(t) \in RealDirs /\ Reach(t) \in Dirs /\ Real[Reach(t)] = Reach(t)
  BY <1>3, DirsAssumption DEF RealDirs
<1> HIDE DEF t
<1>5. pwd' \in Paths
  <2>1. CASE physical
    BY <2>1, <1>1, <1>4, BoundsAssumption
  <2>2. CASE ~physical /\ t.kind = "absolute"
    BY <2>2, <1>1, <1>3, BoundsAssumption DEF Spelled
  <2>3. CASE ~physical /\ t.kind # "absolute"
    <3>1. PICK n \in Names \cup {".."} : t = Relative(n)
      BY <1>2, <2>3
    <3>2. newPwd = Join(pwd, n) /\ pwd \in Paths
      BY <2>3, <3>1 DEF Relative, WdInv, Typed
    <3> QED BY <3>2, <1>1, JoinIsPath
  <2> QED BY <2>1, <2>2, <2>3
<1>6. Typed'
  BY <1>1, <1>4, <1>5, BoundsAssumption DEF WdInv, Typed
<1>7. OuterAgrees'
  BY <1>1 DEF WdInv, OuterAgrees
<1>8. StrayHasCause'
  <2>1. CASE physical
    BY <2>1, <1>1, <1>4 DEF StrayHasCause
  <2>2. CASE ~physical /\ t.kind = "absolute"
    <3>1. pwd' = t.path /\ Spelled(t) = t.path
      BY <2>2, <1>1 DEF Spelled
    <3> QED BY <3>1, <1>1, <1>3 DEF StrayHasCause
  <2>3. CASE ~physical /\ t.kind # "absolute"
    <3>1. PICK n \in Names \cup {".."} : t = Relative(n)
      BY <1>2, <2>3
    <3>2. /\ pwd' = Join(pwd, n) /\ Spelled(t) = Join(cwd, n)
          /\ strayed' = (strayed \/ (n = ".." /\ pwd # cwd))
      BY <2>3, <3>1, <1>1 DEF Relative, Spelled
    <3>3. CASE pwd = cwd
      BY <3>2, <3>3, <1>1, <1>3 DEF StrayHasCause
    <3>4. CASE ~strayed /\ n # ".." /\ pwd # cwd
      <4>1. pwd \in Dirs /\ cwd = Real[pwd]
        BY <3>4 DEF WdInv, StrayHasCause
      <4>2. pwd' = Append(pwd, n) /\ Spelled(t) = Append(Real[pwd], n) /\ n \in Names
        BY <3>2, <3>4, <4>1 DEF Join
      <4>3. Len(pwd) < MaxPath
        <5>1. pwd \in Seq(Names) /\ pwd' \in Seq(Names) /\ Len(pwd') <= MaxPath
          BY <4>1, <1>5, PathIsBounded, BoundsAssumption
        <5>2. Len(pwd') = Len(pwd) + 1
          BY <5>1, <4>2
        <5> QED BY <5>1, <5>2, BoundsAssumption
      <4>4. pwd' \in Dirs /\ Real[pwd'] = Real[Spelled(t)]
        BY <4>1, <4>2, <4>3, <1>3, LinksAssumption
      <4> QED BY <4>4, <1>1, <1>3 DEF StrayHasCause
    <3>5. CASE strayed' = TRUE
      BY <3>5 DEF StrayHasCause
    <3>6. strayed \in BOOLEAN
      BY DEF WdInv, Typed
    <3> QED BY <3>2, <3>3, <3>4, <3>5, <3>6
  <2> QED BY <2>1, <2>2, <2>3
<1>9. UnsyncedHasCause' /\ TrailOnStack'
  BY <1>1 DEF UnsyncedHasCause, TrailOnStack
<1> QED BY <1>6, <1>7, <1>8, <1>9 DEF WdInv

-----------------------------------------------------------------------------
(* The stack builtins                                                        *)

\* A builtin that saves a stack and stays where it is.
LEMMA StayKeeps ==
  ASSUME WdInv, NEW s \in Seq(Paths), Len(s) <= MaxStack, Stay(s)
  PROVE  WdInv'
<1>1. /\ stack' = s /\ typed' = pwd /\ unsynced' = FALSE /\ trail' = << >>
      /\ cwd' = cwd /\ pwd' = pwd /\ oldpwd' = oldpwd /\ outer' = outer /\ strayed' = strayed
  BY DEF Stay
<1>2. Typed'
  <2>1. << >> \in Seq(Paths)
    OBVIOUS
  <2> QED BY <1>1, <2>1 DEF WdInv, Typed
<1>3. OuterAgrees'
  BY <1>1 DEF WdInv, OuterAgrees
<1>4. StrayHasCause' /\ UnsyncedHasCause' /\ TrailOnStack'
  BY <1>1 DEF WdInv, StrayHasCause, UnsyncedHasCause, TrailOnStack
<1> QED BY <1>2, <1>3, <1>4 DEF WdInv

\* A builtin that goes to the top of the stack it saves, and starts the trail anew.
LEMMA GoToKeeps ==
  ASSUME WdInv, NEW dir \in Paths, NEW old \in Paths \cup {NoPath},
         NEW s \in Seq(Paths), Len(s) <= MaxStack, GoTo(dir, old, s)
  PROVE  /\ trail' \in Seq(Paths) => Typed'
         /\ OuterAgrees' /\ StrayHasCause' /\ UnsyncedHasCause'
<1>1. trail' \in Seq(Paths) => Typed'
  BY DEF WdInv, GoTo, Typed
<1>2. OuterAgrees' /\ UnsyncedHasCause'
  BY DEF WdInv, GoTo, OuterAgrees, UnsyncedHasCause
<1>3. StrayHasCause'
  BY DEF WdInv, Typed, GoTo, StrayHasCause
<1> QED BY <1>1, <1>2, <1>3

LEMMA GoToAnewKeeps ==
  ASSUME WdInv, NEW dir \in Paths, NEW old \in Paths \cup {NoPath},
         NEW s \in Seq(Paths), Len(s) <= MaxStack, GoTo(dir, old, s), trail' = << >>
  PROVE  WdInv'
<1>1. Typed' /\ OuterAgrees' /\ StrayHasCause' /\ UnsyncedHasCause'
  BY GoToKeeps
<1>2. TrailOnStack'
  BY DEF TrailOnStack
<1> QED BY <1>1, <1>2 DEF WdInv

LEMMA PushdSwapKeeps ==
  ASSUME WdInv, PushdSwap
  PROVE  WdInv'
<1>1. Loaded \in Seq(Paths) /\ Len(Loaded) \in 2 .. MaxStack /\ pwd \in Paths
  BY LoadedIsStack, BoundsAssumption DEF WdInv, Typed, PushdSwap
<1> DEFINE s == <<Loaded[2], Loaded[1]>> \o SubSeq(Loaded, 3, Len(Loaded))
<1>2. Loaded[1] \in Paths /\ Loaded[2] \in Paths
  BY <1>1
<1>3. SubSeq(Loaded, 3, Len(Loaded)) \in Seq(Paths) /\ Len(SubSeq(Loaded, 3, Len(Loaded))) = Len(Loaded) - 2
  <2>1. 3 \in 1 .. Len(Loaded) + 1 /\ Len(Loaded) \in 3 - 1 .. Len(Loaded)
    BY <1>1, BoundsAssumption
  <2>2. /\ SubSeq(Loaded, 3, Len(Loaded)) \in Seq(Paths)
        /\ Len(SubSeq(Loaded, 3, Len(Loaded))) = Len(Loaded) - 3 + 1
    BY <1>1, <2>1, PartOfStack, Zenon
  <2> QED BY <1>1, <2>2, BoundsAssumption
<1>4. s \in Seq(Paths) /\ Len(s) <= MaxStack
  BY <1>1, <1>2, <1>3, BoundsAssumption
<1>5. GoTo(Loaded[2], pwd, s) /\ trail' = << >>
  BY DEF PushdSwap
<1> QED BY <1>1, <1>2, <1>4, <1>5, GoToAnewKeeps

LEMMA PushdIndexKeeps ==
  ASSUME WdInv, NEW n, NEW fromRight, NEW noCd, PushdIndex(n, fromRight, noCd)
  PROVE  WdInv'
<1>1. Loaded \in Seq(Paths) /\ Len(Loaded) \in 1 .. MaxStack /\ pwd \in Paths
  BY LoadedIsStack DEF WdInv, Typed
<1>2. CASE noCd
  <2>1. Stay(Loaded)
    BY <1>2 DEF PushdIndex
  <2> QED BY <2>1, <1>1, StayKeeps, BoundsAssumption
<1>3. CASE ~noCd
  <2> DEFINE i == Position(n, fromRight)
             rotated == SubSeq(Loaded, i, Len(Loaded)) \o SubSeq(Loaded, 1, i - 1)
  <2>1. i \in 1 .. Len(Loaded) /\ GoTo(rotated[1], pwd, rotated) /\ trail' = << >>
    BY <1>1, <1>3 DEF PushdIndex
  <2> HIDE DEF i
  <2>2. /\ SubSeq(Loaded, i, Len(Loaded)) \in Seq(Paths)
        /\ Len(SubSeq(Loaded, i, Len(Loaded))) = Len(Loaded) - i + 1
        /\ SubSeq(Loaded, 1, i - 1) \in Seq(Paths)
        /\ Len(SubSeq(Loaded, 1, i - 1)) = i - 1
    BY <1>1, <2>1, BoundsAssumption
  <2>3. rotated \in Seq(Paths) /\ Len(rotated) = Len(Loaded)
    BY <1>1, <2>1, <2>2, BoundsAssumption
  <2>4. rotated[1] \in Paths /\ Len(rotated) <= MaxStack
    BY <1>1, <2>3, BoundsAssumption
  <2> QED BY <1>1, <2>1, <2>3, <2>4, GoToAnewKeeps
<1> QED BY <1>2, <1>3

\* A push leaves one more directory for popd: the trail grows with the stack.
LEMMA PushdDirKeeps ==
  ASSUME WdInv, NEW o, NEW noCd, PushdDir(o, noCd)
  PROVE  WdInv'
<1> DEFINE dir == IF o.kind = "absolute" THEN o.path ELSE Join(pwd, o.name)
<1>1. dir \in Paths /\ Len(Loaded) < MaxStack
  BY BoundsAssumption DEF PushdDir, Exists
<1>2. Loaded \in Seq(Paths) /\ Loaded # << >> /\ Len(Loaded) \in 1 .. MaxStack /\ pwd \in Paths
  BY LoadedIsStack DEF WdInv, Typed
<1>3. /\ noCd => Stay(InsertAt(Loaded, 2, dir))
      /\ ~noCd => /\ GoTo(dir, Loaded[1], Pushed(dir))
                  /\ trail' = IF Loaded[1] = pwd THEN <<pwd>> \o trail ELSE << >>
  BY DEF PushdDir
<1> HIDE DEF dir
<1>4. CASE noCd
  <2>1. 1 \in 1 .. Len(Loaded) + 1 /\ 2 - 1 \in 1 - 1 .. Len(Loaded)
    BY <1>2, BoundsAssumption
  <2>2. SubSeq(Loaded, 1, 2 - 1) \in Seq(Paths) /\ Len(SubSeq(Loaded, 1, 2 - 1)) = 2 - 1 - 1 + 1
    BY <1>2, <2>1, PartOfStack, Zenon
  <2>3. 2 \in 1 .. Len(Loaded) + 1 /\ Len(Loaded) \in 2 - 1 .. Len(Loaded)
    BY <1>2, BoundsAssumption
  <2>4. /\ SubSeq(Loaded, 2, Len(Loaded)) \in Seq(Paths)
        /\ Len(SubSeq(Loaded, 2, Len(Loaded))) = Len(Loaded) - 2 + 1
    BY <1>2, <2>3, PartOfStack, Zenon
  <2>5. InsertAt(Loaded, 2, dir) \in Seq(Paths) /\ Len(InsertAt(Loaded, 2, dir)) <= MaxStack
    BY <1>1, <1>2, <2>2, <2>4, BoundsAssumption DEF InsertAt
  <2> QED BY <1>3, <1>4, <2>5, StayKeeps
<1>5. CASE ~noCd
  <2>1. Pushed(dir) \in Seq(Paths) /\ Len(Pushed(dir)) <= MaxStack
    BY <1>1, <1>2, BoundsAssumption DEF Pushed
  <2>2. Loaded[1] \in Paths \cup {NoPath}
    BY <1>2
  <2>3. trail' \in Seq(Paths)
    <3>1. << >> \in Seq(Paths) /\ <<pwd>> \o trail \in Seq(Paths)
      BY <1>2 DEF WdInv, Typed
    <3> QED BY <3>1, <1>3, <1>5
  <2>4. Typed' /\ OuterAgrees' /\ StrayHasCause' /\ UnsyncedHasCause'
    BY <1>1, <1>3, <1>5, <2>1, <2>2, <2>3, GoToKeeps
  <2>5. TrailOnStack'
    <3>1. CASE Loaded[1] # pwd
      BY <1>3, <1>5, <3>1 DEF TrailOnStack
    <3>2. CASE Loaded[1] = pwd
      <4>1. stack' = <<dir>> \o Loaded /\ pwd' = dir /\ trail' = <<pwd>> \o trail
        BY <1>3, <1>5, <3>2 DEF GoTo, Pushed
      <4>2. Loaded' = stack' /\ Len(stack') = Len(Loaded) + 1 /\ stack'[1] = dir
            /\ \A k \in 1 .. Len(Loaded) : stack'[k + 1] = Loaded[k]
        BY <4>1, <1>2 DEF Loaded
      <4>3. trail \in Seq(Paths) /\ Len(trail') = Len(trail) + 1 /\ trail'[1] = pwd
            /\ \A k \in 1 .. Len(trail) : trail'[k + 1] = trail[k]
        BY <4>1 DEF WdInv, Typed
      <4>4. \A k \in 1 .. Len(trail) : k + 1 \in 1 .. Len(Loaded) /\ Loaded[k + 1] = trail[k]
        BY <4>3, <1>2 DEF WdInv, TrailOnStack
      <4>5. ASSUME NEW k \in 1 .. Len(trail) + 1
            PROVE  k + 1 \in 1 .. Len(stack') /\ stack'[k + 1] = trail'[k]
        <5>1. CASE k = 1
          BY <5>1, <4>2, <4>3, <1>2, <3>2
        <5>2. CASE k # 1
          <6>1. k - 1 \in 1 .. Len(trail) /\ k = (k - 1) + 1
            BY <5>2, <4>3
          <6>2. k \in 1 .. Len(Loaded) /\ Loaded[k] = trail'[k]
            BY <6>1, <4>3, <4>4
          <6> QED BY <6>2, <4>2, <1>2
        <5> QED BY <5>1, <5>2
      <4>6. stack' \in Seq(Paths) /\ trail' \in Seq(Paths)
        BY <2>3, <2>4 DEF Typed
      <4>7. \A k \in DOMAIN trail' : k + 1 \in DOMAIN stack' /\ stack'[k + 1] = trail'[k]
        BY <4>3, <4>5, <4>6
      <4> QED BY <4>1, <4>2, <4>7 DEF TrailOnStack
    <3> QED BY <3>1, <3>2
  <2> QED BY <2>4, <2>5 DEF WdInv
<1> QED BY <1>4, <1>5

\* A removal is of one entry.
LEMMA RemoveOne ==
  ASSUME NEW S, NEW s \in Seq(S), NEW i \in 1 .. Len(s)
  PROVE  RemoveAt(s, i) \in Seq(S) /\ Len(RemoveAt(s, i)) = Len(s) - 1
<1>1. 1 \in 1 .. Len(s) + 1 /\ i - 1 \in 1 - 1 .. Len(s)
  OBVIOUS
<1>2. SubSeq(s, 1, i - 1) \in Seq(S) /\ Len(SubSeq(s, 1, i - 1)) = i - 1 - 1 + 1
  BY <1>1, PartOfStack, Zenon
<1>3. PICK m \in 1 .. Len(s) + 1 : m = i + 1
  OBVIOUS
<1>4. Len(s) \in m - 1 .. Len(s)
  BY <1>3
<1>5. SubSeq(s, m, Len(s)) \in Seq(S) /\ Len(SubSeq(s, m, Len(s))) = Len(s) - m + 1
  BY <1>4, PartOfStack, Zenon
<1>6. RemoveAt(s, i) = SubSeq(s, 1, i - 1) \o SubSeq(s, m, Len(s))
  BY <1>3 DEF RemoveAt
<1>7. /\ RemoveAt(s, i) \in Seq(S)
      /\ Len(RemoveAt(s, i)) = Len(SubSeq(s, 1, i - 1)) + Len(SubSeq(s, m, Len(s)))
  BY <1>2, <1>5, <1>6, ConcatProperties
<1> QED BY <1>2, <1>3, <1>5, <1>7

LEMMA RemovalKeepsEntries ==
  ASSUME NEW S, NEW s \in Seq(S), NEW i \in 1 .. Len(s)
  PROVE  \A k \in 1 .. Len(RemoveAt(s, i)) : RemoveAt(s, i)[k] \in ToSet(s)
<1>1. s \in Seq(ToSet(s))
  <2>1. \A k \in 1 .. Len(s) : s[k] \in ToSet(s)
    BY DEF ToSet
  <2> QED BY <2>1, ElementOfSeq, SeqDef, LenProperties
<1>2. RemoveAt(s, i) \in Seq(ToSet(s))
  BY <1>1, RemoveOne, Zenon
<1> QED BY <1>2

\* A pop undoes the last push left: the trail and the stack lose their heads.
LEMMA PopdTopKeeps ==
  ASSUME WdInv, NEW noCd, PopdTop(noCd)
  PROVE  WdInv'
<1>1. Loaded \in Seq(Paths) /\ Loaded # << >> /\ Len(Loaded) \in 2 .. MaxStack
  BY LoadedIsStack, BoundsAssumption DEF WdInv, PopdTop
<1>2. CASE noCd
  <2>1. RemoveAt(Loaded, 2) \in Seq(Paths) /\ Len(RemoveAt(Loaded, 2)) = Len(Loaded) - 1
    <3>1. 2 \in 1 .. Len(Loaded)
      BY <1>1, BoundsAssumption
    <3> QED BY <1>1, <3>1, RemoveOne, Zenon
  <2>2. Stay(RemoveAt(Loaded, 2)) /\ Len(RemoveAt(Loaded, 2)) <= MaxStack
    BY <1>1, <1>2, <2>1, BoundsAssumption DEF PopdTop
  <2> QED BY <2>1, <2>2, StayKeeps
<1>3. CASE ~noCd
  <2>1. /\ Tail(Loaded) \in Seq(Paths) /\ Len(Tail(Loaded)) = Len(Loaded) - 1
        /\ \A k \in 1 .. Len(Tail(Loaded)) : Tail(Loaded)[k] = Loaded[k + 1]
    BY <1>1, HeadTailProperties, Zenon
  <2>2. /\ GoTo(Loaded[2], oldpwd, Tail(Loaded))
        /\ trail' = IF trail = << >> THEN << >> ELSE Tail(trail)
    BY <1>3 DEF PopdTop
  <2>3. Loaded[2] \in Paths /\ oldpwd \in Paths \cup {NoPath} /\ Len(Tail(Loaded)) <= MaxStack
    BY <1>1, <2>1, BoundsAssumption DEF WdInv, Typed
  <2>4. trail' \in Seq(Paths)
    BY <2>2 DEF WdInv, Typed
  <2>5. Typed' /\ OuterAgrees' /\ StrayHasCause' /\ UnsyncedHasCause'
    BY <2>1, <2>2, <2>3, <2>4, GoToKeeps
  <2>6. TrailOnStack'
    <3>1. CASE trail = << >>
      BY <2>2, <3>1 DEF TrailOnStack
    <3>2. CASE trail # << >>
      <4>1. /\ trail \in Seq(Paths) /\ trail' = Tail(trail)
            /\ Len(trail') = Len(trail) - 1
            /\ \A k \in 1 .. Len(trail') : trail'[k] = trail[k + 1]
        <5>1. trail \in Seq(Paths)
          BY DEF WdInv, Typed
        <5>2. /\ Len(Tail(trail)) = Len(trail) - 1
              /\ \A k \in 1 .. Len(Tail(trail)) : Tail(trail)[k] = trail[k + 1]
          BY <3>2, <5>1, HeadTailProperties, Zenon
        <5> QED BY <2>2, <3>2, <5>1, <5>2
      <4>2. stack' = Tail(Loaded) /\ pwd' = Loaded[2]
        BY <2>2 DEF GoTo
      <4>3. Loaded' = stack'
        <5>1. stack' \in Seq(Paths) /\ Len(stack') = Len(Loaded) - 1
          BY <2>1, <4>2
        <5>2. stack' # << >>
          BY <1>1, <5>1, BoundsAssumption
        <5> QED BY <5>2 DEF Loaded
      <4>4. \A k \in 1 .. Len(trail) : k + 1 \in 1 .. Len(Loaded) /\ Loaded[k + 1] = trail[k]
        BY <1>1, <3>2, <4>1 DEF WdInv, TrailOnStack
      <4>5. stack'[1] = pwd'
        BY <1>1, <2>1, <4>2, BoundsAssumption
      <4>6. ASSUME NEW k \in 1 .. Len(trail')
            PROVE  k + 1 \in 1 .. Len(stack') /\ stack'[k + 1] = trail'[k]
        <5>1. Len(trail) \in Nat /\ Len(Loaded) \in Nat
          BY <1>1, <4>1
        <5>2. k + 1 \in 1 .. Len(trail) /\ trail'[k] = trail[k + 1]
          BY <4>1, <5>1
        <5>3. k + 2 \in 1 .. Len(Loaded) /\ Loaded[k + 2] = trail'[k]
          BY <4>4, <5>1, <5>2
        <5>4. k + 1 \in 1 .. Len(Loaded) - 1
          BY <5>1, <5>3
        <5> QED BY <2>1, <4>2, <5>1, <5>3, <5>4
      <4>7. \A k \in DOMAIN trail' : k + 1 \in DOMAIN stack' /\ stack'[k + 1] = trail'[k]
        BY <4>6, <2>4, <2>1, <4>2
      <4> QED BY <4>3, <4>5, <4>7 DEF TrailOnStack
    <3> QED BY <3>1, <3>2
  <2> QED BY <2>5, <2>6 DEF WdInv
<1> QED BY <1>2, <1>3

LEMMA PopdIndexKeeps ==
  ASSUME WdInv, NEW n, NEW fromRight, NEW noCd, PopdIndex(n, fromRight, noCd)
  PROVE  WdInv'
<1> DEFINE i == Position(n, fromRight)
           rest == RemoveAt(Loaded, i)
<1>1. Loaded \in Seq(Paths) /\ Len(Loaded) \in 1 .. MaxStack /\ oldpwd \in Paths \cup {NoPath}
  BY LoadedIsStack DEF WdInv, Typed
<1>2. i \in 1 .. Len(Loaded)
  BY <1>1 DEF PopdIndex
<1>3. /\ noCd => Stay(rest)
      /\ ~noCd => /\ GoTo(IF rest = << >> THEN Root ELSE rest[1], oldpwd, rest)
                  /\ trail' = << >>
  BY DEF PopdIndex
<1>4. rest \in Seq(Paths) /\ Len(rest) = Len(Loaded) - 1
  BY <1>1, <1>2, RemoveOne, Zenon
<1> HIDE DEF rest
<1>5. Len(rest) <= MaxStack
  BY <1>1, <1>4, BoundsAssumption
<1>6. (IF rest = << >> THEN Root ELSE rest[1]) \in Paths
  <2>1. Root \in Paths
    BY DirsAssumption, BoundsAssumption
  <2> QED BY <1>4, <2>1
<1> QED BY <1>1, <1>3, <1>4, <1>5, <1>6, StayKeeps, GoToAnewKeeps

LEMMA OtherStackKeeps ==
  ASSUME WdInv, DirsClear \/ \E i \in 1..MaxStack, d \in Dirs : SetStackElement(i, d)
  PROVE  WdInv'
<1>1. CASE DirsClear
  <2>1. << >> \in Seq(Paths) /\ Len(<< >>) <= MaxStack /\ Stay(<< >>)
    BY <1>1, BoundsAssumption DEF DirsClear
  <2> QED BY <2>1, StayKeeps
<1>2. ASSUME NEW i \in 1..MaxStack, NEW d \in Dirs, SetStackElement(i, d) PROVE WdInv'
  <2>1. Loaded \in Seq(Paths) /\ Len(Loaded) \in 1 .. MaxStack
    BY LoadedIsStack DEF WdInv
  <2>2. /\ i \in DOMAIN Loaded /\ stack' = ReplaceAt(Loaded, i, d) /\ trail' = << >>
        /\ UNCHANGED <<cwd, pwd, typed, oldpwd, outer, strayed, unsynced>>
    BY <1>2 DEF SetStackElement
  <2>3. stack' \in Seq(Paths) /\ Len(stack') = Len(Loaded)
    <3>1. d \in Paths
      BY BoundsAssumption
    <3> QED BY <2>1, <2>2, <3>1 DEF ReplaceAt
  <2>4. << >> \in Seq(Paths)
    OBVIOUS
  <2>5. Typed'
    BY <2>1, <2>2, <2>3, <2>4, BoundsAssumption DEF WdInv, Typed
  <2>6. OuterAgrees'
    BY <2>2 DEF WdInv, OuterAgrees
  <2>7. StrayHasCause' /\ UnsyncedHasCause' /\ TrailOnStack'
    BY <2>2 DEF WdInv, StrayHasCause, UnsyncedHasCause, TrailOnStack
  <2> QED BY <2>5, <2>6, <2>7 DEF WdInv
<1> QED BY <1>1, <1>2

-----------------------------------------------------------------------------
(* Subshells                                                                 *)

LEMMA EnterKeeps ==
  ASSUME WdInv, NEW kind \in SubshellKinds, Enter(kind)
  PROVE  WdInv'
<1> DEFINE o == [kind |-> kind, cwd |-> cwd, pwd |-> pwd, typed |-> typed, oldpwd |-> oldpwd,
                 stack |-> stack, strayed |-> strayed, unsynced |-> unsynced]
<1>1. /\ stack = << >> /\ typed = pwd /\ strayed = FALSE /\ unsynced = FALSE
      /\ outer' = <<o>> /\ trail' = << >>
      /\ UNCHANGED <<cwd, pwd, typed, oldpwd, stack, strayed, unsynced>>
  BY DEF Enter, MayEnter, WdInv, Typed
<1>2. pwd \in Dirs /\ cwd = Real[pwd]
  BY <1>1 DEF WdInv, StrayHasCause
<1>3. Typed'
  <2>1. << >> \in Seq(Paths)
    OBVIOUS
  <2> QED BY <1>1, <2>1 DEF WdInv, Typed
<1>4. OuterAgrees'
  <2>1. o \in [kind : SubshellKinds, cwd : RealDirs, pwd : Dirs, typed : Dirs,
                oldpwd : Paths \cup {NoPath}, stack : {<< >>},
                strayed : {FALSE}, unsynced : {FALSE}]
    BY <1>1, <1>2 DEF WdInv, Typed
  <2>2. outer' = <<o>> /\ o.typed = o.pwd /\ o.cwd = Real[o.pwd]
    BY <1>1, <1>2
  <2> HIDE DEF o
  <2> QED BY <2>1, <2>2 DEF OuterAgrees
<1>5. StrayHasCause' /\ UnsyncedHasCause' /\ TrailOnStack'
  BY <1>1, <1>2 DEF StrayHasCause, UnsyncedHasCause, TrailOnStack
<1> QED BY <1>3, <1>4, <1>5 DEF WdInv

LEMMA LeaveKeeps ==
  ASSUME WdInv, Leave
  PROVE  WdInv'
<1>1. PICK o \in [kind : SubshellKinds, cwd : RealDirs, pwd : Dirs, typed : Dirs,
                  oldpwd : Paths \cup {NoPath}, stack : {<< >>},
                  strayed : {FALSE}, unsynced : {FALSE}] :
              outer = <<o>> /\ o.typed = o.pwd /\ o.cwd = Real[o.pwd]
  BY DEF Leave, WdInv, OuterAgrees
<1>2. /\ pwd' = o.pwd /\ oldpwd' = o.oldpwd /\ stack' = << >>
      /\ typed' = IF o.kind \in PutsTypedBack THEN o.pwd ELSE typed
      /\ cwd' = IF o.kind \in PutsProcessBack THEN Real[o.pwd] ELSE cwd
      /\ strayed' = (o.kind \in {"paren", "function"})
      /\ unsynced' = (o.kind \in {"inplace", "function"})
      /\ outer' = << >> /\ trail' = << >>
  <2>1. /\ o.strayed = FALSE /\ o.unsynced = FALSE /\ o.stack = << >>
        /\ outer[1] = o
    BY <1>1
  <2> QED BY <1>1, <2>1 DEF Leave
<1>3. o.pwd \in Dirs /\ o.oldpwd \in Paths \cup {NoPath} /\ o.kind \in SubshellKinds
  BY <1>1
<1>4. Typed'
  <2>1. << >> \in Seq(Paths) /\ Len(<< >>) <= MaxStack
    BY BoundsAssumption
  <2>2. pwd' \in Paths /\ typed' \in Paths /\ cwd' \in RealDirs
    BY <1>2, <1>3, BoundsAssumption DEF WdInv, Typed, RealDirs
  <2> QED BY <1>2, <1>3, <2>1, <2>2 DEF Typed
<1>5. StrayHasCause'
  BY <1>2, <1>3 DEF StrayHasCause, SubshellKinds, PutsProcessBack
<1>6. UnsyncedHasCause'
  BY <1>2, <1>3 DEF UnsyncedHasCause, SubshellKinds, PutsTypedBack
<1>7. OuterAgrees' /\ TrailOnStack'
  BY <1>2 DEF OuterAgrees, TrailOnStack
<1> QED BY <1>4, <1>5, <1>6, <1>7 DEF WdInv

-----------------------------------------------------------------------------
(* The theorems                                                              *)

LEMMA WdInitInv == WdInit => WdInv
<1> SUFFICES ASSUME WdInit PROVE WdInv
  OBVIOUS
<1>1. PICK d \in Dirs : cwd = Real[d]
  BY DEF WdInit
<1>2. cwd \in Dirs /\ Real[cwd] = cwd /\ cwd \in RealDirs /\ pwd = cwd /\ typed = cwd
  BY <1>1, DirsAssumption DEF WdInit, RealDirs
<1>3. << >> \in Seq(Paths) /\ Len(<< >>) <= MaxStack
  BY BoundsAssumption
<1>4. Typed
  BY <1>2, <1>3, BoundsAssumption DEF WdInit, Typed
<1>5. OuterAgrees /\ StrayHasCause /\ UnsyncedHasCause /\ TrailOnStack
  BY <1>2 DEF WdInit, OuterAgrees, StrayHasCause, UnsyncedHasCause, TrailOnStack
<1> QED BY <1>4, <1>5 DEF WdInv

LEMMA WdStepInv == WdInv /\ [WdNext]_wdVars => WdInv'
<1> SUFFICES ASSUME WdInv, [WdNext]_wdVars PROVE WdInv'
  OBVIOUS
<1>1. ASSUME NEW o \in Operands, NEW physical \in BOOLEAN, NEW redirected \in BOOLEAN,
             Cd(o, physical, redirected)
      PROVE  WdInv'
  BY <1>1, CdKeeps
<1>2. CASE WithoutEffect
  <2>1. /\ typed' = pwd /\ unsynced' = FALSE
        /\ cwd' = cwd /\ pwd' = pwd /\ oldpwd' = oldpwd /\ stack' = stack
        /\ outer' = outer /\ strayed' = strayed /\ trail' = trail
    BY <1>2 DEF WithoutEffect
  <2>2. Typed' /\ OuterAgrees'
    BY <2>1 DEF WdInv, Typed, OuterAgrees
  <2>3. StrayHasCause' /\ UnsyncedHasCause' /\ TrailOnStack'
    BY <2>1 DEF WdInv, StrayHasCause, UnsyncedHasCause, TrailOnStack, Loaded
  <2> QED BY <2>2, <2>3 DEF WdInv
<1>3. CASE PushdSwap
  BY <1>3, PushdSwapKeeps
<1>4. ASSUME NEW n \in Index, NEW fromRight \in BOOLEAN, NEW noCd \in BOOLEAN,
             PushdIndex(n, fromRight, noCd)
      PROVE  WdInv'
  BY <1>4, PushdIndexKeeps
<1>5. ASSUME NEW o \in Operands, NEW noCd \in BOOLEAN, PushdDir(o, noCd) PROVE WdInv'
  BY <1>5, PushdDirKeeps
<1>6. ASSUME NEW noCd \in BOOLEAN, PopdTop(noCd) PROVE WdInv'
  BY <1>6, PopdTopKeeps
<1>7. ASSUME NEW n \in Index, NEW fromRight \in BOOLEAN, NEW noCd \in BOOLEAN,
             PopdIndex(n, fromRight, noCd)
      PROVE  WdInv'
  BY <1>7, PopdIndexKeeps
<1>8. CASE DirsClear \/ \E i \in 1..MaxStack, d \in Dirs : SetStackElement(i, d)
  BY <1>8, OtherStackKeeps
<1>9. ASSUME NEW kind \in SubshellKinds, Enter(kind) PROVE WdInv'
  BY <1>9, EnterKeeps
<1>10. CASE Leave
  BY <1>10, LeaveKeeps
<1>11. CASE UNCHANGED wdVars
  <2>1. /\ typed' = typed /\ unsynced' = unsynced
        /\ cwd' = cwd /\ pwd' = pwd /\ oldpwd' = oldpwd /\ stack' = stack
        /\ outer' = outer /\ strayed' = strayed /\ trail' = trail
    BY <1>11 DEF wdVars
  <2>2. Typed' /\ OuterAgrees'
    BY <2>1 DEF WdInv, Typed, OuterAgrees
  <2>3. StrayHasCause' /\ UnsyncedHasCause' /\ TrailOnStack'
    BY <2>1 DEF WdInv, StrayHasCause, UnsyncedHasCause, TrailOnStack, Loaded
  <2> QED BY <2>2, <2>3 DEF WdInv
<1> QED BY <1>1, <1>2, <1>3, <1>4, <1>5, <1>6, <1>7, <1>8, <1>9, <1>10, <1>11 DEF WdNext

\* WdInv is an invariant of every script of directory builtins and subshells.
THEOREM WdInvAlways == WdSpec => []WdInv
BY WdInitInv, WdStepInv, PTL DEF WdSpec

\* PWD, $PWD, the directory of the process and the stack agree but for the named
\* causes, whatever the tree of directories and links, CDPATH and the bounds are.
THEOREM DirectoriesAlwaysAgree == WdSpec => []DirectoriesAgree
<1>1. WdInv => DirectoriesAgree
  BY DEF WdInv, Typed, RealDirs, DirectoriesAgree, WdTypeOK
<1> QED BY <1>1, WdInvAlways, PTL

\* A stack builtin takes PWD to a directory that was named or on the stack; only
\* the popd of the one entry left takes it to the root.
THEOREM StackAlwaysMovesOnStack == WdSpec => StackMovesOnStack
<1> DEFINE Moves == pwd' # pwd /\ stack' # stack /\ outer' = outer =>
                      pwd' \in Dirs \cup ToSet(Loaded) /\ (stack' = << >> => pwd' = Root)
<1>1. WdInv /\ [WdNext]_wdVars => [Moves]_wdVars
  <2> SUFFICES ASSUME WdInv, WdNext, pwd' # pwd, stack' # stack, outer' = outer
               PROVE  pwd' \in Dirs \cup ToSet(Loaded) /\ (stack' = << >> => pwd' = Root)
    OBVIOUS
  <2>1. Loaded \in Seq(Paths) /\ Len(Loaded) \in 1 .. MaxStack
    BY LoadedIsStack DEF WdInv
  <2>2. \A k \in 1 .. Len(Loaded) : Loaded[k] \in ToSet(Loaded)
    BY <2>1 DEF ToSet
  <2>3. CASE PushdSwap
    <3>1. pwd' = Loaded[2] /\ Len(Loaded) >= 2
          /\ stack' = <<Loaded[2], Loaded[1]>> \o SubSeq(Loaded, 3, Len(Loaded))
      BY <2>3 DEF PushdSwap, GoTo
    <3>2. stack' # << >>
      <4>1. 3 \in 1 .. Len(Loaded) + 1 /\ Len(Loaded) \in 3 - 1 .. Len(Loaded)
        BY <2>1, <3>1, BoundsAssumption
      <4>2. SubSeq(Loaded, 3, Len(Loaded)) \in Seq(Paths)
        BY <2>1, <4>1, PartOfStack, Zenon
      <4> QED BY <2>1, <3>1, <4>2
    <3> QED BY <2>1, <2>2, <3>1, <3>2, BoundsAssumption
  <2>4. ASSUME NEW n \in Index, NEW fromRight \in BOOLEAN, NEW noCd \in BOOLEAN,
               PushdIndex(n, fromRight, noCd)
        PROVE  pwd' \in ToSet(Loaded) /\ stack' # << >>
    <3> DEFINE i == Position(n, fromRight)
    <3>1. /\ i \in 1 .. Len(Loaded)
          /\ stack' = SubSeq(Loaded, i, Len(Loaded)) \o SubSeq(Loaded, 1, i - 1)
          /\ pwd' = stack'[1]
      <4>1. ~noCd
        BY <2>4 DEF PushdIndex, Stay
      <4>2. i \in DOMAIN Loaded
        BY <2>4 DEF PushdIndex
      <4> DEFINE rotated == SubSeq(Loaded, i, Len(Loaded)) \o SubSeq(Loaded, 1, i - 1)
      <4>3. GoTo(rotated[1], pwd, rotated)
        BY <2>4, <4>1 DEF PushdIndex
      <4> HIDE DEF rotated
      <4>4. pwd' = rotated[1] /\ stack' = rotated
        BY <4>3 DEF GoTo
      <4>5. i \in 1 .. Len(Loaded)
        BY <2>1, <4>2
      <4> QED BY <4>4, <4>5 DEF rotated
    <3> HIDE DEF i
    <3>2. i \in 1 .. Len(Loaded) + 1 /\ Len(Loaded) \in i - 1 .. Len(Loaded)
          /\ 1 \in 1 .. Len(Loaded) + 1 /\ i - 1 \in 1 - 1 .. Len(Loaded)
      BY <2>1, <3>1, BoundsAssumption
    <3>3. /\ SubSeq(Loaded, i, Len(Loaded)) \in Seq(Paths)
          /\ Len(SubSeq(Loaded, i, Len(Loaded))) = Len(Loaded) - i + 1
          /\ \A k \in 1 .. Len(Loaded) - i + 1 : SubSeq(Loaded, i, Len(Loaded))[k] = Loaded[i + k - 1]
      BY <2>1, <3>2, PartOfStack, Zenon
    <3>4. SubSeq(Loaded, 1, i - 1) \in Seq(Paths)
      BY <2>1, <3>2, PartOfStack, Zenon
    <3>5. stack' # << >> /\ stack'[1] = SubSeq(Loaded, i, Len(Loaded))[1]
      <4>1. 1 \in 1 .. Len(SubSeq(Loaded, i, Len(Loaded)))
        BY <2>1, <3>1, <3>3, BoundsAssumption
      <4>2. /\ stack' \in Seq(Paths)
            /\ Len(stack') = Len(SubSeq(Loaded, i, Len(Loaded))) + Len(SubSeq(Loaded, 1, i - 1))
            /\ stack'[1] = SubSeq(Loaded, i, Len(Loaded))[1]
        BY <3>1, <3>3, <3>4, <4>1
      <4>3. PICK a, b \in Nat : /\ a = Len(SubSeq(Loaded, i, Len(Loaded)))
                                /\ b = Len(SubSeq(Loaded, 1, i - 1))
        <5>1. /\ Len(SubSeq(Loaded, i, Len(Loaded))) \in Nat
              /\ Len(SubSeq(Loaded, 1, i - 1)) \in Nat
          BY <3>3, <3>4, LenProperties, Zenon
        <5> QED BY <5>1, Zenon
      <4>4. 1 \in 1 .. a /\ Len(stack') = a + b
        BY <4>1, <4>2, <4>3, Zenon
      <4>5. stack' # << >>
        BY <4>4
      <4> QED BY <4>2, <4>5
    <3>6. SubSeq(Loaded, i, Len(Loaded))[1] = Loaded[i]
      BY <2>1, <3>1, <3>3, BoundsAssumption
    <3> QED BY <2>2, <3>1, <3>5, <3>6
  <2>5. ASSUME NEW o \in Operands, NEW noCd \in BOOLEAN, PushdDir(o, noCd)
        PROVE  pwd' \in Dirs /\ stack' # << >>
    <3>1. pwd' \in Dirs /\ stack' = Pushed(pwd')
      BY <2>5 DEF PushdDir, Exists, GoTo, Stay
    <3> QED BY <2>1, <3>1 DEF Pushed
  <2>6. ASSUME NEW noCd \in BOOLEAN, PopdTop(noCd)
        PROVE  pwd' \in ToSet(Loaded) /\ stack' # << >>
    <3>1. pwd' = Loaded[2] /\ stack' = Tail(Loaded) /\ Len(Loaded) > 1
      BY <2>6 DEF PopdTop, GoTo, Stay
    <3>2. stack' \in Seq(Paths) /\ Len(stack') = Len(Loaded) - 1
      <4>1. Loaded # << >>
        BY LoadedIsStack DEF WdInv
      <4>2. Tail(Loaded) \in Seq(Paths) /\ Len(Tail(Loaded)) = Len(Loaded) - 1
        BY <2>1, <4>1, HeadTailProperties, Zenon
      <4> QED BY <3>1, <4>2
    <3>3. Len(stack') >= 1 /\ 2 \in 1 .. Len(Loaded)
      BY <2>1, <3>1, <3>2, BoundsAssumption
    <3>4. stack' # << >>
      BY <3>2, <3>3
    <3> QED BY <2>2, <3>1, <3>3, <3>4
  <2>7. ASSUME NEW n \in Index, NEW fromRight \in BOOLEAN, NEW noCd \in BOOLEAN,
               PopdIndex(n, fromRight, noCd)
        PROVE  IF stack' = << >> THEN pwd' = Root ELSE pwd' \in ToSet(Loaded)
    <3> DEFINE i == Position(n, fromRight)
    <3>1. /\ i \in 1 .. Len(Loaded)
          /\ stack' = RemoveAt(Loaded, i)
          /\ pwd' = IF stack' = << >> THEN Root ELSE stack'[1]
      BY <2>1, <2>7 DEF PopdIndex, GoTo, Stay
    <3> HIDE DEF i
    <3>2. ASSUME stack' # << >> PROVE stack'[1] \in ToSet(Loaded)
      <4>1. \A k \in 1 .. Len(stack') : stack'[k] \in ToSet(Loaded)
        BY <2>1, <3>1, RemovalKeepsEntries, Zenon
      <4>2. stack' \in Seq(Paths)
        BY <2>1, <3>1, RemoveOne, Zenon
      <4> QED BY <3>2, <4>1, <4>2
    <3> QED BY <3>1, <3>2
  <2>8. CASE Leave
    BY <2>8 DEF Leave
  <2>9. CASE DirsClear \/ \E i \in 1..MaxStack, d \in Dirs : SetStackElement(i, d)
    BY <2>9 DEF DirsClear, Stay, SetStackElement
  <2>10. CASE WithoutEffect
    BY <2>10 DEF WithoutEffect
  <2>11. ASSUME NEW o \in Operands, NEW physical \in BOOLEAN, NEW redirected \in BOOLEAN,
                Cd(o, physical, redirected)
         PROVE  FALSE
    BY <2>11 DEF Cd
  <2>12. ASSUME NEW kind \in SubshellKinds, Enter(kind) PROVE FALSE
    BY <2>12 DEF Enter
  <2> QED BY <2>3, <2>4, <2>5, <2>6, <2>7, <2>8, <2>9, <2>10, <2>11, <2>12, DirsAssumption DEF WdNext
<1> QED BY <1>1, WdInvAlways, PTL DEF WdSpec, StackMovesOnStack

-----------------------------------------------------------------------------
(* getopts: the reference is what its recursion says *)

\* One letter of LetterOptions, where rest is what the letters behind it give.
LetterStep(list, i, quiet, next, beyond, k, rest) ==
  IF k > Len(list[i]) THEN next
  ELSE LET letter == list[i][k]
           complaint == IF quiet THEN letter ELSE Unset
       IN  IF letter \notin Known THEN <<<<"?", complaint>>>> \o rest
           ELSE IF letter \notin WithArg THEN <<<<letter, Unset>>>> \o rest
           ELSE IF k < Len(list[i]) THEN <<<<letter, Tails(list[i], k + 1)>>>> \o next
           ELSE IF i < Len(list) THEN <<<<letter, list[i + 1]>>>> \o beyond
           ELSE <<<<IF quiet THEN ":" ELSE "?", complaint>>>>

\* LetterOptions goes by its own equation, which has a solution since a letter
\* needs only those behind it.
LEMMA LetterOptionsAre ==
  ASSUME NEW list, NEW i, Len(list[i]) \in Nat, NEW quiet, NEW next, NEW beyond
  PROVE  LetterOptions(list, i, quiet, next, beyond) =
           [k \in 2 .. Len(list[i]) + 1 |->
              LetterStep(list, i, quiet, next, beyond, k,
                         LetterOptions(list, i, quiet, next, beyond)[k + 1])]
<1> DEFINE N == Len(list[i]) + 1
           S(k, r) == LetterStep(list, i, quiet, next, beyond, k, r)
           Behind(d) == {k \in 2 .. N : k >= N - d}
           Follows(g, d) == g = [k \in Behind(d) |-> S(k, g[k + 1])]
           Has(d) == \E g : Follows(g, d)
           Fails == {d \in Nat : ~Has(d)}
<1>0. \A r : S(N, r) = next
  BY DEF LetterStep
<1>1. Fails = {}
  <2> SUFFICES ASSUME Fails # {} PROVE FALSE
    OBVIOUS
  <2>1. PICK d \in Fails : \A m \in Fails : d <= m
    BY LeastNumber
  <2> HIDE DEF S
  <2>2. CASE d = 0
    <3> DEFINE g == [k \in Behind(0) |-> next]
    <3>1. \A k \in Behind(0) : k = N
      OBVIOUS
    <3> HIDE DEF N
    <3>2. Follows(g, 0)
      BY <3>1, <1>0
    <3> QED BY <2>1, <2>2, <3>2
  <2>3. CASE d # 0
    <3>1. d - 1 \in Nat /\ Has(d - 1)
      <4> HIDE DEF Has
      <4> QED BY <2>1, <2>3
    <3>2. PICK g : Follows(g, d - 1)
      BY <3>1
    <3> DEFINE h == [k \in Behind(d) |-> IF k = N - d THEN S(k, g[k + 1]) ELSE g[k]]
    <3>3. \A k \in Behind(d) :
            /\ k # N - d => k \in Behind(d - 1)
            /\ k # N => k + 1 \in Behind(d - 1) /\ k + 1 \in Behind(d) /\ k + 1 # N - d
      BY <2>1
    <3>4. ASSUME NEW k \in Behind(d)
          PROVE  h[k] = S(k, h[k + 1])
      <4>1. CASE k = N
        <5>1. h[k] = S(k, g[k + 1])
          <6>1. CASE k = N - d
            BY <6>1
          <6>2. CASE k # N - d
            <7>1. h[k] = g[k]
              BY <6>2
            <7> HIDE DEF Behind, h
            <7>2. k \in Behind(d - 1)
              BY <6>2, <3>3
            <7>3. g[k] = S(k, g[k + 1])
              BY <7>2, <3>2
            <7> QED BY <7>1, <7>3
          <6> QED BY <6>1, <6>2
        <5> HIDE DEF h
        <5> QED BY <5>1, <4>1, <1>0
      <4>2. CASE k # N
        <5>1. k + 1 \in Behind(d - 1) /\ k + 1 \in Behind(d) /\ k + 1 # N - d
          BY <4>2, <3>3
        <5>2. h[k + 1] = g[k + 1]
          BY <5>1
        <5>3. h[k] = S(k, g[k + 1])
          <6>1. CASE k = N - d
            BY <6>1
          <6>2. CASE k # N - d
            <7>1. h[k] = g[k]
              BY <6>2
            <7> HIDE DEF Behind, h
            <7>2. k \in Behind(d - 1)
              BY <6>2, <3>3
            <7>3. g[k] = S(k, g[k + 1])
              BY <7>2, <3>2
            <7> QED BY <7>1, <7>3
          <6> QED BY <6>1, <6>2
        <5> HIDE DEF h
        <5> QED BY <5>2, <5>3
      <4> QED BY <4>1, <4>2
    <3>5. h = [k \in Behind(d) |-> h[k]]
      OBVIOUS
    <3> HIDE DEF h, Behind
    <3>6. Follows(h, d)
      BY <3>4, <3>5
    <3> QED BY <3>6, <2>1
  <2> QED BY <2>2, <2>3
<1>2. \E g : Follows(g, N)
  <2>1. Has(N)
    <3> HIDE DEF Has
    <3> QED BY <1>1
  <2> QED BY <2>1
<1>3. Behind(N) = 2 .. N
  OBVIOUS
<1>4. LetterOptions(list, i, quiet, next, beyond) = CHOOSE g : g = [k \in 2 .. N |-> S(k, g[k + 1])]
  BY DEF LetterOptions, LetterStep
<1>5. \E g : g = [k \in 2 .. N |-> S(k, g[k + 1])]
  BY <1>2, <1>3
<1> HIDE DEF S, N
<1>6. LetterOptions(list, i, quiet, next, beyond) =
        [k \in 2 .. N |-> S(k, LetterOptions(list, i, quiet, next, beyond)[k + 1])]
  BY <1>4, <1>5
<1> QED BY <1>6 DEF S, N

\* One word of WordOptions, where a and b are what the next two give.
WordStep(list, quiet, i, a, b) ==
  IF i > Len(list) \/ EndsOptions(list[i]) THEN << >>
  ELSE LetterOptions(list, i, quiet, a, b)[2]

LEMMA WordOptionsAre ==
  ASSUME NEW list, Len(list) \in Nat, NEW quiet
  PROVE  WordOptions(list, quiet) =
           [i \in 1 .. Len(list) + 2 |->
              WordStep(list, quiet, i, WordOptions(list, quiet)[i + 1], WordOptions(list, quiet)[i + 2])]
<1> DEFINE N == Len(list) + 2
           S(k, a, b) == WordStep(list, quiet, k, a, b)
           Behind(d) == {k \in 1 .. N : k >= N - d}
           Follows(g, d) == g = [k \in Behind(d) |-> S(k, g[k + 1], g[k + 2])]
           Has(d) == \E g : Follows(g, d)
           Fails == {d \in Nat : ~Has(d)}
<1>0. \A k \in 1 .. N : k > N - 2 => \A a, b : S(k, a, b) = << >>
  BY DEF WordStep
<1>1. Fails = {}
  <2> SUFFICES ASSUME Fails # {} PROVE FALSE
    OBVIOUS
  <2>1. PICK d \in Fails : \A m \in Fails : d <= m
    BY LeastNumber
  <2> HIDE DEF S
  <2>2. CASE d = 0
    <3> DEFINE g == [k \in Behind(0) |-> << >>]
    <3>1. \A k \in Behind(0) : k \in 1 .. N /\ k > N - 2
      OBVIOUS
    <3> HIDE DEF N
    <3>2. Follows(g, 0)
      BY <3>1, <1>0
    <3> QED BY <2>1, <2>2, <3>2
  <2>3. CASE d # 0
    <3>1. d - 1 \in Nat /\ Has(d - 1)
      <4> HIDE DEF Has
      <4> QED BY <2>1, <2>3
    <3>2. PICK g : Follows(g, d - 1)
      BY <3>1
    <3> DEFINE h == [k \in Behind(d) |-> IF k = N - d THEN S(k, g[k + 1], g[k + 2]) ELSE g[k]]
    <3>3. \A k \in Behind(d) :
            /\ k # N - d => k \in Behind(d - 1)
            /\ k <= N - 2 => /\ k + 1 \in Behind(d) /\ k + 1 # N - d
                             /\ k + 2 \in Behind(d) /\ k + 2 # N - d
            /\ k \in 1 .. N
      BY <2>1
    <3>4. ASSUME NEW k \in Behind(d)
          PROVE  h[k] = S(k, h[k + 1], h[k + 2])
      <4>1. h[k] = S(k, g[k + 1], g[k + 2])
        <5>1. CASE k = N - d
          BY <5>1
        <5>2. CASE k # N - d
          <6>1. k \in Behind(d - 1) /\ h[k] = g[k]
            BY <5>2, <3>3
          <6> QED BY <6>1, <3>2
        <5> QED BY <5>1, <5>2
      <4>2. CASE k > N - 2
        <5> HIDE DEF h, N
        <5> QED BY <4>1, <4>2, <3>3, <1>0
      <4>3. CASE k <= N - 2
        <5>1. k + 1 \in Behind(d) /\ k + 1 # N - d /\ k + 2 \in Behind(d) /\ k + 2 # N - d
          BY <4>3, <3>3
        <5>2. h[k + 1] = g[k + 1] /\ h[k + 2] = g[k + 2]
          BY <5>1
        <5> HIDE DEF h
        <5> QED BY <4>1, <5>2
      <4>4. k \in Int /\ N \in Int
        OBVIOUS
      <4> QED BY <4>2, <4>3, <4>4
    <3>5. h = [k \in Behind(d) |-> h[k]]
      OBVIOUS
    <3> HIDE DEF h, Behind
    <3>6. Follows(h, d)
      BY <3>4, <3>5
    <3> QED BY <3>6, <2>1
  <2> QED BY <2>2, <2>3
<1>2. \E g : Follows(g, N)
  <2>1. Has(N)
    <3> HIDE DEF Has
    <3> QED BY <1>1
  <2> QED BY <2>1
<1>3. Behind(N) = 1 .. N
  OBVIOUS
<1>4. WordOptions(list, quiet) = CHOOSE g : g = [k \in 1 .. N |-> S(k, g[k + 1], g[k + 2])]
  BY DEF WordOptions, WordStep
<1>5. \E g : g = [k \in 1 .. N |-> S(k, g[k + 1], g[k + 2])]
  BY <1>2, <1>3
<1> HIDE DEF S, N
<1>6. WordOptions(list, quiet) =
        [k \in 1 .. N |-> S(k, WordOptions(list, quiet)[k + 1], WordOptions(list, quiet)[k + 2])]
  BY <1>4, <1>5
<1> QED BY <1>6 DEF S, N

-----------------------------------------------------------------------------
(* getopts: what is left of the options at a place of the scan *)

Lists == ArgLists \cup CalleeArgs
GivenOptions == ({"?", ":"} \cup Characters) \X ({Unset} \cup Characters \cup Seq(Characters))

\* From letter k of word i on; words start at their second letter.
Rest(list, quiet, i, k) ==
  IF k = 2 THEN WordOptions(list, quiet)[i]
  ELSE LetterOptions(list, i, quiet, WordOptions(list, quiet)[i + 1], WordOptions(list, quiet)[i + 2])[k]

LEMMA ListIs ==
  ASSUME NEW list \in Lists
  PROVE  /\ Len(list) \in Nat /\ DOMAIN list = 1 .. Len(list)
         /\ \A i \in 1 .. Len(list) : list[i] \in Seq(Characters) /\ Len(list[i]) \in Nat
<1>1. list \in Seq(Seq(Characters))
  BY WordsAssumption DEF Lists
<1> QED BY <1>1

\* What is left at a letter: its option, and what is left behind it.
LEMMA RestAtLetter ==
  ASSUME NEW list \in Lists, NEW quiet \in BOOLEAN, NEW i \in 1 .. Len(list),
         NEW k \in 2 .. Len(list[i]), ~EndsOptions(list[i])
  PROVE  Rest(list, quiet, i, k) =
           LetterStep(list, i, quiet, Rest(list, quiet, i + 1, 2), Rest(list, quiet, i + 2, 2), k,
                      IF k < Len(list[i]) THEN Rest(list, quiet, i, k + 1)
                                          ELSE Rest(list, quiet, i + 1, 2))
<1> DEFINE W == WordOptions(list, quiet)
           a == W[i + 1]
           b == W[i + 2]
           L == LetterOptions(list, i, quiet, a, b)
<1>1. Len(list) \in Nat /\ Len(list[i]) \in Nat /\ 2 \in 2 .. Len(list[i]) + 1
      /\ i \in 1 .. Len(list) + 2
  BY ListIs
<1>2. W = [j \in 1 .. Len(list) + 2 |-> WordStep(list, quiet, j, W[j + 1], W[j + 2])]
  BY <1>1, WordOptionsAre
<1>3. L = [j \in 2 .. Len(list[i]) + 1 |->
            LetterStep(list, i, quiet, a, b, j, L[j + 1])]
  <2> HIDE DEF a, b
  <2> QED BY <1>1, LetterOptionsAre
<1>4. W[i] = L[2]
  <2> HIDE DEF W, L
  <2>1. W[i] = WordStep(list, quiet, i, W[i + 1], W[i + 2])
    BY <1>1, <1>2
  <2>2. W[i] = LetterOptions(list, i, quiet, W[i + 1], W[i + 2])[2]
    BY <1>1, <2>1 DEF WordStep
  <2> QED BY <2>2 DEF L
<1>5. Rest(list, quiet, i, k) = L[k]
  BY <1>4 DEF Rest
<1>6. L[k] = LetterStep(list, i, quiet, a, b, k, L[k + 1])
  <2> HIDE DEF L
  <2> QED BY <1>1, <1>3
<1>7. L[k + 1] = IF k < Len(list[i]) THEN Rest(list, quiet, i, k + 1) ELSE a
  <2>1. CASE k < Len(list[i])
    BY <2>1 DEF Rest
  <2>2. CASE ~(k < Len(list[i]))
    <3>1. k + 1 \in 2 .. Len(list[i]) + 1 /\ k + 1 > Len(list[i])
      BY <1>1, <2>2
    <3>2. L[k + 1] = LetterStep(list, i, quiet, a, b, k + 1, L[(k + 1) + 1])
      <4> HIDE DEF L
      <4> QED BY <1>3, <3>1
    <3> HIDE DEF L, a, b
    <3> QED BY <2>2, <3>1, <3>2 DEF LetterStep
  <2> QED BY <2>1, <2>2
<1>8. Rest(list, quiet, i + 1, 2) = a /\ Rest(list, quiet, i + 2, 2) = b
  BY DEF Rest
<1> HIDE DEF W, L, a, b
<1> QED BY <1>5, <1>6, <1>7, <1>8

LEMMA RestAtWord ==
  ASSUME NEW list \in Lists, NEW quiet \in BOOLEAN, NEW i \in 1 .. Len(list) + 2,
         i > Len(list) \/ EndsOptions(list[i])
  PROVE  Rest(list, quiet, i, 2) = << >>
<1> DEFINE W == WordOptions(list, quiet)
<1>1. Len(list) \in Nat
  BY ListIs
<1>2. W = [j \in 1 .. Len(list) + 2 |-> WordStep(list, quiet, j, W[j + 1], W[j + 2])]
  BY <1>1, WordOptionsAre
<1> HIDE DEF W
<1>3. W[i] = WordStep(list, quiet, i, W[i + 1], W[i + 2])
  BY <1>2
<1>4. W[i] = << >>
  BY <1>3 DEF WordStep
<1> QED BY <1>4 DEF Rest, W

\* One option.
LEMMA LetterGives ==
  ASSUME NEW list \in Lists, NEW quiet \in BOOLEAN, NEW i \in 1 .. Len(list),
         NEW k \in 2 .. Len(list[i]), NEW a \in Seq(GivenOptions), NEW b \in Seq(GivenOptions),
         NEW c \in Seq(GivenOptions)
  PROVE  LetterStep(list, i, quiet, a, b, k, c) \in Seq(GivenOptions)
<1> DEFINE letter == list[i][k]
           complaint == IF quiet THEN letter ELSE Unset
           tail == Tails(list[i], k + 1)
<1>1. /\ Len(list) \in Nat /\ list[i] \in Seq(Characters) /\ Len(list[i]) \in Nat
      /\ i < Len(list) => list[i + 1] \in Seq(Characters)
  BY ListIs
<1>2. letter \in Characters /\ complaint \in {Unset} \cup Characters
  BY <1>1
<1>3. tail \in Seq(Characters)
  BY <1>1 DEF Tails
<1>4. /\ <<"?", complaint>> \in GivenOptions /\ <<letter, Unset>> \in GivenOptions
      /\ <<letter, tail>> \in GivenOptions /\ <<":", complaint>> \in GivenOptions
      /\ i < Len(list) => <<letter, list[i + 1]>> \in GivenOptions
  <2> HIDE DEF letter, complaint, tail
  <2> QED BY <1>1, <1>2, <1>3 DEF GivenOptions
<1> HIDE DEF GivenOptions
<1>5. \A t \in GivenOptions : \A q \in Seq(GivenOptions) : <<t>> \o q \in Seq(GivenOptions)
      /\ <<t>> \in Seq(GivenOptions)
  OBVIOUS
<1>6. ~(k > Len(list[i]))
  BY <1>1
<1>7. LetterStep(list, i, quiet, a, b, k, c) =
        IF letter \notin Known THEN <<<<"?", complaint>>>> \o c
        ELSE IF letter \notin WithArg THEN <<<<letter, Unset>>>> \o c
        ELSE IF k < Len(list[i]) THEN <<<<letter, tail>>>> \o a
        ELSE IF i < Len(list) THEN <<<<letter, list[i + 1]>>>> \o b
        ELSE <<<<IF quiet THEN ":" ELSE "?", complaint>>>>
  BY <1>6 DEF LetterStep
<1>8. <<IF quiet THEN ":" ELSE "?", complaint>> \in GivenOptions
  BY <1>4
<1> HIDE DEF letter, complaint, tail
<1>9. CASE letter \notin Known
  BY <1>4, <1>5, <1>7, <1>9
<1>10. CASE letter \in Known /\ letter \notin WithArg
  BY <1>4, <1>5, <1>7, <1>10
<1>11. CASE letter \in Known /\ letter \in WithArg /\ k < Len(list[i])
  BY <1>4, <1>5, <1>7, <1>11
<1>12. CASE letter \in Known /\ letter \in WithArg /\ ~(k < Len(list[i])) /\ i < Len(list)
  BY <1>4, <1>5, <1>7, <1>12
<1>13. CASE letter \in Known /\ letter \in WithArg /\ ~(k < Len(list[i])) /\ ~(i < Len(list))
  BY <1>5, <1>7, <1>8, <1>13
<1> QED BY <1>9, <1>10, <1>11, <1>12, <1>13

LEMMA LettersGive ==
  ASSUME NEW list \in Lists, NEW quiet \in BOOLEAN, NEW i \in 1 .. Len(list),
         NEW a \in Seq(GivenOptions), NEW b \in Seq(GivenOptions),
         NEW k \in 2 .. Len(list[i]) + 1
  PROVE  LetterOptions(list, i, quiet, a, b)[k] \in Seq(GivenOptions)
<1> DEFINE N == Len(list[i]) + 1
           L == LetterOptions(list, i, quiet, a, b)
           Fails == {d \in Nat : N - d \in 2 .. N /\ L[N - d] \notin Seq(GivenOptions)}
<1>1. Len(list) \in Nat /\ Len(list[i]) \in Nat /\ N \in Nat
  BY ListIs
<1>2. L = [j \in 2 .. N |-> LetterStep(list, i, quiet, a, b, j, L[j + 1])]
  BY <1>1, LetterOptionsAre
<1> HIDE DEF L
<1>3. Fails = {}
  <2> SUFFICES ASSUME Fails # {} PROVE FALSE
    OBVIOUS
  <2>1. Fails \in SUBSET Nat
    OBVIOUS
  <2>2. PICK d \in Fails : \A m \in Fails : d <= m
    BY <2>1, LeastNumber
  <2>3. L[N - d] = LetterStep(list, i, quiet, a, b, N - d, L[(N - d) + 1])
    BY <1>2
  <2>4. CASE d = 0
    <3>1. L[N - d] = a
      BY <2>3, <2>4, <1>1 DEF LetterStep
    <3> QED BY <2>2, <3>1
  <2>5. CASE d # 0
    <3>1. d - 1 \in Nat /\ d - 1 \notin Fails
      <4>1. d \in Nat
        OBVIOUS
      <4> HIDE DEF Fails
      <4> QED BY <2>2, <2>5, <4>1
    <3>2. N - (d - 1) = (N - d) + 1 /\ N - (d - 1) \in 2 .. N /\ N - d \in 2 .. Len(list[i])
      BY <1>1, <2>2, <2>5
    <3>3. L[(N - d) + 1] \in Seq(GivenOptions)
      <4>1. L[N - (d - 1)] \in Seq(GivenOptions)
        BY <3>1, <3>2
      <4> QED BY <3>2, <4>1
    <3>4. L[N - d] \in Seq(GivenOptions)
      <4> DEFINE k1 == N - d
                 c == L[(N - d) + 1]
      <4>1. k1 \in 2 .. Len(list[i]) /\ c \in Seq(GivenOptions)
            /\ L[N - d] = LetterStep(list, i, quiet, a, b, k1, c)
        BY <2>3, <3>2, <3>3
      <4> HIDE DEF k1, c
      <4>2. LetterStep(list, i, quiet, a, b, k1, c) \in Seq(GivenOptions)
        BY <4>1, LetterGives
      <4> QED BY <4>1, <4>2
    <3> QED BY <2>2, <3>4
  <2> QED BY <2>4, <2>5
<1>4. N - k \in Nat /\ N - (N - k) = k
  BY <1>1
<1>5. N - k \notin Fails
  BY <1>3
<1>6. L[k] \in Seq(GivenOptions)
  BY <1>4, <1>5
<1> QED BY <1>6 DEF L

LEMMA WordsGive ==
  ASSUME NEW list \in Lists, NEW quiet \in BOOLEAN, NEW i \in 1 .. Len(list) + 2
  PROVE  WordOptions(list, quiet)[i] \in Seq(GivenOptions)
<1> DEFINE N == Len(list) + 2
           W == WordOptions(list, quiet)
           Fails == {d \in Nat : N - d \in 1 .. N /\ W[N - d] \notin Seq(GivenOptions)}
<1>1. Len(list) \in Nat /\ N \in Nat
  BY ListIs
<1>2. W = [j \in 1 .. N |-> WordStep(list, quiet, j, W[j + 1], W[j + 2])]
  BY <1>1, WordOptionsAre
<1> HIDE DEF W
<1>3. Fails = {}
  <2> SUFFICES ASSUME Fails # {} PROVE FALSE
    OBVIOUS
  <2>1. Fails \in SUBSET Nat
    OBVIOUS
  <2>2. PICK d \in Fails : \A m \in Fails : d <= m
    BY <2>1, LeastNumber
  <2> DEFINE j == N - d
  <2>3. W[j] = WordStep(list, quiet, j, W[j + 1], W[j + 2]) /\ j \in 1 .. N
    BY <1>2
  <2>4. CASE j > Len(list) \/ EndsOptions(list[j])
    <3>1. W[j] = << >>
      BY <2>3, <2>4 DEF WordStep
    <3>2. << >> \in Seq(GivenOptions)
      OBVIOUS
    <3> QED BY <2>2, <3>1, <3>2
  <2>5. CASE ~(j > Len(list) \/ EndsOptions(list[j]))
    <3>1. j \in 1 .. Len(list) /\ j + 1 \in 1 .. N /\ j + 2 \in 1 .. N
      BY <1>1, <2>3, <2>5
    <3>2. d - 1 \in Nat /\ d - 2 \in Nat /\ d - 1 \notin Fails /\ d - 2 \notin Fails
      <4>1. d \in Nat /\ d >= 2
        BY <1>1, <3>1
      <4> HIDE DEF Fails
      <4> QED BY <2>2, <4>1
    <3>3. N - (d - 1) = j + 1 /\ N - (d - 2) = j + 2
      BY <1>1, <2>2
    <3>4. W[j + 1] \in Seq(GivenOptions) /\ W[j + 2] \in Seq(GivenOptions)
      <4>1. W[N - (d - 1)] \in Seq(GivenOptions) /\ W[N - (d - 2)] \in Seq(GivenOptions)
        BY <3>1, <3>2, <3>3
      <4> QED BY <3>3, <4>1
    <3>5. W[j] = LetterOptions(list, j, quiet, W[j + 1], W[j + 2])[2]
      BY <2>3, <2>5 DEF WordStep
    <3>6. 2 \in 2 .. Len(list[j]) + 1
      <4>1. list[j] # << >> /\ list[j] \in Seq(Characters)
        BY <2>5, <3>1, ListIs DEF EndsOptions, StartsWithDash
      <4>2. Len(list[j]) \in Nat \ {0}
        BY <4>1
      <4> QED BY <4>2
    <3>7. W[j] \in Seq(GivenOptions)
      <4> DEFINE a == W[j + 1]
                 b == W[j + 2]
      <4>1. a \in Seq(GivenOptions) /\ b \in Seq(GivenOptions) /\ W[j] = LetterOptions(list, j, quiet, a, b)[2]
        BY <3>4, <3>5
      <4> HIDE DEF a, b, j
      <4> QED BY <3>1, <3>6, <4>1, LettersGive
    <3> QED BY <2>2, <3>7
  <2> QED BY <2>4, <2>5
<1>4. N - i \in Nat /\ N - (N - i) = i
  BY <1>1
<1>5. N - i \notin Fails
  BY <1>3
<1>6. W[i] \in Seq(GivenOptions)
  BY <1>4, <1>5
<1> QED BY <1>6 DEF W

LEMMA RestIs ==
  ASSUME NEW list \in Lists, NEW quiet \in BOOLEAN
  PROVE  /\ \A i \in 1 .. Len(list) + 2 : Rest(list, quiet, i, 2) \in Seq(GivenOptions)
         /\ \A i \in 1 .. Len(list) : \A k \in 2 .. Len(list[i]) + 1 :
              Rest(list, quiet, i, k) \in Seq(GivenOptions)
         /\ Options(list, quiet) \in Seq(GivenOptions) /\ Options(list, quiet) = Rest(list, quiet, 1, 2)
<1>1. Len(list) \in Nat
  BY ListIs
<1>2. ASSUME NEW i \in 1 .. Len(list) + 2 PROVE Rest(list, quiet, i, 2) \in Seq(GivenOptions)
  BY WordsGive DEF Rest
<1>3. ASSUME NEW i \in 1 .. Len(list), NEW k \in 2 .. Len(list[i]) + 1
      PROVE  Rest(list, quiet, i, k) \in Seq(GivenOptions)
  <2> DEFINE a == WordOptions(list, quiet)[i + 1]
             b == WordOptions(list, quiet)[i + 2]
  <2>1. i \in 1 .. Len(list) + 2 /\ i + 1 \in 1 .. Len(list) + 2 /\ i + 2 \in 1 .. Len(list) + 2
    BY <1>1
  <2>2. a \in Seq(GivenOptions) /\ b \in Seq(GivenOptions)
    BY <2>1, WordsGive
  <2>3. CASE k = 2
    BY <2>1, <2>3, <1>2
  <2>4. CASE k # 2
    <3>1. Rest(list, quiet, i, k) = LetterOptions(list, i, quiet, a, b)[k]
      BY <2>4 DEF Rest
    <3> HIDE DEF a, b
    <3> QED BY <2>2, <3>1, LettersGive
  <2> QED BY <2>3, <2>4
<1>4. 1 \in 1 .. Len(list) + 2 /\ Options(list, quiet) = Rest(list, quiet, 1, 2)
  BY <1>1 DEF Options, Rest
<1>5. Options(list, quiet) \in Seq(GivenOptions)
  BY <1>2, <1>4
<1> QED BY <1>2, <1>3, <1>4, <1>5

-----------------------------------------------------------------------------
(* getopts: the scan of a frame *)

\* At the end OPTIND is at the first operand.
AtOperand(list, i) ==
  \/ i = Len(list) + 1
  \/ IsDash(list[i]) \/ ~StartsWithDash(list[i])
  \/ \E j \in 1 .. (i - 1) : IsDashDash(list[j])

\* The scan is at the start of a word or inside one that has options.
InScan(list, i, off) ==
  /\ i <= Len(list) + 1
  /\ off = 1 \/ (i <= Len(list) /\ off < Len(list[i]) /\ ~EndsOptions(list[i]))

Begins(fd, all) == \E r \in Seq(GivenOptions) : fd \o r = all

\* What a frame's scan keeps: what was given and what is left make up the options.
Keeps(list, quiet, name, i, off, st, fd) ==
  /\ InScan(list, i, off)
  /\ st # 1 => fd \o Rest(list, quiet, i, off + 1) = Options(list, quiet)
  /\ Begins(fd, Options(list, quiet))
  /\ st = 1 /\ name # "invalid" => fd = Options(list, quiet) /\ AtOperand(list, i)

Scans(list, quiet, name, i, off, st, fd, old) ==
  /\ list \in Lists /\ i \in Nat \ {0} /\ off \in Nat \ {0} /\ st \in 0 .. 2
  /\ fd \in Seq(GivenOptions) /\ old \in BOOLEAN
  /\ ~old => Keeps(list, quiet, name, i, off, st, fd)

GetoptsInv ==
  /\ silent \in BOOLEAN /\ target \in {"name", "readonly", "invalid"}
  /\ Len(caller) \in {0, 1}
  /\ Scans(args, silent, target, optind, offset, status, found, stale)
  /\ caller # << >> =>
       /\ caller = <<caller[1]>>
       /\ Scans(caller[1].args, silent, target, caller[1].optind, caller[1].offset,
                caller[1].status, caller[1].found, caller[1].stale)

LEMMA GetoptsInvPromises ==
  ASSUME GetoptsInv
  PROVE  ArgumentsScanned
<1> DEFINE all == Options(args, silent)
<1>1. /\ args \in Lists /\ optind \in Nat \ {0} /\ offset \in Nat \ {0} /\ status \in 0 .. 2
      /\ found \in Seq(GivenOptions) /\ Len(caller) <= 1 /\ silent \in BOOLEAN
  <2>1. silent \in BOOLEAN /\ Scans(args, silent, target, optind, offset, status, found, stale)
    BY DEF GetoptsInv
  <2>2. \A n \in {0, 1} : n <= 1
    OBVIOUS
  <2>3. Len(caller) \in {0, 1}
    BY DEF GetoptsInv
  <2>4. Len(caller) <= 1
    BY <2>2, <2>3
  <2> QED BY <2>1, <2>4 DEF Scans
<1>2. ~stale => Keeps(args, silent, target, optind, offset, status, found)
  BY DEF GetoptsInv, Scans
<1>3. GetoptsTypeOK
  BY <1>1, <1>2 DEF GetoptsTypeOK, Lists, Keeps, InScan
<1>4. all \in Seq(GivenOptions)
  BY <1>1, RestIs
<1>5. ASSUME ~stale
      PROVE  Len(found) <= Len(all) /\ found = SubSeq(all, 1, Len(found))
  <2>1. PICK r \in Seq(GivenOptions) : found \o r = all
    BY <1>2, <1>5 DEF Keeps, Begins
  <2> HIDE DEF all
  <2>2. Len(all) = Len(found) + Len(r) /\ Len(found) \in Nat /\ Len(r) \in Nat
    BY <1>1, <2>1
  <2>3. \A j \in 1 .. Len(found) : all[j] = found[j]
    BY <1>1, <2>1
  <2> DEFINE sub == SubSeq(all, 1, Len(found))
  <2>4. /\ sub \in Seq(GivenOptions) /\ Len(sub) = Len(found)
        /\ \A j \in 1 .. Len(found) : sub[j] = all[j]
    BY <1>4, <2>2, SubSeqProperties
  <2> HIDE DEF sub
  <2>5. sub = found
    BY <1>1, <2>3, <2>4
  <2> QED BY <2>2, <2>5 DEF sub
<1>6. OptionsInOrder
  BY <1>2, <1>5 DEF OptionsInOrder, Keeps
<1>7. OperandsKept
  BY <1>2 DEF OperandsKept, Keeps, AtOperand
<1> QED BY <1>3, <1>6, <1>7 DEF ArgumentsScanned

\* A scan that begins.
LEMMA FreshScan ==
  ASSUME NEW list \in Lists, silent \in BOOLEAN
  PROVE  Scans(list, silent, target, 1, 1, 0, << >>, FALSE)
<1> DEFINE all == Options(list, silent)
<1>1. Len(list) \in Nat /\ all \in Seq(GivenOptions) /\ all = Rest(list, silent, 1, 2)
  BY ListIs, RestIs
<1> HIDE DEF all
<1>2. << >> \o all = all /\ << >> \in Seq(GivenOptions)
  BY <1>1
<1>3. InScan(list, 1, 1)
  BY <1>1 DEF InScan
<1>4. Begins(<< >>, all)
  BY <1>1, <1>2 DEF Begins
<1>5. << >> \o Rest(list, silent, 1, 1 + 1) = all
  BY <1>1, <1>2
<1>6. Keeps(list, silent, target, 1, 1, 0, << >>)
  BY <1>3, <1>4, <1>5 DEF Keeps, all
<1> QED BY <1>2, <1>6 DEF Scans

LEMMA GetoptsInvInit ==
  ASSUME GetoptsInit
  PROVE  GetoptsInv
<1>1. args \in Lists /\ silent \in BOOLEAN
  BY DEF GetoptsInit, Lists
<1>2. Scans(args, silent, target, 1, 1, 0, << >>, FALSE)
  BY <1>1, FreshScan
<1>3. Len(<< >>) = 0
  OBVIOUS
<1> QED BY <1>1, <1>2, <1>3 DEF GetoptsInit, GetoptsInv

\* What a call of getopts keeps, when the scan of the frame is kept.
LEMMA CallKeeps ==
  ASSUME GetoptsInv, Frame,
         Scans(args, silent, target, optind, offset, status, found, stale)'
  PROVE  GetoptsInv'
<1>1. target' = target /\ silent' = silent /\ caller' = caller
  BY DEF Frame
<1> QED BY <1>1 DEF GetoptsInv

\* A call that gives an option: what was left began with it.
LEMMA GiveKeeps ==
  ASSUME GetoptsInv, NEW name, NEW value, Give(name, value), <<name, value>> \in GivenOptions,
         optind' \in Nat \ {0}, offset' \in Nat \ {0},
         ~stale => /\ InScan(args, optind', offset')
                   /\ Rest(args, silent, optind', offset' + 1) \in Seq(GivenOptions)
                   /\ Rest(args, silent, optind, offset + 1) =
                        <<<<name, value>>>> \o Rest(args, silent, optind', offset' + 1),
         status = 0
  PROVE  GetoptsInv'
<1> DEFINE t == <<name, value>>
           r == Rest(args, silent, optind', offset' + 1)
           all == Options(args, silent)
<1>1. /\ found' = Append(found, t) /\ status' = Bound
      /\ args' = args /\ silent' = silent /\ target' = target /\ stale' = stale /\ Frame
  BY DEF Give, Frame
<1>2. /\ args \in Lists /\ found \in Seq(GivenOptions) /\ stale \in BOOLEAN
      /\ ~stale => Keeps(args, silent, target, optind, offset, status, found)
      /\ target \in {"name", "readonly", "invalid"}
  BY DEF GetoptsInv, Scans
<1>3. status' \in 0 .. 2 /\ (status' = 1 => target = "invalid")
  BY <1>1, <1>2 DEF Bound
<1> HIDE DEF t, r, all
<1>4. t \in GivenOptions
  BY DEF t
<1>5. found' \in Seq(GivenOptions)
  <2> HIDE DEF GivenOptions
  <2> QED BY <1>1, <1>2, <1>4
<1>6. ASSUME ~stale
      PROVE  Keeps(args, silent, target, optind', offset', status', found')
  <2>1. r \in Seq(GivenOptions) /\ Rest(args, silent, optind, offset + 1) = <<t>> \o r
    BY <1>6 DEF r, t
  <2>2. found \o (<<t>> \o r) = all
    <3>1. Keeps(args, silent, target, optind, offset, status, found) /\ status # 1
      BY <1>2, <1>6
    <3>2. found \o Rest(args, silent, optind, offset + 1) = all
      BY <3>1 DEF Keeps, all
    <3> QED BY <2>1, <3>2
  <2>3. Append(found, t) \o r = found \o (<<t>> \o r)
    <3> HIDE DEF GivenOptions
    <3> QED BY <1>2, <1>4, <2>1
  <2>4. found' \o r = all
    BY <1>1, <2>2, <2>3
  <2>5. Begins(found', all)
    BY <2>1, <2>4 DEF Begins
  <2>6. InScan(args, optind', offset')
    BY <1>6
  <2> QED BY <1>3, <2>4, <2>5, <2>6 DEF Keeps, r, all
<1>7. Scans(args, silent, target, optind, offset, status, found, stale)'
  BY <1>1, <1>2, <1>3, <1>5, <1>6 DEF Scans
<1> QED BY <1>1, <1>7, CallKeeps

\* A letter under the scan.
LEMMA LetterIs ==
  ASSUME GetoptsInv, AtLetter
  PROVE  /\ args \in Lists /\ silent \in BOOLEAN /\ status = 0
         /\ optind \in 1 .. Len(args) /\ offset + 1 \in 2 .. Len(args[optind])
         /\ Len(args) \in Nat /\ Len(args[optind]) \in Nat /\ args[optind] \in Seq(Characters)
         /\ optind \in Nat \ {0} /\ offset \in Nat \ {0}
         /\ Letter \in Characters
         /\ ~stale => /\ ~EndsOptions(args[optind])
                      /\ Rest(args, silent, optind, offset + 1) =
                           LetterStep(args, optind, silent, Rest(args, silent, optind + 1, 2),
                                      Rest(args, silent, optind + 2, 2), offset + 1,
                                      IF offset + 1 < Len(args[optind])
                                      THEN Rest(args, silent, optind, (offset + 1) + 1)
                                      ELSE Rest(args, silent, optind + 1, 2))
<1>1. /\ args \in Lists /\ silent \in BOOLEAN /\ optind \in Nat \ {0} /\ offset \in Nat \ {0}
      /\ ~stale => Keeps(args, silent, target, optind, offset, status, found)
  BY DEF GetoptsInv, Scans
<1>2. /\ status = 0 /\ optind <= Len(args) /\ ~Stops /\ offset + 1 <= Len(args[optind])
  BY DEF AtLetter, Scanning, Looping, Word
<1>3. Len(args) \in Nat /\ optind \in 1 .. Len(args)
  BY <1>1, <1>2, ListIs
<1>4. Len(args[optind]) \in Nat /\ args[optind] \in Seq(Characters)
  BY <1>1, <1>3, ListIs
<1>5. offset + 1 \in 2 .. Len(args[optind])
  BY <1>1, <1>2, <1>4
<1>6. Letter \in Characters
  BY <1>4, <1>5 DEF Letter, Word
<1>7. ~stale => ~EndsOptions(args[optind])
  BY <1>1, <1>2 DEF Keeps, InScan, Stops, AtStart, Word
<1>8. ~stale => Rest(args, silent, optind, offset + 1) =
                  LetterStep(args, optind, silent, Rest(args, silent, optind + 1, 2),
                             Rest(args, silent, optind + 2, 2), offset + 1,
                             IF offset + 1 < Len(args[optind])
                             THEN Rest(args, silent, optind, (offset + 1) + 1)
                             ELSE Rest(args, silent, optind + 1, 2))
  BY <1>1, <1>3, <1>5, <1>7, RestAtLetter
<1> QED BY <1>1, <1>2, <1>3, <1>4, <1>5, <1>6, <1>7, <1>8

\* Moving on by one letter.
LEMMA AdvanceIs ==
  ASSUME GetoptsInv, AtLetter, Advance
  PROVE  /\ optind' \in Nat \ {0} /\ offset' \in Nat \ {0}
         /\ Rest(args, silent, optind', offset' + 1) =
              IF offset + 1 < Len(args[optind]) THEN Rest(args, silent, optind, (offset + 1) + 1)
                                                ELSE Rest(args, silent, optind + 1, 2)
         /\ Rest(args, silent, optind', offset' + 1) \in Seq(GivenOptions)
         /\ ~stale => InScan(args, optind', offset')
<1>1. /\ args \in Lists /\ silent \in BOOLEAN /\ optind \in 1 .. Len(args)
      /\ offset + 1 \in 2 .. Len(args[optind]) /\ Len(args) \in Nat /\ Len(args[optind]) \in Nat
      /\ optind \in Nat \ {0} /\ offset \in Nat \ {0}
      /\ ~stale => ~EndsOptions(args[optind])
  BY LetterIs
<1>2. CASE LastOfWord
  <2>1. optind' = optind + 1 /\ offset' = 1 /\ ~(offset + 1 < Len(args[optind]))
    BY <1>1, <1>2 DEF Advance, LastOfWord, Word
  <2>2. Rest(args, silent, optind', offset' + 1) = Rest(args, silent, optind + 1, 2)
    BY <2>1
  <2>3. optind + 1 \in 1 .. Len(args) + 2
    BY <1>1
  <2>4. Rest(args, silent, optind + 1, 2) \in Seq(GivenOptions)
    BY <1>1, <2>3, RestIs
  <2> QED BY <1>1, <2>1, <2>2, <2>4 DEF InScan
<1>3. CASE ~LastOfWord
  <2>1. optind' = optind /\ offset' = offset + 1 /\ offset + 1 < Len(args[optind])
    BY <1>1, <1>3 DEF Advance, LastOfWord, Word
  <2>2. (offset + 1) + 1 \in 2 .. Len(args[optind]) + 1
    BY <1>1, <2>1
  <2>3. Rest(args, silent, optind, (offset + 1) + 1) \in Seq(GivenOptions)
    BY <1>1, <2>2, RestIs
  <2> QED BY <1>1, <2>1, <2>3 DEF InScan
<1> QED BY <1>2, <1>3

LEMMA InvalidStep ==
  ASSUME GetoptsInv, InvalidOption
  PROVE  GetoptsInv'
<1> DEFINE value == IF silent THEN Letter ELSE Unset
<1>1. AtLetter /\ Letter \notin Known /\ Advance /\ Give("?", value)
  BY DEF InvalidOption
<1>2. Letter \in Characters /\ Letter = args[optind][offset + 1] /\ status = 0
      /\ offset + 1 <= Len(args[optind]) /\ Len(args[optind]) \in Nat /\ offset \in Nat
  BY <1>1, LetterIs DEF Letter, Word
<1>3. <<"?", value>> \in GivenOptions
  BY <1>2 DEF GivenOptions
<1>4. ~stale => Rest(args, silent, optind, offset + 1) =
                  <<<<"?", value>>>> \o Rest(args, silent, optind', offset' + 1)
  <2> DEFINE r == Rest(args, silent, optind', offset' + 1)
             a == Rest(args, silent, optind + 1, 2)
             b == Rest(args, silent, optind + 2, 2)
  <2>1. ~stale => Rest(args, silent, optind, offset + 1) =
                    LetterStep(args, optind, silent, a, b, offset + 1, r)
    BY <1>1, LetterIs, AdvanceIs
  <2>2. ~(offset + 1 > Len(args[optind]))
    BY <1>2
  <2> HIDE DEF r, a, b
  <2>3. LetterStep(args, optind, silent, a, b, offset + 1, r) = <<<<"?", value>>>> \o r
    BY <1>1, <1>2, <2>2 DEF LetterStep
  <2> QED BY <2>1, <2>3 DEF r
<1> HIDE DEF value
<1> QED BY <1>1, <1>2, <1>3, <1>4, AdvanceIs, GiveKeeps

LEMMA PlainOptionStep ==
  ASSUME GetoptsInv, PlainOption
  PROVE  GetoptsInv'
<1>1. AtLetter /\ Letter \in Known /\ Letter \notin WithArg /\ Advance /\ Give(Letter, Unset)
  BY DEF PlainOption
<1>2. Letter \in Characters /\ Letter = args[optind][offset + 1] /\ status = 0
      /\ offset + 1 <= Len(args[optind]) /\ Len(args[optind]) \in Nat /\ offset \in Nat
  BY <1>1, LetterIs DEF Letter, Word
<1>3. <<Letter, Unset>> \in GivenOptions
  BY <1>2 DEF GivenOptions
<1>4. ~stale => Rest(args, silent, optind, offset + 1) =
                  <<<<Letter, Unset>>>> \o Rest(args, silent, optind', offset' + 1)
  <2> DEFINE r == Rest(args, silent, optind', offset' + 1)
             a == Rest(args, silent, optind + 1, 2)
             b == Rest(args, silent, optind + 2, 2)
  <2>1. ~stale => Rest(args, silent, optind, offset + 1) =
                    LetterStep(args, optind, silent, a, b, offset + 1, r)
    BY <1>1, LetterIs, AdvanceIs
  <2>2. ~(offset + 1 > Len(args[optind]))
    BY <1>2
  <2> HIDE DEF r, a, b
  <2>3. LetterStep(args, optind, silent, a, b, offset + 1, r) = <<<<Letter, Unset>>>> \o r
    BY <1>1, <1>2, <2>2 DEF LetterStep
  <2> QED BY <2>1, <2>3 DEF r
<1> QED BY <1>1, <1>2, <1>3, <1>4, AdvanceIs, GiveKeeps

LEMMA MissingArgumentStep ==
  ASSUME GetoptsInv, MissingArgument
  PROVE  GetoptsInv'
<1> DEFINE name == IF silent THEN ":" ELSE "?"
           value == IF silent THEN Letter ELSE Unset
<1>1. /\ AtLetter /\ Letter \in WithArg /\ LastOfWord /\ optind = Len(args) /\ Advance
      /\ Give(name, value)
  BY DEF MissingArgument
<1>2. /\ Letter \in Characters /\ Letter = args[optind][offset + 1] /\ status = 0
      /\ offset + 1 <= Len(args[optind]) /\ Len(args[optind]) \in Nat /\ offset \in Nat
      /\ args \in Lists /\ silent \in BOOLEAN /\ Len(args) \in Nat
  BY <1>1, LetterIs DEF Letter, Word
<1>3. <<name, value>> \in GivenOptions
  BY <1>2 DEF GivenOptions
<1>4. ~stale => Rest(args, silent, optind, offset + 1) =
                  <<<<name, value>>>> \o Rest(args, silent, optind', offset' + 1)
  <2> DEFINE r == Rest(args, silent, optind', offset' + 1)
             a == Rest(args, silent, optind + 1, 2)
             b == Rest(args, silent, optind + 2, 2)
  <2>1. ~stale => Rest(args, silent, optind, offset + 1) =
                    LetterStep(args, optind, silent, a, b, offset + 1, r)
    BY <1>1, LetterIs, AdvanceIs
  <2>2. ~(offset + 1 > Len(args[optind])) /\ ~(offset + 1 < Len(args[optind]))
        /\ ~(optind < Len(args)) /\ Letter \in Known
    BY <1>1, <1>2, WithArgAssumption DEF LastOfWord, Word
  <2>3. r = << >>
    <3>1. optind' = optind + 1 /\ offset' = 1
      BY <1>1 DEF Advance
    <3>2. optind + 1 \in 1 .. Len(args) + 2 /\ optind + 1 > Len(args)
      BY <1>1, <1>2
    <3>3. Rest(args, silent, optind + 1, 2) = << >>
      BY <1>2, <3>2, RestAtWord
    <3> QED BY <3>1, <3>3
  <2> HIDE DEF r, a, b
  <2>4. LetterStep(args, optind, silent, a, b, offset + 1, r) = <<<<name, value>>>>
    BY <1>1, <1>2, <2>2 DEF LetterStep
  <2>5. <<<<name, value>>>> \o << >> = <<<<name, value>>>>
    OBVIOUS
  <2> QED BY <2>1, <2>3, <2>4, <2>5 DEF r
<1> HIDE DEF name, value
<1> QED BY <1>1, <1>2, <1>3, <1>4, AdvanceIs, GiveKeeps

LEMMA InlineArgumentStep ==
  ASSUME GetoptsInv, InlineArgument
  PROVE  GetoptsInv'
<1> DEFINE value == Tails(Word, offset + 2)
<1>1. /\ AtLetter /\ Letter \in WithArg /\ ~LastOfWord
      /\ optind' = optind + 1 /\ offset' = 1 /\ Give(Letter, value)
  BY DEF InlineArgument
<1>2. /\ Letter \in Characters /\ Letter = args[optind][offset + 1] /\ status = 0
      /\ offset + 1 <= Len(args[optind]) /\ Len(args[optind]) \in Nat /\ offset \in Nat \ {0}
      /\ args \in Lists /\ silent \in BOOLEAN /\ Len(args) \in Nat
      /\ args[optind] \in Seq(Characters) /\ optind \in 1 .. Len(args)
  BY <1>1, LetterIs DEF Letter, Word
<1>3. <<Letter, value>> \in GivenOptions
  <2>1. value \in Seq(Characters)
    BY <1>2 DEF Tails, Word
  <2> HIDE DEF value
  <2> QED BY <1>2, <2>1 DEF GivenOptions
<1>4. ~stale => Rest(args, silent, optind, offset + 1) =
                  <<<<Letter, value>>>> \o Rest(args, silent, optind + 1, 2)
  <2> DEFINE r == IF offset + 1 < Len(args[optind])
                  THEN Rest(args, silent, optind, (offset + 1) + 1)
                  ELSE Rest(args, silent, optind + 1, 2)
             a == Rest(args, silent, optind + 1, 2)
             b == Rest(args, silent, optind + 2, 2)
  <2>1. ~stale => Rest(args, silent, optind, offset + 1) =
                    LetterStep(args, optind, silent, a, b, offset + 1, r)
    BY <1>1, LetterIs
  <2>2. ~(offset + 1 > Len(args[optind])) /\ offset + 1 < Len(args[optind]) /\ Letter \in Known
        /\ (offset + 1) + 1 = offset + 2
    BY <1>1, <1>2, WithArgAssumption DEF LastOfWord, Word
  <2> HIDE DEF r, a, b
  <2>3. LetterStep(args, optind, silent, a, b, offset + 1, r) = <<<<Letter, value>>>> \o a
    BY <1>1, <1>2, <2>2 DEF LetterStep, Word
  <2> QED BY <2>1, <2>3 DEF a
<1>5. optind + 1 \in 1 .. Len(args) + 2 /\ optind' \in Nat \ {0} /\ offset' \in Nat \ {0}
      /\ InScan(args, optind', offset') /\ offset' + 1 = 2
  BY <1>1, <1>2 DEF InScan
<1>6. Rest(args, silent, optind + 1, 2) \in Seq(GivenOptions)
  BY <1>2, <1>5, RestIs
<1> HIDE DEF value
<1> QED BY <1>1, <1>2, <1>3, <1>4, <1>5, <1>6, GiveKeeps

LEMMA NextWordArgumentStep ==
  ASSUME GetoptsInv, NextWordArgument
  PROVE  GetoptsInv'
<1> DEFINE value == args[optind + 1]
<1>1. /\ AtLetter /\ Letter \in WithArg /\ LastOfWord /\ optind < Len(args)
      /\ optind' = optind + 2 /\ offset' = 1 /\ Give(Letter, value)
  BY DEF NextWordArgument
<1>2. /\ Letter \in Characters /\ Letter = args[optind][offset + 1] /\ status = 0
      /\ offset + 1 <= Len(args[optind]) /\ Len(args[optind]) \in Nat /\ offset \in Nat \ {0}
      /\ args \in Lists /\ silent \in BOOLEAN /\ Len(args) \in Nat
      /\ args[optind] \in Seq(Characters) /\ optind \in 1 .. Len(args)
  BY <1>1, LetterIs DEF Letter, Word
<1>3. <<Letter, value>> \in GivenOptions
  <2>1. value \in Seq(Characters)
    BY <1>1, <1>2, ListIs
  <2> HIDE DEF value
  <2> QED BY <1>2, <2>1 DEF GivenOptions
<1>4. ~stale => Rest(args, silent, optind, offset + 1) =
                  <<<<Letter, value>>>> \o Rest(args, silent, optind + 2, 2)
  <2> DEFINE r == IF offset + 1 < Len(args[optind])
                  THEN Rest(args, silent, optind, (offset + 1) + 1)
                  ELSE Rest(args, silent, optind + 1, 2)
             a == Rest(args, silent, optind + 1, 2)
             b == Rest(args, silent, optind + 2, 2)
  <2>1. ~stale => Rest(args, silent, optind, offset + 1) =
                    LetterStep(args, optind, silent, a, b, offset + 1, r)
    BY <1>1, LetterIs
  <2>2. ~(offset + 1 > Len(args[optind])) /\ ~(offset + 1 < Len(args[optind])) /\ Letter \in Known
    BY <1>1, <1>2, WithArgAssumption DEF LastOfWord, Word
  <2> HIDE DEF r, a, b
  <2>3. LetterStep(args, optind, silent, a, b, offset + 1, r) = <<<<Letter, value>>>> \o b
    BY <1>1, <1>2, <2>2 DEF LetterStep
  <2> QED BY <2>1, <2>3 DEF b
<1>5. optind + 2 \in 1 .. Len(args) + 2 /\ optind' \in Nat \ {0} /\ offset' \in Nat \ {0}
      /\ InScan(args, optind', offset') /\ offset' + 1 = 2
  BY <1>1, <1>2 DEF InScan
<1>6. Rest(args, silent, optind + 2, 2) \in Seq(GivenOptions)
  BY <1>2, <1>5, RestIs
<1> HIDE DEF value
<1> QED BY <1>1, <1>2, <1>3, <1>4, <1>5, <1>6, GiveKeeps

\* A call past the options: nothing is left, and OPTIND is at an operand.
LEMMA EndOfOptionsStep ==
  ASSUME GetoptsInv, EndOfOptions
  PROVE  GetoptsInv'
<1>1. /\ status = 0 /\ offset' = 1 /\ status' = 1 /\ found' = found
      /\ args' = args /\ silent' = silent /\ target' = target /\ stale' = stale /\ Frame
  BY DEF EndOfOptions, Looping, Frame
<1>2. /\ args \in Lists /\ silent \in BOOLEAN /\ optind \in Nat \ {0} /\ offset \in Nat \ {0}
      /\ found \in Seq(GivenOptions) /\ stale \in BOOLEAN
      /\ ~stale => Keeps(args, silent, target, optind, offset, status, found)
  BY DEF GetoptsInv, Scans
<1>3. Len(args) \in Nat /\ \A i \in 1 .. Len(args) : args[i] \in Seq(Characters)
  BY <1>2, ListIs
<1>4. optind' \in {optind, optind + 1}
  BY DEF EndOfOptions, AfterOptions
<1>5. ASSUME ~stale
      PROVE  /\ Rest(args, silent, optind, offset + 1) = << >>
             /\ optind' <= Len(args) + 1 /\ AtOperand(args, optind')
  <2>1. /\ optind <= Len(args) + 1
        /\ offset = 1 \/ (optind <= Len(args) /\ offset < Len(args[optind]) /\ ~EndsOptions(args[optind]))
    BY <1>2, <1>5 DEF Keeps, InScan
  <2>2. CASE optind > Len(args) /\ optind' = optind
    <3>1. optind = Len(args) + 1 /\ offset + 1 = 2 /\ optind \in 1 .. Len(args) + 2
      BY <1>2, <1>3, <2>1, <2>2
    <3>2. Rest(args, silent, optind, 2) = << >>
      BY <1>2, <2>2, <3>1, RestAtWord
    <3> QED BY <1>3, <2>2, <3>1, <3>2 DEF AtOperand
  <2>3. CASE optind <= Len(args) /\ Stops /\ optind' = AfterOptions
    <3>1. offset + 1 = 2 /\ EndsOptions(args[optind]) /\ optind \in 1 .. Len(args) + 2
      BY <1>2, <1>3, <2>3 DEF Stops, AtStart, Word
    <3>2. Rest(args, silent, optind, 2) = << >>
      BY <1>2, <3>1, RestAtWord
    <3>3. CASE IsDashDash(args[optind])
      <4>1. optind' = optind + 1 /\ optind \in 1 .. (optind' - 1)
        BY <1>2, <2>3, <3>3 DEF AfterOptions, Word
      <4> QED BY <1>2, <1>3, <2>3, <3>1, <3>2, <3>3, <4>1 DEF AtOperand
    <3>4. CASE ~IsDashDash(args[optind])
      <4>1. optind' = optind
        BY <2>3, <3>4 DEF AfterOptions, Word
      <4>2. IsDash(args[optind]) \/ ~StartsWithDash(args[optind])
        BY <3>1, <3>4 DEF EndsOptions
      <4> QED BY <2>1, <3>1, <3>2, <4>1, <4>2 DEF AtOperand
    <3> QED BY <3>3, <3>4
  <2>4. CASE Scanning /\ offset + 1 > Len(Word) /\ optind' = optind + 1
    <3>1. optind \in 1 .. Len(args)
      BY <1>2, <1>3, <2>4 DEF Scanning
    <3>2. args[optind] \in Seq(Characters) /\ Len(args[optind]) \in Nat
      BY <1>3, <3>1
    <3>3. offset = 1 /\ ~EndsOptions(args[optind])
      BY <1>2, <2>1, <2>4, <3>2 DEF Scanning, Stops, AtStart, Word
    <3>4. args[optind] # << >> /\ args[optind][1] = "-" /\ args[optind] # <<"-">>
      BY <3>3 DEF EndsOptions, StartsWithDash, IsDash
    <3>5. Len(args[optind]) <= 1
      BY <2>4, <3>2, <3>3 DEF Word
    <3>6. args[optind] = <<"-">>
      <4>1. Len(args[optind]) = 1
        BY <3>2, <3>4, <3>5
      <4> QED BY <3>2, <3>4, <4>1
    <3> QED BY <3>4, <3>6
  <2> QED BY <2>2, <2>3, <2>4 DEF EndOfOptions
<1>6. ASSUME ~stale
      PROVE  Keeps(args, silent, target, optind', 1, 1, found)
  <2> DEFINE all == Options(args, silent)
  <2>1. found \o << >> = all
    BY <1>1, <1>2, <1>5, <1>6 DEF Keeps
  <2>2. found = all /\ Begins(found, all)
    <3>1. found \o << >> = found /\ << >> \in Seq(GivenOptions)
      BY <1>2
    <3> HIDE DEF all
    <3> QED BY <2>1, <3>1 DEF Begins
  <2>3. InScan(args, optind', 1) /\ AtOperand(args, optind')
    BY <1>5, <1>6 DEF InScan
  <2> QED BY <2>2, <2>3 DEF Keeps
<1>7. Scans(args, silent, target, optind, offset, status, found, stale)'
  <2>1. optind' \in Nat \ {0}
    BY <1>2, <1>4
  <2> QED BY <1>1, <1>2, <1>6, <2>1 DEF Scans
<1> QED BY <1>1, <1>7, CallKeeps

-----------------------------------------------------------------------------
(* getopts: what the script does between calls *)

LEMMA ResetStep ==
  ASSUME GetoptsInv, ResetOptind
  PROVE  GetoptsInv'
<1>1. /\ optind' = 1 /\ offset' = 1 /\ status' = 0 /\ found' = << >> /\ stale' = FALSE
      /\ args' = args /\ silent' = silent /\ target' = target /\ caller' = caller
  BY DEF ResetOptind
<1>2. args \in Lists /\ silent \in BOOLEAN
  BY DEF GetoptsInv, Scans
<1>3. Scans(args, silent, target, 1, 1, 0, << >>, FALSE)
  BY <1>2, FreshScan
<1> QED BY <1>1, <1>3 DEF GetoptsInv

LEMMA SetStep ==
  ASSUME GetoptsInv, NEW list \in CalleeArgs, SetParameters(list)
  PROVE  GetoptsInv'
<1>1. /\ args' = list /\ stale' = (optind # 1 \/ offset # 1) /\ status' = 0 /\ found' = << >>
      /\ silent' = silent /\ target' = target /\ caller' = caller
      /\ optind' = optind /\ offset' = offset
  BY DEF SetParameters
<1>2. list \in Lists /\ silent \in BOOLEAN /\ optind \in Nat \ {0} /\ offset \in Nat \ {0}
  BY DEF GetoptsInv, Scans, Lists
<1>3. Scans(list, silent, target, 1, 1, 0, << >>, FALSE)
  BY <1>2, FreshScan
<1>4. Scans(list, silent, target, optind, offset, 0, << >>, stale')
  <2>1. << >> \in Seq(GivenOptions)
    OBVIOUS
  <2> QED BY <1>1, <1>2, <1>3, <2>1 DEF Scans
<1> QED BY <1>1, <1>4 DEF GetoptsInv

LEMMA CallStep ==
  ASSUME GetoptsInv, NEW list \in CalleeArgs, CallFunction(list)
  PROVE  GetoptsInv'
<1> DEFINE saved == [args |-> args, optind |-> optind, offset |-> offset,
                     status |-> status, found |-> found, stale |-> stale]
<1>1. /\ caller' = <<saved>> /\ args' = list
      /\ optind' = 1 /\ offset' = 1 /\ status' = 0 /\ found' = << >> /\ stale' = FALSE
      /\ silent' = silent /\ target' = target
  BY DEF CallFunction
<1>2. list \in Lists /\ silent \in BOOLEAN /\ target \in {"name", "readonly", "invalid"}
      /\ Scans(args, silent, target, optind, offset, status, found, stale)
  BY DEF GetoptsInv, Lists
<1>3. Scans(list, silent, target, 1, 1, 0, << >>, FALSE)
  BY <1>2, FreshScan
<1>4. /\ saved.args = args /\ saved.optind = optind /\ saved.offset = offset
      /\ saved.status = status /\ saved.found = found /\ saved.stale = stale
  OBVIOUS
<1> HIDE DEF saved
<1>5. Len(caller') = 1 /\ caller'[1] = saved /\ caller' = <<caller'[1]>>
  BY <1>1
<1> QED BY <1>1, <1>2, <1>3, <1>4, <1>5 DEF GetoptsInv

LEMMA ReturnFromStep ==
  ASSUME GetoptsInv, ReturnFromFunction
  PROVE  GetoptsInv'
<1>1. /\ caller # << >> /\ args' = caller[1].args /\ optind' = caller[1].optind
      /\ offset' = caller[1].offset /\ status' = caller[1].status /\ found' = caller[1].found
      /\ stale' = caller[1].stale /\ caller' = << >> /\ silent' = silent /\ target' = target
  BY DEF ReturnFromFunction
<1>2. Len(caller') = 0
  BY <1>1
<1> QED BY <1>1, <1>2 DEF GetoptsInv

LEMMA GetoptsInvSteps ==
  ASSUME GetoptsInv, [GetoptsNext]_gVars
  PROVE  GetoptsInv'
<1>1. CASE UNCHANGED gVars
  BY <1>1 DEF gVars, GetoptsInv
<1>2. CASE GetoptsNext
  BY <1>2, EndOfOptionsStep, InvalidStep, PlainOptionStep, InlineArgumentStep,
     NextWordArgumentStep, MissingArgumentStep, ResetStep, SetStep, CallStep, ReturnFromStep
     DEF GetoptsNext
<1> QED BY <1>1, <1>2

\* Whatever the arguments, the option string and what the script does between two
\* calls of getopts: the calls give the options of the arguments in order, all of
\* them when the loop ends by itself, and OPTIND is then the first operand, unless
\* set -- came while a scan was under way (execute_getopts and the OPTIND of the
\* functions around it).
THEOREM ArgumentsAlwaysScanned == GetoptsSpec => []ArgumentsScanned
<1>1. GetoptsInit => GetoptsInv
  BY GetoptsInvInit
<1>2. GetoptsInv /\ [GetoptsNext]_gVars => GetoptsInv'
  BY GetoptsInvSteps
<1>3. GetoptsInv => ArgumentsScanned
  BY GetoptsInvPromises
<1> QED BY <1>1, <1>2, <1>3, PTL DEF GetoptsSpec

\* A call of getopts looks at a later letter than the one before, whatever the
\* arguments: a loop over it ends (execute_getopts).
THEOREM ScanAlwaysAdvances == GetoptsSpec => ScanAdvances
<1> DEFINE A == Len(found') > Len(found) /\ caller' = caller
                  => optind' > optind \/ (optind' = optind /\ offset' > offset)
<1>1. ASSUME GetoptsInv, [GetoptsNext]_gVars PROVE [A]_gVars
  <2>1. /\ optind \in Nat /\ offset \in Nat /\ Len(found) \in Nat
    BY <1>1 DEF GetoptsInv, Scans
  <2>2. CASE Advance
    BY <2>1, <2>2 DEF Advance
  <2>3. CASE found' = found \/ found' = << >>
    <3>1. Len(<< >>) = 0
      OBVIOUS
    <3>2. ~(Len(found') > Len(found))
      BY <2>1, <2>3, <3>1
    <3> QED BY <3>2
  <2>4. CASE InlineArgument \/ NextWordArgument
    BY <2>1, <2>4 DEF InlineArgument, NextWordArgument
  <2>5. CASE ReturnFromFunction
    BY <2>5 DEF ReturnFromFunction
  <2> QED BY <1>1, <2>2, <2>3, <2>4, <2>5 DEF GetoptsNext, gVars, EndOfOptions, InvalidOption,
        PlainOption, MissingArgument, ResetOptind, SetParameters, CallFunction
<1>2. GetoptsInit => GetoptsInv
  BY GetoptsInvInit
<1>3. GetoptsInv /\ [GetoptsNext]_gVars => GetoptsInv'
  BY GetoptsInvSteps
<1> QED BY <1>1, <1>2, <1>3, PTL DEF GetoptsSpec, ScanAdvances
=============================================================================
