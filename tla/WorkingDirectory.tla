--------------------------- MODULE WorkingDirectory ---------------------------
(* Where the shell is. Four places know it: the directory of the process, PWD *)
(* in env_vars, PWD in the typed variables and the first entry of the         *)
(* directory stack. cd moves the first three, pushd and popd the last three;  *)
(* subshells run in the same process and put some of them back.               *)
(*                                                                            *)
(* A path is the sequence of its names from the root. The build is one whose  *)
(* paths are POSIX paths and that has no shell root of its own.               *)
EXTENDS Integers, Sequences, SequencesExt

CONSTANTS
  Real,        \* the directory of each path that names one (links resolved)
  Names,       \* names given as relative operands
  CdPath,      \* the directories of CDPATH
  CdableVars,  \* with cdable_vars: the variables that hold a path
  MaxStack, MaxPath   \* bounds: entries of the stack, names in a path

Dirs == DOMAIN Real
Missing == <<"missing">>
Root == << >>
NoPath == <<"no", "path">>

ASSUME DirsAssumption ==
  /\ Root \in Dirs /\ Real[Root] = Root
  /\ \A d \in Dirs : Real[d] \in Dirs /\ Real[Real[d]] = Real[d]
  /\ Missing \notin Dirs /\ NoPath \notin Dirs

Paths == UNION {[1..n -> Names] : n \in 0..MaxPath}

ASSUME BoundsAssumption ==
  /\ MaxStack \in Nat \ {0} /\ MaxPath \in Nat
  /\ Dirs \subseteq Paths

\* A name under a link is the name under the directory the link leads to.
ASSUME LinksAssumption ==
  \A d \in Dirs, n \in Names :
    Len(d) < MaxPath /\ Append(Real[d], n) \in Dirs =>
      Append(d, n) \in Dirs /\ Real[Append(d, n)] = Real[Append(Real[d], n)]

VARIABLES
  cwd,      \* the directory of the process
  pwd,      \* PWD in env_vars
  typed,    \* PWD in shell_state.variables, which expansions read first
  oldpwd,   \* OLDPWD, NoPath when unset
  stack,    \* __RUBASH_DIR_STACK, empty when unset or cleared
  outer,    \* what the subshells being run restore at their end
  strayed,  \* history: a stack builtin, a ".." under a link or a subshell parted cwd from PWD
  unsynced, \* history: a cd with a redirection skipped the typed variable
  trail     \* history: the directories left by the pushds that no popd undid

wdVars == <<cwd, pwd, typed, oldpwd, stack, outer, strayed, unsynced, trail>>

WdTypeOK ==
  /\ cwd \in {Real[d] : d \in Dirs}
  /\ {pwd, typed} \subseteq Paths
  /\ oldpwd \in Paths \cup {NoPath}
  /\ stack \in Seq(Paths) /\ Len(stack) <= MaxStack
  /\ strayed \in BOOLEAN /\ unsynced \in BOOLEAN
  /\ trail \in Seq(Paths)

\* Joining a relative name to a path, lexically.
Join(base, name) ==
  IF name = ".." THEN IF base = Root THEN Root ELSE Front(base) ELSE Append(base, name)

WdInit ==
  /\ cwd \in {Real[d] : d \in Dirs} /\ pwd = cwd /\ typed = cwd
  /\ oldpwd = NoPath /\ stack = << >> /\ outer = << >>
  /\ strayed = FALSE /\ unsynced = FALSE /\ trail = << >>

-----------------------------------------------------------------------------
(* cd *)

Absolute(p) == [kind |-> "absolute", path |-> p]
Relative(n) == [kind |-> "relative", name |-> n]

\* The directory the process reaches from its own directory, NoPath when none.
Reach_AsSpelled(target) ==
  LET p == IF target.kind = "absolute" THEN target.path ELSE Join(cwd, target.name)
  IN  IF p \in Dirs THEN p ELSE NoPath

Reach(target) ==
  LET p == IF target.kind = "absolute" THEN target.path ELSE Join(cwd, target.name)
  IN  IF p \in Dirs THEN Real[p] ELSE NoPath

\* What the operand names: a directory under CDPATH goes before the operand
\* itself, and a variable's value comes when the operand is no directory.
Target(operand) ==
  LET under == {i \in DOMAIN CdPath :
        operand.kind = "relative" /\ operand.name # ".."
          /\ Append(CdPath[i], operand.name) \in Dirs}
      found == IF under = {} THEN operand
               ELSE Absolute(Append(CdPath[CHOOSE i \in under : \A j \in under : i <= j],
                                    operand.name))
  IN  IF /\ Reach(found) = NoPath
         /\ found.kind = "relative" /\ found.name \in DOMAIN CdableVars
      THEN Absolute(CdableVars[found.name]) ELSE found

Operands ==
  {Absolute(p) : p \in Dirs \cup {Missing}} \cup {Relative(n) : n \in Names \cup {".."}}
    \cup (IF oldpwd = NoPath THEN {} ELSE {Absolute(oldpwd)})     \* cd -

Cd(operand, physical, redirected) ==
  LET target == Target(operand)
      newCwd == Reach(target)
      newPwd == IF physical THEN newCwd
                ELSE IF target.kind = "absolute" THEN target.path ELSE Join(pwd, target.name)
  IN  /\ redirected => outer = << >>      \* a bound: not in a subshell
      /\ newCwd # NoPath            \* else set_current_dir fails and nothing changes
      /\ Len(newPwd) <= MaxPath
      /\ cwd' = newCwd
      /\ oldpwd' = pwd
      /\ pwd' = newPwd
      /\ typed' = IF redirected THEN typed ELSE newPwd
      /\ unsynced' = redirected
      /\ strayed' = (~physical /\ target.kind = "relative"
                       /\ (strayed \/ (target.name = ".." /\ pwd # cwd)))
      /\ trail' = << >>
      /\ UNCHANGED <<stack, outer>>

\* A cd or stack builtin that fails, and dirs: no redirection, so the typed
\* variable is brought up to date all the same.
WithoutEffect ==
  /\ typed' = pwd /\ unsynced' = FALSE
  /\ UNCHANGED <<cwd, pwd, oldpwd, stack, outer, strayed, trail>>

-----------------------------------------------------------------------------
(* pushd, popd, dirs, DIRSTACK *)

\* load_stack: an empty stack shows PWD.
Loaded == IF stack = << >> THEN <<pwd>> ELSE stack

\* resolved_index, from 1: counted from the left or from the right.
Position(n, fromRight) == IF fromRight THEN Len(Loaded) - n ELSE n + 1

\* The end of the builtins: save_stack, PWD moved without the process, and
\* sync_cd_variables.
GoTo(dir, newOld, newStack) ==
  /\ pwd' = dir /\ typed' = dir
  /\ oldpwd' = newOld
  /\ stack' = newStack
  /\ strayed' = (strayed \/ dir # pwd)
  /\ unsynced' = FALSE
  /\ UNCHANGED <<cwd, outer>>

\* Builtins that save a stack and stay where they are.
Stay(newStack) ==
  /\ stack' = newStack
  /\ typed' = pwd /\ unsynced' = FALSE
  /\ trail' = << >>
  /\ UNCHANGED <<cwd, pwd, oldpwd, outer, strayed>>

PushdSwap ==
  /\ Len(Loaded) >= 2
  /\ GoTo(Loaded[2], pwd, <<Loaded[2], Loaded[1]>> \o SubSeq(Loaded, 3, Len(Loaded)))
  /\ trail' = << >>

\* With -n the stack is saved as it is, not rotated.
PushdIndex(n, fromRight, noCd) ==
  LET i == Position(n, fromRight)
      rotated == SubSeq(Loaded, i, Len(Loaded)) \o SubSeq(Loaded, 1, i - 1)
  IN  /\ i \in DOMAIN Loaded
      /\ IF noCd THEN Stay(Loaded)
         ELSE GoTo(rotated[1], pwd, rotated) /\ trail' = << >>

Exists_Unchecked(path) == Len(path) <= MaxPath

Exists(path) == path \in Dirs

\* A stack not saved yet holds PWD.
Pushed_OnSaved(dir) == <<dir>> \o stack

Pushed(dir) == <<dir>> \o Loaded

\* A relative operand is resolved against PWD, an unknown directory refused.
\* OLDPWD becomes the first entry of the stack, PWD or not.
PushdDir(operand, noCd) ==
  LET dir == IF operand.kind = "absolute" THEN operand.path ELSE Join(pwd, operand.name)
  IN  /\ Exists(dir)
      /\ Len(Loaded) < MaxStack
      /\ IF noCd THEN Stay(InsertAt(Loaded, 2, dir))
         ELSE /\ GoTo(dir, Loaded[1], Pushed(dir))
              /\ trail' = IF Loaded[1] = pwd THEN <<pwd>> \o trail ELSE << >>

PopdTop(noCd) ==
  /\ Len(Loaded) > 1
  /\ IF noCd THEN Stay(RemoveAt(Loaded, 2))
     ELSE /\ GoTo(Loaded[2], oldpwd, Tail(Loaded))
          /\ trail' = IF trail = << >> THEN << >> ELSE Tail(trail)

\* There is no test for a last entry here: popd +0 of it goes to the root.
PopdIndex(n, fromRight, noCd) ==
  LET i == Position(n, fromRight)
      rest == RemoveAt(Loaded, i)
  IN  /\ i \in DOMAIN Loaded
      /\ IF noCd THEN Stay(rest)
         ELSE /\ GoTo(IF rest = << >> THEN Root ELSE rest[1], oldpwd, rest)
              /\ trail' = << >>

DirsClear == Stay(<< >>)

\* DIRSTACK[n]=dir writes the stack and nothing else.
SetStackElement(i, dir) ==
  /\ i \in DOMAIN Loaded
  /\ stack' = ReplaceAt(Loaded, i, dir)
  /\ trail' = << >>
  /\ UNCHANGED <<cwd, pwd, typed, oldpwd, outer, strayed, unsynced>>

-----------------------------------------------------------------------------
(* What runs as a subshell, in the same process: a ( list ); a substitution   *)
(* or pipeline stage on a copy of the executor; a substitution run in place;  *)
(* a substitution that is a call of a function, in place. Each puts back      *)
(* env_vars, and not all of the rest.                                         *)

SubshellKinds == {"paren", "copy", "inplace", "function"}
PutsTypedBack_OnlyCopy == {"copy"}
PutsTypedBack == {"paren", "copy"}
PutsProcessBack_OnlyCopy == {"copy"}
PutsProcessBack == {"copy", "inplace"}

\* Bounds: one level, and a shell whose stores agree and whose stack is unset.
MayEnter == outer = << >> /\ stack = << >> /\ typed = pwd /\ ~strayed /\ ~unsynced

Enter(kind) ==
  /\ MayEnter
  /\ outer' = <<[kind |-> kind, cwd |-> cwd, pwd |-> pwd, typed |-> typed, oldpwd |-> oldpwd,
                 stack |-> stack, strayed |-> strayed, unsynced |-> unsynced]>>
  /\ trail' = << >>
  /\ UNCHANGED <<cwd, pwd, typed, oldpwd, stack, strayed, unsynced>>

Leave ==
  /\ outer # << >>
  /\ LET o == outer[1] IN
     /\ pwd' = o.pwd /\ oldpwd' = o.oldpwd /\ stack' = o.stack
     /\ typed' = IF o.kind \in PutsTypedBack THEN o.typed ELSE typed
     /\ cwd' = IF o.kind \in PutsProcessBack THEN o.cwd ELSE cwd
     /\ strayed' = (o.strayed \/ o.kind \in {"paren", "function"})
     /\ unsynced' = (o.unsynced \/ o.kind \in {"inplace", "function"})
  /\ outer' = << >>
  /\ trail' = << >>

-----------------------------------------------------------------------------
Index == 0..MaxStack

WdNext ==
  \/ \E o \in Operands, physical, redirected \in BOOLEAN : Cd(o, physical, redirected)
  \/ WithoutEffect
  \/ PushdSwap
  \/ \E n \in Index, fromRight, noCd \in BOOLEAN : PushdIndex(n, fromRight, noCd)
  \/ \E o \in Operands, noCd \in BOOLEAN : PushdDir(o, noCd)
  \/ \E noCd \in BOOLEAN : PopdTop(noCd)
  \/ \E n \in Index, fromRight, noCd \in BOOLEAN : PopdIndex(n, fromRight, noCd)
  \/ DirsClear
  \/ \E i \in 1..MaxStack, d \in Dirs : SetStackElement(i, d)
  \/ \E kind \in SubshellKinds : Enter(kind)
  \/ Leave

WdSpec == WdInit /\ [][WdNext]_wdVars

-----------------------------------------------------------------------------
(* Properties *)

\* The process is in the directory PWD names, unless pushd or popd moved PWD
\* without it, ".." was taken under a link, or a subshell that cd'ed did not
\* put the process back: every absolute cd brings them together again.
StrayHasCause == ~strayed => pwd \in Dirs /\ cwd = Real[pwd]

\* Expansions of $PWD see the PWD the builtins keep, unless a cd with a
\* redirection or a substitution run in place left the typed variable behind;
\* every other builtin of directories, failing ones too, repairs it.
UnsyncedHasCause == ~unsynced => typed = pwd

\* $PWD is what cd made PWD: a test of cd with its output redirected reads
\* $PWD afterwards and expects the new directory.
TypedPwdIsPwd == outer = << >> => typed = pwd

\* Every pushd that left a directory can be undone by a popd: the directories
\* left are on the stack in the order of the pushds, under the current one,
\* as long as only pushd and popd move.
TrailOnStack ==
  trail # << >> =>
    /\ Loaded[1] = pwd
    /\ \A i \in DOMAIN trail : i + 1 \in DOMAIN Loaded /\ Loaded[i + 1] = trail[i]

\* PWD, what $PWD expands to, the directory of the process and the stack agree but
\* for these causes: WdTypeOK and the three invariants above.
DirectoriesAgree == WdTypeOK /\ StrayHasCause /\ UnsyncedHasCause /\ TrailOnStack

\* A stack builtin goes to a directory that was named or on the stack; only a
\* popd of the one entry left goes to the root.
StackMovesOnStack ==
  [][pwd' # pwd /\ stack' # stack /\ outer' = outer =>
       pwd' \in Dirs \cup ToSet(Loaded) /\ (stack' = << >> => pwd' = Root)]_wdVars
=============================================================================
