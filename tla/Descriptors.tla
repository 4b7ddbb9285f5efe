----------------------------- MODULE Descriptors -----------------------------
(* The descriptors of the shell: FdTable, its mirror in env_vars, the pipes   *)
(* of a coprocess, and the redirections that outlive a simple command: those  *)
(* of exec, those with a variable ({v}>f), those of compound commands.        *)
(*                                                                            *)
(* shell is what the code keeps; promised is what OpenFiles says it should    *)
(* amount to. departed collects the ways the code is known to part from the   *)
(* promise: a behaviour is followed up to its first departure.                *)
EXTENDS Integers, Sequences, FiniteSets, FiniteSetsExt, Functions, OpenFiles

CONSTANTS
  Fds,       \* descriptors: 1, 2, numbers a script writes, numbers the shell allots
  Numbered,  \* those that scripts name in redirections
  FeatureSets,   \* sets of Features; a script uses those of one
  MaxOpens, MaxScopes   \* bounds: files opened, compound commands at once

Dynamic == {fd \in Fds : fd >= 10}       \* 10..1023 in the code

ASSUME DescriptorsAssumption ==
  /\ Fds \subseteq Nat /\ Numbered \subseteq Fds /\ Dynamic # {}
  /\ MaxOpens \in Nat /\ MaxScopes \in Nat \ {0}

Names == {"v", "r", "COPROC0", "COPROC1"}   \* "r" is readonly
CoprocIn == <<"coproc stdin">>
CoprocOut == <<"coproc stdout">>
Features == {"in", "out", "rw", "psub", "copy", "close", "exec", "command", "compound",
             "subshell", "coproc", "nested"}
Plain == <<"plain">>       \* an output mirrored without a process substitution
Unset == 0

VARIABLES
  shell,     \* [table, mirror, shut, var, writer, reader, ran], see Start
  scopes,    \* what with_command_input_redirects and ( ) will put back
  coproc,    \* "none", "running", "ended"
  features,  \* one of FeatureSets
  opened,    \* history: what was opened, to tell the files apart
  promised,  \* OpenFiles
  departed   \* causes

dVars == <<shell, scopes, coproc, features, opened, promised, departed>>

Start == [
  table |-> [fd \in Fds |-> CASE fd = 1 -> [read |-> None, write |-> <<"stdout">>]
                              [] fd = 2 -> [read |-> None, write |-> <<"stderr">>]
                              [] OTHER -> NoFile],
  mirror |-> [fd \in Fds |-> None],  \* __RUBASH_FD_OUTPUT_n, with the psub's command
  shut |-> {},                       \* __RUBASH_FD_CLOSED_n
  var |-> [name \in Names |-> Unset],
  writer |-> FALSE, reader |-> FALSE,  \* coproc_stdin_writers, coproc_stdout_readers
  ran |-> [n \in 1..MaxOpens |-> 0]]   \* runs of an output process substitution

DescriptorsInit ==
  /\ shell = Start /\ scopes = << >> /\ coproc = "none" /\ opened = << >>
  /\ promised = [files |-> Start.table, scopes |-> << >>]
  /\ departed = {}
  /\ features \in FeatureSets

-----------------------------------------------------------------------------
(* FdTable and the executor's wrappers round it, from shell to shell. An      *)
(* entry with neither side is a closed one.                                   *)

Open(s, fd, side) == s.table[fd][side] # None

OpenInput(s, fd, end) == [[s EXCEPT !.table[fd].read = end] EXCEPT !.shut = @ \ {fd}]

\* The mirror of what was opened, and of the end itself.
OpenOutputAsIs(s, fd, end) ==
  [[[s EXCEPT !.table[fd].write = end] EXCEPT !.shut = @ \ {fd}] EXCEPT !.mirror[fd] = end]

OpenOutput(s, fd, end) ==
  [[[s EXCEPT !.table[fd].write = end] EXCEPT !.shut = @ \ {fd}]
     EXCEPT !.mirror[fd] = IF end[1] = "psub" THEN end ELSE Plain]

\* The pipe goes with the first descriptor, or with the last.
CoprocSideClosedAtOnce(s, fd, side, pipe) == [s EXCEPT ![pipe] = FALSE]

\* mark_coproc_array_endpoint_closed, and the pipe closed with its last descriptor.
CoprocSideClosed(s, fd, side, pipe) ==
  [[s EXCEPT !.var = [name \in Names |->
       IF name \in {"COPROC0", "COPROC1"} /\ @[name] = fd THEN Unset ELSE @[name]]]
     EXCEPT ![pipe] = @ /\ \E f \in Fds :
       s.table[f][side] = IF side = "write" THEN CoprocIn ELSE CoprocOut]

CloseOutputMirrored(s, fd) ==
  LET m == s.mirror[fd]
      run == IF m[1] = "psub" THEN [s EXCEPT !.ran[m[2]] = @ + 1] ELSE s
  IN  [run EXCEPT !.table[fd].write = None]

\* The command of a process substitution runs on what was written, whenever a
\* descriptor mirrored with it is closed.
CloseOutput(s, fd) ==
  LET side == [s EXCEPT !.table[fd].write = None]
      pipe == IF s.table[fd].write = CoprocIn
              THEN CoprocSideClosed(side, fd, "write", "writer") ELSE side
      m == s.mirror[fd]
      run == IF m[1] = "psub" THEN [pipe EXCEPT !.ran[m[2]] = @ + 1] ELSE pipe
  IN  [run EXCEPT !.mirror[fd] = None]

CloseInput(s, fd) ==
  LET side == [s EXCEPT !.table[fd].read = None]
  IN  IF s.table[fd].read = CoprocOut
      THEN CoprocSideClosed(side, fd, "read", "reader") ELSE side

MarkShut(s, fd) == [s EXCEPT !.shut = @ \cup {fd}]

\* close_persistent_fd. An error of the substituted command leaves once the
\* output side is done: the input side stays as it is, and no mark is set.
CloseBoth(s, fd, fails) ==
  LET out == CloseOutput(s, fd)
  IN  IF fails THEN out ELSE MarkShut(CloseInput(out, fd), fd)

\* Whether the command fails that closing the output side runs, if there is one.
Failures(s, fd) == IF s.mirror[fd][1] = "psub" THEN BOOLEAN ELSE {FALSE}

\* copy_persistent_output_fd: when the source is not open for writing, the
\* marks left in env_vars decide what becomes of the target.
CopyOutput(s, fd, source) ==
  LET end == s.table[source].write
      own == s.table[fd].write
      ready == IF fd # source /\ own[1] = "psub" /\ own # end THEN CloseOutput(s, fd) ELSE s
      mirrored(m) == [[s EXCEPT !.mirror[fd] = m] EXCEPT !.shut = @ \ {fd}]
  IN  IF end # None THEN OpenOutput(ready, fd, end)
      ELSE IF source \in s.shut THEN MarkShut(CloseOutput(s, fd), fd)
      ELSE IF s.mirror[source] # None THEN mirrored(s.mirror[source])
      ELSE IF source \in {1, 2} THEN mirrored(Plain)
      ELSE [CloseOutput(s, fd) EXCEPT !.shut = @ \ {fd}]

CopyInput(s, fd, source) ==
  IF Open(s, source, "read") THEN OpenInput(s, fd, s.table[source].read) ELSE CloseInput(s, fd)

Copy(s, fd, side, source) ==
  IF side = "read" THEN CopyInput(s, fd, source) ELSE CopyOutput(s, fd, source)

\* A descriptor is free when neither side is open; or when it is not read from.
FreeForReading(s) == {fd \in Dynamic : s.table[fd].read = None}

Free(s) == {fd \in Dynamic : s.table[fd] = NoFile}

\* allocate_dynamic: the lowest free one; when none is, the first, in use or not.
Allocated(s) == IF Free(s) = {} THEN Min(Dynamic) ELSE Min(Free(s))

-----------------------------------------------------------------------------
(* Departures *)

If(condition, cause) == IF condition THEN {cause} ELSE {}

\* An end that only a close should take away is written over.
Overwrites(s, fd, side) == s.table[fd][side][1] \in {"psub", "coproc stdin", "coproc stdout"}

\* The source is not open, and what the mirror still has of it is believed.
BelievesMirror(s, source) ==
  ~Open(s, source, "write") /\ source \notin s.shut
    /\ (s.mirror[source] # None \/ source \in {1, 2})

\* An end that a running compound command will put back is on no descriptor.
OnlySaved(s, p) ==
  \E i \in DOMAIN p.scopes : \E fd \in DOMAIN p.scopes[i] : \E side \in {"read", "write"} :
    LET end == p.scopes[i][fd][side]
    IN  end[1] \in {"psub", "coproc stdin", "coproc stdout"}
          /\ \A f \in Fds : s.table[f][side] # end

Becomes(s, p, causes) ==
  /\ shell' = s /\ promised' = p
  /\ departed' = causes \cup If(OnlySaved(s, p), "only saved")

\* The command of a process substitution failed, and half a descriptor is left.
LeftBehind(s, fd, fails) == If(fails /\ Open(s, fd, "read"), "failed")

NewFile(kind) == Len(opened) < MaxOpens /\ opened' = Append(opened, kind)
This == Len(opened) + 1
File == <<"file", This>>
Text == <<"text", This>>
Psub == <<"psub", This>>

Sides(kind) ==
  CASE kind = "in" -> [read |-> Text, write |-> None]
    [] kind = "out" -> [read |-> None, write |-> File]
    [] kind = "rw" -> [read |-> Text, write |-> File]
    [] kind = "psub" -> [read |-> None, write |-> Psub]

OpenBoth(s, fd, sides) ==
  LET in == IF sides.read = None THEN s ELSE OpenInput(s, fd, sides.read)
  IN  IF sides.write = None THEN in ELSE OpenOutput(in, fd, sides.write)

PromiseBoth(p, fd, sides) ==
  LET in == IF sides.read = None THEN p ELSE SetSide(p, fd, "read", sides.read)
  IN  IF sides.write = None THEN in ELSE SetSide(in, fd, "write", sides.write)

OverwritesAny(s, fd, sides) ==
  \E side \in {"read", "write"} : sides[side] # None /\ Overwrites(s, fd, side)

-----------------------------------------------------------------------------
(* exec with redirections only: execute_stdio_only_exec_redirect, one         *)
(* redirection at a time                                                      *)

\* exec 3<f, 3>f, 3<>f, 3> >(cmd). 3<>f opens the output side without its mirror.
ExecOpen(kind, fd) ==
  LET opens == OpenBoth(shell, fd, Sides(kind)) IN
  /\ NewFile(kind)
  /\ Becomes(IF kind = "rw" THEN [opens EXCEPT !.mirror[fd] = shell.mirror[fd]] ELSE opens,
             PromiseBoth(promised, fd, Sides(kind)),
             If(OverwritesAny(shell, fd, Sides(kind)), "overwritten"))
  /\ UNCHANGED <<scopes, coproc>>

\* exec 3>&4, 3<&4, 3>&4-, 3<&4-. An input copy of what is not open is skipped.
ExecCopy(fd, side, source, move) ==
  LET copy == Copy(shell, fd, side, source)
      skipped == side = "read" /\ ~Open(shell, source, side)
      closed == IF side = "read" THEN CloseInput(copy, source) ELSE CloseOutput(copy, source)
  IN
  /\ fd # source
  /\ IF skipped THEN Becomes(shell, promised, {})
     ELSE Becomes(IF move THEN closed ELSE copy,
                  Copied(promised, fd, side, source, move),
                  If(shell.table[fd][side] # shell.table[source][side]
                       /\ shell.table[fd][side] \in {CoprocIn, CoprocOut}, "overwritten")
                    \cup If(side = "write" /\ BelievesMirror(shell, source), "mirror")
                    \cup If(shell.table[source][side][1] = "psub", "psub copied"))
  /\ UNCHANGED <<scopes, coproc, opened>>

\* exec 3>&-, 3<&-
ExecClose(fd, side) ==
  LET closed == IF side = "read" THEN CloseInput(shell, fd) ELSE CloseOutput(shell, fd) IN
  /\ \E fails \in IF side = "read" THEN {FALSE} ELSE Failures(shell, fd) :
       Becomes(IF fails THEN closed ELSE MarkShut(closed, fd),
               SetSide(promised, fd, side, None), {})
  /\ UNCHANGED <<scopes, coproc, opened>>

-----------------------------------------------------------------------------
(* Redirections with a variable, of exec (execute_dynamic_fd_exec_redirect)   *)
(* and of other commands (execute_dynamic_fd_var_redirect)                    *)

SetVar(s, name, fd) == [s EXCEPT !.var[name] = fd]

\* Of a readonly variable, exec allots and opens a process substitution before
\* it finds the variable is readonly; the rest is refused in time.
\* varredir_close closes at once what a command opened.
VarOpen(name, kind, by, autoClose) ==
  LET fd == Allocated(shell)
      opens == OpenBoth(shell, fd, Sides(kind))
      named == SetVar(opens, name, fd)
      full == If(Free(shell) = {}, "full")
  IN
  /\ autoClose => by = "command"
  /\ NewFile(IF name = "r" THEN "refused" ELSE kind)
  /\ IF name = "r"
     THEN IF by = "exec" /\ kind = "psub"
          THEN Becomes(opens, promised, {"readonly"})
          ELSE Becomes(shell, promised, {})
     ELSE IF autoClose
     THEN \E fails \in Failures(named, fd) :
            Becomes(CloseBoth(named, fd, fails), promised, full \cup LeftBehind(named, fd, fails))
     ELSE Becomes(named, PromiseBoth(promised, fd, Sides(kind)), full)
  /\ UNCHANGED <<scopes, coproc>>

\* {v}>&4 and {v}>&4-. A command leaves at once when there is nothing to copy;
\* exec allots and copies, then looks at the variable, and closes both sides of
\* what it moves, whether they were copied or not.
VarCopy(name, side, source, move, by) ==
  LET fd == Allocated(shell)
      copy == Copy(shell, fd, side, source)
      named == SetVar(copy, name, fd)
      moved(fails) == IF by = "exec" THEN CloseBoth(named, source, fails)
                      ELSE IF side = "read" THEN CloseInput(named, source)
                      ELSE CloseOutput(named, source)
      other == IF side = "read" THEN "write" ELSE "read"
  IN
  /\ by = "command" => Open(shell, source, side)
  /\ IF name = "r"
     THEN IF by = "exec" THEN Becomes(copy, promised, {"readonly"})
          ELSE Becomes(shell, promised, {})
     ELSE \E fails \in Failures(named, source) :
          Becomes(IF move THEN moved(fails) ELSE named,
                  Copied(promised, fd, side, source, move),
                  If(Free(shell) = {}, "full")
                    \cup If(side = "write" /\ BelievesMirror(shell, source), "mirror")
                    \cup If(shell.table[source][side][1] = "psub", "psub copied")
                    \cup If(move /\ by = "exec" /\ Open(shell, source, other), "half"))
  /\ UNCHANGED <<scopes, coproc, opened>>

\* {v}<&- and {v}>&- release the descriptor; {v}<&- of a command other than exec
\* leaves its output side open.
VarClose(name, side, by) ==
  LET fd == shell.var[name]
      input == CloseInput(shell, fd)
      half == Open(shell, fd, "write")
  IN
  /\ fd # Unset
  /\ IF side = "read" /\ by = "command"
     THEN Becomes(IF half THEN input ELSE MarkShut(input, fd), Shut(promised, fd), If(half, "half"))
     ELSE \E fails \in Failures(shell, fd) :
            Becomes(CloseBoth(shell, fd, fails), Shut(promised, fd), LeftBehind(shell, fd, fails))
  /\ UNCHANGED <<scopes, coproc, opened>>

-----------------------------------------------------------------------------
(* Compound commands: with_command_input_redirects. Redirections with a       *)
(* variable come first, numbered inputs after; an error leaves at once.       *)

Redirections ==
  {[op |-> "var", name |-> name] : name \in {"v", "r"}}
    \cup {[op |-> op, fd |-> fd] : op \in {"in", "rw", "missing"}, fd \in Numbered \ {1, 2}}

\* The sides that redirections gave, the later over the earlier.
Merged(opens, fd, sides) ==
  [f \in DOMAIN opens \cup {fd} |->
     IF f # fd THEN opens[f]
     ELSE [side \in {"read", "write"} |->
            IF sides[side] = None /\ fd \in DOMAIN opens THEN opens[fd][side] ELSE sides[side]]]

\* An entry is saved once, with its closed mark.
SavedToo(saved, fd, s) ==
  IF fd \in DOMAIN saved THEN saved
  ELSE [f \in DOMAIN saved \cup {fd} |->
          IF f = fd THEN [entry |-> s.table[fd], shut |-> fd \in s.shut] ELSE saved[f]]

\* Redirections, one after the other: what is open, what will be put back.
Redirected(acc, r) ==
  IF acc.failed THEN acc
  ELSE IF r.op = "missing" \/ (r.op = "var" /\ r.name = "r") THEN [acc EXCEPT !.failed = TRUE]
  ELSE LET fd == IF r.op = "var" THEN Allocated(acc.s) ELSE r.fd
           sides == Sides(IF r.op = "var" THEN "in" ELSE r.op)
           opens == OpenBoth(acc.s, fd, sides)
       IN  [acc EXCEPT !.s = IF r.op = "var" THEN SetVar(opens, r.name, fd) ELSE opens,
              !.names = IF r.op = "var" THEN Append(@, r.name) ELSE @,
              !.saved = IF r.op = "var" THEN @ ELSE SavedToo(@, fd, acc.s),
              !.opens = Merged(@, fd, sides),
              !.causes = @ \cup If(r.op = "var" /\ Free(acc.s) = {}, "full")
                            \cup If(OverwritesAny(acc.s, fd, sides), "overwritten")]

MayNest == Len(scopes) < IF "nested" \in features THEN MaxScopes ELSE 1

\* Bound: one or two redirections, all of one file.
RedirectionLists ==
  {l \in UNION {[1..n -> Redirections] : n \in {1, 2}} : IsInjective(l)}

\* Those with a variable come first.
VariablesFirst(list) ==
  IF Len(list) = 2 /\ list[1].op # "var" /\ list[2].op = "var"
  THEN <<list[2], list[1]>> ELSE list

EnterCompound(list) ==
  LET order == VariablesFirst(list)
      start == [s |-> shell, names |-> << >>, saved |-> << >>, opens |-> << >>,
                causes |-> {}, failed |-> FALSE]
      first == Redirected(start, order[1])
      acc == IF Len(order) = 1 THEN first ELSE Redirected(first, order[2])
  IN
  /\ MayNest
  /\ NewFile("in")
  /\ IF acc.failed
     THEN /\ Becomes(acc.s, promised, If(acc.s # shell, "partial"))
          /\ UNCHANGED scopes
     ELSE /\ Becomes(acc.s, Entered(promised, acc.opens), acc.causes)
          /\ scopes' = <<[kind |-> "compound", names |-> acc.names, saved |-> acc.saved,
                          var |-> acc.s.var]>> \o scopes
  /\ UNCHANGED coproc

\* What is put back: the entries and the closed marks, not the mirrors.
PutBack(s, saved) ==
  [s EXCEPT !.table = [fd \in Fds |-> IF fd \in DOMAIN saved THEN saved[fd].entry ELSE @[fd]],
            !.shut = {fd \in Fds : IF fd \in DOMAIN saved THEN saved[fd].shut ELSE fd \in @}]

\* The descriptors the variables hold by now are closed (of one variable: r is refused).
LeaveCompound ==
  LET sc == scopes[1]
      back == PutBack(shell, sc.saved)
      last == IF sc.names = << >> THEN Unset ELSE back.var[sc.names[1]]
      dangling == \E fd \in DOMAIN sc.saved :
        (sc.saved[fd].entry.write = CoprocIn /\ ~shell.writer)
          \/ (sc.saved[fd].entry.read = CoprocOut /\ ~shell.reader)
      covers == \E fd \in DOMAIN sc.saved : \E side \in {"read", "write"} :
        Overwrites(shell, fd, side) /\ shell.table[fd][side] # sc.saved[fd].entry[side]
  IN
  /\ scopes # << >> /\ sc.kind = "compound"
  /\ \E fails \in IF last = Unset THEN {FALSE} ELSE Failures(back, last) :
       Becomes(IF last = Unset THEN back ELSE CloseBoth(back, last, fails), Left(promised),
               If(\E name \in Range(sc.names) : shell.var[name] # sc.var[name], "renamed")
                 \cup If(dangling, "dangling") \cup If(covers, "overwritten")
                 \cup (IF last = Unset THEN {} ELSE LeftBehind(back, last, fails)))
  /\ scopes' = Tail(scopes)
  /\ UNCHANGED <<coproc, opened>>

\* ( list ) puts back env_vars, where the mirror and the variables are, and not
\* the table. The promise is that it puts back everything.
EnterSubshell ==
  /\ MayNest
  /\ scopes' = <<[kind |-> "subshell", shell |-> shell]>> \o scopes
  /\ Becomes(shell, [promised EXCEPT !.scopes = <<promised.files>> \o @], {})
  /\ UNCHANGED <<coproc, opened>>

LeaveSubshell ==
  LET sc == scopes[1] IN
  /\ scopes # << >> /\ sc.kind = "subshell"
  /\ Becomes([shell EXCEPT !.mirror = sc.shell.mirror, !.shut = sc.shell.shut,
                           !.var = sc.shell.var],
             Left(promised), If(shell.table # sc.shell.table, "subshell"))
  /\ scopes' = Tail(scopes)
  /\ UNCHANGED <<coproc, opened>>

-----------------------------------------------------------------------------
(* A coprocess *)

StartCoproc ==
  LET in == Allocated(shell)
      read == [shell EXCEPT !.table[in].read = CoprocOut]   \* its marks stay as they are
      out == Allocated(read)
      both == [read EXCEPT !.table[out].write = CoprocIn]
  IN
  /\ coproc = "none" /\ coproc' = "running"
  /\ Becomes([SetVar(SetVar(both, "COPROC0", in), "COPROC1", out)
                EXCEPT !.writer = TRUE, !.reader = TRUE],
             SetSide(SetSide(promised, in, "read", CoprocOut), out, "write", CoprocIn),
             If(Cardinality(Free(shell)) < 2, "full"))
  /\ UNCHANGED <<scopes, opened>>

CoprocEnds ==
  /\ coproc = "running" /\ coproc' = "ended"
  /\ UNCHANGED <<shell, scopes, opened, promised, departed>>

\* read -u meets the end of the coprocess's output: the pipe goes, and the
\* reading side of the one descriptor that was read from.
ReadToEnd(fd) ==
  /\ coproc = "ended" /\ shell.reader /\ shell.table[fd].read = CoprocOut
  /\ Becomes([[shell EXCEPT !.table[fd].read = None] EXCEPT !.reader = FALSE],
             SetSide(promised, fd, "read", None),
             If(\E f \in Fds \ {fd} : shell.table[f].read = CoprocOut, "alias"))
  /\ UNCHANGED <<scopes, coproc, opened>>

\* read -u 0, or -u with the coprocess's pid, takes the pipe as well: it goes,
\* and no descriptor is closed that was not the one read.
ReadToEndThrough0 ==
  /\ coproc = "ended" /\ shell.reader
  /\ Becomes([shell EXCEPT !.reader = FALSE], promised, {"through 0"})
  /\ UNCHANGED <<scopes, coproc, opened>>

\* retire_completed_coproc, at a command boundary.
HasCoprocEnd(fd) == CoprocIn = shell.table[fd].write \/ CoprocOut = shell.table[fd].read

RetireCoproc ==
  LET ends == {fd \in Fds : HasCoprocEnd(fd)}
      other(fd) == shell.table[fd].read \notin {None, CoprocOut}
                     \/ shell.table[fd].write \notin {None, CoprocIn}
  IN
  /\ coproc = "ended" /\ (shell.writer \/ shell.reader \/ ends # {})
  /\ coproc' = "gone"
  /\ Becomes([shell EXCEPT
                !.writer = FALSE, !.reader = FALSE,
                !.table = [fd \in Fds |-> IF fd \in ends THEN NoFile ELSE @[fd]],
                !.mirror = [fd \in Fds |-> IF fd \in ends THEN None ELSE @[fd]],
                !.shut = @ \cup ends,
                !.var = [name \in Names |->
                          IF name \in {"COPROC0", "COPROC1"} THEN Unset ELSE @[name]]],
             Gone(promised, {CoprocIn, CoprocOut}),
             If(\E fd \in ends : other(fd), "half"))
  /\ UNCHANGED <<scopes, opened>>

\* forget_background_runtime, after a wait for the coprocess: the pipes go, the
\* descriptors stay.
ForgetCoproc ==
  /\ coproc = "ended" /\ coproc' = "gone"
  /\ Becomes([shell EXCEPT !.writer = FALSE, !.reader = FALSE], promised,
             If(\E fd \in Fds : HasCoprocEnd(fd), "forgotten"))
  /\ UNCHANGED <<scopes, opened>>

-----------------------------------------------------------------------------
Followed == departed = {} /\ UNCHANGED features
Uses(set) == Followed /\ set \subseteq features
By == features \cap {"exec", "command"}
Kinds == features \cap {"in", "out", "rw", "psub"}
SideNames == {"read", "write"}

DescriptorsNext ==
  \/ Uses({"exec"}) /\ \E kind \in Kinds, fd \in Numbered : ExecOpen(kind, fd)
  \/ Uses({"exec", "copy"}) /\ \E fd, source \in Fds, side \in SideNames, move \in BOOLEAN :
       ExecCopy(fd, side, source, move)
  \/ Uses({"exec", "close"}) /\ \E fd \in Fds, side \in SideNames : ExecClose(fd, side)
  \/ Uses({"command"}) /\ \E name \in {"v", "r"}, kind \in Kinds \ {"rw"}, by \in By, auto \in BOOLEAN :
       VarOpen(name, kind, by, auto)
  \/ Uses({"command", "copy"}) /\ \E name \in {"v", "r"}, side \in SideNames, source \in Fds,
                                move \in BOOLEAN, by \in By : VarCopy(name, side, source, move, by)
  \/ Uses({"command", "close"}) /\ \E name \in Names \ {"r"}, side \in SideNames, by \in By :
       VarClose(name, side, by)
  \/ Uses({"compound"}) /\ \E list \in RedirectionLists : EnterCompound(list)
  \/ Followed /\ LeaveCompound
  \/ Uses({"subshell"}) /\ EnterSubshell
  \/ Followed /\ LeaveSubshell
  \/ Uses({"coproc"}) /\ StartCoproc
  \/ Followed /\ CoprocEnds
  \/ Followed /\ \E fd \in Fds : ReadToEnd(fd)
  \/ Followed /\ ReadToEndThrough0
  \/ Followed /\ RetireCoproc
  \/ Followed /\ ForgetCoproc

DescriptorsSpec == DescriptorsInit /\ [][DescriptorsNext]_dVars

-----------------------------------------------------------------------------
(* Properties *)

\* Descriptors lead to what was opened; mirrors are of two kinds.
Ends == {None, <<"stdout">>, <<"stderr">>, CoprocIn, CoprocOut}
          \cup {"file", "text", "psub"} \X (1..MaxOpens)

DescriptorsTypeOK ==
  /\ \A fd \in Fds : shell.table[fd] \in [read : Ends, write : Ends]
  /\ \A fd \in Fds : shell.mirror[fd] \in {None, Plain} \cup ({"psub"} \X (1..MaxOpens))
  /\ shell.shut \subseteq Fds
  /\ \A name \in Names : shell.var[name] \in Fds \cup {Unset}
  /\ Len(scopes) <= MaxScopes /\ Len(opened) <= MaxOpens

\* Whatever exec, redirections with variables and compound commands in any
\* nesting did, a descriptor leads where the promise says: redirections of exec
\* last, those of a compound command are undone, one allotted takes the place
\* of none in use.
DescriptorsAsPromised == departed = {} => shell.table = promised.files

\* The shell holds the coprocess's pipes exactly as long as a descriptor leads
\* to them, now or when a compound command ends: otherwise the coprocess never
\* sees the end of its input, or a descriptor that looks open cannot be used.
CoprocPipesReachable ==
  departed = {} =>
    /\ shell.writer <=> Reachable(promised, CoprocIn)
    /\ shell.reader <=> Reachable(promised, CoprocOut)

\* The command of an output process substitution runs once, when its last
\* descriptor is closed.
SubstitutionsRunOnce ==
  departed = {} => \A n \in DOMAIN opened : opened[n] = "psub" =>
    shell.ran[n] = IF Reachable(promised, <<"psub", n>>) THEN 0 ELSE 1

\* The table has what the promise has in it, and nothing of no kind; what its
\* descriptors keep open is open, and the rest closed.
DescriptorsSound ==
  DescriptorsTypeOK /\ DescriptorsAsPromised /\ CoprocPipesReachable /\ SubstitutionsRunOnce
=============================================================================
