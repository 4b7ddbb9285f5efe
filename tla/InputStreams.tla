----------------------------- MODULE InputStreams -----------------------------
(* Where read and mapfile take their text from, and how far they leave it.    *)
(* A stream is what one open file has to give; descriptors that share it      *)
(* share its position. The shell has three places for the text of descriptor   *)
(* 0: its table, FUNCTION_STDIN with an offset (compound commands, function   *)
(* calls), and the process's own input.                                       *)
(*                                                                            *)
(* streams is what the code keeps, due what the redirections of the script    *)
(* promise. parted collects the ways the code is known to part from the       *)
(* promise: a behaviour is followed up to its first departure.                *)
EXTENDS Integers, Sequences, SequencesExt, FiniteSets

CONSTANTS
  Texts,         \* stream -> its characters: "x" any, "\n", "\\"
  MaxNesting,    \* bound: compound commands and calls at once
  MaxCommands    \* bound: redirections, scopes and reads of a script

\* zero, three: opened by exec on 0 and on 3. loop: of a compound command. call:
\* of a function call. pipe: a coprocess. own: of the read command itself.
Streams == {"zero", "three", "loop", "call", "process", "pipe", "own"}
ASSUME TextsAssumption == DOMAIN Texts = Streams
\* A bound on the data: a line goes on at most twice, and with text.
ASSUME ContinuationAssumption ==
  \A s \in Streams :
    LET backslashes == {i \in DOMAIN Texts[s] : Texts[s][i] = "\\"}
    IN  /\ Cardinality(backslashes) <= 2
        /\ \A i \in backslashes :
             /\ i + 2 <= Len(Texts[s])
             /\ Texts[s][i + 1] = "\n" /\ Texts[s][i + 2] = "x"

Closed == "closed"
CoprocFd == 9        \* NAME[0], the pid in the code
FdNumbers == {0, 3, CoprocFd}
NoFunctionStdin == [stream |-> "none", start |-> 0, offset |-> 0]
NoLimit == [count |-> -1, exact |-> FALSE]

VARIABLES
  streams,     \* [table: what 0 and 3 read, function: FUNCTION_STDIN, at: positions,
             \*  reader: the coprocess's pipe is still held, saved, copied]
  due,       \* [fds, at, saved]
  inherit,   \* INHERIT_PROCESS_STDIN: not for an interactive shell
  commands,  \* how many have run
  delivered, \* what the last of them got: positions of a stream, status
  parted

isVars == <<streams, due, inherit, commands, delivered, parted>>
Got(stream, line, status) ==
  [from |-> IF status = 0 THEN stream ELSE "none",
   got |-> [k \in DOMAIN line |-> <<stream, line[k]>>], status |-> status]

InputStreamsInit ==
  /\ streams = [table |-> [fd \in FdNumbers |-> IF fd = 0 THEN "process" ELSE Closed],
              function |-> NoFunctionStdin, at |-> [s \in Streams |-> 0],
              reader |-> FALSE, saved |-> << >>, copied |-> FALSE]
  /\ due = [fds |-> [fd \in FdNumbers |-> IF fd = 0 THEN "process" ELSE Closed],
            at |-> [s \in Streams |-> 0], saved |-> << >>]
  /\ inherit \in BOOLEAN
  /\ commands = 0 /\ delivered = Got("process", << >>, 0) /\ parted = {}

-----------------------------------------------------------------------------
(* One record of a text, from the position after off: up to the delimiter, or *)
(* so many characters. exact counts delimiters as characters.                 *)

Unread(s, off) == Len(Texts[s]) - off
NewlineAfter(s, off) ==
  LET ends == {i \in (off + 1)..Len(Texts[s]) : Texts[s][i] = "\n"}
  IN  IF ends = {} THEN Len(Texts[s]) + 1 ELSE CHOOSE i \in ends : \A j \in ends : i <= j

Record(s, off, limit) ==
  LET end == IF limit.exact THEN Len(Texts[s]) + 1 ELSE NewlineAfter(s, off)
      full == limit.count >= 0 /\ off + limit.count < end
      last == IF full THEN off + limit.count ELSE end - 1
  IN  [line |-> [k \in 1..(last - off) |-> off + k],
       next |-> IF full \/ end > Len(Texts[s]) THEN last ELSE end,
       whole |-> full \/ end <= Len(Texts[s])]

-----------------------------------------------------------------------------
(* The code's sources. Each gives [some, stream, line, s: the streams after].*)

None_(s) == [some |-> FALSE, stream |-> "none", line |-> << >>, s |-> s]
Some_(stream, line, s) == [some |-> TRUE, stream |-> stream, line |-> line, s |-> s]

Moved(s, stream, r) == [s EXCEPT !.at[stream] = r.next]

\* The table's text is read and stays where it was.
FromText_NotMoved(s, stream, limit) ==
  IF Unread(stream, s.at[stream]) = 0 THEN None_(s)
  ELSE Some_(stream, Record(stream, s.at[stream], limit).line, s)

FromText(s, stream, limit) ==
  IF Unread(stream, s.at[stream]) = 0 THEN None_(s)
  ELSE LET r == Record(stream, s.at[stream], limit) IN Some_(stream, r.line, Moved(s, stream, r))

\* read_inherited_process_stdin: an empty line is taken and counts for nothing.
FromInherited(s, limit) ==
  LET r == Record("process", s.at["process"], limit)
  IN  IF ~inherit THEN None_(s)
      ELSE IF r.line = << >> THEN None_(Moved(s, "process", r))
      ELSE Some_("process", r.line, Moved(s, "process", r))

InTable(s, fd) == s.table[fd] \notin {Closed, "process", "pipe"}

\* read_virtual_fd_stdin
FromDescriptorTable(s, fd, limit) ==
  CASE s.table[fd] = "process" -> FromInherited(s, limit)
    [] InTable(s, fd) -> FromText(s, s.table[fd], limit)
    [] OTHER -> None_(s)

\* At the end of file the pipe goes, and the descriptor it was read through is
\* closed, if it leads to a coprocess itself.
PipeEnded(s, fd) ==
  [[s EXCEPT !.reader = FALSE] EXCEPT !.table[fd] = IF @ = "pipe" THEN Closed ELSE @]

\* The last line of a coprocess is dropped when it has no newline.
FromCoproc_WholeLines(s, fd, limit) ==
  IF ~s.reader \/ fd \notin {0, CoprocFd} THEN None_(s)
  ELSE LET r == Record("pipe", s.at["pipe"], limit)
           after == Moved(s, "pipe", r)
       IN  IF r.whole THEN Some_("pipe", r.line, after)
           ELSE None_(PipeEnded(after, fd))

\* read_coproc_stdout: descriptor 0 stands for any coprocess.
FromCoproc(s, fd, limit) ==
  IF ~s.reader \/ fd \notin {0, CoprocFd} THEN None_(s)
  ELSE LET r == Record("pipe", s.at["pipe"], limit)
           after == Moved(s, "pipe", r)
       IN  IF r.whole THEN Some_("pipe", r.line, after)
           ELSE IF r.line = << >> THEN None_(PipeEnded(after, fd))
           ELSE Some_("pipe", r.line, PipeEnded(after, fd))

\* read_function_stdin
FromFunction(s, limit) ==
  LET f == s.function
      r == Record(f.stream, f.offset, limit)
  IN  IF f = NoFunctionStdin \/ Unread(f.stream, f.offset) = 0 THEN None_(s)
      ELSE Some_(f.stream, r.line, [s EXCEPT !.function.offset = r.next])

\* The command's own file or here-document: from its start, every time.
FromOwn(s, limit) ==
  IF Texts["own"] = << >> THEN None_(s)
  ELSE Some_("own", Record("own", 0, limit).line, s)

\* read_input_for_command, as the sources it tries in turn. from is [kind, fd]
\* with kind u (-u fd), dup (<&fd), own, shut (<&-) or plain.
Sources(s, from) ==
  CASE from.kind = "own" -> <<"own">>
    [] from.kind = "shut" -> << >>
    [] from.kind \in {"u", "dup"} -> <<"coproc", "table">>
    [] from.kind = "plain" ->
         (IF InTable(s, 0) THEN <<"table">> ELSE << >>) \o
         (IF s.function # NoFunctionStdin THEN <<"function">>
          ELSE IF s.table[0] = Closed THEN << >> ELSE <<"table", "inherited">>)

FromSource(s, source, fd, limit) ==
  CASE source = "own" -> FromOwn(s, limit)
    [] source = "coproc" -> FromCoproc(s, fd, limit)
    [] source = "table" -> FromDescriptorTable(s, fd, limit)
    [] source = "function" -> FromFunction(s, limit)
    [] source = "inherited" -> FromInherited(s, limit)

ReadInput(s, from, limit) ==
  FoldLeft(LAMBDA r, source : IF r.some THEN r ELSE FromSource(r.s, source, from.fd, limit),
           None_(s), Sources(s, from))

\* continue_read_line_after_backslash: the next line comes from read_input
\* again, twice at most (ContinuationAssumption).
EndsInBackslash(r) == r.line # << >> /\ Texts[r.stream][Last(r.line)] = "\\"
JoinedWith(r, next) ==
  IF next.some THEN [next EXCEPT !.line = Front(r.line) \o @]
  ELSE [[r EXCEPT !.line = Front(@)] EXCEPT !.s = next.s]
Continued(first, from) ==
  FoldLeft(LAMBDA r, try : IF EndsInBackslash(r) THEN JoinedWith(r, ReadInput(r.s, from, NoLimit)) ELSE r,
           first, <<1, 2>>)

Available(s, fd) == (s.reader /\ fd \in {0, CoprocFd}) \/ s.table[fd] # Closed

Outcome(r, status) == [stream |-> r.stream, line |-> r.line, status |-> status, s |-> r.s]

\* read_stdin_until, when nothing else gave anything.
FromProcess(s, from, goesOn, limit) ==
  IF Unread("process", s.at["process"]) = 0 THEN Outcome(None_(s), 1)
  ELSE LET r == Record("process", s.at["process"], limit)
           line == Some_("process", r.line, Moved(s, "process", r))
       IN  Outcome(IF goesOn THEN Continued(line, from) ELSE line, 0)

\* What execute_read makes of the first answer.
Answered(first, from, goesOn, limit) ==
  IF first.some THEN Outcome(IF goesOn THEN Continued(first, from) ELSE first, 0)
  ELSE IF from.kind # "plain" \/ first.s.table[0] = Closed \/ first.s.function # NoFunctionStdin
  THEN Outcome(first, 1)
  ELSE FromProcess(first.s, from, goesOn, limit)

\* execute_read, from the checks of the descriptor on.
ReadCommand(s, from, raw, limit) ==
  IF from.kind \in {"u", "dup"} /\ ~Available(s, from.fd) THEN Outcome(None_(s), 1)
  ELSE IF limit.count = 0 THEN Outcome(None_(s), 0)
  ELSE Answered(ReadInput(s, from, limit), from, ~raw /\ limit = NoLimit, limit)

\* mapfile takes all there is and then drops what -n does not want.
LinesIn(s, positions) ==
  LET newlines == SelectSeq(positions, LAMBDA i : Texts[s][i] = "\n")
  IN  newlines
UpToLine(s, positions, n) ==
  LET ends == LinesIn(s, positions)
  IN  IF n = 0 \/ Len(ends) < n THEN positions
      ELSE SelectSeq(positions, LAMBDA i : i <= ends[n])
From(off, s) == [k \in 1..Unread(s, off) |-> off + k]

\* mapfile_input_for_command; the table's text and FUNCTION_STDIN are copied
\* without moving the position, the latter from its start.
MapfileCommand(s, from, count) ==
  LET All(stream, off, after) ==
        [stream |-> stream, line |-> UpToLine(stream, From(off, stream), count), status |-> 0, s |-> after]
      drained(stream) == [s EXCEPT !.at[stream] = Len(Texts[stream])]
      process == IF inherit THEN All("process", s.at["process"], drained("process"))
                 ELSE [stream |-> "none", line |-> << >>, status |-> 0, s |-> s]
  IN  CASE from.kind = "u" /\ s.table[from.fd] = Closed ->
             [stream |-> "none", line |-> << >>, status |-> 1, s |-> s]
        [] from.kind = "u" /\ s.table[from.fd] = "process" -> process
        [] from.kind = "u" /\ InTable(s, from.fd) ->
             All(s.table[from.fd], s.at[s.table[from.fd]], drained(s.table[from.fd]))
        [] from.kind = "u" -> [stream |-> "none", line |-> << >>, status |-> 0, s |-> s]
        [] from.kind = "own" -> All("own", 0, s)
        [] InTable(s, 0) -> All(s.table[0], s.at[s.table[0]], s)
        [] s.function # NoFunctionStdin /\ Unread(s.function.stream, s.function.start) > 0 ->
             All(s.function.stream, s.function.start, s)
        [] OTHER -> process

-----------------------------------------------------------------------------
(* What is promised: the innermost redirection's stream, from where the last  *)
(* reader left it.                                                            *)

SourceDue(from) ==
  CASE from.kind = "own" -> "own"
    [] from.kind = "shut" -> Closed
    [] from.kind \in {"u", "dup"} -> due.fds[from.fd]
    [] OTHER -> due.fds[0]

RECURSIVE JoinedDue(_, _, _)
JoinedDue(stream, off, raw) ==
  LET r == Record(stream, off, NoLimit)
  IN  IF raw \/ r.line = << >> \/ Texts[stream][Last(r.line)] # "\\" THEN r
      ELSE LET more == JoinedDue(stream, r.next, raw)
           IN  [more EXCEPT !.line = Front(r.line) \o @]

ReadDue(from, raw, limit) ==
  LET stream == SourceDue(from)
      off == IF stream = "own" THEN 0 ELSE due.at[stream]
      r == IF limit = NoLimit THEN JoinedDue(stream, off, raw) ELSE Record(stream, off, limit)
  IN  IF stream = Closed THEN [stream |-> "none", line |-> << >>, next |-> 0, status |-> 1]
      ELSE [stream |-> stream, line |-> r.line, next |-> r.next, status |-> IF r.whole THEN 0 ELSE 1]

MapfileDue(from, count) ==
  LET stream == SourceDue(from)
      off == IF stream = "own" THEN 0 ELSE due.at[stream]
      line == UpToLine(stream, From(off, stream), count)
  IN  IF stream = Closed THEN [stream |-> "none", line |-> << >>, next |-> 0, status |-> 1]
      ELSE [stream |-> stream, line |-> line, next |-> off + Len(line), status |-> 0]

DueAfter(d) ==
  IF d.stream \in {"none", "own"} THEN due ELSE [due EXCEPT !.at[d.stream] = d.next]

-----------------------------------------------------------------------------
(* Why a command may part from what is due.                                   *)

Behind(s) == InTable(s, 0) \/ s.table[0] = Closed
BlankTaken(before, after) ==     \* an empty line of the process's input
  \E i \in (before.at["process"] + 1)..after.at["process"] :
    Texts["process"][i] = "\n" /\ (i = 1 \/ i = before.at["process"] + 1 \/ Texts["process"][i - 1] = "\n")

Causes(from, d, after) ==
  (IF streams.copied THEN {"copied"} ELSE {}) \cup
  (IF from.kind = "plain" /\ Behind(streams) /\ due.saved # << >> THEN {"exec first"} ELSE {}) \cup
  (IF from.kind = "u" /\ from.fd = 0 /\ due.saved # << >> THEN {"table only"} ELSE {}) \cup
  (IF from.kind \in {"u", "dup"} /\ from.fd = 0 /\ streams.reader THEN {"any coprocess"} ELSE {}) \cup
  (IF from.kind = "plain" /\ InTable(streams, 0) /\ Unread(streams.table[0], streams.at[streams.table[0]]) = 0
   THEN {"read on"} ELSE {}) \cup
  (IF from.fd = CoprocFd /\ ~streams.reader /\ due.fds[CoprocFd] = "pipe" THEN {"ended"} ELSE {}) \cup
  (IF BlankTaken(streams, after) THEN {"blank"} ELSE {}) \cup
  (IF d.stream = "own" /\ \E i \in DOMAIN d.line : d.line[i] > NewlineAfter("own", 0)
   THEN {"own again"} ELSE {}) \cup
  (IF ~inherit /\ d.stream = "process" THEN {"not inherited"} ELSE {})

\* A last line without its delimiter is a success.
Unterminated(result, d) ==
  d.status = 1 /\ d.line # << >> /\ result.stream = d.stream /\ result.line = d.line

PartsBy(result, d, causes) ==
  IF Got(result.stream, result.line, result.status) = Got(d.stream, d.line, d.status) THEN {}
  ELSE IF Unterminated(result, d) THEN {"unterminated"}
  ELSE IF causes = {} THEN {"unexplained"} ELSE causes

\* NAME[0] stays open, though the pipe was read to its end through 0.
LeftOpen(s) == IF s.table[CoprocFd] = "pipe" /\ ~s.reader THEN {"left open"} ELSE {}

-----------------------------------------------------------------------------
Follow == parted = {} /\ commands < MaxCommands

\* exec <f, exec 3<f, at the top level; each once.
ExecOpenInput(fd, stream) ==
  /\ Follow /\ due.saved = << >>
  /\ stream \notin {streams.table[f] : f \in FdNumbers} /\ streams.at[stream] = 0
  /\ streams' = [streams EXCEPT !.table[fd] = stream]
  /\ due' = [due EXCEPT !.fds[fd] = stream]
  /\ commands' = commands + 1
  /\ UNCHANGED <<inherit, delivered, parted>>

\* exec 0<&3, exec 3<&0; exec <&- and exec 3<&- are copies of nothing.
ExecCopyInput(fd, source) ==
  /\ Follow /\ due.saved = << >> /\ streams.table[fd] # streams.table[source]
  /\ streams' = [streams EXCEPT !.table[fd] = streams.table[source]]
  /\ due' = [due EXCEPT !.fds[fd] = due.fds[source]]
  /\ commands' = commands + 1
  /\ UNCHANGED <<inherit, delivered, parted>>

ExecCloseInput(fd) ==
  /\ Follow /\ due.saved = << >> /\ streams.table[fd] # Closed
  /\ streams' = [streams EXCEPT !.table[fd] = Closed]
  /\ due' = [due EXCEPT !.fds[fd] = Closed]
  /\ commands' = commands + 1
  /\ UNCHANGED <<inherit, delivered, parted>>

StartPipe ==
  /\ Follow /\ ~streams.reader /\ streams.at["pipe"] = 0
  /\ streams' = [[streams EXCEPT !.reader = TRUE] EXCEPT !.table[CoprocFd] = "pipe"]
  /\ due' = [due EXCEPT !.fds[CoprocFd] = "pipe"]
  /\ commands' = commands + 1
  /\ UNCHANGED <<inherit, delivered, parted>>

EnterScope(function, stream, copied) ==
  /\ streams' = [[[streams EXCEPT !.saved = <<streams.function>> \o @] EXCEPT !.function = function]
                 EXCEPT !.copied = @ \/ copied]
  /\ due' = [[due EXCEPT !.saved = <<due.fds[0]>> \o @] EXCEPT !.fds[0] = stream]

\* while ...; done <f: a file nobody has open, read from its start.
OpenInScope(stream) == \E f \in {streams.function} \cup Range(streams.saved) : f.stream = stream

EnterLoop ==
  /\ Follow /\ Len(due.saved) < MaxNesting /\ ~OpenInScope("loop") /\ due.at["loop"] = 0
  /\ EnterScope([stream |-> "loop", start |-> 0, offset |-> 0], "loop", FALSE)
  /\ commands' = commands + 1
  /\ UNCHANGED <<inherit, delivered, parted>>

CallWithFile ==
  /\ Follow /\ Len(due.saved) < MaxNesting /\ ~OpenInScope("call") /\ due.at["call"] = 0
  /\ EnterScope([stream |-> "call", start |-> 0, offset |-> 0], "call", FALSE)
  /\ commands' = commands + 1
  /\ UNCHANGED <<inherit, delivered, parted>>

\* A call without a redirection: function_call_stdin copies what is left of the
\* table's text, or the whole of FUNCTION_STDIN.
CallHere ==
  /\ Follow /\ Len(due.saved) < MaxNesting
  /\ LET f == streams.function
         Suffix(stream, off) == [stream |-> stream, start |-> off, offset |-> off]
     IN  IF InTable(streams, 0)
         THEN EnterScope(Suffix(streams.table[0], streams.at[streams.table[0]]), due.fds[0], TRUE)
         ELSE IF f = NoFunctionStdin THEN EnterScope(f, due.fds[0], FALSE)
         ELSE IF Unread(f.stream, f.start) > 0 THEN EnterScope(Suffix(f.stream, f.start), due.fds[0], TRUE)
         ELSE EnterScope(Suffix(f.stream, f.offset), due.fds[0], TRUE)
  /\ commands' = commands + 1
  /\ UNCHANGED <<inherit, delivered, parted>>

LeaveScope ==
  /\ Follow /\ due.saved # << >>
  /\ streams' = [[streams EXCEPT !.function = Head(streams.saved)] EXCEPT !.saved = Tail(@)]
  /\ due' = [[due EXCEPT !.fds[0] = Head(due.saved)] EXCEPT !.saved = Tail(@)]
  /\ commands' = commands + 1
  /\ UNCHANGED <<inherit, delivered, parted>>

\* -n 0 reads nothing.
LineDue(from, raw, limit) ==
  IF limit.count # 0 THEN ReadDue(from, raw, limit)
  ELSE [stream |-> "none", line |-> << >>, next |-> 0,
        status |-> IF SourceDue(from) = Closed /\ from.kind \in {"u", "dup"} THEN 1 ELSE 0]

ReadLine(from, raw, limit) ==
  /\ Follow
  /\ \E result \in {ReadCommand(streams, from, raw, limit)}, d \in {LineDue(from, raw, limit)} :
       /\ streams' = result.s
       /\ due' = DueAfter(d)
       /\ delivered' = Got(result.stream, result.line, result.status)
       /\ parted' = PartsBy(result, d, Causes(from, d, result.s)) \cup LeftOpen(result.s)
  /\ commands' = commands + 1
  /\ UNCHANGED inherit

\* A copy of the table's text or of FUNCTION_STDIN leaves the text to be read
\* again.
LeftUnread(from, result, d) ==
  /\ d.stream \notin {"none", "own"}
  /\ IF from.kind = "plain" /\ (InTable(streams, 0) \/ streams.function # NoFunctionStdin)
     THEN d.line # << >> ELSE result.s.at[d.stream] # d.next

MapfileCauses(from, d) ==
  (IF from.kind = "plain" /\ streams.function # NoFunctionStdin THEN {"whole"} ELSE {}) \cup
  (IF SourceDue(from) = Closed THEN {"closed"} ELSE {}) \cup
  (IF d.stream = "pipe" THEN {"not a coprocess's"} ELSE {})

Mapfile(from, count) ==
  /\ Follow
  /\ \E result \in {MapfileCommand(streams, from, count)}, d \in {MapfileDue(from, count)} :
       /\ streams' = [result.s EXCEPT !.copied = @ \/ LeftUnread(from, result, d)]
       /\ due' = DueAfter(d)
       /\ delivered' = Got(result.stream, result.line, result.status)
       /\ parted' = PartsBy(result, d, Causes(from, d, result.s) \cup MapfileCauses(from, d))
  /\ commands' = commands + 1
  /\ UNCHANGED inherit

Froms == [kind : {"u"}, fd : FdNumbers] \cup [kind : {"dup"}, fd : {3}]
           \cup [kind : {"own", "shut", "plain"}, fd : {0}]
Limits == {NoLimit, [count |-> 0, exact |-> FALSE], [count |-> 1, exact |-> FALSE],
           [count |-> 2, exact |-> TRUE]}

InputStreamsNext ==
  \/ ExecOpenInput(0, "zero") \/ ExecOpenInput(3, "three")
  \/ ExecCopyInput(0, 3) \/ ExecCopyInput(3, 0)
  \/ \E fd \in {0, 3} : ExecCloseInput(fd)
  \/ StartPipe \/ EnterLoop \/ CallWithFile \/ CallHere \/ LeaveScope
  \/ \E from \in Froms : \/ \E raw \in BOOLEAN : ReadLine(from, raw, NoLimit)
                         \/ \E limit \in Limits \ {NoLimit} : ReadLine(from, TRUE, limit)
  \/ \E from \in Froms, count \in {0, 1} : from.kind \in {"u", "own", "plain"} /\ Mapfile(from, count)

InputStreamsSpec == InputStreamsInit /\ [][InputStreamsNext]_isVars

-----------------------------------------------------------------------------
InputStreamsTypeOK ==
  /\ streams.table \in [FdNumbers -> Streams \cup {Closed}]
  /\ \A s \in Streams : streams.at[s] \in 0..Len(Texts[s])
  /\ Len(streams.saved) = Len(due.saved)
  /\ parted = {} => streams.table[CoprocFd] = "pipe" <=> streams.reader

\* Every read and mapfile gets the next record of the stream its redirections
\* name, no character twice and none lost, but for the ways named in Causes.
ReadsAsPromised == "unexplained" \notin parted
=============================================================================
