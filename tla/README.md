# Verification of rubash

TLA+ models of rubash, the Bash-compatible shell in `src/`, the TLC runs that
check them and the TLAPS proofs about them. Every module names the Rust source
it is translated from; `PROJECT.json` maps every definition to its lines.

Contents: 1 the system, 2 the plan, 3 modules and code, 4 runs, bounds and
fairness, 5 proofs, 6 what the models found, 7 what is not modelled.

## 1. The system

One process, one interpreter thread, one `Executor` value that every builtin
reads and writes. Around it run host processes (background jobs, pipeline
stages, coprocesses), threads that copy pipe data, and other rubash processes
that share files with it (the signal mailbox).

| component | state | operations | hard behaviour |
|---|---|---|---|
| job table (`src/src/jobs/table.rs`) | jobs, pid index, recorded statuses, `%+`/`%-`, next id | register, mark completed / stopped / running, reap, wait, remove, clear, resolve | four maps kept in step by hand; ids and pids that come back |
| background jobs (`executor/job_builtins.rs`, `limit_builtins.rs`, `compound_exec.rs`) | `Child` handles, `background_jobs`, `$!`, the job table | `&`, coproc, jobs, wait, wait -n, fg, bg, disown, kill | children end between any two steps; blocking waits; a status is wanted twice |
| coprocesses | stdin writer, stdout reader, the two fds, stderr forwarder | start, redirect to and from, retire | endpoints stored in the fd table under pid-sized numbers |
| signal mailbox (`builtins/kill.rs`) | one `.alive` and one `.queue` file per rubash process | register, unregister, kill, take pending | two processes share files with no lock |
| traps (`executor/trap_exec.rs`) | trap table, pending list, DEBUG/ERR/RETURN/EXIT nesting flags | trap, run pending, run DEBUG/ERR/RETURN/EXIT | handlers that change the traps or raise signals |
| functions (`executor/function_calls.rs`, `function_locals.rs`, `declare_local.rs`) | positional parameters, function stack, local frames, saved values | call, return, local, declare, unset | frames restored on every exit path |
| temporary assignments (`executor/temporary_assignments.rs`) | saved variables | `VAR=v cmd` | restored also on error; dynamic variables |
| descriptors (`executor/fd_table.rs`, `redirection.rs`) | table fd -> endpoints, standard streams, saved fds | open, dup, move, close, `{var}>`, restore | shared open files; fd allocation at its limit; failure half way |
| execution lock (`executor/ast_exec.rs`) | a process-wide mutex and its owner's depth | enter, leave | reentrancy, early returns |
| control flow (`ast_exec.rs`, `compound_exec.rs`) | `exit_code`, `loop_depth`, `function_depth`, `subshell_depth`, `suppress_errexit`; an `ExecuteError` on its way up | lists, loops, conditions, subshells; exit, return, break, continue | errors that unwind through every construct, levels that cross functions, subshells and traps |
| pipelines (`pipeline_exec.rs`, `pipeline_stages.rs`) | stage processes, pipes, `PIPESTATUS` | start stages, wait, pipefail | the stage that fails to start; full pipes |
| read (`read_builtin.rs`, `read_io.rs`, `read_split.rs`) | pushed-back input, timeout, array targets | read, mapfile | where the next character comes from; lines that go on |
| expansion (`executor/expand_*`, `parameter_*`, `src/expand/`) | none | words to fields | order of expansions, quoting |
| arithmetic (`executor/arithmetic/`) | variables | evaluate | side effects in one pass, 64-bit wrap, recursion through variable values |
| braces, pathnames and patterns (`executor/braces.rs`, `glob.rs`, `pattern.rs`) | none | expand, match | rescanning of what an expansion gave; backtracking; three walks of the tree |
| tests (`builtins/test.rs`, `executor/conditional.rs`) | none | `test`, `[`, `[[ ]]` | words that are operators elsewhere |
| aliases (`executor/alias_*`) | alias table, aliases in expansion | expand | recursion |
| directory stack (`builtins/pushd`, `cd`) | stack, `PWD` twice, the process's directory | cd, pushd, popd, dirs | four places that know the directory, subshells in one process |
| getopts (`executor/getopts_enable.rs`) | OPTIND, cluster position | getopts | position kept across calls |
| lexer and parser (`src/lexer`, `src/parser`) | token stream | tokenize, parse | closers found by looking ahead; continuation lines |
| text of commands (`executor/command_text.rs`) | none | print a tree back as a script | the text is what a background child runs |
| invocation and line reading (`main.rs`, `invocation.rs`) | options, history, prompt | start, read, exit | how a script on the standard input is cut into pieces |
| formatting builtins (`printf`, `echo`, `help`, `complete`) | none | | |

What makes each correct: a child, a status, a signal or a variable is never lost
nor counted twice (jobs, mailbox, functions); a script goes where its nesting
says (control flow); a descriptor leads where the redirections said, and what a
command changed for its own time is undone (descriptors, functions,
directories); a pipeline gives the text and the statuses that real pipes would
give; a text is read as it was written (parser, patterns, arithmetic, tests).

## 2. The plan

The shell's own promises come first: that it loses no child, no signal and no
variable, and that a script goes where it says. Descriptors and the algorithms
follow.

| step | modules | abstract specification | state |
|---|---|---|---|
| 1 | `JobTable`, `JobTableClient` | the invariant `Sound` | checked, proved |
| 2 | `BackgroundJobs` over `JobTable` and the host | `ChildLedger` | checked; invariants and refinement proved |
| 3 | `SignalMailbox`, `SignalRaces`: two processes and their files | (properties only) | checked; dispatch and losses proved |
| 4 | `FunctionFrames` | `DynamicScope` | checked; invariants and refinement proved |
| 5 | `ControlFlow` | `StructuredControl` | checked; invariants and refinement proved |
| 6 | `Descriptors`, with the pipes of coprocesses | `OpenFiles` | checked, proved |
| 7 | `WorkingDirectory`, `Getopts`, `Arithmetic` | (causes; options of a list; expression trees) | checked; directories and getopts proved |
| 8 | `Pipelines`, `PipeProcesses` | real pipes; accounts of the members | checked; both proved |
| 9 | `ReadOptions`, `ReadFields`, `InputStreams` | getopt, fields, streams that part | checked |
| 10 | `ShellText`, `CommandTrees`, `CommandParser` | the grammar the other way round | checked |
| 11 | `Patterns`, `Pathnames`, `Braces`, `Tests` | the meaning of their parts | checked |
| 12 | word expansion: parameters and their operators | the meaning of their parts | to do |
| 13 | aliases, options, arrays, the lookup of commands | | to do |


## 3. Modules and code

`PROJECT.json` has the lines. What follows is what a definition stands for.

**JobTable** (`jobs/table.rs`). One operator per method of `JobTable`, from table
to table; no state of its own, so that the executor can compose them.
`JobTableClient` makes a state machine of them: any caller, any order.
`next_job_id` is a `u32` with `saturating_add`: `JobIdMax` stands for the limit.
A pid of 0 to the system, a pipeline of no process and a pipeline that names a
pid twice are not calls the executor makes (`Pipelines`).

**BackgroundJobs** (`executor/job_builtins.rs`, `limit_builtins.rs`, the launches in
`compound_exec.rs`). The shell is one thread that alternates between
`CommandBoundary` (`refresh_background_jobs`, at the head of the loop in
`execute_ast_inner`) and one command. `wait` and `fg` are not atomic: they set
`phase` and the pids still to wait for, and `AnswerWait`, `WaitUnknown` and
`ForegroundExit` take one step of the builtin's loop; meanwhile `ProcessExit`
takes any child. A coprocess may have a thread that forwards its stderr (`forwarder`),
which ends well or with an error after `ForwarderEnds`. The code joins it between
taking the `Child` out and recording the status: `RefreshFails` and `AnswerWaitFails`
are the `?` after the join, and the coprocess is then neither held nor on record. A
refresh is one step, put off until the joins it does have something to join: what ends
while it blocks there is left for the next. An error ends the command, and the shell
goes on or is `over`, by where it was. A child is terminated by kill with 128 + signal: the port runs
on Windows, where `TerminateProcess` is given that number. `ChildLedger` is the
promise: each child is held, settled with its own status, or released by the
user (disown, fg), a settled status is final, and only a child whose stderr was
forwarded is ever lost. `MCJobs` runs the table under any
client and the table under the shell, a behaviour being one or the other.

**SignalMailbox** (`builtins/kill.rs`, `run_pending_signal_traps`). Every file
operation is a step: marker looked at, process probed, queue opened, digits
written, newline written, queue read, queue removed; and where the probe finds the
process dead, marker removed, queue removed, host process signalled. A process can
die at any of them, and a new one come up with its pid (`Start`). Handlers are a
stack of batches; `Dispatch` starts the next signal of the innermost. `SignalRaces`
adds a history variable, the sends that met a removal of their queue or half a line.

**FunctionFrames** (`function_calls.rs`, `function_locals.rs`, `declare_local.rs`,
`temporary_assignments.rs`, ...). `sh` holds the three places where a variable's
value is (`env_vars`, the typed table, the process environment), `control` the
Rust stack: what each running function, temporary assignment and subshell saved
and will put back. `error` unwinds it. `DynamicScope` says what it is for: a
stack of scopes, each name bound in some, looked up innermost first.

**ControlFlow** (`ast_exec.rs` and the construct it calls for each kind of command).
`stack` is the Rust stack: one record for each construct running, with the locals
that matter (a while loop's `last_body_status`, what a subshell saved). `result`
is the `Result` on its way out of the last command: `running` between commands,
`Ok`, or one of four errors. `Ok(FALSE)` is the result of a construct after which
`execute_materialized_command` does not look at errexit. `Settle` is the end of the
loop over a list: errexit, then the ERR handler. `time` is that of a `{ }` list; a
member of an and-or list, and what `!` inverts, may hold several commands, which
stands for any list they reach without one of the arms in between.
`StructuredControl` is the promise: a jump takes one step, to the place the nesting
determines. An `exit` inside an and-or list, `!`, `time` or `{ }` lands *after* that
construct there too (kind `list`), since this is what the code does; that it
should not is the finding `exit_is_final`.

**Scripts and features.** In FunctionFrames, ControlFlow and Descriptors the script
is nondeterministic: any command next, any status. `features`, chosen once in
`Init`, is the set of commands and constructs a script uses. It is what makes it
possible to say where a property holds: a run names the sets it allows. What is
in no set of a passing run is a known departure of the code, listed in section 6:
in FunctionFrames `local-in-eval`, `local-in-subshell`, `unset-in-subshell`,
`global-shadowed` and `attribute-of-unset`; in ControlFlow the combination of
`errexit` with functions that break out of loops around them (`Orderly`, section 5). Where a property of FunctionFrames fails in
a script of the runs, it names the combination itself (`KeepsTemporaries`: a local
and a failing handler, an unset or a local of the name eval assigns;
`MisleadsChildren`: `declare -g`, a local and an unset or a failing handler, or names
taken off the exported ones under a temporary assignment).

**Causes.** Where the code is known to do something else than a reader of the script
would expect, the newer modules follow it and give the reason a name: `departed`
in Descriptors and Pipelines, `stray` and the like in WorkingDirectory, operators in
MCWords and MCLanguage. The property then says that nothing else parts from the
promise; a behaviour is compared up to its first departure. Section 6 lists them.

**WorkingDirectory** (`builtins/cd`, `pushd`, `printf_path_builtins.rs`, the subshells).
Four places know the directory: the process, `PWD` in `env_vars`, `PWD` in the typed
variables and the first entry of the stack. `cd` moves the first three, pushd and
popd the last three; subshells run in the same process and put back some of them.
A path is the sequence of its names; `Real` is the tree of directories and links.

**Getopts** (`getopts_enable.rs`). The scan lives in `OPTIND` and an offset inside the
word, which `set --` and functions called between two calls can touch.

**Arithmetic** (`executor/arithmetic/`). One pass over the tokens parses, evaluates and
assigns; it is compared with the value and the effects of the expression's tree,
as C has them, in integers of `Width` bits.

**Descriptors** (`fd_table.rs`, `trap_exec.rs`, `command_input_scope.rs`, `compound_exec.rs`,
`job_builtins.rs`). `shell` is what the code keeps: the table, its mirror in
`env_vars`, the marks, the pipes of a coprocess, and what `exec`, `{v}>` and compound
commands did to them. `promised` is the same script under `OpenFiles`, where a
descriptor has a reading and a writing side and nothing else.

**Pipelines** (`pipeline_exec.rs`, `pipeline_stages.rs`). The stages run one after the
other, some on a copy of the executor and some in the shell itself, after two
shortcuts: a timed read behind an echo, and host programs alone. The text, the
statuses and the shell afterwards are compared with those of stages joined by
real pipes. **PipeProcesses** has the host programs: bounded pipes, members of eight
kinds that read, write, close or wait, the shell that writes a here-document
first, reads the last member to its end and kills those that have not ended.

**ReadOptions, ReadFields, InputStreams** (`read_builtin.rs`, `read_io.rs`, `read_split.rs`).
The arms of read's argument loop against getopt; the fields of a line against
what `IFS` promises; and the three places from which the text of descriptor 0
may come, with the streams that should have been read.

**ShellText, CommandTrees, CommandParser** (`lexer/`, `parser/`, `main.rs`,
`command_text.rs`). `CommandTrees` writes a tree of commands as words in three
layouts. `CommandParser` reads words as the code does: one pass, looking ahead
for the closer of each compound command with scans of its own. `ShellText` joins
lines, makes one token of a group in braces, and cuts a script on the standard
input into pieces. A tree is printed for a child in the background, too.
`MCLanguage` grows every script of a few commands and reads it back.

**Patterns, Pathnames, Braces** (`pattern.rs`, `parameter_replace.rs`, `glob.rs`, `braces.rs`).
The plain and the extended matcher with `${v#p}`, `${v%p}` and `${v/p/r}`; the three
walks of the tree of files; the expansion that scans its own results again.
`MCWords` grows words by parts, each part with its meaning.

**Tests** (`builtins/test.rs`, `conditional.rs`, `conditional/args.rs`). `test` by the number of
its words and then by precedence; `[[ ]]` checked, taken apart and evaluated.
`MCConditions` grows conditions by their tree. `MCTexts` is the run over the four
modules of texts.

**Orders**: `InOrder`, the sorted sequence of a set of numbers, which listings and waits
go through. **...Proofs**: section 5.

## 4. Runs, bounds and fairness

| run | asks | size and why it is enough |
|---|---|---|
| `background_jobs` | do the four maps of the table stay in step under any calls, is any child lost, any false status recorded, any job not answerable, is the ledger kept? | two pids: one to wait for, one that ends meanwhile; pipelines of one and two; two statuses; three ids, so that a pid comes back in another job, both jobs of `%+` and `%-` go, and the ids run out; two operands of `wait`. Under the shell, pids are not given out again; either process may be a coprocess with a forwarder, so that one fails while the other is reaped or not |
| `background_jobs_live` | does every wait return and every zombie go; can `$!` be waited for? | with a process substitution and pids that come back; one status, since none is compared; one operand; one pid may have a forwarder, so that the other's progress is asked with it in the way |
| `signal_mailbox` | is a signal dispatched twice, out of order, nested, or lost but in a race? | two shells, each able to signal the other and itself, two signals, one pid that comes back: two sends are enough for two writers on one queue and for an order |
| `signal_mailbox_live` | is a signal in the mailbox taken? | the same, without symmetry |
| `frames` | do the flat tables mean what dynamic scoping says? | one name, two plain values and one only temporary assignments give (so that a leak is seen), functions two deep, three frames, assignments or subshells at once: a local under a local, with any of the others between |
| `control_flow` | do jumps land where the nesting says, are the counters right, is exit final? | thirteen feature sets, five constructs at once, `break 2`: a function or subshell between two loops, a handler in each |
| `builtins` | where is the shell, what does a loop over getopts give, what is an expression? | a tree with a link to the root, a stack of two, paths of two names, one subshell within another; argument lists of up to three words, a function with its own scan; expressions of up to three operators in 4 bits, where -8 has no opposite |
| `descriptors` | do descriptors lead where the script said, and is what read takes what it was due? | one number of the script's, two the shell allots (so that they run out), two files opened, two compound commands at once; every cluster of read's options; every line of four characters under four `IFS`; four reads with two inputs one inside the other |
| `pipelines` | are text, statuses and shell those of real pipes; are all members accounted for, and who can wait for whom? | pairs and triples of 28 stages under lastpipe, pipefail and noclobber, and a second pipeline behind them; three host programs on pipes that hold one token, with a here-document of four, more than pipes and members hold together |
| `language` | is a script, pattern, word or condition read as it was written? | three compound commands inside or beside each other in three layouts, every one with any one reserved word missing; patterns and words of three parts; pathnames of three segments in a tree of twelve; conditions of three terms |
| `wait_next_returns`, `exit_is_final` | do what the repository says and the code does not (section 6) | the smallest scripts that show it |

Bounds are named: `JobIdMax` (the table stops where `saturating_add` would give an
id twice), `MaxOperands`, `Forwarding` (the
pids of which a coprocess's stderr may be forwarded; none in `wait_next_returns`, which
is about plain jobs), `MaxSends`, `MaxRestarts`, `MaxDepth` (FUNCNEST in
FunctionFrames, a bound on nesting in ControlFlow), `MaxNest`, `MaxLevel`, `MaxStack`,
`MaxPath`, `MaxOpens`, `MaxScopes`, `MaxNesting`, `MaxCommands`, `MaxNames`, `MaxMembers`,
`MaxInput`, `Capacity`, `Effort`, `MaxGrowth`. `UsizeMax` is what `0 - 1` is in a counter,
`Width` the bits of a number. Deadlock is not checked: a shell may end, a pipeline
may come to a standstill (`StandstillOnlyOnFullPipes` says when), and the bounds stop
the others.

Fairness is stated in three modules.

- `BackgroundJobs!ShellFairness`: the shell's thread goes on unless it is blocked in
  `Child::wait` or in a join. One fair command stands for any: what is asked is that a
  command follows a boundary and a boundary a command, and that an error met is
  reported. A forwarder ends once its coprocess has: the read end of its pipe comes to
  its end, or fails. `FairSpec` adds that a background
  process that is not suspended ends, which `wait` cannot do without;
  `wait_next_returns` is checked without it (`ShellFairSpec`), for a job that runs for
  ever is just the case.
- `SignalMailbox!StepsFair`: a process goes on to its next step. `ScopesEnd` (strong:
  a handler or subshell is left again and again, not continuously enabled) says the
  commands in handlers and subshells end, and `Unblock` that what blocks the shell
  does. Without them a script can be in `( while :; do :; done )` for ever, where the
  code takes no signals (`trap_exec.rs:275`).
- `PipeProcesses!PipeFairness`: the shell and each program go on whenever no pipe
  blocks them. A program of the kind `waiting` waits for something else, for ever
  if it likes, so that `LastEndsItAll` does not lean on the others' end.

## 5. Proofs

TLC checks a small instance; the proofs are for every value of the constants:
any processes, statuses, signals, trees of directories, scripts, and any bound.

| theorem | module | states |
|---|---|---|
| `TableTypeCorrect` | `BackgroundJobsProofs` | the types of the table |
| `TableIndexConsistent` | | the pid index is the inverse of the jobs' pid lists |
| `TableSummariesCurrent` | | a job's state and status are those of its processes |
| `TableNoIdReused` | | no id in the table, in `%+` or in `%-` is given out again |
| `JobsAlwaysSound` | | under the shell too the table is sound, and every job can be waited for, but for coprocesses whose forwarder failed |
| `StatusesAlwaysTrue` | | a status on record is the one its process ended with |
| `NothingEverLost` | | a process started is held, settled or given up, or its forwarder's error was reported |
| `LastBackgroundAlwaysAnswerable` | | `wait $!` can answer unless `$!` was given up or its forwarder failed |
| `WaitAllAlwaysLeavesNoJob` | | `wait` ends with the table empty, but for coprocesses whose forwarder failed, or with that error |
| `LedgerImplemented` | | BackgroundJobs implements `ChildLedger` |
| `DescriptorsAlwaysSound` | `DescriptorsProofs` | descriptors lead where promised, pipes are held as long as they can be reached, a process substitution runs once |
| `MailDispatchSound` | `SignalMailboxProofs` | a signal is dispatched once at most, in the order its sender sent it, and handlers do not nest |
| `SignalsLostOnlyInRaces` | | a signal that `kill` delivered is lost in one of three races only |
| `UnwindingAlwaysSound` | `ControlFlowProofs` | the four counters count the constructs that run, and a jump has a place to land |
| `ExitAlwaysFinal` | | a shell told to exit runs nothing more but EXIT handlers, outside of the named constructs |
| `ControlIsStructured` | | ControlFlow implements `StructuredControl`, for orderly scripts |
| `FramesTakenDown` | `FunctionFramesProofs` | a frame goes with its function, a temporary value with its command |
| `TablesAlwaysAgree` | | the flat table, the typed one and what children get say the same |
| `ScopeImplemented` | | FunctionFrames implements DynamicScope: a name means its innermost binding |
| `ReadonlyGlobalsFixed` | | a readonly variable of the shell stays so and keeps its value |
| `DirectoriesAlwaysAgree` | `WorkingDirectoryProofs` | the four places part only for the named causes, and what the pushds left is on the stack |
| `StackAlwaysMovesOnStack` | | a stack builtin goes to a directory named or on the stack |
| `ArgumentsAlwaysScanned` | | getopts gives the options of the arguments, in order and all of them |
| `ScanAlwaysAdvances` | | each call of getopts looks at a later letter |
| `PipelinesKeepTheirPromise` | `PipelinesProofs` | a pipeline does what one of real pipes would, but for the departures named |
| `PipeMembersAccountedFor` | | no member left behind, each status its member's own |
| `NoOtherStandstill` | | a pipeline stands still only while the shell writes and every pipe is full |

### The job table

All four follow from `TableAlwaysSound`, `TableSpec => []Sound(client_table)`. `Sound` is the
four together, because none but the types is inductive alone: a registration
overwrites a job, and breaks the index, if its id is not fresh, so the index
needs `IdsGivenOut`; a mark recomputes the summary of the job the index names, so
the summaries need the index; and `IdsGivenOut` must speak of `current_job` and
`previous_job` as well as of the jobs, since `remove_job` moves `previous_job` into
`current_job` though its job may be long gone. There is one lemma for each method
(`RegisterPipelineSound`, `ReapFinishedSound`, ...), about the operator and not about
a step, so that the proof about `BackgroundJobs`, which composes several of them in
one step, can cite them.

### Background jobs

`JobsInv` joins `Sound` with the properties and with what makes them inductive.

- `OnePidEach`: a job has one process. A job of two would lose the status of the
  one when the other is disowned. The shell registers no other jobs, so this is a
  fact about the code and not an assumption.
- `HeldApart`: a process that is held is neither settled nor given up. With a status
  on record and a `Child` for one process, `disown` would lose one of the two.
- `Blocked`: what a blocked shell waits for. `fg` holds the `Child` it took out of
  the executor, and the pids that `wait` has still to do cover the table, which is
  why no job but those of failed forwarders is there at the end.
- `Forwarders`: a forwarder belongs to a process that was started, and one whose error was
  reported to a process that has ended and that the shell does not hold; one whose status is on record has none left to join.
- `Born` and `LastKnown`: nothing is known of a process before it starts, and `$!` was
  started or is the status of a substitution.

The steps that loop over children (`refresh`, `jobs`, `wait` without operands) go
through them in the order of their pids; what holds of the listing is proved
from `InOrder` (module `Orders`), whose lemmas in `OrderProofs` say that a finite set
of numbers has one increasing enumeration. Their induction is by a least
counterexample, for the library's induction theorems take an operator and cannot
be instantiated by the provers here.

`LedgerImplemented` maps a process to its fate: held where the shell has its `Child`
or a builtin took it out, settled where a status is on record, released where
`disown` or `fg` gave it up, lost where its forwarder's error was reported. Every step of the shell is shown to be the ledger's
start, end, settlement (of several at once, for a refresh reaps all that have
ended, and one may be lost in it) or release, or to leave the fates alone.

All of this assumes `~PidReuse`. On a host that gives a pid out again the
properties are false: a status on record answers for the later child (section 6).

### Signal mailbox

`MailInv` says where the number of a send may be: in one file, in one batch, or
dispatched (`KnownInv`, `Nowhere`); that a kill in progress is about the last send of its
process (`KillInv`); that a process has one batch at most (`BatchInv`); and
(`OrderInv`) that texts are in order, that what is in a file or batch comes after
what was dispatched, and a batch before the file. The last does not hold between
reading the queue and removing it, when both have the same numbers, nor of a
process that has died. It is not an invariant that order holds between senders:
`Before` compares two sends of one sender. A number whose newline has not come
yet is taken for a line; two in one line are no signal, and go with the file.

`RaceInv` says why there is no fourth way to lose a signal. It follows a send whose
write met neither the removal of the queue nor half a line, and whose queue no kill
to an earlier process of that pid removes:

- `KeepsFile`: while it writes, the file it opened is still the one the owner will
  read, and the number it has written is a line. `kill` checks once that the owner
  is there, so this holds for a write that met no removal and not of others.
- `HasLine`: once accepted its line is complete, whatever else is written. A number
  without its newline would be glued to the next, so `HasLine` needs `KeepsFile`.
- `TakenWhole`: when the owner has read the queue and not removed it yet, what is
  accepted and in the file is in the batch too. `HasLine` gives this for the read, and
  for a newline that comes between read and removal the send is in a race.
- `FoundDead`: a kill that removes the two files of its target found it dead, so that
  the target is still dead or another process has its pid: the removal either hurts
  nobody or is the third race (`Disowned`).
- `Kept`, the conclusion, speaks of the process the signal was for: `LivesKnown` says
  that no send names a life its target has still to begin, or a restart would make
  a lost signal one of the new process.

### Control flow

`CfInv` joins the counters with the stack: `loop_depth` is the number of loop bodies
inside the innermost shell, and so on (`Counts`). A
subshell saves three counters and puts them back on its way out, whatever happened
inside, so the invariant has to say that what each subshell on the stack saved is
right for the stack under it (`SavedCounts`). `JumpHasPlace` is the reason why a
`break` never reaches the top: its level is at most `loop_depth` when it starts, and
each loop it passes takes one from both.
A subshell whose redirection fails is left without any of this (section 6), so
the counters are said to be right of every script but one with `redirect-fails`.

`ExitAlwaysFinal` needs more than what it says of the innermost shell, since a shell
that was told to exit may have a handler on it and the handler a shell. `Tame`
says of every shell told to exit that it is past its commands, or has on it the
EXIT handler `exit` runs, or that the exit is on its way to it; that an EXIT
handler stands on the shell it is for (`OnItsShell`); and that no `break` or `return` is
under way above a handler, which is where "handler-jumps" would cancel an exit.

`ControlIsStructured` maps the Rust stack to the constructs that run, and a result on its
way out to the place where it will land (`Landing`, in `ControlFlow`): a jump is one
step of `StructuredControl`, the one of the command that asks for it, and every step that
unwinds must leave the landing alone. So the proof says, for each construct a result
can pass, that the place it lands at from the stack with the construct is the one from
the stack without it (`LoopsPush`, `ExitPush`, `PassesOnFacts`): a break has one loop less
to leave and one level less to go. What passes a construct must not become a jump to
elsewhere on the way, and this is where scripts part from the promise:

- A subshell whose redirection fails loses count of the loops (section 6), and a later
  break or return lands elsewhere.
- Under errexit a function that a `break` leaves, or an EXIT handler, looks at the status
  before it passes the jump on, and makes an exit of it. Structured control has such
  an exit as a jump of its own if the break and the exit land in one place or one after
  the other on one way out, and this is so unless there is on the way an and-or list,
  `!`, `time` or `{ }` that takes an exit for a status.

`Orderly` excludes the two and nothing else, in terms of the features of the script:
no `redirect-fails` with `break` or `return`, no `errexit` with `handler-jumps`, no `errexit`
with `break`, `function` and one of the four. That the last is needed is not an artefact of the
proof: with `{"errexit", "break", "loop", "function", "if", "group"}` and five constructs TLC finds
the exit that the group takes for a status. All sets of the run are orderly.

All three assume only `UsizeMax > MaxDepth`: a counter does not reach the limit of `usize`
because the stack would have overflowed long before.

### Functions and temporary assignments

`FramesInv` is a property of a stack of what is running, its scopes and the tables
(`Sound`), and each lemma says that an operation on them keeps it: a push of a
function, a subshell or an assignment, a pop of each, a change of one name in the
tables, of one scope. The actions then put the lemmas together. It says, level by
level, what will be put back:

- `Placed`, `AllPlaced`: a running function has a scope above those of its callers, and
  each scope a function, unless a handler left one. Without this the end of a function
  would restore the locals of another.
- `TypedKept`: the typed value is that of the flat table or none, in the tables and
  wherever it is saved. This fails for scripts with both `local` and `unset` (section 6).
- `AllClean`: a temporary value is found at a level, or saved there, only if a temporary
  assignment of the name is in force below it; what a local has hidden from children
  is temporary only if the assignment was there when the local hid it. It speaks of
  the two apart because `local x` under `x=1 f` copies the value for children
  and the end of the function drops the copy.
- `InEnvironment`: the process environment has the values of the table for each name that
  is neither given nor hidden below, and what a function hid is in force only
  above it.
- `ExportsKept`: a temporary assignment puts back the whole list of exported names, so
  what it found exported must still be exported when it ends. This is
  why `export -n` or `unset` under a temporary assignment is in `MisleadsChildren`.

The exceptions are conditions on the script and not on the state: `KeepsTemporaries` and
`MisleadsChildren` in `FunctionFrames` name the combinations of commands after which the
properties are false (TLC finds each), and the theorems are about every other
script, the features no passing run allows included (`local-in-subshell`,
`global-shadowed`, ...).

The code has no chain of scopes: a local overwrites the one table and what was there
is put aside. `ScopeImplemented` shows that this comes to the same. `Bindings` is
written as a function `Chain` of any stack, scopes, table and readonly names: the value
of a name in a frame is what the next entry that hides the name saved, or else what the
table says. There is then one lemma for each kind of change: of a value of the table,
which is a change of the innermost binding only (`SetValue`), of a mark
(`SetOwner`), a local more (`NewLocal`) and one less (`WithoutBinding`, for
`unset`), the shell's own value behind a local (`SetShellValue`), and an entry more
(`Push`), which read backwards is the end of a function, a command or a subshell
(`LeaveRef`). The theorem is about the scripts `Scoped` says. Outside it the
refinement is false, and TLC finds a script of a few commands for each exception: a handler that
leaves the frame of a local, a local in a subshell (its scope outlives the subshell's
tables) or of the name `eval` assigns, `unset` of a caller's local in a subshell or
under a temporary assignment, `declare -g` behind two locals, attributes of unset
names. The three scripts of the run are `Scoped`.

`ReadonlyGlobalsFixed` then needs nothing of the code any more: no step of `DynamicScope`
touches a readonly binding of the first frame (`ScopeStepFixes`).

### Directories

`OuterAgrees` is the strengthening: what a subshell put aside on entry agreed with
itself (the model enters a subshell only then). `LinksAssumption` says what a tree of
directories is: a name under a link is the name under the directory the link leads
to. In the small tree of the run, whose paths have two names at most, the one link
is too deep for it to say anything; the proof uses it for `cd` through a link.

### getopts

`ArgumentsScanned` says what the calls gave so far, which is not inductive. `GetoptsInv` says
what they will give: where `OPTIND` and the offset stand, what a reader of the words alone
makes of the rest (`Rest`), put behind what was given, is what it makes of all of them (`Keeps`). A call
then takes the first option off the rest. The position is one a scan can stop at
(`InScan`): a letter of a word that has it, or the first letter of the next one, which keeps the
rest defined. A function has a scan of its own, and `GetoptsInv` says the same of the
one its caller was in. The reader is a recursive function over the letters of a word and one over
the words; that each has a value everywhere (`LetterOptionsAre`, `WordOptionsAre`) is
proved from the last letter, or word, back.

### Descriptors

The property says where the descriptors lead now; the proof has to say where they will
lead when the compound commands and subshells around have put back what they saved. `DInv` is, up to
the first departure:

- `Kept`: what each scope saved is what the promise gives back (`Matches`), but for an end of a
  coprocess that is gone, which the code puts back into the table and the promise forgets. A
  subshell saves the whole table; a compound command the descriptors it names, each once, and the
  one of its `{v}`, which was free and is closed at its end.
- `~OnlySaved`: a process substitution or an end of the coprocess that will be put back leads
  somewhere now too. Where only a scope has it the code runs or closes it early, which is the departure
  "only saved" (section 6).
- `Placed`: such a process substitution is where it was saved. With `OnePlace` it follows that
  putting it back does not double it, and that it is never in the table again after it ran.
- `RanOnce` and `PipesHeld`: a process substitution has run exactly if no descriptor leads to it any
  more, and the shell holds an end of a coprocess's pipe exactly as long as one does.
- `MirrorTrue`: the code keeps a process substitution in the table and in a second map, and looks
  at both before it runs one. They must name the same ones, also in what a subshell saved.

The theorem `DInv /\ [Next]_vars => DInv'` has a lemma for each change of the table (`OpenBoth`,
`Copy`, `CloseBoth` and what they do to the ends of a coprocess), about any shell and not about a
step. The redirections of a compound command are several changes in one step, so
`AccGood` says what holds after each of them. Nothing is assumed of the features or the
nesting; of the descriptors only `DescriptorsAssumption` in `Descriptors`.

### Pipelines

`PipelineAsPromised` compares the end of a pipeline with a reference that is computed from
its stages. `PipelineInv` says the same of the middle of the loop: after some stages
the statuses, the text, the file and the shell are those the reference has after as
many (`StepByStep`), but for what the causes noted so far allow. The reference is a
recursive function (`References`); what it has after a stage is what `RefStage` makes of
what it had before (`RefSteps`), and what holds of it after each stage (`RefKeeps`,
`HostsSoFar`) is proved by a least stage at which it would fail. Three parts of the invariant were found by the
proof and are not in the property:

- A file that `>` names exists for the loop exactly when it does for the reference,
  whatever the causes: noclobber refuses by this.
- Before its last stage is written to its file the text is not on the output of the
  reference but in its file.
- An unbound name met by the timed read goes with the first stage if this is the echo
  it was met in (`LatchKept`); only a body leaves it behind.

`PipelineLines` says which pipelines the theorem is about: of stages of every kind, with
what the command of such a kind can do (`CanDo`); a redirection is one of a simple stage and not
of the stage lastpipe runs, and `|&` is between two stages.

### Pipelines of host programs

`PipeInv` adds to the accounts how far the shell has come (`Progress`) and that the
statuses taken so far are those of the members to the right (`TakenFromTheRight`): the
list is built from the right and reversed at the end.

`NoOtherStandstill` is about `Able`, the guards of the shell and its members written out,
since `ENABLED` is out of the provers' reach. A member that cannot go on though it has something to
read, or nothing more to come, has something to write and no room for it
(`BlockedByWhatFollows`), so the next one has something to read: from a full pipe on all
are full (`FullToTheEnd`). While the shell reads, the first member that runs is such a
one and the last pipe is empty; while it writes, the first pipe is full.

### What is only model-checked

- Out of the provers' reach: liveness (`WaitReturns`, `ZombiesReaped`, `SignalsTaken`,
  `LastEndsItAll`), and what recursive operators compute:
  Arithmetic, Braces, CommandParser, CommandTrees, InputStreams,
  Pathnames, Patterns, ReadFields, ReadOptions, ShellText, Tests and the modules over
  them. Those are pure functions of a text or a list, and the runs compare them
  with their references on every input within the bounds.
- `InputSound` speaks of the texts that `MCDescriptors!MCTexts` gives the streams, and
  not of every text: `InputStreams!Causes` lists the departures these texts can show. With
  others there are more that it would call unexplained: positions that part unnoticed
  where only blank lines of the process's input are left, and a command's own input
  whose continuation is empty. `ContinuationAssumption` names what continued lines may be.

## 6. What the models found

Two disagreements have a run that shows them; `PROJECT.json` quotes the line of the
repository each goes against.

| run | the code | what it shows |
|---|---|---|
| `wait_next_returns` | `job_builtins.rs:234` | `wait -n` without operands blocks on the running job with the lowest id while another child has ended |
| `exit_is_final` | `ast_exec.rs:556` | under `set -e`, `true && false` does not end the script, nor does `false \|\| exit 1`: the arm takes the exit for a status |

Others were met while modelling. The models have the behaviour of the code; no run
is spent on them.

Jobs and signals.
- `table.rs:245`: `remove_job` moves `previous_job` into `current_job` and does not clear it,
  so after two removals `%+` names a job that is gone while others run; the test at
  `table.rs:348` is named "removing_a_job_clears_pid_and_current_previous_indexes".
- `job_builtins.rs:421`: `jobs` prints positions, `%n` is resolved by id
  (`third_party/ksh93/tests/jobs.sh:64` uses the one as the other).
- `job_builtins.rs:267` and `:376`: the thread that forwards a coprocess's stderr is joined
  between taking the `Child` out and recording the completion. Its error loses both: the
  job stays "Running" and `wait PID` answers 127. What else had ended waits for the next
  refresh.
- `job_builtins.rs:359`: the status `wait -n` reported stays on record and the next
  `wait -n` reports it again; the comment at line 128 says "wait -n consumes the
  selected completion".
- `job_builtins.rs:364`: the status recorded for a pid answers for a later child with
  the same pid.
- `job_builtins.rs:359`: a trapped signal does not interrupt `wait`
  (`third_party/busybox/tests/ash_test/ash-signals/signal1.right:5` expects "wait interrupted").
- `kill.rs:299`: a signal written between the owner's read of the queue and its removal
  is lost, though kill reported success. `LostOnlyInRace` has this as one of its races.
- `kill.rs:364`: a kill that finds its target dead removes the two files in two steps after
  the probe. A process that gets the pid in between loses its marker, or its queue with
  the signals in it (the third race), and then the signal itself goes to it.
- `kill.rs:352`: a signal is queued for any process with a marker, while
  `docs/issue-suite-diff-analysis.md:415` keeps the mailbox for "signals delivered to
  the current shell".

Functions and variables.
- `function_calls.rs:263`: an error of a DEBUG or RETURN trap leaves `execute_function` with
  the frame pushed and the locals in place.
- `compound_exec.rs:392`: a subshell does not save `local_var_scopes`: an `unset` or `local`
  in it changes what the enclosing function puts back.
- `function_locals.rs:34`: `x=1 eval 'local x'` saves the temporary value as the one to restore.
- `unset_arrays.rs:130`: unsetting a caller's local restores the flat table, not the typed
  one, which expansion reads first (`third_party/oil/spec/builtin-vars.test.sh:363`).
- `function_locals.rs:215`: `declare -g` with two locals of the name assigns the outer local
  (`third_party/ksh93/tests/functions.sh:1386`).
- `declare_local.rs:426`: `local foo=bar; local foo` empties foo
  (`third_party/oil/spec/builtin-vars.test.sh:601`); line 432 clears the readonly mark before
  it is looked at (`tests/executor_command_chaining/part_056.rs:181`).
- `setattr/apply.rs:52`: `export x` of a fresh local takes the outer value from the process
  environment.
- `temporary_assignments.rs:29`: an export made by the command is undone with its
  temporary assignments.

Control flow.
- `compound_exec.rs:454`: a subshell whose redirection fails is never left: `subshell_depth`
  stays raised, the traps and variables are not put back, and `loop_depth` is 0 in the
  loop around it. A later `break` there is ignored, the end of the loop takes
  `loop_depth` below 0, and after that a `break` may reach the top list.
- `command_dispatch.rs:41`: errexit looks at `exit_code` before the result, and `break` and
  `return` do not set it first: `set -e; f() { [ -n "$x" ] && echo x; return 0; }; f` ends
  the script, the status being that of the list before the `return`.
- The arms for `!`, `time` and `{ }` take an exit for a status as the one for and-or lists
  does (`ast_exec.rs:258`, `:320`, `:613`); after `{ exit 3; }` the status is 0, because the arm
  goes on to execute the command as one without words (`third_party/oil/spec/errexit.test.sh:27`
  expects 1 after a failure in `{ }`). An `exit` in an ERR handler is dropped (`ast_exec.rs:849`).
- `compound_exec.rs:533`: the condition of a loop is not counted in `loop_depth`, so
  `while break; do ...` does not end that loop (`third_party/oil/spec/loop.test.sh:286`).
- `ast_exec.rs:830`: the ERR handler is not run for the failure that errexit acts on
  (`third_party/oil/spec/builtin-trap-err.test.sh:29`), is run again for each `if` or loop
  around a failure, and runs itself without end when its own last command fails.
- `compound_exec.rs:474`: `return` in a subshell unwinds the function around it.
- `trap_exec.rs:153`: `break` or `return` in an EXIT handler cancels the exit.

Directories and getopts.
- pushd and popd move `PWD` and never change the directory of the process; `( cd x )`
  leaves the process's directory moved; `cd ..` under a link parts `PWD` from it.
- `popd +0` of the only entry sets `PWD` to `/`; popd leaves `OLDPWD`; pushd takes it from a
  stale entry; `pushd -n +N` does not rotate.
- `printf_path_builtins.rs:98`: a `cd` with a redirection skips the typed `PWD`, where a test
  (`part_022.rs:282`) expects `$PWD` to be the destination.
- getopts takes the letter `:` for an option, and `OPTIND` stays after `set --`.

Descriptors. The causes of `departed`, each at its line:
- "overwritten" (`trap_exec.rs:31`), "psub copied" (`:1033`), "mirror" (`:958`), "readonly"
  (`:1180`), "half" (`:1185`, `job_builtins.rs:318`): the table and its mirror in `env_vars` are
  set one after the other, and not both on each path.
- "full" (`fd_table.rs:118`): what happens when no number is left.
- "partial" (`command_input_scope.rs:34`), "renamed" (`:42`), "dangling" and "only saved"
  (`:145`): what a compound command puts back after a failure, or after its variable
  was given another number.
- "subshell" (`compound_exec.rs:387`): a subshell's exec stays in effect.
- "failed" (`trap_exec.rs:1097`): the command of a process substitution that ends in an error
  is left by `?` once the output side is closed; an input side of the same descriptor stays.
- "alias" (`read_io.rs:252`), "forgotten" (`job_builtins.rs:346`), "through 0" (`read_io.rs:207`):
  the pipes of a coprocess. `read -u 0` reads any coprocess's output, and at its end `NAME[0]`
  stays open with no pipe behind it. In InputStreams the same is "left open".
- `exec {v}>&n` of an `n` that is not open allots a number and sets `v` to it
  (`trap_exec.rs:1186`, `:1273`); of other commands nothing happens (`:1405`, `:1420`).
- A copy of a closed descriptor closes the target with status 0; `exec 3>&3-` closes 3;
  `fd_table.close(pid)` is given a pid for a descriptor (`job_builtins.rs:356`);
  `with_loop_fd_heredocs` puts the same descriptor back twice, oldest last.

read and mapfile.
- The text comes from another place than descriptor 0 after an exec, under a
  coprocess (`read_io.rs:207`), in a subshell, or where an input was copied; a blank
  line ends it (`read_io.rs:443`); `read -r`-less lines that go on take the next line
  from elsewhere (`read_builtin.rs:1963`); `mapfile -n` drains the input.
- read's options: repeated switches before an option in one word give status 2; `-id`,
  `-ie`, `-ni` and the like are taken as pairs; `-ri` drops its text; a missing
  argument of `-n`, `-d`, `-i`, `-p` at the end is accepted; options after a name are options.
- Fields: a single name keeps one trailing separator and loses escaped blanks; an
  array drops empty elements.

Pipelines.
- A stage whose `>` cannot be opened leaves `STDOUT_CAPTURE` in place: the shell's
  output is collected for ever. Words of echo, printf and host stages are expanded
  in the shell, twice for a pipeline of two that starts with echo.
- The timed read ignores its consumer's status and lastpipe's variable. `return` in a
  stage leaves the function around the pipeline. The output of a redirected stage
  still goes down the pipe. Under noclobber a file is refused because the same
  command just created it. `wc -w` gives status 1.
- Host programs: a member that a signal ended, as of SIGPIPE, has status 1 in `PIPESTATUS` and
  not 128 and the signal's number (`pipeline_exec.rs:948`, `:958`). Members that run when the last one ends are killed, where bash
  waits; a member that cannot be started, or a here-document nobody reads, leaves
  the others behind; a here-document larger than pipes and members hold blocks all.

Arithmetic.
- Equality and relations have one precedence; a variable's text "010" is decimal; the
  least number `% -1` is an error; `x += y` reads x after y; a quoted variable's text is
  evaluated without the guard against recursion; `set -u` refuses names in operands
  that are skipped and names assigned earlier in the expression.
- `arithmetic/mod.rs:353` and `:384` say that under `set -u` the name in `i+=1` is a target and
  not a read; the code goes by the token `=` alone (`:401`), so `(( i += 1 ))` with `i` unset is
  refused.

Texts.
- Parser, by the operators of MCLanguage: `time { a; } | b` times the first stage only
  (`TimesOneStage`); `{ a & }` is refused (`DetachedAtBrace`); `if if a; then b; fi; then`,
  `! while` inside a scanned list are misread (`HiddenOpener`); `echo fi` inside a compound command
  ends it (`KeywordArgument`); `for x; { a; }` inside a list (`UnclosedFor`), a brace after `!`
  (`UncountedBrace`), `f() { a` broken at the end of the line (`OpenedMidLine`); an operator after a
  function whose body is `if ... fi` goes to the body (`OperatorInBody`); `echo a in b | c`
  loses the pipe (`LooksLikeCaseStage`).
- Accepted though wrong: a missing `(`, a missing `)` of a pattern, `{` at the end of the
  input, `! fi`, `a && b &&`, `| a`. Scripts on the standard input are cut before a group
  over several lines or a trailing `|` is complete (`main.rs:526`).
- The text for a background child turns `|&` into `|` and loses the quotes of for words.
- Patterns: an anchored replacement ignores nocasematch; `${x//[!a][b]/}` and patterns with
  `|` or an empty alternative inside a group go wrong; extended patterns are not honoured
  in `${v#p}`.
- Pathnames: `*/` finds files under globstar off, `*/**` takes the star literally, `a/**/` omits `a/`,
  `**/.*` goes into hidden directories; GLOBIGNORE is compared with what follows the last
  slash (`glob.rs:843`), which is nothing for a result like `a/`: such a one is never ignored.
- Braces: what an expansion gave is scanned again, so that `{$,b}{c,d}` is `${c,d}`; a
  backslash in single quotes hides the closing quote.
- Tests: in `test` with more than three words a word that is also an operator is one;
  with four, `!` negates all; in `[[ ]]` a quoted `"("`, `"&&"` or `"!"` is an operator
  (`conditional/args.rs:34`); a wrong regular expression before `&&` gives 1 instead of 2.
  `-v a[i]` cuts an array's stored text at blanks, quoted or not
  (`builtins/test/variable.rs:119`): after `a=("x y")` it takes `a[1]` for set, and counts a
  negative index from an element that is not there.

## 7. What is not modelled

Planned, see section 2: word expansion and its parameters, aliases, options, arrays,
the lookup of commands.

Left out of the modules there are: in BackgroundJobs the text of the listing,
`jobs -n`, errors of the host's `wait` and `try_wait`, and stopped threads (a stopped child is a mark in the table, as in the code); in
SignalMailbox the trap table (what is done about a signal is any of what a table
can say); in FunctionFrames arrays, namerefs, the integer and case attributes and
POSIX mode; in ControlFlow `select`, `case`, coprocesses, pipelines, sourced files,
word-expansion failures and the DEBUG and RETURN traps; in Descriptors here-documents
and the redirections of one simple command, which leave no trace; in
WorkingDirectory the printing and the Windows spellings of a path; in Arithmetic
arrays and namerefs; of mapfile its own options and callback; of the parser
`select`, coprocesses, `(( ))`, assignments and most redirections; of the lexer
quotes, here-documents, substitutions and comments; of pathnames extended
patterns, nullglob and failglob; of tests the files they ask about.

Not planned: the formatting builtins (functions of text without state between
calls), history and completion (lists behind the host's line editor), and the start
of external commands beyond what BackgroundJobs and PipeProcesses have of it (the
set-up of a `std::process::Command`).
