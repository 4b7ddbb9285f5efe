---------------------------- MODULE SignalMailbox ----------------------------
(***************************************************************************)
(* Signals between rubash processes (src/src/builtins/kill.rs) and their    *)
(* dispatch to traps (run_pending_signal_traps, executor/trap_exec.rs).     *)
(*                                                                         *)
(* Each process owns two files: PID.alive, the marker, and PID.queue.  kill *)
(* looks at the marker, probes the process, opens the queue for append and  *)
(* writes a number and a newline, in two writes, or removes the two files   *)
(* of a process it found dead, in two steps; the owner reads the queue and  *)
(* removes it, in two steps, between two commands.  Nothing is locked.      *)
(*                                                                         *)
(* Signals have two-digit numbers, so a line made of two of them is no      *)
(* signal.  The trap table is not kept: what is done about a signal taken   *)
(* is any of the three things a table can say.  The EXIT trap and commands  *)
(* of a shell that is exiting are left out.                                 *)
(***************************************************************************)
EXTENDS Integers, FiniteSets, Sequences, Functions, Orders

CONSTANTS
  Procs,          \* rubash processes, by pid
  Owners,         \* those that register a mailbox: all but coproc children
  MaxSends,       \* bound on the signals sent
  MaxRestarts     \* bound on the processes that get the pid of one that ended

ASSUME MailboxConstants ==
  /\ Owners \subseteq Procs
  /\ MaxSends \in Nat /\ MaxRestarts \in Nat

VARIABLES
  pc,            \* where each process is
  target,        \* the process its kill in progress is for
  linked,        \* is the queue file that kill opened still there?
  marker,        \* processes whose .alive file exists
  queue,         \* contents of the .queue file: send numbers and newlines
  batch,         \* stack of the signals taken and not yet dispatched
  running,       \* Executor::signal_trap_running
  subshell,      \* subshell_depth > 0
  starts,        \* how many processes had this pid so far
  restarts,      \* how many of them got the pid of one that ended
  sent,          \* history: every send through a mailbox, [from, to, life]
  accepted,      \* history: the sends kill reported as delivered
  done,          \* history: the sends dispatched, in order
  dropped        \* history: sends its owner took and gave up

mailbox_vars == <<marker, queue, linked>>
lives == <<starts, restarts>>
shell_vars == <<batch, running, subshell, lives>>
history == <<sent, accepted, done, dropped>>
vars == <<pc, target, mailbox_vars, shell_vars, history>>

NoFile == << -1 >>        \* no .queue file
Newline == 0
Sends == 1..MaxSends
KillSteps == {"probe", "open", "digits", "newline", "clean", "clean queue", "native"}
Places == {"ended", "boundary", "run", "blocked", "remove", "dispatch", "exit", "unlink"}
          \cup KillSteps

Init ==
  /\ pc = [p \in Procs |-> "boundary"] /\ target = [p \in Procs |-> p]
  /\ linked = [p \in Procs |-> FALSE]
  /\ marker = Owners /\ queue = [p \in Procs |-> NoFile]
  /\ batch = [p \in Procs |-> << >>] /\ running = [p \in Procs |-> FALSE]
  /\ subshell = [p \in Procs |-> FALSE]
  /\ starts = [p \in Procs |-> 1] /\ restarts = 0
  /\ sent = << >> /\ accepted = {} /\ done = << >> /\ dropped = {}

Go(p, place) == pc' = [pc EXCEPT ![p] = place]

\* No kill in progress.
NoTarget(p) == target' = [target EXCEPT ![p] = p]

\* The number of the send that p's kill is writing: a process sends one at a time.
Current(p) == CHOOSE i \in DOMAIN sent :
  sent[i].from = p /\ \A k \in DOMAIN sent : sent[k].from = p => k <= i

----------------------------------------------------------------------------
(* kill.                                                                   *)

\* signal_process ends q at once; its files stay.
Terminate(p, q) == pc' = IF p = q THEN [pc EXCEPT ![p] = "ended"]
                         ELSE [pc EXCEPT ![p] = "boundary", ![q] = "ended"]

\* execute_with_io and the start of deliver_rubash_signal: a marker leads to the
\* mailbox, unless the signal is KILL.
Kill(p, q) ==
  /\ pc[p] = "run"
  /\ q \in marker /\ Len(sent) < MaxSends
  /\ sent' = Append(sent, [from |-> p, to |-> q, life |-> starts[q]])
  /\ target' = [target EXCEPT ![p] = q]
  /\ Go(p, "probe")
  /\ UNCHANGED <<mailbox_vars, shell_vars, accepted, done, dropped>>

\* Without a marker, and for KILL, the host process is signalled.
KillNative(p, q) ==
  /\ pc[p] = "run"
  /\ IF pc[q] = "ended" THEN Go(p, "boundary") ELSE Terminate(p, q)
  /\ UNCHANGED <<target, mailbox_vars, shell_vars, history>>

\* Faulty variant: a target that may not be signalled is taken for a dead one.
Probe_DeniedIsDead(p) ==
  /\ pc[p] = "probe"
  /\ \E place \in {"open", "clean"} : (pc[target[p]] = "ended" => place = "clean") /\ Go(p, place)
  /\ UNCHANGED <<target, mailbox_vars, shell_vars, history>>

\* process_exists: the files of a dead target are to be removed.
Probe(p) ==
  /\ pc[p] = "probe"
  /\ Go(p, IF pc[target[p]] # "ended" THEN "open" ELSE "clean")
  /\ UNCHANGED <<target, mailbox_vars, shell_vars, history>>

\* unregister_signal_mailbox: the marker, then the queue, whoever has the pid by now.
CleanMarker(p) ==
  /\ pc[p] = "clean" /\ Go(p, "clean queue")
  /\ marker' = marker \ {target[p]}
  /\ UNCHANGED <<target, queue, linked, shell_vars, history>>

CleanQueue(p) ==
  /\ pc[p] = "clean queue" /\ Go(p, "native")
  /\ queue' = [queue EXCEPT ![target[p]] = NoFile]
  /\ linked' = [r \in Procs |-> linked[r] /\ target[r] # target[p]]
  /\ UNCHANGED <<target, marker, shell_vars, history>>

\* The mailbox did not take the signal: execute_with_io turns to the host process.
SignalNative(p) ==
  /\ pc[p] = "native"
  /\ IF pc[target[p]] = "ended" THEN Go(p, "boundary") ELSE Terminate(p, target[p])
  /\ NoTarget(p)
  /\ UNCHANGED <<mailbox_vars, shell_vars, history>>

Open(p) ==
  LET q == target[p]
  IN  /\ pc[p] = "open"
      /\ queue' = [queue EXCEPT ![q] = IF @ = NoFile THEN << >> ELSE @]
      /\ linked' = [linked EXCEPT ![p] = TRUE]
      /\ Go(p, "digits")
      /\ UNCHANGED <<target, marker, shell_vars, history>>

\* writeln! on an unbuffered File: the number and the newline are two writes.
\* A write to a file that was removed meanwhile succeeds and goes nowhere.
WriteTo(p, item) ==
  /\ queue' = [queue EXCEPT ![target[p]] = IF linked[p] THEN Append(@, item) ELSE @]
  /\ UNCHANGED <<marker, shell_vars, sent, done, dropped>>

WriteDigits(p) ==
  /\ pc[p] = "digits" /\ Go(p, "newline")
  /\ WriteTo(p, Current(p)) /\ UNCHANGED <<target, linked, accepted>>

WriteNewline(p) ==
  /\ pc[p] = "newline" /\ Go(p, "boundary")
  /\ WriteTo(p, Newline) /\ linked' = [linked EXCEPT ![p] = FALSE]
  /\ NoTarget(p)
  /\ accepted' = accepted \cup {Current(p)}

----------------------------------------------------------------------------
(* Taking and dispatching.                                                 *)

\* Faulty variant: a line that is no number is taken as signal 0.
TakenFrom_BlankLines(content) == content

\* Line k of a queue file is one signal.
WholeLine(content, k) ==
  /\ content[k] # Newline
  /\ k = 1 \/ content[k - 1] = Newline
  /\ k = Len(content) \/ content[k + 1] = Newline

\* The signals in a queue file, in the order of their lines.
TakenFrom(content) ==
  LET lines == InOrder({k \in DOMAIN content : WholeLine(content, k)})
  IN  [i \in DOMAIN lines |-> content[lines[i]]]

\* Faulty variant: the signals of a second take run inside the first handler.
TakePending_Nested(p) ==
  /\ pc[p] = "boundary"
  /\ IF subshell[p] \/ queue[p] = NoFile THEN Go(p, "run") /\ UNCHANGED batch
     ELSE Go(p, "remove") /\ batch' = [batch EXCEPT ![p] = <<TakenFrom(queue[p])>> \o @]
  /\ UNCHANGED <<target, mailbox_vars, running, subshell, lives, history>>

\* run_pending_signal_traps at a command boundary, up to read_to_string: nothing
\* while a signal trap runs, in a subshell, or without a queue file.
TakePending(p) ==
  /\ pc[p] = "boundary"
  /\ IF running[p] \/ subshell[p] \/ queue[p] = NoFile THEN Go(p, "run") /\ UNCHANGED batch
     ELSE Go(p, "remove") /\ batch' = [batch EXCEPT ![p] = <<TakenFrom(queue[p])>> \o @]
  /\ UNCHANGED <<target, mailbox_vars, running, subshell, lives, history>>

\* Faulty variant: the file stays when it is read.
RemoveQueue_Keeps(p) ==
  /\ pc[p] = "remove" /\ Go(p, "dispatch")
  /\ UNCHANGED <<target, mailbox_vars, shell_vars, history>>

RemoveQueue(p) ==
  /\ pc[p] = "remove" /\ Go(p, "dispatch")
  /\ queue' = [queue EXCEPT ![p] = NoFile]
  /\ linked' = [r \in Procs |-> linked[r] /\ target[r] # p]
  /\ UNCHANGED <<target, marker, shell_vars, history>>

\* The error of a handler or a default leaves run_pending_signal_traps: what was
\* taken and not dispatched is gone.
GiveUp(p, place) ==
  /\ dropped' = dropped \cup UNION {Range(batch[p][k]) : k \in DOMAIN batch[p]}
  /\ batch' = [batch EXCEPT ![p] = << >>]
  /\ Go(p, place)

\* The loop over the signals taken: an empty trap or an ignored default (SIGCHLD)
\* skips the signal, a handler runs, any other default ends the shell.
Dispatch(p) ==
  LET taken == Head(batch[p])
      rest == [batch EXCEPT ![p] = <<Tail(taken)>> \o Tail(@)]
  IN  /\ pc[p] = "dispatch"
      /\ \/ /\ taken = << >>
            /\ batch' = [batch EXCEPT ![p] = Tail(@)]
            /\ Go(p, "run")
            /\ UNCHANGED <<running, done, dropped>>
         \/ /\ taken # << >>
            /\ done' = Append(done, Head(taken))
            /\ \/ batch' = rest /\ UNCHANGED <<pc, running, dropped>>
               \/ /\ batch' = rest /\ Go(p, "boundary")
                  /\ running' = [running EXCEPT ![p] = TRUE]
                  /\ UNCHANGED dropped
               \/ GiveUp(p, "exit") /\ UNCHANGED running
      /\ UNCHANGED <<target, mailbox_vars, subshell, lives, sent, accepted>>

\* In a handler's commands: the loop over the signals taken is still on.
InHandler(p) == pc[p] = "run" /\ running[p] /\ ~subshell[p] /\ batch[p] # << >>

\* Faulty variant: signal_trap_running stays set.
HandlerEnd_KeepsRunning(p) ==
  /\ InHandler(p)
  /\ Go(p, "dispatch")
  /\ UNCHANGED <<target, mailbox_vars, shell_vars, history>>

\* The handler's commands are over.
HandlerEnd(p) ==
  /\ InHandler(p)
  /\ running' = [running EXCEPT ![p] = FALSE]
  /\ Go(p, "dispatch")
  /\ UNCHANGED <<target, mailbox_vars, batch, subshell, lives, history>>

\* The handler executes return: the signals taken with it are given up.
HandlerReturn(p) ==
  /\ InHandler(p)
  /\ running' = [running EXCEPT ![p] = FALSE]
  /\ GiveUp(p, "boundary")
  /\ UNCHANGED <<target, mailbox_vars, subshell, lives, sent, accepted, done>>

----------------------------------------------------------------------------
(* The other commands of a shell, as far as signals go.                    *)

Command(p) ==
  /\ pc[p] = "run" /\ Go(p, "boundary")
  /\ UNCHANGED <<target, mailbox_vars, shell_vars, history>>

\* ( ... ) evaluated in place: its commands run at subshell_depth + 1.
EnterSubshell(p) ==
  /\ pc[p] = "run" /\ ~subshell[p] /\ Go(p, "boundary")
  /\ subshell' = [subshell EXCEPT ![p] = TRUE]
  /\ UNCHANGED <<target, mailbox_vars, batch, running, lives, history>>

LeaveSubshell(p) ==
  /\ pc[p] = "run" /\ subshell[p] /\ Go(p, "boundary")
  /\ subshell' = [subshell EXCEPT ![p] = FALSE]
  /\ UNCHANGED <<target, mailbox_vars, batch, running, lives, history>>

\* A command that blocks, such as wait in Child::wait or read on a pipe.
Block(p) ==
  /\ pc[p] = "run" /\ Go(p, "blocked")
  /\ UNCHANGED <<target, mailbox_vars, shell_vars, history>>

Unblock(p) ==
  /\ pc[p] = "blocked" /\ Go(p, "boundary")
  /\ UNCHANGED <<target, mailbox_vars, shell_vars, history>>

\* The shell ends and drops its Executor, which removes the two files in turn
\* (an exit in a subshell only ends the subshell).
Exit(p) ==
  /\ pc[p] = "run" /\ ~subshell[p] /\ GiveUp(p, "exit")
  /\ UNCHANGED <<target, mailbox_vars, running, subshell, lives, sent, accepted, done>>

RemoveMarker(p) ==
  /\ pc[p] = "exit" /\ Go(p, "unlink")
  /\ marker' = marker \ (Owners \cap {p})
  /\ UNCHANGED <<target, linked, queue, shell_vars, history>>

UnlinkQueue(p) ==
  /\ pc[p] = "unlink" /\ Go(p, "ended")
  /\ IF p \in Owners
     THEN /\ queue' = [queue EXCEPT ![p] = NoFile]
          /\ linked' = [r \in Procs |-> linked[r] /\ target[r] # p]
     ELSE UNCHANGED <<queue, linked>>
  /\ UNCHANGED <<target, marker, shell_vars, history>>

\* Executor::new in a process that got the pid of one that ended.
Start(p) ==
  /\ pc[p] = "ended" /\ restarts < MaxRestarts
  /\ Go(p, "boundary")
  /\ starts' = [starts EXCEPT ![p] = @ + 1] /\ restarts' = restarts + 1
  /\ marker' = marker \cup (Owners \cap {p})
  /\ linked' = [linked EXCEPT ![p] = FALSE]
  /\ batch' = [batch EXCEPT ![p] = << >>] /\ running' = [running EXCEPT ![p] = FALSE]
  /\ subshell' = [subshell EXCEPT ![p] = FALSE]
  /\ NoTarget(p)
  /\ UNCHANGED <<queue, history>>

----------------------------------------------------------------------------

KillStep(p) ==
  \/ \E q \in Procs : Kill(p, q) \/ KillNative(p, q)
  \/ Probe(p) \/ Open(p) \/ WriteDigits(p) \/ WriteNewline(p)
  \/ CleanMarker(p) \/ CleanQueue(p) \/ SignalNative(p)

TrapStep(p) ==
  TakePending(p) \/ RemoveQueue(p) \/ Dispatch(p) \/ HandlerEnd(p) \/ HandlerReturn(p)

ShellStep(p) ==
  \/ Command(p) \/ EnterSubshell(p) \/ LeaveSubshell(p) \/ Block(p) \/ Unblock(p)
  \/ Exit(p) \/ RemoveMarker(p) \/ UnlinkQueue(p) \/ Start(p)

Next == \E p \in Procs : KillStep(p) \/ TrapStep(p) \/ ShellStep(p)

Spec == Init /\ [][Next]_vars

\* A shell that is not blocked goes on to its next step and its next command
\* (fairness of Command stands for any command).
StepsFair(p) ==
  /\ WF_vars(TakePending(p)) /\ WF_vars(RemoveQueue(p)) /\ WF_vars(Dispatch(p))
  /\ WF_vars(Probe(p)) /\ WF_vars(Open(p)) /\ WF_vars(WriteDigits(p))
  /\ WF_vars(WriteNewline(p)) /\ WF_vars(Command(p))
  /\ WF_vars(CleanMarker(p)) /\ WF_vars(CleanQueue(p)) /\ WF_vars(SignalNative(p))
  /\ WF_vars(RemoveMarker(p)) /\ WF_vars(UnlinkQueue(p))

\* Handlers and subshells end: the commands in them do.
ScopesEnd(p) == SF_vars(HandlerEnd(p) \/ HandlerReturn(p)) /\ SF_vars(LeaveSubshell(p))

StepsFairSpec == Spec /\ \A p \in Procs : StepsFair(p) /\ ScopesEnd(p)

\* ... and so does whatever blocks the shell.
FairSpec == StepsFairSpec /\ \A p \in Procs : WF_vars(Unblock(p))

----------------------------------------------------------------------------
(* Properties.                                                             *)

\* Every variable has its type (the type invariant).
TypeOK ==
  /\ pc \in [Procs -> Places] /\ target \in [Procs -> Procs]
  /\ linked \in [Procs -> BOOLEAN] /\ marker \subseteq Owners
  /\ \A p \in Procs : queue[p] = NoFile \/ Range(queue[p]) \subseteq Sends \cup {Newline}
  /\ \A p \in Procs : \A k \in DOMAIN batch[p] : Range(batch[p][k]) \subseteq Sends
  /\ running \in [Procs -> BOOLEAN] /\ subshell \in [Procs -> BOOLEAN]
  /\ starts \in [Procs -> 1 .. MaxRestarts + 1] /\ restarts \in 0 .. MaxRestarts
  /\ Len(sent) <= MaxSends /\ accepted \subseteq DOMAIN sent
  /\ Range(done) \subseteq Sends /\ dropped \subseteq Sends

\* No signal is dispatched twice, and two signals from one process to another
\* are dispatched in the order they were sent, whatever takes, handlers and
\* other senders come between.
OrderedOnce ==
  \A i, k \in DOMAIN done : i < k =>
    /\ done[i] # done[k]
    /\ sent[done[i]].from = sent[done[k]].from /\ sent[done[i]].to = sent[done[k]].to
         => done[i] < done[k]

\* Handlers do not nest: the signals taken in one batch are dealt with before
\* the next are taken, so a handler never starts inside another.
HandlersDoNotNest == \A p \in Procs : Len(batch[p]) <= 1

\* The mailbox and the batches hold what was sent, every signal is dispatched at
\* most once and in order, and never inside the handler of another.
DispatchSound == TypeOK /\ OrderedOnce /\ HandlersDoNotNest

InMailbox(i) == \E p \in Procs : queue[p] # NoFile /\ i \in Range(queue[p])
Taken(i) == \E p \in Procs : \E k \in DOMAIN batch[p] : i \in Range(batch[p][k])
\* Delivered to the process sent[i].to was then, which lives, and nowhere now.
Lost(i) ==
  /\ i \in accepted /\ sent[i].life = starts[sent[i].to]
  /\ pc[sent[i].to] \notin {"ended", "exit", "unlink"}
  /\ ~InMailbox(i) /\ ~Taken(i) /\ i \notin Range(done) \cup dropped

\* A signal in the mailbox is taken, if the shell's commands, handlers and
\* subshells end, unless its owner ends first.
SignalsTaken ==
  \A p \in Owners : (p \in marker /\ queue[p] # NoFile) ~> (queue[p] = NoFile \/ pc[p] = "ended")

----------------------------------------------------------------------------
(* What the repository says and the code does not do.                      *)

\* A signal that kill delivered to a live shell is pending until it is
\* dispatched (busybox ash-signals/signal1: five kills, five "got signal").
SignalsKept == \A i \in DOMAIN sent : ~Lost(i)
=============================================================================
