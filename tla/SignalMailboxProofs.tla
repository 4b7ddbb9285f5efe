------------------------- MODULE SignalMailboxProofs -------------------------
(***************************************************************************)
(* Proofs about the signal mailbox: for any number of processes, of sends   *)
(* and of restarts, no signal is dispatched twice, none overtakes another   *)
(* of the same sender, no handler starts inside another, and a signal that  *)
(* kill delivered is lost in a race only.                                   *)
(*                                                                         *)
(* DispatchSound speaks of what has been dispatched; a signal gets there    *)
(* from the queue file by way of a batch.  MailInv orders the three: what   *)
(* was dispatched comes before what is in the batch, and that before what   *)
(* is in the file, except while the file just read is still there.  RaceInv *)
(* follows a send that met no race from kill to its end.                    *)
(***************************************************************************)
EXTENDS SignalRaces, OrderProofs, SequenceTheorems, TLAPS

----------------------------------------------------------------------------
(* The lines of a text.                                                    *)

\* The numbers in a text.
Numbers(content) == {content[k] : k \in {k \in DOMAIN content : content[k] # Newline}}

\* The texts of queue files.
Texts == Seq(Sends \cup {Newline})

\* The signals taken from a text are those that are lines of their own, in the
\* order they stand in the text.
LEMMA TakenFromText ==
  ASSUME NEW content \in Texts
  PROVE  /\ TakenFrom(content) \in Seq(Sends)
         /\ Range(TakenFrom(content)) =
              {content[k] : k \in {k \in DOMAIN content : WholeLine(content, k)}}
         /\ Range(TakenFrom(content)) \subseteq Numbers(content)
         /\ \A i, k \in DOMAIN TakenFrom(content) : i < k =>
              \E a, b \in DOMAIN content :
                /\ a < b /\ content[a] # Newline /\ content[b] # Newline
                /\ TakenFrom(content)[i] = content[a] /\ TakenFrom(content)[k] = content[b]
<1> DEFINE W == {k \in DOMAIN content : WholeLine(content, k)}
           f == InOrder(W)
<1>1. Len(content) \in Nat /\ DOMAIN content = 1 .. Len(content)
  BY DEF Texts
<1>2. W \in SUBSET (1 .. Len(content))
  BY <1>1
<1>3. /\ f \in Seq(W) /\ Range(f) = W
      /\ \A i, k \in DOMAIN f : i < k => f[i] < f[k]
  BY <1>1, <1>2, InOrderOrders
<1>4. TakenFrom(content) = [i \in DOMAIN f |-> content[f[i]]]
  BY DEF TakenFrom
<1>5. \A k \in W : content[k] \in Sends /\ content[k] # Newline /\ k \in DOMAIN content
  BY DEF WholeLine, Texts
<1> HIDE DEF W, f
<1>6. DOMAIN f = 1 .. Len(f) /\ Len(f) \in Nat /\ \A i \in DOMAIN f : f[i] \in W
  BY <1>3
<1>7. TakenFrom(content) \in Seq(Sends)
  BY <1>4, <1>5, <1>6
<1>8. Range(TakenFrom(content)) = {content[k] : k \in W}
  BY <1>3, <1>4 DEF Range
<1>9. Range(TakenFrom(content)) \subseteq Numbers(content)
  BY <1>5, <1>8 DEF Numbers
<1>10. ASSUME NEW i \in DOMAIN TakenFrom(content), NEW k \in DOMAIN TakenFrom(content), i < k
       PROVE  \E a, b \in DOMAIN content :
                /\ a < b /\ content[a] # Newline /\ content[b] # Newline
                /\ TakenFrom(content)[i] = content[a] /\ TakenFrom(content)[k] = content[b]
  <2>1. i \in DOMAIN f /\ k \in DOMAIN f
    BY <1>4
  <2>2. f[i] < f[k] /\ f[i] \in W /\ f[k] \in W
    BY <2>1, <1>3, <1>6, <1>10
  <2> QED BY <2>1, <2>2, <1>4, <1>5
<1> QED BY <1>7, <1>8, <1>9, <1>10 DEF W

----------------------------------------------------------------------------
(* The inductive invariant.                                                *)

SendRecord == [from : Procs, to : Procs, life : Nat]

\* The full types of the variables.
MailTyped ==
  /\ pc \in [Procs -> Places] /\ target \in [Procs -> Procs]
  /\ linked \in [Procs -> BOOLEAN] /\ marker \subseteq Owners
  /\ queue \in [Procs -> {NoFile} \cup Texts] /\ batch \in [Procs -> Seq(Seq(Sends))]
  /\ running \in [Procs -> BOOLEAN] /\ subshell \in [Procs -> BOOLEAN]
  /\ starts \in [Procs -> Nat] /\ restarts \in 0 .. MaxRestarts
  /\ \A p \in Procs : starts[p] \in 1 .. restarts + 1
  /\ sent \in Seq(SendRecord) /\ Len(sent) <= MaxSends
  /\ accepted \subseteq DOMAIN sent /\ done \in Seq(Sends) /\ dropped \subseteq Sends

\* The signals in p's file and in its batch.
InFile(p) == IF queue[p] = NoFile THEN {} ELSE Numbers(queue[p])
InBatch(p) == IF batch[p] = << >> THEN {} ELSE Range(batch[p][1])

\* Nothing but what was sent is in a file, in a batch or dispatched.
KnownInv ==
  /\ \A p \in Procs : InFile(p) \cup InBatch(p) \subseteq DOMAIN sent
  /\ Range(done) \subseteq DOMAIN sent

\* i is the last send of p.
IsCurrent(p, i) ==
  /\ i \in DOMAIN sent /\ sent[i].from = p
  /\ \A k \in DOMAIN sent : sent[k].from = p => k <= i

\* Send i has not got anywhere.
Nowhere(i) == i \notin Range(done) /\ \A q \in Procs : i \notin InFile(q) \cup InBatch(q)

\* A kill in progress is about the last send of its process.  The file it opened
\* is there as long as linked says so.
KillInv ==
  \A p \in Procs :
    /\ pc[p] \in KillSteps =>
         \E i \in DOMAIN sent : IsCurrent(p, i) /\ sent[i].to = target[p]
           /\ (pc[p] # "newline" => Nowhere(i))
    /\ linked[p] => queue[target[p]] # NoFile /\ pc[p] \in {"digits", "newline", "ended"}

\* A batch is there exactly while its signals are dealt with, one at a time.
BatchInv ==
  \A p \in Procs :
    /\ Len(batch[p]) <= 1
    /\ pc[p] \in {"remove", "dispatch"} => Len(batch[p]) = 1 /\ ~running[p]
    /\ batch[p] # << >> => running[p] \/ pc[p] \in {"remove", "dispatch", "ended"}

\* Send i comes before send k where both are for one process: they are two and,
\* if of the same sender, i is the earlier one.
Before(i, k) == i # k /\ (sent[i].from = sent[k].from => i < k)

\* The numbers of one text stand in order.
TextOrdered(content) ==
  \A i, k \in DOMAIN content :
    i < k /\ content[i] # Newline /\ content[k] # Newline => Before(content[i], content[k])

\* Send i is for p and comes after what was dispatched.
AfterDone(p, i) ==
  /\ sent[i].to = p /\ i \notin Range(done)
  /\ \A d \in Range(done) : sent[d].to = p => Before(d, i)

FileOrdered(p) ==
  /\ queue[p] # NoFile => TextOrdered(queue[p])
  /\ \A i \in InFile(p) : AfterDone(p, i)

BatchOrdered(p) ==
  /\ batch[p] # << >> => TextOrdered(batch[p][1])
  /\ \A i \in InBatch(p) : AfterDone(p, i)
  /\ pc[p] \notin {"remove", "ended"} =>
       \A i \in InBatch(p) : \A k \in InFile(p) : Before(i, k)

OrderInv == OrderedOnce /\ \A p \in Procs : FileOrdered(p) /\ BatchOrdered(p)

MailInv == MailTyped /\ KnownInv /\ KillInv /\ BatchInv /\ OrderInv

Step(p) == KillStep(p) \/ TrapStep(p) \/ ShellStep(p)

----------------------------------------------------------------------------
(* What the helpers do in a state of the invariant.                        *)

\* Current finds the last send.
LEMMA CurrentIs ==
  ASSUME MailTyped, NEW p \in Procs, NEW i, IsCurrent(p, i)
  PROVE  Current(p) = i
<1>1. \A k : IsCurrent(p, k) => k = i
  BY DEF IsCurrent, MailTyped
<1> QED BY <1>1 DEF Current, IsCurrent

\* NoFile is no text.
LEMMA NoFileIsNoText == NoFile \notin Texts
<1> SUFFICES ASSUME NoFile \in Texts PROVE FALSE
  OBVIOUS
<1>1. NoFile[1] \in Sends \cup {Newline}
  BY DEF Texts, NoFile
<1> QED BY <1>1, MailboxConstants DEF NoFile, Sends, Newline

\* The numbers of a text one item longer.
LEMMA NumbersOfAppend ==
  ASSUME NEW content \in Texts, NEW item \in Sends \cup {Newline}
  PROVE  /\ Append(content, item) \in Texts
         /\ Numbers(Append(content, item)) = Numbers(content) \cup ({item} \ {Newline})
<1>1. Append(content, item) \in Texts
  BY DEF Texts
<1>2. /\ DOMAIN content = 1 .. Len(content) /\ Len(content) \in Nat
      /\ DOMAIN Append(content, item) = 1 .. Len(content) + 1
      /\ \A k \in 1 .. Len(content) : Append(content, item)[k] = content[k]
      /\ Append(content, item)[Len(content) + 1] = item
  BY DEF Texts
<1>3. \A x : x \in Numbers(content) =>
        x \in Numbers(Append(content, item))
  BY <1>2 DEF Numbers
<1>4. item # Newline => item \in Numbers(Append(content, item))
  BY <1>2 DEF Numbers
<1>5. ASSUME NEW k \in DOMAIN Append(content, item), Append(content, item)[k] # Newline
      PROVE  Append(content, item)[k] \in Numbers(content) \cup ({item} \ {Newline})
  <2>1. CASE k = Len(content) + 1
    BY <2>1, <1>2, <1>5
  <2>2. CASE k # Len(content) + 1
    <3>1. k \in 1 .. Len(content)
      BY <2>2, <1>2
    <3> QED BY <3>1, <1>2, <1>5 DEF Numbers
  <2> QED BY <2>1, <2>2
<1>6. Numbers(Append(content, item)) \subseteq Numbers(content) \cup ({item} \ {Newline})
  BY <1>5 DEF Numbers
<1> QED BY <1>1, <1>3, <1>4, <1>6

\* What is in a sequence one item longer.
LEMMA RangeAppend ==
  ASSUME NEW S, NEW s \in Seq(S), NEW x \in S
  PROVE  Range(Append(s, x)) = Range(s) \cup {x}
<1>1. /\ DOMAIN s = 1 .. Len(s) /\ Len(s) \in Nat
      /\ DOMAIN Append(s, x) = 1 .. Len(s) + 1
      /\ \A k \in 1 .. Len(s) : Append(s, x)[k] = s[k]
      /\ Append(s, x)[Len(s) + 1] = x
  OBVIOUS
<1>2. ASSUME NEW k \in DOMAIN Append(s, x)
      PROVE  Append(s, x)[k] \in Range(s) \cup {x}
  <2>1. CASE k = Len(s) + 1
    BY <2>1, <1>1
  <2>2. CASE k # Len(s) + 1
    <3>1. k \in 1 .. Len(s)
      BY <2>2, <1>1
    <3> QED BY <3>1, <1>1 DEF Range
  <2> QED BY <2>1, <2>2
<1>3. \A y \in Range(s) \cup {x} : y \in Range(Append(s, x))
  BY <1>1 DEF Range
<1> QED BY <1>2, <1>3 DEF Range

\* A batch of one.
LEMMA BatchOfOne ==
  ASSUME NEW b \in Seq(Seq(Sends)), NEW t \in Seq(Sends)
  PROVE  /\ Len(b) = 1 => Tail(b) = << >> /\ Head(b) = b[1] /\ b[1] \in Seq(Sends)
         /\ Len(b) = 1 => <<t>> \o Tail(b) = <<t>>
         /\ b = << >> => <<t>> \o b = <<t>>
<1> DEFINE T == Seq(Sends)
<1>1. ASSUME Len(b) = 1
      PROVE  Tail(b) = << >> /\ Head(b) = b[1] /\ b[1] \in Seq(Sends)
  <2> HIDE DEF T
  <2>1. b \in Seq(T) /\ b # << >>
    BY <1>1 DEF T
  <2>2. Tail(b) \in Seq(T) /\ Len(Tail(b)) = 0
    BY <2>1, <1>1, HeadTailProperties
  <2>3. Tail(b) = << >>
    BY <2>2, EmptySeq
  <2>4. Head(b) = b[1] /\ b[1] \in T
    BY <2>1, <1>1
  <2> QED BY <2>3, <2>4 DEF T
<1>2. <<t>> \o << >> = <<t>>
  <2>1. <<t>> \in Seq(T)
    OBVIOUS
  <2> QED BY <2>1, ConcatEmptySeq
<1> QED BY <1>1, <1>2

----------------------------------------------------------------------------
(* The steps.                                                              *)

\* Every step leaves the sends made so far as they are.
LEMMA SendsStay ==
  ASSUME MailTyped, NEW p \in Procs, Step(p)
  PROVE  /\ Len(sent) \in Nat /\ DOMAIN sent = 1 .. Len(sent) /\ DOMAIN sent \subseteq DOMAIN sent'
         /\ \A i \in DOMAIN sent : sent'[i] = sent[i]
<1>1. \/ sent' = sent
      \/ \E r \in SendRecord : sent' = Append(sent, r)
  <2>1. CASE \E q \in Procs : Kill(p, q)
    BY <2>1 DEF Kill, SendRecord, MailTyped
  <2> QED
    BY <2>1
    DEF Step, KillStep, TrapStep, ShellStep, KillNative, Probe, CleanMarker, CleanQueue,
        SignalNative, Open, WriteDigits, WriteNewline,
        WriteTo, TakePending, RemoveQueue, Dispatch, HandlerEnd, HandlerReturn, Command,
        EnterSubshell, LeaveSubshell, Block, Unblock, Exit, RemoveMarker, UnlinkQueue, Start, history
<1>2. Len(sent) \in Nat /\ DOMAIN sent = 1 .. Len(sent)
  BY DEF MailTyped
<1>3. ASSUME NEW r \in SendRecord, sent' = Append(sent, r)
      PROVE  DOMAIN sent \subseteq DOMAIN sent' /\ \A i \in DOMAIN sent : sent'[i] = sent[i]
  BY <1>2, <1>3 DEF MailTyped
<1> QED BY <1>1, <1>2, <1>3

\* A kill's number is that of the last send of its process.
LEMMA CurrentKnown ==
  ASSUME MailInv, NEW p \in Procs, pc[p] \in KillSteps
  PROVE  /\ IsCurrent(p, Current(p)) /\ sent[Current(p)].to = target[p]
         /\ Current(p) \in DOMAIN sent /\ Current(p) \in Sends
         /\ pc[p] # "newline" => Nowhere(Current(p))
<1>1. PICK i \in DOMAIN sent :
        IsCurrent(p, i) /\ sent[i].to = target[p] /\ (pc[p] # "newline" => Nowhere(i))
  BY DEF MailInv, KillInv
<1>2. Current(p) = i
  BY <1>1, CurrentIs DEF MailInv
<1>3. i \in Sends
  BY MailboxConstants DEF MailInv, MailTyped, Sends
<1> QED BY <1>1, <1>2, <1>3

\* What a write does to the queue files.
LEMMA WrittenTo ==
  ASSUME MailInv, NEW p \in Procs, NEW item \in Sends \cup {Newline}, WriteTo(p, item)
  PROVE  /\ linked[p] => queue[target[p]] \in Texts /\ queue[target[p]] # NoFile
         /\ \A q \in Procs :
              queue'[q] = IF q = target[p] /\ linked[p] THEN Append(queue[q], item) ELSE queue[q]
         /\ queue' \in [Procs -> {NoFile} \cup Texts]
<1>1. /\ target[p] \in Procs /\ queue \in [Procs -> {NoFile} \cup Texts]
      /\ linked[p] \in BOOLEAN
  BY DEF MailInv, MailTyped
<1>2. linked[p] => queue[target[p]] \in Texts /\ queue[target[p]] # NoFile
  BY <1>1 DEF MailInv, KillInv
<1>3. linked[p] => Append(queue[target[p]], item) \in Texts
  BY <1>2, NumbersOfAppend
<1>4. queue' = [queue EXCEPT ![target[p]] =
                  IF linked[p] THEN Append(queue[target[p]], item) ELSE queue[target[p]]]
  BY DEF WriteTo
<1> QED BY <1>1, <1>2, <1>3, <1>4

\* What a take does to the batch.
LEMMA TakenInto ==
  ASSUME MailInv, NEW p \in Procs, TakePending(p), pc'[p] = "remove"
  PROVE  /\ queue[p] \in Texts /\ queue[p] # NoFile /\ ~running[p] /\ ~subshell[p]
         /\ batch[p] = << >> /\ batch' = [batch EXCEPT ![p] = <<TakenFrom(queue[p])>>]
         /\ pc' = [pc EXCEPT ![p] = "remove"]
<1>1. pc[p] = "boundary" /\ pc \in [Procs -> Places] /\ batch[p] \in Seq(Seq(Sends))
  BY DEF TakePending, MailInv, MailTyped
<1>2. /\ ~running[p] /\ ~subshell[p] /\ queue[p] # NoFile /\ pc' = [pc EXCEPT ![p] = "remove"]
      /\ batch' = [batch EXCEPT ![p] = <<TakenFrom(queue[p])>> \o batch[p]]
  BY <1>1 DEF TakePending, Go
<1>3. queue[p] \in Texts /\ batch[p] = << >>
  BY <1>1, <1>2 DEF MailInv, MailTyped, BatchInv
<1>4. TakenFrom(queue[p]) \in Seq(Sends)
  BY <1>3, TakenFromText
<1>5. <<TakenFrom(queue[p])>> \o batch[p] = <<TakenFrom(queue[p])>>
  BY <1>1, <1>3, <1>4, BatchOfOne
<1> QED BY <1>2, <1>3, <1>5

\* What a round of the dispatch loop does: the batch is over, or its first signal
\* is done and the rest stays, or is given up.
LEMMA Dispatched ==
  ASSUME MailInv, NEW p \in Procs, Dispatch(p)
  PROVE  /\ Len(batch[p]) = 1 /\ batch[p][1] \in Seq(Sends)
         /\ \/ /\ batch[p][1] = << >> /\ batch' = [batch EXCEPT ![p] = << >>]
               /\ pc' = [pc EXCEPT ![p] = "run"] /\ UNCHANGED <<running, done, dropped>>
            \/ /\ batch[p][1] # << >> /\ done' = Append(done, Head(batch[p][1]))
               /\ \/ /\ batch' = [batch EXCEPT ![p] = <<Tail(batch[p][1])>>] /\ UNCHANGED dropped
                     /\ \/ UNCHANGED <<pc, running>>
                        \/ /\ pc' = [pc EXCEPT ![p] = "boundary"]
                           /\ running' = [running EXCEPT ![p] = TRUE]
                  \/ GiveUp(p, "exit") /\ UNCHANGED running
<1>1. pc[p] = "dispatch" /\ batch[p] \in Seq(Seq(Sends)) /\ Len(batch[p]) = 1
  BY DEF Dispatch, MailInv, MailTyped, BatchInv
<1>2. Head(batch[p]) = batch[p][1] /\ Tail(batch[p]) = << >> /\ batch[p][1] \in Seq(Sends)
  BY <1>1, BatchOfOne
<1>3. batch[p][1] # << >> =>
        <<Tail(batch[p][1])>> \o Tail(batch[p]) = <<Tail(batch[p][1])>>
  BY <1>1, <1>2, BatchOfOne, HeadTailProperties
<1> QED BY <1>1, <1>2, <1>3 DEF Dispatch, Go

\* What is given up was sent.
LEMMA GivenUp ==
  ASSUME MailInv, NEW p \in Procs, NEW place \in Places, GiveUp(p, place)
  PROVE  /\ dropped' \subseteq Sends /\ batch' = [batch EXCEPT ![p] = << >>]
         /\ batch' \in [Procs -> Seq(Seq(Sends))]
         /\ pc' = [pc EXCEPT ![p] = place] /\ pc' \in [Procs -> Places]
<1>1. ASSUME NEW k \in DOMAIN batch[p] PROVE Range(batch[p][k]) \subseteq Sends
  <2>1. batch[p][k] \in Seq(Sends)
    BY DEF MailInv, MailTyped
  <2> QED BY <2>1 DEF Range
<1>2. dropped' \subseteq Sends
  BY <1>1 DEF GiveUp, MailInv, MailTyped
<1> QED BY <1>2, EmptySeq DEF GiveUp, Go, MailInv, MailTyped

\* Every variable keeps its type.
LEMMA MailTypedStep ==
  ASSUME MailInv, NEW p \in Procs, Step(p)
  PROVE  MailTyped'
<1> USE MailboxConstants DEF MailInv, Places, KillSteps, Go, NoTarget
<1>1. CASE \E q \in Procs : Kill(p, q)
  <2>1. PICK q \in Procs : Kill(p, q)
    BY <1>1
  <2> DEFINE r == [from |-> p, to |-> q, life |-> starts[q]]
  <2>5. sent \in Seq(SendRecord) /\ starts[q] \in Nat
    BY DEF MailTyped
  <2>2. r \in SendRecord /\ sent \in Seq(SendRecord) /\ Len(sent) \in Nat
    BY <2>5 DEF SendRecord
  <2>3. sent' = Append(sent, r) /\ Len(sent) < MaxSends
    BY <2>1, Zenon DEF Kill
  <2> HIDE DEF r
  <2>4. sent' \in Seq(SendRecord) /\ Len(sent') <= MaxSends /\ DOMAIN sent \subseteq DOMAIN sent'
    BY <2>2, <2>3
  <2> QED BY <2>1, <2>4 DEF Kill, MailTyped, mailbox_vars, shell_vars, lives
<1>2. CASE \E q \in Procs : KillNative(p, q)
  BY <1>2 DEF KillNative, Terminate, MailTyped, mailbox_vars, shell_vars, lives, history
<1>3. CASE Probe(p)
  BY <1>3 DEF Probe, MailTyped, mailbox_vars, shell_vars, lives, history
<1>16. CASE CleanMarker(p)
  BY <1>16 DEF CleanMarker, MailTyped, shell_vars, lives, history
<1>17. CASE SignalNative(p)
  BY <1>17 DEF SignalNative, Terminate, MailTyped, mailbox_vars, shell_vars, lives, history
<1>18. CASE CleanQueue(p)
  <2>1. queue' \in [Procs -> {NoFile} \cup Texts]
    BY <1>18 DEF CleanQueue, MailTyped
  <2>2. linked' \in [Procs -> BOOLEAN] /\ marker' \subseteq Owners
    BY <1>18 DEF CleanQueue, MailTyped
  <2>3. pc' \in [Procs -> Places] /\ target' \in [Procs -> Procs]
    BY <1>18 DEF CleanQueue, MailTyped
  <2> QED BY <2>1, <2>2, <2>3, <1>18 DEF CleanQueue, MailTyped, shell_vars, lives, history
<1>4. CASE Open(p)
  BY <1>4, EmptySeq DEF Open, MailTyped, shell_vars, lives, history, Texts
<1>5. CASE WriteDigits(p) \/ WriteNewline(p)
  <2>1. pc[p] \in KillSteps
    BY <1>5 DEF WriteDigits, WriteNewline
  <2>2. Current(p) \in DOMAIN sent /\ Current(p) \in Sends
    BY <2>1, CurrentKnown
  <2>3. queue' \in [Procs -> {NoFile} \cup Texts]
    BY <1>5, <2>2, WrittenTo DEF WriteDigits, WriteNewline
  <2>4. CASE WriteDigits(p)
    BY <2>3, <2>4 DEF WriteDigits, WriteTo, MailTyped, shell_vars, lives
  <2>5. CASE WriteNewline(p)
    <3>1. accepted' \subseteq DOMAIN sent
      BY <2>2, <2>5 DEF WriteNewline, MailTyped
    <3>2. /\ pc' \in [Procs -> Places] /\ target' \in [Procs -> Procs]
          /\ linked' \in [Procs -> BOOLEAN]
      BY <2>5 DEF WriteNewline, MailTyped
    <3>3. UNCHANGED <<marker, shell_vars, sent, done, dropped>>
      BY <2>5 DEF WriteNewline, WriteTo
    <3> QED BY <2>3, <3>1, <3>2, <3>3 DEF MailTyped, shell_vars, lives
  <2> QED BY <1>5, <2>4, <2>5
<1>6. CASE TakePending(p)
  <2>1. batch' \in [Procs -> Seq(Seq(Sends))]
    <3>1. CASE pc'[p] = "remove"
      <4>1. queue[p] \in Texts /\ batch' = [batch EXCEPT ![p] = <<TakenFrom(queue[p])>>]
        BY <1>6, <3>1, TakenInto
      <4>2. <<TakenFrom(queue[p])>> \in Seq(Seq(Sends))
        BY <4>1, TakenFromText
      <4> QED BY <4>1, <4>2 DEF MailTyped
    <3>2. CASE pc'[p] # "remove"
      BY <1>6, <3>2 DEF TakePending, MailTyped
    <3> QED BY <3>1, <3>2
  <2> QED BY <1>6, <2>1 DEF TakePending, MailTyped, mailbox_vars, lives, history
<1>7. CASE RemoveQueue(p)
  BY <1>7 DEF RemoveQueue, MailTyped, shell_vars, lives, history
<1>8. CASE Dispatch(p)
  <2>1. /\ target' = target /\ UNCHANGED <<mailbox_vars, subshell, lives, sent, accepted>>
    BY <1>8 DEF Dispatch
  <2>2. batch[p][1] # << >> =>
          Head(batch[p][1]) \in Sends /\ Tail(batch[p][1]) \in Seq(Sends)
    BY <1>8, Dispatched, HeadTailProperties
  <2>5. \/ /\ batch[p][1] = << >> /\ batch' = [batch EXCEPT ![p] = << >>]
           /\ pc' = [pc EXCEPT ![p] = "run"] /\ UNCHANGED <<running, done, dropped>>
        \/ /\ batch[p][1] # << >> /\ done' = Append(done, Head(batch[p][1]))
           /\ \/ /\ batch' = [batch EXCEPT ![p] = <<Tail(batch[p][1])>>] /\ UNCHANGED dropped
                 /\ \/ UNCHANGED <<pc, running>>
                    \/ /\ pc' = [pc EXCEPT ![p] = "boundary"]
                       /\ running' = [running EXCEPT ![p] = TRUE]
              \/ GiveUp(p, "exit") /\ UNCHANGED running
    BY <1>8, Dispatched
  <2>3. CASE GiveUp(p, "exit") /\ UNCHANGED running
    <3>1. done' \in Seq(Sends)
      <4>1. done \in Seq(Sends)
        BY DEF MailTyped
      <4> QED BY <4>1, <2>2, <2>5
    <3>2. /\ dropped' \subseteq Sends /\ batch' \in [Procs -> Seq(Seq(Sends))]
          /\ pc' \in [Procs -> Places]
      BY <2>3, GivenUp
    <3> QED BY <2>1, <2>3, <3>1, <3>2 DEF MailTyped, mailbox_vars, lives
  <2>4. CASE ~(GiveUp(p, "exit") /\ UNCHANGED running)
    <3>1. done' \in Seq(Sends) /\ dropped' = dropped
      <4>1. done \in Seq(Sends)
        BY DEF MailTyped
      <4> QED BY <4>1, <2>2, <2>4, <2>5
    <3>2. \E b \in Seq(Seq(Sends)) : batch' = [batch EXCEPT ![p] = b]
      <4>1. << >> \in Seq(Seq(Sends))
        BY EmptySeq
      <4>2. batch[p][1] # << >> => <<Tail(batch[p][1])>> \in Seq(Seq(Sends))
        BY <2>2
      <4> QED BY <2>4, <2>5, <4>1, <4>2
    <3>3. batch' \in [Procs -> Seq(Seq(Sends))]
      BY <3>2 DEF MailTyped
    <3>4. pc' \in [Procs -> Places] /\ running' \in [Procs -> BOOLEAN]
      BY <2>4, <2>5 DEF MailTyped
    <3> QED BY <2>1, <3>1, <3>3, <3>4 DEF MailTyped, mailbox_vars, lives
  <2> QED BY <2>3, <2>4
<1>9. CASE HandlerEnd(p)
  BY <1>9 DEF HandlerEnd, MailTyped, mailbox_vars, lives, history
<1>10. CASE HandlerReturn(p) \/ Exit(p)
  <2>1. \E place \in Places : GiveUp(p, place)
    BY <1>10 DEF HandlerReturn, Exit
  <2> QED
    BY <1>10, <2>1, GivenUp DEF HandlerReturn, Exit, MailTyped, mailbox_vars, lives
<1>11. CASE Command(p) \/ Block(p) \/ Unblock(p)
  BY <1>11 DEF Command, Block, Unblock, MailTyped, mailbox_vars, shell_vars, lives, history
<1>12. CASE EnterSubshell(p) \/ LeaveSubshell(p)
  BY <1>12 DEF EnterSubshell, LeaveSubshell, MailTyped, mailbox_vars, lives, history
<1>13. CASE RemoveMarker(p)
  BY <1>13 DEF RemoveMarker, MailTyped, shell_vars, lives, history
<1>14. CASE UnlinkQueue(p)
  BY <1>14 DEF UnlinkQueue, MailTyped, shell_vars, lives, history
<1>15. CASE Start(p)
  <2>1. pc' \in [Procs -> Places] /\ target' \in [Procs -> Procs]
    BY <1>15 DEF Start, MailTyped
  <2>2. linked' \in [Procs -> BOOLEAN] /\ running' \in [Procs -> BOOLEAN]
        /\ subshell' \in [Procs -> BOOLEAN] /\ batch' \in [Procs -> Seq(Seq(Sends))]
    BY <1>15, EmptySeq DEF Start, MailTyped
  <2>3. /\ marker' \subseteq Owners /\ queue' \in [Procs -> {NoFile} \cup Texts]
        /\ sent' \in Seq(SendRecord) /\ Len(sent') <= MaxSends
        /\ accepted' \subseteq DOMAIN sent' /\ done' \in Seq(Sends) /\ dropped' \subseteq Sends
    BY <1>15 DEF Start, MailTyped, history
  <2>4. /\ starts' \in [Procs -> Nat] /\ restarts' \in 0 .. MaxRestarts
        /\ \A q \in Procs : starts'[q] \in 1 .. restarts' + 1
    <3>1. /\ starts \in [Procs -> Nat] /\ restarts \in Nat /\ restarts < MaxRestarts
          /\ MaxRestarts \in Nat /\ \A q \in Procs : starts[q] \in 1 .. restarts + 1
      <4>1. /\ starts \in [Procs -> Nat] /\ restarts \in 0 .. MaxRestarts
            /\ \A q \in Procs : starts[q] \in 1 .. restarts + 1
        BY DEF MailTyped
      <4>2. MaxRestarts \in Nat /\ restarts < MaxRestarts
        BY <1>15 DEF Start
      <4> HIDE DEF MailInv, Places, KillSteps, Go, NoTarget
      <4> QED BY <4>1, <4>2
    <3>2. starts' = [starts EXCEPT ![p] = @ + 1] /\ restarts' = restarts + 1
      BY <1>15 DEF Start
    <3> HIDE DEF MailInv, Places, KillSteps, Go, NoTarget
    <3> QED BY <3>1, <3>2
  <2> QED BY <2>1, <2>2, <2>3, <2>4 DEF MailTyped
<1> QED
  BY <1>1, <1>2, <1>3, <1>4, <1>5, <1>6, <1>7, <1>8, <1>9, <1>10, <1>11, <1>12, <1>13, <1>14, <1>15,
     <1>16, <1>17, <1>18
  DEF Step, KillStep, TrapStep, ShellStep

\* Signals come into a file by a write, into a batch from the file and from there
\* to be done.
LEMMA WhereSignalsGo ==
  ASSUME MailInv, NEW p \in Procs, Step(p)
  PROVE  /\ \A q \in Procs : InFile(q)' \subseteq
              InFile(q) \cup (IF WriteDigits(p) /\ q = target[p] THEN {Current(p)} ELSE {})
         /\ \A q \in Procs : InBatch(q)' \subseteq InBatch(q) \cup InFile(q)
         /\ Range(done') \subseteq Range(done) \cup InBatch(p)
<1> USE DEF MailInv, Go
<1>1. CASE UNCHANGED <<queue, batch, done>>
  BY <1>1 DEF InFile, InBatch
<1>2. CASE CleanQueue(p) \/ RemoveQueue(p) \/ UnlinkQueue(p)
  <2>1. \A q \in Procs : queue'[q] = queue[q] \/ queue'[q] = NoFile
    BY <1>2 DEF CleanQueue, RemoveQueue, UnlinkQueue, MailTyped
  <2>2. UNCHANGED <<batch, done>>
    BY <1>2 DEF CleanQueue, RemoveQueue, UnlinkQueue, shell_vars, history
  <2> QED BY <2>1, <2>2 DEF InFile, InBatch
<1>3. CASE Open(p)
  <2>1. \A q \in Procs : queue'[q] = queue[q] \/ queue'[q] = << >>
    BY <1>3 DEF Open, MailTyped
  <2>2. UNCHANGED <<batch, done>>
    BY <1>3 DEF Open, shell_vars, history
  <2>3. Numbers(<< >>) = {}
    BY DEF Numbers
  <2> QED BY <2>1, <2>2, <2>3 DEF InFile, InBatch
<1>4. CASE WriteDigits(p) \/ WriteNewline(p)
  <2> DEFINE item == IF WriteDigits(p) THEN Current(p) ELSE Newline
  <2>1. pc[p] \in KillSteps /\ UNCHANGED <<batch, done>>
    BY <1>4 DEF WriteDigits, WriteNewline, WriteTo, shell_vars, KillSteps
  <2>2. item \in Sends \cup {Newline} /\ WriteTo(p, item)
    BY <1>4, <2>1, CurrentKnown DEF WriteDigits, WriteNewline
  <2>3. \A q \in Procs : InFile(q)' \subseteq
          InFile(q) \cup (IF q = target[p] THEN {item} \ {Newline} ELSE {})
    <3> HIDE DEF item
    <3> SUFFICES ASSUME NEW q \in Procs
                 PROVE  InFile(q)' \subseteq
                          InFile(q) \cup (IF q = target[p] THEN {item} \ {Newline} ELSE {})
      OBVIOUS
    <3>1. CASE q = target[p] /\ linked[p]
      <4>1. queue[q] \in Texts /\ queue[q] # NoFile /\ queue'[q] = Append(queue[q], item)
        BY <2>2, <3>1, WrittenTo
      <4>2. /\ Append(queue[q], item) \in Texts
            /\ Numbers(Append(queue[q], item)) = Numbers(queue[q]) \cup ({item} \ {Newline})
        BY <2>2, <4>1, NumbersOfAppend
      <4> QED BY <3>1, <4>1, <4>2, NoFileIsNoText DEF InFile
    <3>2. CASE ~(q = target[p] /\ linked[p])
      <4>1. queue'[q] = queue[q]
        BY <2>2, <3>2, WrittenTo
      <4> QED BY <4>1 DEF InFile
    <3> QED BY <3>1, <3>2
  <2> QED BY <2>1, <2>3 DEF InBatch
<1>5. CASE TakePending(p) /\ pc'[p] = "remove"
  <2>1. /\ queue[p] \in Texts /\ queue[p] # NoFile
        /\ batch' = [batch EXCEPT ![p] = <<TakenFrom(queue[p])>>]
    BY <1>5, TakenInto
  <2>2. UNCHANGED <<queue, done>>
    BY <1>5 DEF TakePending, mailbox_vars, history
  <2>3. InBatch(p)' \subseteq InFile(p)
    BY <2>1, TakenFromText DEF InBatch, InFile, MailTyped
  <2>4. \A q \in Procs : q # p => InBatch(q)' = InBatch(q)
    BY <2>1 DEF InBatch, MailTyped
  <2> QED BY <2>2, <2>3, <2>4 DEF InFile
<1>6. CASE Dispatch(p)
  <2> DEFINE t == batch[p][1]
  <2>1. /\ Len(batch[p]) = 1 /\ t \in Seq(Sends)
        /\ \/ batch' = [batch EXCEPT ![p] = << >>] /\ done' = done
           \/ t # << >> /\ batch' = [batch EXCEPT ![p] = <<Tail(t)>>] /\ done' = Append(done, Head(t))
           \/ t # << >> /\ batch' = [batch EXCEPT ![p] = << >>] /\ done' = Append(done, Head(t))
    BY <1>6, Dispatched, GivenUp DEF Places
  <2>2. queue' = queue
    BY <1>6 DEF Dispatch, mailbox_vars
  <2>3. batch[p] # << >> /\ InBatch(p) = Range(t)
    BY <2>1 DEF InBatch
  <2> HIDE DEF t
  <2>4. t # << >> => Head(t) \in Range(t) /\ Range(Tail(t)) \subseteq Range(t)
    BY <2>1 DEF Range
  <2>5. t # << >> => Range(Append(done, Head(t))) = Range(done) \cup {Head(t)}
    <3>1. done \in Seq(Sends) /\ (t # << >> => Head(t) \in Sends)
      BY <2>1 DEF MailTyped
    <3> QED BY <3>1, RangeAppend
  <2>6. \A q \in Procs : q # p => InBatch(q)' = InBatch(q)
    BY <2>1 DEF InBatch, MailTyped
  <2>7. InBatch(p)' \subseteq InBatch(p)
    <3>1. batch'[p] = << >> \/ (t # << >> /\ batch'[p] = <<Tail(t)>>)
      BY <2>1 DEF MailTyped
    <3>2. CASE batch'[p] = << >>
      BY <3>2 DEF InBatch
    <3>3. CASE t # << >> /\ batch'[p] = <<Tail(t)>>
      <4>1. batch'[p] # << >> /\ batch'[p][1] = Tail(t)
        BY <3>3
      <4> QED BY <4>1, <3>3, <2>3, <2>4 DEF InBatch
    <3> QED BY <3>1, <3>2, <3>3
  <2> QED BY <2>1, <2>2, <2>3, <2>4, <2>5, <2>6, <2>7 DEF InFile
<1>7. CASE HandlerReturn(p) \/ Exit(p) \/ Start(p)
  <2>1. \A q \in Procs : batch'[q] = batch[q] \/ batch'[q] = << >>
    BY <1>7 DEF HandlerReturn, Exit, Start, GiveUp, MailTyped
  <2>2. UNCHANGED <<queue, done>>
    BY <1>7 DEF HandlerReturn, Exit, Start, mailbox_vars, history
  <2> QED BY <2>1, <2>2 DEF InFile, InBatch
<1>8. CASE TakePending(p) /\ pc'[p] # "remove"
  BY <1>1, <1>8 DEF TakePending, mailbox_vars, history, MailTyped
<1>9. CASE (\E q \in Procs : Kill(p, q) \/ KillNative(p, q)) \/ HandlerEnd(p) \/ Command(p)
           \/ EnterSubshell(p) \/ LeaveSubshell(p) \/ Block(p) \/ Unblock(p) \/ RemoveMarker(p)
           \/ Probe(p) \/ CleanMarker(p) \/ SignalNative(p)
  <2>1. UNCHANGED <<queue, batch, done>>
    BY <1>9
    DEF Kill, KillNative, Probe, CleanMarker, SignalNative, HandlerEnd, Command, EnterSubshell, LeaveSubshell, Block, Unblock,
        RemoveMarker, mailbox_vars, shell_vars, history
  <2> QED BY <1>1, <2>1
<1> QED
  BY <1>2, <1>3, <1>4, <1>5, <1>6, <1>7, <1>8, <1>9 DEF Step, KillStep, TrapStep, ShellStep

\* Nothing gets anywhere that was not sent.
LEMMA KnownStep ==
  ASSUME MailInv, NEW p \in Procs, Step(p)
  PROVE  KnownInv'
<1>1. DOMAIN sent \subseteq DOMAIN sent'
  BY SendsStay DEF MailInv
<1>2. WriteDigits(p) => Current(p) \in DOMAIN sent
  BY CurrentKnown DEF WriteDigits, KillSteps
<1>3. \A q \in Procs : InFile(q)' \cup InBatch(q)' \subseteq DOMAIN sent
  BY <1>2, WhereSignalsGo DEF MailInv, KnownInv
<1>4. Range(done') \subseteq DOMAIN sent
  BY WhereSignalsGo DEF MailInv, KnownInv
<1> QED BY <1>1, <1>3, <1>4 DEF KnownInv

\* A step of p ends another process at most, and leaves its kill alone but for the
\* file it may lose.
LEMMA OthersStay ==
  ASSUME MailInv, NEW p \in Procs, Step(p), NEW r \in Procs, r # p
  PROVE  /\ target'[r] = target[r] /\ (pc'[r] = pc[r] \/ pc'[r] = "ended")
         /\ linked'[r] => linked[r]
         /\ running'[r] = running[r] /\ batch'[r] = batch[r]
<1> USE DEF MailInv, MailTyped, Go, NoTarget
<1>1. CASE KillStep(p)
  <2>1. CASE \E q \in Procs : Kill(p, q) \/ KillNative(p, q)
    BY <2>1 DEF Kill, KillNative, Terminate, mailbox_vars, shell_vars
  <2>2. CASE Probe(p) \/ CleanMarker(p) \/ CleanQueue(p) \/ Open(p)
    BY <2>2 DEF Probe, CleanMarker, CleanQueue, Open, mailbox_vars, shell_vars
  <2>4. CASE SignalNative(p)
    BY <2>4 DEF SignalNative, Terminate, mailbox_vars, shell_vars
  <2>3. CASE WriteDigits(p) \/ WriteNewline(p)
    BY <2>3 DEF WriteDigits, WriteNewline, WriteTo, shell_vars
  <2> QED BY <1>1, <2>1, <2>2, <2>3, <2>4 DEF KillStep
<1>2. CASE TrapStep(p)
  <2>1. CASE TakePending(p) \/ RemoveQueue(p)
    BY <2>1 DEF TakePending, RemoveQueue, mailbox_vars, shell_vars
  <2>2. CASE Dispatch(p)
    BY <2>2 DEF Dispatch, GiveUp, mailbox_vars
  <2>3. CASE HandlerEnd(p) \/ HandlerReturn(p)
    BY <2>3 DEF HandlerEnd, HandlerReturn, GiveUp, mailbox_vars
  <2> QED BY <1>2, <2>1, <2>2, <2>3 DEF TrapStep
<1>3. CASE ShellStep(p)
  <2>1. CASE Command(p) \/ Block(p) \/ Unblock(p) \/ EnterSubshell(p) \/ LeaveSubshell(p)
    BY <2>1 DEF Command, Block, Unblock, EnterSubshell, LeaveSubshell, mailbox_vars, shell_vars
  <2>2. CASE Exit(p) \/ RemoveMarker(p) \/ UnlinkQueue(p) \/ Start(p)
    BY <2>2 DEF Exit, GiveUp, RemoveMarker, UnlinkQueue, Start, mailbox_vars, shell_vars
  <2> QED BY <1>3, <2>1, <2>2 DEF ShellStep
<1> QED BY <1>1, <1>2, <1>3 DEF Step

\* A kill adds one send at the end.
LEMMA KillSends ==
  ASSUME MailTyped, NEW p \in Procs, NEW q \in Procs, Kill(p, q)
  PROVE  LET i == Len(sent) + 1
         IN  /\ DOMAIN sent' = DOMAIN sent \cup {i} /\ i \notin DOMAIN sent
             /\ \A k \in DOMAIN sent : sent'[k] = sent[k] /\ k < i
             /\ sent'[i].from = p /\ sent'[i].to = q /\ sent'[i].life = starts[q]
<1> DEFINE r == [from |-> p, to |-> q, life |-> starts[q]]
<1>1. r \in SendRecord /\ r.from = p /\ r.to = q /\ r.life = starts[q]
  BY DEF MailTyped, SendRecord
<1>2. sent' = Append(sent, r) /\ sent \in Seq(SendRecord)
  BY DEF Kill, MailTyped
<1> HIDE DEF r
<1>3. /\ Len(sent) \in Nat /\ DOMAIN sent = 1 .. Len(sent) /\ DOMAIN sent' = 1 .. Len(sent) + 1
      /\ \A k \in 1 .. Len(sent) : sent'[k] = sent[k]
      /\ sent'[Len(sent) + 1] = r
  BY <1>1, <1>2
<1> QED BY <1>1, <1>3

\* Nothing else sends.
LEMMA OnlyKillSends ==
  ASSUME NEW p \in Procs, Step(p)
  PROVE  sent' = sent \/ \E q \in Procs : Kill(p, q)
BY DEF Step, KillStep, TrapStep, ShellStep, KillNative, Probe, CleanMarker, CleanQueue,
       SignalNative, Open, WriteDigits, WriteNewline,
       WriteTo, TakePending, RemoveQueue, Dispatch, HandlerEnd, HandlerReturn, Command,
       EnterSubshell, LeaveSubshell, Block, Unblock, Exit, RemoveMarker, UnlinkQueue, Start, history

\* A step of p that is no kill's beginning leaves p in a kill only where it was in
\* one, of the same target; then the next is for the newline if it wrote the number.
LEMMA KillGoesOn ==
  ASSUME MailTyped, NEW p \in Procs, Step(p), pc'[p] \in KillSteps,
         ~ \E q \in Procs : Kill(p, q)
  PROVE  /\ pc[p] \in KillSteps /\ target'[p] = target[p]
         /\ pc'[p] # "newline" => ~WriteDigits(p) /\ pc[p] # "newline"
<1> USE DEF MailTyped, Go, KillSteps
<1>1. CASE Probe(p) \/ CleanMarker(p) \/ CleanQueue(p) \/ Open(p)
  BY <1>1 DEF Probe, CleanMarker, CleanQueue, Open, WriteDigits
<1>2. CASE WriteDigits(p) \/ WriteNewline(p) \/ SignalNative(p)
  BY <1>2 DEF WriteDigits, WriteNewline, SignalNative, Terminate
<1>3. CASE \E q \in Procs : KillNative(p, q)
  BY <1>3 DEF KillNative, Terminate
<1>4. CASE TakePending(p) \/ RemoveQueue(p) \/ HandlerEnd(p) \/ HandlerReturn(p)
  BY <1>4 DEF TakePending, RemoveQueue, HandlerEnd, HandlerReturn, GiveUp
<1>5. CASE Dispatch(p)
  BY <1>5 DEF Dispatch, GiveUp
<1>6. CASE ShellStep(p)
  BY <1>6
  DEF ShellStep, Command, EnterSubshell, LeaveSubshell, Block, Unblock, Exit, RemoveMarker,
      UnlinkQueue, Start, GiveUp
<1> QED BY <1>1, <1>2, <1>3, <1>4, <1>5, <1>6 DEF Step, KillStep, TrapStep

\* A removed file is linked to nobody.
LEMMA FileLinked ==
  ASSUME MailInv, NEW p \in Procs, Step(p), NEW r \in Procs, linked'[r]
  PROVE  queue'[target'[r]] # NoFile /\ pc'[r] \in {"digits", "newline", "ended"}
<1> USE DEF MailInv, MailTyped, KillInv, Go, NoTarget
<1>0. pc[p] \notin {"digits", "newline", "ended"} => ~linked[p]
  OBVIOUS
<1>1. CASE \E q \in Procs : Kill(p, q)
  BY <1>1 DEF Kill, mailbox_vars
<1>2. CASE \E q \in Procs : KillNative(p, q)
  BY <1>2 DEF KillNative, Terminate, mailbox_vars
<1>3. CASE Probe(p) \/ CleanMarker(p) \/ SignalNative(p)
  BY <1>0, <1>3 DEF Probe, CleanMarker, SignalNative, Terminate, mailbox_vars
<1>3a. CASE CleanQueue(p)
  <2>1. pc[p] = "clean queue" /\ r # p /\ linked[r] /\ pc'[r] = pc[r] /\ target'[r] = target[r]
    BY <1>0, <1>3a DEF CleanQueue
  <2>2. linked'[r] = (linked[r] /\ target[r] # target[p])
    BY <1>3a DEF CleanQueue
  <2>3. queue' = [queue EXCEPT ![target[p]] = NoFile] /\ target[p] # target[r]
    BY <1>3a, <2>2 DEF CleanQueue
  <2>4. queue'[target[r]] = queue[target[r]]
    BY <2>3
  <2> QED BY <2>1, <2>4
<1>4. CASE Open(p)
  <2>1. << >> # NoFile
    BY DEF NoFile
  <2> QED BY <1>4, <2>1 DEF Open
<1>5. CASE WriteDigits(p) \/ WriteNewline(p)
  <2>1. pc[p] \in KillSteps
    BY <1>5 DEF WriteDigits, WriteNewline, KillSteps
  <2>2. \E item \in Sends \cup {Newline} : WriteTo(p, item)
    BY <1>5, <2>1, CurrentKnown DEF WriteDigits, WriteNewline
  <2>3. PICK item \in Sends \cup {Newline} : WriteTo(p, item)
    BY <2>2
  <2>4. ASSUME NEW q \in Procs, queue[q] # NoFile
        PROVE  queue'[q] # NoFile
    <3>1. queue[q] \in Texts => Append(queue[q], item) \in Texts
      BY NumbersOfAppend
    <3>2. queue[q] \in Texts
      BY <2>4
    <3>3. queue'[q] = IF q = target[p] /\ linked[p] THEN Append(queue[q], item) ELSE queue[q]
      BY <2>3, WrittenTo
    <3> QED BY <2>4, <3>1, <3>2, <3>3, NoFileIsNoText
  <2>5. linked[r] /\ target'[r] = target[r] /\ target[r] \in Procs
    BY <1>5 DEF WriteDigits, WriteNewline
  <2>6. queue'[target'[r]] # NoFile
    BY <2>4, <2>5
  <2>7. pc'[r] \in {"digits", "newline", "ended"}
    BY <1>5, <2>5 DEF WriteDigits, WriteNewline
  <2> QED BY <2>6, <2>7
<1>6. CASE TakePending(p) \/ HandlerEnd(p) \/ HandlerReturn(p)
  <2>1. pc[p] \in {"boundary", "run"} /\ UNCHANGED <<target, linked, queue>>
    BY <1>6 DEF TakePending, HandlerEnd, HandlerReturn, InHandler, mailbox_vars
  <2>2. r # p => pc'[r] = pc[r]
    BY <1>6 DEF TakePending, HandlerEnd, HandlerReturn, GiveUp
  <2> QED BY <1>0, <2>1, <2>2
<1>7. CASE RemoveQueue(p)
  BY <1>7 DEF RemoveQueue
<1>8. CASE Dispatch(p)
  BY <1>8 DEF Dispatch, GiveUp, mailbox_vars
<1>9. CASE Command(p) \/ EnterSubshell(p) \/ LeaveSubshell(p) \/ Block(p) \/ Unblock(p) \/ Exit(p)
  BY <1>9 DEF Command, EnterSubshell, LeaveSubshell, Block, Unblock, Exit, GiveUp, mailbox_vars
<1>10. CASE RemoveMarker(p) \/ UnlinkQueue(p)
  <2>1. pc[p] \in {"exit", "unlink"} /\ target' = target
    BY <1>10 DEF RemoveMarker, UnlinkQueue
  <2>2. r # p => pc'[r] = pc[r]
    BY <1>10 DEF RemoveMarker, UnlinkQueue
  <2>3. linked[r] /\ queue'[target[r]] = queue[target[r]]
    BY <1>10 DEF RemoveMarker, UnlinkQueue
  <2> QED BY <1>0, <2>1, <2>2, <2>3
<1>11. CASE Start(p)
  BY <1>11 DEF Start
<1> QED
  BY <1>1, <1>2, <1>3, <1>3a, <1>4, <1>5, <1>6, <1>7, <1>8, <1>9, <1>10, <1>11
  DEF Step, KillStep, TrapStep, ShellStep

\* A kill in progress stays one about the last send of its process.
LEMMA KillStepInv ==
  ASSUME MailInv, NEW p \in Procs, Step(p)
  PROVE  KillInv'
<1> USE DEF MailInv
<1>1. ASSUME NEW r \in Procs, NEW i, IsCurrent(r, i), r # p \/ sent' = sent
      PROVE  IsCurrent(r, i)' /\ sent'[i] = sent[i]
  <2>1. CASE sent' = sent
    BY <1>1, <2>1 DEF IsCurrent
  <2>2. ASSUME NEW q \in Procs, Kill(p, q), r # p
        PROVE  IsCurrent(r, i)' /\ sent'[i] = sent[i]
    BY <1>1, <2>2, KillSends DEF IsCurrent
  <2> QED BY <1>1, <2>1, <2>2, OnlyKillSends
<1>2. ASSUME NEW r \in Procs, NEW i, IsCurrent(r, i), Nowhere(i),
             r # p \/ ~WriteDigits(p)
      PROVE  Nowhere(i)'
  <2>1. WriteDigits(p) => i # Current(p)
    BY <1>2, CurrentKnown DEF IsCurrent, WriteDigits, KillSteps
  <2> QED BY <1>2, <2>1, WhereSignalsGo DEF Nowhere
<1>3. ASSUME NEW r \in Procs, r # p, pc'[r] \in KillSteps
      PROVE  \E i \in DOMAIN sent' : IsCurrent(r, i)' /\ sent'[i].to = target'[r]
               /\ (pc'[r] # "newline" => Nowhere(i)')
  <2>1. pc[r] = pc'[r] /\ target'[r] = target[r]
    BY <1>3, OthersStay DEF KillSteps
  <2>2. PICK i \in DOMAIN sent : IsCurrent(r, i) /\ sent[i].to = target[r]
               /\ (pc[r] # "newline" => Nowhere(i))
    BY <1>3, <2>1 DEF KillInv
  <2> QED BY <1>1, <1>2, <1>3, <2>1, <2>2, SendsStay
<1>4. ASSUME pc'[p] \in KillSteps
      PROVE  \E i \in DOMAIN sent' : IsCurrent(p, i)' /\ sent'[i].to = target'[p]
               /\ (pc'[p] # "newline" => Nowhere(i)')
  <2>1. CASE \E q \in Procs : Kill(p, q)
    <3>1. PICK q \in Procs : Kill(p, q)
      BY <2>1
    <3>0. PICK i : i = Len(sent) + 1
      OBVIOUS
    <3>2. target'[p] = q /\ UNCHANGED <<queue, batch, done>>
      BY <3>1 DEF Kill, MailTyped, mailbox_vars, shell_vars
    <3>3. /\ DOMAIN sent' = DOMAIN sent \cup {i} /\ i \notin DOMAIN sent
          /\ \A k \in DOMAIN sent : sent'[k] = sent[k] /\ k < i
          /\ sent'[i].from = p /\ sent'[i].to = q
      BY <3>0, <3>1, KillSends
    <3>4. \A k \in DOMAIN sent' : k <= i
      <4>1. i \in Nat /\ DOMAIN sent \subseteq Nat
        BY <3>0, SendsStay
      <4> QED BY <3>3, <4>1
    <3>5. IsCurrent(p, i)'
      BY <3>3, <3>4 DEF IsCurrent
    <3>6. \A s \in Procs : InFile(s)' = InFile(s) /\ InBatch(s)' = InBatch(s)
      <4>1. queue' = queue /\ batch' = batch
        BY <3>2
      <4> QED BY <4>1, Zenon DEF InFile, InBatch
    <3>7. Nowhere(i)'
      BY <3>2, <3>3, <3>6 DEF Nowhere, KnownInv
    <3> QED BY <3>2, <3>3, <3>5, <3>7
  <2>2. CASE ~ \E q \in Procs : Kill(p, q)
    <3>1. /\ pc[p] \in KillSteps /\ target'[p] = target[p] /\ sent' = sent
          /\ pc'[p] # "newline" => ~WriteDigits(p) /\ pc[p] # "newline"
      BY <1>4, <2>2, KillGoesOn, OnlyKillSends
    <3> QED BY <1>1, <1>2, <3>1 DEF KillInv
  <2> QED BY <2>1, <2>2
<1>5. ASSUME NEW r \in Procs, linked'[r]
      PROVE  queue'[target'[r]] # NoFile /\ pc'[r] \in {"digits", "newline", "ended"}
  BY <1>5, FileLinked
<1> QED BY <1>3, <1>4, <1>5 DEF KillInv

\* A batch stays while its signals are dealt with, and is the only one.
LEMMA BatchStepInv ==
  ASSUME MailInv, NEW p \in Procs, Step(p)
  PROVE  BatchInv'
<1> DEFINE Holds(r) ==
      /\ Len(batch[r]) <= 1
      /\ pc[r] \in {"remove", "dispatch"} => Len(batch[r]) = 1 /\ ~running[r]
      /\ batch[r] # << >> => running[r] \/ pc[r] \in {"remove", "dispatch", "ended"}
<1>1. \A r \in Procs : Holds(r)
  BY DEF MailInv, BatchInv
<1>2. ASSUME NEW r \in Procs, r # p PROVE Holds(r)'
  <2>1. /\ pc'[r] = pc[r] \/ pc'[r] = "ended"
        /\ running'[r] = running[r] /\ batch'[r] = batch[r]
    BY <1>2, OthersStay
  <2> QED BY <1>1, <2>1
<1>3. Holds(p)'
  <2> USE DEF Go
  <2>1. pc \in [Procs -> Places] /\ running \in [Procs -> BOOLEAN]
        /\ batch \in [Procs -> Seq(Seq(Sends))]
    BY DEF MailInv, MailTyped
  <2>2. Len(batch[p]) = 0 => batch[p] = << >>
    BY <2>1
  <2>3. Len(<< >>) = 0 /\ \A t : Len(<<t>>) = 1
    OBVIOUS
  <2>4. CASE batch' = batch /\ running' = running /\ pc[p] \notin {"remove", "dispatch"}
             /\ pc'[p] \notin {"remove", "dispatch"} /\ pc[p] # "ended"
    BY <1>1, <2>4
  <2>5. CASE \E q \in Procs : Kill(p, q) \/ KillNative(p, q)
    BY <2>1, <2>4, <2>5 DEF Kill, KillNative, Terminate, shell_vars
  <2>6. CASE Probe(p) \/ Open(p) \/ WriteDigits(p) \/ WriteNewline(p)
    BY <2>1, <2>4, <2>6 DEF Probe, Open, WriteDigits, WriteNewline, WriteTo, shell_vars
  <2>14. CASE CleanMarker(p) \/ CleanQueue(p) \/ SignalNative(p)
    BY <2>1, <2>4, <2>14 DEF CleanMarker, CleanQueue, SignalNative, Terminate, shell_vars
  <2>7. CASE Command(p) \/ EnterSubshell(p) \/ LeaveSubshell(p) \/ Block(p) \/ Unblock(p)
             \/ RemoveMarker(p) \/ UnlinkQueue(p)
    BY <2>1, <2>4, <2>7
    DEF Command, EnterSubshell, LeaveSubshell, Block, Unblock, RemoveMarker, UnlinkQueue, shell_vars
  <2>8. CASE TakePending(p)
    <3>1. running' = running
      BY <2>8 DEF TakePending
    <3>2. CASE pc'[p] = "remove"
      <4>1. batch'[p] = <<TakenFrom(queue[p])>> /\ ~running[p]
        BY <2>1, <2>8, <3>2, TakenInto
      <4> QED BY <2>3, <3>1, <3>2, <4>1
    <3>3. CASE pc'[p] # "remove"
      BY <2>1, <2>4, <2>8, <3>1, <3>3 DEF TakePending
    <3> QED BY <3>2, <3>3
  <2>9. CASE RemoveQueue(p)
    BY <1>1, <2>1, <2>9 DEF RemoveQueue, shell_vars
  <2>10. CASE Dispatch(p)
    <3>1. pc[p] = "dispatch" /\ ~running[p] /\ Len(batch[p]) = 1
      BY <1>1, <2>10 DEF Dispatch
    <3>2. \/ batch'[p] = << >> /\ pc'[p] \in {"run", "exit"}
          \/ /\ \E t : batch'[p] = <<t>>
             /\ \/ pc' = pc /\ running' = running
                \/ pc'[p] = "boundary" /\ running'[p]
      BY <2>1, <2>10, Dispatched DEF GiveUp
    <3>3. CASE batch'[p] = << >> /\ pc'[p] \in {"run", "exit"}
      BY <2>3, <3>3
    <3>4. ASSUME NEW t, batch'[p] = <<t>>,
                 \/ pc' = pc /\ running' = running
                 \/ pc'[p] = "boundary" /\ running'[p]
          PROVE  Holds(p)'
      <4>1. Len(batch'[p]) = 1
        BY <3>4
      <4> QED BY <3>1, <3>4, <4>1
    <3> QED BY <3>2, <3>3, <3>4
  <2>11. CASE HandlerEnd(p)
    <3>1. batch' = batch /\ batch[p] # << >> /\ pc'[p] = "dispatch" /\ ~running'[p]
      BY <2>1, <2>11 DEF HandlerEnd, InHandler
    <3>2. Len(batch[p]) \in Nat /\ Len(batch[p]) # 0
      BY <2>1, <2>2, <3>1
    <3>3. Len(batch[p]) <= 1
      BY <1>1
    <3>4. \A n \in Nat : n # 0 /\ n <= 1 => n = 1
      OBVIOUS
    <3>5. Len(batch[p]) = 1
      BY <3>2, <3>3, <3>4
    <3> QED BY <3>1, <3>5
  <2>12. CASE HandlerReturn(p) \/ Exit(p)
    BY <2>1, <2>3, <2>12 DEF HandlerReturn, Exit, GiveUp
  <2>13. CASE Start(p)
    BY <2>1, <2>3, <2>13 DEF Start
  <2> QED
    BY <2>5, <2>6, <2>14, <2>7, <2>8, <2>9, <2>10, <2>11, <2>12, <2>13
    DEF Step, KillStep, TrapStep, ShellStep
<1> QED BY <1>2, <1>3 DEF BatchInv

----------------------------------------------------------------------------
(* The order of the signals.                                               *)

\* The order of two sends is settled when the later one is made.
LEMMA BeforeStays ==
  ASSUME MailInv, NEW p \in Procs, Step(p), NEW i \in DOMAIN sent, NEW k \in DOMAIN sent
  PROVE  (Before(i, k)' <=> Before(i, k)) /\ sent'[i] = sent[i]
<1>1. sent'[i] = sent[i] /\ sent'[k] = sent[k]
  BY SendsStay DEF MailInv
<1> QED BY <1>1 DEF Before

\* What is written comes after everything that was sent before it.
LEMMA WrittenLast ==
  ASSUME MailInv, NEW p \in Procs, pc[p] = "digits",
         NEW q \in Procs, NEW i \in InFile(q) \cup InBatch(q) \cup Range(done)
  PROVE  Before(i, Current(p))
<1>1. IsCurrent(p, Current(p)) /\ Nowhere(Current(p)) /\ Current(p) \in DOMAIN sent
  BY CurrentKnown DEF KillSteps
<1>2. i # Current(p)
  BY <1>1 DEF Nowhere
<1>3. i \in DOMAIN sent /\ DOMAIN sent \subseteq Nat
  <2>1. sent \in Seq(SendRecord)
    BY Zenon DEF MailInv, MailTyped
  <2> QED BY <2>1 DEF MailInv, KnownInv
<1>4. sent[i].from = p => i <= Current(p)
  BY <1>1, <1>3 DEF IsCurrent
<1>5. sent[Current(p)].from = p
  BY <1>1 DEF IsCurrent
<1> QED BY <1>1, <1>2, <1>3, <1>4, <1>5 DEF Before

\* A text stays in order when what is put at its end comes after all of it.
LEMMA AppendOrdered ==
  ASSUME NEW content \in Texts, TextOrdered(content), NEW item \in Sends \cup {Newline},
         item # Newline => \A x \in Numbers(content) : Before(x, item)
  PROVE  TextOrdered(Append(content, item))
<1> DEFINE longer == Append(content, item)
<1>1. /\ DOMAIN content = 1 .. Len(content) /\ Len(content) \in Nat
      /\ DOMAIN longer = 1 .. Len(content) + 1
      /\ \A k \in 1 .. Len(content) : longer[k] = content[k]
      /\ longer[Len(content) + 1] = item
  BY DEF Texts
<1> HIDE DEF longer
<1>2. ASSUME NEW i \in DOMAIN longer, NEW k \in DOMAIN longer,
             i < k, longer[i] # Newline, longer[k] # Newline
      PROVE  Before(longer[i], longer[k])
  <2>1. i \in DOMAIN content /\ longer[i] = content[i]
    BY <1>1, <1>2
  <2>2. CASE k = Len(content) + 1
    BY <1>1, <1>2, <2>1, <2>2 DEF Numbers
  <2>3. CASE k # Len(content) + 1
    <3>1. k \in DOMAIN content /\ longer[k] = content[k]
      BY <1>1, <1>2, <2>3
    <3> QED BY <1>2, <2>1, <3>1 DEF TextOrdered
  <2> QED BY <2>2, <2>3
<1> QED BY <1>2 DEF TextOrdered, longer

\* The head of a text in order comes before its tail.
LEMMA TailOrdered ==
  ASSUME NEW t \in Seq(Sends), t # << >>, TextOrdered(t)
  PROVE  /\ Head(t) \in Range(t) /\ Range(Tail(t)) \subseteq Range(t)
         /\ TextOrdered(Tail(t)) /\ \A x \in Range(Tail(t)) : Before(Head(t), x)
<1>1. /\ Len(t) \in Nat /\ Len(t) # 0 /\ DOMAIN t = 1 .. Len(t) /\ Head(t) = t[1]
      /\ DOMAIN Tail(t) = 1 .. Len(t) - 1
      /\ \A i \in 1 .. Len(t) - 1 : Tail(t)[i] = t[i + 1]
  OBVIOUS
<1>2. \A i \in DOMAIN t : t[i] # Newline
  BY MailboxConstants DEF Sends, Newline
<1>3. ASSUME NEW i \in DOMAIN Tail(t)
      PROVE  i + 1 \in DOMAIN t /\ Tail(t)[i] = t[i + 1] /\ 1 < i + 1 /\ 1 \in DOMAIN t /\ i \in Nat
  BY <1>1
<1>4. TextOrdered(Tail(t))
  BY <1>2, <1>3 DEF TextOrdered
<1>5. \A x \in Range(Tail(t)) : Before(Head(t), x)
  BY <1>1, <1>2, <1>3 DEF TextOrdered, Range
<1>6. Head(t) \in Range(t) /\ Range(Tail(t)) \subseteq Range(t)
  BY <1>1, <1>3 DEF Range
<1> QED BY <1>4, <1>5, <1>6

\* What is taken from a text in order is in order.
LEMMA TakenOrdered ==
  ASSUME NEW content \in Texts, TextOrdered(content)
  PROVE  TextOrdered(TakenFrom(content))
<1>1. ASSUME NEW i \in DOMAIN TakenFrom(content), NEW k \in DOMAIN TakenFrom(content), i < k
      PROVE  Before(TakenFrom(content)[i], TakenFrom(content)[k])
  <2>1. PICK a \in DOMAIN content, b \in DOMAIN content :
          /\ a < b /\ content[a] # Newline /\ content[b] # Newline
          /\ TakenFrom(content)[i] = content[a] /\ TakenFrom(content)[k] = content[b]
    BY <1>1, TakenFromText
  <2> QED BY <2>1 DEF TextOrdered
<1> QED BY <1>1 DEF TextOrdered

\* A step leaves a queue file, removes it, makes it, or writes one item at its end.
LEMMA FileMoves ==
  ASSUME MailInv, NEW p \in Procs, Step(p), NEW q \in Procs
  PROVE  \/ queue'[q] = queue[q] \/ queue'[q] = NoFile
         \/ queue[q] = NoFile /\ queue'[q] = << >>
         \/ /\ queue[q] \in Texts /\ queue[q] # NoFile /\ q = target[p] /\ linked[p]
            /\ \/ pc[p] = "digits" /\ queue'[q] = Append(queue[q], Current(p))
               \/ pc[p] = "newline" /\ queue'[q] = Append(queue[q], Newline)
<1> USE DEF MailInv, MailTyped
<1>1. CASE CleanQueue(p) \/ RemoveQueue(p) \/ UnlinkQueue(p)
  BY <1>1 DEF CleanQueue, RemoveQueue, UnlinkQueue
<1>2. CASE Open(p)
  BY <1>2 DEF Open
<1>3. CASE WriteDigits(p)
  <2>1. pc[p] = "digits" /\ WriteTo(p, Current(p)) /\ Current(p) \in Sends
    BY <1>3, CurrentKnown DEF WriteDigits, KillSteps
  <2>2. /\ linked[p] => queue[target[p]] \in Texts /\ queue[target[p]] # NoFile
        /\ queue'[q] = IF q = target[p] /\ linked[p] THEN Append(queue[q], Current(p)) ELSE queue[q]
    BY <2>1, WrittenTo
  <2> QED BY <2>1, <2>2
<1>4. CASE WriteNewline(p)
  <2>1. pc[p] = "newline" /\ WriteTo(p, Newline)
    BY <1>4 DEF WriteNewline
  <2>2. /\ linked[p] => queue[target[p]] \in Texts /\ queue[target[p]] # NoFile
        /\ queue'[q] = IF q = target[p] /\ linked[p] THEN Append(queue[q], Newline) ELSE queue[q]
    BY <2>1, WrittenTo
  <2> QED BY <2>1, <2>2
<1>5. CASE (\E r \in Procs : Kill(p, r) \/ KillNative(p, r)) \/ TakePending(p) \/ Dispatch(p)
           \/ HandlerEnd(p) \/ HandlerReturn(p) \/ Probe(p) \/ CleanMarker(p) \/ SignalNative(p)
  BY <1>5
  DEF Kill, KillNative, TakePending, Dispatch, HandlerEnd, HandlerReturn, Probe, CleanMarker,
      SignalNative, mailbox_vars
<1>6. CASE Command(p) \/ EnterSubshell(p) \/ LeaveSubshell(p) \/ Block(p) \/ Unblock(p)
           \/ Exit(p) \/ RemoveMarker(p) \/ Start(p)
  BY <1>6
  DEF Command, EnterSubshell, LeaveSubshell, Block, Unblock, Exit, RemoveMarker, Start, mailbox_vars
<1> QED
  BY <1>1, <1>2, <1>3, <1>4, <1>5, <1>6 DEF Step, KillStep, TrapStep, ShellStep

\* A step leaves a batch, ends it, takes one, or shortens it by the signal done.
LEMMA BatchMoves ==
  ASSUME MailInv, NEW p \in Procs, Step(p), NEW q \in Procs
  PROVE  \/ batch'[q] = batch[q] \/ batch'[q] = << >>
         \/ /\ q = p /\ TakePending(p) /\ pc'[p] = "remove" /\ queue[p] \in Texts
            /\ queue[p] # NoFile /\ batch'[p] = <<TakenFrom(queue[p])>>
         \/ /\ q = p /\ Dispatch(p) /\ batch[p] # << >> /\ batch[p][1] \in Seq(Sends) \ {<< >>}
            /\ batch'[p] = <<Tail(batch[p][1])>>
<1>1. batch \in [Procs -> Seq(Seq(Sends))]
  BY DEF MailInv, MailTyped
<1>2. CASE q # p
  BY <1>2, OthersStay
<1>3. CASE q = p /\ TakePending(p)
  <2>1. CASE pc'[p] = "remove"
    BY <1>1, <1>3, <2>1, TakenInto
  <2>2. CASE pc'[p] # "remove"
    BY <1>1, <1>3, <2>2 DEF TakePending, Go, MailInv, MailTyped
  <2> QED BY <2>1, <2>2
<1>4. CASE q = p /\ Dispatch(p)
  <2>1. Len(batch[p]) = 1 /\ batch[p] # << >> /\ batch[p][1] \in Seq(Sends)
    BY <1>4, Dispatched
  <2>2. \/ batch' = [batch EXCEPT ![p] = << >>]
        \/ batch[p][1] # << >> /\ batch' = [batch EXCEPT ![p] = <<Tail(batch[p][1])>>]
    BY <1>4, Dispatched DEF GiveUp
  <2> QED BY <1>1, <1>4, <2>1, <2>2
<1>5. CASE q = p /\ (HandlerReturn(p) \/ Exit(p) \/ Start(p))
  BY <1>1, <1>5 DEF HandlerReturn, Exit, Start, GiveUp
<1>6. CASE KillStep(p)
  BY <1>6
  DEF KillStep, Kill, KillNative, Probe, CleanMarker, CleanQueue,
      SignalNative, Open, WriteDigits, WriteNewline, WriteTo, shell_vars
<1>7. CASE RemoveQueue(p) \/ HandlerEnd(p) \/ Command(p) \/ EnterSubshell(p) \/ LeaveSubshell(p)
           \/ Block(p) \/ Unblock(p) \/ RemoveMarker(p) \/ UnlinkQueue(p)
  BY <1>7
  DEF RemoveQueue, HandlerEnd, Command, EnterSubshell, LeaveSubshell, Block, Unblock, RemoveMarker,
      UnlinkQueue, shell_vars
<1> QED
  BY <1>2, <1>3, <1>4, <1>5, <1>6, <1>7 DEF Step, TrapStep, ShellStep

\* A step dispatches the head of its process's batch, or nothing.
LEMMA DoneMoves ==
  ASSUME MailInv, NEW p \in Procs, Step(p)
  PROVE  \/ done' = done
         \/ /\ Dispatch(p) /\ pc[p] = "dispatch"
            /\ batch[p] # << >> /\ batch[p][1] \in Seq(Sends) \ {<< >>}
            /\ done' = Append(done, Head(batch[p][1]))
            /\ \/ batch' = [batch EXCEPT ![p] = <<Tail(batch[p][1])>>]
               \/ batch' = [batch EXCEPT ![p] = << >>]
<1>1. CASE Dispatch(p)
  <2>1. Len(batch[p]) = 1 /\ batch[p] # << >> /\ batch[p][1] \in Seq(Sends) /\ pc[p] = "dispatch"
    BY <1>1, Dispatched DEF Dispatch
  <2>2. \/ done' = done
        \/ /\ batch[p][1] # << >> /\ done' = Append(done, Head(batch[p][1]))
           /\ \/ batch' = [batch EXCEPT ![p] = <<Tail(batch[p][1])>>]
              \/ batch' = [batch EXCEPT ![p] = << >>]
    BY <1>1, Dispatched DEF GiveUp
  <2> QED BY <1>1, <2>1, <2>2
<1>2. CASE ~Dispatch(p)
  BY <1>2
  DEF Step, KillStep, TrapStep, ShellStep, Kill, KillNative, Probe, CleanMarker, CleanQueue,
      SignalNative, Open, WriteDigits, WriteNewline,
      WriteTo, TakePending, RemoveQueue, HandlerEnd, HandlerReturn, Command, EnterSubshell,
      LeaveSubshell, Block, Unblock, Exit, RemoveMarker, UnlinkQueue, Start, history
<1> QED BY <1>1, <1>2

\* What came after everything dispatched still does after a step: a signal that is
\* dispatched comes before what is left in its batch and in the file.
LEMMA AfterDoneStays ==
  ASSUME MailInv, NEW p \in Procs, Step(p), NEW q \in Procs, NEW i \in DOMAIN sent, AfterDone(q, i),
         ASSUME Dispatch(p), q = p, done' # done, batch[p] # << >>,
                batch[p][1] \in Seq(Sends) \ {<< >>}
         PROVE  Before(Head(batch[p][1]), i)
  PROVE  AfterDone(q, i)'
<1>1. sent'[i] = sent[i]
  BY SendsStay DEF MailInv
<1>2. Range(done) \subseteq DOMAIN sent
  BY DEF MailInv, KnownInv
<1>3. CASE done' = done
  BY <1>1, <1>2, <1>3, BeforeStays DEF AfterDone
<1>4. CASE done' # done
  <2> DEFINE h == Head(batch[p][1])
  <2>1. /\ Dispatch(p) /\ batch[p] # << >> /\ batch[p][1] \in Seq(Sends) \ {<< >>}
        /\ done' = Append(done, h)
    BY <1>4, DoneMoves
  <2>2. h \in Sends /\ h \in InBatch(p) /\ done \in Seq(Sends)
    BY <2>1 DEF InBatch, Range, MailInv, MailTyped
  <2>3. Range(done') = Range(done) \cup {h}
    BY <2>1, <2>2, RangeAppend
  <2>4. sent[h].to = p /\ h \in DOMAIN sent
    BY <2>2 DEF MailInv, OrderInv, BatchOrdered, AfterDone, KnownInv
  <2>5. q = p => Before(h, i)
    BY <1>4, <2>1
  <2>6. q # p => h # i
    BY <2>4 DEF AfterDone
  <2>7. PICK g : g = h
    OBVIOUS
  <2> HIDE DEF h
  <2>8. g # i /\ (q = p => Before(g, i)) /\ g \in DOMAIN sent /\ sent[g].to = p
    BY <2>4, <2>5, <2>6, <2>7 DEF Before
  <2>9. sent'[g] = sent[g] /\ (q = p => Before(g, i)')
    BY <2>8, BeforeStays
  <2>10. \A d \in Range(done) : sent'[d] = sent[d] /\ (sent[d].to = q => Before(d, i)')
    BY <1>2, BeforeStays DEF AfterDone
  <2> QED BY <1>1, <2>3, <2>7, <2>8, <2>9, <2>10 DEF AfterDone
<1> QED BY <1>3, <1>4

\* The text of a file stays in order, and what is in it comes after what is done.
LEMMA FileStepInv ==
  ASSUME MailInv, NEW p \in Procs, Step(p), NEW q \in Procs
  PROVE  FileOrdered(q)'
<1>1. /\ queue[q] \in {NoFile} \cup Texts
      /\ queue[q] # NoFile => TextOrdered(queue[q])
      /\ \A i \in InFile(q) : i \in DOMAIN sent /\ AfterDone(q, i)
  BY DEF MailInv, MailTyped, KnownInv, OrderInv, FileOrdered
<1>2. ASSUME NEW text \in Texts, TextOrdered(text), Numbers(text) \subseteq DOMAIN sent
      PROVE  TextOrdered(text)'
  <2>1. \A k \in DOMAIN text : text[k] # Newline => text[k] \in DOMAIN sent
    BY <1>2 DEF Numbers
  <2>2. \A i, k \in DOMAIN sent : Before(i, k)' <=> Before(i, k)
    BY BeforeStays
  <2> QED BY <1>2, <2>1, <2>2 DEF TextOrdered
<1>3. ASSUME NEW i \in InFile(q) PROVE AfterDone(q, i)'
  <2>1. i \in DOMAIN sent /\ AfterDone(q, i)
    BY <1>1
  <2>2. ASSUME Dispatch(p), q = p, batch[p] # << >>, batch[p][1] \in Seq(Sends) \ {<< >>}
        PROVE  Before(Head(batch[p][1]), i)
    <3>1. Head(batch[p][1]) \in InBatch(p)
      BY <2>2 DEF InBatch, Range
    <3>2. pc[p] \notin {"remove", "ended"}
      BY <2>2 DEF Dispatch
    <3> QED BY <2>2, <3>1, <3>2 DEF MailInv, OrderInv, BatchOrdered
  <2> QED BY <2>1, <2>2, AfterDoneStays
<1>4. CASE queue'[q] = queue[q]
  <2>1. InFile(q)' = InFile(q)
    BY <1>4 DEF InFile
  <2>2. ASSUME queue[q] # NoFile PROVE TextOrdered(queue[q])'
    <3>1. PICK text : text = queue[q]
      OBVIOUS
    <3>2. text \in Texts /\ TextOrdered(text) /\ Numbers(text) \subseteq DOMAIN sent
      BY <1>1, <2>2, <3>1 DEF InFile
    <3>3. TextOrdered(text)' /\ queue'[q] = text
      BY <1>2, <1>4, <3>1, <3>2
    <3> QED BY <3>3 DEF TextOrdered
  <2> QED BY <1>3, <1>4, <2>1, <2>2 DEF FileOrdered, TextOrdered
<1>5. CASE queue'[q] = NoFile
  BY <1>5 DEF FileOrdered, InFile
<1>6. CASE queue'[q] = << >>
  BY <1>6 DEF FileOrdered, InFile, Numbers, TextOrdered
<1>7. CASE /\ queue[q] \in Texts /\ queue[q] # NoFile /\ q = target[p] /\ pc[p] = "newline"
           /\ queue'[q] = Append(queue[q], Newline)
  <2>1. PICK text : text = Append(queue[q], Newline)
    OBVIOUS
  <2>2. text \in Texts /\ Numbers(text) = Numbers(queue[q]) /\ TextOrdered(text)
    <3>1. text \in Texts /\ Numbers(text) = Numbers(queue[q])
      <4>1. Newline \in Sends \cup {Newline} /\ {Newline} \ {Newline} = {}
        OBVIOUS
      <4>2. /\ Append(queue[q], Newline) \in Texts
            /\ Numbers(Append(queue[q], Newline)) = Numbers(queue[q]) \cup ({Newline} \ {Newline})
        BY <1>7, <4>1, NumbersOfAppend
      <4> QED BY <2>1, <4>1, <4>2
    <3>2. TextOrdered(queue[q])
      BY <1>1, <1>7
    <3>3. TextOrdered(text)
      BY <1>7, <2>1, <3>2, AppendOrdered
    <3> QED BY <3>1, <3>3
  <2>3. Numbers(queue[q]) = InFile(q)
    BY <1>7 DEF InFile
  <2>4. TextOrdered(text)'
    BY <1>1, <1>2, <2>2, <2>3
  <2>5. queue'[q] = text /\ InFile(q)' = InFile(q)
    BY <1>7, <2>1, <2>2, <2>3, NoFileIsNoText DEF InFile
  <2> QED BY <1>3, <2>4, <2>5 DEF FileOrdered, TextOrdered
<1>8. CASE /\ queue[q] \in Texts /\ queue[q] # NoFile /\ q = target[p] /\ pc[p] = "digits"
           /\ queue'[q] = Append(queue[q], Current(p))
  <2>1. PICK c : c = Current(p)
    OBVIOUS
  <2>2. PICK text : text = Append(queue[q], c)
    OBVIOUS
  <2>3. c \in Sends /\ c \in DOMAIN sent /\ c \notin Range(done) /\ sent[c].to = q
    BY <1>8, <2>1, CurrentKnown DEF KillSteps, Nowhere
  <2>4. \A x \in InFile(q) \cup Range(done) : Before(x, c)
    BY <1>8, <2>1, WrittenLast
  <2>5. Numbers(queue[q]) = InFile(q)
    BY <1>8 DEF InFile
  <2>6. text \in Texts /\ Numbers(text) = InFile(q) \cup {c}
    <3>1. c # Newline
      BY <2>3, MailboxConstants DEF Sends, Newline
    <3> QED BY <1>8, <2>2, <2>3, <2>5, <3>1, NumbersOfAppend
  <2>7. TextOrdered(text)
    <3>1. TextOrdered(queue[q]) /\ c \in Sends \cup {Newline}
      BY <1>1, <1>8, <2>3
    <3> QED BY <1>8, <2>2, <2>4, <2>5, <3>1, AppendOrdered
  <2>8. AfterDone(q, c)'
    <3>1. AfterDone(q, c)
      BY <2>3, <2>4 DEF AfterDone
    <3>2. ~Dispatch(p)
      BY <1>8 DEF Dispatch
    <3> QED BY <2>3, <3>1, <3>2, AfterDoneStays
  <2>9. TextOrdered(text)'
    BY <1>1, <1>2, <2>3, <2>6, <2>7
  <2>10. queue'[q] = text /\ InFile(q)' = InFile(q) \cup {c}
    BY <1>8, <2>1, <2>2, <2>6, NoFileIsNoText DEF InFile
  <2> QED BY <1>3, <2>8, <2>9, <2>10 DEF FileOrdered, TextOrdered
<1> QED BY <1>4, <1>5, <1>6, <1>7, <1>8, FileMoves

\* A batch stays in order, comes after what is done, and, once the file it was read
\* from is removed, before what is in the file.
LEMMA BatchOrderStep ==
  ASSUME MailInv, NEW p \in Procs, Step(p), NEW q \in Procs
  PROVE  BatchOrdered(q)'
<1>1. /\ batch[q] \in Seq(Seq(Sends)) /\ InFile(q) \subseteq DOMAIN sent
      /\ InBatch(q) \subseteq DOMAIN sent
      /\ batch[q] # << >> => TextOrdered(batch[q][1])
      /\ \A i \in InBatch(q) : AfterDone(q, i)
      /\ pc[q] \notin {"remove", "ended"} =>
           \A i \in InBatch(q) : \A k \in InFile(q) : Before(i, k)
  BY DEF MailInv, MailTyped, KnownInv, OrderInv, BatchOrdered
<1>2. ASSUME NEW text \in Seq(Sends), TextOrdered(text), Range(text) \subseteq DOMAIN sent
      PROVE  TextOrdered(text)'
  <2>1. \A k \in DOMAIN text : text[k] \in DOMAIN sent
    BY <1>2 DEF Range
  <2>2. \A i, k \in DOMAIN sent : Before(i, k)' <=> Before(i, k)
    BY BeforeStays
  <2> QED BY <1>2, <2>1, <2>2 DEF TextOrdered
<1>3. CASE batch'[q] = << >>
  BY <1>3 DEF BatchOrdered, InBatch
<1>4. CASE batch'[q] = batch[q] /\ batch[q] # << >>
  <2>1. InBatch(q)' = InBatch(q) /\ batch[q][1] \in Seq(Sends)
    BY <1>1, <1>4 DEF InBatch
  <2>2. TextOrdered(batch[q][1])'
    <3>1. PICK text : text = batch[q][1]
      OBVIOUS
    <3>2. text \in Seq(Sends) /\ TextOrdered(text) /\ Range(text) \subseteq DOMAIN sent
      BY <1>1, <1>4, <2>1, <3>1 DEF InBatch
    <3>3. TextOrdered(text)' /\ batch'[q][1] = text
      BY <1>2, <1>4, <3>1, <3>2
    <3> QED BY <3>3 DEF TextOrdered
  <2>3. ~(Dispatch(p) /\ q = p /\ done' # done)
    <3> SUFFICES ASSUME Dispatch(p), q = p, done' # done PROVE FALSE
      OBVIOUS
    <3>1. /\ batch[p][1] \in Seq(Sends) \ {<< >>} /\ batch \in [Procs -> Seq(Seq(Sends))]
          /\ \/ batch' = [batch EXCEPT ![p] = <<Tail(batch[p][1])>>]
             \/ batch' = [batch EXCEPT ![p] = << >>]
      BY DoneMoves DEF MailInv, MailTyped
    <3>2. batch'[p][1] = Tail(batch[p][1])
      BY <1>4, <3>1
    <3>3. Len(Tail(batch[p][1])) # Len(batch[p][1])
      BY <3>1
    <3> QED BY <1>4, <3>2, <3>3
  <2>4. \A i \in InBatch(q) : AfterDone(q, i)'
    BY <1>1, <2>3, AfterDoneStays
  <2>5. ASSUME pc'[q] \notin {"remove", "ended"}, NEW i \in InBatch(q), NEW k \in InFile(q)'
        PROVE  Before(i, k)'
    <3>1. CASE pc[q] \notin {"remove", "ended"}
      <4>1. CASE k \in InFile(q)
        BY <1>1, <3>1, <4>1, BeforeStays
      <4>2. CASE k \notin InFile(q)
        <5>1. WriteDigits(p) /\ k = Current(p)
          BY <2>5, <4>2, WhereSignalsGo
        <5>2. pc[p] = "digits" /\ k \in DOMAIN sent
          BY <5>1, CurrentKnown DEF WriteDigits, KillSteps
        <5>3. Before(i, k)
          BY <5>1, <5>2, WrittenLast
        <5> QED BY <1>1, <5>2, <5>3, BeforeStays
      <4> QED BY <4>1, <4>2
    <3>2. CASE pc[q] = "remove"
      <4>1. q = p
        BY <2>5, <3>2, OthersStay
      <4>2. RemoveQueue(p)
        BY <2>5, <3>2, <4>1 DEF Step, KillStep, TrapStep, ShellStep, Kill, KillNative, Probe, CleanMarker, CleanQueue,
                                SignalNative, Open,
          WriteDigits, WriteNewline, TakePending, Dispatch, HandlerEnd, HandlerReturn, InHandler,
          Command, EnterSubshell, LeaveSubshell, Block, Unblock, Exit, RemoveMarker, UnlinkQueue, Start
      <4>3. queue'[q] = NoFile
        BY <4>1, <4>2 DEF RemoveQueue, MailInv, MailTyped
      <4> QED BY <2>5, <4>3 DEF InFile
    <3>3. CASE pc[q] = "ended"
      <4>1. q = p
        BY <2>5, <3>3, OthersStay
      <4>2. Start(p)
        BY <2>5, <3>3, <4>1 DEF Step, KillStep, TrapStep, ShellStep, Kill, KillNative, Probe, CleanMarker, CleanQueue,
                                SignalNative, Open,
          WriteDigits, WriteNewline, TakePending, RemoveQueue, Dispatch, HandlerEnd, HandlerReturn,
          InHandler, Command, EnterSubshell, LeaveSubshell, Block, Unblock, Exit, RemoveMarker,
          UnlinkQueue
      <4>3. batch'[q] = << >>
        BY <4>1, <4>2 DEF Start, MailInv, MailTyped
      <4> QED BY <1>4, <4>3
    <3> QED BY <3>1, <3>2, <3>3
  <2> QED BY <1>4, <2>1, <2>2, <2>4, <2>5 DEF BatchOrdered, TextOrdered
<1>5. CASE /\ q = p /\ TakePending(p) /\ pc'[p] = "remove" /\ queue[p] \in Texts
           /\ queue[p] # NoFile /\ batch'[p] = <<TakenFrom(queue[p])>>
  <2>1. PICK text : text = TakenFrom(queue[p])
    OBVIOUS
  <2>2. TextOrdered(queue[p]) /\ InFile(p) = Numbers(queue[p])
    BY <1>5 DEF MailInv, OrderInv, FileOrdered, InFile
  <2>3. text \in Seq(Sends) /\ TextOrdered(text) /\ Range(text) \subseteq InFile(p)
    BY <1>5, <2>1, <2>2, TakenFromText, TakenOrdered
  <2>4. TextOrdered(text)'
    BY <1>1, <1>2, <1>5, <2>3
  <2>5. batch'[q] = <<text>> /\ batch'[q][1] = text /\ batch'[q] # << >>
    BY <1>5, <2>1
  <2>6. InBatch(q)' \subseteq InFile(q)
    BY <1>5, <2>3, <2>5 DEF InBatch
  <2>7. \A i \in InFile(q) : AfterDone(q, i)'
    <3>1. \A i \in InFile(q) : AfterDone(q, i)
      BY DEF MailInv, OrderInv, FileOrdered
    <3>2. ~Dispatch(p)
      BY <1>5 DEF TakePending, Dispatch
    <3> QED BY <1>1, <3>1, <3>2, AfterDoneStays
  <2> QED BY <1>5, <2>4, <2>5, <2>6, <2>7 DEF BatchOrdered, TextOrdered
<1>6. CASE /\ q = p /\ Dispatch(p) /\ batch[p] # << >> /\ batch[p][1] \in Seq(Sends) \ {<< >>}
           /\ batch'[p] = <<Tail(batch[p][1])>>
  <2>1. PICK text : text = Tail(batch[p][1])
    OBVIOUS
  <2>2. InBatch(p) = Range(batch[p][1]) /\ TextOrdered(batch[p][1])
    BY <1>1, <1>6 DEF InBatch
  <2>3. /\ text \in Seq(Sends) /\ TextOrdered(text) /\ Range(text) \subseteq InBatch(p)
        /\ \A x \in Range(text) : Before(Head(batch[p][1]), x)
    BY <1>6, <2>1, <2>2, TailOrdered
  <2>4. TextOrdered(text)'
    BY <1>1, <1>2, <1>6, <2>3
  <2>5. batch'[q] = <<text>> /\ batch'[q][1] = text /\ batch'[q] # << >>
    BY <1>6, <2>1
  <2>6. InBatch(q)' = Range(text)
    BY <2>5 DEF InBatch
  <2>7. \A i \in Range(text) : AfterDone(q, i)'
    BY <1>1, <1>6, <2>3, AfterDoneStays
  <2>8. ASSUME NEW i \in Range(text), NEW k \in InFile(q)' PROVE Before(i, k)'
    <3>1. pc[q] = "dispatch" /\ InFile(q)' \subseteq InFile(q)
      BY <1>6, WhereSignalsGo DEF Dispatch, WriteDigits
    <3>2. Before(i, k) /\ i \in DOMAIN sent /\ k \in DOMAIN sent
      BY <1>1, <1>6, <2>3, <2>8, <3>1
    <3> QED BY <3>2, BeforeStays
  <2> QED BY <2>4, <2>5, <2>6, <2>7, <2>8 DEF BatchOrdered, TextOrdered
<1> QED BY <1>3, <1>4, <1>5, <1>6, BatchMoves

\* What is dispatched comes after everything dispatched before.
LEMMA DispatchedInOrder ==
  ASSUME MailInv, NEW p \in Procs, Step(p)
  PROVE  OrderedOnce'
<1>1. done \in Seq(Sends) /\ Range(done) \subseteq DOMAIN sent /\ OrderedOnce
  BY DEF MailInv, MailTyped, KnownInv, OrderInv
<1>2. Len(done) \in Nat /\ DOMAIN done = 1 .. Len(done) /\ \A i \in DOMAIN done : done[i] \in DOMAIN sent
  BY <1>1 DEF Range
<1>3. \A i \in DOMAIN sent : sent'[i] = sent[i]
  BY SendsStay DEF MailInv
<1>4. CASE done' = done
  BY <1>1, <1>2, <1>3, <1>4 DEF OrderedOnce
<1>5. CASE done' # done
  <2>1. PICK h : h = Head(batch[p][1])
    OBVIOUS
  <2>2. batch[p] # << >> /\ batch[p][1] \in Seq(Sends) \ {<< >>} /\ done' = Append(done, h)
    BY <1>5, <2>1, DoneMoves
  <2>3. h \in Sends /\ h \in InBatch(p)
    BY <2>1, <2>2 DEF InBatch, Range
  <2>4. AfterDone(p, h) /\ h \in DOMAIN sent
    BY <2>3 DEF MailInv, OrderInv, BatchOrdered, KnownInv
  <2>5. /\ DOMAIN done' = 1 .. Len(done) + 1 /\ done'[Len(done) + 1] = h
        /\ \A i \in 1 .. Len(done) : done'[i] = done[i]
    BY <1>1, <2>2, <2>3
  <2>6. ASSUME NEW i \in DOMAIN done', NEW k \in DOMAIN done', i < k
        PROVE  /\ done'[i] # done'[k]
               /\ sent'[done'[i]].from = sent'[done'[k]].from
                    /\ sent'[done'[i]].to = sent'[done'[k]].to => done'[i] < done'[k]
    <3>1. i \in DOMAIN done /\ done'[i] = done[i] /\ done[i] \in DOMAIN sent
          /\ done[i] \in Range(done)
      BY <1>2, <2>5, <2>6 DEF Range
    <3>2. CASE k = Len(done) + 1
      <4>1. done'[k] = h
        BY <2>5, <3>2
      <4>2. done[i] # h /\ (sent[done[i]].to = p => Before(done[i], h)) /\ sent[h].to = p
        BY <2>4, <3>1 DEF AfterDone
      <4> QED BY <1>3, <2>4, <3>1, <4>1, <4>2 DEF Before
    <3>3. CASE k # Len(done) + 1
      <4>1. k \in DOMAIN done /\ done'[k] = done[k]
        BY <1>2, <2>5, <3>3
      <4> QED BY <1>1, <1>2, <1>3, <2>6, <3>1, <4>1 DEF OrderedOnce
    <3> QED BY <3>2, <3>3
  <2> QED BY <2>6 DEF OrderedOnce
<1> QED BY <1>4, <1>5

\* The invariant holds at the start.
LEMMA MailInit == Init => MailInv
<1> SUFFICES ASSUME Init PROVE MailInv
  OBVIOUS
<1>1. DOMAIN << >> = {} /\ << >> \in Seq(SendRecord) /\ Len(<< >>) = 0 /\ << >> \in Seq(Seq(Sends))
      /\ << >> \in Seq(Sends)
  BY EmptySeq
<1>2. MailTyped
  <2>1. /\ pc \in [Procs -> Places] /\ target \in [Procs -> Procs] /\ linked \in [Procs -> BOOLEAN]
        /\ marker \subseteq Owners /\ queue \in [Procs -> {NoFile} \cup Texts]
    BY DEF Init, Places
  <2>2. /\ batch \in [Procs -> Seq(Seq(Sends))] /\ running \in [Procs -> BOOLEAN]
        /\ subshell \in [Procs -> BOOLEAN] /\ starts \in [Procs -> Nat] /\ restarts \in 0 .. MaxRestarts
        /\ \A p \in Procs : starts[p] \in 1 .. restarts + 1
    BY <1>1, MailboxConstants DEF Init
  <2>3. /\ sent \in Seq(SendRecord) /\ Len(sent) <= MaxSends
        /\ accepted \subseteq DOMAIN sent /\ done \in Seq(Sends) /\ dropped \subseteq Sends
    BY <1>1, MailboxConstants DEF Init
  <2> QED BY <2>1, <2>2, <2>3 DEF MailTyped
<1>3. \A p \in Procs : InFile(p) = {} /\ InBatch(p) = {} /\ batch[p] = << >> /\ queue[p] = NoFile
  BY DEF Init, InFile, InBatch
<1>4. Range(done) = {} /\ DOMAIN done = {}
  BY <1>1 DEF Init, Range
<1>5. KnownInv
  BY <1>3, <1>4 DEF KnownInv
<1>6. KillInv
  BY DEF Init, KillInv, KillSteps
<1>7. BatchInv
  BY <1>1, <1>3 DEF Init, BatchInv
<1>8. OrderInv
  BY <1>3, <1>4 DEF OrderInv, OrderedOnce, FileOrdered, BatchOrdered
<1> QED BY <1>2, <1>5, <1>6, <1>7, <1>8 DEF MailInv

\* A step of nobody keeps the invariant.
LEMMA MailQuiet == MailInv /\ UNCHANGED vars => MailInv'
<1> SUFFICES ASSUME MailInv, UNCHANGED vars PROVE MailInv'
  OBVIOUS
<1>1. UNCHANGED <<pc, target, linked, marker, queue, batch, running, subshell, starts, restarts,
                  sent, accepted, done, dropped>>
  BY DEF vars, mailbox_vars, shell_vars, lives, history
<1>2. MailTyped' /\ KnownInv' /\ BatchInv'
  BY <1>1 DEF MailInv, MailTyped, KnownInv, BatchInv, InFile, InBatch
<1>3. KillInv'
  BY <1>1 DEF MailInv, KillInv, IsCurrent, Nowhere, InFile, InBatch
<1>4. OrderInv'
  BY <1>1 DEF MailInv, OrderInv, OrderedOnce, FileOrdered, BatchOrdered, InFile, InBatch, AfterDone,
    TextOrdered, Before
<1> QED BY <1>2, <1>3, <1>4 DEF MailInv

\* Every step keeps the invariant.
LEMMA MailStep == MailInv /\ [Next]_vars => MailInv'
<1> SUFFICES ASSUME MailInv, NEW p \in Procs, Step(p) PROVE MailInv'
  BY MailQuiet DEF Next, Step
<1>1. OrderInv'
  BY FileStepInv, BatchOrderStep, DispatchedInOrder DEF OrderInv
<1> QED BY <1>1, MailTypedStep, KnownStep, KillStepInv, BatchStepInv DEF MailInv

\* For any processes, bound on sends and bound on restarts: every signal is dispatched
\* at most once, after those of the same sender before it, and outside the
\* handlers of others; and every variable keeps its type.
THEOREM MailDispatchSound == Spec => []DispatchSound
<1>1. Init => MailInv
  BY MailInit
<1>2. MailInv /\ [Next]_vars => MailInv'
  BY MailStep
<1>3. MailInv => DispatchSound
  <2> SUFFICES ASSUME MailInv PROVE DispatchSound
    OBVIOUS
  <2>1. MailTyped /\ OrderedOnce /\ BatchInv
    BY DEF MailInv, OrderInv
  <2>2. HandlersDoNotNest
    BY <2>1 DEF BatchInv, HandlersDoNotNest
  <2>3. ASSUME NEW S, NEW s \in Seq(S) PROVE Range(s) \subseteq S
    BY <2>3 DEF Range
  <2>4. TypeOK
    <3>1. \A p \in Procs : queue[p] = NoFile \/ Range(queue[p]) \subseteq Sends \cup {Newline}
      BY <2>1, <2>3 DEF MailTyped, Texts
    <3>2. \A p \in Procs : \A k \in DOMAIN batch[p] : Range(batch[p][k]) \subseteq Sends
      <4>1. ASSUME NEW p \in Procs, NEW k \in DOMAIN batch[p] PROVE batch[p][k] \in Seq(Sends)
        BY <2>1 DEF MailTyped
      <4> QED BY <2>3, <4>1
    <3>3. starts \in [Procs -> 1 .. MaxRestarts + 1]
      <4>1. \A p \in Procs : starts[p] \in 1 .. MaxRestarts + 1
        BY <2>1, MailboxConstants DEF MailTyped
      <4> QED BY <2>1, <4>1 DEF MailTyped
    <3>4. Range(done) \subseteq Sends
      BY <2>1, <2>3 DEF MailTyped
    <3> QED BY <2>1, <3>1, <3>2, <3>3, <3>4 DEF MailTyped, TypeOK
  <2> QED BY <2>1, <2>2, <2>4 DEF DispatchSound
<1> QED BY <1>1, <1>2, <1>3, PTL DEF Spec

----------------------------------------------------------------------------
(* What is lost.  A signal that kill reported as delivered is lost only in  *)
(* a race.  The argument follows the line of a send that met none: the file *)
(* that kill opened stays until the line is complete (KeepsFile), the line  *)
(* is one the owner reads as a signal (HasLine), and whatever is in the     *)
(* file when the owner removes it is in the batch (TakenWhole).             *)

\* A line that is complete.
Complete(content, k) == WholeLine(content, k) /\ k < Len(content)

RacesSeen == Racing \subseteq raced

KeepsFile ==
  \A p \in Procs : Writing(p) /\ Current(p) \notin raced =>
    /\ linked[p]
    /\ pc[p] = "newline" =>
         \E k \in DOMAIN queue[target[p]] :
           queue[target[p]][k] = Current(p) /\ WholeLine(queue[target[p]], k)

HasLine ==
  \A q \in Procs : \A i \in accepted \ raced :
    i \in InFile(q) => \E k \in DOMAIN queue[q] : queue[q][k] = i /\ Complete(queue[q], k)

TakenWhole ==
  \A q \in Procs : pc[q] = "remove" => (InFile(q) \cap accepted) \ raced \subseteq InBatch(q)

\* What is being sent has not been accepted, and no life comes after the present.
NotYetAccepted == \A p \in Procs : pc[p] \in KillSteps => Current(p) \notin accepted
LivesKnown == \A i \in DOMAIN sent : sent[i].life <= starts[sent[i].to]

\* A kill that removes files found the process it is for dead, and who has its pid
\* now is another.
Deceased(r) == pc[target[r]] = "ended" \/ sent[Current(r)].life # starts[target[r]]
FoundDead == \A r \in Procs : pc[r] \in {"clean", "clean queue"} => Deceased(r)

\* The process send i was for has not ended nor begun to.
StillThere(i) ==
  sent[i].life = starts[sent[i].to] /\ pc[sent[i].to] \notin {"ended", "exit", "unlink"}

Kept ==
  \A i \in accepted \ raced : StillThere(i) =>
    i \in InFile(sent[i].to) \cup InBatch(sent[i].to) \cup Range(done) \cup dropped

RaceInv ==
  /\ RacesSeen /\ KeepsFile /\ HasLine /\ TakenWhole /\ NotYetAccepted /\ LivesKnown /\ FoundDead
  /\ Kept

\* The last send of r in the next state.
LEMMA CurrentNext ==
  ASSUME MailInv', NEW r \in Procs, pc'[r] \in KillSteps
  PROVE  /\ Current(r)' \in DOMAIN sent' /\ sent'[Current(r)'].from = r
         /\ sent'[Current(r)'].to = target'[r]
         /\ \A k \in DOMAIN sent' : sent'[k].from = r => k <= Current(r)'
<1>1. PICK i \in DOMAIN sent' : IsCurrent(r, i)' /\ sent'[i].to = target'[r]
  BY DEF MailInv, KillInv
<1>2. DOMAIN sent' \subseteq Nat
  BY DEF MailInv, MailTyped
<1>3. \A k : IsCurrent(r, k)' => k = i
  BY <1>1, <1>2 DEF IsCurrent
<1>4. Current(r)' = i
  BY <1>1, <1>3 DEF Current, IsCurrent
<1> QED BY <1>1, <1>4 DEF IsCurrent

\* While a kill goes on, it is about the same send.
LEMMA CurrentStays ==
  ASSUME MailInv, MailInv', NEW p \in Procs, Step(p), NEW r \in Procs,
         pc[r] \in KillSteps, pc'[r] \in KillSteps
  PROVE  Current(r)' = Current(r) /\ target'[r] = target[r]
<1>1. /\ Current(r) \in DOMAIN sent /\ sent[Current(r)].from = r
      /\ \A k \in DOMAIN sent : sent[k].from = r => k <= Current(r)
  BY CurrentKnown DEF IsCurrent
<1>2. /\ Current(r)' \in DOMAIN sent' /\ sent'[Current(r)'].from = r
      /\ \A k \in DOMAIN sent' : sent'[k].from = r => k <= Current(r)'
  BY CurrentNext
<1>3. ASSUME NEW q \in Procs, Kill(p, q) PROVE r # p
  BY <1>3 DEF Kill, KillSteps
<1>4. DOMAIN sent \subseteq Nat /\ DOMAIN sent' \subseteq Nat
  <2>1. sent \in Seq(SendRecord) /\ sent' \in Seq(SendRecord)
    BY Zenon DEF MailInv, MailTyped
  <2> QED BY <2>1
<1>5. CASE sent' = sent
  <2>1. Current(r)' = Current(r)
    BY <1>5 DEF Current
  <2>2. r = p => ~ \E q \in Procs : Kill(p, q)
    BY <1>3
  <2> QED BY <2>1, <2>2, OthersStay, KillGoesOn DEF MailInv
<1>6. CASE \E q \in Procs : Kill(p, q)
  <2>1. PICK q \in Procs : Kill(p, q)
    BY <1>6
  <2>2. r # p
    BY <2>1, <1>3
  <2>3. /\ DOMAIN sent' = DOMAIN sent \cup {Len(sent) + 1}
        /\ \A k \in DOMAIN sent : sent'[k] = sent[k]
        /\ sent'[Len(sent) + 1].from = p
    BY <2>1, KillSends DEF MailInv
  <2>4. Current(r)' \in DOMAIN sent /\ sent[Current(r)'].from = r
    BY <1>2, <2>2, <2>3
  <2>5. Current(r)' <= Current(r) /\ Current(r) <= Current(r)'
    BY <1>1, <1>2, <2>3, <2>4
  <2>6. Current(r)' = Current(r)
    BY <1>1, <1>2, <1>4, <2>5
  <2> QED BY <2>2, <2>6, OthersStay
<1> QED BY <1>5, <1>6, OnlyKillSends

\* What becomes of a queue file: only its owner, reading it or ending, and a
\* kill that found the owner of its pid dead remove it.
LEMMA FileChanges ==
  ASSUME MailInv, NEW p \in Procs, Step(p), NEW q \in Procs
  PROVE  \/ queue'[q] = queue[q]
         \/ queue'[q] = NoFile /\ (pc[q] = "unlink" \/ (q = p /\ RemoveQueue(p)))
         \/ queue'[q] = NoFile /\ q = target[p] /\ CleanQueue(p)
         \/ queue[q] = NoFile /\ queue'[q] = << >>
         \/ /\ queue[q] \in Texts /\ queue[q] # NoFile /\ q = target[p] /\ linked[p]
            /\ \/ WriteDigits(p) /\ queue'[q] = Append(queue[q], Current(p))
               \/ WriteNewline(p) /\ queue'[q] = Append(queue[q], Newline)
<1> USE DEF MailInv, MailTyped
<1>1. CASE CleanQueue(p)
  BY <1>1 DEF CleanQueue
<1>2. CASE RemoveQueue(p)
  BY <1>2 DEF RemoveQueue
<1>3. CASE UnlinkQueue(p)
  <2>1. queue' = queue \/ queue' = [queue EXCEPT ![p] = NoFile]
    BY <1>3 DEF UnlinkQueue
  <2>2. pc[p] = "unlink"
    BY <1>3 DEF UnlinkQueue
  <2>3. CASE q = p
    BY <2>1, <2>2, <2>3
  <2>4. CASE q # p
    BY <2>1, <2>4
  <2> QED BY <2>3, <2>4
<1>4. CASE Open(p)
  BY <1>4 DEF Open
<1>5. CASE WriteDigits(p)
  <2>1. Current(p) \in Sends \cup {Newline} /\ WriteTo(p, Current(p))
    BY <1>5, CurrentKnown DEF WriteDigits, KillSteps
  <2>2. /\ linked[p] => queue[target[p]] \in Texts /\ queue[target[p]] # NoFile
        /\ queue'[q] = IF q = target[p] /\ linked[p] THEN Append(queue[q], Current(p)) ELSE queue[q]
    BY <2>1, WrittenTo DEF MailInv
  <2> HIDE DEF MailInv, MailTyped
  <2> QED BY <1>5, <2>2
<1>6. CASE WriteNewline(p)
  <2>1. Newline \in Sends \cup {Newline} /\ WriteTo(p, Newline)
    BY <1>6 DEF WriteNewline
  <2>2. /\ linked[p] => queue[target[p]] \in Texts /\ queue[target[p]] # NoFile
        /\ queue'[q] = IF q = target[p] /\ linked[p] THEN Append(queue[q], Newline) ELSE queue[q]
    BY <2>1, WrittenTo DEF MailInv
  <2> HIDE DEF MailInv, MailTyped
  <2> QED BY <1>6, <2>2
<1>7. CASE (\E r \in Procs : Kill(p, r) \/ KillNative(p, r)) \/ TakePending(p) \/ Dispatch(p)
           \/ HandlerEnd(p) \/ HandlerReturn(p) \/ Probe(p) \/ CleanMarker(p) \/ SignalNative(p)
  BY <1>7
  DEF Kill, KillNative, TakePending, Dispatch, HandlerEnd, HandlerReturn, Probe, CleanMarker,
      SignalNative, mailbox_vars
<1>8. CASE Command(p) \/ EnterSubshell(p) \/ LeaveSubshell(p) \/ Block(p) \/ Unblock(p)
           \/ Exit(p) \/ RemoveMarker(p) \/ Start(p)
  BY <1>8
  DEF Command, EnterSubshell, LeaveSubshell, Block, Unblock, Exit, RemoveMarker, Start, mailbox_vars
<1> QED
  BY <1>1, <1>2, <1>3, <1>4, <1>5, <1>6, <1>7, <1>8 DEF Step, KillStep, TrapStep, ShellStep

\* A kill that writes has a linked file from its start, until the file is removed.
LEMMA LinkStays ==
  ASSUME MailInv, NEW p \in Procs, Step(p), NEW r \in Procs, Writing(r)'
  PROVE  /\ ~Writing(r) => linked'[r] /\ pc'[r] = "digits" /\ pc[r] = "open"
         /\ Writing(r) /\ linked[r] =>
              \/ linked'[r] \/ pc[target[r]] \in {"remove", "unlink"}
              \/ target[r] = target[p] /\ CleanQueue(p)
         /\ pc[r] = "digits" /\ pc'[r] = "newline" => r = p /\ WriteDigits(p)
         /\ pc[r] = "newline" => pc'[r] = "newline" /\ ~WriteNewline(r)
<1> USE DEF MailInv, MailTyped, Go, Writing, NoTarget
<1>1. CASE CleanQueue(p)
  <2>1. /\ pc[p] = "clean queue" /\ pc'[p] = "native"
        /\ \A q \in Procs \ {p} : pc'[q] = pc[q]
    BY <1>1 DEF CleanQueue, Go
  <2>2. r # p /\ pc'[r] = pc[r]
    BY <2>1
  <2>3. linked'[r] = (linked[r] /\ target[r] # target[p])
    BY <1>1, Zenon DEF CleanQueue
  <2> QED BY <2>1, <2>2, <2>3, <1>1 DEF WriteNewline
<1>11. CASE Probe(p)
  BY <1>11 DEF Probe, mailbox_vars, WriteNewline
<1>12. CASE CleanMarker(p)
  BY <1>12 DEF CleanMarker, WriteNewline
<1>13. CASE SignalNative(p)
  BY <1>13 DEF SignalNative, Terminate, mailbox_vars, WriteNewline
<1>2. CASE RemoveQueue(p) \/ UnlinkQueue(p)
  <2>1. /\ pc[p] \in {"remove", "unlink"} /\ pc'[p] \in {"dispatch", "ended"}
        /\ \A q \in Procs \ {p} : pc'[q] = pc[q]
    BY <1>2 DEF RemoveQueue, UnlinkQueue, Go
  <2>2. r # p /\ pc'[r] = pc[r]
    BY <2>1
  <2>3. linked[r] => linked'[r] \/ target[r] = p
    <3>1. \/ linked' = linked
          \/ linked' = [o \in Procs |-> linked[o] /\ target[o] # p]
      BY <1>2 DEF RemoveQueue, UnlinkQueue
    <3>2. CASE linked' = [o \in Procs |-> linked[o] /\ target[o] # p]
      <4>1. linked'[r] = (linked[r] /\ target[r] # p)
        BY <3>2, Zenon
      <4> QED BY <4>1
    <3> QED BY <3>1, <3>2
  <2> QED BY <2>1, <2>2, <2>3 DEF WriteNewline
<1>3. CASE Open(p)
  <2>1. /\ pc[p] = "open" /\ pc'[p] = "digits" /\ linked'[p]
        /\ \A q \in Procs \ {p} : pc'[q] = pc[q] /\ linked'[q] = linked[q]
    BY <1>3 DEF Open
  <2> QED BY <2>1 DEF WriteNewline
<1>4. CASE WriteDigits(p)
  BY <1>4 DEF WriteDigits, WriteTo, WriteNewline
<1>5. CASE WriteNewline(p)
  BY <1>5 DEF WriteNewline, WriteTo
<1>6. CASE \E q \in Procs : Kill(p, q) \/ KillNative(p, q)
  BY <1>6 DEF Kill, KillNative, Terminate, mailbox_vars, WriteNewline
<1>7. CASE TakePending(p) \/ HandlerEnd(p) \/ HandlerReturn(p)
  BY <1>7 DEF TakePending, HandlerEnd, HandlerReturn, GiveUp, mailbox_vars, WriteNewline
<1>8. CASE Dispatch(p)
  BY <1>8 DEF Dispatch, GiveUp, mailbox_vars, WriteNewline
<1>9. CASE Command(p) \/ EnterSubshell(p) \/ LeaveSubshell(p) \/ Block(p) \/ Unblock(p)
  BY <1>9 DEF Command, EnterSubshell, LeaveSubshell, Block, Unblock, mailbox_vars, WriteNewline
<1>10. CASE Exit(p) \/ RemoveMarker(p) \/ Start(p)
  BY <1>10 DEF Exit, GiveUp, RemoveMarker, Start, mailbox_vars, WriteNewline
<1> QED
  BY <1>1, <1>2, <1>3, <1>4, <1>5, <1>6, <1>7, <1>8, <1>9, <1>10, <1>11, <1>12, <1>13
  DEF Step, KillStep, TrapStep, ShellStep

\* A shell that has ended or begun to is there again only as another process.
LEMMA EndIsFinal ==
  ASSUME MailInv, NEW p \in Procs, Step(p), NEW q \in Procs,
         pc[q] \in {"ended", "exit", "unlink"}, pc'[q] \notin {"ended", "exit", "unlink"}
  PROVE  q = p /\ Start(p)
<1> USE DEF MailInv, MailTyped, Go
<1>1. CASE KillStep(p)
  BY <1>1 DEF KillStep, Kill, KillNative, Terminate, Probe, CleanMarker, CleanQueue,
              SignalNative, Open, WriteDigits, WriteNewline
<1>2. CASE TakePending(p) \/ RemoveQueue(p) \/ HandlerEnd(p) \/ HandlerReturn(p)
  BY <1>2 DEF TakePending, RemoveQueue, HandlerEnd, HandlerReturn, InHandler, GiveUp
<1>3. CASE Dispatch(p)
  BY <1>3 DEF Dispatch, GiveUp
<1>4. CASE ShellStep(p) /\ ~Start(p)
  BY <1>4
  DEF ShellStep, Command, EnterSubshell, LeaveSubshell, Block, Unblock, Exit, RemoveMarker,
      UnlinkQueue, GiveUp
<1>5. CASE Start(p)
  BY <1>5 DEF Start
<1> QED BY <1>1, <1>2, <1>3, <1>4, <1>5 DEF Step, TrapStep

\* A line stays one in a longer text, if what follows it is another line.
LEMMA LineStays ==
  ASSUME NEW content \in Texts, NEW item \in Sends \cup {Newline},
         NEW k \in DOMAIN content, WholeLine(content, k), k < Len(content) \/ item = Newline
  PROVE  /\ k \in DOMAIN Append(content, item) /\ Append(content, item)[k] = content[k]
         /\ Complete(Append(content, item), k)
<1> DEFINE longer == Append(content, item)
<1>1. /\ DOMAIN content = 1 .. Len(content) /\ Len(content) \in Nat
      /\ DOMAIN longer = 1 .. Len(content) + 1 /\ Len(longer) = Len(content) + 1
      /\ \A j \in 1 .. Len(content) : longer[j] = content[j]
      /\ longer[Len(content) + 1] = item
  BY DEF Texts
<1>2. k # 1 => k - 1 \in 1 .. Len(content) /\ longer[k - 1] = content[k - 1]
  BY <1>1
<1>3. longer[k + 1] = Newline
  BY <1>1 DEF WholeLine
<1> HIDE DEF longer
<1>4. longer[k] = content[k] /\ k < Len(longer)
  BY <1>1
<1>5. Complete(longer, k)
  BY <1>2, <1>3, <1>4 DEF Complete, WholeLine
<1> QED BY <1>1, <1>4, <1>5 DEF longer

\* The hypotheses of a step of RacedSpec.
RacedStep(p) == MailInv /\ MailInv' /\ RaceInv /\ Step(p) /\ raced' = raced \cup Racing'

\* A kill that met no race has a living target that does not read its queue, and
\* whose queue nobody removes for that of another.
LEMMA UnracedKill ==
  ASSUME RacesSeen, NEW p \in Procs, Writing(p), Current(p) \notin raced
  PROVE  /\ pc[target[p]] \notin {"remove", "unlink", "ended"} /\ ~HalfLine(p)
         /\ ~Disowned(target[p])
BY DEF RacesSeen, Racing

\* A kill that removes the queue of a living process meets all that is sent to it.
LEMMA CleanedIsDisowned ==
  ASSUME FoundDead, NEW p \in Procs, CleanQueue(p), pc[target[p]] # "ended"
  PROVE  Disowned(target[p])
BY DEF FoundDead, Deceased, Disowned, CleanQueue

LEMMA UnracedKillNext ==
  ASSUME NEW p \in Procs, Writing(p)', raced' = raced \cup Racing', Current(p)' \notin raced'
  PROVE  ~HalfLine(p)' /\ Current(p)' \notin raced
<1>1. HalfLine(p)' => Current(p)' \in Racing'
  BY DEF Racing
<1> QED BY <1>1

\* What a file has is for its owner.
LEMMA FileIsFor ==
  ASSUME MailInv, NEW q \in Procs, NEW i \in InFile(q)
  PROVE  /\ i \in DOMAIN sent /\ sent[i].to = q
         /\ queue[q] # NoFile /\ queue[q] \in Texts /\ i \in Numbers(queue[q])
BY DEF MailInv, MailTyped, KnownInv, OrderInv, FileOrdered, AfterDone, InFile

\* The number that was just written is on a line of its own unless it met another.
LEMMA WrittenLine ==
  ASSUME MailInv, NEW p \in Procs, WriteDigits(p), linked[p], queue[target[p]] \in Texts,
         queue'[target[p]] = Append(queue[target[p]], Current(p)), ~HalfLine(p)',
         Current(p)' = Current(p), target'[p] = target[p]
  PROVE  LET k == Len(queue[target[p]]) + 1
         IN  /\ k \in DOMAIN queue'[target[p]] /\ queue'[target[p]][k] = Current(p)
             /\ WholeLine(queue'[target[p]], k)
<1> DEFINE i == Current(p)
           q == target[p]
           n == Len(queue[q])
           longer == Append(queue[q], i)
<1>1. q \in Procs /\ pc[p] = "digits"
  BY DEF MailInv, MailTyped, WriteDigits
<1>2. i \in Sends /\ Nowhere(i)
  BY <1>1, CurrentKnown DEF KillSteps
<1>3. queue[q] # NoFile
  BY NoFileIsNoText
<1>4. i \notin Numbers(queue[q])
  BY <1>1, <1>2, <1>3 DEF Nowhere, InFile
<1>5. i # Newline
  BY <1>2, MailboxConstants DEF Sends, Newline
<1>6. /\ n \in Nat /\ DOMAIN queue[q] = 1 .. n /\ DOMAIN longer = 1 .. n + 1 /\ Len(longer) = n + 1
      /\ \A k \in 1 .. n : longer[k] = queue[q][k] /\ queue[q][k] \in Sends \cup {Newline}
      /\ longer[n + 1] = i
  BY <1>2 DEF Texts
<1>7. queue'[q] = longer /\ Current(p)' = i /\ target'[p] = q
  BY DEF longer
<1> HIDE DEF i, q, longer
<1>8. n = 0 \/ longer[n] = Newline
  <2> SUFFICES ASSUME n # 0, longer[n] # Newline PROVE FALSE
    OBVIOUS
  <2>1. n \in 1 .. n /\ n \in DOMAIN longer
    BY <1>6
  <2>2. longer[n] = queue[q][n] /\ queue[q][n] \in Sends
    BY <1>6, <2>1
  <2>3. queue[q][n] \in Numbers(queue[q])
    BY <1>6, <2>1, <2>2 DEF Numbers
  <2>4. longer[n] \in Sends \ {i}
    BY <1>4, <2>2, <2>3
  <2>5. longer[n + 1] # Newline
    BY <1>5, <1>6
  <2>6. HalfLine(p)'
    BY <1>7, <2>1, <2>4, <2>5 DEF HalfLine
  <2> QED BY <2>6
<1>9. n + 1 \in DOMAIN longer /\ WholeLine(longer, n + 1)
  BY <1>5, <1>6, <1>8 DEF WholeLine
<1> QED BY <1>6, <1>7, <1>9 DEF i, q

\* A kill that meets no race keeps its file and its line.
LEMMA KeepsFileStep ==
  ASSUME NEW p \in Procs, RacedStep(p)
  PROVE  KeepsFile'
<1> SUFFICES ASSUME NEW r \in Procs, Writing(r)', Current(r)' \notin raced'
             PROVE  /\ linked'[r]
                    /\ pc'[r] = "newline" =>
                         \E k \in DOMAIN queue'[target'[r]] :
                           queue'[target'[r]][k] = Current(r)' /\ WholeLine(queue'[target'[r]], k)
  BY DEF KeepsFile, WholeLine
<1>1. MailInv /\ MailInv' /\ RaceInv /\ Step(p) /\ raced' = raced \cup Racing'
  BY DEF RacedStep
<1>2. ~HalfLine(r)' /\ Current(r)' \notin raced
  BY <1>1, UnracedKillNext
<1>3. CASE ~Writing(r)
  BY <1>1, <1>3, LinkStays
<1>4. CASE Writing(r)
  <2>1. pc[r] \in KillSteps /\ pc'[r] \in KillSteps
    BY <1>4 DEF Writing, KillSteps
  <2>2. Current(r)' = Current(r) /\ target'[r] = target[r]
    BY <1>1, <2>1, CurrentStays
  <2>3. Current(r) \notin raced
    BY <1>2, <2>2
  <2>4. /\ pc[target[r]] \notin {"remove", "unlink", "ended"}
        /\ ~(target[r] = target[p] /\ CleanQueue(p))
    BY <1>1, <1>4, <2>3, UnracedKill, CleanedIsDisowned DEF RaceInv
  <2>5. linked[r] /\ (pc[r] = "newline" =>
          \E k \in DOMAIN queue[target[r]] :
            queue[target[r]][k] = Current(r) /\ WholeLine(queue[target[r]], k))
    BY <1>1, <1>4, <2>3 DEF RaceInv, KeepsFile
  <2>6. linked'[r]
    BY <1>1, <1>4, <2>4, <2>5, LinkStays
  <2>7. target[r] \in Procs /\ queue[target[r]] # NoFile
    BY <1>1, <2>5 DEF MailInv, MailTyped, KillInv
  <2>8. queue[target[r]] \in Texts
    BY <1>1, <2>7 DEF MailInv, MailTyped
  <2> DEFINE q == target[r]
  <2>9. \/ queue'[q] = queue[q]
        \/ /\ q = target[p] /\ linked[p]
           /\ \/ WriteDigits(p) /\ queue'[q] = Append(queue[q], Current(p))
              \/ WriteNewline(p) /\ queue'[q] = Append(queue[q], Newline)
    <3>1. RemoveQueue(p) => pc[p] = "remove"
      BY DEF RemoveQueue
    <3> QED BY <1>1, <2>4, <2>7, <3>1, FileChanges
  <2>10. CASE pc[r] = "digits" /\ pc'[r] = "newline"
    <3>1. r = p /\ WriteDigits(p)
      BY <1>1, <2>10, LinkStays
    <3>2. queue'[q] = Append(queue[q], Current(p))
      BY <1>1, <2>5, <2>7, <3>1, WrittenTo, CurrentKnown DEF WriteDigits, KillSteps
    <3> QED BY <1>1, <1>2, <2>2, <2>5, <2>6, <2>8, <3>1, <3>2, WrittenLine
  <2>11. CASE pc[r] = "newline" /\ pc'[r] = "newline"
    <3>1. PICK k \in DOMAIN queue[q] : queue[q][k] = Current(r) /\ WholeLine(queue[q], k)
      BY <2>5, <2>11
    <3>2. CASE queue'[q] = queue[q]
      BY <2>2, <2>6, <3>1, <3>2
    <3>3. CASE WriteNewline(p) /\ queue'[q] = Append(queue[q], Newline)
      <4>1. k \in DOMAIN Append(queue[q], Newline) /\ Append(queue[q], Newline)[k] = queue[q][k]
            /\ Complete(Append(queue[q], Newline), k)
        BY <2>8, <3>1, LineStays
      <4> QED BY <2>2, <2>6, <3>1, <3>3, <4>1 DEF Complete
    <3>4. CASE WriteDigits(p) /\ queue'[q] = Append(queue[q], Current(p)) /\ q = target[p]
      <4>1. p # r /\ pc[p] = "digits" /\ pc[p] \in KillSteps
        BY <2>11, <3>4 DEF WriteDigits, KillSteps
      <4>2. Current(p) \in Sends /\ Nowhere(Current(p))
        BY <1>1, <4>1, CurrentKnown
      <4>3. Current(r) \in Numbers(queue[q])
        <5>1. Current(r) # Newline
          BY <3>1 DEF WholeLine
        <5> QED BY <3>1, <5>1 DEF Numbers
      <4>4. Current(p) # Current(r)
        BY <2>7, <4>2, <4>3 DEF Nowhere, InFile
      <4>5. /\ Len(queue[q]) \in Nat /\ DOMAIN queue[q] = 1 .. Len(queue[q])
            /\ DOMAIN queue'[q] = 1 .. Len(queue[q]) + 1 /\ Len(queue'[q]) = Len(queue[q]) + 1
            /\ queue'[q][Len(queue[q]) + 1] = Current(p)
        BY <2>8, <3>4, <4>2 DEF Texts
      <4>6. HalfLine(r)'
        <5> DEFINE m == Len(queue[q]) + 1
        <5>1. m \in DOMAIN queue'[target'[r]] /\ queue'[target'[r]][m] \in Sends \ {Current(r)'}
          BY <2>2, <4>2, <4>4, <4>5
        <5>2. m = Len(queue'[target'[r]])
          BY <2>2, <4>5
        <5> QED BY <5>1, <5>2 DEF HalfLine
      <4> QED BY <1>2, <4>6
    <3> QED BY <2>9, <3>2, <3>3, <3>4
  <2>12. pc[r] = "newline" => pc'[r] = "newline"
    BY <1>1, LinkStays
  <2>13. pc[r] \in {"digits", "newline"} /\ pc'[r] \in {"digits", "newline"}
    BY <1>4 DEF Writing
  <2> QED BY <2>6, <2>10, <2>11, <2>12, <2>13
<1> QED BY <1>3, <1>4

\* What becomes accepted, and what gets into a file.
LEMMA NewlyAccepted ==
  ASSUME MailInv, RaceInv, NEW p \in Procs, Step(p)
  PROVE  /\ accepted \subseteq accepted'
         /\ \A i \in accepted' \ accepted :
              /\ WriteNewline(p) /\ i = Current(p) /\ pc[p] = "newline" /\ Writing(p)
              /\ i \in DOMAIN sent /\ sent[i].to = target[p]
         /\ \A q \in Procs : \A i \in InFile(q)' : i \in InFile(q) \/ i \notin accepted'
<1>1. accepted' = accepted \/ (WriteNewline(p) /\ accepted' = accepted \cup {Current(p)})
  BY DEF Step, KillStep, TrapStep, ShellStep, Kill, KillNative, Probe, CleanMarker, CleanQueue,
         SignalNative, Open, WriteDigits, WriteNewline,
         WriteTo, TakePending, RemoveQueue, Dispatch, HandlerEnd, HandlerReturn, Command,
         EnterSubshell, LeaveSubshell, Block, Unblock, Exit, RemoveMarker, UnlinkQueue, Start, history
<1>2. WriteNewline(p) =>
        /\ pc[p] = "newline" /\ Writing(p)
        /\ Current(p) \in DOMAIN sent /\ sent[Current(p)].to = target[p]
  BY CurrentKnown DEF WriteNewline, Writing, KillSteps
<1>3. WriteDigits(p) => Current(p) \notin accepted /\ ~WriteNewline(p)
  BY DEF WriteDigits, WriteNewline, RaceInv, NotYetAccepted, KillSteps
<1>4. ASSUME NEW q \in Procs, NEW i \in InFile(q)', i \notin InFile(q)
      PROVE  i \notin accepted'
  <2>1. WriteDigits(p) /\ i = Current(p)
    BY <1>4, WhereSignalsGo
  <2> QED BY <1>1, <1>3, <2>1
<1> QED BY <1>1, <1>2, <1>4

\* What has been accepted has its line as long as it is in the file.
LEMMA HasLineStep ==
  ASSUME NEW p \in Procs, RacedStep(p)
  PROVE  HasLine'
<1> SUFFICES ASSUME NEW q \in Procs, NEW i \in accepted' \ raced', i \in InFile(q)'
             PROVE  \E k \in DOMAIN queue'[q] : queue'[q][k] = i /\ Complete(queue'[q], k)
  BY DEF HasLine, Complete, WholeLine
<1>1. MailInv /\ MailInv' /\ RaceInv /\ Step(p) /\ raced' = raced \cup Racing'
  BY DEF RacedStep
<1>2. i \in InFile(q) /\ i \notin raced
  BY <1>1, NewlyAccepted
<1>3. sent[i].to = q /\ queue[q] # NoFile /\ queue[q] \in Texts
  BY <1>1, <1>2, FileIsFor
<1>4. queue'[q] # NoFile
  BY DEF InFile
<1>5. \/ queue'[q] = queue[q]
      \/ /\ q = target[p] /\ linked[p]
         /\ \/ WriteDigits(p) /\ queue'[q] = Append(queue[q], Current(p))
            \/ WriteNewline(p) /\ queue'[q] = Append(queue[q], Newline)
  BY <1>1, <1>3, <1>4, FileChanges
<1>6. CASE i \in accepted
  <2>1. PICK k \in DOMAIN queue[q] : queue[q][k] = i /\ Complete(queue[q], k)
    BY <1>1, <1>2, <1>6 DEF RaceInv, HasLine
  <2>2. CASE queue'[q] = queue[q]
    BY <2>1, <2>2
  <2>3. CASE \E item \in Sends \cup {Newline} : queue'[q] = Append(queue[q], item)
    <3>1. PICK item \in Sends \cup {Newline} : queue'[q] = Append(queue[q], item)
      BY <2>3
    <3>2. WholeLine(queue[q], k) /\ k < Len(queue[q])
      BY <2>1 DEF Complete
    <3>3. k \in DOMAIN Append(queue[q], item) /\ Append(queue[q], item)[k] = queue[q][k]
          /\ Complete(Append(queue[q], item), k)
      BY <1>3, <3>2, LineStays
    <3> QED BY <2>1, <3>1, <3>3
  <2>4. WriteDigits(p) => Current(p) \in Sends
    BY <1>1, CurrentKnown DEF WriteDigits, KillSteps
  <2> QED BY <1>5, <2>2, <2>3, <2>4
<1>7. CASE i \notin accepted
  <2>1. WriteNewline(p) /\ i = Current(p) /\ pc[p] = "newline" /\ Writing(p) /\ q = target[p]
    BY <1>1, <1>3, <1>7, NewlyAccepted
  <2>2. linked[p] /\ \E k \in DOMAIN queue[q] : queue[q][k] = i /\ WholeLine(queue[q], k)
    BY <1>1, <1>2, <2>1 DEF RaceInv, KeepsFile
  <2>3. queue'[q] = Append(queue[q], Newline)
    BY <1>1, <2>1, <2>2, WrittenTo DEF WriteNewline, MailInv, MailTyped
  <2>4. PICK k \in DOMAIN queue[q] : queue[q][k] = i /\ WholeLine(queue[q], k)
    BY <2>2
  <2>5. k \in DOMAIN Append(queue[q], Newline) /\ Append(queue[q], Newline)[k] = queue[q][k]
        /\ Complete(Append(queue[q], Newline), k)
    BY <1>3, <2>4, LineStays
  <2> QED BY <2>3, <2>4, <2>5
<1> QED BY <1>6, <1>7

\* A shell that goes from "remove" to "remove" did not move; one that gets there
\* has just read its queue.
LEMMA GetsToRemove ==
  ASSUME MailInv, NEW p \in Procs, Step(p), NEW q \in Procs, pc'[q] = "remove"
  PROVE  \/ q = p /\ TakePending(p)
         \/ q # p /\ pc[q] = "remove" /\ batch'[q] = batch[q]
<1>1. CASE q # p
  BY <1>1, OthersStay
<1>2. CASE q = p
  <2> USE DEF MailInv, MailTyped, Go
  <2>1. CASE KillStep(p)
    BY <1>2, <2>1
    DEF KillStep, Kill, KillNative, Terminate, Probe, CleanMarker, CleanQueue,
        SignalNative, Open, WriteDigits, WriteNewline
  <2>2. CASE RemoveQueue(p) \/ HandlerEnd(p) \/ HandlerReturn(p)
    BY <1>2, <2>2 DEF RemoveQueue, HandlerEnd, HandlerReturn, GiveUp
  <2>3. CASE Dispatch(p)
    BY <1>2, <2>3 DEF Dispatch, GiveUp
  <2>4. CASE ShellStep(p)
    BY <1>2, <2>4
    DEF ShellStep, Command, EnterSubshell, LeaveSubshell, Block, Unblock, Exit, RemoveMarker,
        UnlinkQueue, GiveUp, Start
  <2> QED BY <1>2, <2>1, <2>2, <2>3, <2>4 DEF Step, TrapStep
<1> QED BY <1>1, <1>2

\* What was accepted and is in the file its owner has read is in the batch.
LEMMA TakenWholeStep ==
  ASSUME NEW p \in Procs, RacedStep(p)
  PROVE  TakenWhole'
<1> SUFFICES ASSUME NEW q \in Procs, pc'[q] = "remove",
                    NEW i \in InFile(q)', i \in accepted', i \notin raced'
             PROVE  i \in InBatch(q)'
  BY DEF TakenWhole
<1>1. MailInv /\ MailInv' /\ RaceInv /\ Step(p) /\ raced' = raced \cup Racing'
  BY DEF RacedStep
<1>2. i \in InFile(q) /\ i \notin raced
  BY <1>1, NewlyAccepted
<1>3. i \in DOMAIN sent /\ sent[i].to = q
  BY <1>1, <1>2, FileIsFor
<1>4. CASE q = p /\ TakePending(p)
  <2>1. /\ queue[p] \in Texts /\ batch' = [batch EXCEPT ![p] = <<TakenFrom(queue[p])>>]
    BY <1>1, <1>4, TakenInto
  <2>2. i \in accepted
    BY <1>4 DEF TakePending, history
  <2>3. PICK k \in DOMAIN queue[q] : queue[q][k] = i /\ Complete(queue[q], k)
    BY <1>1, <1>2, <2>2 DEF RaceInv, HasLine
  <2>4. i \in Range(TakenFrom(queue[p]))
    BY <1>4, <2>1, <2>3, TakenFromText DEF Complete
  <2>5. batch'[p] = <<TakenFrom(queue[p])>>
    BY <1>1, <2>1 DEF MailInv, MailTyped
  <2> QED BY <1>4, <2>4, <2>5 DEF InBatch
<1>5. CASE q # p /\ pc[q] = "remove" /\ batch'[q] = batch[q]
  <2>1. CASE i \in accepted
    <3>1. i \in InBatch(q)
      BY <1>1, <1>2, <1>5, <2>1 DEF RaceInv, TakenWhole
    <3> QED BY <1>5, <3>1 DEF InBatch
  <2>2. CASE i \notin accepted
    <3>1. i = Current(p) /\ Writing(p) /\ target[p] = q
      BY <1>1, <1>3, <2>2, NewlyAccepted
    <3> QED BY <1>1, <1>2, <1>5, <3>1, UnracedKill DEF RaceInv
  <2> QED BY <2>1, <2>2
<1> QED BY <1>1, <1>4, <1>5, GetsToRemove

\* A send is not accepted before its kill is done.
LEMMA NotYetAcceptedStep ==
  ASSUME NEW p \in Procs, RacedStep(p)
  PROVE  NotYetAccepted'
<1> SUFFICES ASSUME NEW r \in Procs, pc'[r] \in KillSteps PROVE Current(r)' \notin accepted'
  BY DEF NotYetAccepted
<1>1. MailInv /\ MailInv' /\ RaceInv /\ Step(p)
  BY DEF RacedStep
<1>2. CASE pc[r] \in KillSteps
  <2>1. Current(r)' = Current(r) /\ Current(r) \notin accepted
    BY <1>1, <1>2, CurrentStays DEF RaceInv, NotYetAccepted
  <2>2. ASSUME Current(r) \in accepted' PROVE FALSE
    <3>1. WriteNewline(p) /\ Current(r) = Current(p) /\ pc[p] = "newline"
      BY <1>1, <2>1, <2>2, NewlyAccepted
    <3>2. sent[Current(r)].from = r /\ sent[Current(p)].from = p
      BY <1>1, <1>2, <3>1, CurrentKnown DEF IsCurrent, KillSteps
    <3>3. pc'[p] = "boundary"
      BY <1>1, <3>1 DEF WriteNewline, Go, MailInv, MailTyped
    <3> QED BY <3>1, <3>2, <3>3 DEF KillSteps
  <2> QED BY <2>1, <2>2
<1>3. CASE pc[r] \notin KillSteps
  <2>1. r = p
    BY <1>1, <1>3, OthersStay DEF KillSteps
  <2>2. PICK q \in Procs : Kill(p, q)
    BY <1>1, <1>3, <2>1, KillGoesOn DEF MailInv
  <2>3. accepted' = accepted /\ accepted \subseteq DOMAIN sent
    BY <1>1, <2>2 DEF Kill, MailInv, MailTyped
  <2>4. /\ DOMAIN sent' = DOMAIN sent \cup {Len(sent) + 1}
        /\ \A k \in DOMAIN sent : k < Len(sent) + 1
        /\ sent'[Len(sent) + 1].from = p
    BY <1>1, <2>2, KillSends DEF MailInv
  <2>5. Len(sent) + 1 <= Current(r)'
    BY <1>1, <2>1, <2>4, CurrentNext
  <2>6. Len(sent) \in Nat /\ DOMAIN sent \subseteq Nat /\ Current(r)' \in Nat
    <3>1. Len(sent) \in Nat /\ DOMAIN sent = 1 .. Len(sent)
      BY <1>1, SendsStay DEF MailInv
    <3>3. DOMAIN sent' \subseteq Nat
      BY <2>4, <3>1
    <3>2. Current(r)' \in DOMAIN sent'
      BY <1>1, CurrentNext
    <3> QED BY <3>1, <3>2, <3>3
  <2>7. PICK m \in Nat : m = Current(r)'
    BY <2>6
  <2>8. m \notin DOMAIN sent
    <3>1. Len(sent) + 1 <= m
      BY <2>5, <2>7
    <3>2. m \in DOMAIN sent => m < Len(sent) + 1
      BY <2>4
    <3> QED BY <2>6, <3>1, <3>2
  <2> QED BY <2>3, <2>7, <2>8
<1> QED BY <1>2, <1>3

\* A signal names no life that is still to come.
LEMMA LivesKnownStep ==
  ASSUME NEW p \in Procs, RacedStep(p)
  PROVE  LivesKnown' /\ \A q \in Procs : starts[q] <= starts'[q]
<1>1. MailInv /\ MailInv' /\ RaceInv /\ Step(p)
  BY DEF RacedStep
<1>2. \/ starts' = starts
      \/ starts' = [starts EXCEPT ![p] = @ + 1]
  BY <1>1
  DEF Step, KillStep, TrapStep, ShellStep, Kill, KillNative, Probe, CleanMarker, CleanQueue,
      SignalNative, Open, WriteDigits, WriteNewline,
      WriteTo, TakePending, RemoveQueue, Dispatch, HandlerEnd, HandlerReturn, Command,
      EnterSubshell, LeaveSubshell, Block, Unblock, Exit, RemoveMarker, UnlinkQueue, Start,
      shell_vars, lives
<1>3. starts \in [Procs -> Nat]
  BY <1>1 DEF MailInv, MailTyped
<1>4. \A q \in Procs : starts[q] <= starts'[q] /\ starts'[q] \in Nat
  BY <1>2, <1>3
<1>5. \A i \in DOMAIN sent : sent[i] \in SendRecord
  BY <1>1 DEF MailInv, MailTyped
<1>6. ASSUME NEW i \in DOMAIN sent PROVE sent[i].life <= starts'[sent[i].to]
  <2>1. sent[i].to \in Procs /\ sent[i].life \in Nat
    BY <1>5 DEF SendRecord
  <2>2. sent[i].life <= starts[sent[i].to]
    BY <1>1 DEF RaceInv, LivesKnown
  <2>3. starts[sent[i].to] \in Nat /\ starts'[sent[i].to] \in Nat
        /\ starts[sent[i].to] <= starts'[sent[i].to]
    BY <1>3, <1>4, <2>1
  <2> QED BY <2>1, <2>2, <2>3
<1>7. CASE sent' = sent
  BY <1>4, <1>6, <1>7 DEF LivesKnown
<1>8. CASE \E q \in Procs : Kill(p, q)
  <2>1. PICK q \in Procs : Kill(p, q)
    BY <1>8
  <2>2. /\ DOMAIN sent' = DOMAIN sent \cup {Len(sent) + 1}
        /\ \A k \in DOMAIN sent : sent'[k] = sent[k]
        /\ sent'[Len(sent) + 1].to = q /\ sent'[Len(sent) + 1].life = starts[q]
    BY <1>1, <2>1, KillSends DEF MailInv
  <2> QED BY <1>4, <1>6, <2>2 DEF LivesKnown
<1> QED BY <1>1, <1>4, <1>7, <1>8, OnlyKillSends

\* A process that has ended stays so until its pid is given to another.
LEMMA DeadUntilStart ==
  ASSUME MailInv, NEW p \in Procs, Step(p), NEW q \in Procs, pc[q] = "ended", pc'[q] # "ended"
  PROVE  q = p /\ Start(p)
<1>1. q = p
  BY OthersStay
<1>2. ~KillStep(p)
  BY <1>1 DEF KillStep, Kill, KillNative, Probe, CleanMarker, CleanQueue, SignalNative, Open,
              WriteDigits, WriteNewline
<1>3. ~TrapStep(p)
  BY <1>1 DEF TrapStep, TakePending, RemoveQueue, Dispatch, HandlerEnd, HandlerReturn, InHandler
<1>4. ShellStep(p) => Start(p)
  BY <1>1 DEF ShellStep, Command, EnterSubshell, LeaveSubshell, Block, Unblock, Exit, RemoveMarker,
              UnlinkQueue
<1> QED BY <1>1, <1>2, <1>3, <1>4 DEF Step

\* What has been sent is records.
LEMMA SendsAreRecords == MailInv => \A i \in DOMAIN sent : sent[i] \in SendRecord
BY DEF MailInv, MailTyped

\* A life before the present one is none of those to come.
LEMMA LaterLives ==
  /\ \A a, b, c \in Nat : a <= b /\ b <= c /\ a # b => a # c
  /\ \A a, b \in Nat : a <= b => a # b + 1
OBVIOUS

\* Files are removed of processes found dead only.
LEMMA FoundDeadStep ==
  ASSUME NEW p \in Procs, RacedStep(p)
  PROVE  FoundDead'
<1> SUFFICES ASSUME NEW r \in Procs, pc'[r] \in {"clean", "clean queue"} PROVE Deceased(r)'
  BY DEF FoundDead
<1>1. MailInv /\ MailInv' /\ RaceInv /\ Step(p)
  BY DEF RacedStep
<1>2. pc'[r] \in KillSteps
  BY DEF KillSteps
<1>3. pc[r] \in {"clean", "clean queue"} \/ (r = p /\ Probe(p))
  <2>1. CASE r # p
    BY <1>1, <2>1, OthersStay
  <2>2. CASE r = p
    <3> USE DEF MailInv, MailTyped, Go
    <3>1. CASE KillStep(p)
      BY <1>1, <2>2, <3>1
      DEF KillStep, Kill, KillNative, Terminate, Probe, CleanMarker, CleanQueue, SignalNative, Open,
          WriteDigits, WriteNewline
    <3>2. CASE TakePending(p) \/ RemoveQueue(p) \/ HandlerEnd(p) \/ HandlerReturn(p)
      BY <1>1, <2>2, <3>2 DEF TakePending, RemoveQueue, HandlerEnd, HandlerReturn, GiveUp
    <3>3. CASE Dispatch(p)
      BY <1>1, <2>2, <3>3 DEF Dispatch, GiveUp
    <3>4. CASE ShellStep(p)
      BY <1>1, <2>2, <3>4
      DEF ShellStep, Command, EnterSubshell, LeaveSubshell, Block, Unblock, Exit, RemoveMarker,
          UnlinkQueue, GiveUp, Start
    <3> QED BY <1>1, <3>1, <3>2, <3>3, <3>4 DEF Step, TrapStep
  <2> QED BY <2>1, <2>2
<1>4. CASE pc[r] \in {"clean", "clean queue"}
  <2>1. pc[r] \in KillSteps
    BY <1>4 DEF KillSteps
  <2>2. Current(r)' = Current(r) /\ target'[r] = target[r]
    BY <1>1, <1>2, <2>1, CurrentStays
  <2>3. /\ Current(r) \in DOMAIN sent /\ sent[Current(r)].to = target[r]
        /\ sent'[Current(r)] = sent[Current(r)]
    BY <1>1, <2>1, CurrentKnown, SendsStay DEF MailInv
  <2>4. target[r] \in Procs /\ starts \in [Procs -> Nat] /\ starts' \in [Procs -> Nat]
    BY <1>1 DEF MailInv, MailTyped
  <2>5. sent[Current(r)].life \in Nat /\ sent[Current(r)].life <= starts[target[r]]
    <3>4. \A i \in DOMAIN sent : sent[i] \in SendRecord
      BY <1>1, SendsAreRecords
    <3>1. sent[Current(r)] \in SendRecord
      BY <2>3, <3>4, Zenon
    <3>2. sent[Current(r)].life \in Nat
      BY <3>1 DEF SendRecord
    <3>3. sent[Current(r)].life <= starts[sent[Current(r)].to]
      BY <1>1, <2>3 DEF RaceInv, LivesKnown
    <3> QED BY <2>3, <3>2, <3>3
  <2>6. starts[target[r]] <= starts'[target[r]]
    BY <2>4, LivesKnownStep
  <2> DEFINE life == sent[Current(r)].life
             was == starts[target[r]]
             is == starts'[target[r]]
  <2>11. life \in Nat /\ was \in Nat /\ is \in Nat /\ life <= was /\ was <= is
    BY <2>4, <2>5, <2>6
  <2>12. Deceased(r)' <=> pc'[target[r]] = "ended" \/ life # is
    BY <2>2, <2>3 DEF Deceased
  <2> HIDE DEF life, was, is
  <2>7. CASE life # was
    <3> QED BY <2>7, <2>11, <2>12, LaterLives, Zenon
  <2>8. CASE pc[target[r]] = "ended" /\ pc'[target[r]] # "ended"
    <3>1. starts'[target[r]] = starts[target[r]] + 1
      BY <1>1, <2>4, <2>8, DeadUntilStart DEF Start
    <3>2. is = was + 1
      BY <3>1 DEF is, was
    <3> QED BY <2>11, <2>12, <3>2, LaterLives, Zenon
  <2>9. CASE pc'[target[r]] = "ended"
    BY <2>9, <2>12
  <2>10. pc[target[r]] = "ended" \/ life # was
    BY <1>1, <1>4 DEF RaceInv, FoundDead, Deceased, life, was
  <2> QED BY <2>7, <2>8, <2>9, <2>10
<1>5. CASE r = p /\ Probe(p)
  <2>1. pc[p] = "probe" /\ pc[target[p]] = "ended" /\ target' = target
    BY <1>1, <1>5 DEF Probe, Go, MailInv, MailTyped
  <2>2. pc'[target[p]] = "ended"
    BY <1>1, <1>5, <2>1 DEF Probe, Go, MailInv, MailTyped
  <2> QED BY <1>5, <2>1, <2>2 DEF Deceased
<1> QED BY <1>3, <1>4, <1>5

\* A signal leaves a batch to be dispatched or given up.
LEMMA BatchLeft ==
  ASSUME MailInv, NEW p \in Procs, Step(p), NEW q \in Procs, NEW i \in InBatch(q),
         ~(q = p /\ Start(p))
  PROVE  i \in InBatch(q)' \cup Range(done') \cup dropped'
<1> USE DEF Go
<1>1. /\ batch \in [Procs -> Seq(Seq(Sends))] /\ batch[q] # << >> /\ Len(batch[q]) = 1
      /\ done \in Seq(Sends) /\ i \in Range(batch[q][1])
  <2>1. batch \in [Procs -> Seq(Seq(Sends))] /\ Len(batch[q]) <= 1 /\ done \in Seq(Sends)
    BY DEF MailInv, MailTyped, BatchInv
  <2>2. batch[q] # << >> /\ i \in Range(batch[q][1])
    BY DEF InBatch
  <2>3. batch[q] \in Seq(Seq(Sends))
    BY <2>1
  <2>4. Len(batch[q]) \in Nat /\ Len(batch[q]) # 0
    BY <2>2, <2>3
  <2>5. \A n \in Nat : n <= 1 /\ n # 0 => n = 1
    OBVIOUS
  <2>6. Len(batch[q]) <= 1
    BY <2>1
  <2>7. Len(batch[q]) = 1
    BY <2>4, <2>5, <2>6, Zenon
  <2> QED BY <2>1, <2>2, <2>7
<1>2. CASE batch'[q] = batch[q]
  BY <1>2 DEF InBatch
<1>3. ASSUME NEW place \in Places, GiveUp(p, place), q = p PROVE i \in dropped'
  <2>1. 1 \in DOMAIN batch[q]
    BY <1>1
  <2> QED BY <1>1, <1>3, <2>1 DEF GiveUp
<1>4. CASE q # p
  BY <1>2, <1>4, OthersStay
<1>5. CASE q = p /\ (HandlerReturn(p) \/ Exit(p))
  BY <1>3, <1>5 DEF HandlerReturn, Exit, Places
<1>6. CASE q = p /\ TakePending(p)
  <2>1. pc'[p] # "remove"
    BY <1>1, <1>6, TakenInto
  <2> QED BY <1>2, <1>6, <2>1 DEF TakePending, MailInv, MailTyped
<1>7. CASE q = p /\ Dispatch(p)
  <2> DEFINE t == batch[p][1]
  <2>1. /\ t \in Seq(Sends)
        /\ \/ t = << >>
           \/ /\ t # << >> /\ done' = Append(done, Head(t))
              /\ batch' = [batch EXCEPT ![p] = <<Tail(t)>>] \/ \E place \in Places : GiveUp(p, place)
    BY <1>7, Dispatched DEF Places
  <2>2. i \in Range(t)
    BY <1>1, <1>7
  <2>3. t # << >>
    BY <2>2 DEF Range
  <2> HIDE DEF t
  <2>4. CASE batch' = [batch EXCEPT ![p] = <<Tail(t)>>]
    <3>1. PICK k \in DOMAIN t : i = t[k]
      BY <2>2 DEF Range
    <3>2. /\ Len(t) \in Nat /\ DOMAIN t = 1 .. Len(t) /\ Head(t) = t[1] /\ Head(t) \in Sends
          /\ DOMAIN Tail(t) = 1 .. Len(t) - 1
          /\ \A j \in 1 .. Len(t) - 1 : Tail(t)[j] = t[j + 1]
      BY <2>1, <2>3
    <3>3. CASE k = 1
      <4>1. Range(Append(done, Head(t))) = Range(done) \cup {Head(t)}
        <5>1. \A x \in Sends : Range(Append(done, x)) = Range(done) \cup {x}
          BY <1>1, RangeAppend, Zenon
        <5> QED BY <3>2, <5>1
      <4> QED BY <2>1, <2>3, <3>1, <3>2, <3>3, <4>1
    <3>4. CASE k # 1
      <4>1. k - 1 \in DOMAIN Tail(t) /\ Tail(t)[k - 1] = i
        BY <3>1, <3>2, <3>4
      <4>2. batch'[p] = <<Tail(t)>>
        BY <1>1, <2>4
      <4>3. batch'[p] # << >> /\ batch'[p][1] = Tail(t)
        BY <4>2
      <4> QED BY <1>7, <4>1, <4>3 DEF InBatch, Range
    <3> QED BY <3>3, <3>4
  <2>5. CASE \E place \in Places : GiveUp(p, place)
    BY <1>3, <1>7, <2>5
  <2> QED BY <2>1, <2>3, <2>4, <2>5
<1>8. CASE KillStep(p) \/ RemoveQueue(p) \/ HandlerEnd(p)
  BY <1>2, <1>8
  DEF KillStep, Kill, KillNative, Probe, CleanMarker, CleanQueue,
      SignalNative, Open, WriteDigits, WriteNewline, WriteTo, RemoveQueue,
      HandlerEnd, shell_vars
<1>9. CASE ShellStep(p) /\ ~Exit(p) /\ ~Start(p)
  BY <1>2, <1>9
  DEF ShellStep, Command, EnterSubshell, LeaveSubshell, Block, Unblock, RemoveMarker, UnlinkQueue,
      shell_vars
<1> QED BY <1>4, <1>5, <1>6, <1>7, <1>8, <1>9 DEF Step, TrapStep

\* What was dispatched stays so, and so does what was given up.
LEMMA SettledStays ==
  ASSUME MailInv, NEW p \in Procs, Step(p)
  PROVE  Range(done) \subseteq Range(done') /\ dropped \subseteq dropped'
<1>1. done' = done \/ \E x \in Sends : done' = Append(done, x)
  <2>1. ASSUME NEW t \in Seq(Sends) \ {<< >>} PROVE Head(t) \in Sends
    OBVIOUS
  <2> QED BY <2>1, DoneMoves
<1>2. Range(done) \subseteq Range(done')
  <2>1. done \in Seq(Sends)
    BY DEF MailInv, MailTyped
  <2>2. \A x \in Sends : Range(Append(done, x)) = Range(done) \cup {x}
    BY <2>1, RangeAppend, Zenon
  <2> QED BY <1>1, <2>2
<1>3. dropped \subseteq dropped'
  BY DEF Step, KillStep, TrapStep, ShellStep, Kill, KillNative, Probe, CleanMarker, CleanQueue,
         SignalNative, Open, WriteDigits, WriteNewline,
         WriteTo, TakePending, RemoveQueue, Dispatch, HandlerEnd, HandlerReturn, Command, GiveUp,
         EnterSubshell, LeaveSubshell, Block, Unblock, Exit, RemoveMarker, UnlinkQueue, Start, history
<1> QED BY <1>2, <1>3

\* What was accepted and met no race is kept while its process is there.
LEMMA KeptStep ==
  ASSUME NEW p \in Procs, RacedStep(p)
  PROVE  Kept'
<1>1. MailInv /\ MailInv' /\ RaceInv /\ Step(p) /\ raced' = raced \cup Racing'
  BY DEF RacedStep
<1>2. ASSUME NEW i \in accepted', i \notin raced' PROVE i \in DOMAIN sent /\ i \notin raced
  BY <1>1, <1>2, NewlyAccepted DEF MailInv, MailTyped
<1>3. ASSUME NEW i \in DOMAIN sent
      PROVE  sent[i].to \in Procs /\ sent'[i] = sent[i] /\ sent[i].life \in Nat
  <2>1. sent[i] \in SendRecord /\ sent'[i] = sent[i]
    BY <1>1, SendsStay DEF MailInv, MailTyped
  <2> QED BY <2>1 DEF SendRecord
<1> SUFFICES
      ASSUME NEW i \in accepted', i \notin raced', i \in DOMAIN sent, i \notin raced,
             NEW q \in Procs, sent[i].to = q, sent[i].life \in Nat,
             sent[i].life = starts'[q], pc'[q] \notin {"ended", "exit", "unlink"}
      PROVE  i \in InFile(q)' \cup InBatch(q)' \cup Range(done') \cup dropped'
  BY <1>2, <1>3 DEF Kept, StillThere, InFile, InBatch
<1>5. starts[q] = starts'[q]
  <2>1. sent[i].life <= starts[q]
    BY <1>1 DEF RaceInv, LivesKnown
  <2>2. starts[q] <= starts'[q]
    BY LivesKnownStep
  <2>3. starts[q] \in Nat /\ starts'[q] \in Nat
    BY <1>1 DEF MailInv, MailTyped
  <2> QED BY <2>1, <2>2, <2>3
<1>6. ~(q = p /\ Start(p))
  <2>1. starts \in [Procs -> Nat]
    BY <1>1 DEF MailInv, MailTyped
  <2> QED BY <1>5, <2>1 DEF Start
<1>7. pc[q] \notin {"ended", "exit", "unlink"}
  BY <1>1, <1>6, EndIsFinal
<1>8. CASE i \in InBatch(q)
  BY <1>1, <1>6, <1>8, BatchLeft
<1>9. CASE i \in InFile(q) /\ i \notin InBatch(q)
  <2>1. queue[q] # NoFile /\ queue[q] \in Texts /\ i \in Numbers(queue[q])
    BY <1>1, <1>9, FileIsFor
  <2>2. ~RemoveQueue(p) \/ q # p
    <3>1. ASSUME RemoveQueue(p), q = p PROVE FALSE
      <4>1. pc[q] = "remove" /\ accepted' = accepted
        BY <3>1 DEF RemoveQueue, history
      <4>2. i \in accepted
        BY <4>1
      <4> QED BY <1>1, <1>9, <4>1, <4>2 DEF RaceInv, TakenWhole
    <3> QED BY <3>1
  <2>6. ~(q = target[p] /\ CleanQueue(p))
    <3>1. i \in Range(queue[q])
      BY <2>1 DEF Numbers, Range
    <3>2. InMailbox(i)
      BY <2>1, <3>1 DEF InMailbox
    <3>3. ~Disowned(q)
      BY <1>1, <3>2 DEF RaceInv, RacesSeen, Racing
    <3> QED BY <1>1, <1>7, <3>3, CleanedIsDisowned DEF RaceInv
  <2>3. \/ queue'[q] = queue[q]
        \/ \E item \in Sends \cup {Newline} : queue'[q] = Append(queue[q], item)
    <3>1. WriteDigits(p) => Current(p) \in Sends
      BY <1>1, CurrentKnown DEF WriteDigits, KillSteps
    <3>2. \/ queue'[q] = queue[q]
          \/ /\ WriteDigits(p)
             /\ queue'[q] = Append(queue[q], Current(p))
          \/ queue'[q] = Append(queue[q], Newline)
      BY <1>1, <1>7, <2>1, <2>2, <2>6, FileChanges, Zenon
    <3> QED BY <3>1, <3>2
  <2>4. CASE queue'[q] = queue[q]
    BY <1>9, <2>4 DEF InFile
  <2>5. CASE \E item \in Sends \cup {Newline} : queue'[q] = Append(queue[q], item)
    <3>1. PICK item \in Sends \cup {Newline} : queue'[q] = Append(queue[q], item)
      BY <2>5
    <3>2. /\ Append(queue[q], item) \in Texts
          /\ Numbers(Append(queue[q], item)) = Numbers(queue[q]) \cup ({item} \ {Newline})
      BY <2>1, NumbersOfAppend
    <3>3. queue'[q] # NoFile /\ i \in Numbers(queue'[q])
      BY <2>1, <3>1, <3>2, NoFileIsNoText
    <3> QED BY <3>3 DEF InFile
  <2> QED BY <2>3, <2>4, <2>5
<1>10. CASE i \in Range(done) \cup dropped
  BY <1>1, <1>10, SettledStays
<1>11. CASE i \notin InFile(q) \cup InBatch(q) \cup Range(done) \cup dropped
  <2>1. i \notin accepted
    BY <1>1, <1>5, <1>7, <1>11 DEF RaceInv, Kept, StillThere
  <2>2. i = Current(p) /\ pc[p] = "newline" /\ Writing(p) /\ sent[i].to = target[p]
    BY <1>1, <2>1, NewlyAccepted
  <2>3. linked[p] /\ \E k \in DOMAIN queue[q] : queue[q][k] = i /\ WholeLine(queue[q], k)
    BY <1>1, <2>2 DEF RaceInv, KeepsFile
  <2>4. queue[q] # NoFile
    BY <1>1, <2>2, <2>3 DEF MailInv, KillInv
  <2>5. i \in InFile(q)
    BY <2>3, <2>4 DEF InFile, Numbers, WholeLine
  <2> QED BY <1>11, <2>5
<1> QED BY <1>8, <1>9, <1>10, <1>11

\* Nothing has been sent yet.
LEMMA RaceInit == RacedInit => RaceInv
<1> SUFFICES ASSUME RacedInit PROVE RaceInv
  OBVIOUS
<1>1. /\ \A p \in Procs : pc[p] = "boundary" /\ queue[p] = NoFile
      /\ sent = << >> /\ accepted = {} /\ raced = {}
  BY DEF RacedInit, Init
<1>2. Racing = {}
  <2>1. \A p \in Procs : ~Writing(p)
    BY <1>1 DEF Writing
  <2>2. DOMAIN sent = {}
    BY <1>1
  <2> QED BY <2>1, <2>2 DEF Racing
<1>3. RacesSeen /\ KeepsFile /\ TakenWhole
  BY <1>1, <1>2 DEF RacesSeen, KeepsFile, TakenWhole, Writing
<1>4. HasLine /\ Kept /\ LivesKnown
  BY <1>1 DEF HasLine, Kept, LivesKnown
<1>5. NotYetAccepted /\ FoundDead
  BY <1>1 DEF NotYetAccepted, FoundDead, KillSteps
<1> QED BY <1>3, <1>4, <1>5 DEF RaceInv

\* Every step keeps the invariant.
LEMMA RaceStep == MailInv /\ RaceInv /\ [RacedNext]_<<vars, raced>> => (MailInv /\ RaceInv)'
<1> SUFFICES ASSUME MailInv, RaceInv, [RacedNext]_<<vars, raced>> PROVE MailInv' /\ RaceInv'
  OBVIOUS
<1>1. MailInv'
  BY MailStep DEF RacedNext
<1>2. CASE RacedNext
  <2>1. PICK p \in Procs : Step(p)
    BY <1>2 DEF RacedNext, Next, Step
  <2>2. RacedStep(p)
    BY <1>1, <1>2, <2>1 DEF RacedStep, RacedNext
  <2>3. RacesSeen'
    BY <1>2 DEF RacesSeen, RacedNext
  <2> QED
    BY <1>1, <2>2, <2>3, KeepsFileStep, HasLineStep, TakenWholeStep, NotYetAcceptedStep,
       LivesKnownStep, FoundDeadStep, KeptStep
    DEF RaceInv
<1>3. CASE UNCHANGED <<vars, raced>>
  <2>1. UNCHANGED <<pc, target, linked, queue, batch, starts, sent, accepted, done, dropped, raced>>
    BY <1>3 DEF vars, mailbox_vars, shell_vars, lives, history
  <2>7. \A p \in Procs : /\ Current(p)' = Current(p) /\ Writing(p)' = Writing(p)
                         /\ HalfLine(p)' = HalfLine(p)
    BY <2>1 DEF Current, Writing, HalfLine
  <2>8. \A q : Disowned(q)' = Disowned(q) /\ InMailbox(q)' = InMailbox(q)
    BY <2>1 DEF Disowned, Current, InMailbox
  <2>9. Racing' = Racing
    BY <2>1, <2>7, <2>8 DEF Racing
  <2>6. RacesSeen'
    BY <2>1, <2>9 DEF RaceInv, RacesSeen
  <2>2. KeepsFile'
    BY <2>1, <2>7 DEF RaceInv, KeepsFile, WholeLine
  <2>3. HasLine' /\ TakenWhole'
    BY <2>1 DEF RaceInv, HasLine, TakenWhole, Complete, WholeLine, InFile, InBatch
  <2>4. NotYetAccepted' /\ LivesKnown' /\ FoundDead'
    BY <2>1, <2>7 DEF RaceInv, NotYetAccepted, LivesKnown, FoundDead, Deceased
  <2>5. Kept'
    BY <2>1 DEF RaceInv, Kept, StillThere, InFile, InBatch
  <2> QED BY <1>1, <2>2, <2>3, <2>4, <2>5, <2>6 DEF RaceInv
<1> QED BY <1>1, <1>2, <1>3

\* For any processes, bound on sends and bound on restarts: a signal that kill reported
\* as delivered is in the queue, in a batch, dispatched or given up as long as its
\* process is there, unless its line was written while the queue was removed or
\* met half of another's, or its queue was removed by a kill to an earlier process
\* of that pid.
THEOREM SignalsLostOnlyInRaces == RacedSpec => []LostOnlyInRace
<1>1. RacedInit => MailInv /\ RaceInv
  BY MailInit, RaceInit DEF RacedInit
<1>2. (MailInv /\ RaceInv) /\ [RacedNext]_<<vars, raced>> => (MailInv /\ RaceInv)'
  BY RaceStep
<1>3. MailInv /\ RaceInv => LostOnlyInRace
  <2> SUFFICES ASSUME MailInv, RaceInv, NEW i \in DOMAIN sent, Lost(i), i \notin raced PROVE FALSE
    BY DEF LostOnlyInRace
  <2>1. sent[i].to \in Procs
    <3>1. sent[i] \in SendRecord
      BY DEF MailInv, MailTyped
    <3> QED BY <3>1 DEF SendRecord
  <2>2. i \in InFile(sent[i].to) \cup InBatch(sent[i].to)
    BY DEF Lost, RaceInv, Kept, StillThere
  <2>3. CASE i \in InFile(sent[i].to)
    <3>1. queue[sent[i].to] # NoFile /\ i \in Range(queue[sent[i].to])
      BY <2>3 DEF InFile, Numbers, Range
    <3> QED BY <2>1, <3>1 DEF Lost, InMailbox
  <2>4. CASE i \in InBatch(sent[i].to)
    <3>1. batch[sent[i].to] # << >> /\ i \in Range(batch[sent[i].to][1])
      BY <2>4 DEF InBatch
    <3>2. batch[sent[i].to] \in Seq(Seq(Sends))
      BY <2>1 DEF MailInv, MailTyped
    <3>3. 1 \in DOMAIN batch[sent[i].to]
      BY <3>1, <3>2, EmptySeq
    <3> QED BY <2>1, <3>1, <3>3 DEF Lost, Taken
  <2> QED BY <2>2, <2>3, <2>4
<1> QED BY <1>1, <1>2, <1>3, PTL DEF RacedSpec

=============================================================================
