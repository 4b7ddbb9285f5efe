-------------------------- MODULE DescriptorsProofs --------------------------
(***************************************************************************)
(* Proofs about the descriptors of the shell, for any descriptors, any      *)
(* script and any nesting of compound commands: up to its first departure   *)
(* the table leads where OpenFiles says, the coprocess's pipes are held as  *)
(* long as something leads to them, and the command of each process         *)
(* substitution runs once.                                                  *)
(***************************************************************************)
EXTENDS Descriptors, OrderProofs, SequenceTheorems

-------------------------------------------------------------------------------
(* Types *)

ReadEnds == {None, CoprocOut} \cup ({"text"} \X (1..MaxOpens))
WriteEnds == {None, <<"stdout">>, <<"stderr">>, CoprocIn} \cup ({"file", "psub"} \X (1..MaxOpens))
Entry == [read : ReadEnds, write : WriteEnds]
Mirrors == {None, Plain} \cup ({"psub"} \X (1..MaxOpens))
Vars == [Names -> Fds \cup {Unset}]
Shells == [table : [Fds -> Entry], mirror : [Fds -> Mirrors], shut : SUBSET Fds, var : Vars,
           writer : BOOLEAN, reader : BOOLEAN, ran : [1..MaxOpens -> Nat]]

\* Maps of some of the descriptors.
SomeFds(R) == UNION {[D -> R] : D \in SUBSET Fds}

Compounds == [kind : {"compound"}, names : {<< >>, <<"v">>},
              saved : SomeFds([entry : Entry, shut : BOOLEAN]), var : Vars]
Subshells == [kind : {"subshell"}, shell : Shells]
Promises == [files : [Fds -> Entry], scopes : Seq(SomeFds(Entry))]

DTypes ==
  /\ shell \in Shells /\ promised \in Promises
  /\ scopes \in Seq(Compounds \cup Subshells) /\ Len(scopes) <= MaxScopes
  /\ opened \in Seq({"in", "out", "rw", "psub", "refused"}) /\ Len(opened) <= MaxOpens

-------------------------------------------------------------------------------
(* The invariant *)

IsPsub(e) == e[1] = "psub"

\* The mirror knows each process substitution of the table and no other.
MirrorTrue(s) ==
  \A fd \in Fds : IsPsub(s.mirror[fd]) \/ IsPsub(s.table[fd].write)
                    => s.mirror[fd] = s.table[fd].write

\* A process substitution is on one descriptor.
OnePlace(T) == \A f, g \in Fds : IsPsub(T[f].write) /\ T[f].write = T[g].write => f = g

Leads(T, side, end) == \E fd \in Fds : T[fd][side] = end

IsOpened(n, o) == n \in DOMAIN o /\ o[n] = "psub"
AllOpened(T, o) == \A n \in 1..MaxOpens : Leads(T, "write", <<"psub", n>>) => IsOpened(n, o)
RanOnce(s, o) ==
  \A n \in 1..MaxOpens :
    s.ran[n] = IF IsOpened(n, o) /\ ~Leads(s.table, "write", <<"psub", n>>) THEN 1 ELSE 0

PipesHeld(s) == /\ s.writer <=> Leads(s.table, "write", CoprocIn)
                /\ s.reader <=> Leads(s.table, "read", CoprocOut)

\* A shell that is right by itself.
Whole(s, o) == MirrorTrue(s) /\ OnePlace(s.table) /\ AllOpened(s.table, o) /\ RanOnce(s, o)
                 /\ PipesHeld(s)

\* What will be put back is what is promised, but for the ends of a coprocess that
\* is gone.
Matches(sides, entry, c) ==
  \A side \in {"read", "write"} :
    \/ sides[side] = entry[side]
    \/ c = "gone" /\ entry[side] \in {CoprocIn, CoprocOut} /\ sides[side] = None

\* Neither a process substitution's end nor the coprocess's.
Ordinary(entry) == ~IsPsub(entry.write) /\ entry.write # CoprocIn /\ entry.read # CoprocOut

KeptCompound(sides, sc, c) ==
  LET named == IF sc.names = << >> THEN {} ELSE {sc.var["v"]} IN
  /\ DOMAIN sides = DOMAIN sc.saved \cup named
  /\ \A fd \in named : fd \in Dynamic /\ sides[fd] = NoFile
  /\ \A fd \in DOMAIN sc.saved \ named : Matches(sides[fd], sc.saved[fd].entry, c)
  /\ \A fd \in DOMAIN sc.saved \cap named : Ordinary(sc.saved[fd].entry)

KeptSubshell(sides, sc, c) ==
  /\ DOMAIN sides = Fds
  /\ \A fd \in Fds : Matches(sides[fd], sc.shell.table[fd], c)
  /\ MirrorTrue(sc.shell)

Kept(ps, sc, c) ==
  /\ Len(ps) = Len(sc)
  /\ \A i \in 1..Len(sc) : /\ sc[i].kind = "compound" => KeptCompound(ps[i], sc[i], c)
                           /\ sc[i].kind = "subshell" => KeptSubshell(ps[i], sc[i], c)

\* A process substitution that will be put back is where it was.
Placed(T, ps) ==
  \A i \in 1..Len(ps) : \A fd \in DOMAIN ps[i] : \A f \in Fds :
    IsPsub(ps[i][fd].write) /\ T[f].write = ps[i][fd].write => f = fd

Good ==
  /\ shell.table = promised.files
  /\ Whole(shell, opened)
  /\ Kept(promised.scopes, scopes, coproc)
  /\ Placed(shell.table, promised.scopes)
  /\ ~OnlySaved(shell, promised)
  /\ coproc = "gone" => ~shell.writer /\ ~shell.reader

DInv == DTypes /\ (departed = {} => Good)

-------------------------------------------------------------------------------
(* Ends *)

LEMMA EndsDiffer ==
  /\ None \in ReadEnds /\ None \in WriteEnds /\ CoprocIn \in WriteEnds /\ CoprocOut \in ReadEnds
  /\ <<"stdout">> \in WriteEnds /\ <<"stderr">> \in WriteEnds
  /\ None # CoprocIn /\ None # CoprocOut /\ CoprocIn # CoprocOut /\ NoFile \in Entry
  /\ NoFile.read = None /\ NoFile.write = None
  /\ ~IsPsub(None) /\ ~IsPsub(CoprocIn) /\ ~IsPsub(Plain) /\ Plain \in Mirrors /\ None \in Mirrors
  /\ Plain # None
BY DEF ReadEnds, WriteEnds, None, CoprocIn, CoprocOut, NoFile, Entry, IsPsub, Plain, Mirrors

LEMMA ReadEndIs ==
  ASSUME NEW e \in ReadEnds
  PROVE  /\ ~IsPsub(e) /\ e # CoprocIn /\ e[1] # "coproc stdin"
         /\ e[1] = "coproc stdout" <=> e = CoprocOut
<1>1. CASE e \in {"text"} \X (1..MaxOpens)
  <2>1. PICK n \in 1..MaxOpens : e = <<"text", n>>
    BY <1>1
  <2> QED BY <2>1 DEF IsPsub, CoprocIn, CoprocOut
<1>2. CASE e = None
  BY <1>2 DEF IsPsub, None, CoprocIn, CoprocOut
<1>3. CASE e = CoprocOut
  BY <1>3 DEF IsPsub, CoprocIn, CoprocOut
<1> QED BY <1>1, <1>2, <1>3 DEF ReadEnds

LEMMA WriteEndIs ==
  ASSUME NEW e \in WriteEnds
  PROVE  /\ IsPsub(e) <=> \E n \in 1..MaxOpens : e = <<"psub", n>>
         /\ IsPsub(e) => e \in Mirrors /\ e # CoprocIn /\ e # None
         /\ e # CoprocOut /\ e[1] # "coproc stdout" /\ e # Plain
         /\ e[1] = "coproc stdin" <=> e = CoprocIn
<1>1. CASE e \in {"file", "psub"} \X (1..MaxOpens)
  <2>1. PICK k \in {"file", "psub"}, n \in 1..MaxOpens : e = <<k, n>>
    BY <1>1
  <2>2. CASE k = "psub"
    BY <2>1, <2>2 DEF IsPsub, CoprocIn, CoprocOut, Plain, Mirrors, None
  <2>3. CASE k = "file"
    BY <2>1, <2>3 DEF IsPsub, CoprocIn, CoprocOut, Plain, Mirrors
  <2> QED BY <2>2, <2>3
<1>2. CASE e = None
  BY <1>2 DEF IsPsub, None, CoprocIn, CoprocOut, Plain
<1>3. CASE e = <<"stdout">> \/ e = <<"stderr">>
  <2>1. CASE e = <<"stdout">>
    BY <2>1 DEF IsPsub, CoprocIn, CoprocOut, Plain
  <2>2. CASE e = <<"stderr">>
    BY <2>2 DEF IsPsub, CoprocIn, CoprocOut, Plain
  <2> QED BY <1>3, <2>1, <2>2
<1>4. CASE e = CoprocIn
  BY <1>4 DEF IsPsub, CoprocIn, CoprocOut, Plain
<1> QED BY <1>1, <1>2, <1>3, <1>4 DEF WriteEnds

LEMMA MirrorIs ==
  ASSUME NEW m \in Mirrors
  PROVE  /\ IsPsub(m) <=> \E n \in 1..MaxOpens : m = <<"psub", n>>
         /\ ~IsPsub(m) => m \in {None, Plain}
<1>1. CASE m \in {"psub"} \X (1..MaxOpens)
  <2>1. PICK n \in 1..MaxOpens : m = <<"psub", n>>
    BY <1>1
  <2> QED BY <2>1 DEF IsPsub
<1> QED BY <1>1 DEF Mirrors, IsPsub, None, Plain

LEMMA PsubIs ==
  ASSUME NEW n \in 1..MaxOpens
  PROVE  /\ <<"psub", n>> \in WriteEnds /\ IsPsub(<<"psub", n>>) /\ <<"psub", n>>[2] = n
         /\ <<"psub", n>> # CoprocIn /\ <<"psub", n>> # None
         /\ <<"file", n>> \in WriteEnds /\ ~IsPsub(<<"file", n>>) /\ <<"file", n>> # CoprocIn
         /\ <<"text", n>> \in ReadEnds /\ <<"text", n>> # CoprocOut
         /\ <<"text", n>> # None /\ <<"file", n>> # None
BY DEF WriteEnds, ReadEnds, IsPsub, CoprocIn, CoprocOut, None

\* The lowest free descriptor is one the shell may allot, and free if any is.
LEMMA LeastOf ==
  ASSUME NEW S \in SUBSET Nat, S # {}
  PROVE  Min(S) \in S
<1>1. \E n \in S : \A m \in S : n <= m
  BY LeastNumber
<1> QED BY <1>1 DEF Min

LEMMA AllottedIs ==
  ASSUME NEW s \in Shells
  PROVE  /\ Allocated(s) \in Dynamic /\ Dynamic \subseteq Fds /\ Unset \notin Dynamic
         /\ Allocated(s) # Unset
         /\ Free(s) # {} => s.table[Allocated(s)] = NoFile /\ Allocated(s) \in Free(s)
<1>1. Dynamic \in SUBSET Nat /\ Dynamic # {} /\ Dynamic \subseteq Fds /\ Unset \notin Dynamic
  <2>1. Fds \subseteq Nat /\ Dynamic # {}
    BY DescriptorsAssumption
  <2>2. Dynamic \subseteq Fds
    BY DEF Dynamic
  <2>3. ~(0 >= 10)
    OBVIOUS
  <2> QED BY <2>1, <2>2, <2>3 DEF Dynamic, Unset
<1>2. Free(s) \in SUBSET Nat /\ Free(s) \subseteq Dynamic
  BY <1>1 DEF Free
<1>3. Min(Dynamic) \in Dynamic
  BY <1>1, LeastOf
<1>4. Free(s) # {} => Min(Free(s)) \in Free(s)
  BY <1>2, LeastOf
<1> QED BY <1>1, <1>2, <1>3, <1>4 DEF Allocated, Free

-------------------------------------------------------------------------------
(* What the operations on a shell do to each of its parts.                    *)

Put(T, fd, side, end) == [T EXCEPT ![fd] = [@ EXCEPT ![side] = end]]
Tables == [Fds -> Entry]

LEMMA PutRead ==
  ASSUME NEW T \in Tables, NEW fd \in Fds, NEW end \in ReadEnds
  PROVE  LET P == Put(T, fd, "read", end)
         IN  /\ P \in Tables /\ P[fd].read = end /\ P[fd].write = T[fd].write
             /\ \A f \in Fds \ {fd} : P[f] = T[f]
BY DEF Put, Tables, Entry

LEMMA PutWrite ==
  ASSUME NEW T \in Tables, NEW fd \in Fds, NEW end \in WriteEnds
  PROVE  LET P == Put(T, fd, "write", end)
         IN  /\ P \in Tables /\ P[fd].write = end /\ P[fd].read = T[fd].read
             /\ \A f \in Fds \ {fd} : P[f] = T[f]
BY DEF Put, Tables, Entry

LEMMA OpenInputIs ==
  ASSUME NEW s \in Shells, NEW fd \in Fds, NEW end \in ReadEnds
  PROVE  LET t == OpenInput(s, fd, end)
         IN  /\ t \in Shells /\ t.table = Put(s.table, fd, "read", end) /\ t.mirror = s.mirror
             /\ t.var = s.var /\ t.writer = s.writer /\ t.reader = s.reader /\ t.ran = s.ran
<1> DEFINE t == OpenInput(s, fd, end)
<1>1. s.table \in Tables
  BY DEF Shells, Tables
<1>2. Put(s.table, fd, "read", end) \in Tables
  BY <1>1, PutRead
<1>3. t = [s EXCEPT !.table = Put(s.table, fd, "read", end), !.shut = s.shut \ {fd}]
  BY DEF OpenInput, Put, Shells
<1> QED BY <1>2, <1>3 DEF Shells, Tables

LEMMA OpenOutputIs ==
  ASSUME NEW s \in Shells, NEW fd \in Fds, NEW end \in WriteEnds
  PROVE  LET t == OpenOutput(s, fd, end)
         IN  /\ t \in Shells /\ t.table = Put(s.table, fd, "write", end)
             /\ t.mirror = [s.mirror EXCEPT ![fd] = IF IsPsub(end) THEN end ELSE Plain]
             /\ t.var = s.var /\ t.writer = s.writer /\ t.reader = s.reader /\ t.ran = s.ran
<1> DEFINE t == OpenOutput(s, fd, end)
           m == IF IsPsub(end) THEN end ELSE Plain
<1>1. s.table \in Tables
  BY DEF Shells, Tables
<1>2. Put(s.table, fd, "write", end) \in Tables
  BY <1>1, PutWrite
<1>3. t = [s EXCEPT !.table = Put(s.table, fd, "write", end), !.shut = s.shut \ {fd},
                    !.mirror = [s.mirror EXCEPT ![fd] = m]]
  BY DEF OpenOutput, Put, Shells, IsPsub
<1>4. m \in Mirrors
  BY WriteEndIs, EndsDiffer
<1>5. s.mirror \in [Fds -> Mirrors]
  BY DEF Shells
<1>6. [s.mirror EXCEPT ![fd] = m] \in [Fds -> Mirrors]
  BY <1>4, <1>5
<1> HIDE DEF m
<1>7. t \in Shells
  BY <1>2, <1>3, <1>6 DEF Shells, Tables
<1>8. /\ t.table = Put(s.table, fd, "write", end) /\ t.mirror = [s.mirror EXCEPT ![fd] = m]
      /\ t.var = s.var /\ t.writer = s.writer /\ t.reader = s.reader /\ t.ran = s.ran
  BY <1>3 DEF Shells
<1> QED BY <1>7, <1>8 DEF m

LEMMA MarkShutIs ==
  ASSUME NEW s \in Shells, NEW fd \in Fds
  PROVE  /\ MarkShut(s, fd) = [s EXCEPT !.shut = s.shut \cup {fd}] /\ MarkShut(s, fd) \in Shells
BY DEF MarkShut, Shells

LEMMA SetVarIs ==
  ASSUME NEW s \in Shells, NEW name \in Names, NEW fd \in Fds
  PROVE  LET t == SetVar(s, name, fd)
         IN  /\ t \in Shells /\ t = [s EXCEPT !.var = [s.var EXCEPT ![name] = fd]]
BY DEF SetVar, Shells, Vars

LEMMA CoprocSideClosedIs ==
  ASSUME NEW s \in Shells, NEW fd \in Fds
  PROVE  /\ LET t == CoprocSideClosed(s, fd, "write", "writer")
             IN  /\ t \in Shells /\ t.table = s.table /\ t.mirror = s.mirror /\ t.ran = s.ran
                 /\ t.reader = s.reader
                 /\ t.writer = (s.writer /\ Leads(s.table, "write", CoprocIn))
         /\ LET t == CoprocSideClosed(s, fd, "read", "reader")
             IN  /\ t \in Shells /\ t.table = s.table /\ t.mirror = s.mirror /\ t.ran = s.ran
                 /\ t.writer = s.writer
                 /\ t.reader = (s.reader /\ Leads(s.table, "read", CoprocOut))
<1> DEFINE vs == [name \in Names |-> IF name \in {"COPROC0", "COPROC1"} /\ s.var[name] = fd
                                      THEN Unset ELSE s.var[name]]
           w == s.writer /\ Leads(s.table, "write", CoprocIn)
           r == s.reader /\ Leads(s.table, "read", CoprocOut)
<1>1. vs \in Vars
  BY DEF Vars, Shells
<1>2. w \in BOOLEAN /\ r \in BOOLEAN
  BY DEF Shells, Leads
<1>3. CoprocSideClosed(s, fd, "write", "writer") = [s EXCEPT !.var = vs, !.writer = w]
  BY DEF CoprocSideClosed, Shells, Leads
<1>4. CoprocSideClosed(s, fd, "read", "reader") = [s EXCEPT !.var = vs, !.reader = r]
  BY DEF CoprocSideClosed, Shells, Leads
<1> HIDE DEF vs, w, r
<1>5. [s EXCEPT !.var = vs, !.writer = w] \in Shells /\ [s EXCEPT !.var = vs, !.reader = r] \in Shells
  BY <1>1, <1>2 DEF Shells
<1> QED BY <1>3, <1>4, <1>5 DEF Shells, w, r

LEMMA CloseOutputIs ==
  ASSUME NEW s \in Shells, NEW fd \in Fds
  PROVE  LET t == CloseOutput(s, fd)
             m == s.mirror[fd]
         IN  /\ t \in Shells /\ t.table = Put(s.table, fd, "write", None)
             /\ t.mirror = [s.mirror EXCEPT ![fd] = None]
             /\ t.reader = s.reader
             /\ t.writer = (s.writer /\ (s.table[fd].write = CoprocIn
                                           => Leads(t.table, "write", CoprocIn)))
             /\ IsPsub(m) => t.ran = [s.ran EXCEPT ![m[2]] = @ + 1]
             /\ ~IsPsub(m) => t.ran = s.ran
<1> DEFINE m == s.mirror[fd]
           P == Put(s.table, fd, "write", None)
           side == [s EXCEPT !.table[fd].write = None]
           pipe == IF s.table[fd].write = CoprocIn
                   THEN CoprocSideClosed(side, fd, "write", "writer") ELSE side
           run == IF m[1] = "psub" THEN [pipe EXCEPT !.ran[m[2]] = @ + 1] ELSE pipe
           t == [run EXCEPT !.mirror[fd] = None]
<1>1. s.table \in Tables /\ s.mirror \in [Fds -> Mirrors] /\ m \in Mirrors
  BY DEF Shells, Tables
<1>2. P \in Tables
  BY <1>1, PutWrite, EndsDiffer
<1>3. side = [s EXCEPT !.table = P]
  BY DEF Put, Shells
<1> HIDE DEF P, side
<1>4. side \in Shells /\ side.table = P /\ side.mirror = s.mirror /\ side.ran = s.ran
        /\ side.reader = s.reader /\ side.writer = s.writer
  BY <1>2, <1>3 DEF Shells, Tables
<1>5. /\ pipe \in Shells /\ pipe.table = P /\ pipe.mirror = s.mirror /\ pipe.ran = s.ran
      /\ pipe.reader = s.reader
      /\ pipe.writer = (s.writer /\ (s.table[fd].write = CoprocIn => Leads(P, "write", CoprocIn)))
  <2>1. CASE s.table[fd].write = CoprocIn
    <3>1. pipe = CoprocSideClosed(side, fd, "write", "writer")
      BY <2>1
    <3> HIDE DEF pipe
    <3> QED BY <2>1, <3>1, <1>4, CoprocSideClosedIs
  <2>2. CASE s.table[fd].write # CoprocIn
    BY <2>2, <1>4 DEF Shells
  <2> QED BY <2>1, <2>2
<1> HIDE DEF pipe
<1>6. /\ run \in Shells /\ run.table = P /\ run.mirror = s.mirror /\ run.reader = s.reader
      /\ run.writer = pipe.writer
      /\ IsPsub(m) => run.ran = [s.ran EXCEPT ![m[2]] = @ + 1]
      /\ ~IsPsub(m) => run.ran = s.ran
  <2>1. CASE IsPsub(m)
    <3>1. PICK n \in 1..MaxOpens : m = <<"psub", n>>
      BY <2>1, <1>1, MirrorIs
    <3>2. m[2] = n
      BY <3>1
    <3> HIDE DEF m
    <3>3. run = [pipe EXCEPT !.ran = [pipe.ran EXCEPT ![n] = @ + 1]]
      BY <2>1, <3>2, <1>5 DEF IsPsub, Shells
    <3>4. [pipe.ran EXCEPT ![n] = @ + 1] \in [1..MaxOpens -> Nat]
      <4>1. pipe.ran \in [1..MaxOpens -> Nat]
        BY <1>5 DEF Shells
      <4> DEFINE r == pipe.ran
      <4> HIDE DEF r
      <4>2. r \in [1..MaxOpens -> Nat]
        BY <4>1 DEF r
      <4>4. n \in 1..MaxOpens
        BY <3>1
      <4>5. r[n] \in Nat
        BY <4>2, <4>4
      <4>6. r[n] + 1 \in Nat
        BY <4>5
      <4>3. [r EXCEPT ![n] = r[n] + 1] \in [1..MaxOpens -> Nat]
        BY <4>2, <4>6
      <4> QED BY <4>3 DEF r
    <3>5. run \in Shells
      BY <3>3, <3>4, <1>5 DEF Shells
    <3>6. run.ran = [s.ran EXCEPT ![m[2]] = @ + 1]
      BY <3>2, <3>3, <1>5 DEF Shells
    <3>7. /\ run.table = P /\ run.mirror = s.mirror /\ run.reader = s.reader
          /\ run.writer = pipe.writer
      BY <3>3, <1>5 DEF Shells
    <3> QED BY <2>1, <3>5, <3>6, <3>7
  <2>2. CASE ~IsPsub(m)
    BY <2>2, <1>5 DEF IsPsub
  <2> QED BY <2>1, <2>2
<1> HIDE DEF run
<1>7. t = [run EXCEPT !.mirror = [s.mirror EXCEPT ![fd] = None]]
  BY <1>6 DEF Shells
<1>8. [s.mirror EXCEPT ![fd] = None] \in [Fds -> Mirrors]
  BY <1>1, EndsDiffer
<1>9. t = CloseOutput(s, fd)
  BY DEF CloseOutput, side, pipe, run
<1> HIDE DEF t, m
<1>10. t \in Shells
  BY <1>6, <1>7, <1>8 DEF Shells
<1>11. /\ t.table = P /\ t.mirror = [s.mirror EXCEPT ![fd] = None] /\ t.reader = s.reader
       /\ t.writer = pipe.writer /\ t.ran = run.ran
  BY <1>6, <1>7 DEF Shells
<1>12. /\ IsPsub(m) => t.ran = [s.ran EXCEPT ![m[2]] = @ + 1]
       /\ ~IsPsub(m) => t.ran = s.ran
  BY <1>6, <1>11
<1>13. t.writer = (s.writer /\ (s.table[fd].write = CoprocIn => Leads(t.table, "write", CoprocIn)))
  BY <1>5, <1>11
<1> QED BY <1>9, <1>10, <1>11, <1>12, <1>13 DEF P, m

LEMMA CloseInputIs ==
  ASSUME NEW s \in Shells, NEW fd \in Fds
  PROVE  LET t == CloseInput(s, fd)
         IN  /\ t \in Shells /\ t.table = Put(s.table, fd, "read", None)
             /\ t.mirror = s.mirror /\ t.ran = s.ran /\ t.writer = s.writer
             /\ t.reader = (s.reader /\ (s.table[fd].read = CoprocOut
                                           => Leads(t.table, "read", CoprocOut)))
<1> DEFINE P == Put(s.table, fd, "read", None)
           side == [s EXCEPT !.table[fd].read = None]
           t == CloseInput(s, fd)
<1>1. s.table \in Tables
  BY DEF Shells, Tables
<1>2. P \in Tables
  BY <1>1, PutRead, EndsDiffer
<1>3. side = [s EXCEPT !.table = P]
  BY DEF Put, Shells
<1>4. t = IF s.table[fd].read = CoprocOut THEN CoprocSideClosed(side, fd, "read", "reader") ELSE side
  BY DEF CloseInput
<1> HIDE DEF P, side, t
<1>5. side \in Shells /\ side.table = P /\ side.mirror = s.mirror /\ side.ran = s.ran
        /\ side.reader = s.reader /\ side.writer = s.writer
  BY <1>2, <1>3 DEF Shells, Tables
<1>6. CASE s.table[fd].read = CoprocOut
  <2>1. t = CoprocSideClosed(side, fd, "read", "reader")
    BY <1>4, <1>6
  <2> QED BY <1>6, <2>1, <1>5, CoprocSideClosedIs DEF P, t
<1>7. CASE s.table[fd].read # CoprocOut
  BY <1>4, <1>5, <1>7 DEF Shells, P, t
<1> QED BY <1>6, <1>7

-------------------------------------------------------------------------------
(* A shell that is right stays so.                                            *)

OpenedKinds == {"in", "out", "rw", "psub", "refused"}

LEMMA OneMoreOpened ==
  ASSUME NEW o \in Seq(OpenedKinds), NEW k \in OpenedKinds
  PROVE  /\ Append(o, k) \in Seq(OpenedKinds) /\ Len(Append(o, k)) = Len(o) + 1 /\ Len(o) \in Nat
         /\ \A n : IsOpened(n, Append(o, k)) <=> IsOpened(n, o) \/ (n = Len(o) + 1 /\ k = "psub")
         /\ \A n : IsOpened(n, o) => n \in 1..Len(o)
<1>1. /\ Append(o, k) \in Seq(OpenedKinds) /\ Len(Append(o, k)) = Len(o) + 1 /\ Len(o) \in Nat
      /\ DOMAIN o = 1..Len(o) /\ DOMAIN Append(o, k) = 1..(Len(o) + 1)
  OBVIOUS
<1>2. \A i \in 1..(Len(o) + 1) : Append(o, k)[i] = IF i = Len(o) + 1 THEN k ELSE o[i]
  OBVIOUS
<1>3. \A n : n \in 1..(Len(o) + 1) <=> n \in 1..Len(o) \/ n = Len(o) + 1
  BY <1>1
<1>4. Len(o) + 1 \notin 1..Len(o)
  BY <1>1
<1> QED BY <1>1, <1>2, <1>3, <1>4 DEF IsOpened

LEMMA OpenedMore ==
  ASSUME NEW s \in Shells, NEW o \in Seq(OpenedKinds), NEW k \in OpenedKinds \ {"psub"}, Whole(s, o)
  PROVE  Whole(s, Append(o, k))
<1>1. \A n : IsOpened(n, Append(o, k)) <=> IsOpened(n, o)
  BY OneMoreOpened
<1> QED BY <1>1 DEF Whole, AllOpened, RanOnce

\* Only what is read changes.
LEMMA ReadsChange ==
  ASSUME NEW s \in Shells, NEW t \in Shells, NEW o, Whole(s, o),
         \A f \in Fds : t.table[f].write = s.table[f].write,
         t.mirror = s.mirror, t.ran = s.ran, t.writer = s.writer,
         t.reader <=> Leads(t.table, "read", CoprocOut)
  PROVE  Whole(t, o)
<1>1. \A end : Leads(t.table, "write", end) <=> Leads(s.table, "write", end)
  BY DEF Leads
<1>2. MirrorTrue(t) /\ OnePlace(t.table)
  BY DEF Whole, MirrorTrue, OnePlace
<1>3. AllOpened(t.table, o) /\ RanOnce(t, o)
  BY <1>1 DEF Whole, AllOpened, RanOnce
<1>4. PipesHeld(t)
  BY <1>1 DEF Whole, PipesHeld
<1> QED BY <1>2, <1>3, <1>4 DEF Whole

LEMMA OpenInputWhole ==
  ASSUME NEW s \in Shells, NEW o, Whole(s, o), NEW fd \in Fds, NEW end \in ReadEnds,
         end = CoprocOut => Leads(s.table, "read", CoprocOut),
         s.table[fd].read = CoprocOut => end = CoprocOut
  PROVE  Whole(OpenInput(s, fd, end), o)
<1> DEFINE t == OpenInput(s, fd, end)
<1>1. /\ t \in Shells /\ t.table = Put(s.table, fd, "read", end) /\ t.mirror = s.mirror
      /\ t.writer = s.writer /\ t.reader = s.reader /\ t.ran = s.ran
  BY OpenInputIs
<1>2. s.table \in Tables
  BY DEF Shells, Tables
<1> HIDE DEF t
<1>3. /\ t.table[fd].read = end /\ t.table[fd].write = s.table[fd].write
      /\ \A f \in Fds \ {fd} : t.table[f] = s.table[f]
  BY <1>1, <1>2, PutRead
<1>4. Leads(t.table, "read", CoprocOut) <=> Leads(s.table, "read", CoprocOut)
  BY <1>3 DEF Leads
<1>5. t.reader <=> Leads(t.table, "read", CoprocOut)
  BY <1>1, <1>4 DEF Whole, PipesHeld
<1>6. \A f \in Fds : t.table[f].write = s.table[f].write
  BY <1>3
<1> QED BY <1>1, <1>5, <1>6, ReadsChange DEF t

LEMMA CloseInputWhole ==
  ASSUME NEW s \in Shells, NEW o, Whole(s, o), NEW fd \in Fds
  PROVE  Whole(CloseInput(s, fd), o)
<1> DEFINE t == CloseInput(s, fd)
<1>1. /\ t \in Shells /\ t.table = Put(s.table, fd, "read", None) /\ t.mirror = s.mirror
      /\ t.writer = s.writer /\ t.ran = s.ran
      /\ t.reader = (s.reader /\ (s.table[fd].read = CoprocOut => Leads(t.table, "read", CoprocOut)))
  BY CloseInputIs
<1>2. s.table \in Tables
  BY DEF Shells, Tables
<1> HIDE DEF t
<1>3. /\ t.table[fd].read = None /\ t.table[fd].write = s.table[fd].write
      /\ \A f \in Fds \ {fd} : t.table[f] = s.table[f]
  BY <1>1, <1>2, PutRead, EndsDiffer
<1>4. s.reader <=> Leads(s.table, "read", CoprocOut)
  BY DEF Whole, PipesHeld
<1>5. /\ Leads(t.table, "read", CoprocOut) => Leads(s.table, "read", CoprocOut)
      /\ Leads(s.table, "read", CoprocOut) /\ s.table[fd].read # CoprocOut
           => Leads(t.table, "read", CoprocOut)
  BY <1>3, EndsDiffer DEF Leads
<1>6. t.reader <=> Leads(t.table, "read", CoprocOut)
  BY <1>1, <1>4, <1>5
<1>7. \A f \in Fds : t.table[f].write = s.table[f].write
  BY <1>3
<1> QED BY <1>1, <1>6, <1>7, ReadsChange DEF t

\* An output that is no process substitution takes the place of another one.
LEMMA OpenOutputWhole ==
  ASSUME NEW s \in Shells, NEW o, Whole(s, o), NEW fd \in Fds, NEW end \in WriteEnds,
         ~IsPsub(end), ~IsPsub(s.table[fd].write),
         end = CoprocIn => Leads(s.table, "write", CoprocIn),
         s.table[fd].write = CoprocIn => end = CoprocIn,
         NEW t \in Shells, t.table = Put(s.table, fd, "write", end),
         t.mirror = s.mirror \/ \E m : t.mirror = [s.mirror EXCEPT ![fd] = m] /\ ~IsPsub(m),
         t.writer = s.writer, t.reader = s.reader, t.ran = s.ran
  PROVE  Whole(t, o)
<1>1. s.table \in Tables /\ s.mirror \in [Fds -> Mirrors]
  BY DEF Shells, Tables
<1>2. /\ t.table[fd].write = end /\ t.table[fd].read = s.table[fd].read
      /\ \A f \in Fds \ {fd} : t.table[f] = s.table[f]
  BY <1>1, PutWrite
<1>3. /\ \A f \in Fds \ {fd} : t.mirror[f] = s.mirror[f]
      /\ ~IsPsub(s.mirror[fd]) => ~IsPsub(t.mirror[fd])
  BY <1>1
<1>4. ~IsPsub(s.mirror[fd])
  BY DEF Whole, MirrorTrue
<1>5. MirrorTrue(t)
  BY <1>2, <1>3, <1>4 DEF Whole, MirrorTrue
<1>6. OnePlace(t.table)
  BY <1>2 DEF Whole, OnePlace
<1>7. \A n \in 1..MaxOpens : Leads(t.table, "write", <<"psub", n>>) <=> Leads(s.table, "write", <<"psub", n>>)
  BY <1>2, PsubIs, ZenonT(60) DEF Leads
<1>8. AllOpened(t.table, o) /\ RanOnce(t, o)
  BY <1>7 DEF Whole, AllOpened, RanOnce
<1>9. Leads(t.table, "write", CoprocIn) <=> Leads(s.table, "write", CoprocIn)
  BY <1>2 DEF Leads
<1>10. Leads(t.table, "read", CoprocOut) <=> Leads(s.table, "read", CoprocOut)
  BY <1>2 DEF Leads
<1>11. PipesHeld(t)
  BY <1>9, <1>10 DEF Whole, PipesHeld
<1> QED BY <1>5, <1>6, <1>8, <1>11 DEF Whole

\* A new process substitution.
LEMMA OpenPsubWhole ==
  ASSUME NEW s \in Shells, NEW o \in Seq(OpenedKinds), Whole(s, o), NEW fd \in Fds,
         Len(o) < MaxOpens, ~IsPsub(s.table[fd].write), s.table[fd].write # CoprocIn
  PROVE  Whole(OpenOutput(s, fd, <<"psub", Len(o) + 1>>), Append(o, "psub"))
<1> DEFINE n == Len(o) + 1
           end == <<"psub", n>>
           t == OpenOutput(s, fd, end)
           o2 == Append(o, "psub")
<1>1. n \in 1..MaxOpens
  BY OneMoreOpened, DescriptorsAssumption DEF OpenedKinds
<1>2. end \in WriteEnds /\ IsPsub(end) /\ end # CoprocIn
  BY <1>1, PsubIs
<1>3. /\ t \in Shells /\ t.table = Put(s.table, fd, "write", end)
      /\ t.mirror = [s.mirror EXCEPT ![fd] = end]
      /\ t.writer = s.writer /\ t.reader = s.reader /\ t.ran = s.ran
  BY <1>2, OpenOutputIs
<1>4. s.table \in Tables /\ s.mirror \in [Fds -> Mirrors]
  BY DEF Shells, Tables
<1> HIDE DEF t
<1>5. /\ t.table[fd].write = end /\ t.table[fd].read = s.table[fd].read
      /\ \A f \in Fds \ {fd} : t.table[f] = s.table[f]
  <2> HIDE DEF end
  <2> QED BY <1>2, <1>3, <1>4, PutWrite
<1>6. t.mirror[fd] = end /\ \A f \in Fds \ {fd} : t.mirror[f] = s.mirror[f]
  BY <1>3, <1>4
<1>7. MirrorTrue(t)
  BY <1>5, <1>6 DEF Whole, MirrorTrue
<1>8. /\ \A k : IsOpened(k, o2) <=> IsOpened(k, o) \/ k = n
      /\ ~IsOpened(n, o)
  <2>1. "psub" \in OpenedKinds
    BY DEF OpenedKinds
  <2>2. Len(o) + 1 \notin 1..Len(o)
    OBVIOUS
  <2> QED BY <2>1, <2>2, OneMoreOpened
<1>9. ~Leads(s.table, "write", end)
  BY <1>1, <1>8 DEF Whole, AllOpened
<1>10. \A k \in 1..MaxOpens : Leads(t.table, "write", <<"psub", k>>)
                                <=> k = n \/ Leads(s.table, "write", <<"psub", k>>)
  <2> TAKE k \in 1..MaxOpens
  <2>1. IsPsub(<<"psub", k>>) /\ (<<"psub", k>> = end => k = n)
    BY PsubIs
  <2> HIDE DEF end, n
  <2>2. CASE k = n
    BY <2>2, <1>5 DEF Leads, end
  <2>3. CASE k # n
    BY <2>1, <2>3, <1>5 DEF Leads
  <2> QED BY <2>2, <2>3
<1> HIDE DEF end, n, o2
<1>11. OnePlace(t.table)
  BY <1>5, <1>9 DEF Whole, OnePlace, Leads
<1>12. AllOpened(t.table, o2) /\ RanOnce(t, o2)
  BY <1>3, <1>8, <1>10 DEF Whole, AllOpened, RanOnce
<1>13. PipesHeld(t)
  <2>1. Leads(t.table, "write", CoprocIn) <=> Leads(s.table, "write", CoprocIn)
    BY <1>2, <1>5 DEF Leads
  <2>2. Leads(t.table, "read", CoprocOut) <=> Leads(s.table, "read", CoprocOut)
    BY <1>5 DEF Leads
  <2> QED BY <2>1, <2>2, <1>3 DEF Whole, PipesHeld
<1> QED BY <1>7, <1>11, <1>12, <1>13 DEF Whole, t, o2, end, n

LEMMA CloseOutputWhole ==
  ASSUME NEW s \in Shells, NEW o, Whole(s, o), NEW fd \in Fds
  PROVE  Whole(CloseOutput(s, fd), o)
<1> DEFINE t == CloseOutput(s, fd)
           m == s.mirror[fd]
<1>1. /\ t \in Shells /\ t.table = Put(s.table, fd, "write", None)
      /\ t.mirror = [s.mirror EXCEPT ![fd] = None] /\ t.reader = s.reader
      /\ t.writer = (s.writer /\ (s.table[fd].write = CoprocIn => Leads(t.table, "write", CoprocIn)))
      /\ IsPsub(m) => t.ran = [s.ran EXCEPT ![m[2]] = @ + 1]
      /\ ~IsPsub(m) => t.ran = s.ran
  BY CloseOutputIs
<1>2. s.table \in Tables /\ s.mirror \in [Fds -> Mirrors] /\ m \in Mirrors
        /\ s.ran \in [1..MaxOpens -> Nat] /\ s.table[fd].write \in WriteEnds
  BY DEF Shells, Tables, Entry
<1>3. IsPsub(m) \/ IsPsub(s.table[fd].write) => m = s.table[fd].write
  BY DEF Whole, MirrorTrue
<1> HIDE DEF t, m
<1>4. /\ t.table[fd].write = None /\ t.table[fd].read = s.table[fd].read
      /\ \A f \in Fds \ {fd} : t.table[f] = s.table[f]
  <2>1. None \in WriteEnds
    BY EndsDiffer
  <2> QED BY <1>1, <1>2, <2>1, PutWrite
<1>5. t.mirror[fd] = None /\ \A f \in Fds \ {fd} : t.mirror[f] = s.mirror[f]
  BY <1>1, <1>2
<1>6. MirrorTrue(t)
  BY <1>4, <1>5, EndsDiffer DEF Whole, MirrorTrue
<1>7. OnePlace(t.table)
  BY <1>4, EndsDiffer DEF Whole, OnePlace
<1>8. \A n \in 1..MaxOpens : Leads(t.table, "write", <<"psub", n>>)
                               <=> Leads(s.table, "write", <<"psub", n>>) /\ m # <<"psub", n>>
  <2> TAKE n \in 1..MaxOpens
  <2> DEFINE e == <<"psub", n>>
  <2>1. IsPsub(e) /\ e # None
    BY PsubIs
  <2> HIDE DEF e
  <2>2. CASE m = e
    <3>1. s.table[fd].write = e
      BY <2>1, <2>2, <1>3
    <3>2. \A f \in Fds : s.table[f].write = e => f = fd
      BY <2>1, <3>1 DEF Whole, OnePlace
    <3>3. \A f \in Fds : t.table[f].write # e
      <4> TAKE f \in Fds
      <4>1. CASE f = fd
        BY <4>1, <2>1, <1>4
      <4>2. CASE f # fd
        BY <4>2, <3>2, <1>4
      <4> QED BY <4>1, <4>2
    <3> QED BY <2>2, <3>3 DEF Leads, e
  <2>3. CASE m # e
    <3>1. s.table[fd].write # e
      BY <2>1, <2>3, <1>3
    <3>2. \A f \in Fds : t.table[f].write = e <=> s.table[f].write = e
      <4> TAKE f \in Fds
      <4>1. CASE f = fd
        BY <4>1, <3>1, <2>1, <1>4
      <4>2. CASE f # fd
        BY <4>2, <1>4
      <4> QED BY <4>1, <4>2
    <3> QED BY <2>3, <3>2 DEF Leads, e
  <2> QED BY <2>2, <2>3 DEF e
<1>9. AllOpened(t.table, o)
  BY <1>8 DEF Whole, AllOpened
<1>10. RanOnce(t, o)
  <2>1. CASE IsPsub(m)
    <3>1. PICK n \in 1..MaxOpens : m = <<"psub", n>>
      BY <2>1, <1>2, MirrorIs
    <3>2. m[2] = n /\ \A k \in 1..MaxOpens : m = <<"psub", k>> <=> k = n
      BY <3>1
    <3>3. s.table[fd].write = m
      BY <2>1, <1>3
    <3>4. Leads(s.table, "write", <<"psub", n>>)
      BY <3>1, <3>3 DEF Leads
    <3>5. IsOpened(n, o) /\ s.ran[n] = 0
      BY <3>4 DEF Whole, AllOpened, RanOnce
    <3>6. t.ran[n] = 1 /\ \A k \in 1..MaxOpens \ {n} : t.ran[k] = s.ran[k]
      <4>1. t.ran = [s.ran EXCEPT ![n] = s.ran[n] + 1]
        BY <1>1, <2>1, <3>2
      <4>2. s.ran[n] + 1 = 1 /\ n \in 1..MaxOpens
        BY <3>1, <3>5
      <4>3. t.ran = [s.ran EXCEPT ![n] = 1]
        BY <4>1, <4>2
      <4> QED BY <1>2, <4>2, <4>3
    <3>7. ~Leads(t.table, "write", <<"psub", n>>)
      BY <1>8, <3>1
    <3>8. \A k \in 1..MaxOpens \ {n} : Leads(t.table, "write", <<"psub", k>>)
                                         <=> Leads(s.table, "write", <<"psub", k>>)
      BY <1>8, <3>2
    <3>9. \A k \in 1..MaxOpens :
            s.ran[k] = IF IsOpened(k, o) /\ ~Leads(s.table, "write", <<"psub", k>>) THEN 1 ELSE 0
      BY DEF Whole, RanOnce
    <3>10. ASSUME NEW k \in 1..MaxOpens
           PROVE  t.ran[k] = IF IsOpened(k, o) /\ ~Leads(t.table, "write", <<"psub", k>>)
                             THEN 1 ELSE 0
      <4>1. CASE k = n
        BY <4>1, <3>5, <3>6, <3>7
      <4>2. CASE k # n
        <5>1. t.ran[k] = s.ran[k]
                /\ (Leads(t.table, "write", <<"psub", k>>) <=> Leads(s.table, "write", <<"psub", k>>))
          BY <4>2, <3>6, <3>8
        <5> QED BY <5>1, <3>9
      <4> QED BY <4>1, <4>2
    <3> QED BY <3>10 DEF RanOnce
  <2>2. CASE ~IsPsub(m)
    <3>1. \A n \in 1..MaxOpens : m # <<"psub", n>>
      BY <2>2, PsubIs
    <3> QED BY <2>2, <3>1, <1>1, <1>8 DEF Whole, RanOnce
  <2> QED BY <2>1, <2>2
<1>11. PipesHeld(t)
  <2>1. Leads(t.table, "read", CoprocOut) <=> Leads(s.table, "read", CoprocOut)
    BY <1>4 DEF Leads
  <2>2. /\ Leads(t.table, "write", CoprocIn) => Leads(s.table, "write", CoprocIn)
        /\ Leads(s.table, "write", CoprocIn) /\ s.table[fd].write # CoprocIn
             => Leads(t.table, "write", CoprocIn)
    BY <1>4, EndsDiffer DEF Leads
  <2>3. s.writer <=> Leads(s.table, "write", CoprocIn)
    BY DEF Whole, PipesHeld
  <2>4. t.writer <=> Leads(t.table, "write", CoprocIn)
    BY <1>1, <2>2, <2>3
  <2> QED BY <1>1, <2>1, <2>4 DEF Whole, PipesHeld
<1> QED BY <1>6, <1>7, <1>9, <1>10, <1>11 DEF Whole, t

\* What closing both sides leaves: a closed entry, the rest as it was.
PutNone(T, fd) == [T EXCEPT ![fd] = NoFile]

\* A failure leaves the input side; it was closed, or it is a departure.
LEMMA CloseBothWhole ==
  ASSUME NEW s \in Shells, NEW o, Whole(s, o), NEW fd \in Fds, NEW fails \in BOOLEAN,
         fails => s.table[fd].read = None
  PROVE  LET t == CloseBoth(s, fd, fails)
         IN  t \in Shells /\ Whole(t, o) /\ t.table = PutNone(s.table, fd)
<1> DEFINE a == CloseOutput(s, fd)
           b == CloseInput(a, fd)
           t == MarkShut(b, fd)
<1>1. a \in Shells /\ a.table = Put(s.table, fd, "write", None) /\ Whole(a, o)
  BY CloseOutputIs, CloseOutputWhole
<1>2. b \in Shells /\ b.table = Put(a.table, fd, "read", None) /\ Whole(b, o)
  <2> HIDE DEF a
  <2> QED BY <1>1, CloseInputIs, CloseInputWhole
<1>3. t = [b EXCEPT !.shut = b.shut \cup {fd}] /\ t \in Shells
  <2> HIDE DEF b
  <2> QED BY <1>2, MarkShutIs
<1>4. CloseBoth(s, fd, fails) = IF fails THEN a ELSE t
  BY DEF CloseBoth
<1> HIDE DEF a, b, t
<1>5. t.table = b.table /\ t.mirror = b.mirror /\ t.ran = b.ran /\ t.writer = b.writer
        /\ t.reader = b.reader
  BY <1>2, <1>3 DEF Shells
<1>6. Whole(t, o)
  BY <1>2, <1>5 DEF Whole, MirrorTrue, RanOnce, PipesHeld
<1>7. t.table = PutNone(s.table, fd) /\ (fails => a.table = PutNone(s.table, fd))
  <2>1. s.table \in Tables
    BY DEF Shells, Tables
  <2>2. fails => a.table = PutNone(s.table, fd)
    BY <1>1, <2>1 DEF Put, PutNone, Tables, Entry, NoFile
  <2> QED BY <1>1, <1>2, <1>5, <2>1, <2>2 DEF Put, PutNone, Tables, Entry, NoFile
<1> QED BY <1>1, <1>3, <1>4, <1>6, <1>7

\* Marks of closed descriptors and variables do not matter.
LEMMA ShutIs ==
  ASSUME NEW s \in Shells, NEW S \in SUBSET Fds, NEW v \in Vars
  PROVE  /\ [s EXCEPT !.shut = S] \in Shells /\ [s EXCEPT !.shut = S].table = s.table
         /\ [s EXCEPT !.var = v] \in Shells /\ [s EXCEPT !.var = v].table = s.table
         /\ \A o : Whole(s, o) => Whole([s EXCEPT !.shut = S], o) /\ Whole([s EXCEPT !.var = v], o)
<1>1. /\ [s EXCEPT !.shut = S] \in Shells /\ [s EXCEPT !.shut = S].table = s.table
      /\ [s EXCEPT !.var = v] \in Shells /\ [s EXCEPT !.var = v].table = s.table
  BY DEF Shells
<1>2. ASSUME NEW t \in Shells, t.table = s.table, t.mirror = s.mirror, t.ran = s.ran,
             t.writer = s.writer, t.reader = s.reader, NEW o, Whole(s, o)
      PROVE  Whole(t, o)
  BY <1>2 DEF Whole, MirrorTrue, RanOnce, PipesHeld
<1>3. LET t == [s EXCEPT !.shut = S]
      IN  /\ t.table = s.table /\ t.mirror = s.mirror /\ t.ran = s.ran
          /\ t.writer = s.writer /\ t.reader = s.reader
  BY DEF Shells
<1>4. LET t == [s EXCEPT !.var = v]
      IN  /\ t.table = s.table /\ t.mirror = s.mirror /\ t.ran = s.ran
          /\ t.writer = s.writer /\ t.reader = s.reader
  BY DEF Shells
<1> QED BY <1>1, <1>2, <1>3, <1>4

LEMMA CopyInputWhole ==
  ASSUME NEW s \in Shells, NEW fd \in Fds, NEW source \in Fds
  PROVE  LET t == CopyInput(s, fd, source)
         IN  /\ t \in Shells /\ t.table = Put(s.table, fd, "read", s.table[source].read)
             /\ \A o : Whole(s, o) /\ (s.table[fd].read = CoprocOut => s.table[source].read = CoprocOut)
                         => Whole(t, o)
<1> DEFINE end == s.table[source].read
<1>1. end \in ReadEnds
  BY DEF Shells, Entry
<1>2. CASE Open(s, source, "read")
  <2>1. CopyInput(s, fd, source) = OpenInput(s, fd, end)
    BY <1>2 DEF CopyInput
  <2>2. end = CoprocOut => Leads(s.table, "read", CoprocOut)
    BY DEF Leads
  <2> HIDE DEF end
  <2>3. \A o : Whole(s, o) /\ (s.table[fd].read = CoprocOut => end = CoprocOut)
                 => Whole(OpenInput(s, fd, end), o)
    BY <1>1, <2>2, OpenInputWhole
  <2> QED BY <1>1, <2>1, <2>3, OpenInputIs DEF end
<1>3. CASE ~Open(s, source, "read")
  <2>1. CopyInput(s, fd, source) = CloseInput(s, fd) /\ end = None
    BY <1>3 DEF CopyInput, Open
  <2> HIDE DEF end
  <2> QED BY <2>1, CloseInputIs, CloseInputWhole DEF end
<1> QED BY <1>2, <1>3

LEMMA PutTwice ==
  ASSUME NEW T \in Tables, NEW fd \in Fds, NEW a \in WriteEnds, NEW b \in WriteEnds
  PROVE  Put(Put(T, fd, "write", a), fd, "write", b) = Put(T, fd, "write", b)
BY DEF Put, Tables, Entry

LEMMA CopyOutputType ==
  ASSUME NEW s \in Shells, NEW fd \in Fds, NEW source \in Fds
  PROVE  CopyOutput(s, fd, source) \in Shells
<1> DEFINE end == s.table[source].write
           own == s.table[fd].write
           ready == IF fd # source /\ own[1] = "psub" /\ own # end THEN CloseOutput(s, fd) ELSE s
           mirrored(m) == [[s EXCEPT !.mirror[fd] = m] EXCEPT !.shut = @ \ {fd}]
           closed == CloseOutput(s, fd)
<1>1. end \in WriteEnds /\ s.mirror \in [Fds -> Mirrors] /\ s.shut \subseteq Fds
  BY DEF Shells, Entry
<1>2. closed \in Shells /\ ready \in Shells
  BY CloseOutputIs
<1>3. ASSUME NEW m \in Mirrors PROVE mirrored(m) \in Shells
  <2>1. mirrored(m) = [s EXCEPT !.mirror = [s.mirror EXCEPT ![fd] = m], !.shut = s.shut \ {fd}]
    BY DEF Shells
  <2>2. [s.mirror EXCEPT ![fd] = m] \in [Fds -> Mirrors] /\ s.shut \ {fd} \subseteq Fds
    BY <1>1
  <2> HIDE DEF mirrored
  <2> QED BY <2>1, <2>2 DEF Shells
<1>4. closed.shut \ {fd} \subseteq Fds
  BY <1>2 DEF Shells
<1>5. MarkShut(closed, fd) \in Shells /\ [closed EXCEPT !.shut = @ \ {fd}] \in Shells
  <2> HIDE DEF closed
  <2>1. s.var \in Vars
    BY DEF Shells
  <2> QED BY <1>2, <1>4, <2>1, MarkShutIs, ShutIs
<1>6. OpenOutput(ready, fd, end) \in Shells
  <2> HIDE DEF ready, end
  <2> QED BY <1>1, <1>2, OpenOutputIs
<1>7. s.mirror[source] \in Mirrors /\ Plain \in Mirrors
  BY <1>1, EndsDiffer
<1>8. CopyOutput(s, fd, source) \in {OpenOutput(ready, fd, end), MarkShut(closed, fd),
        mirrored(s.mirror[source]), mirrored(Plain), [closed EXCEPT !.shut = @ \ {fd}]}
  BY DEF CopyOutput
<1> HIDE DEF end, own, ready, mirrored, closed
<1> QED BY <1>3, <1>5, <1>6, <1>7, <1>8

LEMMA CopyOutputWhole ==
  ASSUME NEW s \in Shells, NEW o, Whole(s, o), NEW fd \in Fds, NEW source \in Fds,
         ~IsPsub(s.table[source].write), ~BelievesMirror(s, source),
         s.table[fd].write = CoprocIn => s.table[source].write = CoprocIn
  PROVE  LET t == CopyOutput(s, fd, source)
         IN  Whole(t, o) /\ t.table = Put(s.table, fd, "write", s.table[source].write)
<1> DEFINE end == s.table[source].write
           own == s.table[fd].write
           closed == CloseOutput(s, fd)
           t == CopyOutput(s, fd, source)
<1>1. end \in WriteEnds /\ own \in WriteEnds /\ s.table \in Tables
  BY DEF Shells, Entry, Tables
<1>2. closed \in Shells /\ Whole(closed, o) /\ closed.table = Put(s.table, fd, "write", None)
  BY CloseOutputIs, CloseOutputWhole
<1>3. CASE end # None /\ IsPsub(own)
  <2>1. own # end /\ fd # source
    BY <1>3
  <2>2. t = OpenOutput(closed, fd, end)
    BY <1>3, <2>1 DEF CopyOutput, IsPsub
  <2> HIDE DEF end, closed, t
  <2>3. closed.table[fd].write = None /\ closed.table[source] = s.table[source]
    <3>1. None \in WriteEnds
      BY EndsDiffer
    <3> QED BY <1>1, <1>2, <2>1, <3>1, PutWrite
  <2>4. end = CoprocIn => Leads(closed.table, "write", CoprocIn)
    BY <2>3 DEF Leads, end
  <2>5. /\ t \in Shells /\ t.table = Put(closed.table, fd, "write", end)
        /\ t.mirror = [closed.mirror EXCEPT ![fd] = Plain]
        /\ t.writer = closed.writer /\ t.reader = closed.reader /\ t.ran = closed.ran
    <3>1. ~IsPsub(end)
      BY DEF end
    <3> QED BY <1>1, <1>2, <2>2, <3>1, OpenOutputIs
  <2>6. Whole(t, o)
    <3>1. ~IsPsub(end) /\ ~IsPsub(Plain) /\ ~IsPsub(None) /\ None # CoprocIn
      BY EndsDiffer DEF end
    <3>2. ~IsPsub(closed.table[fd].write) /\ closed.table[fd].write # CoprocIn
      BY <2>3, <3>1
    <3> QED BY <1>1, <1>2, <2>4, <2>5, <3>1, <3>2, OpenOutputWhole
  <2>7. t.table = Put(s.table, fd, "write", end)
    <3>1. None \in WriteEnds
      BY EndsDiffer
    <3> QED BY <1>1, <1>2, <2>5, <3>1, PutTwice
  <2> QED BY <2>6, <2>7 DEF end, t
<1>4. CASE end # None /\ ~IsPsub(own)
  <2>1. t = OpenOutput(s, fd, end)
    BY <1>4 DEF CopyOutput, IsPsub
  <2>2. end = CoprocIn => Leads(s.table, "write", CoprocIn)
    BY DEF Leads
  <2> HIDE DEF end, t
  <2>3. /\ t \in Shells /\ t.table = Put(s.table, fd, "write", end)
        /\ t.mirror = [s.mirror EXCEPT ![fd] = Plain]
        /\ t.writer = s.writer /\ t.reader = s.reader /\ t.ran = s.ran
    <3>1. ~IsPsub(end)
      BY DEF end
    <3> QED BY <1>1, <2>1, <3>1, OpenOutputIs
  <2>4. Whole(t, o)
    <3>1. ~IsPsub(end) /\ ~IsPsub(Plain) /\ (own = CoprocIn => end = CoprocIn)
      BY EndsDiffer DEF end
    <3> QED BY <1>1, <1>4, <2>2, <2>3, <3>1, OpenOutputWhole
  <2> QED BY <2>3, <2>4 DEF end, t
<1>5. CASE end = None
  <2>1. t = MarkShut(closed, fd) \/ t = [closed EXCEPT !.shut = closed.shut \ {fd}]
    BY <1>5 DEF CopyOutput, BelievesMirror, Open
  <2> HIDE DEF closed
  <2>2. closed.shut \cup {fd} \in SUBSET Fds /\ closed.shut \ {fd} \in SUBSET Fds /\ s.var \in Vars
    BY <1>2 DEF Shells
  <2>3. MarkShut(closed, fd) = [closed EXCEPT !.shut = closed.shut \cup {fd}]
    BY <1>2, MarkShutIs
  <2>4. \E S \in SUBSET Fds : t = [closed EXCEPT !.shut = S]
    BY <2>1, <2>2, <2>3
  <2> HIDE DEF t
  <2>5. Whole(t, o) /\ t.table = closed.table
    BY <1>2, <2>2, <2>4, ShutIs, ZenonT(60)
  <2> QED BY <1>2, <1>5, <2>5 DEF t
<1> QED BY <1>3, <1>4, <1>5

-------------------------------------------------------------------------------
(* Opening both sides of a descriptor, in the shell and in the promise.       *)

SidesOver(entry, sides) ==
  [read |-> IF sides.read = None THEN entry.read ELSE sides.read,
   write |-> IF sides.write = None THEN entry.write ELSE sides.write]
PutSides(T, fd, sides) == [T EXCEPT ![fd] = SidesOver(T[fd], sides)]

LEMMA PutSidesIs ==
  ASSUME NEW T \in Tables, NEW fd \in Fds, NEW sides \in Entry
  PROVE  LET P == PutSides(T, fd, sides)
         IN  /\ P \in Tables /\ P[fd] = SidesOver(T[fd], sides) /\ SidesOver(T[fd], sides) \in Entry
             /\ \A f \in Fds \ {fd} : P[f] = T[f]
<1>1. T[fd] \in Entry
  BY DEF Tables
<1>2. SidesOver(T[fd], sides) \in Entry
  BY <1>1 DEF SidesOver, Entry
<1> QED BY <1>2 DEF PutSides, Tables

LEMMA PutSidesEnds ==
  ASSUME NEW T \in Tables, NEW fd \in Fds, NEW sides \in Entry
  PROVE  \A f \in Fds : LET P == PutSides(T, fd, sides)
                        IN  /\ P[f].write \in {T[f].write, sides.write}
                            /\ P[f].read \in {T[f].read, sides.read}
<1> DEFINE P == PutSides(T, fd, sides)
<1>1. P[fd] = SidesOver(T[fd], sides) /\ \A f \in Fds \ {fd} : P[f] = T[f]
  BY PutSidesIs
<1> HIDE DEF P
<1>2. P[fd].write \in {T[fd].write, sides.write} /\ P[fd].read \in {T[fd].read, sides.read}
  BY <1>1 DEF SidesOver
<1>3. \A f \in Fds : P[f].write \in {T[f].write, sides.write} /\ P[f].read \in {T[f].read, sides.read}
  BY <1>1, <1>2
<1> QED BY <1>3 DEF P

LEMMA PutSidesPuts ==
  ASSUME NEW T \in Tables, NEW fd \in Fds, NEW sides \in Entry
  PROVE  LET in == IF sides.read = None THEN T ELSE Put(T, fd, "read", sides.read)
         IN  PutSides(T, fd, sides) = IF sides.write = None THEN in ELSE Put(in, fd, "write", sides.write)
BY DEF PutSides, SidesOver, Put, Tables, Entry

LEMMA SetSideIs ==
  ASSUME NEW p \in Promises, NEW fd \in Fds
  PROVE  /\ \A end \in ReadEnds : LET q == SetSide(p, fd, "read", end)
                                  IN  /\ q \in Promises /\ q.scopes = p.scopes
                                      /\ q.files = Put(p.files, fd, "read", end)
         /\ \A end \in WriteEnds : LET q == SetSide(p, fd, "write", end)
                                   IN  /\ q \in Promises /\ q.scopes = p.scopes
                                       /\ q.files = Put(p.files, fd, "write", end)
<1>1. p.files \in Tables
  BY DEF Promises, Tables
<1>2. \A side, end : SetSide(p, fd, side, end) = [p EXCEPT !.files = Put(p.files, fd, side, end)]
  BY DEF SetSide, Put, Promises
<1>3. /\ \A end \in ReadEnds : Put(p.files, fd, "read", end) \in Tables
      /\ \A end \in WriteEnds : Put(p.files, fd, "write", end) \in Tables
  BY <1>1, PutRead, PutWrite
<1> QED BY <1>2, <1>3 DEF Promises, Tables

LEMMA PromiseBothIs ==
  ASSUME NEW p \in Promises, NEW fd \in Fds, NEW sides \in Entry
  PROVE  LET q == PromiseBoth(p, fd, sides)
         IN  q \in Promises /\ q.scopes = p.scopes /\ q.files = PutSides(p.files, fd, sides)
<1> DEFINE in == IF sides.read = None THEN p ELSE SetSide(p, fd, "read", sides.read)
           q == IF sides.write = None THEN in ELSE SetSide(in, fd, "write", sides.write)
<1>1. sides.read \in ReadEnds /\ sides.write \in WriteEnds /\ p.files \in Tables
  BY DEF Entry, Promises, Tables
<1>2. /\ in \in Promises /\ in.scopes = p.scopes
      /\ in.files = IF sides.read = None THEN p.files ELSE Put(p.files, fd, "read", sides.read)
  BY <1>1, SetSideIs
<1> HIDE DEF in
<1>3. /\ q \in Promises /\ q.scopes = p.scopes
      /\ q.files = IF sides.write = None THEN in.files ELSE Put(in.files, fd, "write", sides.write)
  BY <1>1, <1>2, SetSideIs
<1>4. q = PromiseBoth(p, fd, sides)
  BY DEF PromiseBoth, in
<1> HIDE DEF q
<1> QED BY <1>1, <1>2, <1>3, <1>4, PutSidesPuts

LEMMA OpenBothIs ==
  ASSUME NEW s \in Shells, NEW fd \in Fds, NEW sides \in Entry
  PROVE  LET t == OpenBoth(s, fd, sides)
         IN  t \in Shells /\ t.table = PutSides(s.table, fd, sides) /\ t.var = s.var
<1> DEFINE in == IF sides.read = None THEN s ELSE OpenInput(s, fd, sides.read)
           t == IF sides.write = None THEN in ELSE OpenOutput(in, fd, sides.write)
<1>1. sides.read \in ReadEnds /\ sides.write \in WriteEnds /\ s.table \in Tables
  BY DEF Entry, Shells, Tables
<1>2. /\ in \in Shells /\ in.var = s.var
      /\ in.table = IF sides.read = None THEN s.table ELSE Put(s.table, fd, "read", sides.read)
  BY <1>1, OpenInputIs
<1> HIDE DEF in
<1>3. /\ t \in Shells /\ t.var = s.var
      /\ t.table = IF sides.write = None THEN in.table ELSE Put(in.table, fd, "write", sides.write)
  <2>1. CASE sides.write = None
    BY <1>2, <2>1
  <2>2. CASE sides.write # None
    <3>1. t = OpenOutput(in, fd, sides.write)
      BY <2>2
    <3> HIDE DEF t
    <3> QED BY <1>1, <1>2, <2>2, <3>1, OpenOutputIs
  <2> QED BY <2>1, <2>2
<1>4. t = OpenBoth(s, fd, sides)
  BY DEF OpenBoth, in
<1> HIDE DEF t
<1> QED BY <1>1, <1>2, <1>3, <1>4, PutSidesPuts

\* What may be written over.
LEMMA NotOverwritten ==
  ASSUME NEW s \in Shells, NEW fd \in Fds
  PROVE  /\ ~Overwrites(s, fd, "read") => s.table[fd].read # CoprocOut
         /\ ~Overwrites(s, fd, "write") => /\ ~IsPsub(s.table[fd].write)
                                           /\ s.table[fd].write # CoprocIn
<1>1. s.table[fd].read \in ReadEnds /\ s.table[fd].write \in WriteEnds
  BY DEF Shells, Entry
<1> QED BY <1>1, ReadEndIs, WriteEndIs DEF Overwrites, IsPsub

\* Files and texts, with the mirror or (3<>f) without it.
LEMMA OpenBothWhole ==
  ASSUME NEW s \in Shells, NEW o, Whole(s, o), NEW fd \in Fds, NEW sides \in Entry,
         ~OverwritesAny(s, fd, sides),
         ~IsPsub(sides.write), sides.write # CoprocIn, sides.read # CoprocOut
  PROVE  /\ Whole(OpenBoth(s, fd, sides), o)
         /\ LET t == [OpenBoth(s, fd, sides) EXCEPT !.mirror[fd] = s.mirror[fd]]
            IN  t \in Shells /\ Whole(t, o) /\ t.table = OpenBoth(s, fd, sides).table
<1> DEFINE in == IF sides.read = None THEN s ELSE OpenInput(s, fd, sides.read)
           b == IF sides.write = None THEN in ELSE OpenOutput(in, fd, sides.write)
           t == [b EXCEPT !.mirror[fd] = s.mirror[fd]]
<1>1. sides.read \in ReadEnds /\ sides.write \in WriteEnds /\ s.table \in Tables
        /\ s.mirror \in [Fds -> Mirrors]
  BY DEF Entry, Shells, Tables
<1>2. /\ sides.read # None => s.table[fd].read # CoprocOut
      /\ sides.write # None => ~IsPsub(s.table[fd].write) /\ s.table[fd].write # CoprocIn
  BY NotOverwritten DEF OverwritesAny
<1>3. /\ in \in Shells /\ Whole(in, o) /\ in.mirror = s.mirror
      /\ in.table[fd].write = s.table[fd].write
  <2>1. CASE sides.read = None
    BY <2>1
  <2>2. CASE sides.read # None
    <3>1. in = OpenInput(s, fd, sides.read)
      BY <2>2
    <3> HIDE DEF in
    <3>2. in \in Shells /\ in.mirror = s.mirror /\ in.table = Put(s.table, fd, "read", sides.read)
      BY <3>1, <1>1, OpenInputIs
    <3>3. in.table[fd].write = s.table[fd].write
      BY <3>2, <1>1, PutRead
    <3>4. Whole(in, o)
      BY <2>2, <3>1, <1>1, <1>2, OpenInputWhole
    <3> QED BY <3>2, <3>3, <3>4
  <2> QED BY <2>1, <2>2
<1> HIDE DEF in
<1>4. b = OpenBoth(s, fd, sides)
  BY DEF OpenBoth, in
<1>5. CASE sides.write = None
  <2>1. b = in
    BY <1>5
  <2>2. t = b
    <3> HIDE DEF b
    <3> QED BY <2>1, <1>1, <1>3 DEF Shells
  <2> QED BY <2>1, <2>2, <1>3, <1>4
<1>6. CASE sides.write # None
  <2> DEFINE end == sides.write
  <2>1. b = OpenOutput(in, fd, end)
    BY <1>6
  <2> HIDE DEF b
  <2>2. /\ b \in Shells /\ b.table = Put(in.table, fd, "write", end)
        /\ b.mirror = [in.mirror EXCEPT ![fd] = Plain]
        /\ b.writer = in.writer /\ b.reader = in.reader /\ b.ran = in.ran
    BY <2>1, <1>1, <1>3, OpenOutputIs
  <2>3. ~IsPsub(end) /\ end # CoprocIn /\ end \in WriteEnds /\ ~IsPsub(in.table[fd].write)
          /\ in.table[fd].write # CoprocIn /\ ~IsPsub(Plain)
    BY <1>1, <1>2, <1>3, <1>6, EndsDiffer
  <2>4. Whole(b, o)
    <3> HIDE DEF end
    <3> QED BY <1>3, <2>2, <2>3, OpenOutputWhole
  <2>5. t = [b EXCEPT !.mirror = in.mirror]
    BY <2>2, <1>1, <1>3 DEF Shells
  <2>6. t \in Shells /\ t.table = b.table /\ t.mirror = in.mirror
          /\ t.writer = b.writer /\ t.reader = b.reader /\ t.ran = b.ran
    BY <2>5, <2>2, <1>3 DEF Shells
  <2> HIDE DEF t
  <2>7. Whole(t, o)
    <3> HIDE DEF end
    <3> QED BY <1>3, <2>2, <2>3, <2>6, OpenOutputWhole
  <2> QED BY <2>4, <2>6, <2>7, <1>4 DEF t
<1> QED BY <1>5, <1>6

\* What a kind of redirection opens.
LEMMA SidesAre ==
  ASSUME DTypes, Len(opened) < MaxOpens, NEW kind \in {"in", "out", "rw", "psub"}
  PROVE  /\ Sides(kind) \in Entry /\ Sides(kind).read # CoprocOut /\ Sides(kind).write # CoprocIn
         /\ kind # "psub" => ~IsPsub(Sides(kind).write)
         /\ kind = "psub" => /\ Sides(kind).read = None
                             /\ Sides(kind).write = <<"psub", Len(opened) + 1>>
                             /\ Sides(kind).write # None
         /\ kind = "in" => Sides(kind).write = None
         /\ Len(opened) + 1 \in 1..MaxOpens
<1>1. Len(opened) \in Nat /\ MaxOpens \in Nat
  BY DescriptorsAssumption DEF DTypes
<1>2. Len(opened) + 1 \in 1..MaxOpens
  BY <1>1
<1> DEFINE n == Len(opened) + 1
<1>3. /\ <<"psub", n>> \in WriteEnds /\ <<"psub", n>> # CoprocIn /\ <<"psub", n>> # None
      /\ <<"file", n>> \in WriteEnds /\ ~IsPsub(<<"file", n>>) /\ <<"file", n>> # CoprocIn
      /\ <<"text", n>> \in ReadEnds /\ <<"text", n>> # CoprocOut
  <2> HIDE DEF n
  <2> QED BY <1>2, PsubIs DEF n
<1>4. None \in ReadEnds /\ None \in WriteEnds /\ None # CoprocIn /\ None # CoprocOut /\ ~IsPsub(None)
  BY EndsDiffer
<1> QED BY <1>2, <1>3, <1>4 DEF Sides, Entry, Text, File, Psub, This

-------------------------------------------------------------------------------
(* The invariant, where the scopes stay as they are.                          *)

LEMMA BecomesIs ==
  ASSUME NEW s, NEW p, NEW causes, Becomes(s, p, causes)
  PROVE  shell' = s /\ promised' = p /\ (departed' = {} => causes = {} /\ ~OnlySaved(shell', promised'))
BY DEF Becomes, If

\* Nothing is only saved: what will be put back is open now.
LEMMA SavedIsOpen ==
  ASSUME DTypes, ~OnlySaved(shell, promised),
         NEW i \in 1..Len(promised.scopes), NEW fd \in DOMAIN promised.scopes[i]
  PROVE  /\ promised.scopes[i][fd] \in Entry /\ DOMAIN promised.scopes[i] \subseteq Fds
         /\ IsPsub(promised.scopes[i][fd].write)
              => Leads(shell.table, "write", promised.scopes[i][fd].write)
         /\ promised.scopes[i][fd].write = CoprocIn => Leads(shell.table, "write", CoprocIn)
         /\ promised.scopes[i][fd].read = CoprocOut => Leads(shell.table, "read", CoprocOut)
<1> DEFINE ps == promised.scopes
<1>1. ps \in Seq(SomeFds(Entry)) /\ i \in DOMAIN ps /\ ps[i] \in SomeFds(Entry)
  BY DEF DTypes, Promises
<1>2. PICK D \in SUBSET Fds : ps[i] \in [D -> Entry]
  BY <1>1 DEF SomeFds
<1>3. ps[i][fd] \in Entry /\ DOMAIN ps[i] \subseteq Fds
  BY <1>2
<1>4. \A side \in {"read", "write"} :
        ps[i][fd][side][1] \in {"psub", "coproc stdin", "coproc stdout"}
          => \E f \in Fds : shell.table[f][side] = ps[i][fd][side]
  BY <1>1 DEF OnlySaved
<1> HIDE DEF ps
<1>5. ps[i][fd].write[1] \in {"psub", "coproc stdin", "coproc stdout"}
        => Leads(shell.table, "write", ps[i][fd].write)
  BY <1>4 DEF Leads
<1>6. ps[i][fd].read[1] \in {"psub", "coproc stdin", "coproc stdout"}
        => Leads(shell.table, "read", ps[i][fd].read)
  BY <1>4 DEF Leads
<1>7. CoprocIn[1] = "coproc stdin" /\ CoprocOut[1] = "coproc stdout"
  BY DEF CoprocIn, CoprocOut
<1> QED BY <1>3, <1>5, <1>6, <1>7 DEF IsPsub, ps

\* Where a process substitution that will be put back is open, it stays.
LEMMA PlacedStays ==
  ASSUME DTypes, Good, NEW T,
         \A f \in Fds : IsPsub(T[f].write) => \/ T[f].write = shell.table[f].write
                                              \/ T[f].write = <<"psub", Len(opened) + 1>>
  PROVE  Placed(T, promised.scopes)
<1> SUFFICES ASSUME NEW i \in 1..Len(promised.scopes), NEW fd \in DOMAIN promised.scopes[i],
                    NEW f \in Fds, IsPsub(promised.scopes[i][fd].write),
                    T[f].write = promised.scopes[i][fd].write
             PROVE  f = fd
  BY DEF Placed
<1> DEFINE e == promised.scopes[i][fd].write
<1>1. e \in WriteEnds /\ IsPsub(e) /\ Leads(shell.table, "write", e)
  BY SavedIsOpen DEF Good, Entry
<1>2. e # <<"psub", Len(opened) + 1>>
  <2>1. PICK n \in 1..MaxOpens : e = <<"psub", n>>
    BY <1>1, WriteEndIs
  <2>2. IsOpened(n, opened)
    BY <1>1, <2>1 DEF Good, Whole, AllOpened
  <2>3. n \in 1..Len(opened) /\ Len(opened) \in Nat
    BY <2>2 DEF IsOpened, DTypes
  <2> QED BY <2>1, <2>3
<1>3. shell.table[f].write = e
  BY <1>1, <1>2
<1> QED BY <1>1, <1>3 DEF Good, Placed

LEMMA KeptOnwards ==
  ASSUME NEW ps, NEW sc, NEW c, NEW d, Kept(ps, sc, c), c = "gone" => d = "gone"
  PROVE  Kept(ps, sc, d)
<1>1. \A sides, entry : Matches(sides, entry, c) => Matches(sides, entry, d)
  BY DEF Matches
<1>2. \A sides, z : /\ KeptCompound(sides, z, c) => KeptCompound(sides, z, d)
                    /\ KeptSubshell(sides, z, c) => KeptSubshell(sides, z, d)
  BY <1>1 DEF KeptCompound, KeptSubshell
<1> QED BY <1>2 DEF Kept

LEMMA SameScopes ==
  ASSUME DInv, departed = {},
         shell' \in Shells, promised' \in Promises,
         promised'.scopes = promised.scopes, scopes' = scopes,
         \/ opened' = opened
         \/ Len(opened) < MaxOpens /\ \E k \in OpenedKinds : opened' = Append(opened, k),
         coproc = "gone" => coproc' = "gone",
         departed' = {} =>
           /\ ~OnlySaved(shell', promised')
           /\ shell'.table = promised'.files /\ Whole(shell', opened')
           /\ \A f \in Fds : IsPsub(shell'.table[f].write)
                => \/ shell'.table[f].write = shell.table[f].write
                   \/ shell'.table[f].write = <<"psub", Len(opened) + 1>>
           /\ coproc' = "gone" =>
                /\ Leads(shell'.table, "write", CoprocIn)
                     => coproc = "gone" /\ Leads(shell.table, "write", CoprocIn)
                /\ Leads(shell'.table, "read", CoprocOut)
                     => coproc = "gone" /\ Leads(shell.table, "read", CoprocOut)
  PROVE  DInv'
<1>1. DTypes /\ Good
  BY DEF DInv
<1>2. opened' \in Seq(OpenedKinds) /\ Len(opened') <= MaxOpens
  <2>1. opened \in Seq(OpenedKinds) /\ Len(opened) <= MaxOpens
    BY <1>1 DEF DTypes, OpenedKinds
  <2>2. ASSUME Len(opened) < MaxOpens, NEW k \in OpenedKinds, opened' = Append(opened, k)
        PROVE  opened' \in Seq(OpenedKinds) /\ Len(opened') <= MaxOpens
    <3>1. opened' \in Seq(OpenedKinds) /\ Len(opened') = Len(opened) + 1 /\ Len(opened) \in Nat
      BY <2>1, <2>2, OneMoreOpened
    <3>2. MaxOpens \in Nat
      BY DescriptorsAssumption
    <3> QED BY <2>2, <3>1, <3>2
  <2> QED BY <2>1, <2>2
<1>3. DTypes'
  BY <1>1, <1>2 DEF DTypes, OpenedKinds
<1>4. ASSUME departed' = {} PROVE Good'
  <2>1. Placed(shell'.table, promised'.scopes)
    BY <1>1, <1>4, PlacedStays
  <2>2. Kept(promised'.scopes, scopes', coproc')
    BY <1>1, KeptOnwards DEF Good
  <2>3. coproc' = "gone" => ~shell'.writer /\ ~shell'.reader
    BY <1>1, <1>4 DEF Good, Whole, PipesHeld
  <2> QED BY <1>4, <2>1, <2>2, <2>3 DEF Good
<1> QED BY <1>3, <1>4 DEF DInv

\* exec 3<f, 3>f, 3<>f, 3> >(cmd).
LEMMA ExecOpenKeeps ==
  ASSUME DInv, departed = {}, NEW kind \in {"in", "out", "rw", "psub"}, NEW fd \in Numbered,
         ExecOpen(kind, fd)
  PROVE  DInv'
<1> DEFINE sides == Sides(kind)
           opens == OpenBoth(shell, fd, sides)
           n == Len(opened) + 1
<1>1. DTypes /\ Good /\ shell \in Shells /\ promised \in Promises /\ fd \in Fds
        /\ opened \in Seq(OpenedKinds) /\ Whole(shell, opened) /\ shell.table = promised.files
  BY DescriptorsAssumption DEF DInv, DTypes, Good, OpenedKinds
<1>2. Len(opened) < MaxOpens /\ opened' = Append(opened, kind) /\ kind \in OpenedKinds
        /\ scopes' = scopes /\ coproc' = coproc
  BY DEF ExecOpen, NewFile, OpenedKinds
<1>3. sides \in Entry /\ sides.read # CoprocOut /\ sides.write # CoprocIn
        /\ (kind # "psub" => ~IsPsub(sides.write))
        /\ (kind = "psub" => sides.read = None /\ sides.write = <<"psub", n>> /\ sides.write # None)
  BY <1>1, <1>2, SidesAre
<1>4. /\ shell' = IF kind = "rw" THEN [opens EXCEPT !.mirror[fd] = shell.mirror[fd]] ELSE opens
      /\ promised' = PromiseBoth(promised, fd, sides)
      /\ departed' = {} => ~OverwritesAny(shell, fd, sides) /\ ~OnlySaved(shell', promised')
  BY BecomesIs DEF ExecOpen, If
<1> HIDE DEF sides
<1>5. opens \in Shells /\ opens.table = PutSides(shell.table, fd, sides)
  BY <1>1, <1>3, OpenBothIs
<1>6. promised' \in Promises /\ promised'.scopes = promised.scopes
        /\ promised'.files = PutSides(promised.files, fd, sides)
  BY <1>1, <1>3, <1>4, PromiseBothIs
<1>7. shell' \in Shells /\ shell'.table = opens.table
  <2>1. shell.mirror[fd] \in Mirrors
    BY <1>1 DEF Shells
  <2> HIDE DEF opens
  <2> QED BY <1>4, <1>5, <2>1 DEF Shells
<1>8. ASSUME departed' = {}
      PROVE  Whole(shell', opened')
  <2>1. CASE kind # "psub"
    <3>1. Whole(shell, Append(opened, kind))
      BY <1>1, <1>2, <2>1, OpenedMore
    <3> QED BY <1>1, <1>2, <1>3, <1>4, <1>8, <2>1, <3>1, OpenBothWhole
  <2>2. CASE kind = "psub"
    <3>1. opens = OpenOutput(shell, fd, <<"psub", n>>)
      BY <1>3, <2>2 DEF OpenBoth
    <3>2. ~IsPsub(shell.table[fd].write) /\ shell.table[fd].write # CoprocIn
      BY <1>1, <1>3, <1>4, <1>8, <2>2, NotOverwritten DEF OverwritesAny
    <3>3. Whole(OpenOutput(shell, fd, <<"psub", Len(opened) + 1>>), Append(opened, "psub"))
      BY <1>1, <1>2, <3>2, OpenPsubWhole
    <3> QED BY <1>2, <1>4, <2>2, <3>1, <3>3
  <2> QED BY <2>1, <2>2
<1>9. \A f \in Fds : /\ shell'.table[f].write \in {shell.table[f].write, sides.write}
                     /\ shell'.table[f].read \in {shell.table[f].read, sides.read}
  <2>1. shell.table \in Tables /\ shell'.table = PutSides(shell.table, fd, sides)
    BY <1>1, <1>5, <1>7 DEF Shells, Tables
  <2> QED BY <1>1, <1>3, <2>1, PutSidesEnds
<1>10. \A f \in Fds : IsPsub(shell'.table[f].write)
         => shell'.table[f].write = shell.table[f].write \/ shell'.table[f].write = <<"psub", n>>
  BY <1>9, <1>3
<1>11. /\ Leads(shell'.table, "write", CoprocIn) => Leads(shell.table, "write", CoprocIn)
       /\ Leads(shell'.table, "read", CoprocOut) => Leads(shell.table, "read", CoprocOut)
  BY <1>9, <1>3 DEF Leads
<1> HIDE DEF opens
<1> QED BY <1>1, <1>2, <1>4, <1>5, <1>6, <1>7, <1>8, <1>10, <1>11, SameScopes

\* The ends of a table after one change.
LEMMA PutEnds ==
  ASSUME NEW T \in Tables, NEW fd \in Fds
  PROVE  /\ \A end \in ReadEnds, f \in Fds :
              /\ Put(T, fd, "read", end)[f].write = T[f].write
              /\ Put(T, fd, "read", end)[f].read \in {T[f].read, end}
         /\ \A end \in WriteEnds, f \in Fds :
              /\ Put(T, fd, "write", end)[f].read = T[f].read
              /\ Put(T, fd, "write", end)[f].write \in {T[f].write, end}
<1>1. ASSUME NEW end \in ReadEnds, NEW f \in Fds
      PROVE  /\ Put(T, fd, "read", end)[f].write = T[f].write
             /\ Put(T, fd, "read", end)[f].read \in {T[f].read, end}
  <2> DEFINE P == Put(T, fd, "read", end)
  <2>1. /\ P[fd].read = end /\ P[fd].write = T[fd].write /\ \A g \in Fds \ {fd} : P[g] = T[g]
    BY PutRead
  <2> HIDE DEF P
  <2>2. P[f].write = T[f].write /\ P[f].read \in {T[f].read, end}
    BY <2>1
  <2> QED BY <2>2 DEF P
<1>2. ASSUME NEW end \in WriteEnds, NEW f \in Fds
      PROVE  /\ Put(T, fd, "write", end)[f].read = T[f].read
             /\ Put(T, fd, "write", end)[f].write \in {T[f].write, end}
  <2> DEFINE P == Put(T, fd, "write", end)
  <2>1. /\ P[fd].write = end /\ P[fd].read = T[fd].read /\ \A g \in Fds \ {fd} : P[g] = T[g]
    BY PutWrite
  <2> HIDE DEF P
  <2>2. P[f].read = T[f].read /\ P[f].write \in {T[f].write, end}
    BY <2>1
  <2> QED BY <2>2 DEF P
<1> QED BY <1>1, <1>2

\* No end appears that was nowhere, and no process substitution moves.
Inherits(U, T) ==
  /\ \A f \in Fds : IsPsub(U[f].write) => U[f].write = T[f].write
  /\ Leads(U, "write", CoprocIn) => Leads(T, "write", CoprocIn)
  /\ Leads(U, "read", CoprocOut) => Leads(T, "read", CoprocOut)

LEMMA InheritsAll ==
  ASSUME NEW T, NEW U, NEW V, Inherits(U, T), Inherits(V, U)
  PROVE  Inherits(V, T)
BY DEF Inherits

LEMMA PutInherits ==
  ASSUME NEW T \in Tables, NEW fd \in Fds
  PROVE  /\ \A end \in ReadEnds : (end = CoprocOut => Leads(T, "read", CoprocOut))
              => Inherits(Put(T, fd, "read", end), T)
         /\ \A end \in WriteEnds : ~IsPsub(end) /\ (end = CoprocIn => Leads(T, "write", CoprocIn))
              => Inherits(Put(T, fd, "write", end), T)
<1>1. ASSUME NEW end \in ReadEnds, end = CoprocOut => Leads(T, "read", CoprocOut)
      PROVE  Inherits(Put(T, fd, "read", end), T)
  <2> DEFINE P == Put(T, fd, "read", end)
  <2>1. \A f \in Fds : P[f].write = T[f].write /\ P[f].read \in {T[f].read, end}
    BY PutEnds
  <2> HIDE DEF P
  <2>2. Inherits(P, T)
    BY <1>1, <2>1 DEF Inherits, Leads
  <2> QED BY <2>2 DEF P
<1>2. ASSUME NEW end \in WriteEnds, ~IsPsub(end), end = CoprocIn => Leads(T, "write", CoprocIn)
      PROVE  Inherits(Put(T, fd, "write", end), T)
  <2> DEFINE P == Put(T, fd, "write", end)
  <2>1. \A f \in Fds : P[f].read = T[f].read /\ P[f].write \in {T[f].write, end}
    BY PutEnds
  <2> HIDE DEF P
  <2>2. Inherits(P, T)
    BY <1>2, <2>1 DEF Inherits, Leads
  <2> QED BY <2>2 DEF P
<1> QED BY <1>1, <1>2

\* Steps that open nothing.
LEMMA NothingOpened ==
  ASSUME DInv, departed = {},
         shell' \in Shells, promised' \in Promises, promised'.scopes = promised.scopes,
         scopes' = scopes, opened' = opened, coproc' = coproc,
         departed' = {} => /\ ~OnlySaved(shell', promised')
                           /\ shell'.table = promised'.files /\ Whole(shell', opened)
                           /\ Inherits(shell'.table, shell.table)
  PROVE  DInv'
<1>1. ASSUME departed' = {}
      PROVE  /\ Whole(shell', opened')
             /\ \A f \in Fds : IsPsub(shell'.table[f].write)
                  => \/ shell'.table[f].write = shell.table[f].write
                     \/ shell'.table[f].write = <<"psub", Len(opened) + 1>>
             /\ coproc' = "gone" =>
                  /\ Leads(shell'.table, "write", CoprocIn)
                       => coproc = "gone" /\ Leads(shell.table, "write", CoprocIn)
                  /\ Leads(shell'.table, "read", CoprocOut)
                       => coproc = "gone" /\ Leads(shell.table, "read", CoprocOut)
  <2>1. Whole(shell', opened) /\ Inherits(shell'.table, shell.table)
    BY <1>1
  <2>2. Whole(shell', opened')
    BY <2>1
  <2> QED BY <2>1, <2>2 DEF Inherits
<1> QED BY <1>1, SameScopes

LEMMA PutIsTable ==
  ASSUME NEW T \in Tables, NEW fd \in Fds
  PROVE  /\ \A end \in ReadEnds : Put(T, fd, "read", end) \in Tables
         /\ \A end \in WriteEnds : Put(T, fd, "write", end) \in Tables
BY PutRead, PutWrite

\* A copy, and what a move leaves, in the promise.
LEMMA CopiedIs ==
  ASSUME NEW p \in Promises, NEW fd \in Fds, NEW source \in Fds, NEW side \in SideNames,
         NEW move \in BOOLEAN
  PROVE  LET q == Copied(p, fd, side, source, move)
             T == Put(p.files, fd, side, p.files[source][side])
         IN  /\ q \in Promises /\ q.scopes = p.scopes
             /\ q.files = IF move THEN Put(T, source, side, None) ELSE T
<1> DEFINE end == p.files[source][side]
           copy == SetSide(p, fd, side, end)
           moved == SetSide(copy, source, side, None)
<1>1. None \in ReadEnds /\ None \in WriteEnds
  BY EndsDiffer
<1>2. CASE side = "read"
  <2>1. end \in ReadEnds
    BY <1>2 DEF Promises, Entry
  <2> HIDE DEF end
  <2>2. copy \in Promises /\ copy.scopes = p.scopes /\ copy.files = Put(p.files, fd, side, end)
    BY <1>2, <2>1, SetSideIs
  <2> HIDE DEF copy
  <2>3. moved \in Promises /\ moved.scopes = p.scopes /\ moved.files = Put(copy.files, source, side, None)
    BY <1>1, <1>2, <2>2, SetSideIs
  <2> QED BY <2>2, <2>3 DEF Copied, copy, end
<1>3. CASE side = "write"
  <2>1. end \in WriteEnds
    BY <1>3 DEF Promises, Entry
  <2> HIDE DEF end
  <2>2. copy \in Promises /\ copy.scopes = p.scopes /\ copy.files = Put(p.files, fd, side, end)
    BY <1>3, <2>1, SetSideIs
  <2> HIDE DEF copy
  <2>3. moved \in Promises /\ moved.scopes = p.scopes /\ moved.files = Put(copy.files, source, side, None)
    BY <1>1, <1>3, <2>2, SetSideIs
  <2> QED BY <2>2, <2>3 DEF Copied, copy, end
<1> QED BY <1>2, <1>3 DEF SideNames

\* A copy, in the shell.
LEMMA CopyWhole ==
  ASSUME NEW s \in Shells, NEW o, Whole(s, o), NEW fd \in Fds, NEW source \in Fds, NEW side \in SideNames,
         side = "write" => ~IsPsub(s.table[source].write) /\ ~BelievesMirror(s, source),
         s.table[fd][side] \in {CoprocIn, CoprocOut} => s.table[fd][side] = s.table[source][side]
  PROVE  LET t == Copy(s, fd, side, source)
         IN  /\ t \in Shells /\ Whole(t, o)
             /\ t.table = Put(s.table, fd, side, s.table[source][side])
             /\ Inherits(t.table, s.table)
<1>1. s.table \in Tables /\ s.table[source].read \in ReadEnds /\ s.table[source].write \in WriteEnds
  BY DEF Shells, Tables, Entry
<1>2. CASE side = "read"
  <2>1. s.table[fd].read = CoprocOut => s.table[source].read = CoprocOut
    BY <1>2
  <2>2. Copy(s, fd, side, source) = CopyInput(s, fd, source)
    BY <1>2 DEF Copy
  <2>3. s.table[source].read = CoprocOut => Leads(s.table, "read", CoprocOut)
    BY DEF Leads
  <2>4. Inherits(Put(s.table, fd, "read", s.table[source].read), s.table)
    BY <1>1, <2>3, PutInherits
  <2> QED BY <1>2, <2>1, <2>2, <2>4, CopyInputWhole
<1>3. CASE side = "write"
  <2>1. s.table[fd].write = CoprocIn => s.table[source].write = CoprocIn
    BY <1>3
  <2>2. Copy(s, fd, side, source) = CopyOutput(s, fd, source)
    BY <1>3 DEF Copy
  <2>3. s.table[source].write = CoprocIn => Leads(s.table, "write", CoprocIn)
    BY DEF Leads
  <2>4. Inherits(Put(s.table, fd, "write", s.table[source].write), s.table)
    BY <1>1, <1>3, <2>3, PutInherits
  <2> QED BY <1>3, <2>1, <2>2, <2>4, CopyOutputWhole, CopyOutputType
<1> QED BY <1>2, <1>3 DEF SideNames

CloseSide(s, fd, side) == IF side = "read" THEN CloseInput(s, fd) ELSE CloseOutput(s, fd)

LEMMA CloseSideWhole ==
  ASSUME NEW s \in Shells, NEW fd \in Fds, NEW side \in SideNames
  PROVE  LET t == CloseSide(s, fd, side)
         IN  /\ t \in Shells /\ t.table = Put(s.table, fd, side, None)
             /\ Inherits(t.table, s.table)
             /\ \A o : Whole(s, o) => Whole(t, o)
<1>1. None \in ReadEnds /\ None \in WriteEnds /\ ~IsPsub(None) /\ None # CoprocIn /\ None # CoprocOut
  BY EndsDiffer
<1>2. s.table \in Tables
  BY DEF Shells, Tables
<1>3. Inherits(Put(s.table, fd, side, None), s.table)
  BY <1>1, <1>2, PutInherits DEF SideNames
<1>4. CASE side = "read"
  BY <1>3, <1>4, CloseInputIs, CloseInputWhole DEF CloseSide
<1>5. CASE side = "write"
  BY <1>3, <1>5, CloseOutputIs, CloseOutputWhole DEF CloseSide
<1> QED BY <1>4, <1>5 DEF SideNames

LEMMA CopyType ==
  ASSUME NEW s \in Shells, NEW fd \in Fds, NEW source \in Fds, NEW side \in SideNames
  PROVE  Copy(s, fd, side, source) \in Shells
BY CopyInputWhole, CopyOutputType DEF Copy

\* exec 3>&4, 3<&4, 3>&4-, 3<&4-.
LEMMA ExecCopyKeeps ==
  ASSUME DInv, departed = {}, NEW fd \in Fds, NEW source \in Fds, NEW side \in SideNames,
         NEW move \in BOOLEAN, ExecCopy(fd, side, source, move)
  PROVE  DInv'
<1> DEFINE copy == Copy(shell, fd, side, source)
           skipped == side = "read" /\ ~Open(shell, source, side)
           closed == CloseSide(copy, source, side)
           T == shell.table
<1>1. DTypes /\ Good /\ shell \in Shells /\ promised \in Promises /\ Whole(shell, opened)
        /\ T = promised.files /\ T \in Tables
  BY DEF DInv, DTypes, Good, Shells, Tables
<1>2. fd # source /\ UNCHANGED <<scopes, coproc, opened>>
  BY DEF ExecCopy
<1>3. CASE skipped
  <2>1. shell' = shell /\ promised' = promised /\ (departed' = {} => ~OnlySaved(shell', promised'))
    BY <1>3, BecomesIs DEF ExecCopy
  <2>2. Inherits(shell'.table, shell.table)
    BY <2>1 DEF Inherits
  <2> QED BY <1>1, <1>2, <2>1, <2>2, NothingOpened
<1>4. CASE ~skipped
  <2>1. /\ shell' = IF move THEN closed ELSE copy
        /\ promised' = Copied(promised, fd, side, source, move)
        /\ departed' = {} =>
             /\ ~OnlySaved(shell', promised')
             /\ ~(T[fd][side] # T[source][side] /\ T[fd][side] \in {CoprocIn, CoprocOut})
             /\ ~(side = "write" /\ BelievesMirror(shell, source))
             /\ ~IsPsub(T[source][side])
    <3> DEFINE causes == If(T[fd][side] # T[source][side] /\ T[fd][side] \in {CoprocIn, CoprocOut},
                            "overwritten")
                          \cup If(side = "write" /\ BelievesMirror(shell, source), "mirror")
                          \cup If(T[source][side][1] = "psub", "psub copied")
    <3>1. Becomes(IF move THEN closed ELSE copy, Copied(promised, fd, side, source, move), causes)
      BY <1>4 DEF ExecCopy, CloseSide
    <3>2. causes = {} => /\ ~(T[fd][side] # T[source][side] /\ T[fd][side] \in {CoprocIn, CoprocOut})
                         /\ ~(side = "write" /\ BelievesMirror(shell, source))
                         /\ ~IsPsub(T[source][side])
      BY DEF If, IsPsub
    <3> HIDE DEF causes, closed, copy
    <3> QED BY <3>1, <3>2, BecomesIs
  <2>2. copy \in Shells
    BY <1>1, CopyType
  <2>3. closed \in Shells /\ closed.table = Put(copy.table, source, side, None)
          /\ Inherits(closed.table, copy.table) /\ \A o : Whole(copy, o) => Whole(closed, o)
    <3> HIDE DEF copy
    <3> QED BY <2>2, CloseSideWhole
  <2>4. /\ promised' \in Promises /\ promised'.scopes = promised.scopes
        /\ promised'.files = IF move THEN Put(Put(T, fd, side, T[source][side]), source, side, None)
                             ELSE Put(T, fd, side, T[source][side])
    BY <1>1, <2>1, CopiedIs
  <2>5. ASSUME departed' = {}
        PROVE  Whole(copy, opened) /\ copy.table = Put(T, fd, side, T[source][side])
                 /\ Inherits(copy.table, T)
    BY <1>1, <1>2, <2>1, <2>5, CopyWhole
  <2> HIDE DEF copy, closed
  <2>6. ASSUME departed' = {}
        PROVE  /\ shell'.table = promised'.files /\ Whole(shell', opened)
               /\ Inherits(shell'.table, shell.table)
    <3>1. CASE move
      <4>1. Inherits(closed.table, T)
        BY <2>3, <2>5, <2>6, InheritsAll
      <4> QED BY <2>1, <2>3, <2>4, <2>5, <2>6, <3>1, <4>1
    <3>2. CASE ~move
      BY <2>1, <2>4, <2>5, <2>6, <3>2
    <3> QED BY <3>1, <3>2
  <2>7. shell' \in Shells
    BY <2>1, <2>2, <2>3
  <2> QED BY <1>1, <1>2, <2>1, <2>4, <2>6, <2>7, NothingOpened
<1> QED BY <1>3, <1>4

\* exec 3>&-, 3<&-.
LEMMA ExecCloseKeeps ==
  ASSUME DInv, departed = {}, NEW fd \in Fds, NEW side \in SideNames, ExecClose(fd, side)
  PROVE  DInv'
<1> DEFINE closed == CloseSide(shell, fd, side)
<1>1. DTypes /\ Good /\ shell \in Shells /\ promised \in Promises /\ Whole(shell, opened)
        /\ shell.table = promised.files
  BY DEF DInv, DTypes, Good
<1>2. UNCHANGED <<scopes, coproc, opened>>
  BY DEF ExecClose
<1>3. /\ shell' = closed \/ shell' = MarkShut(closed, fd)
      /\ promised' = SetSide(promised, fd, side, None)
      /\ departed' = {} => ~OnlySaved(shell', promised')
  <2>1. PICK fails : Becomes(IF fails THEN closed ELSE MarkShut(closed, fd),
                             SetSide(promised, fd, side, None), {})
    BY DEF ExecClose, CloseSide
  <2> HIDE DEF closed
  <2> QED BY <2>1, BecomesIs
<1>4. closed \in Shells /\ closed.table = Put(shell.table, fd, side, None)
        /\ Inherits(closed.table, shell.table) /\ Whole(closed, opened)
  BY <1>1, CloseSideWhole
<1>5. promised' \in Promises /\ promised'.scopes = promised.scopes
        /\ promised'.files = Put(promised.files, fd, side, None)
  BY <1>1, <1>3, SetSideIs, EndsDiffer DEF SideNames
<1> HIDE DEF closed
<1>6. shell' \in Shells /\ shell'.table = closed.table /\ Whole(shell', opened)
  <2>1. closed.shut \cup {fd} \in SUBSET Fds /\ closed.var \in Vars
    BY <1>4 DEF Shells
  <2>2. CASE shell' = closed
    BY <1>4, <2>2
  <2>3. CASE shell' = MarkShut(closed, fd)
    <3>1. shell' = [closed EXCEPT !.shut = closed.shut \cup {fd}]
      BY <1>4, <2>3, MarkShutIs
    <3> QED BY <1>4, <2>1, <3>1, ShutIs
  <2> QED BY <1>3, <2>2, <2>3
<1> QED BY <1>1, <1>2, <1>3, <1>4, <1>5, <1>6, NothingOpened

LEMMA OpenKind ==
  ASSUME DTypes, Whole(shell, opened), Len(opened) < MaxOpens, NEW kind \in {"in", "out", "rw", "psub"},
         NEW fd \in Fds, ~OverwritesAny(shell, fd, Sides(kind))
  PROVE  Whole(OpenBoth(shell, fd, Sides(kind)), Append(opened, kind))
<1> DEFINE sides == Sides(kind)
<1>1. shell \in Shells /\ opened \in Seq(OpenedKinds) /\ kind \in OpenedKinds
  BY DEF DTypes, OpenedKinds
<1>2. sides \in Entry /\ sides.read # CoprocOut /\ sides.write # CoprocIn
        /\ (kind # "psub" => ~IsPsub(sides.write))
        /\ (kind = "psub" => sides.read = None /\ sides.write = <<"psub", Len(opened) + 1>>
                               /\ sides.write # None)
  BY SidesAre
<1> HIDE DEF sides
<1>3. CASE kind # "psub"
  <2>1. Whole(shell, Append(opened, kind))
    BY <1>1, <1>3, OpenedMore
  <2> QED BY <1>1, <1>2, <1>3, <2>1, OpenBothWhole DEF sides
<1>4. CASE kind = "psub"
  <2>1. OpenBoth(shell, fd, sides) = OpenOutput(shell, fd, <<"psub", Len(opened) + 1>>)
    BY <1>2, <1>4 DEF OpenBoth
  <2>2. ~IsPsub(shell.table[fd].write) /\ shell.table[fd].write # CoprocIn
    BY <1>1, <1>2, <1>4, NotOverwritten DEF OverwritesAny, sides
  <2>3. Whole(OpenOutput(shell, fd, <<"psub", Len(opened) + 1>>), Append(opened, "psub"))
    BY <1>1, <2>2, OpenPsubWhole
  <2> QED BY <1>4, <2>1, <2>3 DEF sides
<1> QED BY <1>3, <1>4

LEMMA FreeIsNotOverwritten ==
  ASSUME NEW s \in Shells, NEW fd \in Fds, s.table[fd] = NoFile, NEW sides
  PROVE  ~OverwritesAny(s, fd, sides)
BY DEF OverwritesAny, Overwrites, NoFile, None

LEMMA ClosedAgain ==
  ASSUME NEW T \in Tables, NEW fd \in Fds, T[fd] = NoFile, NEW sides \in Entry
  PROVE  PutNone(PutSides(T, fd, sides), fd) = T
BY DEF PutNone, PutSides, Tables

LEMMA CloseBothType ==
  ASSUME NEW s \in Shells, NEW fd \in Fds, NEW fails \in BOOLEAN
  PROVE  CloseBoth(s, fd, fails) \in Shells
<1> DEFINE a == CloseOutput(s, fd)
           b == CloseInput(a, fd)
<1>1. a \in Shells
  BY CloseOutputIs
<1> HIDE DEF a
<1>2. b \in Shells
  BY <1>1, CloseInputIs
<1>3. CloseBoth(s, fd, fails) = IF fails THEN a ELSE MarkShut(b, fd)
  BY DEF CloseBoth, a
<1> HIDE DEF b
<1> QED BY <1>1, <1>2, <1>3, MarkShutIs

\* {v}>f of exec and of commands.
LEMMA VarOpenKeeps ==
  ASSUME DInv, departed = {}, NEW name \in {"v", "r"}, NEW kind \in {"in", "out", "psub"},
         NEW by, NEW autoClose \in BOOLEAN, VarOpen(name, kind, by, autoClose)
  PROVE  DInv'
<1> DEFINE fd == Allocated(shell)
           sides == Sides(kind)
           opens == OpenBoth(shell, fd, sides)
           named == SetVar(opens, name, fd)
           T == shell.table
           n == Len(opened) + 1
<1>1. DTypes /\ Good /\ shell \in Shells /\ promised \in Promises /\ Whole(shell, opened)
        /\ opened \in Seq(OpenedKinds) /\ T = promised.files /\ T \in Tables
  BY DEF DInv, DTypes, Good, OpenedKinds, Shells, Tables
<1>2. Len(opened) < MaxOpens /\ opened' = Append(opened, IF name = "r" THEN "refused" ELSE kind)
        /\ scopes' = scopes /\ coproc' = coproc
  BY DEF VarOpen, NewFile
<1>3. \E k \in OpenedKinds : opened' = Append(opened, k)
  BY <1>2 DEF OpenedKinds
<1>4. fd \in Fds /\ (Free(shell) # {} => T[fd] = NoFile)
  BY <1>1, AllottedIs
<1>5. sides \in Entry /\ sides.read # CoprocOut /\ sides.write # CoprocIn
        /\ (IsPsub(sides.write) => sides.write = <<"psub", n>>)
  BY <1>1, <1>2, SidesAre
<1>6. opens \in Shells /\ opens.table = PutSides(T, fd, sides)
  <2> HIDE DEF sides, fd
  <2> QED BY <1>1, <1>4, <1>5, OpenBothIs
<1>7. /\ named \in Shells /\ named.table = opens.table
      /\ \A o : Whole(opens, o) => Whole(named, o)
  <2> HIDE DEF opens, fd
  <2>1. name \in Names
    BY DEF Names
  <2>2. [opens.var EXCEPT ![name] = fd] \in Vars /\ opens.shut \in SUBSET Fds
    BY <1>4, <1>6, <2>1 DEF Shells, Vars
  <2>3. named = [opens EXCEPT !.var = [opens.var EXCEPT ![name] = fd]]
    BY <1>4, <1>6, <2>1, SetVarIs
  <2> HIDE DEF named
  <2> QED BY <1>6, <2>2, <2>3, ShutIs
<1>8. CASE name = "r"
  <2>1. CASE by = "exec" /\ kind = "psub"
    <3>1. Becomes(opens, promised, {"readonly"})
      BY <1>8, <2>1 DEF VarOpen
    <3>2. shell' = opens /\ promised' = promised /\ departed' # {}
      BY <3>1, BecomesIs
    <3> HIDE DEF opens
    <3> QED BY <1>1, <1>2, <1>3, <1>6, <3>2, SameScopes
  <2>2. CASE ~(by = "exec" /\ kind = "psub")
    <3>1. Becomes(shell, promised, {})
      BY <1>8, <2>2 DEF VarOpen
    <3>2. shell' = shell /\ promised' = promised /\ (departed' = {} => ~OnlySaved(shell', promised'))
      BY <3>1, BecomesIs
    <3>3. Whole(shell', opened')
      <4>1. "refused" \in OpenedKinds \ {"psub"}
        BY DEF OpenedKinds
      <4> QED BY <1>1, <1>2, <1>8, <3>2, <4>1, OpenedMore
    <3> QED BY <1>1, <1>2, <1>3, <3>2, <3>3, SameScopes
  <2> QED BY <2>1, <2>2
<1>9. CASE name # "r"
  <2>1. opened' = Append(opened, kind)
    BY <1>2, <1>9
  <2>2. CASE autoClose
    <3>1. PICK fails \in Failures(named, fd) :
            Becomes(CloseBoth(named, fd, fails), promised,
                    If(Free(shell) = {}, "full") \cup LeftBehind(named, fd, fails))
      BY <1>9, <2>2 DEF VarOpen
    <3> DEFINE closed == CloseBoth(named, fd, fails)
    <3>2. shell' = closed /\ promised' = promised /\ fails \in BOOLEAN
            /\ (departed' = {} => Free(shell) # {} /\ ~OnlySaved(shell', promised')
                                    /\ (fails => named.table[fd].read = None))
      <4>1. fails \in BOOLEAN
        <5> HIDE DEF named, fd
        <5> QED BY DEF Failures
      <4> HIDE DEF closed, named, fd
      <4> QED BY <3>1, <4>1, BecomesIs DEF If, LeftBehind, Open, closed
    <3>3. closed \in Shells
      <4> HIDE DEF named, fd
      <4> QED BY <1>4, <1>7, <3>2, CloseBothType
    <3>4. ASSUME departed' = {}
          PROVE  Whole(shell', opened') /\ shell'.table = T
      <4>1. T[fd] = NoFile
        BY <1>4, <3>2, <3>4
      <4>2. ~OverwritesAny(shell, fd, sides)
        BY <1>1, <1>4, <4>1, FreeIsNotOverwritten
      <4>3. Whole(opens, opened')
        BY <1>1, <1>2, <1>4, <2>1, <4>2, OpenKind
      <4> HIDE DEF opens, named, fd, sides
      <4>4. Whole(named, opened')
        BY <1>7, <4>3
      <4>5. Whole(closed, opened') /\ closed.table = PutNone(named.table, fd)
        BY <1>4, <1>7, <3>2, <3>4, <4>4, CloseBothWhole
      <4>6. closed.table = T
        BY <1>1, <1>4, <1>5, <1>6, <1>7, <4>1, <4>5, ClosedAgain
      <4> QED BY <3>2, <4>5, <4>6
    <3> HIDE DEF closed
    <3> QED BY <1>1, <1>2, <1>3, <3>2, <3>3, <3>4, SameScopes
  <2>3. CASE ~autoClose
    <3>1. Becomes(named, PromiseBoth(promised, fd, sides), If(Free(shell) = {}, "full"))
      BY <1>9, <2>3 DEF VarOpen
    <3> HIDE DEF opens, named, fd, sides
    <3>2. shell' = named /\ promised' = PromiseBoth(promised, fd, sides)
            /\ (departed' = {} => Free(shell) # {} /\ ~OnlySaved(shell', promised'))
      BY <3>1, BecomesIs DEF If
    <3>3. promised' \in Promises /\ promised'.scopes = promised.scopes
            /\ promised'.files = PutSides(T, fd, sides)
      BY <1>1, <1>4, <1>5, <3>2, PromiseBothIs
    <3>4. ASSUME departed' = {}
          PROVE  Whole(shell', opened')
      <4>1. T[fd] = NoFile
        BY <1>4, <3>2, <3>4 DEF fd
      <4>2. ~OverwritesAny(shell, fd, sides)
        BY <1>1, <1>4, <4>1, FreeIsNotOverwritten
      <4>3. Whole(opens, opened')
        BY <1>1, <1>2, <1>4, <2>1, <4>2, OpenKind DEF opens, sides
      <4> QED BY <1>7, <3>2, <4>3
    <3>5. \A f \in Fds : /\ shell'.table[f].write \in {T[f].write, sides.write}
                         /\ shell'.table[f].read \in {T[f].read, sides.read}
      BY <1>1, <1>4, <1>5, <1>6, <1>7, <3>2, PutSidesEnds
    <3>6. \A f \in Fds : IsPsub(shell'.table[f].write)
            => shell'.table[f].write = T[f].write \/ shell'.table[f].write = <<"psub", n>>
      BY <3>5, <1>5
    <3>7. /\ Leads(shell'.table, "write", CoprocIn) => Leads(T, "write", CoprocIn)
          /\ Leads(shell'.table, "read", CoprocOut) => Leads(T, "read", CoprocOut)
      BY <3>5, <1>5 DEF Leads
    <3> QED BY <1>1, <1>2, <1>3, <1>6, <1>7, <3>2, <3>3, <3>4, <3>6, <3>7, SameScopes
  <2> QED BY <2>2, <2>3
<1> QED BY <1>8, <1>9

LEMMA SetVarWhole ==
  ASSUME NEW s \in Shells, NEW name \in Names, NEW fd \in Fds
  PROVE  LET t == SetVar(s, name, fd)
         IN  t \in Shells /\ t.table = s.table /\ \A o : Whole(s, o) => Whole(t, o)
<1> DEFINE v == [s.var EXCEPT ![name] = fd]
<1>1. v \in Vars /\ s.shut \in SUBSET Fds
  BY DEF Shells, Vars
<1>2. SetVar(s, name, fd) = [s EXCEPT !.var = v]
  BY SetVarIs
<1> HIDE DEF v
<1> DEFINE t == [s EXCEPT !.var = v]
<1>3. t \in Shells /\ t.table = s.table /\ \A o : Whole(s, o) => Whole(t, o)
  BY <1>1, ShutIs
<1>4. SetVar(s, name, fd) = t
  BY <1>2
<1> HIDE DEF t
<1> QED BY <1>3, <1>4

LEMMA PutNoneIs ==
  ASSUME NEW T \in Tables, NEW fd \in Fds
  PROVE  /\ PutNone(T, fd) \in Tables /\ Inherits(PutNone(T, fd), T)
         /\ PutNone(T, fd)[fd] = NoFile /\ \A f \in Fds \ {fd} : PutNone(T, fd)[f] = T[f]
         /\ T[fd].write = None => PutNone(T, fd) = Put(T, fd, "read", None)
         /\ T[fd].read = None => PutNone(T, fd) = Put(T, fd, "write", None)
<1> DEFINE P == PutNone(T, fd)
<1>1. P \in Tables /\ P[fd] = NoFile /\ \A f \in Fds \ {fd} : P[f] = T[f]
  BY EndsDiffer DEF PutNone, Tables
<1>2. T[fd].write = None => P = Put(T, fd, "read", None)
  BY DEF PutNone, Put, Tables, Entry, NoFile
<1>3. T[fd].read = None => P = Put(T, fd, "write", None)
  BY DEF PutNone, Put, Tables, Entry, NoFile
<1> HIDE DEF P
<1>4. Inherits(P, T)
  BY <1>1, EndsDiffer DEF Inherits, Leads
<1> QED BY <1>1, <1>2, <1>3, <1>4 DEF P

\* {v}>&4 and {v}>&4- of exec and of commands.
LEMMA VarCopyKeeps ==
  ASSUME DInv, departed = {}, NEW name \in {"v", "r"}, NEW side \in SideNames, NEW source \in Fds,
         NEW move \in BOOLEAN, NEW by, VarCopy(name, side, source, move, by)
  PROVE  DInv'
<1> DEFINE fd == Allocated(shell)
           copy == Copy(shell, fd, side, source)
           named == SetVar(copy, name, fd)
           closed(fails) == IF by = "exec" THEN CloseBoth(named, source, fails)
                            ELSE CloseSide(named, source, side)
           other == IF side = "read" THEN "write" ELSE "read"
           T == shell.table
           U == Put(T, fd, side, T[source][side])
<1>1. DTypes /\ Good /\ shell \in Shells /\ promised \in Promises /\ Whole(shell, opened)
        /\ T = promised.files /\ T \in Tables
  BY DEF DInv, DTypes, Good, Shells, Tables
<1>2. scopes' = scopes /\ coproc' = coproc /\ opened' = opened
  BY DEF VarCopy
<1>3. fd \in Fds /\ (Free(shell) # {} => T[fd] = NoFile)
  BY <1>1, AllottedIs
<1>4. copy \in Shells
  <2> HIDE DEF fd
  <2> QED BY <1>1, <1>3, CopyType
<1>5. named \in Shells /\ named.table = copy.table /\ \A o : Whole(copy, o) => Whole(named, o)
  <2> HIDE DEF copy, fd
  <2> QED BY <1>3, <1>4, SetVarWhole, ZenonT(60) DEF Names
<1>6. CASE name = "r"
  <2>1. CASE by = "exec"
    <3>1. Becomes(copy, promised, {"readonly"})
      BY <1>6, <2>1 DEF VarCopy
    <3> HIDE DEF copy
    <3>2. shell' = copy /\ promised' = promised /\ departed' # {}
      BY <3>1, BecomesIs
    <3> QED BY <1>1, <1>2, <1>4, <3>2, NothingOpened
  <2>2. CASE by # "exec"
    <3>1. Becomes(shell, promised, {})
      BY <1>6, <2>2 DEF VarCopy
    <3>2. shell' = shell /\ promised' = promised /\ (departed' = {} => ~OnlySaved(shell', promised'))
      BY <3>1, BecomesIs
    <3>3. Inherits(shell'.table, shell.table)
      BY <3>2 DEF Inherits
    <3> QED BY <1>1, <1>2, <3>2, <3>3, NothingOpened
  <2> QED BY <2>1, <2>2
<1>7. CASE name # "r"
  <2> DEFINE causes == If(Free(shell) = {}, "full")
                         \cup If(side = "write" /\ BelievesMirror(shell, source), "mirror")
                         \cup If(T[source][side][1] = "psub", "psub copied")
                         \cup If(move /\ by = "exec" /\ Open(shell, source, other), "half")
  <2>1. PICK fails \in BOOLEAN :
          /\ Becomes(IF move THEN closed(fails) ELSE named, Copied(promised, fd, side, source, move), causes)
          /\ fails => IsPsub(named.mirror[source])
    BY <1>7 DEF VarCopy, CloseSide, Failures, IsPsub
  <2>2. causes = {} => /\ Free(shell) # {} /\ ~IsPsub(T[source][side])
                       /\ ~(side = "write" /\ BelievesMirror(shell, source))
                       /\ ~(move /\ by = "exec" /\ Open(shell, source, other))
    BY DEF If, IsPsub
  <2> DEFINE after == closed(fails)
  <2> HIDE DEF causes, named, copy, fd
  <2>3. after \in Shells
    BY <1>5, CloseBothType, CloseSideWhole
  <2>4. /\ promised' \in Promises /\ promised'.scopes = promised.scopes
        /\ promised'.files = IF move THEN Put(U, source, side, None) ELSE U
    <3>1. promised' = Copied(promised, fd, side, source, move)
      <4> HIDE DEF closed
      <4> QED BY <2>1, BecomesIs
    <3> QED BY <1>1, <1>3, <3>1, CopiedIs
  <2>5. /\ shell' = IF move THEN after ELSE named
        /\ departed' = {} => causes = {} /\ ~OnlySaved(shell', promised')
    <3> HIDE DEF closed
    <3> QED BY <2>1, BecomesIs
  <2>6. ASSUME departed' = {}
        PROVE  /\ shell'.table = promised'.files /\ Whole(shell', opened)
               /\ Inherits(shell'.table, shell.table)
    <3>1. T[fd] = NoFile /\ ~IsPsub(T[source][side])
            /\ (side = "write" => ~BelievesMirror(shell, source))
            /\ ~(move /\ by = "exec" /\ Open(shell, source, other))
      BY <1>3, <2>2, <2>5, <2>6 DEF fd
    <3>4. T[fd][side] = None
      BY <3>1, EndsDiffer DEF SideNames
    <3>5. Whole(copy, opened) /\ copy.table = U /\ Inherits(copy.table, T)
      <4>1. ~(T[fd][side] \in {CoprocIn, CoprocOut})
        BY <3>4, EndsDiffer
      <4> QED BY <1>1, <1>3, <3>1, <4>1, CopyWhole DEF copy
    <3>6. named \in Shells /\ Whole(named, opened) /\ named.table = U /\ Inherits(U, T) /\ U \in Tables
      <4>1. named.table \in Tables
        BY <1>5 DEF Shells, Tables
      <4> QED BY <1>5, <3>5, <4>1
    <3>7. CASE ~move
      <4> HIDE DEF U
      <4> QED BY <2>4, <2>5, <3>6, <3>7
    <3>8. CASE move /\ by # "exec"
      <4>1. after = CloseSide(named, source, side)
        BY <3>8
      <4> HIDE DEF U, after
      <4>2. after.table = Put(U, source, side, None) /\ Inherits(after.table, U) /\ Whole(after, opened)
        BY <3>6, <4>1, CloseSideWhole
      <4>3. Inherits(after.table, T)
        BY <3>6, <4>2, InheritsAll
      <4> QED BY <2>4, <2>5, <3>8, <4>2, <4>3
    <3>9. CASE move /\ by = "exec"
      <4>1. after = CloseBoth(named, source, fails)
        BY <3>9
      <4>2. U[source][other] = None
        <5>1. T[source][other] = None
          BY <3>1, <3>9 DEF Open
        <5>2. CASE side = "read"
          <6>1. T[source].read \in ReadEnds
            BY <1>1 DEF Tables, Entry
          <6> QED BY <1>1, <1>3, <5>1, <5>2, <6>1, PutRead
        <5>3. CASE side = "write"
          <6>1. T[source].write \in WriteEnds
            BY <1>1 DEF Tables, Entry
          <6> QED BY <1>1, <1>3, <5>1, <5>3, <6>1, PutWrite
        <5> QED BY <5>2, <5>3 DEF SideNames
      <4>3. fails => named.table[source].read = None
        <5> SUFFICES ASSUME fails PROVE named.table[source].read = None
          OBVIOUS
        <5>1. IsPsub(named.table[source].write)
          BY <2>1, <3>6 DEF Whole, MirrorTrue
        <5>2. IsPsub(U[source].write)
          BY <3>6, <5>1
        <5>3. other = "read"
          BY <4>2, <5>2, EndsDiffer
        <5> QED BY <3>6, <4>2, <5>3
      <4> HIDE DEF U, after
      <4>4. Whole(after, opened) /\ after.table = PutNone(U, source)
        BY <3>6, <4>1, <4>3, CloseBothWhole
      <4>5. PutNone(U, source) = Put(U, source, side, None)
        BY <3>6, <4>2, PutNoneIs DEF SideNames
      <4>6. Inherits(after.table, T)
        BY <3>6, <4>4, PutNoneIs, InheritsAll
      <4> QED BY <2>4, <2>5, <3>9, <4>4, <4>5, <4>6
    <3> QED BY <3>7, <3>8, <3>9
  <2>7. shell' \in Shells
    BY <1>5, <2>3, <2>5
  <2> HIDE DEF after
  <2> QED BY <1>1, <1>2, <2>4, <2>5, <2>6, <2>7, NothingOpened
<1> QED BY <1>6, <1>7

\* {v}<&- and {v}>&-.
LEMMA VarCloseKeeps ==
  ASSUME DInv, departed = {}, NEW name \in Names, NEW side \in SideNames, NEW by,
         VarClose(name, side, by)
  PROVE  DInv'
<1> DEFINE fd == shell.var[name]
           half == Open(shell, fd, "write")
           T == shell.table
           input == CloseInput(shell, fd)
<1>1. DTypes /\ Good /\ shell \in Shells /\ promised \in Promises /\ Whole(shell, opened)
        /\ T = promised.files /\ T \in Tables
  BY DEF DInv, DTypes, Good, Shells, Tables
<1>2. fd \in Fds /\ scopes' = scopes /\ coproc' = coproc /\ opened' = opened
  BY <1>1 DEF VarClose, Shells, Vars
<1>3. \/ Becomes(IF half THEN input ELSE MarkShut(input, fd), Shut(promised, fd), If(half, "half"))
      \/ \E fails \in Failures(shell, fd) :
           Becomes(CloseBoth(shell, fd, fails), Shut(promised, fd), LeftBehind(shell, fd, fails))
  BY DEF VarClose
<1> HIDE DEF fd
<1>4. input \in Shells /\ input.table = Put(T, fd, "read", None) /\ Whole(input, opened)
  BY <1>1, <1>2, CloseInputIs, CloseInputWhole
<1>5. ASSUME promised' = Shut(promised, fd)
      PROVE  /\ promised' \in Promises /\ promised'.scopes = promised.scopes
             /\ promised'.files = PutNone(T, fd)
  <2>1. promised' = [promised EXCEPT !.files = PutNone(promised.files, fd)]
    BY <1>1, <1>5 DEF Shut, PutNone, Promises
  <2>2. PutNone(promised.files, fd) \in [Fds -> Entry]
    BY <1>1, <1>2, PutNoneIs DEF Tables
  <2> QED BY <1>1, <2>1, <2>2 DEF Promises
<1>6. CASE Becomes(IF half THEN input ELSE MarkShut(input, fd), Shut(promised, fd), If(half, "half"))
  <2> HIDE DEF input, half
  <2>1. /\ shell' = IF half THEN input ELSE MarkShut(input, fd)
        /\ promised' = Shut(promised, fd)
        /\ departed' = {} => ~half /\ ~OnlySaved(shell', promised')
    BY <1>6, BecomesIs DEF If
  <2>2. input.shut \cup {fd} \in SUBSET Fds /\ input.var \in Vars
    BY <1>2, <1>4 DEF Shells
  <2>3. MarkShut(input, fd) = [input EXCEPT !.shut = input.shut \cup {fd}]
    BY <1>2, <1>4, MarkShutIs
  <2>4. MarkShut(input, fd) \in Shells /\ MarkShut(input, fd).table = input.table
          /\ Whole(MarkShut(input, fd), opened)
    BY <1>4, <2>2, <2>3, ShutIs, ZenonT(60)
  <2>5. shell' \in Shells
    BY <1>4, <2>1, <2>4
  <2>6. ASSUME departed' = {}
        PROVE  /\ shell'.table = promised'.files /\ Whole(shell', opened)
               /\ Inherits(shell'.table, shell.table)
    <3>1. shell' = MarkShut(input, fd) /\ T[fd].write = None
      BY <2>1, <2>6 DEF half, Open
    <3>2. shell'.table = PutNone(T, fd)
      BY <1>1, <1>2, <1>4, <2>4, <3>1, PutNoneIs
    <3> QED BY <1>1, <1>2, <1>5, <2>1, <2>4, <3>1, <3>2, PutNoneIs
  <2> QED BY <1>1, <1>2, <1>5, <2>1, <2>5, <2>6, NothingOpened
<1>7. CASE \E fails \in Failures(shell, fd) :
             Becomes(CloseBoth(shell, fd, fails), Shut(promised, fd), LeftBehind(shell, fd, fails))
  <2> HIDE DEF input, half
  <2>1. PICK fails \in BOOLEAN :
          Becomes(CloseBoth(shell, fd, fails), Shut(promised, fd), LeftBehind(shell, fd, fails))
    BY <1>7 DEF Failures
  <2> DEFINE after == CloseBoth(shell, fd, fails)
  <2>2. /\ shell' = after /\ promised' = Shut(promised, fd)
        /\ departed' = {} => ~OnlySaved(shell', promised') /\ (fails => T[fd].read = None)
    <3> HIDE DEF after
    <3> QED BY <2>1, BecomesIs DEF If, LeftBehind, Open, after
  <2>3. after \in Shells
    BY <1>1, <1>2, CloseBothType
  <2>4. ASSUME departed' = {}
        PROVE  /\ shell'.table = promised'.files /\ Whole(shell', opened)
               /\ Inherits(shell'.table, shell.table)
    <3>1. Whole(after, opened) /\ after.table = PutNone(T, fd)
      BY <1>1, <1>2, <2>2, <2>4, CloseBothWhole
    <3> HIDE DEF after
    <3> QED BY <1>1, <1>2, <1>5, <2>2, <3>1, PutNoneIs
  <2> HIDE DEF after
  <2> QED BY <1>1, <1>2, <1>5, <2>2, <2>3, <2>4, NothingOpened
<1> QED BY <1>3, <1>6, <1>7

-------------------------------------------------------------------------------
(* The coprocess *)

\* Two are free, so the coprocess gets two.
LEMMA TwoFree ==
  ASSUME NEW s \in Shells, ~(Cardinality(Free(s)) < 2), NEW t \in Shells,
         t.table = Put(s.table, Allocated(s), "read", CoprocOut)
  PROVE  /\ s.table[Allocated(s)] = NoFile
         /\ Allocated(t) # Allocated(s) /\ t.table[Allocated(t)] = NoFile
<1> DEFINE in == Allocated(s)
<1>1. Free(s) # {}
  BY FS_EmptySet
<1>2. in \in Fds /\ s.table[in] = NoFile /\ in \in Free(s) /\ Dynamic \subseteq Fds
  BY <1>1, AllottedIs
<1> HIDE DEF in
<1>3. s.table \in Tables /\ CoprocOut \in ReadEnds
  BY EndsDiffer DEF Shells, Tables
<1>4. t.table[in].read = CoprocOut /\ \A f \in Fds \ {in} : t.table[f] = s.table[f]
  BY <1>2, <1>3, PutRead DEF in
<1>5. t.table[in] # NoFile
  BY <1>4, EndsDiffer
<1>6. Free(s) # {in}
  <2>1. Cardinality({in}) = 1
    BY FS_Singleton
  <2>2. SUFFICES ASSUME Free(s) = {in} PROVE FALSE
    OBVIOUS
  <2>3. Cardinality(Free(s)) = 1
    BY <2>1, <2>2
  <2> QED BY <2>3
<1>7. PICK f \in Free(s) : f # in
  BY <1>2, <1>6
<1>8. f \in Free(t)
  BY <1>2, <1>4, <1>7 DEF Free
<1>9. t.table[Allocated(t)] = NoFile
  BY <1>8, AllottedIs
<1> QED BY <1>2, <1>5, <1>9 DEF in

LEMMA StartCoprocKeeps ==
  ASSUME DInv, departed = {}, StartCoproc
  PROVE  DInv'
<1> DEFINE T == shell.table
           in == Allocated(shell)
           read == [shell EXCEPT !.table[in].read = CoprocOut]
           out == Allocated(read)
           both == [read EXCEPT !.table[out].write = CoprocIn]
           U == Put(T, in, "read", CoprocOut)
           V == Put(U, out, "write", CoprocIn)
           vs == [[shell.var EXCEPT !["COPROC0"] = in] EXCEPT !["COPROC1"] = out]
           after == [SetVar(SetVar(both, "COPROC0", in), "COPROC1", out)
                       EXCEPT !.writer = TRUE, !.reader = TRUE]
           p == SetSide(SetSide(promised, in, "read", CoprocOut), out, "write", CoprocIn)
<1>1. DTypes /\ Good /\ shell \in Shells /\ promised \in Promises /\ Whole(shell, opened)
        /\ T = promised.files /\ T \in Tables /\ CoprocIn \in WriteEnds /\ CoprocOut \in ReadEnds
  BY EndsDiffer DEF DInv, DTypes, Good, Shells, Tables
<1>2. coproc' = "running" /\ coproc = "none" /\ scopes' = scopes /\ opened' = opened
  BY DEF StartCoproc
<1>3. Becomes(after, p, If(Cardinality(Free(shell)) < 2, "full"))
  BY DEF StartCoproc
<1>4. in \in Fds
  BY <1>1, AllottedIs
<1> HIDE DEF in
<1>5. U \in Tables
  BY <1>1, <1>4, PutRead
<1>6. read = [shell EXCEPT !.table = U]
  BY DEF Put
<1> HIDE DEF U
<1>7. read \in Shells /\ read.table = U
  BY <1>1, <1>5, <1>6 DEF Shells, Tables
<1> HIDE DEF read
<1>8. out \in Fds
  BY <1>7, AllottedIs
<1> HIDE DEF out
<1>9. V \in Tables
  BY <1>1, <1>5, <1>8, PutWrite
<1>10. after = [shell EXCEPT !.table = V, !.var = vs, !.writer = TRUE, !.reader = TRUE]
  <2>1. both = [shell EXCEPT !.table = V]
    BY <1>6, <1>7 DEF Put, Shells
  <2> HIDE DEF both, V
  <2> QED BY <2>1 DEF SetVar, Shells
<1>11. vs \in Vars
  <2>1. shell.var \in Vars
    BY <1>1 DEF Shells
  <2> QED BY <2>1, <1>4, <1>8 DEF Vars, Names
<1> HIDE DEF V, vs, after
<1>12. /\ after \in Shells /\ after.table = V /\ after.mirror = shell.mirror /\ after.ran = shell.ran
       /\ after.writer = TRUE /\ after.reader = TRUE
  BY <1>1, <1>9, <1>10, <1>11 DEF Shells, Tables
<1>13. p \in Promises /\ p.scopes = promised.scopes /\ p.files = V
  <2> DEFINE q == SetSide(promised, in, "read", CoprocOut)
  <2>1. q \in Promises /\ q.scopes = promised.scopes /\ q.files = U
    BY <1>1, <1>4, SetSideIs DEF U
  <2> HIDE DEF q
  <2>2. LET r == SetSide(q, out, "write", CoprocIn)
        IN  r \in Promises /\ r.scopes = q.scopes /\ r.files = Put(q.files, out, "write", CoprocIn)
    BY <1>1, <1>8, <2>1, SetSideIs
  <2> QED BY <2>1, <2>2 DEF V, q
<1> HIDE DEF p
<1>14. /\ shell' = after /\ promised' = p
       /\ departed' = {} => ~(Cardinality(Free(shell)) < 2) /\ ~OnlySaved(shell', promised')
  BY <1>3, BecomesIs DEF If
<1>15. ASSUME departed' = {}
       PROVE  /\ Whole(after, opened)
              /\ \A f \in Fds : IsPsub(V[f].write) => V[f].write = T[f].write
  <2>1. T[in] = NoFile /\ out # in /\ U[out] = NoFile
    BY <1>1, <1>7, <1>14, <1>15, TwoFree DEF in, out, U
  <2>2. /\ U[in].read = CoprocOut /\ U[in].write = T[in].write
        /\ \A f \in Fds \ {in} : U[f] = T[f]
    BY <1>1, <1>4, PutRead DEF U
  <2>3. /\ V[out].write = CoprocIn /\ V[out].read = U[out].read
        /\ \A f \in Fds \ {out} : V[f] = U[f]
    BY <1>1, <1>5, <1>8, PutWrite DEF V
  <2>4. V[in] = U[in] /\ T[out].write = None /\ V[in].read = CoprocOut
    BY <1>4, <1>8, <2>1, <2>2, <2>3, EndsDiffer
  <2>5. \A f \in Fds : f # out => V[f].write = T[f].write
    BY <1>4, <2>2, <2>3
  <2>6. ~IsPsub(V[out].write) /\ ~IsPsub(T[out].write)
    BY <2>3, <2>4, EndsDiffer
  <2>7. MirrorTrue(after)
    <3>1. MirrorTrue(shell)
      BY <1>1 DEF Whole
    <3>2. ~IsPsub(shell.mirror[out])
      BY <1>8, <2>6, <3>1 DEF MirrorTrue
    <3> QED BY <1>12, <2>5, <2>6, <3>1, <3>2 DEF MirrorTrue
  <2>8. OnePlace(V)
    BY <1>1, <2>5, <2>6 DEF Whole, OnePlace
  <2>9. \A n \in 1..MaxOpens : Leads(V, "write", <<"psub", n>>) <=> Leads(T, "write", <<"psub", n>>)
    <3> TAKE n \in 1..MaxOpens
    <3>1. \A f \in Fds : V[f].write = <<"psub", n>> <=> T[f].write = <<"psub", n>>
      BY <2>5, <2>6, PsubIs
    <3> QED BY <3>1 DEF Leads
  <2>10. AllOpened(V, opened) /\ RanOnce(after, opened)
    BY <1>1, <1>12, <2>9 DEF Whole, AllOpened, RanOnce
  <2>11. PipesHeld(after)
    BY <1>4, <1>8, <1>12, <2>3, <2>4 DEF PipesHeld, Leads
  <2> QED BY <1>12, <2>5, <2>6, <2>7, <2>8, <2>10, <2>11 DEF Whole
<1> QED BY <1>1, <1>2, <1>12, <1>13, <1>14, <1>15, SameScopes

LEMMA CoprocEndsKeeps ==
  ASSUME DInv, departed = {}, CoprocEnds
  PROVE  DInv'
<1>1. DTypes /\ Good /\ UNCHANGED <<shell, scopes, opened, promised, departed>>
        /\ coproc = "running" /\ coproc' = "ended"
  BY DEF DInv, CoprocEnds
<1>2. ~OnlySaved(shell', promised') /\ shell'.table = promised'.files /\ Whole(shell', opened')
  BY <1>1 DEF Good
<1>3. shell' \in Shells /\ promised' \in Promises
  BY <1>1 DEF DTypes
<1> QED BY <1>1, <1>2, <1>3, SameScopes

LEMMA ReadToEndKeeps ==
  ASSUME DInv, departed = {}, NEW fd \in Fds, ReadToEnd(fd)
  PROVE  DInv'
<1> DEFINE T == shell.table
           P == Put(T, fd, "read", None)
           after == [[shell EXCEPT !.table[fd].read = None] EXCEPT !.reader = FALSE]
           p == SetSide(promised, fd, "read", None)
<1>1. DTypes /\ Good /\ shell \in Shells /\ promised \in Promises /\ Whole(shell, opened)
        /\ T = promised.files /\ T \in Tables /\ None \in ReadEnds
  BY EndsDiffer DEF DInv, DTypes, Good, Shells, Tables
<1>2. coproc = "ended" /\ T[fd].read = CoprocOut /\ UNCHANGED <<scopes, coproc, opened>>
  BY DEF ReadToEnd
<1>3. Becomes(after, p, If(\E f \in Fds \ {fd} : T[f].read = CoprocOut, "alias"))
  BY DEF ReadToEnd
<1>4. after = [shell EXCEPT !.table = P, !.reader = FALSE]
  BY DEF Put
<1>5. P \in Tables /\ P[fd].read = None /\ P[fd].write = T[fd].write
        /\ \A f \in Fds \ {fd} : P[f] = T[f]
  BY <1>1, PutRead
<1>6. Inherits(P, T)
  BY <1>1, PutInherits, EndsDiffer
<1>7. p \in Promises /\ p.scopes = promised.scopes /\ p.files = P
  BY <1>1, SetSideIs
<1> HIDE DEF after, P, p
<1>8. after \in Shells /\ after.table = P /\ after.mirror = shell.mirror /\ after.ran = shell.ran
        /\ after.writer = shell.writer /\ after.reader = FALSE
  BY <1>1, <1>4, <1>5 DEF Shells, Tables
<1>9. /\ shell' = after /\ promised' = p
      /\ departed' = {} => ~(\E f \in Fds \ {fd} : T[f].read = CoprocOut) /\ ~OnlySaved(shell', promised')
  BY <1>3, BecomesIs DEF If
<1>10. ASSUME departed' = {} PROVE Whole(after, opened)
  <2>1. ~Leads(P, "read", CoprocOut)
    BY <1>5, <1>9, <1>10, EndsDiffer DEF Leads
  <2>2. \A f \in Fds : P[f].write = T[f].write
    BY <1>5
  <2> QED BY <1>1, <1>8, <2>1, <2>2, ReadsChange
<1> QED BY <1>1, <1>2, <1>6, <1>7, <1>8, <1>9, <1>10, NothingOpened

\* The pipe is taken through another descriptor: a departure.
LEMMA ReadToEndThrough0Keeps ==
  ASSUME DInv, departed = {}, ReadToEndThrough0
  PROVE  DInv'
<1> DEFINE after == [shell EXCEPT !.reader = FALSE]
<1>1. DTypes /\ shell \in Shells /\ promised \in Promises
  BY DEF DInv, DTypes
<1>2. after \in Shells
  BY <1>1 DEF Shells
<1>3. Becomes(after, promised, {"through 0"}) /\ UNCHANGED <<scopes, coproc, opened>>
  BY DEF ReadToEndThrough0
<1> HIDE DEF after
<1>4. shell' = after /\ promised' = promised /\ departed' # {}
  BY <1>3, BecomesIs
<1> QED BY <1>1, <1>2, <1>3, <1>4, NothingOpened

LEMMA ForgetCoprocKeeps ==
  ASSUME DInv, departed = {}, ForgetCoproc
  PROVE  DInv'
<1> DEFINE after == [shell EXCEPT !.writer = FALSE, !.reader = FALSE]
<1>1. DTypes /\ Good /\ shell \in Shells /\ promised \in Promises /\ Whole(shell, opened)
        /\ shell.table = promised.files
  BY DEF DInv, DTypes, Good
<1>2. coproc' = "gone" /\ coproc = "ended" /\ UNCHANGED <<scopes, opened>>
  BY DEF ForgetCoproc
<1>3. Becomes(after, promised, If(\E fd \in Fds : HasCoprocEnd(fd), "forgotten"))
  BY DEF ForgetCoproc
<1>4. after \in Shells /\ after.table = shell.table /\ after.mirror = shell.mirror
        /\ after.ran = shell.ran /\ after.writer = FALSE /\ after.reader = FALSE
  BY <1>1 DEF Shells
<1> HIDE DEF after
<1>5. /\ shell' = after /\ promised' = promised
      /\ departed' = {} => ~(\E fd \in Fds : HasCoprocEnd(fd)) /\ ~OnlySaved(shell', promised')
  BY <1>3, BecomesIs DEF If
<1>6. ASSUME departed' = {}
      PROVE  /\ Whole(after, opened) /\ ~Leads(shell.table, "write", CoprocIn)
             /\ ~Leads(shell.table, "read", CoprocOut)
  <2>1. ~Leads(shell.table, "write", CoprocIn) /\ ~Leads(shell.table, "read", CoprocOut)
    BY <1>5, <1>6 DEF HasCoprocEnd, Leads
  <2>2. Whole(after, opened)
    BY <1>1, <1>4, <2>1 DEF Whole, MirrorTrue, RanOnce, PipesHeld
  <2> QED BY <2>1, <2>2
<1> QED BY <1>1, <1>2, <1>4, <1>5, <1>6, SameScopes

\* An entry, a promise, without the ends of the coprocess.
Without(entry) ==
  [side \in {"read", "write"} |-> IF entry[side] \in {CoprocIn, CoprocOut} THEN None ELSE entry[side]]

LEMMA WithoutIs ==
  ASSUME NEW e \in Entry
  PROVE  /\ Without(e) \in Entry
         /\ Without(e).read = (IF e.read = CoprocOut THEN None ELSE e.read)
         /\ Without(e).write = (IF e.write = CoprocIn THEN None ELSE e.write)
<1> DEFINE r == IF e.read = CoprocOut THEN None ELSE e.read
           w == IF e.write = CoprocIn THEN None ELSE e.write
<1>1. e.read \in ReadEnds /\ e.write \in WriteEnds
  BY DEF Entry
<1>2. e.read # CoprocIn /\ e.write # CoprocOut
  BY <1>1, ReadEndIs, WriteEndIs
<1>3. r \in ReadEnds /\ w \in WriteEnds
  BY <1>1, EndsDiffer
<1>4. Without(e)["read"] = r /\ Without(e)["write"] = w
  BY <1>2 DEF Without
<1> HIDE DEF r, w
<1>5. Without(e) = [read |-> r, write |-> w]
  BY <1>4 DEF Without
<1>6. Without(e) \in Entry
  BY <1>3, <1>5 DEF Entry
<1> QED BY <1>4, <1>6 DEF r, w

LEMMA GoneIs ==
  ASSUME NEW p \in Promises
  PROVE  LET q == Gone(p, {CoprocIn, CoprocOut})
         IN  /\ q \in Promises /\ Len(q.scopes) = Len(p.scopes)
             /\ \A fd \in Fds : q.files[fd] = Without(p.files[fd])
             /\ \A i \in 1..Len(p.scopes) :
                  /\ DOMAIN q.scopes[i] = DOMAIN p.scopes[i]
                  /\ \A fd \in DOMAIN p.scopes[i] : /\ q.scopes[i][fd] = Without(p.scopes[i][fd])
                                                    /\ p.scopes[i][fd] \in Entry
<1> DEFINE q == Gone(p, {CoprocIn, CoprocOut})
           ps == p.scopes
           qs == [i \in DOMAIN ps |-> [fd \in DOMAIN ps[i] |-> Without(ps[i][fd])]]
           qf == [fd \in DOMAIN p.files |-> Without(p.files[fd])]
<1>1. q = [files |-> qf, scopes |-> qs]
  BY DEF Gone, Without
<1>2. ps \in Seq(SomeFds(Entry)) /\ p.files \in [Fds -> Entry]
  BY DEF Promises
<1>3. qf \in [Fds -> Entry]
  BY <1>2, WithoutIs
<1>4. ASSUME NEW i \in 1..Len(ps)
      PROVE  /\ qs[i] \in SomeFds(Entry) /\ DOMAIN qs[i] = DOMAIN ps[i]
             /\ \A fd \in DOMAIN ps[i] : qs[i][fd] = Without(ps[i][fd]) /\ ps[i][fd] \in Entry
  <2>6. ps[i] \in SomeFds(Entry)
    <3> HIDE DEF ps
    <3> QED BY <1>2
  <2>1. PICK D \in SUBSET Fds : ps[i] \in [D -> Entry]
    <3> HIDE DEF ps
    <3> QED BY <2>6 DEF SomeFds
  <2> DEFINE z == [fd \in D |-> Without(ps[i][fd])]
  <2>2. qs[i] = z
    BY <1>2, <2>1
  <2>3. z \in [D -> Entry]
    BY <2>1, WithoutIs
  <2>4. DOMAIN z = D /\ \A fd \in D : z[fd] = Without(ps[i][fd]) /\ ps[i][fd] \in Entry
    BY <2>1
  <2>5. DOMAIN ps[i] = D
    BY <2>1
  <2> HIDE DEF z, qs, ps
  <2> QED BY <2>2, <2>3, <2>4, <2>5 DEF SomeFds
<1>5. qs \in Seq(SomeFds(Entry)) /\ Len(qs) = Len(ps)
  <2>1. DOMAIN qs = 1..Len(ps) /\ Len(ps) \in Nat
    BY <1>2
  <2> HIDE DEF qs, ps
  <2>2. qs \in [1..Len(ps) -> SomeFds(Entry)]
    <3>1. qs = [i \in 1..Len(ps) |-> qs[i]]
      BY <2>1 DEF qs
    <3> QED BY <3>1, <1>4
  <2> QED BY <2>1, <2>2
<1> HIDE DEF qs, qf, q
<1>6. q \in Promises /\ q.files = qf /\ q.scopes = qs
  BY <1>1, <1>3, <1>5 DEF Promises
<1>7. \A fd \in Fds : qf[fd] = Without(p.files[fd])
  BY <1>2 DEF qf
<1> QED BY <1>4, <1>5, <1>6, <1>7 DEF q

\* What will be put back without the ends of the coprocess still is what is promised.
LEMMA KeptWithout ==
  ASSUME NEW ps, NEW qs, NEW sc, NEW c, Kept(ps, sc, c), Len(qs) = Len(ps),
         \A i \in 1..Len(ps) :
            /\ DOMAIN qs[i] = DOMAIN ps[i]
            /\ \A fd \in DOMAIN ps[i] : qs[i][fd] = Without(ps[i][fd]) /\ ps[i][fd] \in Entry
  PROVE  Kept(qs, sc, "gone")
<1>1. Without(NoFile) = NoFile
  <2>1. Without(NoFile) \in Entry /\ Without(NoFile).read = None /\ Without(NoFile).write = None
    BY WithoutIs, EndsDiffer
  <2> QED BY <2>1 DEF Entry, NoFile
<1>2. ASSUME NEW e \in Entry, NEW entry, Matches(e, entry, c) PROVE Matches(Without(e), entry, "gone")
  <2>1. e.read # CoprocIn /\ e.write # CoprocOut
    BY ReadEndIs, WriteEndIs DEF Entry
  <2>2. /\ Without(e).read = (IF e.read = CoprocOut THEN None ELSE e.read)
        /\ Without(e).write = (IF e.write = CoprocIn THEN None ELSE e.write)
    BY WithoutIs
  <2>3. \A side \in {"read", "write"} :
          \/ e[side] = entry[side]
          \/ entry[side] \in {CoprocIn, CoprocOut} /\ e[side] = None
    BY <1>2 DEF Matches
  <2>4. \/ e.read = entry.read
        \/ entry.read \in {CoprocIn, CoprocOut} /\ e.read = None
    BY <2>3
  <2>5. \/ e.write = entry.write
        \/ entry.write \in {CoprocIn, CoprocOut} /\ e.write = None
    BY <2>3
  <2>6. \/ Without(e).read = entry.read
        \/ entry.read \in {CoprocIn, CoprocOut} /\ Without(e).read = None
    BY <2>2, <2>4, EndsDiffer
  <2>7. \/ Without(e).write = entry.write
        \/ entry.write \in {CoprocIn, CoprocOut} /\ Without(e).write = None
    BY <2>2, <2>5, EndsDiffer
  <2> QED BY <2>6, <2>7 DEF Matches
<1>3. ASSUME NEW i \in 1..Len(ps), NEW z
      PROVE  /\ KeptCompound(ps[i], z, c) => KeptCompound(qs[i], z, "gone")
             /\ KeptSubshell(ps[i], z, c) => KeptSubshell(qs[i], z, "gone")
  <2> DEFINE P == ps[i]
             Q == qs[i]
  <2>1. DOMAIN Q = DOMAIN P /\ \A fd \in DOMAIN P : Q[fd] = Without(P[fd]) /\ P[fd] \in Entry
    OBVIOUS
  <2> HIDE DEF P, Q
  <2>2. KeptCompound(P, z, c) => KeptCompound(Q, z, "gone")
    BY <1>1, <1>2, <2>1 DEF KeptCompound
  <2>3. KeptSubshell(P, z, c) => KeptSubshell(Q, z, "gone")
    BY <1>2, <2>1 DEF KeptSubshell
  <2> QED BY <2>2, <2>3 DEF P, Q
<1> QED BY <1>3 DEF Kept

LEMMA RetireCoprocKeeps ==
  ASSUME DInv, departed = {}, RetireCoproc
  PROVE  DInv'
<1> DEFINE T == shell.table
           ends == {fd \in Fds : HasCoprocEnd(fd)}
           other(fd) == T[fd].read \notin {None, CoprocOut} \/ T[fd].write \notin {None, CoprocIn}
           U == [fd \in Fds |-> IF fd \in ends THEN NoFile ELSE T[fd]]
           m == [fd \in Fds |-> IF fd \in ends THEN None ELSE shell.mirror[fd]]
           vs == [name \in Names |-> IF name \in {"COPROC0", "COPROC1"} THEN Unset ELSE shell.var[name]]
           after == [shell EXCEPT !.writer = FALSE, !.reader = FALSE, !.table = U, !.mirror = m,
                                  !.shut = shell.shut \cup ends, !.var = vs]
           p == Gone(promised, {CoprocIn, CoprocOut})
<1>1. DTypes /\ Good /\ shell \in Shells /\ promised \in Promises /\ Whole(shell, opened)
        /\ T = promised.files /\ T \in Tables /\ NoFile \in Entry /\ None \in Mirrors
  BY EndsDiffer DEF DInv, DTypes, Good, Shells, Tables
<1>2. coproc' = "gone" /\ scopes' = scopes /\ opened' = opened
  BY DEF RetireCoproc
<1>3. Becomes(after, p, If(\E fd \in ends : other(fd), "half"))
  BY DEF RetireCoproc
<1>4. U \in Tables /\ m \in [Fds -> Mirrors] /\ vs \in Vars /\ shell.shut \cup ends \in SUBSET Fds
  BY <1>1 DEF Tables, Shells, Vars
<1>5. /\ \A fd \in ends : U[fd] = NoFile /\ m[fd] = None
      /\ \A fd \in Fds \ ends : U[fd] = T[fd] /\ m[fd] = shell.mirror[fd]
  OBVIOUS
<1>6. \A fd \in Fds : fd \in ends <=> T[fd].write = CoprocIn \/ T[fd].read = CoprocOut
  BY DEF HasCoprocEnd
<1> HIDE DEF U, m, vs, ends
<1>7. /\ after \in Shells /\ after.table = U /\ after.mirror = m /\ after.ran = shell.ran
      /\ after.writer = FALSE /\ after.reader = FALSE
  BY <1>1, <1>4 DEF Shells, Tables
<1> HIDE DEF after
<1>8. /\ p \in Promises /\ Len(p.scopes) = Len(promised.scopes)
      /\ \A fd \in Fds : p.files[fd] = Without(T[fd])
      /\ \A i \in 1..Len(promised.scopes) :
           /\ DOMAIN p.scopes[i] = DOMAIN promised.scopes[i]
           /\ \A fd \in DOMAIN promised.scopes[i] :
                /\ p.scopes[i][fd] = Without(promised.scopes[i][fd])
                /\ promised.scopes[i][fd] \in Entry
  BY <1>1, GoneIs, ZenonT(60)
<1> HIDE DEF p
<1>9. /\ shell' = after /\ promised' = p
      /\ departed' = {} => ~(\E fd \in ends : other(fd)) /\ ~OnlySaved(shell', promised')
  BY <1>3, BecomesIs DEF If
<1>10. DTypes'
  BY <1>1, <1>2, <1>7, <1>8, <1>9 DEF DTypes
<1>11. ASSUME departed' = {} PROVE Good'
  <2>1. \A fd \in ends : T[fd].read \in {None, CoprocOut} /\ T[fd].write \in {None, CoprocIn}
    BY <1>9, <1>11
  <2>2. U = p.files
    <3>1. ASSUME NEW fd \in Fds PROVE U[fd] = p.files[fd]
      <4>1. T[fd] \in Entry /\ U[fd] \in Entry
        BY <1>1, <1>4 DEF Tables
      <4>2. /\ Without(T[fd]) \in Entry
            /\ Without(T[fd]).read = (IF T[fd].read = CoprocOut THEN None ELSE T[fd].read)
            /\ Without(T[fd]).write = (IF T[fd].write = CoprocIn THEN None ELSE T[fd].write)
        BY <4>1, WithoutIs
      <4>3. U[fd].read = Without(T[fd]).read /\ U[fd].write = Without(T[fd]).write
        BY <1>5, <1>6, <2>1, <4>2, EndsDiffer
      <4>4. U[fd] = Without(T[fd])
        BY <4>1, <4>2, <4>3 DEF Entry
      <4> QED BY <1>8, <4>4
    <3>2. p.files \in [Fds -> Entry]
      BY <1>8 DEF Promises
    <3> QED BY <1>4, <3>1, <3>2 DEF Tables
  <2>3. \A f \in Fds : IsPsub(T[f].write) <=> IsPsub(U[f].write)
    BY <1>5, <2>1, EndsDiffer
  <2>4. \A f \in Fds : IsPsub(U[f].write) => U[f] = T[f] /\ m[f] = shell.mirror[f] /\ f \notin ends
    BY <1>5, EndsDiffer
  <2>5. MirrorTrue(after)
    BY <1>1, <1>5, <1>7, EndsDiffer DEF Whole, MirrorTrue
  <2>6. OnePlace(U)
    BY <1>1, <2>4 DEF Whole, OnePlace
  <2>7. \A n \in 1..MaxOpens : Leads(U, "write", <<"psub", n>>) <=> Leads(T, "write", <<"psub", n>>)
    <3> TAKE n \in 1..MaxOpens
    <3>1. \A f \in Fds : U[f].write = <<"psub", n>> <=> T[f].write = <<"psub", n>>
      BY <2>3, <2>4, PsubIs
    <3> QED BY <3>1 DEF Leads
  <2>8. AllOpened(U, opened) /\ RanOnce(after, opened)
    BY <1>1, <1>7, <2>7 DEF Whole, AllOpened, RanOnce
  <2>9. PipesHeld(after)
    BY <1>5, <1>6, <1>7, EndsDiffer DEF PipesHeld, Leads
  <2>10. Whole(after, opened)
    BY <1>7, <2>5, <2>6, <2>8, <2>9 DEF Whole
  <2>11. Kept(p.scopes, scopes, "gone")
    <3>1. Kept(promised.scopes, scopes, coproc)
      BY <1>1 DEF Good
    <3> QED BY <1>8, <3>1, KeptWithout
  <2>12. Placed(U, p.scopes)
    <3> SUFFICES ASSUME NEW i \in 1..Len(p.scopes), NEW fd \in DOMAIN p.scopes[i], NEW f \in Fds,
                        IsPsub(p.scopes[i][fd].write), U[f].write = p.scopes[i][fd].write
                 PROVE  f = fd
      BY DEF Placed
    <3> DEFINE e == promised.scopes[i][fd]
    <3>1. i \in 1..Len(promised.scopes) /\ fd \in DOMAIN promised.scopes[i]
            /\ p.scopes[i][fd] = Without(e) /\ e \in Entry
      BY <1>8
    <3> HIDE DEF e
    <3>2. Without(e).write = e.write
      BY <3>1, WithoutIs, EndsDiffer
    <3>3. IsPsub(e.write) /\ T[f].write = e.write
      BY <2>4, <3>1, <3>2
    <3> QED BY <1>1, <3>1, <3>3 DEF Good, Placed, e
  <2> QED BY <1>2, <1>7, <1>9, <1>11, <2>2, <2>10, <2>11, <2>12 DEF Good
<1> QED BY <1>10, <1>11 DEF DInv

-------------------------------------------------------------------------------
(* Scopes: what is put back when a compound command or a subshell ends.       *)

LEMMA PushedIs ==
  ASSUME NEW S, NEW x \in S, NEW q \in Seq(S)
  PROVE  LET r == <<x>> \o q
         IN  /\ r \in Seq(S) /\ Len(r) = Len(q) + 1 /\ r[1] = x /\ Len(q) \in Nat
             /\ \A i \in 1..Len(r) : i = 1 \/ (i - 1 \in 1..Len(q) /\ r[i] = q[i - 1])
<1> DEFINE r == <<x>> \o q
<1>1. r \in Seq(S) /\ Len(r) = Len(q) + 1 /\ Len(q) \in Nat
  OBVIOUS
<1>2. r[1] = x
  OBVIOUS
<1>3. \A i \in 1..Len(r) : i # 1 => i - 1 \in 1..Len(q) /\ r[i] = q[i - 1]
  BY <1>1
<1> QED BY <1>1, <1>2, <1>3

LEMMA PoppedIs ==
  ASSUME NEW S, NEW q \in Seq(S), q # << >>
  PROVE  /\ Tail(q) \in Seq(S) /\ Len(Tail(q)) = Len(q) - 1 /\ q[1] \in S /\ 1 \in 1..Len(q)
         /\ Len(q) \in Nat
         /\ \A i \in 1..Len(Tail(q)) : i + 1 \in 1..Len(q) /\ Tail(q)[i] = q[i + 1]
<1>1. Len(q) \in Nat /\ Len(q) >= 1
  OBVIOUS
<1>2. Tail(q) \in Seq(S) /\ Len(Tail(q)) = Len(q) - 1 /\ q[1] \in S
  BY <1>1
<1>3. \A i \in 1..Len(Tail(q)) : Tail(q)[i] = q[i + 1]
  BY <1>1, <1>2
<1> QED BY <1>1, <1>2, <1>3

LEMMA KeptPushed ==
  ASSUME NEW S, NEW ps \in Seq(S), NEW x \in S, NEW Z, NEW sc \in Seq(Z), NEW z \in Z, NEW c,
         Kept(ps, sc, c),
         z.kind = "compound" => KeptCompound(x, z, c), z.kind = "subshell" => KeptSubshell(x, z, c)
  PROVE  Kept(<<x>> \o ps, <<z>> \o sc, c)
<1> DEFINE P == <<x>> \o ps
           Q == <<z>> \o sc
<1>1. /\ Len(P) = Len(ps) + 1 /\ P[1] = x
      /\ \A i \in 1..Len(P) : i = 1 \/ (i - 1 \in 1..Len(ps) /\ P[i] = ps[i - 1])
  BY PushedIs
<1>2. /\ Len(Q) = Len(sc) + 1 /\ Q[1] = z
      /\ \A i \in 1..Len(Q) : i = 1 \/ (i - 1 \in 1..Len(sc) /\ Q[i] = sc[i - 1])
  BY PushedIs
<1> HIDE DEF P, Q
<1>3. Len(P) = Len(Q) /\ Len(ps) = Len(sc)
  BY <1>1, <1>2 DEF Kept
<1>4. ASSUME NEW i \in 1..Len(Q)
      PROVE  /\ Q[i].kind = "compound" => KeptCompound(P[i], Q[i], c)
             /\ Q[i].kind = "subshell" => KeptSubshell(P[i], Q[i], c)
  <2>1. CASE i = 1
    BY <1>1, <1>2, <2>1
  <2>2. CASE i # 1
    <3>1. i - 1 \in 1..Len(sc) /\ P[i] = ps[i - 1] /\ Q[i] = sc[i - 1]
      BY <1>1, <1>2, <1>3, <2>2
    <3> QED BY <3>1 DEF Kept
  <2> QED BY <2>1, <2>2
<1> QED BY <1>3, <1>4 DEF Kept, P, Q

LEMMA KeptPopped ==
  ASSUME NEW S, NEW ps \in Seq(S), NEW Z, NEW sc \in Seq(Z), NEW c, Kept(ps, sc, c), sc # << >>
  PROVE  /\ Kept(Tail(ps), Tail(sc), c) /\ ps # << >>
         /\ sc[1].kind = "compound" => KeptCompound(ps[1], sc[1], c)
         /\ sc[1].kind = "subshell" => KeptSubshell(ps[1], sc[1], c)
<1>1. Len(ps) = Len(sc)
  BY DEF Kept
<1>2. /\ Len(Tail(sc)) = Len(sc) - 1 /\ 1 \in 1..Len(sc)
      /\ \A i \in 1..Len(Tail(sc)) : i + 1 \in 1..Len(sc) /\ Tail(sc)[i] = sc[i + 1]
  BY PoppedIs
<1>3. ps # << >>
  BY <1>1, <1>2
<1>4. /\ Len(Tail(ps)) = Len(ps) - 1
      /\ \A i \in 1..Len(Tail(ps)) : Tail(ps)[i] = ps[i + 1]
  BY <1>3, PoppedIs
<1>5. ASSUME NEW i \in 1..Len(Tail(sc))
      PROVE  /\ Tail(sc)[i].kind = "compound" => KeptCompound(Tail(ps)[i], Tail(sc)[i], c)
             /\ Tail(sc)[i].kind = "subshell" => KeptSubshell(Tail(ps)[i], Tail(sc)[i], c)
  <2>1. i + 1 \in 1..Len(sc) /\ Tail(sc)[i] = sc[i + 1] /\ Tail(ps)[i] = ps[i + 1]
    BY <1>1, <1>2, <1>4
  <2> QED BY <2>1 DEF Kept
<1> QED BY <1>1, <1>2, <1>3, <1>4, <1>5 DEF Kept

LEMMA PlacedPushed ==
  ASSUME NEW S, NEW ps \in Seq(S), NEW x \in S, NEW T, Placed(T, ps),
         \A fd \in DOMAIN x, f \in Fds :
            IsPsub(x[fd].write) /\ T[f].write = x[fd].write => f = fd
  PROVE  Placed(T, <<x>> \o ps)
<1> DEFINE P == <<x>> \o ps
<1>1. /\ P[1] = x
      /\ \A i \in 1..Len(P) : i = 1 \/ (i - 1 \in 1..Len(ps) /\ P[i] = ps[i - 1])
  BY PushedIs
<1> HIDE DEF P
<1>2. ASSUME NEW i \in 1..Len(P), NEW fd \in DOMAIN P[i], NEW f \in Fds,
             IsPsub(P[i][fd].write), T[f].write = P[i][fd].write
      PROVE  f = fd
  <2>1. CASE i = 1
    BY <1>1, <1>2, <2>1
  <2>2. CASE i # 1
    <3>1. i - 1 \in 1..Len(ps) /\ P[i] = ps[i - 1]
      BY <1>1, <2>2
    <3> QED BY <1>2, <3>1 DEF Placed
  <2> QED BY <2>1, <2>2
<1>3. Placed(T, P)
  BY <1>2 DEF Placed
<1> QED BY <1>3 DEF P

LEMMA PlacedPopped ==
  ASSUME NEW S, NEW ps \in Seq(S), NEW T, Placed(T, ps), ps # << >>
  PROVE  Placed(T, Tail(ps))
<1>1. \A i \in 1..Len(Tail(ps)) : i + 1 \in 1..Len(ps) /\ Tail(ps)[i] = ps[i + 1]
  BY PoppedIs
<1> QED BY <1>1 DEF Placed

\* The deepest nesting allowed.
LEMMA NestsToo ==
  ASSUME DTypes, MayNest, NEW z \in Compounds \cup Subshells
  PROVE  LET sc == <<z>> \o scopes
         IN  sc \in Seq(Compounds \cup Subshells) /\ Len(sc) <= MaxScopes
<1>1. MaxScopes \in Nat /\ MaxScopes # 0
  BY DescriptorsAssumption
<1>2. Len(scopes) < MaxScopes
  <2>1. Len(scopes) \in Nat
    BY DEF DTypes
  <2> QED BY <1>1, <2>1 DEF MayNest
<1>3. scopes \in Seq(Compounds \cup Subshells)
  BY DEF DTypes
<1>4. LET sc == <<z>> \o scopes
      IN  sc \in Seq(Compounds \cup Subshells) /\ Len(sc) = Len(scopes) + 1 /\ Len(scopes) \in Nat
  BY <1>3, PushedIs
<1> QED BY <1>1, <1>2, <1>4

LEMMA EnterSubshellKeeps ==
  ASSUME DInv, departed = {}, EnterSubshell
  PROVE  DInv'
<1> DEFINE z == [kind |-> "subshell", shell |-> shell]
           x == promised.files
           p == [promised EXCEPT !.scopes = <<x>> \o promised.scopes]
<1>1. DTypes /\ Good /\ shell \in Shells /\ promised \in Promises /\ Whole(shell, opened)
        /\ shell.table = promised.files /\ shell.table \in Tables
        /\ scopes \in Seq(Compounds \cup Subshells)
  BY DEF DInv, DTypes, Good, Shells, Tables
<1>2. coproc' = coproc /\ scopes' = <<z>> \o scopes /\ opened' = opened /\ MayNest
  BY DEF EnterSubshell
<1>3. Becomes(shell, p, {})
  BY DEF EnterSubshell
<1>4. shell' = shell /\ promised' = p /\ (departed' = {} => ~OnlySaved(shell', promised'))
  BY <1>3, BecomesIs
<1>5. z \in Subshells /\ z.kind = "subshell" /\ z.shell = shell
  BY <1>1 DEF Subshells
<1> HIDE DEF z
<1>6. x \in SomeFds(Entry) /\ x \in [Fds -> Entry] /\ promised.scopes \in Seq(SomeFds(Entry))
  BY <1>1 DEF Promises, SomeFds
<1> HIDE DEF x
<1>7. <<x>> \o promised.scopes \in Seq(SomeFds(Entry))
  BY <1>6, PushedIs
<1>8. p \in Promises /\ p.files = promised.files /\ p.scopes = <<x>> \o promised.scopes
  BY <1>1, <1>7 DEF Promises
<1> HIDE DEF p
<1>9. scopes' \in Seq(Compounds \cup Subshells) /\ Len(scopes') <= MaxScopes
  BY <1>1, <1>2, <1>5, NestsToo
<1>10. DTypes'
  BY <1>1, <1>2, <1>4, <1>8, <1>9 DEF DTypes
<1>11. ASSUME departed' = {} PROVE Good'
  <2>1. KeptSubshell(x, z, coproc)
    BY <1>1, <1>5, <1>6 DEF KeptSubshell, Matches, Whole, x
  <2>2. Kept(<<x>> \o promised.scopes, <<z>> \o scopes, coproc)
    <3>1. Kept(promised.scopes, scopes, coproc)
      BY <1>1 DEF Good
    <3>2. z \in Compounds \cup Subshells
      BY <1>5
    <3> QED BY <1>1, <1>5, <1>6, <2>1, <3>1, <3>2, KeptPushed
  <2>3. Placed(shell.table, <<x>> \o promised.scopes)
    <3>1. \A fd \in DOMAIN x, f \in Fds :
            IsPsub(x[fd].write) /\ shell.table[f].write = x[fd].write => f = fd
      BY <1>1, <1>6 DEF Whole, OnePlace, x
    <3>2. Placed(shell.table, promised.scopes)
      BY <1>1 DEF Good
    <3> QED BY <1>6, <3>1, <3>2, PlacedPushed
  <2> QED BY <1>1, <1>2, <1>4, <1>8, <1>11, <2>2, <2>3 DEF Good
<1> QED BY <1>10, <1>11 DEF DInv

\* The promise, when the innermost scope ends.
LEMMA LeftIs ==
  ASSUME NEW p \in Promises, p.scopes # << >>
  PROVE  LET q == Left(p)
             x == p.scopes[1]
         IN  /\ q \in Promises /\ q.scopes = Tail(p.scopes) /\ x \in SomeFds(Entry)
             /\ \A fd \in Fds : q.files[fd] = IF fd \in DOMAIN x THEN x[fd] ELSE p.files[fd]
<1> DEFINE x == p.scopes[1]
           F == [fd \in Fds |-> IF fd \in DOMAIN x THEN x[fd] ELSE p.files[fd]]
<1>1. p.files \in [Fds -> Entry] /\ p.scopes \in Seq(SomeFds(Entry))
  BY DEF Promises
<1>2. x \in SomeFds(Entry) /\ Tail(p.scopes) \in Seq(SomeFds(Entry))
  BY <1>1, PoppedIs
<1>3. Left(p) = [files |-> F, scopes |-> Tail(p.scopes)]
  BY <1>1 DEF Left
<1> HIDE DEF x
<1>4. PICK D \in SUBSET Fds : x \in [D -> Entry]
  BY <1>2 DEF SomeFds
<1>5. F \in [Fds -> Entry]
  BY <1>1, <1>4
<1>6. \A fd \in Fds : F[fd] = IF fd \in DOMAIN x THEN x[fd] ELSE p.files[fd]
  OBVIOUS
<1> HIDE DEF F
<1> QED BY <1>2, <1>3, <1>5, <1>6 DEF Promises, x

LEMMA LeaveSubshellKeeps ==
  ASSUME DInv, departed = {}, LeaveSubshell
  PROVE  DInv'
<1> DEFINE sc == scopes[1]
           T == shell.table
           after == [shell EXCEPT !.mirror = sc.shell.mirror, !.shut = sc.shell.shut,
                                  !.var = sc.shell.var]
           p == Left(promised)
           x == promised.scopes[1]
<1>1. DTypes /\ Good /\ shell \in Shells /\ promised \in Promises /\ Whole(shell, opened)
        /\ T = promised.files /\ T \in Tables /\ scopes \in Seq(Compounds \cup Subshells)
        /\ promised.scopes \in Seq(SomeFds(Entry))
  BY DEF DInv, DTypes, Good, Shells, Tables, Promises
<1>2. coproc' = coproc /\ scopes' = Tail(scopes) /\ opened' = opened /\ scopes # << >>
        /\ sc.kind = "subshell"
  BY DEF LeaveSubshell
<1>3. Becomes(after, p, If(T # sc.shell.table, "subshell"))
  BY DEF LeaveSubshell
<1>4. Tail(scopes) \in Seq(Compounds \cup Subshells) /\ Len(Tail(scopes)) <= MaxScopes
        /\ sc \in Compounds \cup Subshells
  <2>1. Len(scopes) \in Nat /\ MaxScopes \in Nat /\ Len(scopes) <= MaxScopes
    BY <1>1, DescriptorsAssumption DEF DTypes
  <2> QED BY <1>1, <1>2, <2>1, PoppedIs
<1>5. sc \in Subshells
  BY <1>2, <1>4 DEF Compounds
<1>6. Kept(promised.scopes, scopes, coproc)
  BY <1>1 DEF Good
<1>7. /\ Kept(Tail(promised.scopes), Tail(scopes), coproc) /\ promised.scopes # << >>
      /\ KeptSubshell(x, sc, coproc)
  BY <1>1, <1>2, <1>6, KeptPopped
<1> HIDE DEF sc, x
<1>8. sc.shell \in Shells
  BY <1>5 DEF Subshells
<1>9. /\ after \in Shells /\ after.table = T /\ after.mirror = sc.shell.mirror
      /\ after.ran = shell.ran /\ after.writer = shell.writer /\ after.reader = shell.reader
  BY <1>1, <1>8 DEF Shells
<1> HIDE DEF after
<1>10. /\ p \in Promises /\ p.scopes = Tail(promised.scopes) /\ x \in SomeFds(Entry)
       /\ \A fd \in Fds : p.files[fd] = IF fd \in DOMAIN x THEN x[fd] ELSE promised.files[fd]
  BY <1>1, <1>7, LeftIs DEF x
<1> HIDE DEF p
<1>11. /\ shell' = after /\ promised' = p
       /\ departed' = {} => T = sc.shell.table /\ ~OnlySaved(shell', promised')
  BY <1>3, BecomesIs DEF If
<1>12. DTypes'
  BY <1>1, <1>2, <1>4, <1>9, <1>10, <1>11 DEF DTypes
<1>13. ASSUME departed' = {} PROVE Good'
  <2>1. T = sc.shell.table
    BY <1>11, <1>13
  <2>2. p.files = T
    <3>1. ASSUME NEW fd \in Fds PROVE p.files[fd] = T[fd]
      <4>1. p.files[fd] = x[fd] /\ Matches(x[fd], T[fd], coproc)
        BY <1>7, <1>10, <2>1 DEF KeptSubshell
      <4>2. p.files[fd] \in Entry /\ T[fd] \in Entry
        BY <1>1, <1>10 DEF Promises, Tables
      <4>3. coproc = "gone" => T[fd].write # CoprocIn /\ T[fd].read # CoprocOut
        BY <1>1 DEF Good, Whole, PipesHeld, Leads
      <4>4. T[fd].write # CoprocOut /\ T[fd].read # CoprocIn
        BY <4>2, ReadEndIs, WriteEndIs DEF Entry
      <4>5. x[fd].read = T[fd].read /\ x[fd].write = T[fd].write
        BY <4>1, <4>3, <4>4 DEF Matches
      <4> QED BY <4>1, <4>2, <4>5 DEF Entry
    <3>2. p.files \in [Fds -> Entry]
      BY <1>10 DEF Promises
    <3> QED BY <1>1, <3>1, <3>2 DEF Tables
  <2>3. MirrorTrue(after)
    <3>1. MirrorTrue(sc.shell)
      BY <1>7 DEF KeptSubshell
    <3> QED BY <1>9, <2>1, <3>1 DEF MirrorTrue
  <2>4. Whole(after, opened)
    BY <1>1, <1>9, <2>3 DEF Whole, RanOnce, PipesHeld
  <2>5. Placed(T, Tail(promised.scopes))
    BY <1>1, <1>7, PlacedPopped DEF Good
  <2> QED BY <1>1, <1>2, <1>7, <1>9, <1>10, <1>11, <1>13, <2>2, <2>4, <2>5 DEF Good
<1> QED BY <1>12, <1>13 DEF DInv

-------------------------------------------------------------------------------
(* Compound commands: the redirections one after the other.                   *)

Marks == [entry : Entry, shut : BOOLEAN]
Accs == [s : Shells, names : {<< >>, <<"v">>}, saved : SomeFds(Marks), opens : SomeFds(Entry),
         causes : SUBSET {"full", "overwritten"}, failed : BOOLEAN]

LEMMA SomeFdsAre ==
  ASSUME NEW R, NEW m \in SomeFds(R)
  PROVE  DOMAIN m \subseteq Fds /\ m = [fd \in DOMAIN m |-> m[fd]] /\ \A fd \in DOMAIN m : m[fd] \in R
<1>1. PICK D \in SUBSET Fds : m \in [D -> R]
  BY DEF SomeFds
<1> QED BY <1>1

LEMMA SomeFdsIs ==
  ASSUME NEW R, NEW D \in SUBSET Fds, NEW m \in [D -> R]
  PROVE  m \in SomeFds(R)
BY DEF SomeFds

LEMMA NoneYet ==
  ASSUME NEW R
  PROVE  << >> \in SomeFds(R) /\ DOMAIN << >> = {}
<1>1. << >> \in [{} -> R]
  OBVIOUS
<1>2. {} \in SUBSET Fds
  OBVIOUS
<1> QED BY <1>1, <1>2, SomeFdsIs

LEMMA MergedIs ==
  ASSUME NEW opens \in SomeFds(Entry), NEW fd \in Fds, NEW sides \in Entry
  PROVE  LET m == Merged(opens, fd, sides)
         IN  /\ m \in SomeFds(Entry) /\ DOMAIN m = DOMAIN opens \cup {fd}
             /\ \A f \in DOMAIN opens \ {fd} : m[f] = opens[f]
             /\ sides.read # None \/ fd \notin DOMAIN opens => m[fd].read = sides.read
             /\ sides.read = None /\ fd \in DOMAIN opens => m[fd].read = opens[fd].read
             /\ sides.write # None \/ fd \notin DOMAIN opens => m[fd].write = sides.write
             /\ sides.write = None /\ fd \in DOMAIN opens => m[fd].write = opens[fd].write
<1> DEFINE m == Merged(opens, fd, sides)
           r == IF sides.read = None /\ fd \in DOMAIN opens THEN opens[fd].read ELSE sides.read
           w == IF sides.write = None /\ fd \in DOMAIN opens THEN opens[fd].write ELSE sides.write
           e == [side \in {"read", "write"} |->
                  IF sides[side] = None /\ fd \in DOMAIN opens THEN opens[fd][side] ELSE sides[side]]
           D == DOMAIN opens \cup {fd}
<1>1. DOMAIN opens \subseteq Fds /\ \A f \in DOMAIN opens : opens[f] \in Entry
  BY SomeFdsAre
<1>2. r \in ReadEnds /\ w \in WriteEnds
  BY <1>1 DEF Entry
<1>3. e["read"] = r /\ e["write"] = w
  OBVIOUS
<1>4. m = [f \in D |-> IF f # fd THEN opens[f] ELSE e]
  BY DEF Merged
<1> HIDE DEF r, w, m
<1>5. e = [read |-> r, write |-> w]
  BY <1>3
<1> HIDE DEF e
<1>6. e \in Entry
  BY <1>2, <1>5 DEF Entry
<1>7. m \in [D -> Entry] /\ D \in SUBSET Fds
  BY <1>1, <1>4, <1>6
<1>8. DOMAIN m = D /\ m[fd] = e /\ \A f \in DOMAIN opens \ {fd} : m[f] = opens[f]
  BY <1>4
<1>9. m \in SomeFds(Entry)
  BY <1>7, SomeFdsIs
<1> QED BY <1>3, <1>8, <1>9 DEF r, w, m

LEMMA SavedTooIs ==
  ASSUME NEW saved \in SomeFds(Marks), NEW fd \in Fds, NEW s \in Shells
  PROVE  LET m == SavedToo(saved, fd, s)
         IN  /\ m \in SomeFds(Marks) /\ DOMAIN m = DOMAIN saved \cup {fd}
             /\ fd \notin DOMAIN saved => m[fd].entry = s.table[fd]
             /\ \A f \in DOMAIN saved : m[f] = saved[f]
<1> DEFINE m == SavedToo(saved, fd, s)
           D == DOMAIN saved \cup {fd}
           e == [entry |-> s.table[fd], shut |-> fd \in s.shut]
<1>1. DOMAIN saved \subseteq Fds /\ \A f \in DOMAIN saved : saved[f] \in Marks
  BY SomeFdsAre
<1>2. e \in Marks /\ e.entry = s.table[fd]
  BY DEF Marks, Shells
<1>3. CASE fd \in DOMAIN saved
  BY <1>3 DEF SavedToo
<1>4. CASE fd \notin DOMAIN saved
  <2>1. m = [f \in D |-> IF f = fd THEN e ELSE saved[f]]
    BY <1>4 DEF SavedToo
  <2> HIDE DEF e, m
  <2>2. m \in [D -> Marks] /\ D \in SUBSET Fds
    BY <1>1, <1>2, <2>1
  <2>3. m \in SomeFds(Marks)
    BY <2>2, SomeFdsIs
  <2>4. DOMAIN m = D /\ m[fd] = e /\ \A f \in DOMAIN saved \ {fd} : m[f] = saved[f]
    BY <2>1
  <2> QED BY <1>2, <1>4, <2>3, <2>4 DEF m
<1> QED BY <1>3, <1>4

LEMMA PutSidesInherits ==
  ASSUME NEW T \in Tables, NEW fd \in Fds, NEW sides \in Entry,
         ~IsPsub(sides.write), sides.write # CoprocIn, sides.read # CoprocOut
  PROVE  Inherits(PutSides(T, fd, sides), T)
<1> DEFINE P == PutSides(T, fd, sides)
<1>1. \A f \in Fds : P[f].write \in {T[f].write, sides.write} /\ P[f].read \in {T[f].read, sides.read}
  BY PutSidesEnds
<1> HIDE DEF P
<1>2. Inherits(P, T)
  BY <1>1 DEF Inherits, Leads
<1> QED BY <1>2 DEF P

\* The redirections made so far: what the table amounts to, what will be put back.
AccGood(a) ==
  LET T == shell.table
      named == IF a.names = << >> THEN {} ELSE {a.s.var["v"]} IN
  /\ Whole(a.s, opened)
  /\ \A fd \in Fds : a.s.table[fd] = IF fd \in DOMAIN a.opens
                                     THEN SidesOver(T[fd], a.opens[fd]) ELSE T[fd]
  /\ DOMAIN a.opens = DOMAIN a.saved \cup named
  /\ \A fd \in named : fd \in Dynamic /\ T[fd] = NoFile
  /\ \A fd \in DOMAIN a.saved \ named : a.saved[fd].entry = T[fd]
  /\ \A fd \in DOMAIN a.opens : Ordinary(a.opens[fd])
  /\ \A fd \in DOMAIN a.saved \cap named : Ordinary(a.saved[fd].entry)
  /\ Inherits(a.s.table, T)

\* One more numbered redirection.
LEMMA RedirectedNumber ==
  ASSUME DTypes, Good, Len(opened) < MaxOpens, NEW a \in Accs, ~a.failed,
         NEW op \in {"in", "rw"}, NEW fd \in Fds, NEW r, r.op = op, r.fd = fd
  PROVE  LET b == Redirected(a, r)
         IN  /\ b \in Accs /\ ~b.failed /\ a.causes \subseteq b.causes
             /\ b.causes = {} /\ AccGood(a) => AccGood(b)
<1> DEFINE T == shell.table
           sides == Sides(op)
           t == OpenBoth(a.s, fd, sides)
           saved == SavedToo(a.saved, fd, a.s)
           opens == Merged(a.opens, fd, sides)
           causes == a.causes \cup If(OverwritesAny(a.s, fd, sides), "overwritten")
           b == [a EXCEPT !.s = t, !.saved = saved, !.opens = opens, !.causes = causes]
<1>1. Redirected(a, r) = b
  <2>1. r.op # "missing" /\ r.op # "var"
    OBVIOUS
  <2> DEFINE c == a.causes \cup If(FALSE, "full") \cup If(OverwritesAny(a.s, fd, sides), "overwritten")
  <2>2. c = causes
    BY DEF If
  <2>3. Redirected(a, r) = [a EXCEPT !.s = t, !.names = a.names, !.saved = saved, !.opens = opens,
                                     !.causes = c]
    BY <2>1 DEF Redirected, Accs
  <2> HIDE DEF t, saved, opens, causes, c
  <2> QED BY <2>2, <2>3 DEF Accs
<1>2. a.s \in Shells /\ a.saved \in SomeFds(Marks) /\ a.opens \in SomeFds(Entry)
        /\ a.causes \in SUBSET {"full", "overwritten"} /\ a.names \in {<< >>, <<"v">>}
  BY DEF Accs
<1>3. sides \in Entry /\ sides.read # CoprocOut /\ sides.write # CoprocIn /\ ~IsPsub(sides.write)
  BY SidesAre
<1> HIDE DEF sides
<1>4. t \in Shells /\ t.table = PutSides(a.s.table, fd, sides) /\ t.var = a.s.var
  BY <1>2, <1>3, OpenBothIs
<1>5. saved \in SomeFds(Marks) /\ DOMAIN saved = DOMAIN a.saved \cup {fd}
        /\ (fd \notin DOMAIN a.saved => saved[fd].entry = a.s.table[fd])
        /\ \A f \in DOMAIN a.saved : saved[f] = a.saved[f]
  <2> DEFINE B == a.saved
             S == a.s
  <2>1. B \in SomeFds(Marks) /\ S \in Shells
    BY <1>2
  <2> HIDE DEF B, S
  <2>2. LET m == SavedToo(B, fd, S)
        IN  /\ m \in SomeFds(Marks) /\ DOMAIN m = DOMAIN B \cup {fd}
            /\ fd \notin DOMAIN B => m[fd].entry = S.table[fd]
            /\ \A f \in DOMAIN B : m[f] = B[f]
    BY <2>1, SavedTooIs
  <2> QED BY <2>2 DEF B, S
<1>6. /\ opens \in SomeFds(Entry) /\ DOMAIN opens = DOMAIN a.opens \cup {fd}
      /\ \A f \in DOMAIN a.opens \ {fd} : opens[f] = a.opens[f]
      /\ sides.read # None \/ fd \notin DOMAIN a.opens => opens[fd].read = sides.read
      /\ sides.read = None /\ fd \in DOMAIN a.opens => opens[fd].read = a.opens[fd].read
      /\ sides.write # None \/ fd \notin DOMAIN a.opens => opens[fd].write = sides.write
      /\ sides.write = None /\ fd \in DOMAIN a.opens => opens[fd].write = a.opens[fd].write
  <2> DEFINE A == a.opens
  <2>1. A \in SomeFds(Entry)
    BY <1>2
  <2> HIDE DEF A
  <2>2. LET m == Merged(A, fd, sides)
        IN  /\ m \in SomeFds(Entry) /\ DOMAIN m = DOMAIN A \cup {fd}
            /\ \A f \in DOMAIN A \ {fd} : m[f] = A[f]
            /\ sides.read # None \/ fd \notin DOMAIN A => m[fd].read = sides.read
            /\ sides.read = None /\ fd \in DOMAIN A => m[fd].read = A[fd].read
            /\ sides.write # None \/ fd \notin DOMAIN A => m[fd].write = sides.write
            /\ sides.write = None /\ fd \in DOMAIN A => m[fd].write = A[fd].write
    <3>1. sides \in Entry
      BY <1>3
    <3> QED BY <2>1, <3>1, MergedIs
  <2> QED BY <2>2 DEF A
<1>7. causes \in SUBSET {"full", "overwritten"}
  BY <1>2 DEF If
<1>8. causes = {} => a.causes = {} /\ ~OverwritesAny(a.s, fd, sides)
  BY DEF If
<1>9. a.causes \subseteq causes
  OBVIOUS
<1> HIDE DEF t, saved, opens, causes
<1>10. /\ b \in Accs /\ b.failed = a.failed /\ b.s = t /\ b.names = a.names /\ b.saved = saved
       /\ b.opens = opens /\ b.causes = causes
  BY <1>4, <1>5, <1>6, <1>7 DEF Accs
<1> HIDE DEF b
<1>11. ASSUME causes = {}, AccGood(a) PROVE AccGood(b)
  <2> DEFINE named == IF a.names = << >> THEN {} ELSE {a.s.var["v"]}
  <2>1. /\ Whole(a.s, opened)
        /\ \A f \in Fds : a.s.table[f] = IF f \in DOMAIN a.opens
                                         THEN SidesOver(T[f], a.opens[f]) ELSE T[f]
        /\ DOMAIN a.opens = DOMAIN a.saved \cup named
        /\ \A f \in named : f \in Dynamic /\ T[f] = NoFile
        /\ \A f \in DOMAIN a.saved \ named : a.saved[f].entry = T[f]
        /\ \A f \in DOMAIN a.opens : Ordinary(a.opens[f])
        /\ \A f \in DOMAIN a.saved \cap named : Ordinary(a.saved[f].entry)
        /\ Inherits(a.s.table, T)
    BY <1>11 DEF AccGood
  <2>2. named = IF b.names = << >> THEN {} ELSE {b.s.var["v"]}
    BY <1>4, <1>10
  <2> HIDE DEF named
  <2>3. a.s.table \in Tables /\ T \in Tables
    BY <1>2 DEF Shells, Tables, DTypes
  <2>4. Whole(t, opened)
    BY <1>2, <1>3, <1>8, <1>11, <2>1, OpenBothWhole DEF t
  <2>5. Inherits(t.table, T)
    <3>1. Inherits(t.table, a.s.table)
      BY <1>3, <1>4, <2>3, PutSidesInherits
    <3> QED BY <2>1, <3>1, InheritsAll
  <2>6. /\ t.table[fd] = SidesOver(a.s.table[fd], sides)
        /\ \A f \in Fds \ {fd} : t.table[f] = a.s.table[f]
    <3> DEFINE U == a.s.table
    <3>1. U \in Tables /\ sides \in Entry
      BY <1>3, <2>3
    <3> HIDE DEF U
    <3>2. PutSides(U, fd, sides)[fd] = SidesOver(U[fd], sides)
            /\ \A f \in Fds \ {fd} : PutSides(U, fd, sides)[f] = U[f]
      BY <3>1, PutSidesIs
    <3> QED BY <1>4, <3>2 DEF U
  <2>7. \A f \in Fds : t.table[f] = IF f \in DOMAIN opens THEN SidesOver(T[f], opens[f]) ELSE T[f]
    <3>1. SidesOver(a.s.table[fd], sides) = SidesOver(T[fd], opens[fd])
      <4>1. CASE fd \in DOMAIN a.opens
        <5>1. a.s.table[fd] = SidesOver(T[fd], a.opens[fd])
          BY <2>1, <4>1
        <5> QED BY <1>6, <4>1, <5>1 DEF SidesOver
      <4>2. CASE fd \notin DOMAIN a.opens
        <5>1. a.s.table[fd] = T[fd]
          BY <2>1, <4>2
        <5> QED BY <1>6, <4>2, <5>1 DEF SidesOver
      <4> QED BY <4>1, <4>2
    <3>2. ASSUME NEW f \in Fds \ {fd}
          PROVE  t.table[f] = IF f \in DOMAIN opens THEN SidesOver(T[f], opens[f]) ELSE T[f]
      BY <1>6, <2>1, <2>6
    <3> QED BY <1>6, <2>6, <3>1, <3>2
  <2>8. DOMAIN opens = DOMAIN saved \cup named
    BY <1>5, <1>6, <2>1
  <2>9. \A f \in DOMAIN saved \ named : saved[f].entry = T[f]
    BY <1>5, <2>1
  <2>10. \A f \in DOMAIN opens : Ordinary(opens[f])
    <3>1. Ordinary(opens[fd])
      <4>1. opens[fd].write \in {sides.write} \cup {a.opens[f].write : f \in {fd} \cap DOMAIN a.opens}
        BY <1>6
      <4>2. opens[fd].read \in {sides.read} \cup {a.opens[f].read : f \in {fd} \cap DOMAIN a.opens}
        BY <1>6
      <4> QED BY <1>3, <2>1, <4>1, <4>2 DEF Ordinary
    <3> QED BY <1>6, <2>1, <3>1
  <2>11. \A f \in DOMAIN saved \cap named : Ordinary(saved[f].entry)
    <3>1. ASSUME fd \in named, fd \notin DOMAIN a.saved PROVE Ordinary(saved[fd].entry)
      <4>1. saved[fd].entry = SidesOver(NoFile, a.opens[fd]) /\ Ordinary(a.opens[fd])
        BY <1>5, <2>1, <3>1
      <4> QED BY <4>1, EndsDiffer DEF Ordinary, SidesOver
    <3> QED BY <1>5, <2>1, <3>1
  <2> QED BY <1>10, <2>1, <2>2, <2>4, <2>5, <2>7, <2>8, <2>9, <2>10, <2>11 DEF AccGood
<1> QED BY <1>1, <1>9, <1>10, <1>11

Begin == [s |-> shell, names |-> << >>, saved |-> << >>, opens |-> << >>, causes |-> {},
          failed |-> FALSE]

LEMMA BeginIs ==
  ASSUME DTypes, Good
  PROVE  Begin \in Accs /\ AccGood(Begin)
<1>1. << >> \in SomeFds(Marks) /\ << >> \in SomeFds(Entry) /\ DOMAIN << >> = {}
  BY NoneYet
<1>2. Begin \in Accs
  BY <1>1 DEF Begin, Accs, DTypes
<1>3. Inherits(shell.table, shell.table)
  BY DEF Inherits
<1>4. AccGood(Begin)
  BY <1>1, <1>3 DEF AccGood, Begin, Good
<1> QED BY <1>2, <1>4

\* The redirection with a variable, which is the first.
LEMMA RedirectedVariable ==
  ASSUME DTypes, Good, Len(opened) < MaxOpens, NEW r, r.op = "var", r.name = "v"
  PROVE  LET b == Redirected(Begin, r)
         IN  b \in Accs /\ ~b.failed /\ (b.causes = {} => AccGood(b))
<1> DEFINE T == shell.table
           fd == Allocated(shell)
           sides == Sides("in")
           t == OpenBoth(shell, fd, sides)
           v == SetVar(t, "v", fd)
           opens == Merged(<< >>, fd, sides)
           causes == {} \cup If(Free(shell) = {}, "full") \cup If(OverwritesAny(shell, fd, sides), "overwritten")
           b == [s |-> v, names |-> <<"v">>, saved |-> << >>, opens |-> opens, causes |-> causes,
                 failed |-> FALSE]
<1>1. shell \in Shells /\ T \in Tables /\ Whole(shell, opened)
  BY DEF DTypes, Good, Shells, Tables
<1>2. Redirected(Begin, r) = b
  <2>1. r.op # "missing" /\ r.name # "r" /\ Append(<< >>, r.name) = <<"v">>
    OBVIOUS
  <2> QED BY <2>1 DEF Redirected, Begin
<1>3. fd \in Fds /\ fd \in Dynamic /\ (Free(shell) # {} => T[fd] = NoFile)
  BY <1>1, AllottedIs
<1> HIDE DEF fd
<1>4. sides \in Entry /\ sides.read # CoprocOut /\ sides.write # CoprocIn /\ ~IsPsub(sides.write)
  BY SidesAre
<1> HIDE DEF sides
<1>5. t \in Shells /\ t.table = PutSides(T, fd, sides)
  BY <1>1, <1>3, <1>4, OpenBothIs
<1>6. v \in Shells /\ v.table = t.table /\ (\A o : Whole(t, o) => Whole(v, o)) /\ v.var["v"] = fd
  <2> HIDE DEF t
  <2>1. "v" \in Names
    BY DEF Names
  <2>2. v \in Shells /\ v.table = t.table /\ \A o : Whole(t, o) => Whole(v, o)
    BY <1>3, <1>5, <2>1, SetVarWhole
  <2>3. v = [t EXCEPT !.var = [t.var EXCEPT !["v"] = fd]]
    BY <1>3, <1>5, <2>1, SetVarIs
  <2>4. v.var["v"] = fd
    BY <1>5, <2>1, <2>3 DEF Shells, Vars
  <2> QED BY <2>2, <2>4
<1>7. << >> \in SomeFds(Marks) /\ << >> \in SomeFds(Entry) /\ DOMAIN << >> = {}
  BY NoneYet
<1>8. opens \in SomeFds(Entry) /\ DOMAIN opens = {fd} /\ opens[fd].read = sides.read
        /\ opens[fd].write = sides.write
  <2> DEFINE A == << >>
  <2>1. A \in SomeFds(Entry) /\ DOMAIN A = {}
    BY <1>7
  <2> HIDE DEF A
  <2>2. LET m == Merged(A, fd, sides)
        IN  /\ m \in SomeFds(Entry) /\ DOMAIN m = DOMAIN A \cup {fd}
            /\ sides.read # None \/ fd \notin DOMAIN A => m[fd].read = sides.read
            /\ sides.write # None \/ fd \notin DOMAIN A => m[fd].write = sides.write
    BY <1>3, <1>4, <2>1, MergedIs
  <2>3. LET m == Merged(A, fd, sides)
        IN  /\ m \in SomeFds(Entry) /\ DOMAIN m = {fd}
            /\ m[fd].read = sides.read /\ m[fd].write = sides.write
    BY <2>1, <2>2
  <2> QED BY <2>3 DEF A
<1>9. causes \in SUBSET {"full", "overwritten"} /\ (causes = {} => Free(shell) # {})
  BY DEF If
<1> HIDE DEF v, opens, causes
<1>10. b \in Accs
  BY <1>6, <1>7, <1>8, <1>9 DEF Accs
<1>11. ASSUME causes = {} PROVE AccGood(b)
  <2>1. T[fd] = NoFile
    BY <1>3, <1>9, <1>11
  <2>2. Whole(t, opened)
    BY <1>1, <1>3, <1>4, <2>1, FreeIsNotOverwritten, OpenBothWhole
  <2>3. Whole(v, opened)
    BY <1>6, <2>2
  <2>4. Inherits(v.table, T)
    <3>1. Inherits(PutSides(T, fd, sides), T)
      BY <1>1, <1>3, <1>4, PutSidesInherits
    <3> QED BY <1>5, <1>6, <3>1
  <2>5. v.table[fd] = SidesOver(T[fd], sides) /\ \A f \in Fds \ {fd} : v.table[f] = T[f]
    <3> DEFINE U == shell.table
    <3>1. U \in Tables
      BY <1>1
    <3> HIDE DEF U
    <3>2. PutSides(U, fd, sides)[fd] = SidesOver(U[fd], sides)
            /\ \A f \in Fds \ {fd} : PutSides(U, fd, sides)[f] = U[f]
      BY <1>3, <1>4, <3>1, PutSidesIs
    <3> HIDE DEF t
    <3> QED BY <1>5, <1>6, <3>2 DEF U
  <2>6. SidesOver(T[fd], sides) = SidesOver(T[fd], opens[fd])
    BY <1>8 DEF SidesOver
  <2>7. \A f \in Fds : v.table[f] = IF f \in DOMAIN opens THEN SidesOver(T[f], opens[f]) ELSE T[f]
    BY <1>8, <2>5, <2>6
  <2>8. <<"v">> # << >>
    OBVIOUS
  <2>9. Ordinary(opens[fd])
    BY <1>4, <1>8 DEF Ordinary
  <2> HIDE DEF t
  <2> QED BY <1>3, <1>6, <1>7, <1>8, <2>1, <2>3, <2>4, <2>7, <2>8, <2>9 DEF AccGood
<1> QED BY <1>2, <1>10, <1>11

LEMMA RedirectedIs ==
  ASSUME DTypes, Good, Len(opened) < MaxOpens, NEW a \in Accs, NEW r \in Redirections,
         a.failed \/ a = Begin \/ ~(r.op = "var" /\ r.name = "v")
  PROVE  LET b == Redirected(a, r)
         IN  /\ b \in Accs
             /\ ~b.failed => /\ ~a.failed /\ a.causes \subseteq b.causes
                             /\ ~(r.op = "var" /\ r.name = "r")
                             /\ b.causes = {} /\ AccGood(a) => AccGood(b)
<1>1. CASE a.failed
  BY <1>1 DEF Redirected
<1>2. CASE ~a.failed /\ (r.op = "missing" \/ (r.op = "var" /\ r.name = "r"))
  BY <1>2 DEF Redirected, Accs
<1>3. CASE ~a.failed /\ ~(r.op = "missing" \/ (r.op = "var" /\ r.name = "r"))
  <2>1. CASE r \in {[op |-> "var", name |-> name] : name \in {"v", "r"}}
    <3>1. r.op = "var" /\ r.name = "v"
      BY <1>3, <2>1
    <3>2. a = Begin
      BY <1>3, <3>1
    <3>3. a.causes = {}
      BY <3>2 DEF Begin
    <3> QED BY <1>3, <3>1, <3>2, <3>3, RedirectedVariable
  <2>2. CASE r \in {[op |-> op, fd |-> fd] : op \in {"in", "rw", "missing"}, fd \in Numbered \ {1, 2}}
    <3>1. PICK op \in {"in", "rw", "missing"}, fd \in Numbered \ {1, 2} : r = [op |-> op, fd |-> fd]
      BY <2>2
    <3>2. r.op = op /\ r.fd = fd /\ op \in {"in", "rw"} /\ fd \in Fds
      BY <1>3, <3>1, DescriptorsAssumption
    <3>3. ~(r.op = "var" /\ r.name = "r")
      BY <1>3
    <3> QED BY <1>3, <3>2, <3>3, RedirectedNumber
  <2> QED BY <2>1, <2>2 DEF Redirections
<1> QED BY <1>1, <1>2, <1>3

LEMMA OneOrTwo ==
  ASSUME NEW S, NEW n \in {1, 2}, NEW q \in [1..n -> S]
  PROVE  q \in Seq(S) /\ Len(q) = n /\ q[1] \in S /\ (n = 2 => q[2] \in S)
<1>1. n \in Nat /\ 1 \in 1..n /\ (n = 2 => 2 \in 1..n)
  OBVIOUS
<1>2. q \in Seq(S)
  BY <1>1
<1>3. DOMAIN q = 1..n /\ DOMAIN q = 1..Len(q) /\ Len(q) \in Nat
  BY <1>2
<1>4. Len(q) = n
  BY <1>1, <1>3
<1> QED BY <1>1, <1>2, <1>4

LEMMA OrderIs ==
  ASSUME NEW list \in RedirectionLists
  PROVE  LET order == VariablesFirst(list)
         IN  /\ order[1] \in Redirections /\ Len(order) \in {1, 2}
             /\ Len(order) = 2 =>
                  /\ order[2] \in Redirections
                  /\ order[2].op = "var" /\ order[2].name = "v" => order[1].op = "var" /\ order[1].name = "r"
<1>1. CASE list \in [1..1 -> Redirections]
  <2>1. list \in Seq(Redirections) /\ Len(list) = 1 /\ list[1] \in Redirections
    BY <1>1, OneOrTwo
  <2>2. VariablesFirst(list) = list
    BY <2>1 DEF VariablesFirst
  <2> QED BY <2>1, <2>2
<1>2. CASE list \in [1..2 -> Redirections] /\ IsInjective(list)
  <2>1. list \in Seq(Redirections) /\ Len(list) = 2 /\ list[1] \in Redirections /\ list[2] \in Redirections
    BY <1>2, OneOrTwo
  <2>2. list[1] # list[2]
    BY <1>2 DEF IsInjective
  <2>3. \A x, y \in Redirections : x # y /\ x.op = "var" /\ y.op = "var" /\ y.name = "v" => x.name = "r"
    BY DEF Redirections
  <2>4. CASE list[1].op # "var" /\ list[2].op = "var"
    <3>1. VariablesFirst(list) = <<list[2], list[1]>>
      BY <2>1, <2>4 DEF VariablesFirst
    <3> DEFINE x == list[1]
               y == list[2]
    <3> HIDE DEF x, y
    <3>2. LET o == <<y, x>> IN o[1] = y /\ o[2] = x /\ Len(o) = 2
      OBVIOUS
    <3> QED BY <2>1, <2>4, <3>1, <3>2 DEF x, y
  <2>5. CASE ~(list[1].op # "var" /\ list[2].op = "var")
    <3>1. VariablesFirst(list) = list
      BY <2>1, <2>5 DEF VariablesFirst
    <3> QED BY <2>1, <2>2, <2>3, <2>5, <3>1
  <2> QED BY <2>4, <2>5
<1> QED BY <1>1, <1>2 DEF RedirectionLists

\* What the promise makes of the redirections.
LEMMA EnteredIs ==
  ASSUME NEW p \in Promises, NEW opens \in SomeFds(Entry)
  PROVE  LET q == Entered(p, opens)
             x == [fd \in DOMAIN opens |-> p.files[fd]]
         IN  /\ q \in Promises /\ q.scopes = <<x>> \o p.scopes /\ x \in SomeFds(Entry)
             /\ \A fd \in Fds : q.files[fd] = IF fd \in DOMAIN opens
                                              THEN SidesOver(p.files[fd], opens[fd]) ELSE p.files[fd]
<1> DEFINE x == [fd \in DOMAIN opens |-> p.files[fd]]
           over(fd) == [side \in {"read", "write"} |->
                         IF opens[fd][side] = None THEN p.files[fd][side] ELSE opens[fd][side]]
           F == [fd \in Fds |-> IF fd \in DOMAIN opens THEN over(fd) ELSE p.files[fd]]
<1>1. p.files \in [Fds -> Entry] /\ p.scopes \in Seq(SomeFds(Entry))
  BY DEF Promises
<1>2. DOMAIN opens \subseteq Fds /\ \A fd \in DOMAIN opens : opens[fd] \in Entry
  BY SomeFdsAre
<1>3. x \in SomeFds(Entry)
  <2>1. x \in [DOMAIN opens -> Entry] /\ DOMAIN opens \in SUBSET Fds
    BY <1>1, <1>2
  <2> HIDE DEF x
  <2> QED BY <2>1, SomeFdsIs
<1>4. Entered(p, opens) = [files |-> F, scopes |-> <<x>> \o p.scopes]
  BY <1>1 DEF Entered
<1>5. ASSUME NEW fd \in DOMAIN opens
      PROVE  over(fd) = SidesOver(p.files[fd], opens[fd]) /\ over(fd) \in Entry
  <2> DEFINE e == opens[fd]
             g == p.files[fd]
  <2>1. e \in Entry /\ g \in Entry
    BY <1>1, <1>2
  <2> HIDE DEF e, g
  <2>2. SidesOver(g, e) \in Entry
    BY <2>1 DEF SidesOver, Entry
  <2>3. [side \in {"read", "write"} |-> IF e[side] = None THEN g[side] ELSE e[side]] = SidesOver(g, e)
    BY DEF SidesOver
  <2> QED BY <2>2, <2>3 DEF e, g
<1>6. F \in [Fds -> Entry]
  <2> HIDE DEF over
  <2> QED BY <1>1, <1>5
<1>7. \A fd \in Fds : F[fd] = IF fd \in DOMAIN opens
                              THEN SidesOver(p.files[fd], opens[fd]) ELSE p.files[fd]
  <2> HIDE DEF over
  <2> QED BY <1>5
<1> HIDE DEF F, x
<1>8. <<x>> \o p.scopes \in Seq(SomeFds(Entry))
  BY <1>1, <1>3, PushedIs
<1>9. LET q == Entered(p, opens)
      IN  q \in Promises /\ q.scopes = <<x>> \o p.scopes /\ q.files = F
  BY <1>4, <1>6, <1>8 DEF Promises
<1> QED BY <1>3, <1>7, <1>9 DEF x

\* All redirections of a command.
LEMMA AllRedirected ==
  ASSUME DTypes, Good, Len(opened) < MaxOpens, NEW list \in RedirectionLists
  PROVE  LET order == VariablesFirst(list)
             first == Redirected(Begin, order[1])
             acc == IF Len(order) = 1 THEN first ELSE Redirected(first, order[2])
         IN  acc \in Accs /\ (~acc.failed /\ acc.causes = {} => AccGood(acc))
<1> DEFINE order == VariablesFirst(list)
           first == Redirected(Begin, order[1])
           second == Redirected(first, order[2])
<1>1. /\ order[1] \in Redirections /\ Len(order) \in {1, 2}
      /\ Len(order) = 2 =>
           /\ order[2] \in Redirections
           /\ order[2].op = "var" /\ order[2].name = "v" => order[1].op = "var" /\ order[1].name = "r"
  BY OrderIs
<1> HIDE DEF order
<1>2. Begin \in Accs /\ AccGood(Begin)
  BY BeginIs
<1>3. /\ first \in Accs
      /\ ~first.failed => /\ ~(order[1].op = "var" /\ order[1].name = "r")
                          /\ first.causes = {} /\ AccGood(Begin) => AccGood(first)
  BY <1>1, <1>2, RedirectedIs
<1> HIDE DEF first
<1>4. CASE Len(order) = 1
  BY <1>2, <1>3, <1>4 DEF first, order
<1>5. CASE Len(order) = 2
  <2>1. first.failed \/ first = Begin \/ ~(order[2].op = "var" /\ order[2].name = "v")
    BY <1>1, <1>3, <1>5
  <2>2. /\ second \in Accs
        /\ ~second.failed => /\ ~first.failed /\ first.causes \subseteq second.causes
                             /\ second.causes = {} /\ AccGood(first) => AccGood(second)
    BY <1>1, <1>3, <1>5, <2>1, RedirectedIs
  <2>3. ASSUME ~second.failed, second.causes = {} PROVE AccGood(second)
    <3>1. first.causes = {}
      BY <2>2, <2>3
    <3> QED BY <1>2, <1>3, <2>2, <2>3, <3>1
  <2> HIDE DEF second
  <2>4. second \in Accs /\ (~second.failed /\ second.causes = {} => AccGood(second))
    BY <2>2, <2>3
  <2> QED BY <1>5, <2>4 DEF second, first, order
<1> QED BY <1>1, <1>4, <1>5

LEMMA EnterCompoundKeeps ==
  ASSUME DInv, departed = {}, NEW list \in RedirectionLists, EnterCompound(list)
  PROVE  DInv'
<1> DEFINE T == shell.table
           order == VariablesFirst(list)
           first == Redirected(Begin, order[1])
           acc == IF Len(order) = 1 THEN first ELSE Redirected(first, order[2])
           z == [kind |-> "compound", names |-> acc.names, saved |-> acc.saved, var |-> acc.s.var]
           p == Entered(promised, acc.opens)
           x == [fd \in DOMAIN acc.opens |-> promised.files[fd]]
<1>1. DTypes /\ Good /\ shell \in Shells /\ promised \in Promises /\ Whole(shell, opened)
        /\ T = promised.files /\ T \in Tables /\ scopes \in Seq(Compounds \cup Subshells)
        /\ promised.scopes \in Seq(SomeFds(Entry)) /\ opened \in Seq(OpenedKinds)
  BY DEF DInv, DTypes, Good, Shells, Tables, Promises, OpenedKinds
<1>2. /\ Len(opened) < MaxOpens /\ opened' = Append(opened, "in") /\ coproc' = coproc /\ MayNest
      /\ IF acc.failed
         THEN Becomes(acc.s, promised, If(acc.s # shell, "partial")) /\ UNCHANGED scopes
         ELSE Becomes(acc.s, p, acc.causes) /\ scopes' = <<z>> \o scopes
  BY DEF EnterCompound, NewFile, Begin
<1>3. acc \in Accs /\ (~acc.failed /\ acc.causes = {} => AccGood(acc))
  BY <1>1, <1>2, AllRedirected
<1> HIDE DEF acc
<1>4. acc.s \in Shells /\ acc.names \in {<< >>, <<"v">>} /\ acc.saved \in SomeFds(Marks)
        /\ acc.opens \in SomeFds(Entry)
  BY <1>3 DEF Accs
<1>5. "in" \in OpenedKinds /\ "in" # "psub"
  BY DEF OpenedKinds
<1>6. CASE acc.failed
  <2>1. /\ shell' = acc.s /\ promised' = promised
        /\ departed' = {} => acc.s = shell /\ ~OnlySaved(shell', promised')
    BY <1>2, <1>6, BecomesIs DEF If
  <2>2. scopes' = scopes
    BY <1>2, <1>6
  <2>3. ASSUME departed' = {}
        PROVE  /\ shell'.table = promised'.files /\ Whole(shell', opened')
               /\ shell'.table = shell.table
    <3>1. shell' = shell
      BY <2>1, <2>3
    <3>2. Whole(shell, Append(opened, "in"))
      BY <1>1, <1>5, OpenedMore
    <3> QED BY <1>1, <1>2, <2>1, <3>1, <3>2
  <2>4. ASSUME departed' = {}
        PROVE /\ \A f \in Fds : IsPsub(shell'.table[f].write)
                => \/ shell'.table[f].write = shell.table[f].write
                   \/ shell'.table[f].write = <<"psub", Len(opened) + 1>>
              /\ coproc' = "gone" =>
                   /\ Leads(shell'.table, "write", CoprocIn)
                        => coproc = "gone" /\ Leads(shell.table, "write", CoprocIn)
                   /\ Leads(shell'.table, "read", CoprocOut)
                        => coproc = "gone" /\ Leads(shell.table, "read", CoprocOut)
    BY <1>2, <2>3, <2>4
  <2> QED BY <1>1, <1>2, <1>4, <1>5, <2>1, <2>2, <2>3, <2>4, SameScopes
<1>7. CASE ~acc.failed
  <2>1. /\ shell' = acc.s /\ promised' = p
        /\ departed' = {} => acc.causes = {} /\ ~OnlySaved(shell', promised')
    <3>1. Becomes(acc.s, p, acc.causes)
      BY <1>2, <1>7
    <3> HIDE DEF p
    <3> QED BY <3>1, BecomesIs
  <2>2. scopes' = <<z>> \o scopes
    BY <1>2, <1>7
  <2>3. z \in Compounds /\ z.kind = "compound" /\ z.names = acc.names /\ z.saved = acc.saved
          /\ z.var = acc.s.var
    BY <1>4 DEF Compounds, Marks, Shells
  <2> HIDE DEF z
  <2>4. /\ p \in Promises /\ p.scopes = <<x>> \o promised.scopes /\ x \in SomeFds(Entry)
        /\ \A fd \in Fds : p.files[fd] = IF fd \in DOMAIN acc.opens
                                         THEN SidesOver(T[fd], acc.opens[fd]) ELSE T[fd]
    BY <1>1, <1>4, EnteredIs
  <2>5. DOMAIN x = DOMAIN acc.opens /\ DOMAIN acc.opens \subseteq Fds
          /\ \A fd \in DOMAIN acc.opens : x[fd] = T[fd]
    BY <1>1, <1>4, SomeFdsAre
  <2> HIDE DEF p, x
  <2>6. scopes' \in Seq(Compounds \cup Subshells) /\ Len(scopes') <= MaxScopes
    BY <1>1, <1>2, <2>2, <2>3, NestsToo
  <2>7. opened' \in Seq(OpenedKinds) /\ Len(opened') <= MaxOpens
    <3>1. opened' \in Seq(OpenedKinds) /\ Len(opened') = Len(opened) + 1 /\ Len(opened) \in Nat
      BY <1>1, <1>2, <1>5, OneMoreOpened
    <3> QED BY <1>2, <3>1, DescriptorsAssumption
  <2>8. DTypes'
    BY <1>1, <1>4, <2>1, <2>4, <2>6, <2>7 DEF DTypes, OpenedKinds
  <2>9. ASSUME departed' = {} PROVE Good'
    <3> DEFINE named == IF acc.names = << >> THEN {} ELSE {acc.s.var["v"]}
    <3>1. /\ Whole(acc.s, opened)
          /\ \A fd \in Fds : acc.s.table[fd] = IF fd \in DOMAIN acc.opens
                                               THEN SidesOver(T[fd], acc.opens[fd]) ELSE T[fd]
          /\ DOMAIN acc.opens = DOMAIN acc.saved \cup named
          /\ \A fd \in named : fd \in Dynamic /\ T[fd] = NoFile
          /\ \A fd \in DOMAIN acc.saved \ named : acc.saved[fd].entry = T[fd]
          /\ \A fd \in DOMAIN acc.saved \cap named : Ordinary(acc.saved[fd].entry)
          /\ Inherits(acc.s.table, T)
      BY <1>3, <1>7, <2>1, <2>9 DEF AccGood
    <3>2. named = IF z.names = << >> THEN {} ELSE {z.var["v"]}
      BY <2>3
    <3> HIDE DEF named
    <3>3. acc.s.table = p.files
      <4>1. acc.s.table \in [Fds -> Entry] /\ p.files \in [Fds -> Entry]
        BY <1>4, <2>4 DEF Shells, Promises
      <4>2. \A fd \in Fds : acc.s.table[fd] = p.files[fd]
        BY <2>4, <3>1
      <4> QED BY <4>1, <4>2
    <3>4. Whole(acc.s, opened')
      BY <1>1, <1>2, <1>4, <1>5, <3>1, OpenedMore
    <3>5. KeptCompound(x, z, coproc)
      <4>1. DOMAIN x = DOMAIN z.saved \cup named
        BY <2>3, <2>5, <3>1
      <4>2. \A fd \in named : fd \in Dynamic /\ x[fd] = NoFile
        BY <2>5, <3>1
      <4>3. \A fd \in DOMAIN z.saved \ named : x[fd] = z.saved[fd].entry
        BY <2>3, <2>5, <3>1
      <4>4. \A fd \in DOMAIN z.saved \ named : Matches(x[fd], z.saved[fd].entry, coproc)
        BY <4>3 DEF Matches
      <4>5. \A fd \in DOMAIN z.saved \cap named : Ordinary(z.saved[fd].entry)
        BY <2>3, <3>1
      <4> QED BY <3>2, <4>1, <4>2, <4>4, <4>5 DEF KeptCompound
    <3>6. Kept(p.scopes, scopes', coproc)
      <4>1. Kept(promised.scopes, scopes, coproc)
        BY <1>1 DEF Good
      <4>2. z \in Compounds \cup Subshells
        BY <2>3
      <4> QED BY <1>1, <2>2, <2>3, <2>4, <3>5, <4>1, <4>2, KeptPushed
    <3>7. Placed(acc.s.table, p.scopes)
      <4>1. Placed(acc.s.table, promised.scopes)
        <5>1. \A f \in Fds : IsPsub(acc.s.table[f].write) => acc.s.table[f].write = shell.table[f].write
          BY <3>1 DEF Inherits
        <5> QED BY <1>1, <5>1, PlacedStays
      <4>2. \A fd \in DOMAIN x, f \in Fds :
              IsPsub(x[fd].write) /\ acc.s.table[f].write = x[fd].write => f = fd
        BY <1>1, <2>5, <3>1 DEF Inherits, Whole, OnePlace
      <4> QED BY <1>1, <2>4, <4>1, <4>2, PlacedPushed
    <3>8. coproc' = "gone" => ~acc.s.writer /\ ~acc.s.reader
      <4>1. coproc = "gone" => ~Leads(T, "write", CoprocIn) /\ ~Leads(T, "read", CoprocOut)
        BY <1>1 DEF Good, Whole, PipesHeld
      <4>2. coproc = "gone" => ~Leads(acc.s.table, "write", CoprocIn) /\ ~Leads(acc.s.table, "read", CoprocOut)
        BY <3>1, <4>1 DEF Inherits
      <4> QED BY <1>2, <3>1, <4>2 DEF Whole, PipesHeld
    <3> QED BY <1>2, <2>1, <2>9, <3>3, <3>4, <3>6, <3>7, <3>8 DEF Good
  <2> QED BY <2>8, <2>9 DEF DInv
<1> QED BY <1>6, <1>7

LEMMA LeaveCompoundKeeps ==
  ASSUME DInv, departed = {}, LeaveCompound
  PROVE  DInv'
<1> DEFINE sc == scopes[1]
           T == shell.table
           B == [fd \in Fds |-> IF fd \in DOMAIN sc.saved THEN sc.saved[fd].entry ELSE T[fd]]
           shut == {fd \in Fds : IF fd \in DOMAIN sc.saved THEN sc.saved[fd].shut ELSE fd \in shell.shut}
           back == PutBack(shell, sc.saved)
           last == IF sc.names = << >> THEN Unset ELSE back.var[sc.names[1]]
           p == Left(promised)
           x == promised.scopes[1]
           renamed == \E name \in Range(sc.names) : shell.var[name] # sc.var[name]
           dangling == \E fd \in DOMAIN sc.saved :
             (sc.saved[fd].entry.write = CoprocIn /\ ~shell.writer)
               \/ (sc.saved[fd].entry.read = CoprocOut /\ ~shell.reader)
           covers == \E fd \in DOMAIN sc.saved : \E side \in {"read", "write"} :
             Overwrites(shell, fd, side) /\ T[fd][side] # sc.saved[fd].entry[side]
           causes == If(renamed, "renamed") \cup If(dangling, "dangling") \cup If(covers, "overwritten")
           left(fails) == IF last = Unset THEN {} ELSE LeftBehind(back, last, fails)
           named == IF sc.names = << >> THEN {} ELSE {sc.var["v"]}
<1>1. DTypes /\ Good /\ shell \in Shells /\ promised \in Promises /\ Whole(shell, opened)
        /\ T = promised.files /\ T \in Tables /\ scopes \in Seq(Compounds \cup Subshells)
        /\ promised.scopes \in Seq(SomeFds(Entry))
  BY DEF DInv, DTypes, Good, Shells, Tables, Promises
<1>2. coproc' = coproc /\ scopes' = Tail(scopes) /\ opened' = opened /\ scopes # << >>
        /\ sc.kind = "compound"
  BY DEF LeaveCompound
<1>3. PICK fails \in IF last = Unset THEN {FALSE} ELSE Failures(back, last) :
        Becomes(IF last = Unset THEN back ELSE CloseBoth(back, last, fails), p, causes \cup left(fails))
  BY DEF LeaveCompound
<1>20. fails \in BOOLEAN
  <2> HIDE DEF last, back
  <2> QED BY DEF Failures
<1> DEFINE after == IF last = Unset THEN back ELSE CloseBoth(back, last, fails)
<1>4. Tail(scopes) \in Seq(Compounds \cup Subshells) /\ Len(Tail(scopes)) <= MaxScopes
        /\ sc \in Compounds \cup Subshells
  <2>1. Len(scopes) \in Nat /\ MaxScopes \in Nat /\ Len(scopes) <= MaxScopes
    BY <1>1, DescriptorsAssumption DEF DTypes
  <2> QED BY <1>1, <1>2, <2>1, PoppedIs
<1>5. sc \in Compounds
  BY <1>2, <1>4 DEF Subshells
<1>6. Kept(promised.scopes, scopes, coproc)
  BY <1>1 DEF Good
<1>7. /\ Kept(Tail(promised.scopes), Tail(scopes), coproc) /\ promised.scopes # << >>
      /\ KeptCompound(x, sc, coproc)
  BY <1>1, <1>2, <1>6, KeptPopped
<1>8. causes = {} => ~renamed /\ ~dangling /\ ~covers
  BY DEF If
<1> HIDE DEF causes
<1>9. /\ shell' = after /\ promised' = p
      /\ departed' = {} => /\ causes = {} /\ ~OnlySaved(shell', promised')
                           /\ last # Unset /\ fails => back.table[last].read = None
  <2> HIDE DEF after, p, last, back
  <2> QED BY <1>3, BecomesIs DEF If, LeftBehind, Open, after
<1> HIDE DEF sc, x
<1>10. /\ sc.names \in {<< >>, <<"v">>} /\ sc.saved \in SomeFds(Marks) /\ sc.var \in Vars
       /\ DOMAIN sc.saved \subseteq Fds /\ \A fd \in DOMAIN sc.saved : sc.saved[fd] \in Marks
  <2>1. sc.names \in {<< >>, <<"v">>} /\ sc.saved \in SomeFds(Marks) /\ sc.var \in Vars
    BY <1>5 DEF Compounds, Marks
  <2> QED BY <2>1, SomeFdsAre
<1>11. B \in Tables /\ shut \in SUBSET Fds
  BY <1>1, <1>10 DEF Tables, Marks
<1>12. \A fd \in Fds : B[fd] = IF fd \in DOMAIN sc.saved THEN sc.saved[fd].entry ELSE T[fd]
  OBVIOUS
<1>21. back = [shell EXCEPT !.table = B, !.shut = shut]
  BY DEF PutBack
<1> HIDE DEF B, shut
<1>13. /\ back \in Shells /\ back.table = B /\ back.mirror = shell.mirror /\ back.ran = shell.ran
       /\ back.writer = shell.writer /\ back.reader = shell.reader /\ back.var = shell.var
  <2> HIDE DEF back
  <2> QED BY <1>1, <1>11, <1>21 DEF Shells, Tables
<1> HIDE DEF back
<1>14. /\ sc.names # << >> => sc.names[1] = "v" /\ "v" \in Range(sc.names)
       /\ shell.var \in Vars /\ "v" \in Names
  BY <1>1, <1>10 DEF Range, Shells, Names
<1>15. after \in Shells
  <2>1. CASE last = Unset
    BY <1>13, <2>1
  <2>2. CASE last # Unset
    <3>1. last \in Fds
      BY <1>13, <1>14, <2>2 DEF Vars
    <3> HIDE DEF last
    <3> QED BY <1>13, <1>20, <2>2, <3>1, CloseBothType
  <2> QED BY <2>1, <2>2
<1>16. /\ p \in Promises /\ p.scopes = Tail(promised.scopes) /\ x \in SomeFds(Entry)
       /\ \A fd \in Fds : p.files[fd] = IF fd \in DOMAIN x THEN x[fd] ELSE T[fd]
  BY <1>1, <1>7, LeftIs DEF x
<1> HIDE DEF p
<1>17. DTypes'
  BY <1>1, <1>2, <1>4, <1>9, <1>15, <1>16 DEF DTypes
<1>18. /\ DOMAIN x = DOMAIN sc.saved \cup named
       /\ \A fd \in named : fd \in Dynamic /\ x[fd] = NoFile
       /\ \A fd \in DOMAIN sc.saved \ named : Matches(x[fd], sc.saved[fd].entry, coproc)
       /\ \A fd \in DOMAIN sc.saved \cap named : Ordinary(sc.saved[fd].entry)
  BY <1>7 DEF KeptCompound
<1>19. ASSUME departed' = {} PROVE Good'
  <2>1. ~renamed /\ ~dangling /\ ~covers /\ ~OnlySaved(shell', promised')
    BY <1>8, <1>9, <1>19
  <2>2. \A fd \in DOMAIN sc.saved :
          /\ sc.saved[fd].entry \in Entry
          /\ sc.saved[fd].entry.write = CoprocIn => shell.writer
          /\ sc.saved[fd].entry.read = CoprocOut => shell.reader
    BY <1>10, <2>1 DEF Marks
  <2>3. \A fd \in DOMAIN sc.saved :
          /\ Overwrites(shell, fd, "read") => T[fd].read = sc.saved[fd].entry.read
          /\ Overwrites(shell, fd, "write") => T[fd].write = sc.saved[fd].entry.write
    BY <2>1
  <2> HIDE DEF renamed, dangling, covers
  <2>4. ASSUME NEW fd \in DOMAIN sc.saved \ named PROVE x[fd] = sc.saved[fd].entry
    <3> DEFINE e == sc.saved[fd].entry
               g == x[fd]
    <3>1. Matches(g, e, coproc)
      BY <1>18
    <3>2. e \in Entry /\ (coproc = "gone" => e.write # CoprocIn /\ e.read # CoprocOut)
      BY <1>1, <2>2 DEF Good
    <3>3. g \in Entry
      <4>1. fd \in DOMAIN x
        BY <1>18
      <4> QED BY <1>16, <4>1, SomeFdsAre
    <3> HIDE DEF e, g
    <3>4. e.write # CoprocOut /\ e.read # CoprocIn
      BY <3>2, ReadEndIs, WriteEndIs DEF Entry
    <3>5. g.read = e.read /\ g.write = e.write
      BY <3>1, <3>2, <3>4 DEF Matches
    <3> QED BY <3>2, <3>3, <3>5 DEF Entry, e, g
  <2>5. \A fd \in Fds : IsPsub(T[fd].write) => B[fd].write = T[fd].write
    BY <1>12, <2>3 DEF Overwrites, IsPsub
  <2>6. \A fd \in Fds : IsPsub(B[fd].write) => B[fd].write = T[fd].write
    <3> SUFFICES ASSUME NEW fd \in Fds, IsPsub(B[fd].write), fd \in DOMAIN sc.saved
                 PROVE  B[fd].write = T[fd].write
      BY <1>12
    <3>1. B[fd] = sc.saved[fd].entry
      BY <1>12
    <3>2. fd \notin named
      BY <1>18, <3>1 DEF Ordinary
    <3>3. x[fd] = B[fd] /\ fd \in DOMAIN x /\ 1 \in 1..Len(promised.scopes)
      <4>1. 1 \in 1..Len(promised.scopes)
        BY <1>1, <1>7, PoppedIs
      <4> QED BY <1>18, <2>4, <3>1, <3>2, <4>1
    <3>4. Leads(T, "write", B[fd].write)
      BY <1>1, <3>3, SavedIsOpen DEF Good, x
    <3>5. PICK f \in Fds : T[f].write = B[fd].write
      BY <3>4 DEF Leads
    <3>6. f = fd
      BY <1>1, <3>3, <3>5 DEF Good, Placed, x
    <3> QED BY <3>5, <3>6
  <2>7. Whole(back, opened)
    <3>1. MirrorTrue(back)
      BY <1>1, <1>13, <2>5, <2>6 DEF Whole, MirrorTrue
    <3>2. OnePlace(B)
      BY <1>1, <2>6 DEF Whole, OnePlace
    <3>3. \A n \in 1..MaxOpens : Leads(B, "write", <<"psub", n>>) <=> Leads(T, "write", <<"psub", n>>)
      <4> TAKE n \in 1..MaxOpens
      <4>1. \A f \in Fds : B[f].write = <<"psub", n>> <=> T[f].write = <<"psub", n>>
        BY <2>5, <2>6, PsubIs
      <4> QED BY <4>1 DEF Leads
    <3>4. AllOpened(B, opened) /\ RanOnce(back, opened)
      BY <1>1, <1>13, <3>3 DEF Whole, AllOpened, RanOnce
    <3>5. /\ \A fd \in Fds : T[fd].write = CoprocIn => B[fd].write = CoprocIn
          /\ \A fd \in Fds : T[fd].read = CoprocOut => B[fd].read = CoprocOut
      <4>1. CoprocIn[1] = "coproc stdin" /\ CoprocOut[1] = "coproc stdout"
        BY DEF CoprocIn, CoprocOut
      <4> QED BY <1>12, <2>3, <4>1 DEF Overwrites
    <3>6. shell.writer <=> Leads(B, "write", CoprocIn)
      BY <1>1, <1>12, <2>2, <3>5 DEF Whole, PipesHeld, Leads
    <3>7. shell.reader <=> Leads(B, "read", CoprocOut)
      BY <1>1, <1>12, <2>2, <3>5 DEF Whole, PipesHeld, Leads
    <3> QED BY <1>13, <3>1, <3>2, <3>4, <3>6, <3>7 DEF Whole, PipesHeld
  <2>8. /\ Whole(after, opened) /\ after.table = p.files /\ Inherits(after.table, B)
    <3>1. p.files \in [Fds -> Entry]
      BY <1>16 DEF Promises
    <3>2. CASE sc.names = << >>
      <4>1. after = back /\ named = {}
        BY <3>2
      <4>2. \A fd \in Fds : B[fd] = p.files[fd]
        BY <1>12, <1>16, <1>18, <2>4, <4>1
      <4>3. B = p.files
        BY <1>11, <3>1, <4>2 DEF Tables
      <4>4. Inherits(B, B)
        BY DEF Inherits
      <4> QED BY <1>13, <2>7, <4>1, <4>3, <4>4
    <3>3. CASE sc.names # << >>
      <4> DEFINE nv == sc.var["v"]
      <4>1. named = {nv} /\ shell.var["v"] = nv /\ sc.names[1] = "v"
        BY <1>14, <2>1, <3>3 DEF renamed
      <4>2. nv \in Fds /\ nv # Unset /\ x[nv] = NoFile
        BY <1>1, <1>18, <4>1, AllottedIs
      <4>3. after = CloseBoth(back, nv, fails) /\ (fails => back.table[nv].read = None)
        <5>1. last = nv
          BY <1>13, <3>3, <4>1
        <5> HIDE DEF last
        <5> QED BY <1>9, <1>19, <4>2, <5>1
      <4> HIDE DEF nv, after, named
      <4>4. Whole(after, opened) /\ after.table = PutNone(B, nv)
        BY <1>13, <1>20, <2>7, <4>2, <4>3, CloseBothWhole
      <4>5. /\ PutNone(B, nv) \in Tables /\ Inherits(PutNone(B, nv), B) /\ PutNone(B, nv)[nv] = NoFile
            /\ \A f \in Fds \ {nv} : PutNone(B, nv)[f] = B[f]
        BY <1>11, <4>2, PutNoneIs
      <4>6. \A fd \in Fds : PutNone(B, nv)[fd] = p.files[fd]
        <5> TAKE fd \in Fds
        <5>1. CASE fd = nv
          BY <1>16, <1>18, <4>1, <4>2, <4>5, <5>1
        <5>2. CASE fd # nv
          <6>1. B[fd] = p.files[fd]
            BY <1>12, <1>16, <1>18, <2>4, <4>1, <5>2
          <6> QED BY <4>5, <5>2, <6>1
        <5> QED BY <5>1, <5>2
      <4>7. PutNone(B, nv) = p.files
        BY <3>1, <4>5, <4>6 DEF Tables
      <4> QED BY <4>4, <4>5, <4>7
    <3> QED BY <3>2, <3>3
  <2>9. Placed(after.table, Tail(promised.scopes))
    <3>1. \A f \in Fds : IsPsub(after.table[f].write) => after.table[f].write = shell.table[f].write
      BY <2>6, <2>8 DEF Inherits
    <3>2. Placed(after.table, promised.scopes)
      BY <1>1, <3>1, PlacedStays
    <3> QED BY <1>1, <1>7, <3>2, PlacedPopped
  <2>10. coproc' = "gone" => ~after.writer /\ ~after.reader
    <3>1. coproc = "gone" => ~Leads(B, "write", CoprocIn) /\ ~Leads(B, "read", CoprocOut)
      BY <1>1, <1>13, <2>7 DEF Good, Whole, PipesHeld
    <3>2. coproc = "gone" => ~Leads(after.table, "write", CoprocIn) /\ ~Leads(after.table, "read", CoprocOut)
      BY <2>8, <3>1 DEF Inherits
    <3> QED BY <1>2, <2>8, <3>2 DEF Whole, PipesHeld
  <2> HIDE DEF after
  <2> QED BY <1>2, <1>7, <1>9, <1>16, <2>1, <2>8, <2>9, <2>10 DEF Good
<1> QED BY <1>17, <1>19 DEF DInv

-------------------------------------------------------------------------------
(* The invariant holds, and says what is promised.                            *)

LEMMA DInit == DescriptorsInit => DInv
<1> SUFFICES ASSUME DescriptorsInit PROVE DInv
  OBVIOUS
<1>1. /\ shell = Start /\ scopes = << >> /\ coproc = "none" /\ opened = << >> /\ departed = {}
      /\ promised = [files |-> Start.table, scopes |-> << >>]
  BY DEF DescriptorsInit
<1>2. MaxOpens \in Nat /\ MaxScopes \in Nat /\ Fds \subseteq Nat
  BY DescriptorsAssumption
<1>3. \A fd \in Fds : /\ Start.table[fd] \in Entry /\ ~IsPsub(Start.table[fd].write)
                      /\ Start.table[fd].write # CoprocIn /\ Start.table[fd].read # CoprocOut
  <2> TAKE fd \in Fds
  <2> DEFINE e == CASE fd = 1 -> [read |-> None, write |-> <<"stdout">>]
                    [] fd = 2 -> [read |-> None, write |-> <<"stderr">>]
                    [] OTHER -> NoFile
  <2>1. Start.table[fd] = e
    BY DEF Start
  <2>2. <<"stdout">> # CoprocIn /\ <<"stderr">> # CoprocIn /\ ~IsPsub(<<"stdout">>) /\ ~IsPsub(<<"stderr">>)
    BY DEF CoprocIn, IsPsub
  <2>3. e \in {[read |-> None, write |-> <<"stdout">>], [read |-> None, write |-> <<"stderr">>], NoFile}
    <3>1. fd = 1 \/ fd = 2 \/ (fd # 1 /\ fd # 2)
      OBVIOUS
    <3> QED BY <3>1
  <2> HIDE DEF e
  <2>4. e \in Entry /\ ~IsPsub(e.write) /\ e.write # CoprocIn /\ e.read # CoprocOut
    BY <2>2, <2>3, EndsDiffer DEF Entry
  <2> QED BY <2>1, <2>4
<1>4. Start \in Shells
  <2>1. Start.table \in [Fds -> Entry]
    <3>1. Start.table = [fd \in Fds |-> Start.table[fd]]
      BY DEF Start
    <3> QED BY <1>3, <3>1
  <2>2. Start.mirror \in [Fds -> Mirrors] /\ Start.var \in Vars /\ Start.ran \in [1..MaxOpens -> Nat]
    BY EndsDiffer DEF Start, Vars
  <2>3. Start.shut \in SUBSET Fds /\ Start.writer \in BOOLEAN /\ Start.reader \in BOOLEAN
    BY DEF Start
  <2>4. Start = [table |-> Start.table, mirror |-> Start.mirror, shut |-> Start.shut, var |-> Start.var,
                 writer |-> Start.writer, reader |-> Start.reader, ran |-> Start.ran]
    BY DEF Start
  <2> QED BY <2>1, <2>2, <2>3, <2>4 DEF Shells
<1>5. DTypes
  <2>1. << >> \in Seq(SomeFds(Entry)) /\ << >> \in Seq(Compounds \cup Subshells)
          /\ << >> \in Seq({"in", "out", "rw", "psub", "refused"}) /\ Len(<< >>) = 0
    BY EmptySeq
  <2>2. promised \in Promises
    BY <1>1, <1>4, <2>1 DEF Promises, Shells
  <2> QED BY <1>1, <1>2, <1>4, <2>1, <2>2 DEF DTypes
<1>6. Good
  <2>1. MirrorTrue(Start)
    BY <1>3, EndsDiffer DEF MirrorTrue, Start
  <2>2. OnePlace(Start.table)
    BY <1>3 DEF OnePlace
  <2>3. \A n \in 1..MaxOpens : ~Leads(Start.table, "write", <<"psub", n>>)
    BY <1>3, PsubIs DEF Leads
  <2>4. AllOpened(Start.table, << >>)
    BY <2>3 DEF AllOpened
  <2>5. RanOnce(Start, << >>)
    BY <2>3 DEF RanOnce, IsOpened, Start
  <2>6. PipesHeld(Start)
    <3>1. ~Start.writer /\ ~Start.reader
      BY DEF Start
    <3> QED BY <1>3, <3>1 DEF PipesHeld, Leads
  <2>7. Whole(shell, opened)
    BY <1>1, <2>1, <2>2, <2>4, <2>5, <2>6 DEF Whole
  <2>8. Len(<< >>) = 0 /\ DOMAIN << >> = {}
    OBVIOUS
  <2>9. Kept(<< >>, << >>, coproc) /\ Placed(shell.table, << >>)
    BY <2>8 DEF Kept, Placed
  <2>10. ~OnlySaved(shell, promised)
    BY <1>1, <2>8 DEF OnlySaved
  <2> QED BY <1>1, <2>7, <2>9, <2>10 DEF Good
<1> QED BY <1>5, <1>6 DEF DInv

LEMMA DStep == DInv /\ [DescriptorsNext]_dVars => DInv'
<1> SUFFICES ASSUME DInv, [DescriptorsNext]_dVars PROVE DInv'
  OBVIOUS
<1>1. CASE UNCHANGED dVars
  <2>1. /\ shell' = shell /\ scopes' = scopes /\ coproc' = coproc /\ opened' = opened
        /\ promised' = promised /\ departed' = departed
    BY <1>1 DEF dVars
  <2>2. DTypes => DTypes'
    BY <2>1 DEF DTypes
  <2>3. Good => Good'
    BY <2>1 DEF Good
  <2> QED BY <2>1, <2>2, <2>3 DEF DInv
<1>2. CASE Uses({"exec"}) /\ \E kind \in Kinds, fd \in Numbered : ExecOpen(kind, fd)
  BY <1>2, ExecOpenKeeps DEF Uses, Followed, Kinds
<1>3. CASE Uses({"exec", "copy"}) /\ \E fd, source \in Fds, side \in SideNames, move \in BOOLEAN :
             ExecCopy(fd, side, source, move)
  BY <1>3, ExecCopyKeeps DEF Uses, Followed
<1>4. CASE Uses({"exec", "close"}) /\ \E fd \in Fds, side \in SideNames : ExecClose(fd, side)
  BY <1>4, ExecCloseKeeps DEF Uses, Followed
<1>5. CASE Uses({"command"}) /\ \E name \in {"v", "r"}, kind \in Kinds \ {"rw"}, by \in By, auto \in BOOLEAN :
             VarOpen(name, kind, by, auto)
  <2>1. PICK name \in {"v", "r"}, kind \in Kinds \ {"rw"}, by \in By, auto \in BOOLEAN :
          VarOpen(name, kind, by, auto)
    BY <1>5
  <2>2. kind \in {"in", "out", "psub"} /\ departed = {}
    BY <1>5 DEF Kinds, Uses, Followed
  <2> QED BY <2>1, <2>2, VarOpenKeeps
<1>6. CASE Uses({"command", "copy"}) /\ \E name \in {"v", "r"}, side \in SideNames, source \in Fds,
             move \in BOOLEAN, by \in By : VarCopy(name, side, source, move, by)
  BY <1>6, VarCopyKeeps DEF Uses, Followed
<1>7. CASE Uses({"command", "close"}) /\ \E name \in Names \ {"r"}, side \in SideNames, by \in By :
             VarClose(name, side, by)
  BY <1>7, VarCloseKeeps DEF Uses, Followed
<1>8. CASE Uses({"compound"}) /\ \E list \in RedirectionLists : EnterCompound(list)
  BY <1>8, EnterCompoundKeeps DEF Uses, Followed
<1>9. CASE Followed /\ LeaveCompound
  BY <1>9, LeaveCompoundKeeps DEF Followed
<1>10. CASE Uses({"subshell"}) /\ EnterSubshell
  BY <1>10, EnterSubshellKeeps DEF Uses, Followed
<1>11. CASE Followed /\ LeaveSubshell
  BY <1>11, LeaveSubshellKeeps DEF Followed
<1>12. CASE Uses({"coproc"}) /\ StartCoproc
  BY <1>12, StartCoprocKeeps DEF Uses, Followed
<1>13. CASE Followed /\ CoprocEnds
  BY <1>13, CoprocEndsKeeps DEF Followed
<1>14. CASE Followed /\ \E fd \in Fds : ReadToEnd(fd)
  BY <1>14, ReadToEndKeeps DEF Followed
<1>17. CASE Followed /\ ReadToEndThrough0
  BY <1>17, ReadToEndThrough0Keeps DEF Followed
<1>15. CASE Followed /\ RetireCoproc
  BY <1>15, RetireCoprocKeeps DEF Followed
<1>16. CASE Followed /\ ForgetCoproc
  BY <1>16, ForgetCoprocKeeps DEF Followed
<1> QED BY <1>1, <1>2, <1>3, <1>4, <1>5, <1>6, <1>7, <1>8, <1>9, <1>10, <1>11, <1>12, <1>13,
           <1>14, <1>15, <1>16, <1>17 DEF DescriptorsNext

\* What the promise can still reach is what the table leads to.
LEMMA ReachableIs ==
  ASSUME DTypes, Good
  PROVE  /\ Reachable(promised, CoprocIn) <=> Leads(shell.table, "write", CoprocIn)
         /\ Reachable(promised, CoprocOut) <=> Leads(shell.table, "read", CoprocOut)
         /\ \A n \in 1..MaxOpens :
              Reachable(promised, <<"psub", n>>) <=> Leads(shell.table, "write", <<"psub", n>>)
<1> DEFINE T == shell.table
           ps == promised.scopes
<1>1. T = promised.files /\ T \in Tables /\ DOMAIN T = Fds /\ ps \in Seq(SomeFds(Entry)) /\ DOMAIN ps = 1..Len(ps)
  BY DEF Good, DTypes, Shells, Tables, Promises
<1>2. \A i \in 1..Len(ps), fd \in Fds : fd \in DOMAIN ps[i] =>
        /\ ps[i][fd] \in Entry
        /\ IsPsub(ps[i][fd].write) => Leads(T, "write", ps[i][fd].write)
        /\ ps[i][fd].write = CoprocIn => Leads(T, "write", CoprocIn)
        /\ ps[i][fd].read = CoprocOut => Leads(T, "read", CoprocOut)
  BY SavedIsOpen DEF Good
<1>3. \A i \in 1..Len(ps) : DOMAIN ps[i] \subseteq Fds
  <2> TAKE i \in 1..Len(ps)
  <2>1. ps[i] \in SomeFds(Entry)
    <3> HIDE DEF ps
    <3> QED BY <1>1
  <2> QED BY <2>1, SomeFdsAre
<1>4. \A fd \in Fds : T[fd] \in Entry
  BY <1>1 DEF Tables
<1>5. \A e \in Entry : e.read # CoprocIn /\ e.write # CoprocOut
  BY ReadEndIs, WriteEndIs DEF Entry
<1>6. \A e \in Entry : ~IsPsub(e.read)
  BY ReadEndIs DEF Entry
<1>7. \A end : Reachable(promised, end) <=>
        \/ \E fd \in Fds : T[fd].read = end \/ T[fd].write = end
        \/ \E i \in 1..Len(ps) : \E fd \in DOMAIN ps[i] : ps[i][fd].read = end \/ ps[i][fd].write = end
  BY <1>1 DEF Reachable
<1> HIDE DEF T, ps
<1>8. Reachable(promised, CoprocIn) <=> Leads(T, "write", CoprocIn)
  BY <1>2, <1>3, <1>4, <1>5, <1>7 DEF Leads
<1>9. Reachable(promised, CoprocOut) <=> Leads(T, "read", CoprocOut)
  BY <1>2, <1>3, <1>4, <1>5, <1>7 DEF Leads
<1>10. ASSUME NEW n \in 1..MaxOpens
       PROVE  Reachable(promised, <<"psub", n>>) <=> Leads(T, "write", <<"psub", n>>)
  <2> DEFINE end == <<"psub", n>>
  <2>1. IsPsub(end)
    BY PsubIs
  <2> HIDE DEF end
  <2>2. Reachable(promised, end) <=> Leads(T, "write", end)
    BY <1>2, <1>3, <1>4, <1>6, <1>7, <2>1 DEF Leads
  <2> QED BY <2>2 DEF end
<1> QED BY <1>8, <1>9, <1>10 DEF T

LEMMA DInvSound == DInv => DescriptorsSound
<1> SUFFICES ASSUME DInv PROVE DescriptorsSound
  OBVIOUS
<1>1. DTypes
  BY DEF DInv
<1>2. DescriptorsTypeOK
  <2>1. ReadEnds \subseteq Ends /\ WriteEnds \subseteq Ends
    BY DEF ReadEnds, WriteEnds, Ends
  <2>2. \A fd \in Fds : shell.table[fd] \in [read : Ends, write : Ends]
    BY <1>1, <2>1 DEF DTypes, Shells, Entry
  <2>3. \A fd \in Fds : shell.mirror[fd] \in Mirrors
    BY <1>1 DEF DTypes, Shells
  <2>4. shell.shut \subseteq Fds /\ \A name \in Names : shell.var[name] \in Fds \cup {Unset}
    BY <1>1 DEF DTypes, Shells, Vars
  <2> QED BY <1>1, <2>2, <2>3, <2>4 DEF DescriptorsTypeOK, Mirrors, DTypes
<1>3. CASE departed # {}
  BY <1>2, <1>3 DEF DescriptorsSound, DescriptorsAsPromised, CoprocPipesReachable, SubstitutionsRunOnce
<1>4. CASE departed = {}
  <2>1. Good
    BY <1>4 DEF DInv
  <2>2. DescriptorsAsPromised
    BY <2>1 DEF Good, DescriptorsAsPromised
  <2>3. CoprocPipesReachable
    BY <1>1, <2>1, ReachableIs DEF Good, Whole, PipesHeld, CoprocPipesReachable
  <2>4. SubstitutionsRunOnce
    <3> SUFFICES ASSUME NEW n \in DOMAIN opened, opened[n] = "psub"
                 PROVE  shell.ran[n] = IF Reachable(promised, <<"psub", n>>) THEN 0 ELSE 1
      BY DEF SubstitutionsRunOnce
    <3>1. n \in 1..MaxOpens
      <4>1. n \in 1..Len(opened) /\ Len(opened) \in Nat /\ Len(opened) <= MaxOpens /\ MaxOpens \in Nat
        BY <1>1, DescriptorsAssumption DEF DTypes
      <4> QED BY <4>1
    <3>2. IsOpened(n, opened)
      BY DEF IsOpened
    <3>3. shell.ran[n] = IF IsOpened(n, opened) /\ ~Leads(shell.table, "write", <<"psub", n>>) THEN 1 ELSE 0
      BY <2>1, <3>1 DEF Good, Whole, RanOnce
    <3>4. Reachable(promised, <<"psub", n>>) <=> Leads(shell.table, "write", <<"psub", n>>)
      BY <1>1, <2>1, <3>1, ReachableIs
    <3> QED BY <3>2, <3>3, <3>4
  <2> QED BY <1>2, <2>2, <2>3, <2>4 DEF DescriptorsSound
<1> QED BY <1>3, <1>4

(* For any descriptors, any features of a script and any nesting of compound  *)
(* commands and subshells: what with_command_input_redirects, the redirections *)
(* of exec and those with a variable leave behind is what they promise, as    *)
(* long as the script stays clear of the departures.                          *)
THEOREM DescriptorsAlwaysSound == DescriptorsSpec => []DescriptorsSound
<1>1. DescriptorsInit => DInv
  BY DInit
<1>2. DInv /\ [DescriptorsNext]_dVars => DInv'
  BY DStep
<1>3. DInv => DescriptorsSound
  BY DInvSound
<1> QED BY <1>1, <1>2, <1>3, PTL DEF DescriptorsSpec

===============================================================================
