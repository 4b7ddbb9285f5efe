------------------------------ MODULE OpenFiles ------------------------------
(* What redirections promise, with none of the bookkeeping of the shell: a    *)
(* descriptor has a reading and a writing side, each of them an end of some   *)
(* open file or nothing. `exec` changes descriptors for good; a compound      *)
(* command changes those it names until it ends.                              *)
(*                                                                            *)
(* (Bash's descriptors have one side. That `exec 3>f` leaves what 3 reads as  *)
(* it was is the design of the capability-sided table the code has.)          *)
EXTENDS Sequences

None == <<"none">>
NoFile == [read |-> None, write |-> None]

\* A state is [files: descriptor -> sides, scopes: what the compound commands
\* being run give back at their end, innermost first].

SetSide(p, fd, side, end) == [p EXCEPT !.files[fd][side] = end]

\* A copy of something not open leaves the target closed on that side.
Copied(p, fd, side, source, move) ==
  LET copy == SetSide(p, fd, side, p.files[source][side])
  IN  IF move THEN SetSide(copy, source, side, None) ELSE copy

Shut(p, fd) == [p EXCEPT !.files[fd] = NoFile]

\* opens: the sides the command's redirections give to descriptors.
Entered(p, opens) ==
  [files |-> [fd \in DOMAIN p.files |-> IF fd \in DOMAIN opens
                THEN [side \in {"read", "write"} |->
                       IF opens[fd][side] = None THEN p.files[fd][side] ELSE opens[fd][side]]
                ELSE p.files[fd]],
   scopes |-> <<[fd \in DOMAIN opens |-> p.files[fd]]>> \o p.scopes]

Left(p) ==
  [files |-> [fd \in DOMAIN p.files |-> IF fd \in DOMAIN p.scopes[1]
                THEN p.scopes[1][fd] ELSE p.files[fd]],
   scopes |-> Tail(p.scopes)]

\* An end that is gone, for every descriptor that names it.
Gone(p, ends) ==
  LET Without(sides) == [side \in {"read", "write"} |->
                          IF sides[side] \in ends THEN None ELSE sides[side]]
  IN  [files |-> [fd \in DOMAIN p.files |-> Without(p.files[fd])],
       scopes |-> [i \in DOMAIN p.scopes |->
                    [fd \in DOMAIN p.scopes[i] |-> Without(p.scopes[i][fd])]]]

\* The end can still be reached, now or when a compound command ends.
Reachable(p, end) ==
  \/ \E fd \in DOMAIN p.files : \E side \in {"read", "write"} : p.files[fd][side] = end
  \/ \E i \in DOMAIN p.scopes : \E fd \in DOMAIN p.scopes[i] :
        \E side \in {"read", "write"} : p.scopes[i][fd][side] = end
=============================================================================
