-------------------------------- MODULE Tests --------------------------------
(* Conditions: test and [, which take their words as the number of them says  *)
(* and then by precedence, and [[ ]], whose words are taken apart once to see *)
(* that they are an expression and again to evaluate it.                      *)
(*                                                                            *)
(* A word is a string; of files there is f only, of numbers 1, and no shell   *)
(* option is on.                                                              *)
EXTENDS Patterns

-----------------------------------------------------------------------------
(* Operators                                                                  *)

IsUnaryOp(op) == op \in {"-n", "-z", "-f", "-a", "-o", "-t"}
IsBinaryOp(op) == op \in {"=", "-eq"}

\* A place in the words and what was found, or an error.
Gave(value, pos) == [value |-> value, pos |-> pos, error |-> FALSE]
Wrong == [value |-> FALSE, pos |-> 0, error |-> TRUE]
Negated(r) == [r EXCEPT !.value = ~@]
ToEnd(a, r) == [r EXCEPT !.pos = Len(a) + 1]

UnaryValue(op, w) ==
  CASE op = "-n" -> w # ""
    [] op = "-z" -> w = ""
    [] op \in {"-f", "-a"} -> w = "f"
    [] OTHER -> FALSE
\* -t takes a number only, and leaves what is none.
UnaryTest(a, pos) ==
  IF a[pos] = "-t" THEN Gave(FALSE, IF pos + 1 \in DOMAIN a /\ a[pos + 1] = "1" THEN pos + 2 ELSE pos + 1)
  ELSE IF pos + 1 \notin DOMAIN a THEN Wrong
  ELSE Gave(UnaryValue(a[pos], a[pos + 1]), pos + 2)
BinaryTest(a, pos) ==
  CASE a[pos + 1] = "=" -> Gave(a[pos] = a[pos + 2], pos + 3)
    [] a[pos + 1] = "-eq" -> IF {a[pos], a[pos + 2]} \subseteq {"1"} THEN Gave(TRUE, pos + 3) ELSE Wrong

-----------------------------------------------------------------------------
(* test: as many words                                                        *)

TwoArguments(a, pos) ==
  IF a[pos] = "!" THEN Gave(a[pos + 1] = "", pos)
  ELSE IF IsUnaryOp(a[pos]) THEN UnaryTest(a, pos)
  ELSE Wrong
BothWords(a, pos, and) ==
  IF and THEN a[pos] # "" /\ a[pos + 2] # "" ELSE a[pos] # "" \/ a[pos + 2] # ""
ThreeArguments(a, pos) ==
  IF IsBinaryOp(a[pos + 1]) THEN ToEnd(a, BinaryTest(a, pos))
  ELSE IF a[pos + 1] \in {"-a", "-o"} THEN Gave(BothWords(a, pos, a[pos + 1] = "-a"), Len(a) + 1)
  ELSE IF a[pos] = "!" THEN ToEnd(a, Negated(TwoArguments(a, pos + 1)))
  ELSE IF a[pos] = "(" /\ a[pos + 2] = ")" THEN Gave(a[pos + 1] # "", Len(a) + 1)
  ELSE Wrong

-----------------------------------------------------------------------------
(* test: by precedence                                                        *)

RECURSIVE OrTest(_, _)
AfterParenthesis(a, r) ==
  IF r.error \/ r.pos > Len(a) \/ a[r.pos] # ")" THEN Wrong ELSE [r EXCEPT !.pos = @ + 1]
RECURSIVE TermTest(_, _)
TermTest_NoGroups(a, pos) == Gave(a[pos] # "", pos + 1)
TermTest(a, pos) ==
  IF pos > Len(a) THEN Wrong
  ELSE IF a[pos] = "!" THEN Negated(TermTest(a, pos + 1))
  ELSE IF a[pos] = "(" THEN AfterParenthesis(a, OrTest(a, pos + 1))
  ELSE IF pos + 2 <= Len(a) /\ IsBinaryOp(a[pos + 1]) THEN BinaryTest(a, pos)
  ELSE IF pos + 1 <= Len(a) /\ IsUnaryOp(a[pos]) THEN UnaryTest(a, pos)
  ELSE Gave(a[pos] # "", pos + 1)
\* Both sides are looked at, whatever the first one gives.
BothSides(l, r, and) ==
  IF l.error \/ r.error THEN Wrong ELSE Gave(IF and THEN l.value /\ r.value ELSE l.value \/ r.value, r.pos)
RECURSIVE AndTest(_, _)
AndRest(a, l) ==
  IF ~l.error /\ l.pos <= Len(a) /\ a[l.pos] = "-a" THEN BothSides(l, AndTest(a, l.pos + 1), TRUE) ELSE l
AndTest(a, pos) == AndRest(a, TermTest(a, pos))
OrRest(a, l) ==
  IF ~l.error /\ l.pos <= Len(a) /\ a[l.pos] = "-o" THEN BothSides(l, OrTest(a, l.pos + 1), FALSE) ELSE l
OrTest(a, pos) == OrRest(a, AndTest(a, pos))

\* posixtest, and the words that are left over.
PosixTest(a) ==
  CASE Len(a) = 0 -> Gave(FALSE, 1)
    [] Len(a) = 1 -> Gave(a[1] # "", 2)
    [] Len(a) = 2 -> ToEnd(a, TwoArguments(a, 1))
    [] Len(a) = 3 -> ThreeArguments(a, 1)
    [] Len(a) = 4 /\ a[1] = "!" -> Negated(ThreeArguments(a, 2))
    [] Len(a) = 4 /\ a[1] = "(" /\ a[4] = ")" -> ToEnd(a, TwoArguments(a, 2))
    [] OTHER -> OrTest(a, 1)
TestStatus(a) ==
  LET r == PosixTest(a) IN IF r.error \/ r.pos # Len(a) + 1 THEN 2 ELSE IF r.value THEN 0 ELSE 1

-----------------------------------------------------------------------------
(* [[ ]]: is it an expression                                                 *)

Open == "("
Shut == ")"
DepthAt(a, k) == Cardinality({i \in 1..k : a[i] = Open}) - Cardinality({i \in 1..k : a[i] = Shut})
\* Parentheses of a first and last word that belong together.
OuterGroup(a) ==
  /\ Len(a) >= 2 /\ a[1] = Open /\ a[Len(a)] = Shut /\ DepthAt(a, Len(a)) = 0
  /\ \A k \in 1..(Len(a) - 1) : DepthAt(a, k) > 0
WithoutEnds(a) == SubSeq(a, 2, Len(a) - 1)
\* The depth stays at 0 where more are closed than opened.
RECURSIVE FlatDepth(_, _)
FlatDepth(a, k) ==
  IF k = 0 THEN 0
  ELSE LET before == FlatDepth(a, k - 1)
       IN  IF a[k] = Open THEN before + 1 ELSE IF a[k] = Shut /\ before > 0 THEN before - 1 ELSE before
TopLevel(a, op) == {k \in DOMAIN a : a[k] = op /\ FlatDepth(a, k) = 0}
\* From the end, for the evaluation.
TopLevelBack(a, op) ==
  {k \in 2..(Len(a) - 1) : a[k] = op /\ FlatDepth([i \in 1..(Len(a) - k + 1) |->
     LET w == a[Len(a) + 1 - i] IN IF w = Open THEN Shut ELSE IF w = Shut THEN Open ELSE w], Len(a) - k + 1) = 0}

IsCondUnary(op) == op \in {"-n", "-z", "-f", "-o"}
IsCondBinary(op) == op \in {"==", "-eq", "=~"}
CanJoin(rhs) == Len(rhs) > 1 /\ {Open, Shut, "|"} \cap ToSet(rhs) # {}
RECURSIVE Invalid(_)
EitherInvalid(a, k) ==
  k = 1 \/ k = Len(a) \/ Invalid(To(a, k - 1)) \/ Invalid(From(a, k + 1))
Invalid(a) ==
  IF a = << >> THEN TRUE
  ELSE IF a[1] = "!" THEN Invalid(Tail(a))
  ELSE IF TopLevel(a, "||") # {} THEN EitherInvalid(a, Least(TopLevel(a, "||")))
  ELSE IF TopLevel(a, "&&") # {} THEN EitherInvalid(a, Least(TopLevel(a, "&&")))
  ELSE IF a[1] = Open /\ a[Len(a)] = Shut THEN Invalid(WithoutEnds(a))
  ELSE \/ DepthAt(a, Len(a)) # 0
       \/ Len(a) > 3 /\ ~IsCondUnary(a[1]) /\ ~(IsCondBinary(a[2]) /\ CanJoin(From(a, 3)))

-----------------------------------------------------------------------------
(* [[ ]]: its status, and the terms that were looked at                       *)

Looked(status, seen) == [status |-> status, seen |-> seen]
Then(l, r) == Looked(r.status, l.seen \o r.seen)

\* A number that is none is told and not equal; a regular expression that is
\* none gives 2. Of regular expressions there are
\* words, (x), x|1 and *, which is none.
TermStatus(a) ==
  CASE Len(a) = 2 /\ IsCondUnary(a[1]) -> IF UnaryValue(a[1], a[2]) THEN 0 ELSE 1
    [] Len(a) = 1 -> IF a[1] # "" THEN 0 ELSE 1
    [] Len(a) >= 3 /\ a[2] = "=~" ->
         IF a[3] = "*" THEN 2 ELSE IF a[1] \in ToSet(From(a, 3)) THEN 0 ELSE 1
    [] Len(a) = 3 /\ a[2] = "==" -> IF a[1] = a[3] THEN 0 ELSE 1
    [] Len(a) = 3 /\ a[2] = "-eq" -> IF {a[1], a[3]} \subseteq {"1"} THEN 0 ELSE 1
    [] OTHER -> 1

RECURSIVE CondStatus(_)
OrStatus(a, k, l) == IF l.status = 0 THEN l ELSE Then(l, CondStatus(From(a, k + 1)))
AndStatus_Both(a, k, l) == Then(l, CondStatus(From(a, k + 1)))
AndStatus(a, k, l) == IF l.status = 0 THEN Then(l, CondStatus(From(a, k + 1))) ELSE Looked(1, l.seen)
NotStatus(r) == Looked(IF r.status = 0 THEN 1 ELSE 0, r.seen)
CondStatus(a) ==
  IF a = << >> \/ a[1] = Shut THEN Looked(1, << >>)
  ELSE IF OuterGroup(a) THEN CondStatus(WithoutEnds(a))
  ELSE IF TopLevelBack(a, "||") # {} THEN LET k == Greatest(TopLevelBack(a, "||")) IN OrStatus(a, k, CondStatus(To(a, k - 1)))
  ELSE IF TopLevelBack(a, "&&") # {} THEN LET k == Greatest(TopLevelBack(a, "&&")) IN AndStatus(a, k, CondStatus(To(a, k - 1)))
  ELSE IF a[1] = "!" THEN NotStatus(CondStatus(Tail(a)))
  ELSE Looked(TermStatus(a), <<a>>)

\* The words of a condition, its ]] left out.
Refused == [status |-> 2, seen |-> << >>]
Condition(a) == IF Invalid(a) THEN Refused ELSE CondStatus(a)

-----------------------------------------------------------------------------
(* [[ ]]: a quoted pattern, and -v                                            *)

\* quote_aware_glob_rhs: what stands in quotes is escaped, of a pattern's items
\* the characters alone.
LiteralGlob(c) == IF c \in {"*", "?", "[", "\\"} THEN <<"\\", c>> ELSE <<c>>
ContainsGlob(p) == {"*", "?", "["} \cap ToSet(p) # {}
\* The case matters where something is quoted.
Compared(p, has_quotes, w, nocase) ==
  IF has_quotes \/ ContainsGlob(p) THEN Matches(p, w, nocase /\ ~has_quotes)
  ELSE Len(p) = Len(w) /\ \A k \in DOMAIN p : CharsMatch(p[k], w[k], nocase)

\* -v. A variable is in the table or not, an array by its mark or, with a subscript,
\* by its text. pieces says of each key into how many pieces blanks cut the value.
\* array_entries cuts the text of an array at blanks, those inside of values too: a
\* piece that begins no element has its place for an index.
Begins(v, key) == MapThenSumSet(LAMBDA k : v.pieces[k], {k \in DOMAIN v.pieces : k < key})
TextKeys_AllOfThem(v) == 0..(MapThenSumSet(LAMBDA k : v.pieces[k], DOMAIN v.pieces) - 1)
TextKeys(v) ==
  DOMAIN v.pieces \cup
    UNION {{Begins(v, k) + j : j \in 1..(v.pieces[k] - 1)} : k \in DOMAIN v.pieces}

\* A negative index counts from the greatest one; the keys of assoc are texts.
HasIndex(keys, n) == IF n >= 0 THEN n \in keys ELSE keys # {} /\ Greatest(keys) + 1 + n \in keys
HasKey(v, key) == IF v.kind = "assoc" THEN key \in DOMAIN v.pieces ELSE HasIndex(TextKeys(v), key)

\* variable_is_set, of v, v[@] and v[key].
VariableIsSet(v, subscript) ==
  CASE subscript.is = "all" ->
         v.kind # "assoc" /\ IF v.kind = "indexed" THEN v.in_table /\ TextKeys(v) # {} ELSE v.in_table \/ v.in_process
    [] subscript.is = "none" ->
         IF v.kind \in {"indexed", "assoc"} THEN v.in_table /\ HasKey(v, 0) ELSE v.in_table \/ v.in_process
    [] OTHER -> v.in_table /\ IF v.kind = "scalar" THEN subscript.key = 0 ELSE HasKey(v, subscript.key)
=============================================================================
