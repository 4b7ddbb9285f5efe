---------------------------- MODULE MCConditions ----------------------------
(* Conditions by their tree: a behaviour grows one, and test, [ and [[ ]]     *)
(* should make of its words what the tree means.                              *)
EXTENDS MCWords, Tests

\* A term, by its words, what it is and what it is in [[ ]].
TermOf(words, value) == [is |-> "term", words |-> words, value |-> value]
NotOf(e) == [is |-> "not", e |-> e]
GroupedOf(e) == [is |-> "group", e |-> e]
JoinOf(l, and, r) == [is |-> "join", l |-> l, and |-> and, r |-> r]

\* How it is written, with the words for and and or.
RECURSIVE WordsOfTree(_, _, _)
WordsOfTree(t, and, or) ==
  CASE t.is = "term" -> t.words
    [] t.is = "not" -> <<"!">> \o WordsOfTree(t.e, and, or)
    [] t.is = "group" -> <<"(">> \o WordsOfTree(t.e, and, or) \o <<")">>
    [] t.is = "join" -> WordsOfTree(t.l, and, or) \o <<IF t.and THEN and ELSE or>> \o WordsOfTree(t.r, and, or)

\* 0, 1, or 2 for an error: anywhere for test, where it is come to for [[ ]].
RECURSIVE TreeStatus(_)
JoinedStatus(l, and, r) == IF 2 \in {l, r} THEN 2 ELSE IF and THEN (IF l = 0 THEN r ELSE 1) ELSE (IF l = 0 THEN 0 ELSE r)
NegatedStatus(e) == IF e = 2 THEN 2 ELSE 1 - e
TreeStatus(t) ==
  CASE t.is = "term" -> t.value
    [] t.is = "not" -> NegatedStatus(TreeStatus(t.e))
    [] t.is = "group" -> TreeStatus(t.e)
    [] t.is = "join" -> JoinedStatus(TreeStatus(t.l), t.and, TreeStatus(t.r))
RECURSIVE TreeLooked(_)
JoinedLooked(t, l) == IF (l.status = 0) = t.and THEN Then(l, TreeLooked(t.r)) ELSE l
TreeLooked(t) ==
  CASE t.is = "term" -> Looked(t.value, <<t.words>>)
    [] t.is = "not" -> LET r == TreeLooked(t.e) IN Looked(IF r.status = 0 THEN 1 ELSE 0, r.seen)
    [] t.is = "group" -> TreeLooked(t.e)
    [] t.is = "join" -> JoinedLooked(t, TreeLooked(t.l))

-----------------------------------------------------------------------------
(* The conditions                                                             *)

\* Words that are operators elsewhere, words of nothing, errors.
MCTestTerms ==
  {TermOf(<<"x">>, 0), TermOf(<<"">>, 1), TermOf(<<"!">>, 0), TermOf(<<"(">>, 0), TermOf(<<"-n">>, 0),
   TermOf(<<"-n", "x">>, 0), TermOf(<<"-z", "=">>, 1), TermOf(<<"-f", "f">>, 0), TermOf(<<"-n", "-a">>, 0),
   TermOf(<<"-t", "x">>, 1), TermOf(<<"x", "=", "x">>, 0), TermOf(<<"!", "=", "x">>, 1), TermOf(<<"(", "=", ")">>, 1),
   TermOf(<<"1", "-eq", "1">>, 0), TermOf(<<"x", "-eq", "1">>, 2)}
MCConditionTerms ==
  {TermOf(<<"x">>, 0), TermOf(<<"">>, 1), TermOf(<<"-n", "x">>, 0), TermOf(<<"-f", "x">>, 1), TermOf(<<"-z", "==">>, 1),
   TermOf(<<"x", "==", "1">>, 1), TermOf(<<"!", "==", "x">>, 1), TermOf(<<"(", "==", "(">>, 0), TermOf(<<"x", "==", "&&">>, 1),
   TermOf(<<"1", "-eq", "1">>, 0), TermOf(<<"x", "-eq", "1">>, 1),
   TermOf(<<"x", "=~", "(", "x", ")">>, 0), TermOf(<<"1", "=~", "x", "|", "1">>, 0), TermOf(<<"x", "=~", "*">>, 2)}

TermsFor(s) == IF s.is = "test" THEN MCTestTerms ELSE MCConditionTerms
TreeInit ==
  \E what \in {"test", "condition"} : \E t \in TermsFor([is |-> what]) : subject = [is |-> what, tree |-> t, size |-> 1]
Grow(tree) == subject' = [subject EXCEPT !.tree = tree, !.size = @ + 1]
IsConditions == subject.is \in {"test", "condition"} /\ subject.size < 3
IsOr(t) == t.is = "join" /\ ~t.and
NegateIt == IsConditions /\ subject.tree.is # "join" /\ Grow(NotOf(subject.tree))
GroupIt == IsConditions /\ Grow(GroupedOf(subject.tree))
JoinIt ==
  /\ IsConditions
  /\ \E t \in TermsFor(subject), and \in BOOLEAN :
       /\ and => ~IsOr(subject.tree)
       /\ \/ Grow(JoinOf(subject.tree, and, t))
          \/ Grow(JoinOf(t, and, subject.tree))

TestWords == WordsOfTree(subject.tree, "-a", "-o")
RECURSIVE TermsIn(_)
TermsIn(t) ==
  CASE t.is = "term" -> {t}
    [] t.is = "join" -> TermsIn(t.l) \cup TermsIn(t.r)
    [] OTHER -> TermsIn(t.e)
\* A word of a longer expression that is an operator too is taken for it.
AsOperator ==
  subject.tree.is # "term" /\ \E t \in TermsIn(subject.tree) : t.words[1] \in {"!", "("} \/ t.words \in {<<"-n">>, <<"-z", "=">>}
\* With four words ! is of all the others.
NegatesAll == subject.tree.is = "join" /\ Len(TestWords) = 4 /\ TestWords[1] = "!"
\* -t leaves the word that is no number, unless it is one of two.
LeftOver == subject.tree.is # "term" /\ \E t \in TermsIn(subject.tree) : t.words[1] = "-t"
TestSound == subject.is = "test" /\ ~(AsOperator \/ NegatesAll \/ LeftOver) => TestStatus(TestWords) = TreeStatus(subject.tree)

\* A quoted word that looks like a parenthesis, && or ! is one.
QuotedTaken ==
  \E t \in TermsIn(subject.tree) :
    \/ t.words[1] = "!"
    \/ Len(t.words) = 3 /\ ({"(", "&&"} \cap ToSet(t.words) # {})
\* The 2 of a regular expression that is none is 1 after &&.
ErrorForgotten == "&&" \in ToSet(WordsOfTree(subject.tree, "&&", "||")) /\ <<"x", "=~", "*">> \in {t.words : t \in TermsIn(subject.tree)}
ConditionSound == subject.is = "condition" /\ ~(QuotedTaken \/ ErrorForgotten) =>
  Condition(WordsOfTree(subject.tree, "&&", "||")) = TreeLooked(subject.tree)

-----------------------------------------------------------------------------
(* Patterns in [[ ]], and -v                                                  *)

MCPatternItems == {Star, One, Char("a"), Char("A"), Quoted("*"), Quoted("a"), Quoted("["), Class(TRUE, <<"a">>, FALSE)}
MCCompared == {<< >>, <<"a">>, <<"A">>, <<"*">>, <<"[">>, <<"a", "b">>, <<"*", "a">>, <<"a", "*">>}
\* like: a text that looks like an array's.
MCVariables ==
  {[kind |-> k, pieces |-> pieces, in_table |-> t, in_process |-> p] :
     k \in {"scalar", "like", "indexed", "assoc"}, t \in BOOLEAN, p \in BOOLEAN,
     pieces \in UNION {[keys -> 1..2] : keys \in SUBSET {0, 2}}}
MCSubscripts == {[is |-> "none"], [is |-> "all"]} \cup {[is |-> "key", key |-> n] : n \in -3..3}
ComparisonInit == subject = [is |-> "comparison", items |-> << >>]
VariableInit ==
  \E v \in MCVariables, s \in MCSubscripts :
    /\ v.kind = "scalar" /\ v.in_table => DOMAIN v.pieces = {0}
    /\ ~v.in_table => DOMAIN v.pieces = {}
    /\ subject = [is |-> "variable", v |-> v, subscript |-> s]
AddPatternItem ==
  /\ subject.is = "comparison" /\ Len(subject.items) < 3
  /\ \E i \in MCPatternItems : subject' = [subject EXCEPT !.items = Append(@, i)]

HasQuotes == \E k \in DOMAIN subject.items : subject.items[k].is = "char" /\ subject.items[k].quoted
QuotedText == FlattenSeq([k \in DOMAIN subject.items |->
  IF subject.items[k].is = "char" /\ subject.items[k].quoted THEN LiteralGlob(subject.items[k].c)
  ELSE WrittenPattern(<<subject.items[k]>>)])
\* nocasematch is forgotten where something is quoted.
ComparisonSound ==
  subject.is = "comparison" =>
  \A w \in MCCompared, nocase \in BOOLEAN :
    Compared(QuotedText, HasQuotes, w, nocase) = Means(subject.items, w, nocase /\ ~HasQuotes)

\* -v of the elements of an associative array is false, as of the last element
\* of a word; a text like an array's has its elements; what is no longer in the
\* table may be in the process; after a=("x y") there is an a[1].
SplitAtBlank(v) == v.kind = "indexed" /\ \E k \in DOMAIN v.pieces : v.pieces[k] > 1
ShouldBeSet(v, subscript) ==
  LET keys == DOMAIN v.pieces
  IN  CASE subscript.is = "all" -> keys # {}
        [] subscript.is = "none" -> 0 \in keys
        [] OTHER -> IF v.kind = "assoc" THEN subscript.key \in keys ELSE HasIndex(keys, subscript.key)
IsSetSound ==
  subject.is = "variable" =>
  LET v == subject.v
  IN  \/ v.kind = "like" \/ (~v.in_table /\ v.in_process) \/ SplitAtBlank(v)
      \/ v.kind = "assoc" /\ subject.subscript.is = "all"
      \/ v.kind = "scalar" /\ subject.subscript = [is |-> "key", key |-> -1]
      \/ VariableIsSet(v, subject.subscript) = ShouldBeSet(v, subject.subscript)

\* A condition is what its tree is: every term taken for what it was written as,
\* ! and and before or, the terms of [[ ]] looked at in order and no more than
\* needed, quoted characters of a pattern no operators, -v of what is there.
ConditionsAsWritten == TestSound /\ ConditionSound /\ ComparisonSound /\ IsSetSound

ConditionsInit == TreeInit \/ ComparisonInit \/ VariableInit
ConditionsNext == AddPatternItem \/ NegateIt \/ GroupIt \/ JoinIt
ConditionsSpec == ConditionsInit /\ [][ConditionsNext]_subject
=============================================================================
