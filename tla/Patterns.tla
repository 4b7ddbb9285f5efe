------------------------------- MODULE Patterns -------------------------------
(* Shell patterns: the matcher behind case, [[ ]], pathnames and parameters,  *)
(* the one that knows extended patterns, and what ${v#p}, ${v%p} and ${v/p/r} *)
(* make of a value with them.                                                 *)
(*                                                                            *)
(* A pattern and a word are sequences of characters, the pattern's quoted     *)
(* ones behind a backslash. Named classes and collating symbols are left out. *)
EXTENDS Integers, Sequences, FiniteSets, SequencesExt

CONSTANT Alphabet   \* the letters, in their order

Lower(c) == IF c = "A" THEN "a" ELSE IF c = "B" THEN "b" ELSE c
CaseFolded(c, nocase) == IF nocase THEN Lower(c) ELSE c
CharsMatch(c, d, nocase) == CaseFolded(c, nocase) = CaseFolded(d, nocase)
Code(c) == CHOOSE k \in 0..Len(Alphabet) : IF c \in ToSet(Alphabet) THEN k > 0 /\ Alphabet[k] = c ELSE k = 0
Between(from, c, to, nocase) ==
  Code(CaseFolded(from, nocase)) <= Code(CaseFolded(c, nocase)) /\ Code(CaseFolded(c, nocase)) <= Code(CaseFolded(to, nocase))

From(s, i) == SubSeq(s, i, Len(s))
To(s, i) == SubSeq(s, 1, i)
CharAt(s, i) == IF i \in DOMAIN s THEN s[i] ELSE ""

-----------------------------------------------------------------------------
(* One character                                                              *)

\* case_bracket_expression_matches_with_case: ok and the place after the ], or
\* 0 if there is none. A ] is a member if it comes first, or is quoted.
RECURSIVE BracketFrom(_, _, _, _, _, _)
BracketFrom(p, i, c, nocase, first, found) ==
  IF i > Len(p) THEN [ok |-> FALSE, next |-> 0]
  ELSE IF p[i] = "]" /\ ~first THEN [ok |-> found, next |-> i + 1]
  ELSE LET quoted == p[i] = "\\" /\ i < Len(p)
           range == ~quoted /\ i + 2 <= Len(p) /\ p[i + 1] = "-" /\ p[i + 2] # "]"
           hit == IF quoted THEN CharsMatch(p[i + 1], c, nocase)
                  ELSE IF range THEN Between(p[i], c, p[i + 2], nocase)
                  ELSE CharsMatch(p[i], c, nocase)
       IN  BracketFrom(p, i + (IF quoted THEN 2 ELSE IF range THEN 3 ELSE 1), c, nocase, FALSE, found \/ hit)
Bracket(p, i, c, nocase) ==
  LET negated == CharAt(p, i + 1) \in {"!", "^"}
      inside == BracketFrom(p, i + (IF negated THEN 2 ELSE 1), c, nocase, TRUE, FALSE)
  IN  [inside EXCEPT !.ok = @ # negated]

\* case_pattern_atom_matches: c against the atom at i, and the place after it.
AtomMatch(p, i, c, nocase) ==
  LET bracket == IF p[i] = "[" THEN Bracket(p, i, c, nocase) ELSE [ok |-> FALSE, next |-> 0]
  IN  CASE p[i] = "?" -> [ok |-> TRUE, next |-> i + 1]
        [] p[i] = "[" /\ bracket.next # 0 -> bracket
        [] p[i] = "\\" /\ i < Len(p) -> [ok |-> CharsMatch(p[i + 1], c, nocase), next |-> i + 2]
        [] OTHER -> [ok |-> CharsMatch(p[i], c, nocase), next |-> i + 1]

-----------------------------------------------------------------------------
(* The plain matcher                                                          *)

BackTo_TheSamePlace(s) == [s EXCEPT !.p = s.star + 1, !.w = s.w + 1, !.from = s.w + 1]
\* case_pattern_matches_at_with_case: it goes back to the last star only. s.star
\* is its place, 0 before the first, s.from where its characters end.
BackTo(s) == [s EXCEPT !.p = s.star + 1, !.w = s.from + 1, !.from = s.from + 1]
MatchStep(p, word, nocase, s) ==
  IF CharAt(p, s.p) = "*" THEN [s EXCEPT !.p = @ + 1, !.star = s.p, !.from = s.w]
  ELSE LET atom == IF s.p > Len(p) THEN [ok |-> FALSE] ELSE AtomMatch(p, s.p, word[s.w], nocase)
       IN  IF atom.ok THEN [s EXCEPT !.p = atom.next, !.w = @ + 1]
           ELSE IF s.star = 0 THEN [s EXCEPT !.failed = TRUE] ELSE BackTo(s)
RECURSIVE MatchFrom(_, _, _, _)
MatchFrom(p, word, nocase, s) ==
  IF s.failed THEN FALSE
  ELSE IF s.w > Len(word) THEN \A i \in s.p..Len(p) : p[i] = "*"
  ELSE MatchFrom(p, word, nocase, MatchStep(p, word, nocase, s))
Matches(p, word, nocase) ==
  MatchFrom(p, word, nocase, [p |-> 1, w |-> 1, star |-> 0, from |-> 1, failed |-> FALSE])

-----------------------------------------------------------------------------
(* The matcher of extended patterns                                           *)

GroupSigns == {"@", "?", "*", "+", "!"}

\* extglob_group_end: the ) of the ( at i, or 0. What is in brackets is passed
\* over up to the first ].
RECURSIVE GroupEndFrom(_, _, _)
GroupEndFrom(p, i, depth) ==
  IF i > Len(p) THEN 0
  ELSE IF p[i] = ")" /\ depth = 1 THEN i
  ELSE LET closes == {k \in (i + 1)..Len(p) : p[k] = "]"} \cup {Len(p) + 1}
           next == IF p[i] = "[" THEN 1 + (CHOOSE k \in closes : \A m \in closes : k <= m)
                   ELSE IF p[i] = "\\" /\ i < Len(p) THEN i + 2 ELSE i + 1
       IN  GroupEndFrom(p, next, depth + (IF p[i] = "(" THEN 1 ELSE IF p[i] = ")" THEN -1 ELSE 0))
ExtGroupEnd(p) ==
  IF Len(p) >= 2 /\ p[1] \in GroupSigns /\ p[2] = "(" THEN GroupEndFrom(p, 2, 0) ELSE 0

\* extglob_split_alternatives: an empty one at the end is dropped. Brackets and
\* backslashes mean nothing to it.
SplitStep(s, c) ==
  IF c = "|" /\ s.depth = 0 THEN [s EXCEPT !.done = Append(@, s.current), !.current = << >>]
  ELSE [s EXCEPT !.current = Append(@, c),
                 !.depth = @ + (IF c = "(" THEN 1 ELSE IF c = ")" THEN -1 ELSE 0)]
Alternatives(inner) ==
  LET s == FoldLeft(SplitStep, [done |-> << >>, current |-> << >>, depth |-> 0], inner)
  IN  ToSet(s.done) \cup (IF s.current # << >> \/ s.done = << >> THEN {s.current} ELSE {})

\* The lengths some alternatives may take of a word: accepted, how long a piece
\* each place is the beginning of an accepted piece of.
RECURSIVE Repeated(_, _, _)
Repeated(pieces, at, end) ==
  {at} \cup UNION {Repeated(pieces, to, end) : to \in {k \in (at + 1)..end : <<at, k>> \in pieces}}
\* pieces: the places between which an alternative matches, 0 the beginning.
TakenBy(sign, pieces, end) ==
  LET once == {k \in 1..end : <<0, k>> \in pieces}
  IN  CASE sign = "@" -> once
        [] sign = "?" -> once \cup {0}
        [] sign = "*" -> Repeated(pieces, 0, end)
        [] sign = "+" -> UNION {Repeated(pieces, k, end) : k \in once}
        [] sign = "!" -> {k \in 0..end : <<0, k>> \notin pieces}

\* What the beginning of a pattern may do: the characters it is passed by and
\* the ones it takes of the word (extglob_match_literal_with_case).
Plain(p, word, nocase) ==
  IF p[1] = "*" THEN {<<1, 0>>} \cup (IF word = << >> THEN {} ELSE {<<0, 1>>})
  ELSE IF word = << >> THEN {}
  ELSE LET atom == AtomMatch(p, 1, word[1], nocase) IN IF atom.ok THEN {<<atom.next - 1, 1>>} ELSE {}

\* extglob_matches_at_with_case and the four it calls
RECURSIVE ExtMatches(_, _, _)
ExtMatches(p, word, nocase) ==
  IF p = << >> THEN word = << >>
  ELSE LET end == ExtGroupEnd(p)
           alternatives == Alternatives(SubSeq(p, 3, end - 1))
           pieces == {piece \in (0..Len(word)) \X (0..Len(word)) :
                        /\ piece[1] <= piece[2]
                        /\ \E alt \in alternatives : ExtMatches(alt, SubSeq(word, piece[1] + 1, piece[2]), nocase)}
           ways == IF end = 0 THEN Plain(p, word, nocase)
                   ELSE {<<end, k>> : k \in TakenBy(p[1], pieces, Len(word))}
       IN  \E way \in ways : ExtMatches(From(p, way[1] + 1), From(word, way[2] + 1), nocase)

-----------------------------------------------------------------------------
(* Parameters                                                                 *)

PrefixMatches(p, value) == {k \in 0..Len(value) : Matches(p, To(value, k), FALSE)}
SuffixMatches(p, value) == {k \in 0..Len(value) : Matches(p, From(value, k + 1), FALSE)}
Least(S) == CHOOSE k \in S : \A m \in S : k <= m
Greatest(S) == CHOOSE k \in S : \A m \in S : m <= k

\* remove_parameter_pattern
Removed(value, p, operator) ==
  LET prefixes == PrefixMatches(p, value)
      suffixes == SuffixMatches(p, value)
  IN  CASE operator \in {"#", "##"} /\ prefixes # {} ->
             From(value, 1 + (IF operator = "#" THEN Least(prefixes) ELSE Greatest(prefixes)))
        [] operator \in {"%", "%%"} /\ suffixes # {} ->
             To(value, IF operator = "%" THEN Greatest(suffixes) ELSE Least(suffixes))
        [] OTHER -> value

\* expand_replacement_amp: & stands for what was matched.
AmpStep(matched, s, c) ==
  IF s.quoted THEN [out |-> s.out \o (IF c \in {"&", "\\"} THEN <<c>> ELSE <<"\\", c>>), quoted |-> FALSE]
  ELSE IF c = "\\" THEN [s EXCEPT !.quoted = TRUE]
  ELSE [s EXCEPT !.out = @ \o (IF c = "&" THEN matched ELSE <<c>>)]
Amp(matched, replacement) ==
  FoldLeft(LAMBDA s, c : AmpStep(matched, s, c), [out |-> << >>, quoted |-> FALSE], replacement).out

\* pattern_match_length_bound: the most characters a pattern without a star
\* takes. -1 stands for no bound.
RECURSIVE BoundFrom(_, _, _)
BoundFrom(p, i, bound) ==
  IF i > Len(p) THEN bound
  ELSE IF p[i] = "*" THEN -1
  ELSE LET one == i + (IF CharAt(p, i + 1) \in {"!", "^"} THEN 2 ELSE 1)
           two == IF CharAt(p, one) = "]" THEN one + 1 ELSE one
           closes == {k \in two..Len(p) : p[k] = "]"}
           next == IF p[i] = "\\" THEN i + 2
                   ELSE IF p[i] = "[" /\ closes # {} THEN Least(closes) + 1 ELSE i + 1
       IN  BoundFrom(p, next, bound + 1)
Bound(p) == BoundFrom(p, 1, 0)

\* pattern_literal_tail_ends: where what follows the last star ends in the
\* value. {} stands for nowhere, AnyEnd for no such restriction.
AnyEnd(value) == 0..Len(value)
TailEnds(p, value) ==
  LET stars == {k \in DOMAIN p : p[k] = "*"}
      tail == IF stars = {} THEN << >> ELSE From(p, Greatest(stars) + 1)
  IN  IF tail = << >> \/ ToSet(tail) \cap {"?", "*", "[", "]", "\\"} # {} THEN AnyEnd(value)
      ELSE {k \in Len(tail)..Len(value) : SubSeq(value, k - Len(tail) + 1, k) = tail}

\* find_parameter_pattern_match: the first match that is not empty, as long as
\* it can be; << >> if there is none.
FoundMatch(value, p, cursor, nocase, bound, ends) ==
  LET long == {m \in (cursor..Len(value)) \X (cursor..Len(value)) :
                 /\ m[1] < m[2] /\ m[2] \in ends
                 /\ bound = -1 \/ m[2] - m[1] <= bound
                 /\ Matches(p, SubSeq(value, m[1] + 1, m[2]), nocase)}
  IN  IF long = {} THEN << >>
      ELSE CHOOSE m \in long : \A o \in long : m[1] < o[1] \/ (m[1] = o[1] /\ o[2] <= m[2])

RECURSIVE ReplacedFrom(_, _, _, _, _, _)
ReplacedFrom(value, p, replacement, global, nocase, cursor) ==
  LET found == FoundMatch(value, p, cursor, nocase, Bound(p), TailEnds(p, value))
  IN  IF found = << >> THEN From(value, cursor + 1)
      ELSE SubSeq(value, cursor + 1, found[1]) \o Amp(SubSeq(value, found[1] + 1, found[2]), replacement)
             \o (IF global THEN ReplacedFrom(value, p, replacement, global, nocase, found[2])
                 ELSE From(value, found[2] + 1))

\* parse_negated_bracket_filter: a pattern from [! to ] is taken for one bracket.
IsFilter(p) == Len(p) > 3 /\ p[1] = "[" /\ p[2] \in {"!", "^"} /\ Last(p) = "]"
RECURSIVE FilterFrom(_, _, _, _)
FilterFrom(inner, i, c, nocase) ==
  /\ i <= Len(inner)
  /\ IF i + 2 <= Len(inner) /\ inner[i + 1] = "-"
     THEN Between(inner[i], c, inner[i + 2], FALSE) \/ FilterFrom(inner, i + 3, c, nocase)
     ELSE CharsMatch(inner[i], c, nocase) \/ FilterFrom(inner, i + 1, c, nocase)

\* The pattern without wildcards: LiteralMatches, from left to right.
RECURSIVE LiteralFrom(_, _, _, _, _, _)
LiteralFrom(value, p, replacement, global, nocase, cursor) ==
  LET hits == {k \in cursor..(Len(value) - Len(p)) :
                 \A j \in DOMAIN p : CharsMatch(p[j], value[k + j], nocase)}
  IN  IF hits = {} THEN From(value, cursor + 1)
      ELSE LET k == Least(hits)
               after == k + Len(p)
           IN  SubSeq(value, cursor + 1, k) \o Amp(SubSeq(value, k + 1, after), replacement)
                 \o (IF global THEN LiteralFrom(value, p, replacement, global, nocase, after)
                     ELSE From(value, after + 1))

\* replace_parameter_pattern
Replaced(value, p, replacement, global, nocase) ==
  LET anchored == From(p, 2)
      prefixes == PrefixMatches(anchored, value)
      suffixes == SuffixMatches(anchored, value)
  IN  CASE ~global /\ CharAt(p, 1) = "#" ->
             IF prefixes = {} THEN value
             ELSE Amp(To(value, Greatest(prefixes)), replacement) \o From(value, Greatest(prefixes) + 1)
        [] ~global /\ CharAt(p, 1) = "%" ->
             IF suffixes = {} THEN value
             ELSE To(value, Least(suffixes)) \o Amp(From(value, Least(suffixes) + 1), replacement)
        [] p = << >> ->
             Amp(<< >>, replacement)
               \o (IF global THEN FlattenSeq([k \in DOMAIN value |-> <<value[k]>> \o Amp(<< >>, replacement)]) ELSE value)
        [] value = << >> -> IF Matches(p, << >>, nocase) THEN Amp(<< >>, replacement) ELSE << >>
        [] global /\ replacement = << >> /\ IsFilter(p) ->
             SelectSeq(value, LAMBDA c : FilterFrom(SubSeq(p, 3, Len(p) - 1), 1, c, nocase))
        [] ToSet(p) \cap {"*", "?", "[", "\\"} = {} ->
             LiteralFrom(value, p, replacement, global, nocase, 0)
        [] OTHER -> ReplacedFrom(value, p, replacement, global, nocase, 0)
=============================================================================
