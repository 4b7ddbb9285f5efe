-------------------------------- MODULE Braces --------------------------------
(* Brace expansion: the first group of a word is replaced by its items, and   *)
(* each word that comes of it is looked through again from its beginning.     *)
(*                                                                            *)
(* A word is a sequence of characters. Blanks are left out, and steps that do *)
(* not fit a character.                                                       *)
EXTENDS Patterns

CONSTANTS Codes,         \* the characters ranges run through, in their order
          Largest        \* the largest number of the machine

Letters == ToSet(Codes) \cap ToSet(Alphabet)
CodeOf(c) == CHOOSE k \in DOMAIN Codes : Codes[k] = c
DigitSeq == <<"0", "1", "2", "3", "4", "5", "6", "7", "8", "9">>
DigitOf(c) == (CHOOSE k \in 1..10 : DigitSeq[k] = c) - 1

-----------------------------------------------------------------------------
(* Text that is passed over                                                   *)

\* The place after a span that ends with a character, one past the word if it
\* does not. A backslash hides the next character, in every kind of quotes.
RECURSIVE Quoted1End(_, _, _)
Quoted1End(w, i, closer) ==
  IF i > Len(w) THEN Len(w) + 1
  ELSE IF w[i] = closer THEN i + 1
  ELSE Quoted1End(w, i + (IF w[i] = "\\" THEN 2 ELSE 1), closer)

\* skip_dollar_brace_body, skip_dollar_paren_body
Quotes == {"'", "\""}
Toggled(quote, c) == IF quote = "" THEN c ELSE IF quote = c THEN "" ELSE quote
RECURSIVE BodyEnd(_, _, _, _, _)
BodyEnd(w, i, pair, depth, quote) ==
  IF i > Len(w) THEN Len(w) + 1
  ELSE LET c == w[i]
           deeper == depth + (IF quote # "" THEN 0 ELSE IF c = pair[1] THEN 1 ELSE IF c = pair[2] THEN -1 ELSE 0)
       IN  IF c = "\\" /\ quote # "'" THEN BodyEnd(w, i + 2, pair, depth, quote)
           ELSE IF c \in Quotes THEN BodyEnd(w, i + 1, pair, depth, Toggled(quote, c))
           ELSE IF deeper = 0 THEN i + 1
           ELSE BodyEnd(w, i + 1, pair, deeper, quote)

\* The end of a substitution or a parameter at i, or i.
UnitEnd(w, i) ==
  CASE w[i] = "bq" -> Quoted1End(w, i + 1, "bq")
    [] w[i] = "$" /\ CharAt(w, i + 1) = "(" -> BodyEnd(w, i + 2, <<"(", ")">>, 1, "")
    [] w[i] = "$" /\ CharAt(w, i + 1) = "{" -> BodyEnd(w, i + 2, <<"{", "}">>, 1, "")
    [] OTHER -> i
Passed_LooksIntoQuotes(w, i) == IF w[i] = "\\" THEN i + 2 ELSE IF UnitEnd(w, i) # i THEN UnitEnd(w, i) ELSE i + 1
\* What the search for a group passes over at i, i + 1 if nothing.
Passed(w, i) ==
  IF w[i] = "\\" THEN i + 2
  ELSE IF w[i] \in Quotes THEN Quoted1End(w, i + 1, w[i])
  ELSE IF UnitEnd(w, i) # i THEN UnitEnd(w, i)
  ELSE IF w[i] = "$" /\ CharAt(w, i + 1) = "'" THEN Quoted1End(w, i + 2, "'")
  ELSE i + 1

-----------------------------------------------------------------------------
(* A group                                                                    *)

\* The place of the } of a group, 0 if there is none, and the commas and the
\* two dots that are in no group within it. A backslash in quotes is nothing.
RECURSIVE GroupFrom(_, _, _, _, _)
GroupFrom(w, i, depth, quote, s) ==
  IF i > Len(w) THEN s
  ELSE IF w[i] \in Quotes THEN GroupFrom(w, i + 1, depth, Toggled(quote, w[i]), s)
  ELSE IF quote # "" THEN GroupFrom(w, i + 1, depth, quote, s)
  ELSE IF w[i] = "\\" THEN GroupFrom(w, i + 2, depth, quote, s)
  ELSE IF UnitEnd(w, i) # i THEN GroupFrom(w, UnitEnd(w, i), depth, quote, s)
  ELSE IF w[i] = "}" /\ depth = 1 THEN [s EXCEPT !.close = i]
  ELSE GroupFrom(w, i + 1, depth + (IF w[i] = "{" THEN 1 ELSE IF w[i] = "}" THEN -1 ELSE 0), quote,
         [s EXCEPT !.comma = @ \/ (w[i] = "," /\ depth = 1),
                   !.dots = @ \/ (w[i] = "." /\ depth = 1 /\ CharAt(w, i + 1) = ".")])
GroupAt(w, i) == GroupFrom(w, i + 1, 1, "", [close |-> 0, comma |-> FALSE, dots |-> FALSE])

\* split_brace_commas, and split_sequence_endpoints at the first two dots. An
\* escaped character is one even in quotes; substitutions are not passed over.
RECURSIVE CutsFrom(_, _, _, _, _)
CutsFrom(s, i, depth, quote, at) ==
  IF i > Len(s) THEN {}
  ELSE IF s[i] = "\\" THEN CutsFrom(s, i + 2, depth, quote, at)
  ELSE IF s[i] \in Quotes THEN CutsFrom(s, i + 1, depth, Toggled(quote, s[i]), at)
  ELSE LET now == depth + (IF quote # "" THEN 0 ELSE IF s[i] = "{" THEN 1 ELSE IF s[i] = "}" /\ depth > 0 THEN -1 ELSE 0)
           cut == depth = 0 /\ quote = "" /\ IF at = "," THEN s[i] = "," ELSE s[i] = "." /\ CharAt(s, i + 1) = "."
       IN  (IF cut THEN {i} ELSE {}) \cup CutsFrom(s, i + 1, now, quote, at)
Cuts(s, at) == CutsFrom(s, 1, 0, "", at)
RECURSIVE Items(_)
Items(s) ==
  LET cut == Least(Cuts(s, ","))
  IN  IF Cuts(s, ",") = {} THEN <<s>> ELSE <<To(s, cut - 1)>> \o Items(From(s, cut + 1))

\* inner_has_comma_group
RECURSIVE HasCommaGroup(_, _)
HasCommaGroup(s, i) ==
  /\ i <= Len(s)
  /\ LET end == BodyEnd(s, i + 1, <<"{", "}">>, 1, "")
     IN  IF s[i] = "{"
         THEN Cuts(SubSeq(s, i + 1, end - 1), ",") # {} \/ HasCommaGroup(s, end)
         ELSE HasCommaGroup(s, IF s[i] \in Quotes THEN Quoted1End(s, i + 1, s[i]) ELSE i + (IF s[i] = "\\" THEN 2 ELSE 1))

-----------------------------------------------------------------------------
(* Ranges                                                                     *)

SignedDigits(s) == IF CharAt(s, 1) \in {"-", "+"} THEN Tail(s) ELSE s
IsNumber(s) == SignedDigits(s) # << >> /\ ToSet(SignedDigits(s)) \subseteq ToSet(DigitSeq)
NumberOf(s) ==
  LET n == FoldLeft(LAMBDA so_far, c : 10 * so_far + DigitOf(c), 0, SignedDigits(s)) IN IF s[1] = "-" THEN -n ELSE n
RECURSIVE DigitsFor(_)
DigitsFor(n) == IF n < 10 THEN <<DigitSeq[n + 1]>> ELSE Append(DigitsFor(n \div 10), DigitSeq[(n % 10) + 1])
\* format_numeric_range_value, numeric_range_width: the longer of the two ends,
\* the sign counted, if one of them begins with a 0.
IsPadded(s) == LET digits == IF CharAt(s, 1) = "-" THEN Tail(s) ELSE s IN Len(digits) > 1 /\ digits[1] = "0"
NumberText(n, width) ==
  LET sign == IF n < 0 THEN <<"-">> ELSE << >>
      digits == DigitsFor(IF n < 0 THEN -n ELSE n)
      zeros == width - Len(sign) - Len(digits)
  IN  sign \o [k \in 1..(IF zeros > 0 THEN zeros ELSE 0) |-> "0"] \o digits

\* The numbers from one to the other. The last step may go over the largest
\* number, and the loop begins again at the least.
Steps(first, last, step) ==
  LET count == (IF first <= last THEN last - first ELSE first - last) \div step
  IN  [k \in 1..(count + 1) |-> IF first <= last THEN first + (k - 1) * step ELSE first - (k - 1) * step]
Endless(first, last, step) == first <= last /\ Last(Steps(first, last, step)) + step > Largest

\* The parts between two dots.
RECURSIVE Parted(_)
Parted(s) ==
  LET dots == {i \in 1..(Len(s) - 1) : s[i] = "." /\ s[i + 1] = "."}
  IN  IF dots = {} THEN <<s>> ELSE <<To(s, Least(dots) - 1)>> \o Parted(From(s, Least(dots) + 2))

\* expand_range: << >> if it is none, Forever if its loop does not end.
Forever == <<"forever">>
NumberItems(first, last, step, width) ==
  LET numbers == Steps(first, last, step)
  IN  IF Endless(first, last, step) THEN <<Forever>> ELSE [k \in DOMAIN numbers |-> NumberText(numbers[k], width)]
LetterItems(codes) == [k \in DOMAIN codes |-> IF Codes[codes[k]] = "\\" THEN << >> ELSE <<Codes[codes[k]]>>]
StepOf(given) == LET n == NumberOf(given) IN IF n < 0 THEN -n ELSE IF n = 0 THEN 1 ELSE n
WidthOf(left, right) ==
  IF IsPadded(left) \/ IsPadded(right) THEN IF Len(left) > Len(right) THEN Len(left) ELSE Len(right) ELSE 0
RangeBetween(left, right, given) ==
  CASE left = << >> \/ right = << >> \/ ~IsNumber(given) -> << >>
    [] IsNumber(left) /\ IsNumber(right) -> NumberItems(NumberOf(left), NumberOf(right), StepOf(given), WidthOf(left, right))
    [] Len(left) = 1 /\ Len(right) = 1 /\ {left[1], right[1]} \subseteq Letters ->
         LetterItems(Steps(CodeOf(left[1]), CodeOf(right[1]), StepOf(given)))
    [] OTHER -> << >>
RangeOfParts(parts) ==
  IF Len(parts) \notin {2, 3} THEN << >>
  ELSE RangeBetween(parts[1], parts[2], IF Len(parts) = 3 THEN parts[3] ELSE <<"1">>)
RangeItems(s) == RangeOfParts(Parted(s))

-----------------------------------------------------------------------------
(* The word                                                                   *)

\* What the group at i becomes, << >> if it stays: its items, its range, or the
\* words of the two ends of what looks like a range. stop: no other is tried.
NoItems(stop) == [items |-> << >>, stop |-> stop]
ItemsOrNone(items) == [items |-> IF Len(items) > 1 THEN items ELSE << >>, stop |-> FALSE]
Combined(lefts, rights) ==
  IF Len(lefts) > 1 \/ Len(rights) > 1
  THEN [items |-> FlattenSeq([k \in DOMAIN lefts |->
                    [m \in DOMAIN rights |-> lefts[k] \o <<".", ".">> \o rights[m]]]), stop |-> FALSE]
  ELSE NoItems(TRUE)
RECURSIVE Expanded(_)
RangeOrEnds(inner, range, dots) ==
  CASE range # << >> -> [items |-> range, stop |-> FALSE]
    [] "{" \notin ToSet(inner) -> NoItems(FALSE)
    [] HasCommaGroup(inner, 1) /\ dots # {} -> Combined(Expanded(To(inner, Least(dots) - 1)), Expanded(From(inner, Least(dots) + 2)))
    [] OTHER -> NoItems(TRUE)
BodyItems(group, inner) ==
  IF group.comma THEN ItemsOrNone(Items(inner)) ELSE RangeOrEnds(inner, RangeItems(inner), Cuts(inner, "."))
GroupItems(w, i, group) ==
  IF \/ group.close = 0 \/ ~(group.comma \/ group.dots)
     \/ i = 1 /\ CharAt(w, 2) = "}"
     \/ CharAt(w, i - 1) = "$"
  THEN NoItems(FALSE)
  ELSE BodyItems(group, SubSeq(w, i + 1, group.close - 1))

\* expand_single_brace, from i: the first group that becomes something and what
\* it becomes; no items if there is none.
FoundAt(i, group, became) == [at |-> i, close |-> group.close, items |-> became.items, stop |-> became.stop]
GroupFound(w, i, group) == FoundAt(i, group, GroupItems(w, i, group))
RECURSIVE FirstGroup(_, _)
NextGroup(w, i, next, found) ==
  IF found.items # << >> \/ found.stop THEN found ELSE FirstGroup(w, next)
NothingFound == [at |-> 0, close |-> 0, items |-> << >>, stop |-> FALSE]
FirstGroup(w, i) ==
  IF i > Len(w) THEN NothingFound
  ELSE NextGroup(w, i, Passed(w, i), IF w[i] = "{" THEN GroupFound(w, i, GroupAt(w, i)) ELSE NothingFound)

\* expand_braces
WithItems(w, found) ==
  IF found.items = << >> THEN <<w>>
  ELSE FlattenSeq([k \in DOMAIN found.items |->
         IF found.items[k] = Forever THEN <<Forever>>
         ELSE Expanded(To(w, found.at - 1) \o found.items[k] \o From(w, found.close + 1))])
Expanded(w) == WithItems(w, FirstGroup(w, 1))
=============================================================================
