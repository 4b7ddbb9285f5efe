------------------------------ MODULE ReadFields ------------------------------
(* What read does with a line: the fields the names get, or the elements of   *)
(* an array. A line is a sequence of characters: x stands for any that        *)
(* separates nothing, " " for white space and ":" for another separator when  *)
(* IFS has them, "\\" for the backslash.                                      *)
EXTENDS Integers, Sequences, FiniteSets, SequencesExt

CONSTANTS
  Lines,       \* the lines read
  Separators,  \* values of IFS, as sets of characters
  MaxNames     \* bound: names of one command

Backslash == "\\"
White == {" "}

-----------------------------------------------------------------------------
(* The code. Ranges are pairs of positions, the last one included.            *)

\* The first position from i on that is not of chars, Len + 1 if none.
SkipWhile(line, i, chars) ==
  CHOOSE j \in i..(Len(line) + 1) :
    /\ \A k \in i..(j - 1) : line[k] \in chars
    /\ j <= Len(line) => line[j] \notin chars

\* Positions that a backslash before them takes the meaning of.
EscapedIn(line) ==
  LET esc[i \in 0..Len(line)] == i > 1 /\ line[i - 1] = Backslash /\ ~esc[i - 1]
  IN  {i \in DOMAIN line : esc[i]}

\* Where the field from i on ends: at a separator, jumping over escaped pairs.
\* A backslash at the end of the line escapes nothing.
RECURSIVE FieldEnd(_, _, _, _)
FieldEnd(line, i, ifs, escapes) ==
  IF i > Len(line) \/ line[i] \in ifs THEN i
  ELSE IF escapes /\ line[i] = Backslash /\ i < Len(line) THEN FieldEnd(line, i + 2, ifs, escapes)
  ELSE FieldEnd(line, i + 1, ifs, escapes)

\* The white space behind a separator becomes part of the next field.
AfterSeparator_LeavesWhite(line, i, ifs) ==
  LET j == SkipWhile(line, i, ifs \cap White)
  IN  IF line[i] \in White THEN j ELSE i + 1

\* One separator with the white space round it.
AfterSeparator(line, i, ifs) ==
  LET white == ifs \cap White
      j == SkipWhile(line, i, white)
  IN  IF line[i] \in white
      THEN IF j <= Len(line) /\ line[j] \in ifs THEN SkipWhile(line, j + 1, white) ELSE j
      ELSE SkipWhile(line, i + 1, white)

RECURSIVE RangesFrom(_, _, _, _)
RangesFrom(line, i, ifs, escapes) ==
  IF i > Len(line) THEN << >>
  ELSE LET end == FieldEnd(line, i, ifs, escapes)
       IN  <<<<i, end - 1>>>> \o
             (IF end > Len(line) THEN << >>
              ELSE RangesFrom(line, AfterSeparator(line, end, ifs), ifs, escapes))

\* split_read_field_ranges: the empty field behind a last separator is dropped.
FieldRanges(line, ifs, escapes) ==
  IF ifs = {} THEN <<<<1, Len(line)>>>>
  ELSE RangesFrom(line, SkipWhile(line, 1, ifs \cap White), ifs, escapes)

\* unescape_read_backslashes
Unescape(line) ==
  LET kept == {i \in DOMAIN line : i \in EscapedIn(line) \/ line[i] # Backslash}
  IN  [k \in 1..Cardinality(kept) |->
        line[CHOOSE i \in kept : Cardinality({j \in kept : j <= i}) = k]]

\* The line without its last k characters, for the least k that leaves it
\* empty or ending in a character that stays.
TrimEnd(line, Stays(_)) ==
  LET ends == {i \in DOMAIN line : Stays(i)}
  IN  SubSeq(line, 1, IF ends = {} THEN 0 ELSE CHOOSE i \in ends : \A j \in ends : j <= i)

TrimBlind(line, ifs) == TrimEnd(line, LAMBDA i : line[i] \notin ifs \cap White)

\* trim_trailing_unescaped_ifs: an odd number of backslashes keeps the blank.
BackslashesBefore(line, i) ==
  Cardinality({k \in 1..(i - 1) : \A j \in k..(i - 1) : line[j] = Backslash})
TrimUnescaped(line, ifs) ==
  TrimEnd(line, LAMBDA i : line[i] \notin ifs \cap White \/ BackslashesBefore(line, i) % 2 = 1)

FieldValue(line, range, ifs, escapes) ==
  LET field == SubSeq(line, range[1], range[2])
  IN  IF escapes THEN Unescape(TrimUnescaped(field, ifs)) ELSE TrimBlind(field, ifs)

\* One name takes the whole line.
WholeLine(line, ifs, escapes) ==
  LET tail == TrimBlind(SubSeq(line, SkipWhile(line, 1, ifs \cap White), Len(line)), ifs)
      cut == IF tail # << >> /\ Last(tail) = Backslash THEN Front(tail) ELSE tail
  IN  IF escapes THEN Unescape(cut) ELSE tail

\* The last name takes what is left.
LastValue(line, ranges, n, ifs, escapes) ==
  CASE Len(ranges) < n -> << >>
    [] Len(ranges) = n -> FieldValue(line, ranges[n], ifs, escapes)
    [] OTHER -> LET tail == SubSeq(line, ranges[n][1], Len(line))
                IN  TrimBlind(IF escapes THEN Unescape(TrimUnescaped(tail, ifs)) ELSE tail, ifs)

ScalarFields(line, n, ifs, escapes) ==
  IF n = 1 THEN <<WholeLine(line, ifs, escapes)>>
  ELSE IF ifs = {}
  THEN [i \in 1..n |-> IF i > 1 THEN << >> ELSE IF escapes THEN Unescape(line) ELSE line]
  ELSE LET ranges == FieldRanges(line, ifs, escapes)
       IN  [i \in 1..n |->
             IF i = n THEN LastValue(line, ranges, n, ifs, escapes)
             ELSE IF i <= Len(ranges) THEN FieldValue(line, ranges[i], ifs, escapes) ELSE << >>]

\* read without a name: REPLY takes the line as it is.
Reply(line, escapes) == IF escapes THEN Unescape(line) ELSE line

\* The elements of an array; the empty ones go, white space or not, and an
\* empty IFS splits at white space.
ArrayRanges(line, ifs, escapes) ==
  LET separators == IF ifs = {} THEN White ELSE ifs
      splits == {i \in DOMAIN line : line[i] \in separators /\ ~(escapes /\ i \in EscapedIn(line))}
      starts == {i \in DOMAIN line : i \notin splits /\ (i = 1 \/ i - 1 \in splits)}
      nth(k) == CHOOSE i \in starts : Cardinality({j \in starts : j <= i}) = k
  IN  [k \in 1..Cardinality(starts) |->
        <<nth(k), CHOOSE e \in nth(k)..Len(line) :
            /\ \A j \in nth(k)..e : j \notin splits
            /\ e < Len(line) => e + 1 \in splits>>]
ArrayElements(line, ifs, escapes) ==
  LET ranges == ArrayRanges(line, ifs, escapes)
      word(k) == LET w == SubSeq(line, ranges[k][1], ranges[k][2])
                 IN  IF escapes THEN Unescape(w) ELSE w
      full == SelectSeq([k \in DOMAIN ranges |-> word(k)], LAMBDA w : w # << >>)
  IN  IF escapes THEN full ELSE [k \in DOMAIN ranges |-> word(k)]

-----------------------------------------------------------------------------
(* What fields are (POSIX, field splitting and read): every character is      *)
(* either a separator or text, escaped ones always text; a run of white space *)
(* with at most one other separator ends a field; white space at both ends of *)
(* the line ends nothing.                                                     *)

CharacterRoles(line, ifs, escapes) ==
  [i \in DOMAIN line |->
    CASE escapes /\ i \in EscapedIn(line) -> "text"
      [] escapes /\ line[i] = Backslash -> "nothing"
      [] line[i] \in ifs \cap White -> "white"
      [] line[i] \in ifs -> "separator"
      [] OTHER -> "text"]

\* Positions i..j of a line that are one whole delimiter.
Delimiter(m, i, j) ==
  /\ \A k \in i..j : m[k] \in {"white", "separator"}
  /\ Cardinality({k \in i..j : m[k] = "separator"}) <= 1

\* Where the fields start and where each one's delimiter ends.
RECURSIVE Cut(_, _)
Cut(m, i) ==
  IF i > Len(m) THEN << >>
  ELSE LET fieldEnds == {j \in i..Len(m) : m[j] \in {"white", "separator"}}
           e == IF fieldEnds = {} THEN Len(m) + 1 ELSE CHOOSE j \in fieldEnds : \A k \in fieldEnds : j <= k
           reach == {j \in e..Len(m) : Delimiter(m, e, j)}
           d == IF reach = {} THEN Len(m) ELSE CHOOSE j \in reach : \A k \in reach : k <= j
       IN  <<[from |-> i, to |-> e - 1, next |-> d + 1]>> \o Cut(m, d + 1)

LeadingWhite(m) == CHOOSE n \in 0..Len(m) : /\ \A k \in 1..n : m[k] = "white"
                                           /\ n < Len(m) => m[n + 1] # "white"
TrailingKept(m, i) ==
  LET kept == {j \in i..Len(m) : m[j] \in {"text", "separator"}}
  IN  IF kept = {} THEN i - 1 ELSE CHOOSE j \in kept : \A k \in kept : k <= j

TextOf(line, m, i, j) ==
  LET at == {k \in i..j : m[k] # "nothing"}
  IN  [n \in 1..Cardinality(at) |-> line[CHOOSE k \in at : Cardinality({l \in at : l <= k}) = n]]

PromisedFields(line, n, ifs, escapes) ==
  LET m == CharacterRoles(line, ifs, escapes)
      cut == Cut(m, LeadingWhite(m) + 1)
  IN  [k \in 1..n |->
        CASE k > Len(cut) -> << >>
          [] k < n \/ k = Len(cut) -> TextOf(line, m, cut[k].from, cut[k].to)
          [] OTHER -> TextOf(line, m, cut[k].from, TrailingKept(m, cut[k].from))]

\* A field is empty only between two separators that are not white space.
PromisedElements(line, ifs, escapes) ==
  LET m == CharacterRoles(line, ifs, escapes)
      cut == Cut(m, LeadingWhite(m) + 1)
  IN  [k \in DOMAIN cut |-> TextOf(line, m, cut[k].from, cut[k].to)]

-----------------------------------------------------------------------------
VARIABLES request, assigned

rfVars == <<request, assigned>>
NothingAssigned == [done |-> FALSE, values |-> << >>]

\* names = 0 is read without a name.
ReadFieldsInit ==
  /\ request \in [line : Lines, ifs : Separators, escapes : BOOLEAN, array : {FALSE}, names : 0..MaxNames]
       \cup [line : Lines, ifs : Separators, escapes : BOOLEAN, array : {TRUE}, names : {0}]
  /\ assigned = NothingAssigned

AssignScalars ==
  /\ ~assigned.done /\ ~request.array
  /\ assigned' = [done |-> TRUE, values |->
       IF request.names = 0 THEN <<Reply(request.line, request.escapes)>>
       ELSE ScalarFields(request.line, request.names, request.ifs, request.escapes)]
  /\ UNCHANGED request

AssignArray ==
  /\ ~assigned.done /\ request.array
  /\ assigned' = [done |-> TRUE, values |->
       ArrayElements(request.line, request.ifs, request.escapes)]
  /\ UNCHANGED request

ReadFieldsNext == AssignScalars \/ AssignArray
ReadFieldsSpec == ReadFieldsInit /\ [][ReadFieldsNext]_rfVars

-----------------------------------------------------------------------------
\* Known departures. With one name a separator at the end of a single field
\* stays in it, the blanks at the end go even when escaped, and those in front
\* of a last backslash stay.
OneName ==
  request.names = 1 /\
  LET m == CharacterRoles(request.line, request.ifs, request.escapes)
  IN  \/ Contains(m, "separator") /\ Len(Cut(m, LeadingWhite(m) + 1)) = 1
      \/ request.escapes /\ \E i \in DOMAIN m : m[i] = "text" /\ request.line[i] \in White \cup {Backslash}
      \/ request.line # << >> /\ Last(m) = "nothing"
\* A tail that is left to the last name loses the blanks an escape kept.
EscapedTail ==
  request.escapes /\ request.names > 1 /\ request.line # << >>
    /\ \E i \in EscapedIn(request.line) : request.line[i] \in White
\* Arrays have no empty element and know no empty IFS. (With "/" for IFS and -r
\* they have; it is not among the separators here.)
ArraysSplitAnywhere ==
  request.array /\
    \/ request.ifs = {} \/ Contains(PromisedElements(request.line, request.ifs, request.escapes), << >>)

PromisedValues ==
  IF request.array THEN PromisedElements(request.line, request.ifs, request.escapes)
  ELSE IF request.names = 0
  THEN <<TextOf(request.line, CharacterRoles(request.line, {}, request.escapes), 1, Len(request.line))>>
  ELSE PromisedFields(request.line, request.names, request.ifs, request.escapes)

\* read assigns the fields of the line as POSIX splits them, the last name the
\* rest of it, but for the departures named above.
FieldsAssigned ==
  assigned.done =>
    assigned.values = PromisedValues \/ OneName \/ EscapedTail \/ ArraysSplitAnywhere
=============================================================================
